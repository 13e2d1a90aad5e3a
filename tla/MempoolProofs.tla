---------------------------- MODULE MempoolProofs ----------------------------
(***************************************************************************)
(* Safety of the mempool (mempool/mempool.hpp) for any number of           *)
(* submitters, any transactions and any block limit, with miners applying  *)
(* lines to the store at any moment and rebuilds emptying it.              *)
(***************************************************************************)
EXTENDS MempoolSpec, TLAPS

------------------------------------------------------------------------------
\* The store

LEMMA EmptyStoreType == EmptyStore \in StoreSet
  BY StateStoreAssumption DEF EmptyStore, StoreSet, U64

\* Applying a coinbase, or a transaction with a real receiver, keeps the store
\* well typed: CanTransfer keeps the debit from going below zero.
LEMMA ApplyCoinbaseType ==
    ASSUME NEW s \in StoreSet, NEW line, line.receiver \in Address, line.amount \in Nat
    PROVE  ApplyCoinbase(s, line) \in StoreSet
  <1>1. Wrap(s.balance[line.receiver] + line.amount) \in U64
    BY StateStoreAssumption DEF StoreSet, U64, Wrap
  <1> QED
    BY <1>1 DEF StoreSet, ApplyCoinbase

LEMMA ApplyTxType ==
    ASSUME NEW s \in StoreSet, NEW tx \in Transaction, WellTyped(tx)
    PROVE  ApplyTx(s, tx) \in StoreSet
  <1>1. tx.sender \in Address /\ tx.amount \in U64 /\ s.nonce[tx.sender] \in U64
    BY DEF Transaction, StoreSet
  <1>2. Wrap(s.nonce[tx.sender] + 1) \in U64
    BY <1>1, StateStoreAssumption DEF U64, Wrap
  <1>3. CASE CanRegister(s, tx)
    <2>1. tx.receiver \in Name
      BY <1>3 DEF CanRegister, WellTyped
    <2>2. Register(s, tx) \in StoreSet
      BY <1>1, <1>2, <2>1 DEF Register, StoreSet
    <2>3. ~ CanTransfer(s, tx)
      BY <1>3 DEF CanRegister, CanTransfer
    <2> QED
      BY <1>3, <2>2, <2>3 DEF ApplyTx
  <1>4. CASE ~ CanRegister(s, tx) /\ CanTransfer(s, tx)
    <2> DEFINE debited == [s.balance EXCEPT ![tx.sender] = @ - tx.amount]
    <2>1. s.balance[tx.sender] - tx.amount \in U64
      BY <1>1, <1>4, StateStoreAssumption DEF CanTransfer, U64, StoreSet
    <2>2. debited \in [Address -> U64]
      BY <2>1 DEF StoreSet
    <2>3. tx.receiver \in Address
      BY <1>4 DEF CanTransfer, WellTyped
    <2>4. Wrap(debited[tx.receiver] + tx.amount) \in U64
      BY <1>1, <2>2, <2>3, StateStoreAssumption DEF U64, Wrap
    <2>5. [debited EXCEPT ![tx.receiver] = Wrap(@ + tx.amount)] \in [Address -> U64]
      BY <2>2, <2>4
    <2>6. Transfer(s, tx) \in StoreSet
      BY <1>2, <2>5 DEF Transfer, StoreSet
    <2> QED
      BY <1>4, <2>6 DEF ApplyTx
  <1>5. CASE ~ CanRegister(s, tx) /\ ~ CanTransfer(s, tx)
    BY <1>5 DEF ApplyTx
  <1> QED
    BY <1>3, <1>4, <1>5

\* Below the bound on nonces, no account's nonce ever falls.
LEMMA ApplyTxNonce ==
    ASSUME NEW s \in StoreSet, NEW tx \in Transaction, tx.nonce < MaxNonce, NEW a \in Address
    PROVE  s.nonce[a] <= ApplyTx(s, tx).nonce[a]
  <1>1. tx.sender \in Address /\ tx.nonce \in Nat /\ s.nonce \in [Address -> Nat]
    BY DEF Transaction, StoreSet, U64
  <1>2. CASE ~ InOrder(s, tx)
    BY <1>1, <1>2 DEF ApplyTx, CanRegister, CanTransfer
  <1>3. CASE InOrder(s, tx)
    <2>1. Wrap(s.nonce[tx.sender] + 1) = s.nonce[tx.sender] + 1
      BY <1>1, <1>3, MempoolSpecAssumption, StateStoreAssumption DEF InOrder, Wrap
    <2> DEFINE bumped == [s.nonce EXCEPT ![tx.sender] = @ + 1]
    <2>2. s.nonce[a] <= bumped[a]
      BY <1>1
    <2>3. Register(s, tx).nonce = bumped /\ Transfer(s, tx).nonce = bumped
      BY <2>1 DEF Register, Transfer, StoreSet
    <2>4. \/ ApplyTx(s, tx) = s
          \/ ApplyTx(s, tx) = Register(s, tx)
          \/ ApplyTx(s, tx) = Transfer(s, tx)
      BY DEF ApplyTx, CanRegister, CanTransfer
    <2> QED
      BY <1>1, <2>2, <2>3, <2>4
  <1> QED
    BY <1>2, <1>3

------------------------------------------------------------------------------
\* The queue

\* take() removes a front stretch of the queue; what remains is a suffix.
LEMMA TakeSplits ==
    ASSUME pending \in Seq(Transaction)
    PROVE  /\ TakeCount \in 0 .. Len(pending)
           /\ Len(Taken) = TakeCount
           /\ \A i \in 1 .. TakeCount : Taken[i] = pending[i]
           /\ Len(SubSeq(pending, TakeCount + 1, Len(pending))) = Len(pending) - TakeCount
           /\ \A i \in 1 .. Len(pending) - TakeCount :
                SubSeq(pending, TakeCount + 1, Len(pending))[i] = pending[TakeCount + i]
  <1>1. TakeCount \in 0 .. Len(pending)
    BY MempoolAssumption DEF TakeCount
  <1> HIDE DEF TakeCount
  <1>2. Len(Taken) = TakeCount /\ \A i \in 1 .. TakeCount : Taken[i] = pending[i]
    BY <1>1 DEF Taken
  <1> QED
    BY <1>1, <1>2

\* What is left once a front stretch is gone is a suffix.
LEMMA DropFrontIsSuffix ==
    ASSUME NEW S, NEW s \in Seq(S), NEW k \in 0 .. Len(s)
    PROVE  IsSuffix(SubSeq(s, k + 1, Len(s)), s)
  <1> DEFINE t == SubSeq(s, k + 1, Len(s))
  <1>1. /\ t \in Seq(S) /\ Len(t) = Len(s) - k
        /\ \A i \in 1 .. Len(t) : t[i] = s[k + i]
    OBVIOUS
  <1> HIDE DEF t
  <1>2. /\ Reverse(t) \in Seq(S) /\ Len(Reverse(t)) = Len(t)
        /\ Reverse(s) \in Seq(S) /\ Len(Reverse(s)) = Len(s)
    BY <1>1 DEF Reverse
  <1>3. ASSUME NEW i \in 1 .. Len(t) PROVE Reverse(t)[i] = Reverse(s)[i]
    <2>1. /\ Reverse(t)[i] = t[(Len(t) - i) + 1] /\ (Len(t) - i) + 1 \in 1 .. Len(t)
          /\ Reverse(s)[i] = s[(Len(s) - i) + 1]
      BY <1>1 DEF Reverse
    <2>2. k + ((Len(t) - i) + 1) = (Len(s) - i) + 1
      BY <1>1
    <2> QED
      BY <1>1, <2>1, <2>2
  <1>4. SubSeq(Reverse(t), 1, Len(t)) = SubSeq(Reverse(s), 1, Len(t))
    BY <1>1, <1>2, <1>3
  <1>5. IsSuffix(t, s)
    BY <1>1, <1>2, <1>4 DEF IsSuffix, IsPrefix
  <1> QED
    BY <1>5 DEF t

------------------------------------------------------------------------------
\* The inductive invariant

LEMMA InitEstablishes == Init => MempoolInv
  <1> SUFFICES ASSUME Init PROVE MempoolInv
    OBVIOUS
  <1>1. MempoolTypeOK
    BY EmptyStoreType DEF Init, MempoolInit, MempoolTypeOK
  <1>2. HolderIsAdding /\ OnePerSender /\ NoFutureWhileSteady /\ HeldNonceNotFromFuture
    BY DEF Init, MempoolInit, HolderIsAdding, OnePerSender, SendersOf, NoFutureWhileSteady,
           PendingNotFromFuture, HeldNonceNotFromFuture
  <1> QED
    BY <1>1, <1>2 DEF MempoolInv

LEMMA CallAddPreserves ==
    ASSUME MempoolInv, NEW t \in Submitter, NEW tx \in Txs, CallAdd(t, tx),
           UNCHANGED << store, steady >>
    PROVE  MempoolInv'
  <1>1. tx \in Transaction
    BY MempoolSpecAssumption
  <1>2. /\ adding \in [Submitter -> Transaction \cup {NoTx}]
        /\ adding[t] = NoTx
        /\ adding' = [adding EXCEPT ![t] = IF tx.signed THEN tx ELSE NoTx]
        /\ UNCHANGED << pending, pendingSenders, lockHolder, store, steady >>
    BY DEF CallAdd, MempoolInv, MempoolTypeOK
  <1>3. MempoolTypeOK'
    BY <1>1, <1>2 DEF MempoolInv, MempoolTypeOK
  <1>4. lockHolder # NoThread => lockHolder # t /\ adding'[lockHolder] = adding[lockHolder]
    BY <1>2 DEF MempoolInv, MempoolTypeOK, HolderIsAdding
  <1>5. HolderIsAdding' /\ HeldNonceNotFromFuture'
    BY <1>2, <1>4 DEF MempoolInv, HolderIsAdding, HeldNonceNotFromFuture
  <1>6. OnePerSender' /\ NoFutureWhileSteady'
    BY <1>2 DEF MempoolInv, OnePerSender, SendersOf, NoFutureWhileSteady, PendingNotFromFuture
  <1> QED
    BY <1>3, <1>5, <1>6 DEF MempoolInv

LEMMA CheckNoncePreserves ==
    ASSUME MempoolInv, NEW t \in Submitter, CheckNonce(t), UNCHANGED << store, steady >>
    PROVE  MempoolInv'
  <1>1. /\ adding \in [Submitter -> Transaction \cup {NoTx}]
        /\ adding[t] \in Transaction
        /\ UNCHANGED << pending, pendingSenders, store, steady >>
    BY DEF CheckNonce, MempoolInv, MempoolTypeOK
  <1>2. OnePerSender' /\ NoFutureWhileSteady'
    BY <1>1 DEF MempoolInv, OnePerSender, SendersOf, NoFutureWhileSteady, PendingNotFromFuture
  <1>3. CASE adding[t].nonce = store.nonce[adding[t].sender]
    <2>1. lockHolder' = t /\ adding' = adding
      BY <1>3 DEF CheckNonce
    <2>2. MempoolTypeOK'
      BY <1>1, <2>1 DEF MempoolInv, MempoolTypeOK
    <2>3. HolderIsAdding'
      BY <2>1 DEF CheckNonce, HolderIsAdding
    <2>4. HeldNonceNotFromFuture'
      <3>1. adding[t].nonce \in Int
        BY <1>1 DEF Transaction, U64
      <3> QED
        BY <1>1, <1>3, <2>1, <3>1 DEF HeldNonceNotFromFuture
    <2> QED
      BY <1>2, <2>2, <2>3, <2>4 DEF MempoolInv
  <1>4. CASE adding[t].nonce # store.nonce[adding[t].sender]
    <2>1. lockHolder' = lockHolder /\ lockHolder = NoThread
          /\ adding' = [adding EXCEPT ![t] = NoTx]
      BY <1>4 DEF CheckNonce
    <2>2. MempoolTypeOK' /\ HolderIsAdding' /\ HeldNonceNotFromFuture'
      BY <1>1, <2>1
      DEF MempoolInv, MempoolTypeOK, HolderIsAdding, HeldNonceNotFromFuture
    <2> QED
      BY <1>2, <2>2 DEF MempoolInv
  <1> QED
    BY <1>3, <1>4

LEMMA FinishAddPreserves ==
    ASSUME MempoolInv, NEW t \in Submitter, FinishAdd(t), UNCHANGED << store, steady >>
    PROVE  MempoolInv'
  <1> DEFINE tx == adding[t]
  <1>1. /\ adding \in [Submitter -> Transaction \cup {NoTx}]
        /\ lockHolder = t /\ t # NoThread
        /\ pending \in Seq(Transaction)
        /\ pendingSenders \subseteq Address
    BY MempoolAssumption DEF FinishAdd, MempoolInv, MempoolTypeOK
  <1>2. tx \in Transaction /\ tx.sender \in Address
    BY <1>1 DEF MempoolInv, HolderIsAdding, Transaction
  <1>3. lockHolder' = NoThread /\ adding' = [adding EXCEPT ![t] = NoTx]
    BY DEF FinishAdd
  <1>4. HolderIsAdding' /\ HeldNonceNotFromFuture'
    BY <1>3 DEF HolderIsAdding, HeldNonceNotFromFuture
  <1>5. CASE ~ Admissible(tx)
    <2>1. UNCHANGED << pending, pendingSenders, store, steady >>
      BY <1>5 DEF FinishAdd
    <2>2. MempoolTypeOK'
      BY <1>1, <1>3, <2>1 DEF MempoolInv, MempoolTypeOK
    <2>3. OnePerSender' /\ NoFutureWhileSteady'
      BY <2>1 DEF MempoolInv, OnePerSender, SendersOf, NoFutureWhileSteady, PendingNotFromFuture
    <2> QED
      BY <1>4, <2>2, <2>3 DEF MempoolInv
  <1>6. CASE Admissible(tx)
    <2>1. /\ pending' = Append(pending, tx)
          /\ pendingSenders' = pendingSenders \cup {tx.sender}
          /\ tx.sender \notin pendingSenders
      BY <1>6 DEF FinishAdd, Admissible
    <2>2. /\ Len(pending) \in Nat /\ DOMAIN pending = 1 .. Len(pending)
          /\ DOMAIN pending' = 1 .. Len(pending) + 1
          /\ pending'[Len(pending) + 1] = tx
          /\ \A i \in 1 .. Len(pending) : pending'[i] = pending[i]
      BY <1>1, <1>2, <2>1
    <2>3. MempoolTypeOK'
      BY <1>1, <1>2, <1>3, <2>1 DEF MempoolInv, MempoolTypeOK
    <2>4. OnePerSender'
      <3>1. SendersOf(pending)' = SendersOf(pending) \cup {tx.sender}
        BY <2>2 DEF SendersOf
      <3>2. ASSUME NEW i \in 1 .. Len(pending) PROVE pending[i].sender # tx.sender
        BY <2>1, <2>2 DEF MempoolInv, OnePerSender, SendersOf
      <3>3. \A i, j \in DOMAIN pending' : pending'[i].sender = pending'[j].sender => i = j
        BY <2>2, <3>2 DEF MempoolInv, OnePerSender
      <3> QED
        BY <2>1, <3>1, <3>3 DEF MempoolInv, OnePerSender
    <2>5. NoFutureWhileSteady'
      <3>1. steady => tx.nonce <= store.nonce[tx.sender]
        BY <1>1 DEF MempoolInv, HeldNonceNotFromFuture
      <3> QED
        BY <2>2, <3>1 DEF MempoolInv, NoFutureWhileSteady, PendingNotFromFuture
    <2> QED
      BY <1>4, <2>3, <2>4, <2>5 DEF MempoolInv
  <1> QED
    BY <1>5, <1>6

LEMMA TakePreserves ==
    ASSUME MempoolInv, Take, UNCHANGED << store, steady >>
    PROVE  MempoolInv'
  <1>1. pending \in Seq(Transaction) /\ Len(pending) \in Nat
    BY DEF MempoolInv, MempoolTypeOK
  <1>2. /\ pending' = SubSeq(pending, TakeCount + 1, Len(pending))
        /\ pendingSenders' = pendingSenders \ SendersOf(Taken)
        /\ UNCHANGED << lockHolder, adding, store, steady >>
    BY DEF Take
  <1> DEFINE k == TakeCount
  <1>3. /\ k \in 0 .. Len(pending)
        /\ DOMAIN Taken = 1 .. k
        /\ \A i \in 1 .. k : Taken[i] = pending[i]
        /\ pending' \in Seq(Transaction)
        /\ DOMAIN pending' = 1 .. Len(pending) - k
        /\ \A i \in 1 .. Len(pending) - k : pending'[i] = pending[k + i]
    BY <1>1, <1>2, TakeSplits DEF Taken
  <1> HIDE DEF k
  <1>4. MempoolTypeOK'
    BY <1>2, <1>3 DEF MempoolInv, MempoolTypeOK
  <1>5. HolderIsAdding' /\ HeldNonceNotFromFuture'
    BY <1>2 DEF MempoolInv, HolderIsAdding, HeldNonceNotFromFuture
  <1>6. OnePerSender'
    <2>1. \A i, j \in 1 .. Len(pending) : pending[i].sender = pending[j].sender => i = j
      BY <1>1 DEF MempoolInv, OnePerSender
    <2>2. ASSUME NEW i \in DOMAIN pending', NEW j \in DOMAIN pending',
                 pending'[i].sender = pending'[j].sender
          PROVE  i = j
      <3>1. k + i \in 1 .. Len(pending) /\ k + j \in 1 .. Len(pending)
        BY <1>1, <1>3
      <3>2. pending[k + i].sender = pending[k + j].sender
        BY <1>3, <2>2
      <3>3. k + i = k + j
        BY <2>1, <3>1, <3>2
      <3> QED
        BY <1>1, <1>3, <3>3
    <2>3. SendersOf(pending)' = SendersOf(pending) \ SendersOf(Taken)
      <3>1. ASSUME NEW i \in DOMAIN pending'
            PROVE  pending'[i].sender \in SendersOf(pending) \ SendersOf(Taken)
        <4>1. k + i \in 1 .. Len(pending) /\ pending'[i] = pending[k + i]
          BY <1>1, <1>3
        <4>2. \A j \in DOMAIN Taken : Taken[j].sender # pending[k + i].sender
          BY <1>1, <1>3, <2>1, <4>1
        <4> QED
          BY <1>1, <4>1, <4>2 DEF SendersOf
      <3>2. ASSUME NEW i \in DOMAIN pending, pending[i].sender \notin SendersOf(Taken)
            PROVE  pending[i].sender \in SendersOf(pending)'
        <4>1. i \in 1 .. Len(pending) /\ i \notin 1 .. k
          BY <1>1, <1>3, <3>2 DEF SendersOf
        <4>2. i - k \in DOMAIN pending' /\ pending'[i - k] = pending[i]
          BY <1>1, <1>3, <4>1
        <4> QED
          BY <4>2 DEF SendersOf
      <3> QED
        BY <3>1, <3>2 DEF SendersOf
    <2> QED
      BY <1>2, <2>2, <2>3 DEF MempoolInv, OnePerSender
  <1>7. NoFutureWhileSteady'
    <2>1. store' = store /\ steady' = steady
      BY <1>2
    <2>2. ASSUME steady, NEW i \in DOMAIN pending'
          PROVE  pending'[i].nonce <= store.nonce[pending'[i].sender]
      <3>1. k + i \in DOMAIN pending /\ pending'[i] = pending[k + i]
        BY <1>1, <1>3
      <3> QED
        BY <2>2, <3>1 DEF MempoolInv, NoFutureWhileSteady, PendingNotFromFuture
    <2> QED
      BY <2>1, <2>2 DEF NoFutureWhileSteady, PendingNotFromFuture
  <1> QED
    BY <1>4, <1>5, <1>6, <1>7 DEF MempoolInv

\* The store moves forward under the mempool: nonces never fall.
LEMMA StoreAppliesPreserves ==
    ASSUME MempoolInv, StoreApplies
    PROVE  MempoolInv'
  <1>1. store \in StoreSet /\ UNCHANGED << pending, pendingSenders, lockHolder, adding, steady >>
    BY DEF MempoolInv, MempoolTypeOK, StoreApplies, mempoolVars
  <1>2. store' \in StoreSet /\ \A a \in Address : store.nonce[a] <= store'.nonce[a]
    <2>1. CASE \E tx \in Txs : tx.nonce < MaxNonce /\ store' = ApplyTx(store, tx)
      BY <1>1, <2>1, ApplyTxType, ApplyTxNonce, MempoolSpecAssumption
    <2>2. CASE \E a \in Address :
                 store.balance[a] = 0 /\ store' = ApplyCoinbase(store, Coinbase(a, 1))
      <3>1. store' \in StoreSet
        BY <1>1, <2>2, ApplyCoinbaseType DEF Coinbase
      <3>2. store'.nonce = store.nonce
        BY <1>1, <2>2 DEF ApplyCoinbase, StoreSet
      <3> QED
        BY <1>1, <3>1, <3>2 DEF StoreSet, U64
    <2> QED
      BY <2>1, <2>2 DEF StoreApplies
  <1>3. MempoolTypeOK'
    BY <1>1, <1>2 DEF MempoolInv, MempoolTypeOK
  <1>4. HolderIsAdding' /\ OnePerSender'
    BY <1>1 DEF MempoolInv, HolderIsAdding, OnePerSender, SendersOf
  <1>5. ASSUME NEW tx \in Transaction, tx.nonce <= store.nonce[tx.sender]
        PROVE  tx.nonce <= store'.nonce[tx.sender]
    <2>1. tx.sender \in Address /\ tx.nonce \in Int
          /\ store.nonce[tx.sender] \in Int /\ store'.nonce[tx.sender] \in Int
      BY <1>1, <1>2 DEF Transaction, StoreSet, U64
    <2> QED
      BY <1>2, <1>5, <2>1
  <1>6. NoFutureWhileSteady'
    <2> SUFFICES ASSUME steady, NEW i \in DOMAIN pending
                 PROVE  pending[i].nonce <= store'.nonce[pending[i].sender]
      BY <1>1 DEF NoFutureWhileSteady, PendingNotFromFuture
    <2>1. pending[i] \in Transaction
      BY DEF MempoolInv, MempoolTypeOK
    <2> QED
      BY <1>5, <2>1 DEF MempoolInv, NoFutureWhileSteady, PendingNotFromFuture
  <1>7. HeldNonceNotFromFuture'
    <2> SUFFICES ASSUME steady, lockHolder # NoThread
                 PROVE  adding[lockHolder].nonce <= store'.nonce[adding[lockHolder].sender]
      BY <1>1 DEF HeldNonceNotFromFuture
    <2>1. adding[lockHolder] \in Transaction
      BY DEF MempoolInv, MempoolTypeOK, HolderIsAdding
    <2> QED
      BY <1>5, <2>1 DEF MempoolInv, HeldNonceNotFromFuture
  <1> QED
    BY <1>3, <1>4, <1>6, <1>7 DEF MempoolInv

LEMMA StoreClearedPreserves ==
    ASSUME MempoolInv, StoreCleared
    PROVE  MempoolInv'
  <1>1. /\ UNCHANGED << pending, pendingSenders, lockHolder, adding >>
        /\ store' = EmptyStore /\ steady' = FALSE
    BY DEF StoreCleared, mempoolVars
  <1> QED
    BY <1>1, EmptyStoreType
    DEF MempoolInv, MempoolTypeOK, HolderIsAdding, OnePerSender, SendersOf,
        NoFutureWhileSteady, HeldNonceNotFromFuture

LEMMA NextPreserves == MempoolInv /\ [Next]_vars => MempoolInv'
  <1> SUFFICES ASSUME MempoolInv, [Next]_vars PROVE MempoolInv'
    OBVIOUS
  <1>1. CASE PoolStep /\ UNCHANGED << store, steady >>
    BY <1>1, CallAddPreserves, CheckNoncePreserves, FinishAddPreserves, TakePreserves
    DEF PoolStep
  <1>2. CASE StoreApplies
    BY <1>2, StoreAppliesPreserves
  <1>3. CASE StoreCleared
    BY <1>3, StoreClearedPreserves
  <1>4. CASE UNCHANGED vars
    BY <1>4
    DEF vars, mempoolVars, MempoolInv, MempoolTypeOK, HolderIsAdding, OnePerSender, SendersOf,
        NoFutureWhileSteady, PendingNotFromFuture, HeldNonceNotFromFuture
  <1> QED
    BY <1>1, <1>2, <1>3, <1>4 DEF Next

\* The invariant the theorems below rest on.
THEOREM MempoolInvariant == Spec => []MempoolInv
  BY InitEstablishes, NextPreserves, PTL DEF Spec

------------------------------------------------------------------------------
\* What a reader wants to know

\* Type correctness of the mempool and the store beside it: in particular no
\* transfer takes a balance below zero (applyTxLocked, account.hpp:112).
THEOREM TypeCorrect == Spec => []MempoolTypeOK
  <1>1. MempoolInv => MempoolTypeOK
    BY DEF MempoolInv
  <1> QED
    BY <1>1, MempoolInvariant, PTL

\* "one pending tx per sender" (mempool.hpp:5), and pendingSenders_ is exact.
THEOREM OnePendingPerSender == Spec => []OnePerSender
  <1>1. MempoolInv => OnePerSender
    BY DEF MempoolInv
  <1> QED
    BY <1>1, MempoolInvariant, PTL

\* Until a rebuild, no pending transaction is ahead of its sender's account,
\* though add() may queue it on an answer that is out of date (mempool.hpp:28).
THEOREM NoPendingFromFuture == Spec => []NoFutureWhileSteady
  <1>1. MempoolInv => NoFutureWhileSteady
    BY DEF MempoolInv
  <1> QED
    BY <1>1, MempoolInvariant, PTL

\* What add()'s check found still bounds the nonce when the transaction is
\* queued: blocks applied in between do not take an account back
\* (mempool.hpp:28-34).
THEOREM CheckOutlivesBlocks == Spec => []HeldNonceNotFromFuture
  <1>1. MempoolInv => HeldNonceNotFromFuture
    BY DEF MempoolInv
  <1> QED
    BY <1>1, MempoolInvariant, PTL

\* Arrivals join at the end, take() removes from the front; nothing else moves.
LEMMA StepIsFifo ==
    ASSUME MempoolInv, [Next]_vars, ~ UNCHANGED mempoolVars
    PROVE  \/ Len(pending') = Len(pending) + 1 /\ IsPrefix(pending, pending')
           \/ IsSuffix(pending', pending)
  <1> DEFINE Arrives == Len(pending') = Len(pending) + 1 /\ IsPrefix(pending, pending')
             Leaves == IsSuffix(pending', pending)
  <1>1. pending \in Seq(Transaction) /\ Len(pending) \in Nat
    BY DEF MempoolInv, MempoolTypeOK
  <1>2. CASE pending' = pending
    <2>1. SubSeq(pending, 0 + 1, Len(pending)) = pending /\ 0 \in 0 .. Len(pending)
      BY <1>1
    <2>2. IsSuffix(SubSeq(pending, 0 + 1, Len(pending)), pending)
      BY <1>1, <2>1, DropFrontIsSuffix
    <2> QED
      BY <1>2, <2>1, <2>2
  <1>3. ASSUME NEW t \in Submitter, FinishAdd(t), pending' # pending PROVE Arrives
    <2>1. adding[t] \in Transaction
      BY <1>3, MempoolAssumption
      DEF MempoolInv, MempoolTypeOK, HolderIsAdding, FinishAdd
    <2>2. pending' = Append(pending, adding[t])
      BY <1>3 DEF FinishAdd
    <2>3. /\ Len(pending') = Len(pending) + 1
          /\ SubSeq(pending, 1, Len(pending)) = SubSeq(pending', 1, Len(pending))
      BY <1>1, <2>1, <2>2
    <2> QED
      BY <1>1, <2>3 DEF IsPrefix
  <1>4. CASE Take
    <2>1. TakeCount \in 0 .. Len(pending)
      BY <1>1, TakeSplits
    <2> QED
      BY <1>1, <1>4, <2>1, DropFrontIsSuffix DEF Take
  <1> QED
    BY <1>2, <1>3, <1>4
    DEF Next, vars, PoolStep, StoreApplies, StoreCleared, CallAdd, CheckNonce

\* First in, first out (mempool.hpp:5), whatever the block limit and the callers:
\* the queue grows at its end, one at a time, and shrinks at its front.
THEOREM QueueIsFifo == Spec => Fifo
  <1>1. MempoolInv /\ [Next]_vars =>
          [\/ Len(pending') = Len(pending) + 1 /\ IsPrefix(pending, pending')
           \/ IsSuffix(pending', pending)]_mempoolVars
    BY StepIsFifo
  <1> QED
    BY <1>1, MempoolInvariant, PTL DEF Spec, Fifo

==============================================================================
