------------------------------- MODULE Mempool -------------------------------
(***************************************************************************)
(* megabyte::mempool::Mempool (mempool/mempool.hpp): the queue of pending  *)
(* transactions, admission against the state store, and the miner's take.  *)
(* add() holds the mempool's mutex throughout but visits the store twice,  *)
(* once for the nonce and once for the balance, and the store can change   *)
(* between the two visits.                                                 *)
(***************************************************************************)
EXTENDS StateStore, FiniteSets

CONSTANTS
    Submitter,       \* threads that call add(): the shell and peer handlers
    NoTx,            \* "no call in progress"
    NoThread,        \* "mutex free"
    MaxTxPerBlock    \* kMaxTxPerBlock (20 in the code)

ASSUME MempoolAssumption ==
    /\ NoTx \notin Transaction
    /\ NoThread \notin Submitter
    /\ MaxTxPerBlock \in Nat \ {0}

VARIABLES
    pending,         \* Mempool::pending_
    pendingSenders,  \* Mempool::pendingSenders_
    lockHolder,      \* the Submitter inside add() with Mempool::mutex_ held
    adding           \* the transaction each Submitter's add() is working on

mempoolVars == << pending, pendingSenders, lockHolder, adding >>

MempoolInit ==
    /\ pending = << >>
    /\ pendingSenders = {}
    /\ lockHolder = NoThread
    /\ adding = [t \in Submitter |-> NoTx]

------------------------------------------------------------------------------

\* add() is called.  A transaction whose signature fails is refused at once,
\* before the mutex.
CallAdd(t, tx) ==
    /\ adding[t] = NoTx
    /\ adding' = [adding EXCEPT ![t] = IF tx.signed THEN tx ELSE NoTx]
    /\ UNCHANGED << pending, pendingSenders, lockHolder >>

\* Mutated form: a nonce still to come is let in.
CheckNonceAtLeast(t) ==
    /\ adding[t] # NoTx
    /\ lockHolder = NoThread
    /\ IF adding[t].nonce >= store.nonce[adding[t].sender]
       THEN lockHolder' = t /\ UNCHANGED adding
       ELSE adding' = [adding EXCEPT ![t] = NoTx] /\ UNCHANGED lockHolder
    /\ UNCHANGED << pending, pendingSenders >>

\* The mutex is taken and the nonce read: "bad nonce" lets go of both.
CheckNonce(t) ==
    /\ adding[t] # NoTx
    /\ lockHolder = NoThread
    /\ IF adding[t].nonce = store.nonce[adding[t].sender]
       THEN lockHolder' = t /\ UNCHANGED adding
       ELSE adding' = [adding EXCEPT ![t] = NoTx] /\ UNCHANGED lockHolder
    /\ UNCHANGED << pending, pendingSenders >>

\* Mutated form: a sender with a pending transaction is let in again.
AdmissibleTwice(tx) ==
    ~ (tx.type = "TRANSFER" /\ store.balance[tx.sender] < tx.amount)

\* "insufficient balance" (transfers only), "sender already has a pending tx".
Admissible(tx) ==
    /\ ~ (tx.type = "TRANSFER" /\ store.balance[tx.sender] < tx.amount)
    /\ tx.sender \notin pendingSenders

\* The rest of add(), from the balance check to the return.
FinishAdd(t) ==
    LET tx == adding[t] IN
    /\ lockHolder = t
    /\ pending' = IF Admissible(tx) THEN Append(pending, tx) ELSE pending
    /\ pendingSenders' = IF Admissible(tx) THEN pendingSenders \cup {tx.sender}
                                           ELSE pendingSenders
    /\ lockHolder' = NoThread
    /\ adding' = [adding EXCEPT ![t] = NoTx]

SendersOf(txs) == { txs[i].sender : i \in DOMAIN txs }

TakeCount == IF Len(pending) < MaxTxPerBlock THEN Len(pending) ELSE MaxTxPerBlock

\* What take(kMaxTxPerBlock) returns.
Taken == SubSeq(pending, 1, TakeCount)

\* take() reads every line it hands out to learn its sender.
TakeReads == \A i \in DOMAIN Taken : ~ LineThrows(Taken[i])

\* Mutated form: the senders of the transactions taken stay blocked.
TakeKeepsSenders ==
    /\ lockHolder = NoThread /\ TakeReads
    /\ pending' = SubSeq(pending, TakeCount + 1, Len(pending))
    /\ UNCHANGED << pendingSenders, lockHolder, adding >>

\* Mutated form: the newest transactions are popped.
TakeNewest ==
    /\ lockHolder = NoThread /\ TakeReads
    /\ pending' = SubSeq(pending, 1, Len(pending) - TakeCount)
    /\ pendingSenders' = SendersOf(pending')
    /\ UNCHANGED << lockHolder, adding >>

\* take(): waits for the mutex, pops up to the limit, oldest first.
Take ==
    /\ lockHolder = NoThread /\ TakeReads
    /\ pending' = SubSeq(pending, TakeCount + 1, Len(pending))
    /\ pendingSenders' = pendingSenders \ SendersOf(Taken)
    /\ UNCHANGED << lockHolder, adding >>

------------------------------------------------------------------------------

\* "one pending tx per sender" (mempool.hpp:5): the queue holds at most one
\* transaction of a sender, and pendingSenders_ names exactly the senders in
\* the queue, so nobody stays locked out and nobody gets in twice.
OnePerSender ==
    /\ pendingSenders = SendersOf(pending)
    /\ \A i, j \in DOMAIN pending : pending[i].sender = pending[j].sender => i = j

\* A pending transaction's nonce may fall behind its sender's account while it
\* waits, whatever mempool.hpp:5 says of the two matching, but is never ahead
\* of it: no pending transaction must wait for another to be applied first.
PendingNotFromFuture ==
    \A i \in DOMAIN pending : pending[i].nonce <= store.nonce[pending[i].sender]

\* First in, first out (mempool.hpp:5): the queue changes by one arrival at its
\* end or by losing a stretch at its front, never otherwise.
Fifo ==
    [][\/ Len(pending') = Len(pending) + 1 /\ IsPrefix(pending, pending')
       \/ IsSuffix(pending', pending)]_mempoolVars
==============================================================================
