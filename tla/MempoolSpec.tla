----------------------------- MODULE MempoolSpec -----------------------------
(***************************************************************************)
(* The mempool on its own, next to a store that other threads change:      *)
(* miners applying lines of blocks, and a rebuild emptying it.             *)
(***************************************************************************)
EXTENDS Mempool

CONSTANTS
    Txs,       \* transactions submitted, and mined here or elsewhere
    MaxNonce   \* bound: a sender's transactions stop applying at this nonce

ASSUME MempoolSpecAssumption ==
    /\ Txs \subseteq Transaction
    /\ \A tx \in Txs : WellTyped(tx)
    /\ MaxNonce \in Nat /\ MaxNonce < U64Modulus

VARIABLE steady   \* history: the store has not been emptied so far

vars == << mempoolVars, store, steady >>

Init == MempoolInit /\ store = EmptyStore /\ steady = TRUE

\* A miner applies a line of some block: a coinbase or a transaction that may
\* or may not have come through this mempool.
StoreApplies ==
    /\ \/ \E tx \in Txs : tx.nonce < MaxNonce /\ store' = ApplyTx(store, tx)
       \/ \E a \in Address :
            store.balance[a] = 0 /\ store' = ApplyCoinbase(store, Coinbase(a, 1))
    /\ UNCHANGED << mempoolVars, steady >>

\* rebuildFromBlocks clears the store.
StoreCleared ==
    /\ store' = EmptyStore
    /\ steady' = FALSE
    /\ UNCHANGED mempoolVars

PoolStep ==
    \/ \E t \in Submitter, tx \in Txs : CallAdd(t, tx)
    \/ \E t \in Submitter : CheckNonce(t)
    \/ \E t \in Submitter : FinishAdd(t)
    \/ Take

Next ==
    \/ PoolStep /\ UNCHANGED << store, steady >>
    \/ StoreApplies
    \/ StoreCleared

Spec == Init /\ [][Next]_vars

------------------------------------------------------------------------------

\* Type invariant.
MempoolTypeOK ==
    /\ pending \in Seq(Transaction)
    /\ pendingSenders \subseteq Address
    /\ lockHolder \in Submitter \cup {NoThread}
    /\ adding \in [Submitter -> Transaction \cup {NoTx}]
    /\ store \in StoreSet
    /\ steady \in BOOLEAN

\* Whoever holds the mutex is inside add() with a transaction in hand: how the
\* model keeps its own books, which the inductive invariant needs.
HolderIsAdding == lockHolder # NoThread => adding[lockHolder] # NoTx

\* Until a rebuild empties the store, no pending transaction is ahead of its
\* sender's account (the nonce check at mempool.hpp:28, whose answer may be old
\* by the time the transaction is queued).
NoFutureWhileSteady == steady => PendingNotFromFuture

\* What makes it inductive.  Between the two visits to the store, only the
\* caller's nonce check is known to have held: the account may have moved on,
\* never back.
HeldNonceNotFromFuture ==
    steady /\ lockHolder # NoThread =>
        adding[lockHolder].nonce <= store.nonce[adding[lockHolder].sender]

MempoolInv ==
    /\ MempoolTypeOK
    /\ HolderIsAdding
    /\ OnePerSender
    /\ NoFutureWhileSteady
    /\ HeldNonceNotFromFuture
==============================================================================
