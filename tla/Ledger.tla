------------------------------- MODULE Ledger -------------------------------
(***************************************************************************)
(* What a node promises: one chain and the accounts it determines.  The    *)
(* chain grows by a block, and the accounts by that block's lines, in one  *)
(* step; or a longer chain is adopted, and the accounts are recomputed.    *)
(***************************************************************************)
EXTENDS StateStore

VARIABLE chain

ledgerVars == << chain, store >>

Init == Len(chain) = 1 /\ store = Replay(chain)

Extend ==
    /\ Len(chain') = Len(chain) + 1
    /\ IsPrefix(chain, chain')
    /\ store' = ApplyBlock(store, chain'[Len(chain')])

Adopt ==
    /\ Len(chain') > Len(chain)
    /\ store' = Replay(chain')

Spec == Init /\ [][Extend \/ Adopt]_ledgerVars
==============================================================================
