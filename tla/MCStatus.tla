------------------------------ MODULE MCStatus ------------------------------
(***************************************************************************)
(* A small node for the status figures.                                    *)
(***************************************************************************)
EXTENDS Status, TLC

CONSTANTS w1, w2, sh

MCClient == Worker \cup {Shell}

Workers == Permutations(Worker)

\* A peer's chain two blocks above its genesis, of a difficulty of its own.
PeerHeader(i) ==
    [height |-> i - 1, stamp |-> "there", difficulty |-> 0, zeros |-> 1,
     txs |-> << IF i = 1 THEN "genesis" ELSE "mined" >>]

PeerChain ==
    { [i \in 1 .. 3 |-> PeerHeader(i) @@ [prev |-> [j \in 1 .. i - 1 |-> PeerHeader(j)]]] }
==============================================================================
