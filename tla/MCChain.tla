------------------------------- MODULE MCChain -------------------------------
(***************************************************************************)
(* Two mining clients, a user changing the difficulty, and a peer whose    *)
(* lists are longer, shorter, forged or cut.                               *)
(***************************************************************************)
EXTENDS ChainSpec, TLC

MCTxLines == { << "coinbase" >> }

\* A list of blocks with the given zeros, each mined on the one before.
Mined(zs, d) ==
    LET header(i) == [height |-> i - 1, stamp |-> "now", difficulty |-> d,
                      zeros |-> zs[i],
                      txs |-> << IF i = 1 THEN "genesis" ELSE "coinbase" >>]
    IN [i \in 1 .. Len(zs) |->
           header(i) @@ [prev |-> [j \in 1 .. i - 1 |-> header(j)]]]

Honest == Mined(<< 1, 1, 1, 1 >>, 1)

\* Honest chains of every length, and lists each check of the replacement
\* loop exists to refuse.
MCOffered ==
    { SubSeq(Honest, 1, n) : n \in 0 .. 4 } \cup
    { Mined(<< 1, 1, 0 >>, 1),                          \* last block not mined
      Mined(<< 0, 1, 1 >>, 1),                          \* genesis not mined
      SubSeq(Honest, 2, 4),                             \* does not start at 0
      << Honest[1], Honest[3], Honest[4] >>,            \* a block is missing
      [Honest EXCEPT ![2].txs = << >>],                 \* a block was altered
      [Honest EXCEPT ![4].height = 7] }                 \* wrong height
==============================================================================
