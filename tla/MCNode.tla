------------------------------- MODULE MCNode -------------------------------
(***************************************************************************)
(* Small nodes.  Own is the wallet of the node under study, Ann another    *)
(* user whose transactions arrive from a peer, Far the peer's miner.       *)
(***************************************************************************)
EXTENDS Node, TLC

CONSTANTS Me, Ann, Far, Nick, Odd, w1, w2, h1, sh

MCLine == StoreLine

PayAnn == { [receiver |-> Ann, amount |-> 1] }
PayAnyone == { [receiver |-> a, amount |-> 1] : a \in {Me, Ann} }
AnnClaims == { CreateUsernameRegistration(Ann, Nick, 0) }
AddText == { Text }

\* The peer's chain: its own genesis, then the given transaction lists.
PeerHeader(i, txs) ==
    [height |-> i - 1, stamp |-> "there", difficulty |-> 1, zeros |-> 1,
     txs |-> IF i = 1 THEN << Text >> ELSE << Coinbase(Far, 4) >> \o txs]

PeerChain(txss) ==
    [i \in 1 .. Len(txss) + 1 |->
       PeerHeader(i, IF i = 1 THEN << >> ELSE txss[i - 1]) @@
         [prev |-> [j \in 1 .. i - 1 |-> PeerHeader(j, IF j = 1 THEN << >> ELSE txss[j - 1])]]]

NoPeer == << >>

\* Ann takes the name there, and then sends what she does not have.
PeerClaims ==
    PeerChain(<< << CreateUsernameRegistration(Ann, Nick, 0) >>,
                 << CreateSigned(Ann, Me, 1, 1) >> >>)

\* There `add` was given a text like a coinbase, without a number.
PeerAdds == PeerChain(<< << Malformed >> >>)

Workers == Permutations(Worker)

MCSubmitter == Handler \cup {Shell}
MCClient == Worker \cup {Shell}
==============================================================================
