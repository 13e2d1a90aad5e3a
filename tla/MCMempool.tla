------------------------------ MODULE MCMempool ------------------------------
(***************************************************************************)
(* Two submitters, two senders; transfers the sender may be unable to      *)
(* afford, two rival registrations of one name, one bad signature.         *)
(***************************************************************************)
EXTENDS MempoolSpec

CONSTANTS Alice, Bob, Nick

Pay(from, to, n) == CreateSigned(from, to, 1, n)
Claim(from, n) == CreateUsernameRegistration(from, Nick, n)

MCTxs ==
    { Pay(Alice, Bob, n) : n \in 0 .. 1 } \cup { Pay(Bob, Alice, 0) } \cup
    { Claim(Alice, 0), Claim(Bob, 0), Claim(Bob, 1) } \cup
    { [Pay(Bob, Alice, 0) EXCEPT !.signed = FALSE] }
==============================================================================
