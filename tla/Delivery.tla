------------------------------ MODULE Delivery ------------------------------
(***************************************************************************)
(* What asking a peer for its chain comes to: the lines of its answer, one *)
(* after the other from the first on; a connection that breaks may leave,  *)
(* after the last whole line, the beginning of another.                    *)
(***************************************************************************)
EXTENDS Sequences, Naturals

CONSTANT EndMark

VARIABLES
    lines,     \* the answer, EndMark not counted
    received,  \* the lines taken for blocks so far
    stage      \* "reading", "broken" or "done"

deliveryVars == << lines, received, stage >>

NextLine == IF Len(received) < Len(lines) THEN lines[Len(received) + 1] ELSE << EndMark >>

Init == received = << >> /\ stage = "reading"

Whole ==
    /\ stage = "reading" /\ Len(received) < Len(lines)
    /\ received' = Append(received, NextLine)
    /\ UNCHANGED << lines, stage >>

\* A break between two lines leaves nothing of the next one.
Break ==
    /\ stage = "reading" /\ stage' = "broken"
    /\ \/ UNCHANGED received
       \/ \E n \in DOMAIN NextLine : received' = Append(received, SubSeq(NextLine, 1, n))
    /\ UNCHANGED lines

\* The connection failed at once, the end mark came, or nothing more will.
Done ==
    /\ \/ stage = "broken"
       \/ stage = "reading" /\ Len(received) \in {0, Len(lines)}
    /\ stage' = "done"
    /\ UNCHANGED << lines, received >>

Spec == Init /\ [][Whole \/ Break \/ Done]_deliveryVars
==============================================================================
