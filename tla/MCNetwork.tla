------------------------------ MODULE MCNetwork ------------------------------
(***************************************************************************)
(* Node a asks the other two, node b only a; c mines and may restart.      *)
(***************************************************************************)
EXTENDS Network

CONSTANTS a, b, c

MCStamp == Nodes \X (0 .. MaxRestarts)
MCPeersOf == [n \in Nodes |-> CASE n = a -> << b, c >> [] n = b -> << a >> [] OTHER -> << >>]
==============================================================================
