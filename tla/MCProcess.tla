------------------------------ MODULE MCProcess ------------------------------
(***************************************************************************)
(* Two processes, the second started with the first one's status port.     *)
(***************************************************************************)
EXTENDS Process

CONSTANTS n1, n2

MCMaxKeys == [n \in Node |-> IF n = n1 THEN 2 ELSE 1]
MCP2PPort == [n \in Node |-> IF n = n1 THEN 1 ELSE 2]
==============================================================================
