------------------------------- MODULE MCBridge -------------------------------
(* A small instance of Bridge: all DUSK there is belongs to one account, and  *)
(* the routes stand in a line with home at one end.                           *)
EXTENDS Bridge

CONSTANTS a1, c1, b1, b2

MCStart == [p \in People |-> IF p = a1 THEN MaxU64 ELSE 0]

MCPairs == {<<Home, b1>>, <<b1, Home>>, <<b1, b2>>, <<b2, b1>>}
=============================================================================
