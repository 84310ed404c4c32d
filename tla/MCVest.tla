------------------------------- MODULE MCVest -------------------------------
(* An instance of Vest for TLC: two emitters with different address bytes. *)
EXTENDS Vest

CONSTANTS e1, e2

MCPeers == {e1, e2}
MCLsbOf == [p \in MCPeers |-> IF p = e1 THEN 1 ELSE 2]
=============================================================================
