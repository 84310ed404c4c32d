----------------------------- MODULE MCHitPath -----------------------------
(* Instances of HitPath for TLC: one emitter, one vest, a weapon that      *)
(* kills with the second hit.                                              *)
EXTENDS HitPath

MCPeers == {Me}
MCLsbOf == [p \in MCPeers |-> 1]

Weapon == [damage |-> 1, magSize |-> 0, fireRate |-> 0, fullAuto |-> FALSE,
           total |-> 0, maxHealth |-> 2, friendlyFire |-> FALSE]

MCGameConfigs == {[parsed |-> "full", friends |-> {}, cfg |-> Weapon]}
=============================================================================
