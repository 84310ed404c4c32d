---------------------------- MODULE HitDelivery ----------------------------
(***************************************************************************)
(* What the hit protocol between a vest and its emitter promises, whatever *)
(* is retried, lost or reconnected: the hits a vest registers are numbered *)
(* in order, and each is counted against the player at most once, in that  *)
(* order; a hit that is overtaken is lost.  A hit is never made up.        *)
(***************************************************************************)
EXTENDS Naturals

VARIABLES
  sent,      \* hits registered by the vest
  last,      \* the latest hit that counted
  counted    \* how many counted

hdVars == <<sent, last, counted>>

Init == sent = 0 /\ last = 0 /\ counted = 0

Register ==
  /\ sent' = sent + 1
  /\ UNCHANGED <<last, counted>>

Count ==
  /\ last' \in last + 1 .. sent
  /\ counted' = counted + 1
  /\ UNCHANGED sent

Spec == Init /\ [][Register \/ Count]_hdVars
=============================================================================
