----------------------------- MODULE MCIrFrame -----------------------------
(* Instances of IrFrame for TLC: two players who shoot and one who pairs.  *)
EXTENDS IrFrame

Shot(player, team) == [kind |-> "hit", data |-> <<player, 0, team>>]
MCPackets == {Shot(1, 1), Shot(3, 2),
              [kind |-> "pairing", data |-> <<58, 193, 1>>]}
=============================================================================
