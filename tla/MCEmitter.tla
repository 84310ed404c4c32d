----------------------------- MODULE MCEmitter -----------------------------
(* Instances of Emitter for TLC.  LinkCap is one buffer each way.          *)
EXTENDS Emitter

Rifle == [damage |-> 2, magSize |-> 2, fireRate |-> 1, fullAuto |-> TRUE,
          total |-> 3, maxHealth |-> 3, friendlyFire |-> FALSE]

Pistol == [damage |-> 1, magSize |-> 1, fireRate |-> 0, fullAuto |-> FALSE,
           total |-> 1, maxHealth |-> 1, friendlyFire |-> TRUE]

MCConfigs == {Rifle, Pistol}
MCAmmoGrants == {1}

\* Playing: everything that touches life, ammunition and the trigger.
CombatInputs == {"START", "CONFIG", "RESPAWN", "RELOAD", "GAME_OVER", "ENTER_PAIRING",
                 "TRIGGER", "DEBUG_HIT", "DEBUG_FIRE", "AMMO_INCREASE"}

\* Everything else: lobbies, pairing, game starts, the vest's link, power.
SessionInputs == {"START", "BROADCAST_GAME_CFG", "MESH_GAME_START", "START_LOBBY_HOST",
                  "START_LOBBY_SCAN", "STOP_LOBBY", "GAME_OVER", "ENTER_PAIRING",
                  "UNPAIR_VEST", "RESPAWN", "CONFIG", "REBOOT", "VEST"}

\* The session runs shoot nothing: a weapon without ammunition and two lives.
Unloaded == [damage |-> 1, magSize |-> 0, fireRate |-> 0, fullAuto |-> FALSE,
             total |-> 0, maxHealth |-> 2, friendlyFire |-> TRUE]

SessionConfigs == {Unloaded}

SessionGameConfigs ==
  {[parsed |-> "none", friends |-> {}, cfg |-> ZeroConfig],
   [parsed |-> "full", friends |-> {1}, cfg |-> Unloaded]}
=============================================================================
