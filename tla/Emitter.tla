------------------------------ MODULE Emitter ------------------------------
(***************************************************************************)
(* The emitter's application, emitter/src/main.c: the phone's commands,    *)
(* the vest's hits, the trigger, the reload and the periodic work items.   *)
(*                                                                         *)
(* Three cooperative threads run it: the Bluetooth receive thread (phone   *)
(* commands, vest notifications, mesh messages, connection callbacks), the *)
(* system work queue and the IR work queue.  A handler runs to its end     *)
(* unless it blocks, so each is one action, with one exception: on_vest_hit *)
(* sends to the phone in the middle of a death and may wait there for a    *)
(* buffer while the work queues run.  dying is TRUE in that window, and    *)
(* nothing else runs on the receive thread until it closes.                *)
(*                                                                         *)
(* A delayed work item is a member of work from the moment it is scheduled *)
(* until it runs or is cancelled; delays are not modelled, so an item may  *)
(* run at any time after it was scheduled.  What is sent to the phone and  *)
(* over the mesh has no effect on this state and is left out.              *)
(***************************************************************************)
EXTENDS GameState, BleLink

CONSTANTS
  Inputs,     \* the phone commands and outside events this instance uses
  GameConfigs,  \* outcomes of parsing a game configuration
  HitDedupSize, \* HIT_DEDUP_SIZE
  PullBound     \* bound on the history variable pullShots (TLC only)

\* What apply_game_config makes of a game configuration.  It returns early
\* on a truncated message: before the player list is read ("none"), or with
\* no room left for the emitter configuration ("roster").
GameConfigType ==
  [parsed : {"none", "roster", "full"}, friends : SUBSET Players, cfg : ConfigType]

ASSUME GameConfigsAssumption == GameConfigs \subseteq GameConfigType
ASSUME HitDedupSizeAssumption == HitDedupSize \in Nat \ {0}

VARIABLES
  estate,       \* current_state
  dying,        \* history of control: inside on_vest_hit, after apply_hit
  friendly,     \* friendly_ids
  hitDedup,     \* the last HitDedupSize packet ids, oldest first
  savedConfig,  \* "emitter/config" in flash
  pressed,      \* the level of the trigger pin
  triggerReady, \* trigger_ready
  pullShots,    \* history: shots fired by the current pull of the trigger
  work,         \* the work items that are scheduled
  vconn         \* vest_conn and cmd_rx_handle: "none", "linked", "ready"

triggerVars == <<pressed, triggerReady, pullShots>>
emVars == <<estate, dying, friendly, hitDedup, savedConfig, triggerVars, work, vconn>>
allEmVars == <<gsVars, linkVars, emVars>>

EmitterStates == {"IDLE", "PAIRING", "LOBBY_HOST", "LOBBY_SCAN", "GAME_ACTIVE", "DEAD"}
WorkItems == {"trigger", "reload", "playerState", "scoreboard", "lobbyAnnounce",
              "irTx", "pairingTx"}
Heartbeat == {"playerState", "scoreboard"}

EmTypeOK ==
  /\ GsTypeOK
  /\ LinkTypeOK
  /\ estate \in EmitterStates
  /\ dying \in BOOLEAN
  /\ friendly \in SUBSET Players
  /\ hitDedup \in Seq(PacketIds) /\ Len(hitDedup) <= HitDedupSize
  /\ savedConfig \in ConfigType
  /\ pressed \in BOOLEAN
  /\ triggerReady \in BOOLEAN
  /\ pullShots \in Nat
  /\ work \in SUBSET WorkItems
  /\ vconn \in {"none", "linked", "ready"}

EmInit ==
  /\ GsInit
  /\ estate = "IDLE"
  /\ dying = FALSE
  /\ friendly = {}
  /\ hitDedup = <<>>
  /\ savedConfig = ZeroConfig
  /\ pressed = FALSE
  /\ triggerReady = TRUE
  /\ pullShots = 0
  /\ work = {}
  /\ vconn = "none"

InGame == estate \in {"GAME_ACTIVE", "DEAD"}

\* ble_vest_is_connected: the command handle has been discovered.
VestConnected == vconn = "ready"

\* ble_vest_link_up: there is a connection object, discovered or not.
VestLinkUp == vconn # "none"

\* A phone command is handled on the receive thread.
Phone(command) == command \in Inputs /\ ~dying

-----------------------------------------------------------------------------
(* Starting a game.                                                        *)

\* Sent after the new friendly list and configuration are in place.
PushGameStart(friends, c) ==
  IF VestConnected
  THEN SendToVest(<<[cmd |-> "FRIENDLY_LIST", ids |-> friends],
                    [cmd |-> "FRIENDLY_FIRE", on |-> c.friendlyFire]>>)
  ELSE UNCHANGED toVest

\* CMD_START: the game begins with whatever configuration and friendly list
\* the emitter has.  Neither the reload nor the trigger work is cancelled.
CmdStart ==
  /\ Phone("START")
  /\ StartGame(cfg)
  /\ estate' = "GAME_ACTIVE"
  /\ PushGameStart(friendly, cfg)
  /\ work' = work \cup Heartbeat
  /\ UNCHANGED <<dying, friendly, hitDedup, savedConfig, triggerVars, vconn, link, toEmitter>>

\* Mutant: a configuration cut short starts no life.
StartGameLocalParsed(gc) ==
  LET friends == IF gc.parsed = "none" THEN friendly ELSE gc.friends
  IN  /\ friendly' = friends
      /\ IF gc.parsed = "full" THEN StartGame(gc.cfg) ELSE UNCHANGED gsVars
      /\ estate' = "GAME_ACTIVE"
      /\ PushGameStart(friends, cfg')
      /\ work' = (work \ {"lobbyAnnounce"}) \cup Heartbeat
      /\ UNCHANGED <<dying, hitDedup, savedConfig, triggerVars, vconn, link, toEmitter>>

\* Mutant: the periodic broadcasts are left to CMD_START.
StartGameLocalSilent(gc) ==
  LET friends == IF gc.parsed = "none" THEN friendly ELSE gc.friends
      c       == IF gc.parsed = "full" THEN gc.cfg ELSE cfg
  IN  /\ friendly' = friends
      /\ StartGame(c)
      /\ estate' = "GAME_ACTIVE"
      /\ PushGameStart(friends, c)
      /\ work' = work \ {"lobbyAnnounce"}
      /\ UNCHANGED <<dying, hitDedup, savedConfig, triggerVars, vconn, link, toEmitter>>

\* start_game_local: apply_game_config, then the same as CMD_START; the game
\* starts however much of the configuration was parsed.
StartGameLocal(gc) ==
  LET friends == IF gc.parsed = "none" THEN friendly ELSE gc.friends
      c       == IF gc.parsed = "full" THEN gc.cfg ELSE cfg
  IN  /\ friendly' = friends
      /\ StartGame(c)
      /\ estate' = "GAME_ACTIVE"
      /\ PushGameStart(friends, c)
      /\ work' = (work \ {"lobbyAnnounce"}) \cup Heartbeat
      /\ UNCHANGED <<dying, hitDedup, savedConfig, triggerVars, vconn, link, toEmitter>>

\* CMD_BROADCAST_GAME_CFG: the host starts its own game in any state.
CmdBroadcastGameCfg(gc) ==
  /\ Phone("BROADCAST_GAME_CFG")
  /\ StartGameLocal(gc)

\* on_mesh_game_start: a MESH_GAME_START from another emitter, whatever its
\* lobby; ignored by a player already in a game.
MeshGameStart(gc) ==
  /\ "MESH_GAME_START" \in Inputs
  /\ ~dying
  /\ ~InGame
  /\ StartGameLocal(gc)

-----------------------------------------------------------------------------
(* The phone's other commands.                                             *)

CmdConfig(c) ==
  /\ Phone("CONFIG")
  /\ SetConfig(c)
  /\ savedConfig' = c
  /\ UNCHANGED <<estate, dying, friendly, hitDedup, triggerVars, work, vconn, linkVars>>

CmdAmmoIncrease(n) ==
  /\ Phone("AMMO_INCREASE")
  /\ estate = "GAME_ACTIVE"
  /\ AddAmmo(n)
  /\ UNCHANGED <<emVars, linkVars>>

\* CMD_GAME_OVER cancels the trigger work with the rest; the vest is not told.
CmdGameOver ==
  /\ Phone("GAME_OVER")
  /\ estate' = "IDLE"
  /\ work' = work \ {"playerState", "scoreboard", "reload", "trigger"}
  /\ UNCHANGED <<dying, friendly, hitDedup, savedConfig, triggerVars, vconn, gsVars, linkVars>>

CmdStartLobbyHost ==
  /\ Phone("START_LOBBY_HOST")
  /\ estate' = "LOBBY_HOST"
  /\ work' = work \cup {"lobbyAnnounce"}
  /\ UNCHANGED <<dying, friendly, hitDedup, savedConfig, triggerVars, vconn, gsVars, linkVars>>

CmdStartLobbyScan ==
  /\ Phone("START_LOBBY_SCAN")
  /\ estate' = "LOBBY_SCAN"
  /\ UNCHANGED <<dying, friendly, hitDedup, savedConfig, triggerVars, work, vconn, gsVars, linkVars>>

CmdStopLobby ==
  /\ Phone("STOP_LOBBY")
  /\ estate' = "IDLE"
  /\ work' = work \ {"lobbyAnnounce"}
  /\ UNCHANGED <<dying, friendly, hitDedup, savedConfig, triggerVars, vconn, gsVars, linkVars>>

\* CMD_ENTER_PAIRING leaves a game in progress without stopping its work.
CmdEnterPairing ==
  /\ Phone("ENTER_PAIRING")
  /\ estate' = "PAIRING"
  /\ UNCHANGED <<dying, friendly, hitDedup, savedConfig, triggerVars, work, vconn, gsVars, linkVars>>

\* CMD_UNPAIR_VEST: the vest is told only when commands can flow, then the
\* link is closed without waiting for the write to arrive.
CmdUnpairVest ==
  /\ Phone("UNPAIR_VEST")
  /\ IF VestConnected THEN SendToVest(<<[cmd |-> "UNPAIR"]>>) ELSE UNCHANGED toVest
  /\ link' = IF link = "down" THEN "down" ELSE "closing"
  /\ UNCHANGED <<emVars, gsVars, toEmitter>>

\* Mutant: game_state_respawn is forgotten.
CmdRespawnLifeless ==
  /\ Phone("RESPAWN")
  /\ estate = "DEAD"
  /\ estate' = "GAME_ACTIVE"
  /\ IF VestConnected THEN SendToVest(<<[cmd |-> "RESPAWN"]>>) ELSE UNCHANGED toVest
  /\ work' = work \cup Heartbeat
  /\ UNCHANGED <<dying, friendly, hitDedup, savedConfig, triggerVars, vconn, gsVars, link, toEmitter>>

\* Mutant: what the death cancelled is not scheduled again.
CmdRespawnSilent ==
  /\ Phone("RESPAWN")
  /\ estate = "DEAD"
  /\ Respawn
  /\ estate' = "GAME_ACTIVE"
  /\ IF VestConnected THEN SendToVest(<<[cmd |-> "RESPAWN"]>>) ELSE UNCHANGED toVest
  /\ UNCHANGED <<dying, friendly, hitDedup, savedConfig, triggerVars, work, vconn, link, toEmitter>>

CmdRespawn ==
  /\ Phone("RESPAWN")
  /\ estate = "DEAD"
  /\ Respawn
  /\ estate' = "GAME_ACTIVE"
  /\ IF VestConnected THEN SendToVest(<<[cmd |-> "RESPAWN"]>>) ELSE UNCHANGED toVest
  /\ work' = work \cup Heartbeat
  /\ UNCHANGED <<dying, friendly, hitDedup, savedConfig, triggerVars, vconn, link, toEmitter>>

CmdReload ==
  /\ Phone("RELOAD")
  /\ estate = "GAME_ACTIVE"
  /\ StartReload
  /\ work' = work \cup {"reload"}
  /\ UNCHANGED <<estate, dying, friendly, hitDedup, savedConfig, triggerVars, vconn, linkVars>>

\* CMD_DEBUG_FIRE: one shot, past the trigger and trigger_ready.
CmdDebugFire ==
  /\ Phone("DEBUG_FIRE")
  /\ estate = "GAME_ACTIVE"
  /\ TryFire
  /\ work' = work \cup {"irTx"}
  /\ UNCHANGED <<estate, dying, friendly, hitDedup, savedConfig, triggerVars, vconn, linkVars>>

-----------------------------------------------------------------------------
(* The trigger and the work queues.                                        *)

\* trigger_pressed_cb: an edge restarts the debounce delay.
TriggerEdge ==
  /\ "TRIGGER" \in Inputs
  /\ pressed' = ~pressed
  /\ pullShots' = IF pressed THEN pullShots ELSE 0
  /\ work' = work \cup {"trigger"}
  /\ UNCHANGED <<estate, dying, friendly, hitDedup, savedConfig, triggerReady, vconn, gsVars, linkVars>>

\* Mutant: every weapon is handled as full-auto.
TriggerMayFireHeld == estate = "GAME_ACTIVE" /\ ~reloading /\ mag # 0

TriggerMayFire ==
  /\ estate = "GAME_ACTIVE"
  /\ ~reloading
  /\ mag # 0
  /\ cfg.fullAuto \/ triggerReady

TriggerReleased ==
  /\ ~pressed
  /\ triggerReady' = TRUE
  /\ work' = work \ {"trigger"}
  /\ UNCHANGED <<gsVars, pullShots>>

TriggerPairs ==
  /\ pressed /\ estate = "PAIRING"
  /\ work' = (work \ {"trigger"}) \cup {"pairingTx"}
  /\ UNCHANGED <<gsVars, triggerReady, pullShots>>

TriggerBlocked ==
  /\ pressed /\ estate # "PAIRING" /\ ~TriggerMayFire
  /\ work' = work \ {"trigger"}
  /\ UNCHANGED <<gsVars, triggerReady, pullShots>>

\* game_state_try_fire refused: try again after the fire period.
TriggerRetries ==
  /\ pressed /\ TriggerMayFire /\ ~CanFire
  /\ UNCHANGED <<gsVars, triggerReady, pullShots, work>>

\* A shot; full-auto goes on while there is ammunition.
TriggerFires ==
  /\ pressed /\ TriggerMayFire /\ pullShots < PullBound
  /\ TryFire
  /\ triggerReady' = FALSE
  /\ pullShots' = pullShots + 1
  /\ work' = (IF cfg.fullAuto /\ mag' > 0 THEN work ELSE work \ {"trigger"}) \cup {"irTx"}

\* trigger_work_handler
TriggerWork ==
  /\ "trigger" \in work
  /\ TriggerReleased \/ TriggerPairs \/ TriggerBlocked \/ TriggerRetries \/ TriggerFires
  /\ UNCHANGED <<estate, dying, friendly, hitDedup, savedConfig, pressed, vconn, linkVars>>

\* The state a work item other than the trigger's leaves alone.
OnlyWork == UNCHANGED <<estate, dying, friendly, hitDedup, savedConfig, triggerVars, vconn, linkVars>>

\* reload_work_handler completes a reload whether or not one is under way.
ReloadWork ==
  /\ "reload" \in work
  /\ CompleteReload
  /\ work' = work \ {"reload"}
  /\ OnlyWork

\* A periodic item reschedules itself while the state permits it.
PeriodicWork(item, states) ==
  /\ item \in work
  /\ work' = IF estate \in states THEN work ELSE work \ {item}
  /\ OnlyWork
  /\ UNCHANGED gsVars

\* Mutant: the announcement is not scheduled again.
LobbyAnnounceOnce == PeriodicWork("lobbyAnnounce", {})

PlayerStateWork == PeriodicWork("playerState", {"GAME_ACTIVE"})
ScoreboardWork == PeriodicWork("scoreboard", {"GAME_ACTIVE", "DEAD"})
LobbyAnnounceWork == PeriodicWork("lobbyAnnounce", {"LOBBY_HOST"})

\* ir_tx_work_handler: one burst, however often it was submitted meanwhile.
IrTxWork ==
  /\ "irTx" \in work
  /\ work' = work \ {"irTx"}
  /\ OnlyWork
  /\ UNCHANGED gsVars

\* pairing_tx_work_handler: a frame, and the next, until the trigger is
\* released, the emitter leaves pairing or a vest connects.
SendsPairing == estate = "PAIRING" /\ pressed /\ ~VestLinkUp

PairingTxWork ==
  /\ "pairingTx" \in work
  /\ work' = IF SendsPairing THEN work ELSE work \ {"pairingTx"}
  /\ OnlyWork
  /\ UNCHANGED gsVars

-----------------------------------------------------------------------------
(* Hits.                                                                   *)

HitAck(h) == SendToVest(<<[cmd |-> "HIT_ACK", id |-> h.id]>>)

SeenHit(h) == \E i \in DOMAIN hitDedup : hitDedup[i] = h.id

\* Mutant: a new id is compared and not remembered.
RememberHitNot(h) == UNCHANGED hitDedup

\* Mutant: the ring grows instead of wrapping.
RememberHitAppended(h) == hitDedup' = Append(hitDedup, h.id)

\* hit_dedup_check on a new id: it takes the place of the oldest.
RememberHit(h) ==
  LET all == Append(hitDedup, h.id)
  IN  hitDedup' = IF Len(all) > HitDedupSize THEN Tail(all) ELSE all

\* The alternatives of on_vest_hit.  Outside a game a hit is not even
\* acknowledged; inside one the acknowledgement comes first of all.
HitIgnored(h) ==
  /\ ~InGame
  /\ UNCHANGED <<toVest, hitDedup, dying, gsVars>>

HitDuplicate(h) ==
  /\ InGame /\ SeenHit(h)
  /\ HitAck(h)
  /\ UNCHANGED <<hitDedup, dying, gsVars>>

HitWhileDead(h) ==
  /\ estate = "DEAD" /\ ~SeenHit(h)
  /\ HitAck(h)
  /\ RememberHit(h)
  /\ UNCHANGED <<dying, gsVars>>

\* The victim's own configuration decides the damage.
HitApplied(h) ==
  /\ estate = "GAME_ACTIVE" /\ ~SeenHit(h)
  /\ HitAck(h)
  /\ RememberHit(h)
  /\ ApplyHit(cfg.damage)
  /\ dying' = Kills(cfg.damage)

\* on_vest_hit, up to the message to the phone in the case of a death.
VestHit(h) ==
  /\ ~dying
  /\ HitIgnored(h) \/ HitDuplicate(h) \/ HitWhileDead(h) \/ HitApplied(h)
  /\ UNCHANGED <<estate, friendly, savedConfig, triggerVars, work, vconn, link>>

\* Mutant: a death cancels a reload that is under way.
FinishDeathStopsReload ==
  /\ dying
  /\ dying' = FALSE
  /\ estate' = "DEAD"
  /\ SendToVest(<<[cmd |-> "DEATH"]>>)
  /\ work' = work \ (Heartbeat \cup {"reload"})
  /\ UNCHANGED <<friendly, hitDedup, savedConfig, triggerVars, vconn, gsVars, link, toEmitter>>

\* The rest of on_vest_hit after a death.
FinishDeath ==
  /\ dying
  /\ dying' = FALSE
  /\ estate' = "DEAD"
  /\ SendToVest(<<[cmd |-> "DEATH"]>>)
  /\ work' = work \ Heartbeat
  /\ UNCHANGED <<friendly, hitDedup, savedConfig, triggerVars, vconn, gsVars, link, toEmitter>>

\* hit_notify_cb: the next notification.
RecvHit ==
  /\ VestConnected /\ toEmitter # <<>>
  /\ VestHit(Head(toEmitter))
  /\ toEmitter' = Tail(toEmitter)

\* CMD_DEBUG_HIT: a hit with a packet id taken from the uptime.
CmdDebugHit(id, shooter) ==
  /\ Phone("DEBUG_HIT")
  /\ VestHit([id |-> id, shooter |-> shooter, serial |-> 0])
  /\ UNCHANGED toEmitter

-----------------------------------------------------------------------------
(* The connection to the vest, and power.                                  *)

\* vest_conn_connected: discovery starts; commands cannot flow yet.
EmConnected ==
  /\ vconn = "none" /\ ~dying
  /\ vconn' = "linked"
  /\ UNCHANGED <<estate, dying, friendly, hitDedup, savedConfig, triggerVars, work, gsVars>>

\* gatt_discover_cb has found both characteristics and subscribed.  Nothing
\* is sent to the vest, which may have missed the start of the game.
EmGattReady ==
  /\ vconn = "linked" /\ link = "up" /\ ~dying
  /\ vconn' = "ready"
  /\ link' = "ready"
  /\ UNCHANGED <<estate, dying, friendly, hitDedup, savedConfig, triggerVars, work, gsVars,
                 toVest, toEmitter>>

\* vest_conn_disconnected and on_vest_disconnected: the game goes on.
EmDisconnected ==
  /\ vconn # "none" /\ link = "down" /\ toEmitter = <<>> /\ ~dying
  /\ vconn' = "none"
  /\ UNCHANGED <<estate, dying, friendly, hitDedup, savedConfig, triggerVars, work, gsVars, linkVars>>

\* Power is lost and comes back: RAM is fresh, the saved configuration is
\* loaded, the link is gone with whatever was still to be received.
EmReboot ==
  /\ "REBOOT" \in Inputs
  /\ GsRestart(savedConfig)
  /\ estate' = "IDLE"
  /\ dying' = FALSE
  /\ friendly' = {}
  /\ hitDedup' = <<>>
  /\ triggerReady' = TRUE
  /\ work' = {}
  /\ vconn' = "none"
  /\ link' = "down"
  /\ toEmitter' = <<>>
  /\ \E n \in 0 .. Len(toVest) : toVest' = SubSeq(toVest, 1, n)
  /\ UNCHANGED <<savedConfig, pressed, pullShots>>

-----------------------------------------------------------------------------
PhoneCommand ==
  \/ CmdStart \/ CmdGameOver \/ CmdRespawn \/ CmdReload \/ CmdDebugFire
  \/ CmdStartLobbyHost \/ CmdStartLobbyScan \/ CmdStopLobby
  \/ CmdEnterPairing \/ CmdUnpairVest
  \/ \E c \in Configs : CmdConfig(c)
  \/ \E n \in AmmoGrants : CmdAmmoIncrease(n)
  \/ \E gc \in GameConfigs : CmdBroadcastGameCfg(gc) \/ MeshGameStart(gc)
  \/ \E id \in PacketIds, shooter \in Players : CmdDebugHit(id, shooter)

Work ==
  \/ TriggerWork \/ ReloadWork \/ PlayerStateWork \/ ScoreboardWork
  \/ LobbyAnnounceWork \/ IrTxWork \/ PairingTxWork

\* The uptime advances.
EmTick == Tick /\ UNCHANGED <<emVars, linkVars>>

\* What the emitter does on its own, whatever is at the other end of the link.
EmInternal ==
  \/ PhoneCommand
  \/ TriggerEdge
  \/ Work
  \/ FinishDeath
  \/ EmGattReady
  \/ EmDisconnected
  \/ EmReboot
  \/ EmTick

-----------------------------------------------------------------------------
(* The emitter beside any vest at all: one that connects and disconnects   *)
(* at will and notifies any hit at any time, repeats included.             *)

AnyVestConnects ==
  /\ "VEST" \in Inputs
  /\ link = "down"
  /\ link' = "up"
  /\ EmConnected
  /\ UNCHANGED <<toVest, toEmitter>>

AnyVestNotifies ==
  /\ link = "ready" /\ toEmitter = <<>>
  /\ \E id \in PacketIds, shooter \in Players :
       SendToEmitter(<<[id |-> id, shooter |-> shooter, serial |-> 0]>>)
  /\ UNCHANGED <<emVars, gsVars, link, toVest>>

\* It reads what it is sent at once.
AnyVestReads ==
  /\ toVest # <<>>
  /\ toVest' = <<>>
  /\ UNCHANGED <<emVars, gsVars, link, toEmitter>>

AnyVestDrops == LinkDrop /\ UNCHANGED <<emVars, gsVars>>

EmNext ==
  \/ EmInternal
  \/ RecvHit
  \/ AnyVestConnects \/ AnyVestNotifies \/ AnyVestReads \/ AnyVestDrops

EmAloneInit == LinkInit /\ EmInit

EmSpec == EmAloneInit /\ [][EmNext]_allEmVars
-----------------------------------------------------------------------------
(* Properties.                                                             *)

\* The reload flag cannot get stuck: it is cleared by a work item that four
\* handlers schedule, cancel or survive, and while a player is in a game and
\* unable to fire for reloading, that item is scheduled.
ReloadNeverStuck == InGame /\ reloading => "reload" \in work

\* The two records of life agree, current_state in main.c and alive in
\* game_state.c, except inside on_vest_hit: nobody plays on dead, and the
\* dead have no health left.
LifeMatchesState ==
  /\ estate = "GAME_ACTIVE" => alive # dying
  /\ estate = "DEAD" => ~alive /\ ~dying /\ health = 0

\* A living player keeps broadcasting its state and the scoreboard: death
\* cancels the two items and every way back into the game restarts them.
HeartbeatInGame == estate = "GAME_ACTIVE" => Heartbeat \subseteq work

\* A host announces its lobby for as long as it is in it.
LobbyAnnounced == estate = "LOBBY_HOST" => "lobbyAnnounce" \in work

\* From one rising edge of the trigger to the next a weapon that is not full-auto
\* fires once, whatever retries, reconfigurations and games the pull spans.  Each
\* edge begins a pull: whether one contact bounces into two is not judged.
OneShotPerPull ==
  [][pullShots' > pullShots /\ ~cfg.fullAuto => pullShots = 0]_allEmVars

\* main.c:513: the trigger handler "runs exactly once per stable
\* transition"; so once the pin has settled released, trigger_ready is set.
TriggerSettles == ~pressed /\ "trigger" \notin work => triggerReady
=============================================================================
