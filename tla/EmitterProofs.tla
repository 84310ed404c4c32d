---------------------------- MODULE EmitterProofs ----------------------------
(* Proofs about Emitter, for any configurations, word size, inputs and     *)
(* vest at the other end of the link.                                      *)
EXTENDS Emitter, GameStateProofs, SequenceTheorems

-----------------------------------------------------------------------------
(* The inductive invariant.                                                *)

\* Between the hit that kills and the end of on_vest_hit the emitter is
\* still in its game with no health left: this is what FinishDeath finds.
DyingInGame == dying => estate = "GAME_ACTIVE" /\ health = 0

\* trigger_ready with the trigger held and its handler on the way means that
\* the pull has not fired.  After a power loss trigger_ready is set and the
\* trigger may still be held, but no handler runs before the next edge.
ReadyMeansUnfired == pressed /\ triggerReady /\ "trigger" \in work => pullShots = 0

Flags == alive \in BOOLEAN /\ dying \in BOOLEAN /\ pullShots \in Nat

SessionInv ==
  /\ Flags
  /\ ReloadNeverStuck
  /\ LifeMatchesState
  /\ HeartbeatInGame
  /\ LobbyAnnounced
  /\ DyingInGame
  /\ ReadyMeansUnfired

LEMMA SessionInvInit == EmInit => SessionInv
<1> SUFFICES ASSUME EmInit PROVE SessionInv
  OBVIOUS
<1>1. estate = "IDLE" /\ dying = FALSE /\ alive = FALSE /\ pullShots = 0
  BY Zenon DEF EmInit, GsInit, GsInitWith
<1> QED BY <1>1 DEF SessionInv, Flags, ReloadNeverStuck, InGame,
           LifeMatchesState, HeartbeatInGame, LobbyAnnounced, DyingInGame, ReadyMeansUnfired

\* Starting a life leaves a player who is alive and not reloading.
LEMMA FreshLifeFacts ==
  ASSUME NEW c, FreshLife(c)
  PROVE  alive' = TRUE /\ reloading' = FALSE
BY DEF FreshLife

-----------------------------------------------------------------------------
(* Hits.                                                                   *)

\* A hit that kills opens the window, and only a player in a game dies.
LEMMA VestHitKeeps ==
  ASSUME SessionInv, NEW h, VestHit(h)
  PROVE  SessionInv'
<1> USE DEF triggerVars, gsVars, SessionInv, Flags, ReloadNeverStuck, InGame, LifeMatchesState,
            HeartbeatInGame, LobbyAnnounced, DyingInGame, ReadyMeansUnfired
<1>1. CASE UNCHANGED <<dying, gsVars>>
  BY <1>1 DEF VestHit
<1>2. CASE HitApplied(h)
  <2>1. /\ ~dying /\ estate = "GAME_ACTIVE" /\ alive = TRUE
        /\ UNCHANGED <<estate, triggerVars, work, reloading>>
    BY <1>2 DEF VestHit, HitApplied, ApplyHit
  <2>2. alive' = ~dying' /\ dying' \in BOOLEAN /\ (dying' => health' = 0)
    BY <1>2, <2>1 DEF HitApplied, ApplyHit, Kills
  <2> QED BY <2>1, <2>2
<1> QED BY <1>1, <1>2 DEF VestHit, HitIgnored, HitDuplicate, HitWhileDead

-----------------------------------------------------------------------------
(* The phone's commands.                                                   *)

\* A game that starts brings the whole state of the session with it.
LEMMA GameStartKeeps ==
  ASSUME SessionInv, ~dying, estate' = "GAME_ACTIVE", NEW c, StartGame(c),
         Heartbeat \subseteq work',
         "trigger" \in work' => "trigger" \in work,
         UNCHANGED <<dying, triggerVars>>
  PROVE  SessionInv'
<1>1. alive' = TRUE /\ reloading' = FALSE
  BY FreshLifeFacts DEF StartGame
<1> QED BY <1>1 DEF SessionInv, Flags, ReloadNeverStuck, InGame, LifeMatchesState,
           HeartbeatInGame, LobbyAnnounced, DyingInGame, ReadyMeansUnfired, triggerVars

LEMMA PhoneCommandKeeps ==
  ASSUME SessionInv, PhoneCommand
  PROVE  SessionInv'
<1> USE DEF triggerVars, linkVars, Phone
<1>1. CASE CmdStart
  BY <1>1, GameStartKeeps DEF CmdStart, Heartbeat
<1>2. ASSUME NEW gc \in GameConfigs, CmdBroadcastGameCfg(gc) \/ MeshGameStart(gc)
      PROVE  SessionInv'
  BY <1>2, GameStartKeeps DEF CmdBroadcastGameCfg, MeshGameStart, StartGameLocal, Heartbeat
<1> USE DEF SessionInv, Flags, ReloadNeverStuck, InGame, LifeMatchesState, HeartbeatInGame,
            LobbyAnnounced, DyingInGame, ReadyMeansUnfired, emVars, gsVars
<1>3. CASE CmdGameOver
  BY <1>3 DEF CmdGameOver
<1>4. CASE CmdRespawn
  <2>1. alive' = TRUE /\ reloading' = FALSE
    BY <1>4, FreshLifeFacts DEF CmdRespawn, Respawn
  <2> QED BY <1>4, <2>1 DEF CmdRespawn, Heartbeat
<1>5. CASE CmdReload
  BY <1>5 DEF CmdReload, StartReload
<1>6. CASE CmdDebugFire
  BY <1>6 DEF CmdDebugFire, TryFire
<1>7. CASE CmdStartLobbyHost
  BY <1>7 DEF CmdStartLobbyHost
<1>8. CASE CmdStartLobbyScan
  BY <1>8 DEF CmdStartLobbyScan
<1>9. CASE CmdStopLobby
  BY <1>9 DEF CmdStopLobby
<1>10. CASE CmdEnterPairing
  BY <1>10 DEF CmdEnterPairing
<1>11. CASE CmdUnpairVest
  BY <1>11 DEF CmdUnpairVest
<1>12. ASSUME NEW c \in Configs, CmdConfig(c) PROVE SessionInv'
  BY <1>12 DEF CmdConfig, SetConfig
<1>13. ASSUME NEW n \in AmmoGrants, CmdAmmoIncrease(n) PROVE SessionInv'
  BY <1>13 DEF CmdAmmoIncrease, AddAmmo
<1>14. ASSUME NEW id \in PacketIds, NEW shooter \in Players, CmdDebugHit(id, shooter)
       PROVE  SessionInv'
  BY <1>14, VestHitKeeps DEF CmdDebugHit
<1> QED BY <1>1, <1>2, <1>3, <1>4, <1>5, <1>6, <1>7, <1>8, <1>9, <1>10, <1>11, <1>12,
           <1>13, <1>14 DEF PhoneCommand

-----------------------------------------------------------------------------
(* The trigger and the work items.                                         *)

LEMMA WorkKeeps ==
  ASSUME SessionInv, Work
  PROVE  SessionInv'
<1> USE DEF triggerVars, linkVars, gsVars, SessionInv, Flags, ReloadNeverStuck, InGame,
            LifeMatchesState, HeartbeatInGame, LobbyAnnounced, DyingInGame, ReadyMeansUnfired,
            Heartbeat, OnlyWork
<1>1. CASE TriggerWork
  <2>1. CASE TriggerReleased
    BY <1>1, <2>1 DEF TriggerWork, TriggerReleased
  <2>2. CASE TriggerPairs
    BY <1>1, <2>2 DEF TriggerWork, TriggerPairs
  <2>3. CASE TriggerBlocked
    BY <1>1, <2>3 DEF TriggerWork, TriggerBlocked
  <2>4. CASE TriggerRetries
    BY <1>1, <2>4 DEF TriggerWork, TriggerRetries
  <2>5. CASE TriggerFires
    BY <1>1, <2>5 DEF TriggerWork, TriggerFires, TryFire
  <2> QED BY <1>1, <2>1, <2>2, <2>3, <2>4, <2>5 DEF TriggerWork
<1>2. CASE ReloadWork
  BY <1>2 DEF ReloadWork, CompleteReload
<1>3. CASE PlayerStateWork
  BY <1>3 DEF PlayerStateWork, PeriodicWork
<1>4. CASE ScoreboardWork
  BY <1>4 DEF ScoreboardWork, PeriodicWork
<1>5. CASE LobbyAnnounceWork
  BY <1>5 DEF LobbyAnnounceWork, PeriodicWork
<1>6. CASE IrTxWork
  BY <1>6 DEF IrTxWork
<1>7. CASE PairingTxWork
  BY <1>7 DEF PairingTxWork
<1> QED BY <1>1, <1>2, <1>3, <1>4, <1>5, <1>6, <1>7 DEF Work

-----------------------------------------------------------------------------
(* The whole emitter.                                                      *)

LEMMA SessionInvStep == SessionInv /\ [EmNext]_allEmVars => SessionInv'
<1> SUFFICES ASSUME SessionInv, [EmNext]_allEmVars PROVE SessionInv'
  OBVIOUS
<1>1. CASE PhoneCommand
  BY <1>1, PhoneCommandKeeps
<1>2. CASE Work
  BY <1>2, WorkKeeps
<1>3. CASE RecvHit
  BY <1>3, VestHitKeeps DEF RecvHit
<1> USE DEF triggerVars, linkVars, gsVars, emVars, SessionInv, Flags, ReloadNeverStuck, InGame,
            LifeMatchesState, HeartbeatInGame, LobbyAnnounced, DyingInGame, ReadyMeansUnfired
<1>4. CASE TriggerEdge
  BY <1>4 DEF TriggerEdge
<1>5. CASE FinishDeath
  BY <1>5 DEF FinishDeath, Heartbeat
<1>6. CASE EmGattReady
  BY <1>6 DEF EmGattReady
<1>7. CASE EmDisconnected
  BY <1>7 DEF EmDisconnected
<1>8. CASE EmReboot
  BY <1>8 DEF EmReboot, GsRestart
<1>9. CASE EmTick
  BY <1>9 DEF EmTick, Tick
<1>10. CASE AnyVestConnects
  BY <1>10 DEF AnyVestConnects, EmConnected
<1>11. CASE AnyVestNotifies \/ AnyVestReads \/ AnyVestDrops
  BY <1>11 DEF AnyVestNotifies, AnyVestReads, AnyVestDrops
<1>12. CASE UNCHANGED allEmVars
  BY <1>12 DEF allEmVars
<1> QED BY <1>1, <1>2, <1>3, <1>4, <1>5, <1>6, <1>7, <1>8, <1>9, <1>10, <1>11, <1>12
        DEF EmNext, EmInternal

LEMMA SessionInvHolds == EmSpec => []SessionInv
<1>1. EmAloneInit => SessionInv
  BY SessionInvInit DEF EmAloneInit
<1>2. SessionInv /\ [EmNext]_allEmVars => SessionInv'
  BY SessionInvStep
<1> QED BY <1>1, <1>2, PTL DEF EmSpec

\* While a player in a game is reloading, the work item that ends the reload
\* is scheduled: the weapon never jams.
THEOREM ReloadEnds == EmSpec => []ReloadNeverStuck
<1>1. SessionInv => ReloadNeverStuck
  BY DEF SessionInv
<1> QED BY <1>1, SessionInvHolds, PTL

\* The session state of main.c and the life of game_state.c agree outside
\* the window in on_vest_hit.
THEOREM LifeAgrees == EmSpec => []LifeMatchesState
<1>1. SessionInv => LifeMatchesState
  BY DEF SessionInv
<1> QED BY <1>1, SessionInvHolds, PTL

\* A living player's periodic broadcasts are scheduled.
THEOREM HeartbeatKept == EmSpec => []HeartbeatInGame
<1>1. SessionInv => HeartbeatInGame
  BY DEF SessionInv
<1> QED BY <1>1, SessionInvHolds, PTL

\* A hosted lobby is being announced.
THEOREM LobbyKept == EmSpec => []LobbyAnnounced
<1>1. SessionInv => LobbyAnnounced
  BY DEF SessionInv
<1> QED BY <1>1, SessionInvHolds, PTL

-----------------------------------------------------------------------------
(* One shot per pull.                                                      *)

\* Only the trigger handler fires for a pull; an edge may clear the count.
LEMMA OnlyTriggerShoots ==
  ASSUME EmNext
  PROVE  \/ pullShots' = pullShots
         \/ pullShots' = 0
         \/ "trigger" \in work /\ TriggerFires
<1> USE DEF triggerVars, emVars, OnlyWork
<1>1. CASE PhoneCommand
  BY <1>1 DEF PhoneCommand, CmdStart, CmdGameOver, CmdRespawn, CmdReload, CmdDebugFire,
     CmdStartLobbyHost, CmdStartLobbyScan, CmdStopLobby, CmdEnterPairing, CmdUnpairVest,
     CmdConfig, CmdAmmoIncrease, CmdBroadcastGameCfg, MeshGameStart, StartGameLocal,
     CmdDebugHit, VestHit
<1>2. CASE TriggerEdge
  BY <1>2 DEF TriggerEdge
<1>3. CASE Work
  <2>1. CASE TriggerWork
    BY <2>1 DEF TriggerWork, TriggerReleased, TriggerPairs, TriggerBlocked, TriggerRetries
  <2>2. CASE ReloadWork \/ PlayerStateWork \/ ScoreboardWork \/ LobbyAnnounceWork
             \/ IrTxWork \/ PairingTxWork
    BY <2>2 DEF ReloadWork, PlayerStateWork, ScoreboardWork, LobbyAnnounceWork, PeriodicWork,
       IrTxWork, PairingTxWork
  <2> QED BY <1>3, <2>1, <2>2 DEF Work
<1>4. CASE FinishDeath \/ EmGattReady \/ EmDisconnected \/ EmReboot \/ EmTick
  BY <1>4 DEF FinishDeath, EmGattReady, EmDisconnected, EmReboot, EmTick
<1>5. CASE RecvHit
  BY <1>5 DEF RecvHit, VestHit
<1>6. CASE AnyVestConnects \/ AnyVestNotifies \/ AnyVestReads \/ AnyVestDrops
  BY <1>6 DEF AnyVestConnects, EmConnected, AnyVestNotifies, AnyVestReads, AnyVestDrops
<1> QED BY <1>1, <1>2, <1>3, <1>4, <1>5, <1>6 DEF EmNext, EmInternal

LEMMA OneShotStep ==
  SessionInv /\ [EmNext]_allEmVars
    => [pullShots' > pullShots /\ ~cfg.fullAuto => pullShots = 0]_allEmVars
<1> SUFFICES ASSUME SessionInv, EmNext, pullShots' > pullShots, ~cfg.fullAuto
             PROVE  pullShots = 0
  OBVIOUS
<1>1. pullShots \in Nat /\ ReadyMeansUnfired
  BY DEF SessionInv, Flags
<1>2. "trigger" \in work /\ TriggerFires
  <2>1. pullShots' # pullShots /\ pullShots' # 0
    BY <1>1
  <2> QED BY <2>1, OnlyTriggerShoots
<1>3. pressed /\ triggerReady
  BY <1>2 DEF TriggerFires, TriggerMayFire
<1> QED BY <1>1, <1>2, <1>3 DEF ReadyMeansUnfired

\* A weapon that is not full-auto fires once from one rising edge to the next,
\* whatever retries, reconfigurations, games and power losses come between.
THEOREM OneShot == EmSpec => OneShotPerPull
<1>1. SessionInv /\ [EmNext]_allEmVars
        => [pullShots' > pullShots /\ ~cfg.fullAuto => pullShots = 0]_allEmVars
  BY OneShotStep
<1> QED BY <1>1, SessionInvHolds, PTL DEF EmSpec, OneShotPerPull

-----------------------------------------------------------------------------
(* Types, and the ammunition of the whole emitter.                         *)

\* The calls main.c makes to game_state.c are calls GameState allows, but for
\* a game that starts with a host's configuration and for a power loss.
LEMMA EmitterCalls ==
  ASSUME [EmNext]_allEmVars
  PROVE  \/ [GsNext]_gsVars
         \/ \E c \in ConfigType : StartGame(c)
         \/ GsRestart(savedConfig)
<1> USE DEF triggerVars, emVars, OnlyWork
<1>1. CASE PhoneCommand
  <2>1. CASE CmdStart
    BY <2>1 DEF CmdStart, GsNext
  <2>2. ASSUME NEW gc \in GameConfigs, CmdBroadcastGameCfg(gc) \/ MeshGameStart(gc)
        PROVE  StartGame(cfg) \/ \E c \in ConfigType : StartGame(c)
    <3>1. gc.cfg \in ConfigType
      BY GameConfigsAssumption DEF GameConfigType
    <3> QED BY <2>2, <3>1 DEF CmdBroadcastGameCfg, MeshGameStart, StartGameLocal
  <2>3. CASE CmdGameOver \/ CmdStartLobbyHost \/ CmdStartLobbyScan \/ CmdStopLobby
             \/ CmdEnterPairing \/ CmdUnpairVest
    BY <2>3 DEF CmdGameOver, CmdStartLobbyHost, CmdStartLobbyScan, CmdStopLobby,
       CmdEnterPairing, CmdUnpairVest
  <2>4. CASE CmdRespawn \/ CmdReload \/ CmdDebugFire
    BY <2>4 DEF CmdRespawn, CmdReload, CmdDebugFire, GsNext
  <2>5. ASSUME NEW c \in Configs, CmdConfig(c) PROVE GsNext
    BY <2>5 DEF CmdConfig, GsNext
  <2>6. ASSUME NEW n \in AmmoGrants, CmdAmmoIncrease(n) PROVE GsNext
    BY <2>6 DEF CmdAmmoIncrease, GsNext
  <2>7. ASSUME NEW id \in PacketIds, NEW shooter \in Players, CmdDebugHit(id, shooter)
        PROVE  [GsNext]_gsVars
    BY <2>7 DEF CmdDebugHit, VestHit, HitIgnored, HitDuplicate, HitWhileDead, HitApplied, GsNext
  <2> QED BY <1>1, <2>1, <2>2, <2>3, <2>4, <2>5, <2>6, <2>7 DEF PhoneCommand, GsNext
<1>2. CASE Work
  <2>1. CASE TriggerWork
    BY <2>1 DEF TriggerWork, TriggerReleased, TriggerPairs, TriggerBlocked, TriggerRetries,
       TriggerFires, GsNext
  <2>2. CASE ReloadWork
    BY <2>2 DEF ReloadWork, GsNext
  <2>3. CASE PlayerStateWork \/ ScoreboardWork \/ LobbyAnnounceWork \/ IrTxWork \/ PairingTxWork
    BY <2>3 DEF PlayerStateWork, ScoreboardWork, LobbyAnnounceWork, PeriodicWork, IrTxWork,
       PairingTxWork
  <2> QED BY <1>2, <2>1, <2>2, <2>3 DEF Work
<1>3. CASE TriggerEdge \/ FinishDeath \/ EmGattReady \/ EmDisconnected
  BY <1>3 DEF TriggerEdge, FinishDeath, EmGattReady, EmDisconnected
<1>4. CASE EmReboot
  BY <1>4 DEF EmReboot
<1>5. CASE EmTick
  BY <1>5 DEF EmTick, GsNext
<1>6. CASE RecvHit
  BY <1>6 DEF RecvHit, VestHit, HitIgnored, HitDuplicate, HitWhileDead, HitApplied, GsNext
<1>7. CASE AnyVestConnects \/ AnyVestNotifies \/ AnyVestReads \/ AnyVestDrops
  BY <1>7 DEF AnyVestConnects, EmConnected, AnyVestNotifies, AnyVestReads, AnyVestDrops
<1>8. CASE UNCHANGED allEmVars
  BY <1>8 DEF allEmVars
<1> QED BY <1>1, <1>2, <1>3, <1>4, <1>5, <1>6, <1>7, <1>8 DEF EmNext, EmInternal

\* Types of game_state.c, whatever main.c calls.
LEMMA GsTypeInEmitter ==
  ASSUME GsTypeOK, savedConfig \in ConfigType, [EmNext]_allEmVars
  PROVE  GsTypeOK'
<1>1. CASE [GsNext]_gsVars
  BY <1>1, GsTypeStep
<1>2. ASSUME NEW c \in ConfigType, StartGame(c) PROVE GsTypeOK'
  <2>1. FreshLife(c) /\ cfg' \in ConfigType /\ sinceShot' \in 0 .. RateCap
    BY <1>2, RateCapAssumption DEF StartGame
  <2> QED BY <2>1, GsTypeFreshLife
<1>3. CASE GsRestart(savedConfig)
  <2>1. /\ cfg' = savedConfig /\ health' = 0 /\ mag' = 0 /\ reserve' = 0
        /\ alive' = FALSE /\ reloading' = FALSE /\ sinceShot' = RateCap
        /\ issued' = 0 /\ shots' = 0
    BY <1>3 DEF GsRestart
  <2>2. 0 \in Words /\ RateCap \in 0 .. RateCap
    BY WordModAssumption, RateCapAssumption DEF Words
  <2> QED BY <2>1, <2>2 DEF GsTypeOK
<1> QED BY <1>1, <1>2, <1>3, EmitterCalls

\* vest_write: what is queued for the vest is a command, and fits.
LEMMA WritesTyped ==
  ASSUME LinkTypeOK, NEW msgs \in Seq(VestCommands), SendToVest(msgs)
  PROVE  toVest' \in Seq(VestCommands) /\ Len(toVest') <= LinkCap
<1> DEFINE all == toVest \o msgs
           n == IF Len(all) <= LinkCap THEN Len(all) ELSE LinkCap
<1>1. toVest \in Seq(VestCommands) /\ Len(toVest) <= LinkCap
  BY DEF LinkTypeOK
<1>2. all \in Seq(VestCommands) /\ Len(all) \in Nat
  BY <1>1
<1> HIDE DEF all
<1>3. n \in 0 .. Len(all) /\ n <= LinkCap
  BY <1>2, LinkCapAssumption
<1>4. SubSeq(all, 1, n) \in Seq(VestCommands) /\ Len(SubSeq(all, 1, n)) = n
  BY <1>2, <1>3
<1>5. Queued(toVest, msgs) = SubSeq(all, 1, n)
  BY DEF Queued, all
<1> QED BY <1>1, <1>3, <1>4, <1>5 DEF SendToVest

\* The commands the emitter writes.
LEMMA CommandsTyped ==
  /\ \A id \in PacketIds : [cmd |-> "HIT_ACK", id |-> id] \in VestCommands
  /\ \A ids \in SUBSET Players : [cmd |-> "FRIENDLY_LIST", ids |-> ids] \in VestCommands
  /\ \A on \in BOOLEAN : [cmd |-> "FRIENDLY_FIRE", on |-> on] \in VestCommands
  /\ [cmd |-> "DEATH"] \in VestCommands
  /\ [cmd |-> "RESPAWN"] \in VestCommands
  /\ [cmd |-> "UNPAIR"] \in VestCommands
BY DEF VestCommands

LEMMA WriteTyped ==
  ASSUME LinkTypeOK, NEW m \in VestCommands, SendToVest(<<m>>)
  PROVE  toVest' \in Seq(VestCommands) /\ Len(toVest') <= LinkCap
<1>1. <<m>> \in Seq(VestCommands)
  OBVIOUS
<1> QED BY <1>1, WritesTyped

\* A game start writes the friendly list and the friendly-fire flag.
LEMMA PushTyped ==
  ASSUME LinkTypeOK, NEW ids \in SUBSET Players, NEW c, c.friendlyFire \in BOOLEAN,
         PushGameStart(ids, c)
  PROVE  toVest' \in Seq(VestCommands) /\ Len(toVest') <= LinkCap
<1> DEFINE list == [cmd |-> "FRIENDLY_LIST", ids |-> ids]
           fire == [cmd |-> "FRIENDLY_FIRE", on |-> c.friendlyFire]
<1>1. list \in VestCommands /\ fire \in VestCommands
  BY CommandsTyped
<1>2. CASE VestConnected
  <2>1. SendToVest(<<list, fire>>)
    BY <1>2 DEF PushGameStart
  <2> HIDE DEF list, fire
  <2>2. <<list, fire>> \in Seq(VestCommands)
    BY <1>1
  <2> QED BY <2>1, <2>2, WritesTyped
<1>3. CASE ~VestConnected
  BY <1>3 DEF PushGameStart, LinkTypeOK
<1> QED BY <1>2, <1>3

\* The variables of main.c.
MainTypeOK ==
  /\ estate \in EmitterStates
  /\ dying \in BOOLEAN
  /\ friendly \in SUBSET Players
  /\ hitDedup \in Seq(PacketIds) /\ Len(hitDedup) <= HitDedupSize
  /\ savedConfig \in ConfigType
  /\ pressed \in BOOLEAN
  /\ triggerReady \in BOOLEAN
  /\ pullShots \in Nat
  /\ work \in SUBSET WorkItems
  /\ vconn \in {"none", "linked", "ready"}

LEMMA EmTypeParts == EmTypeOK <=> GsTypeOK /\ LinkTypeOK /\ MainTypeOK
BY DEF EmTypeOK, MainTypeOK

\* hit_dedup_check keeps a ring of its size.
LEMMA RememberTyped ==
  ASSUME MainTypeOK, NEW h, h.id \in PacketIds, RememberHit(h)
  PROVE  hitDedup' \in Seq(PacketIds) /\ Len(hitDedup') <= HitDedupSize
<1> DEFINE all == Append(hitDedup, h.id)
<1>1. /\ hitDedup \in Seq(PacketIds) /\ Len(hitDedup) <= HitDedupSize
      /\ Len(hitDedup) \in Nat
  BY DEF MainTypeOK
<1>2. all \in Seq(PacketIds) /\ Len(all) = Len(hitDedup) + 1 /\ all # <<>>
  BY <1>1, AppendProperties
<1>3. hitDedup' = IF Len(all) > HitDedupSize THEN Tail(all) ELSE all
  BY DEF RememberHit
<1> HIDE DEF all
<1>4. Tail(all) \in Seq(PacketIds) /\ Len(Tail(all)) = Len(all) - 1
  BY <1>2, HeadTailProperties
<1> QED BY <1>1, <1>2, <1>3, <1>4, HitDedupSizeAssumption

LEMMA VestHitTyped ==
  ASSUME LinkTypeOK, MainTypeOK, GsTypeOK, NEW h, h.id \in PacketIds, VestHit(h)
  PROVE  MainTypeOK' /\ toVest' \in Seq(VestCommands) /\ Len(toVest') <= LinkCap /\ link' = link
<1>1. /\ link' = link
      /\ UNCHANGED <<estate, friendly, savedConfig, pressed, triggerReady, pullShots, work, vconn>>
  BY DEF VestHit, triggerVars
<1>2. [cmd |-> "HIT_ACK", id |-> h.id] \in VestCommands
  BY CommandsTyped
<1>3. toVest' = toVest \/ SendToVest(<<[cmd |-> "HIT_ACK", id |-> h.id]>>)
  BY DEF VestHit, HitIgnored, HitDuplicate, HitWhileDead, HitApplied, HitAck
<1>4. toVest' \in Seq(VestCommands) /\ Len(toVest') <= LinkCap
  BY <1>2, <1>3, WriteTyped DEF LinkTypeOK
<1>5. hitDedup' = hitDedup \/ RememberHit(h)
  BY DEF VestHit, HitIgnored, HitDuplicate, HitWhileDead, HitApplied
<1>6. hitDedup' \in Seq(PacketIds) /\ Len(hitDedup') <= HitDedupSize
  BY <1>5, RememberTyped DEF MainTypeOK
<1>7. dying' \in BOOLEAN
  <2>1. Kills(cfg.damage) \in BOOLEAN
    BY DEF Kills, GsTypeOK
  <2> QED BY <2>1 DEF VestHit, HitIgnored, HitDuplicate, HitWhileDead, HitApplied, MainTypeOK
<1> QED BY <1>1, <1>4, <1>6, <1>7 DEF MainTypeOK

LEMMA PhoneTyped ==
  ASSUME EmTypeOK, PhoneCommand
  PROVE  MainTypeOK' /\ LinkTypeOK'
<1>0. GsTypeOK /\ LinkTypeOK /\ MainTypeOK
  BY EmTypeParts
<1>a. /\ link \in {"down", "up", "ready", "closing"}
      /\ toEmitter \in Seq(Hits) /\ Len(toEmitter) <= LinkCap
      /\ toVest \in Seq(VestCommands) /\ Len(toVest) <= LinkCap
  BY <1>0 DEF LinkTypeOK
<1>b. cfg.friendlyFire \in BOOLEAN
  BY <1>0 DEF GsTypeOK, ConfigType
<1> USE DEF triggerVars, linkVars, emVars, MainTypeOK, EmitterStates, WorkItems, Heartbeat
<1>1. CASE CmdStart
  <2>1. friendly \in SUBSET Players /\ PushGameStart(friendly, cfg)
    BY <1>0, <1>1 DEF CmdStart
  <2>2. toVest' \in Seq(VestCommands) /\ Len(toVest') <= LinkCap
    BY <1>0, <1>b, <2>1, PushTyped
  <2> QED BY <1>0, <1>a, <1>1, <2>2 DEF CmdStart, LinkTypeOK
<1>2. ASSUME NEW gc \in GameConfigs, StartGameLocal(gc) PROVE MainTypeOK' /\ LinkTypeOK'
  <2> DEFINE ids == IF gc.parsed = "none" THEN friendly ELSE gc.friends
             c == IF gc.parsed = "full" THEN gc.cfg ELSE cfg
  <2>1. gc.friends \in SUBSET Players /\ gc.cfg \in ConfigType
    BY GameConfigsAssumption DEF GameConfigType
  <2>2. ids \in SUBSET Players
    BY <1>0, <2>1
  <2>3. c.friendlyFire \in BOOLEAN
    BY <1>b, <2>1 DEF ConfigType
  <2>4. /\ PushGameStart(ids, c) /\ friendly' = ids /\ estate' = "GAME_ACTIVE"
        /\ work' = (work \ {"lobbyAnnounce"}) \cup Heartbeat
        /\ UNCHANGED <<dying, hitDedup, savedConfig, triggerVars, vconn, link, toEmitter>>
    BY <1>2 DEF StartGameLocal
  <2> HIDE DEF ids, c
  <2>5. toVest' \in Seq(VestCommands) /\ Len(toVest') <= LinkCap
    BY <1>0, <2>2, <2>3, <2>4, PushTyped
  <2> QED BY <1>0, <1>a, <2>2, <2>4, <2>5 DEF LinkTypeOK
<1>3. CASE CmdGameOver
  BY <1>0, <1>3 DEF CmdGameOver, LinkTypeOK
<1>4. CASE CmdRespawn
  <2>1. toVest' = toVest \/ SendToVest(<<[cmd |-> "RESPAWN"]>>)
    BY <1>4 DEF CmdRespawn
  <2>2. toVest' \in Seq(VestCommands) /\ Len(toVest') <= LinkCap
    BY <1>0, <1>a, <2>1, WriteTyped, CommandsTyped
  <2> QED BY <1>0, <1>a, <1>4, <2>2 DEF CmdRespawn, LinkTypeOK
<1>5. CASE CmdReload \/ CmdDebugFire
  BY <1>0, <1>5 DEF CmdReload, CmdDebugFire, LinkTypeOK
<1>6. CASE CmdStartLobbyHost \/ CmdStartLobbyScan \/ CmdStopLobby \/ CmdEnterPairing
  BY <1>0, <1>6 DEF CmdStartLobbyHost, CmdStartLobbyScan, CmdStopLobby, CmdEnterPairing, LinkTypeOK
<1>7. CASE CmdUnpairVest
  <2>1. toVest' = toVest \/ SendToVest(<<[cmd |-> "UNPAIR"]>>)
    BY <1>7 DEF CmdUnpairVest
  <2>2. toVest' \in Seq(VestCommands) /\ Len(toVest') <= LinkCap
    BY <1>0, <1>a, <2>1, WriteTyped, CommandsTyped
  <2> QED BY <1>0, <1>a, <1>7, <2>2 DEF CmdUnpairVest, LinkTypeOK
<1>8. ASSUME NEW c \in Configs, CmdConfig(c) PROVE MainTypeOK' /\ LinkTypeOK'
  BY <1>0, <1>8, ConfigsAssumption DEF CmdConfig, LinkTypeOK
<1>9. ASSUME NEW n \in AmmoGrants, CmdAmmoIncrease(n) PROVE MainTypeOK' /\ LinkTypeOK'
  BY <1>0, <1>9 DEF CmdAmmoIncrease, LinkTypeOK
<1>10. ASSUME NEW id \in PacketIds, NEW shooter \in Players, CmdDebugHit(id, shooter)
       PROVE  MainTypeOK' /\ LinkTypeOK'
  <2> DEFINE h == [id |-> id, shooter |-> shooter, serial |-> 0]
  <2>1. h.id \in PacketIds /\ VestHit(h) /\ toEmitter' = toEmitter
    BY <1>10 DEF CmdDebugHit
  <2> HIDE DEF h, MainTypeOK
  <2>2. MainTypeOK' /\ toVest' \in Seq(VestCommands) /\ Len(toVest') <= LinkCap /\ link' = link
    BY <1>0, <2>1, VestHitTyped
  <2> QED BY <1>a, <2>1, <2>2 DEF LinkTypeOK
<1> HIDE DEF MainTypeOK
<1> QED BY <1>1, <1>2, <1>3, <1>4, <1>5, <1>6, <1>7, <1>8, <1>9, <1>10
        DEF PhoneCommand, CmdBroadcastGameCfg, MeshGameStart

LEMMA WorkTyped ==
  ASSUME EmTypeOK, Work
  PROVE  MainTypeOK' /\ LinkTypeOK'
<1>0. GsTypeOK /\ LinkTypeOK /\ MainTypeOK
  BY EmTypeParts
<1> USE DEF triggerVars, linkVars, MainTypeOK, WorkItems, OnlyWork, LinkTypeOK
<1>1. CASE TriggerWork
  <2>1. /\ triggerReady' \in BOOLEAN /\ work' \subseteq work \cup {"pairingTx", "irTx"}
        /\ pullShots' = pullShots \/ pullShots' = pullShots + 1
    BY <1>0, <1>1 DEF TriggerWork, TriggerReleased, TriggerPairs, TriggerBlocked,
       TriggerRetries, TriggerFires
  <2>2. pullShots' \in Nat
    BY <1>0, <2>1
  <2>3. UNCHANGED <<estate, dying, friendly, hitDedup, savedConfig, pressed, vconn, linkVars>>
    BY <1>1 DEF TriggerWork
  <2> QED BY <1>0, <2>1, <2>2, <2>3
<1>2. CASE ReloadWork
  BY <1>0, <1>2 DEF ReloadWork
<1>3. CASE PlayerStateWork \/ ScoreboardWork \/ LobbyAnnounceWork
  BY <1>0, <1>3 DEF PlayerStateWork, ScoreboardWork, LobbyAnnounceWork, PeriodicWork
<1>4. CASE IrTxWork \/ PairingTxWork
  BY <1>0, <1>4 DEF IrTxWork, PairingTxWork
<1> QED BY <1>1, <1>2, <1>3, <1>4 DEF Work

\* What is left of the two queues when the link goes.
LEMMA CutQueues ==
  ASSUME NEW S, NEW q \in Seq(S), Len(q) <= LinkCap, NEW n \in 0 .. Len(q)
  PROVE  SubSeq(q, 1, n) \in Seq(S) /\ Len(SubSeq(q, 1, n)) <= LinkCap
<1>1. SubSeq(q, 1, n) \in Seq(S) /\ Len(SubSeq(q, 1, n)) = n
  OBVIOUS
<1> QED BY <1>1, LinkCapAssumption

LEMMA RecvTyped ==
  ASSUME EmTypeOK, RecvHit
  PROVE  MainTypeOK' /\ LinkTypeOK'
<1>0. GsTypeOK /\ LinkTypeOK /\ MainTypeOK
  BY EmTypeParts
<1>1. toEmitter \in Seq(Hits) /\ toEmitter # <<>> /\ Len(toEmitter) <= LinkCap
  BY <1>0 DEF LinkTypeOK, RecvHit
<1>2. /\ Head(toEmitter) \in Hits /\ Tail(toEmitter) \in Seq(Hits)
      /\ Len(Tail(toEmitter)) = Len(toEmitter) - 1 /\ Len(toEmitter) \in Nat
  BY <1>1, HeadTailProperties
<1>3. Head(toEmitter).id \in PacketIds
  BY <1>2 DEF Hits
<1>4. VestHit(Head(toEmitter)) /\ toEmitter' = Tail(toEmitter)
  BY DEF RecvHit
<1>5. MainTypeOK' /\ toVest' \in Seq(VestCommands) /\ Len(toVest') <= LinkCap /\ link' = link
  BY <1>0, <1>3, <1>4, VestHitTyped
<1>6. Len(toEmitter') <= LinkCap
  BY <1>1, <1>2, <1>4, LinkCapAssumption
<1> QED BY <1>0, <1>2, <1>4, <1>5, <1>6 DEF LinkTypeOK

LEMMA InternalTyped ==
  ASSUME EmTypeOK, EmInternal
  PROVE  MainTypeOK' /\ LinkTypeOK'
<1>0. GsTypeOK /\ LinkTypeOK /\ MainTypeOK
  BY EmTypeParts
<1>1. CASE PhoneCommand
  BY <1>1, PhoneTyped
<1>2. CASE Work
  BY <1>2, WorkTyped
<1> USE DEF triggerVars, linkVars, emVars
<1>3. CASE TriggerEdge
  BY <1>0, <1>3 DEF TriggerEdge, MainTypeOK, LinkTypeOK, WorkItems
<1>4. CASE FinishDeath
  <2>1. SendToVest(<<[cmd |-> "DEATH"]>>)
    BY <1>4 DEF FinishDeath
  <2>2. toVest' \in Seq(VestCommands) /\ Len(toVest') <= LinkCap
    BY <1>0, <2>1, WriteTyped, CommandsTyped
  <2> QED BY <1>0, <1>4, <2>2 DEF FinishDeath, MainTypeOK, LinkTypeOK, EmitterStates
<1>5. CASE EmGattReady
  BY <1>0, <1>5 DEF EmGattReady, MainTypeOK, LinkTypeOK
<1>6. CASE EmDisconnected
  BY <1>0, <1>6 DEF EmDisconnected, MainTypeOK, LinkTypeOK
<1>7. CASE EmReboot
  <2>1. /\ estate' = "IDLE" /\ dying' = FALSE /\ friendly' = {} /\ hitDedup' = <<>>
        /\ triggerReady' = TRUE /\ work' = {} /\ vconn' = "none"
        /\ link' = "down" /\ toEmitter' = <<>>
        /\ UNCHANGED <<savedConfig, pressed, pullShots>>
    BY <1>7 DEF EmReboot
  <2>2. PICK n \in 0 .. Len(toVest) : toVest' = SubSeq(toVest, 1, n)
    BY <1>7 DEF EmReboot
  <2>3. toVest' \in Seq(VestCommands) /\ Len(toVest') <= LinkCap
    BY <1>0, <2>2, CutQueues DEF LinkTypeOK
  <2>4. /\ <<>> \in Seq(PacketIds) /\ <<>> \in Seq(Hits) /\ Len(<<>>) = 0
        /\ 0 <= LinkCap /\ 0 <= HitDedupSize
    BY LinkCapAssumption, HitDedupSizeAssumption
  <2>5. LinkTypeOK'
    BY <2>1, <2>3, <2>4 DEF LinkTypeOK
  <2>6. MainTypeOK'
    BY <1>0, <2>1, <2>4 DEF MainTypeOK, EmitterStates
  <2> QED BY <2>5, <2>6
<1>8. CASE EmTick
  BY <1>0, <1>8 DEF EmTick, MainTypeOK, LinkTypeOK
<1> QED BY <1>1, <1>2, <1>3, <1>4, <1>5, <1>6, <1>7, <1>8 DEF EmInternal

LEMMA AnyVestTyped ==
  ASSUME EmTypeOK, AnyVestConnects \/ AnyVestNotifies \/ AnyVestReads \/ AnyVestDrops
  PROVE  MainTypeOK' /\ LinkTypeOK'
<1>0. GsTypeOK /\ LinkTypeOK /\ MainTypeOK
  BY EmTypeParts
<1> USE DEF triggerVars, emVars
<1>1. CASE AnyVestConnects
  BY <1>0, <1>1 DEF AnyVestConnects, EmConnected, MainTypeOK, LinkTypeOK
<1>2. CASE AnyVestNotifies
  <2>1. /\ UNCHANGED <<emVars, link, toVest>> /\ link = "ready"
        /\ \E id \in PacketIds, shooter \in Players :
             SendToEmitter(<<[id |-> id, shooter |-> shooter, serial |-> 0]>>)
    BY <1>2 DEF AnyVestNotifies
  <2>2. PICK h \in Hits : SendToEmitter(<<h>>)
    BY <2>1 DEF Hits
  <2>3. toEmitter' \in Seq(Hits) /\ Len(toEmitter') <= LinkCap
    <3>1. <<h>> \in Seq(Hits) /\ toEmitter \in Seq(Hits)
      BY <1>0 DEF LinkTypeOK
    <3>2. PICK n \in 0 .. Len(toEmitter \o <<h>>) :
            n <= LinkCap /\ Queued(toEmitter, <<h>>) = SubSeq(toEmitter \o <<h>>, 1, n)
      BY <3>1, LinkCapAssumption, ConcatProperties DEF Queued
    <3>3. toEmitter \o <<h>> \in Seq(Hits)
      BY <3>1, ConcatProperties
    <3> QED BY <2>1, <2>2, <3>2, <3>3 DEF SendToEmitter
  <2> QED BY <1>0, <2>1, <2>3 DEF MainTypeOK, LinkTypeOK
<1>3. CASE AnyVestReads
  BY <1>0, <1>3, LinkCapAssumption DEF AnyVestReads, MainTypeOK, LinkTypeOK
<1>4. CASE AnyVestDrops
  <2>1. UNCHANGED emVars /\ link' = "down"
    BY <1>4 DEF AnyVestDrops, LinkDrop
  <2>2. PICK n \in 0 .. Len(toVest) : toVest' = SubSeq(toVest, 1, n)
    BY <1>4 DEF AnyVestDrops, LinkDrop
  <2>3. PICK k \in 0 .. Len(toEmitter) : toEmitter' = SubSeq(toEmitter, 1, k)
    BY <1>4 DEF AnyVestDrops, LinkDrop
  <2>4. /\ toVest' \in Seq(VestCommands) /\ Len(toVest') <= LinkCap
        /\ toEmitter' \in Seq(Hits) /\ Len(toEmitter') <= LinkCap
    BY <1>0, <2>2, <2>3, CutQueues DEF LinkTypeOK
  <2> QED BY <1>0, <2>1, <2>4 DEF MainTypeOK, LinkTypeOK
<1> QED BY <1>1, <1>2, <1>3, <1>4

LEMMA EmTypeInit == EmAloneInit => EmTypeOK
<1> SUFFICES ASSUME EmAloneInit PROVE EmTypeOK
  OBVIOUS
<1>1. GsTypeOK
  BY GsTypeInit DEF EmAloneInit, EmInit
<1>2. /\ <<>> \in Seq(VestCommands) /\ <<>> \in Seq(Hits) /\ <<>> \in Seq(PacketIds)
      /\ Len(<<>>) = 0 /\ 0 <= LinkCap /\ 0 <= HitDedupSize
  BY LinkCapAssumption, HitDedupSizeAssumption
<1>3. LinkTypeOK
  BY <1>2 DEF EmAloneInit, LinkInit, LinkTypeOK
<1>4. savedConfig \in ConfigType
  BY <1>1, Zenon DEF EmAloneInit, EmInit, GsInit, GsInitWith, GsTypeOK
<1>5. MainTypeOK
  BY <1>2, <1>4 DEF EmAloneInit, EmInit, MainTypeOK, EmitterStates
<1> QED BY <1>1, <1>3, <1>5, EmTypeParts

LEMMA EmTypeStep == EmTypeOK /\ [EmNext]_allEmVars => EmTypeOK'
<1> SUFFICES ASSUME EmTypeOK, [EmNext]_allEmVars PROVE EmTypeOK'
  OBVIOUS
<1>0. GsTypeOK /\ LinkTypeOK /\ MainTypeOK
  BY EmTypeParts
<1>1. GsTypeOK'
  BY <1>0, GsTypeInEmitter DEF MainTypeOK
<1>2. MainTypeOK' /\ LinkTypeOK'
  <2>1. CASE UNCHANGED allEmVars
    BY <1>0, <2>1 DEF allEmVars, emVars, linkVars, triggerVars, MainTypeOK, LinkTypeOK
  <2> QED BY <2>1, InternalTyped, RecvTyped, AnyVestTyped DEF EmNext
<1>3. (GsTypeOK /\ LinkTypeOK /\ MainTypeOK)' => EmTypeOK'
  BY DEF EmTypeOK, MainTypeOK
<1> QED BY <1>1, <1>2, <1>3

\* Every variable of the emitter stays of its type: the counters in a machine
\* word, the ring and the queues within their sizes.
THEOREM EmTypeCorrect == EmSpec => []EmTypeOK
<1> QED BY EmTypeInit, EmTypeStep, PTL DEF EmSpec

\* The ledger of the ammunition, under what main.c calls.
LEMMA LedgerInEmitter ==
  EmTypeOK /\ Ledger /\ [EmNext]_allEmVars => Ledger'
<1> SUFFICES ASSUME EmTypeOK, Ledger, [EmNext]_allEmVars PROVE Ledger'
  OBVIOUS
<1>0. GsTypeOK
  BY EmTypeParts
<1>1. CASE [GsNext]_gsVars
  BY <1>0, <1>1, LedgerStep
<1>2. ASSUME NEW c \in ConfigType, StartGame(c) PROVE Ledger'
  BY <1>2, LedgerFreshLife DEF StartGame
<1>3. CASE GsRestart(savedConfig)
  BY <1>3 DEF GsRestart, Ledger, AmmoNeverMinted, AmmoNeverLost
<1> QED BY <1>1, <1>2, <1>3, EmitterCalls

LEMMA LedgerHolds == EmSpec => []Ledger
<1>1. EmAloneInit => Ledger
  BY LedgerInit DEF EmAloneInit, EmInit
<1> QED BY <1>1, EmTypeInit, EmTypeStep, LedgerInEmitter, PTL DEF EmSpec

\* No order of commands, shots, reloads, deaths, games, configurations and
\* power losses mints ammunition.
THEOREM EmitterMintsNoAmmo == EmSpec => []AmmoNeverMinted
<1>1. Ledger => AmmoNeverMinted
  BY DEF Ledger
<1> QED BY <1>1, LedgerHolds, PTL

\* Nor does any lose ammunition before a counter can wrap: a reload that dies
\* with its owner, runs twice or outlives its game only moves rounds.
THEOREM EmitterLosesNoAmmo == EmSpec => []AmmoNeverLost
<1>1. Ledger => AmmoNeverLost
  BY DEF Ledger
<1> QED BY <1>1, LedgerHolds, PTL

\* Whatever main.c calls, what adds to a magazine fills it to the size in force at
\* most, or is a reload of one beyond that size, which takes the whole reserve.
THEOREM EmitterLoadsToSizeOrAll == EmSpec => LoadsToSizeOrAll
<1> DEFINE Loads == mag' > mag => LoadedTo
<1>1. EmTypeOK /\ [EmNext]_allEmVars => [Loads]_gsVars
  <2> SUFFICES ASSUME EmTypeOK, [EmNext]_allEmVars PROVE [Loads]_gsVars
    OBVIOUS
  <2>0. GsTypeOK
    BY EmTypeParts
  <2>1. CASE [GsNext]_gsVars
    BY <2>0, <2>1, LoadingStep
  <2>2. ASSUME NEW c \in ConfigType, StartGame(c) PROVE Loads
    BY <2>2, StartingMagFits DEF StartGame, FreshLife, LoadedTo
  <2>3. CASE GsRestart(savedConfig)
    BY <2>0, <2>3 DEF GsRestart, GsTypeOK, Words
  <2> QED BY <2>1, <2>2, <2>3, EmitterCalls
<1> QED BY <1>1, EmTypeInit, EmTypeStep, PTL DEF EmSpec, LoadsToSizeOrAll, LoadedTo

-----------------------------------------------------------------------------
(* What keeps a trigger from settling.                                     *)

\* A handler other than that of CMD_GAME_OVER cancels nothing of the trigger.
LEMMA TriggerWorkKept ==
  ASSUME "GAME_OVER" \notin Inputs, EmNext, ~Work, ~TriggerEdge, ~EmReboot
  PROVE  /\ UNCHANGED <<pressed, triggerReady>>
         /\ "trigger" \in work => "trigger" \in work'
<1> USE DEF triggerVars, emVars, Heartbeat
<1>1. CASE PhoneCommand
  <2>1. CASE CmdGameOver
    BY <2>1 DEF CmdGameOver, Phone
  <2>2. CASE CmdStart \/ CmdRespawn \/ CmdReload \/ CmdDebugFire \/ CmdStartLobbyHost
             \/ CmdStartLobbyScan \/ CmdStopLobby \/ CmdEnterPairing \/ CmdUnpairVest
    BY <2>2 DEF CmdStart, CmdRespawn, CmdReload, CmdDebugFire, CmdStartLobbyHost,
       CmdStartLobbyScan, CmdStopLobby, CmdEnterPairing, CmdUnpairVest
  <2>3. CASE ~(CmdGameOver \/ CmdStart \/ CmdRespawn \/ CmdReload \/ CmdDebugFire
               \/ CmdStartLobbyHost \/ CmdStartLobbyScan \/ CmdStopLobby \/ CmdEnterPairing
               \/ CmdUnpairVest)
    BY <1>1, <2>3 DEF PhoneCommand, CmdConfig, CmdAmmoIncrease, CmdBroadcastGameCfg,
       MeshGameStart, StartGameLocal, CmdDebugHit, VestHit
  <2> QED BY <2>1, <2>2, <2>3
<1>2. CASE FinishDeath \/ EmGattReady \/ EmDisconnected \/ EmTick \/ RecvHit
  BY <1>2 DEF FinishDeath, EmGattReady, EmDisconnected, EmTick, RecvHit, VestHit
<1>3. CASE AnyVestConnects \/ AnyVestNotifies \/ AnyVestReads \/ AnyVestDrops
  BY <1>3 DEF AnyVestConnects, EmConnected, AnyVestNotifies, AnyVestReads, AnyVestDrops
<1> QED BY <1>1, <1>2, <1>3 DEF EmNext, EmInternal

LEMMA TriggerSettlesStep ==
  ASSUME "GAME_OVER" \notin Inputs
  PROVE  TriggerSettles /\ [EmNext]_allEmVars => TriggerSettles'
<1> SUFFICES ASSUME TriggerSettles, [EmNext]_allEmVars PROVE TriggerSettles'
  OBVIOUS
<1> USE DEF TriggerSettles
<1>1. CASE TriggerWork
  BY <1>1 DEF TriggerWork, TriggerReleased, TriggerPairs, TriggerBlocked, TriggerRetries,
     TriggerFires
<1>2. CASE Work /\ ~TriggerWork
  BY <1>2 DEF Work, ReloadWork, PlayerStateWork, ScoreboardWork, LobbyAnnounceWork,
     PeriodicWork, IrTxWork, PairingTxWork, OnlyWork, triggerVars
<1>3. CASE TriggerEdge \/ EmReboot
  BY <1>3 DEF TriggerEdge, EmReboot
<1>4. CASE UNCHANGED allEmVars
  BY <1>4 DEF allEmVars, emVars, triggerVars
<1>5. CASE EmNext /\ ~Work /\ ~TriggerEdge /\ ~EmReboot
  BY <1>5, TriggerWorkKept
<1> QED BY <1>1, <1>2, <1>3, <1>4, <1>5

\* CMD_GAME_OVER is the only way to a released trigger that is not ready and
\* will not be (main.c:513): whatever else a phone, a vest, the mesh or a
\* power loss does, a trigger that has settled released is ready to fire.
THEOREM OnlyGameOverJams ==
  ASSUME "GAME_OVER" \notin Inputs
  PROVE  EmSpec => []TriggerSettles
<1>1. EmAloneInit => TriggerSettles
  BY DEF EmAloneInit, EmInit, TriggerSettles
<1>2. TriggerSettles /\ [EmNext]_allEmVars => TriggerSettles'
  BY TriggerSettlesStep
<1> QED BY <1>1, <1>2, PTL DEF EmSpec
=============================================================================
