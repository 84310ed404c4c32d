--------------------------- MODULE HitPathProofs ---------------------------
(***************************************************************************)
(* Proofs about HitPath, for any configurations, players, packet ids,      *)
(* retries, queue lengths and number of hits: what the emitter and the     *)
(* vest promise each other about a hit, through lost and repeated          *)
(* notifications, disconnections, reboots of either side and new pairings. *)
(***************************************************************************)
EXTENDS HitPath, EmitterProofs, VestProofs

-----------------------------------------------------------------------------
(* Types: both programs keep those they keep alone.                        *)

HpTypeInv == EmTypeOK /\ VestTypeInv

LEMMA HpTypeInit == HpInit => HpTypeInv
<1> SUFFICES ASSUME HpInit PROVE HpTypeInv
  OBVIOUS
<1>1. GsTypeOK
  BY GsTypeInit DEF HpInit, PairedInit
<1>2. /\ <<>> \in Seq(VestCommands) /\ <<>> \in Seq(Hits) /\ <<>> \in Seq(PacketIds)
      /\ Len(<<>>) = 0 /\ 0 <= LinkCap /\ 0 <= HitDedupSize /\ 0 \in 0 .. HitRetryMax
  BY LinkCapAssumption, HitDedupSizeAssumption, HitRetryMaxAssumption
<1>3. LinkTypeOK
  BY <1>2 DEF HpInit, PairedInit, LinkTypeOK
<1>4. savedConfig \in ConfigType
  BY <1>1, Zenon DEF HpInit, PairedInit, GsInit, GsInitWith, GsTypeOK
<1>5. MainTypeOK
  BY <1>2, <1>4 DEF HpInit, PairedInit, MainTypeOK, EmitterStates
<1>6. VestTypeOK
  BY <1>2, <1>3, MeAssumption DEF HpInit, PairedInit, VestTypeOK, VestStates, MainSteps
<1>7. HandlesInv
  BY DEF HpInit, PairedInit, HandlesInv
<1> QED BY <1>1, <1>3, <1>5, <1>6, <1>7, EmTypeParts DEF HpTypeInv, VestTypeInv

\* What one side leaves alone stays of its type when the link does.
LEMMA EmitterKept ==
  ASSUME EmTypeOK, UNCHANGED <<gsVars, emVars>>, LinkTypeOK' PROVE EmTypeOK'
BY DEF EmTypeOK, GsTypeOK, gsVars, emVars, triggerVars

LEMMA VestKept ==
  ASSUME VestTypeInv, UNCHANGED vestVars, LinkTypeOK' PROVE VestTypeInv'
BY DEF VestTypeInv, VestTypeOK, HandlesInv, vestVars, pairVars, connVars, hitVars, mainVars

LEMMA HpTypeStep == HpTypeInv /\ [HpNext]_hpVars => HpTypeInv'
<1> SUFFICES ASSUME HpTypeInv, [HpNext]_hpVars PROVE HpTypeInv'
  OBVIOUS
<1>0. EmTypeOK /\ VestTypeInv /\ LinkTypeOK
  BY EmTypeParts DEF HpTypeInv
<1>1. CASE EmitterStep \/ EmitterReceives
  <2>1. (EmInternal \/ RecvHit) /\ UNCHANGED vestVars
    BY <1>1 DEF EmitterStep, EmitterReceives
  <2>2. EmTypeOK'
    <3>1. EmNext
      BY <2>1 DEF EmNext
    <3> QED BY <1>0, <3>1, EmTypeStep
  <2>3. LinkTypeOK'
    BY <2>2 DEF EmTypeOK
  <2> QED BY <1>0, <2>1, <2>2, <2>3, VestKept DEF HpTypeInv
<1>2. CASE VestStep \/ VestReceives
  <2>1. (VestInternal \/ VestCommand) /\ UNCHANGED <<gsVars, emVars>>
    BY <1>2 DEF VestStep, VestReceives
  <2>2. VestTypeInv'
    BY <1>0, <2>1, VestTypeInternal, VestTypeCommand
  <2>3. LinkTypeOK'
    BY <2>2 DEF VestTypeInv, VestTypeOK
  <2> QED BY <1>0, <2>1, <2>2, <2>3, EmitterKept DEF HpTypeInv
<1>3. CASE Reconnect
  <2>1. /\ link' = "up" /\ toVest' = toVest /\ toEmitter' = toEmitter
        /\ EmConnected /\ VestConnects(Me)
    BY <1>3 DEF Reconnect
  <2>2. LinkTypeOK'
    BY <1>0, <2>1 DEF LinkTypeOK
  <2>3. VestTypeInv'
    BY <1>0, <2>1, <2>2, MeAssumption, VestConnectsTyped
  <2>4. EmTypeOK'
    BY <1>0, <2>1, <2>2 DEF EmConnected, EmTypeOK, GsTypeOK, gsVars, triggerVars
  <2> QED BY <2>3, <2>4 DEF HpTypeInv
<1>4. CASE LinkEnds
  <2>1. LinkDrop /\ UNCHANGED <<gsVars, emVars, vestVars>>
    BY <1>4 DEF LinkEnds
  <2>2. LinkTypeOK'
    <3>1. AnyEmitterDrops
      BY <2>1 DEF AnyEmitterDrops
    <3> QED BY <1>0, <3>1, VestTypeLink DEF VestTypeInv, VestTypeOK
  <2> QED BY <1>0, <2>1, <2>2, EmitterKept, VestKept DEF HpTypeInv
<1>5. CASE UNCHANGED hpVars
  <2>1. UNCHANGED <<gsVars, linkVars, emVars, vestVars>>
    BY <1>5 DEF hpVars
  <2>2. LinkTypeOK'
    BY <1>0, <2>1 DEF LinkTypeOK, linkVars
  <2> QED BY <1>0, <2>1, <2>2, EmitterKept, VestKept DEF HpTypeInv
<1> QED BY <1>1, <1>2, <1>3, <1>4, <1>5 DEF HpNext

LEMMA HpTypeHolds == HpSpec => []HpTypeInv
BY HpTypeInit, HpTypeStep, PTL DEF HpSpec

-----------------------------------------------------------------------------
(* Hits are what the vest registered.                                      *)

\* Hits as the vest has registered them.
Genuine == {h \in Hits : h.serial \in DOMAIN registered /\ registered[h.serial] = h.id}

GenuineInv == toEmitter \in Seq(Genuine) /\ hitBuf \in Genuine \cup {None}

\* A sequence over a set is one over a larger set.
LEMMA SeqOfMore ==
  ASSUME NEW S, NEW T, S \subseteq T, NEW q \in Seq(S) PROVE q \in Seq(T)
OBVIOUS

\* Nothing that was registered is forgotten.
LEMMA NothingForgotten ==
  ASSUME registered \in Seq(PacketIds),
         registered' = registered \/ \E id \in PacketIds : registered' = Append(registered, id)
  PROVE  /\ DOMAIN registered \subseteq DOMAIN registered'
         /\ \A s \in DOMAIN registered : registered'[s] = registered[s]
         /\ Genuine \subseteq Genuine'
<1>1. /\ DOMAIN registered \subseteq DOMAIN registered'
      /\ \A s \in DOMAIN registered : registered'[s] = registered[s]
  <2>1. CASE registered' = registered
    BY <2>1
  <2>2. ASSUME NEW id \in PacketIds, registered' = Append(registered, id)
        PROVE  /\ DOMAIN registered \subseteq DOMAIN registered'
               /\ \A s \in DOMAIN registered : registered'[s] = registered[s]
    BY <2>2
  <2> QED BY <2>1, <2>2
<1> QED BY <1>1 DEF Genuine

\* What the emitter does on its own to the notifications in flight and, but
\* for the phone's CMD_DEBUG_HIT, to the ring of packet ids.
LEMMA EmitterKeepsHits ==
  ASSUME EmInternal
  PROVE  \/ /\ toEmitter' = toEmitter
            /\ "DEBUG_HIT" \notin Inputs => hitDedup' = hitDedup
            /\ link' = "down" <=> link = "down"
         \/ toEmitter' = <<>> /\ hitDedup' = <<>> /\ link' = "down"
<1> USE DEF linkVars, emVars, OnlyWork
<1>1. CASE PhoneCommand
  BY <1>1 DEF PhoneCommand, CmdStart, CmdGameOver, CmdRespawn, CmdReload, CmdDebugFire,
     CmdStartLobbyHost, CmdStartLobbyScan, CmdStopLobby, CmdEnterPairing, CmdUnpairVest,
     CmdConfig, CmdAmmoIncrease, CmdBroadcastGameCfg, MeshGameStart, StartGameLocal,
     CmdDebugHit, Phone, VestHit
<1>2. CASE Work
  BY <1>2 DEF Work, TriggerWork, ReloadWork, PlayerStateWork, ScoreboardWork,
     LobbyAnnounceWork, PeriodicWork, IrTxWork, PairingTxWork
<1>3. CASE TriggerEdge \/ FinishDeath \/ EmGattReady \/ EmDisconnected \/ EmTick
  BY <1>3 DEF TriggerEdge, FinishDeath, EmGattReady, EmDisconnected, EmTick
<1>4. CASE EmReboot
  BY <1>4 DEF EmReboot
<1> QED BY <1>1, <1>2, <1>3, <1>4 DEF EmInternal

\* What the vest does on its own to a hit: it registers a new one, notifies
\* the last one, or forgets it in a reboot.
Notifies ==
  /\ hitPending \/ mainPc = "notify"
  /\ NotifyHit
  /\ UNCHANGED <<hitBuf, registered, link, toVest, peer, econn>>
  /\ mainPc' \in {mainPc, "arm"}
KeepsHits ==
  /\ UNCHANGED <<hitBuf, registered, linkVars, peer, econn>>
  /\ hitPending' => hitPending
  /\ mainPc' = "notify" => mainPc = "notify"
EndsLink ==
  /\ UNCHANGED <<hitBuf, registered, linkVars, mainPc>>
  /\ hitPending' = FALSE /\ econn' = FALSE /\ peer' = None

LEMMA VestHitSteps ==
  ASSUME VestInternal
  PROVE  IrCommit \/ Notifies \/ KeepsHits \/ EndsLink \/ VestReboot
<1> USE DEF linkVars, pairVars, connVars, hitVars, mainVars
<1>1. ASSUME NEW s \in Shooters, IrShot(s) PROVE KeepsHits
  BY <1>1 DEF IrShot, KeepsHits
<1>2. ASSUME NEW p \in Peers, PairingFrame(p) PROVE KeepsHits
  BY <1>2 DEF PairingFrame, KeepsHits
<1>3. CASE IrNotify
  BY <1>3 DEF IrNotify, Notifies
<1>4. CASE IrArm \/ PairingAdvertise \/ PairingArm
  BY <1>4 DEF IrArm, PairingAdvertise, PairingArm, KeepsHits
<1>5. CASE HitRetry
  BY <1>5 DEF HitRetry, RetryStale, RetryGivesUp, RetrySends, KeepsHits, Notifies
<1>6. CASE PairTimeout
  BY <1>6 DEF PairTimeout, KeepsHits
<1>7. CASE VestDisconnected
  BY <1>7 DEF VestDisconnected, EndsLink
<1> QED BY <1>1, <1>2, <1>3, <1>4, <1>5, <1>6, <1>7 DEF VestInternal, MainStep

\* The notification that is queued is the vest's last hit.
LEMMA NotifiesGenuine ==
  ASSUME VestTypeInv, NEW S, toEmitter \in Seq(S), hitBuf \in S, Notifies
  PROVE  toEmitter' \in Seq(S)
<1>1. Len(toEmitter) <= LinkCap /\ <<hitBuf>> \in Seq(S)
  BY DEF VestTypeInv, VestTypeOK, LinkTypeOK
<1>2. Queued(toEmitter, <<hitBuf>>) \in Seq(S)
  BY <1>1, QueuedTyped
<1> QED BY <1>2 DEF Notifies, NotifyHit, SendToEmitter

\* The hit registered is the one that is kept and notified.
LEMMA Registers ==
  ASSUME HpTypeInv, IrCommit
  PROVE  \E id \in PacketIds :
           /\ FreshIds => id \notin UsedIds
           /\ registered' = Append(registered, id)
           /\ hitBuf' \in Genuine' /\ hitBuf'.serial = Len(registered) + 1
           /\ DOMAIN registered' = 1 .. Len(registered) + 1
           /\ registered'[Len(registered) + 1] = id
<1> DEFINE n == Len(registered) + 1
<1>1. /\ registered \in Seq(PacketIds) /\ Len(registered) \in Nat /\ mainShooter \in Players
  BY ShootersAssumption DEF HpTypeInv, VestTypeInv, VestTypeOK, HandlesInv, IrCommit
<1>2. PICK id \in PacketIds :
        /\ FreshIds => id \notin UsedIds
        /\ hitBuf' = [id |-> id, shooter |-> mainShooter, serial |-> n]
        /\ registered' = Append(registered, id)
  BY DEF IrCommit
<1>3. DOMAIN registered' = 1 .. n /\ registered'[n] = id
  BY <1>1, <1>2
<1>4. hitBuf' \in Hits
  BY <1>1, <1>2 DEF Hits
<1>5. hitBuf' \in Genuine'
  BY <1>1, <1>2, <1>3, <1>4 DEF Genuine
<1> QED BY <1>2, <1>3, <1>5

LEMMA GenuineInit == HpInit => GenuineInv
<1>1. <<>> \in Seq(Genuine)
  OBVIOUS
<1> QED BY <1>1 DEF HpInit, PairedInit, GenuineInv

LEMMA GenuineStep == HpTypeInv /\ GenuineInv /\ [HpNext]_hpVars => GenuineInv'
<1> SUFFICES ASSUME HpTypeInv, GenuineInv, [HpNext]_hpVars PROVE GenuineInv'
  OBVIOUS
<1>0. /\ toEmitter \in Seq(Genuine) /\ hitBuf \in Genuine \cup {None}
      /\ Len(toEmitter) <= LinkCap /\ registered \in Seq(PacketIds)
  BY DEF GenuineInv, HpTypeInv, VestTypeInv, VestTypeOK, LinkTypeOK
<1>1. ASSUME UNCHANGED registered, toEmitter' \in Seq(Genuine), hitBuf' \in Genuine \cup {None}
      PROVE  GenuineInv'
  <2>1. Genuine' = Genuine
    BY <1>1 DEF Genuine
  <2> QED BY <1>1, <2>1 DEF GenuineInv
<1>2. CASE EmitterStep
  <2>1. EmInternal /\ UNCHANGED <<registered, hitBuf>>
    BY <1>2 DEF EmitterStep, vestVars, hitVars
  <2>2. toEmitter' = toEmitter \/ toEmitter' = <<>>
    BY <2>1, EmitterKeepsHits
  <2>3. <<>> \in Seq(Genuine)
    OBVIOUS
  <2>4. toEmitter' \in Seq(Genuine)
    BY <1>0, <2>2, <2>3, Zenon
  <2> QED BY <1>0, <1>1, <2>1, <2>4
<1>3. CASE EmitterReceives
  <2>1. /\ UNCHANGED <<registered, hitBuf>>
        /\ toEmitter # <<>> /\ toEmitter' = Tail(toEmitter)
    BY <1>3 DEF EmitterReceives, RecvHit, vestVars, hitVars
  <2>2. toEmitter' \in Seq(Genuine)
    BY <1>0, <2>1, HeadTailProperties
  <2> QED BY <1>0, <1>1, <2>1, <2>2
<1>4. CASE VestStep
  <2>0. VestInternal
    BY <1>4 DEF VestStep
  <2>1. CASE IrCommit
    <3>1. hitBuf' \in Genuine' /\ Genuine \subseteq Genuine'
      BY <1>0, <2>1, Registers, NothingForgotten
    <3>2. toEmitter' = toEmitter
      BY <2>1 DEF IrCommit, linkVars
    <3> QED BY <1>0, <3>1, <3>2, SeqOfMore DEF GenuineInv
  <2>2. CASE Notifies
    <3>1. hitBuf \in Genuine
      BY <1>0, <2>2, NoneAssumption DEF Notifies, HpTypeInv, VestTypeInv, HandlesInv
    <3>2. toEmitter' \in Seq(Genuine)
      BY <1>0, <2>2, <3>1, NotifiesGenuine DEF HpTypeInv
    <3> QED BY <1>0, <1>1, <2>2, <3>2 DEF Notifies
  <2>3. CASE KeepsHits \/ EndsLink
    BY <1>0, <1>1, <2>3 DEF KeepsHits, EndsLink, linkVars
  <2>4. CASE VestReboot
    <3>1. /\ hitBuf' = None /\ registered' = registered
          /\ \E n \in 0 .. Len(toEmitter) : toEmitter' = SubSeq(toEmitter, 1, n)
      BY <2>4 DEF VestReboot
    <3>2. toEmitter' \in Seq(Genuine)
      BY <1>0, <3>1, CutTyped
    <3> QED BY <1>1, <3>1, <3>2
  <2> QED BY <2>0, <2>1, <2>2, <2>3, <2>4, VestHitSteps
<1>5. CASE VestReceives \/ Reconnect
  BY <1>0, <1>1, <1>5 DEF VestReceives, VestCommand, Reconnect, VestConnects, hitVars
<1>6. CASE LinkEnds
  <2>1. /\ UNCHANGED <<registered, hitBuf>>
        /\ \E n \in 0 .. Len(toEmitter) : toEmitter' = SubSeq(toEmitter, 1, n)
    BY <1>6 DEF LinkEnds, LinkDrop, vestVars, hitVars
  <2>2. toEmitter' \in Seq(Genuine)
    BY <1>0, <2>1, CutTyped
  <2> QED BY <1>0, <1>1, <2>1, <2>2
<1>7. CASE UNCHANGED hpVars
  BY <1>0, <1>1, <1>7 DEF hpVars, vestVars, hitVars, linkVars
<1> QED BY <1>2, <1>3, <1>4, <1>5, <1>6, <1>7 DEF HpNext

-----------------------------------------------------------------------------
(* Acknowledgements.                                                       *)

\* Commands that acknowledge only hits that have reached the emitter in a
\* game.
Answers == {m \in VestCommands : m.cmd = "HIT_ACK" =>
              \E s \in delivered : s \in DOMAIN registered /\ registered[s] = m.id}

DistinctIds == \A i, j \in DOMAIN registered : registered[i] = registered[j] => i = j

AckInv == DistinctIds /\ toVest \in Seq(Answers) /\ AckMeansDelivered

\* A step that writes no acknowledgement: of the emitter on its own, but for
\* the phone's CMD_DEBUG_HIT.
Other == {m \in VestCommands : m.cmd # "HIT_ACK"}

LEMMA EmitterWrites ==
  ASSUME "DEBUG_HIT" \notin Inputs, EmTypeOK, EmInternal
  PROVE  \/ toVest' = toVest
         \/ \E ms \in Seq(Other) : toVest' = Queued(toVest, ms)
         \/ \E n \in 0 .. Len(toVest) : toVest' = SubSeq(toVest, 1, n)
<1>0. GsTypeOK /\ LinkTypeOK /\ MainTypeOK
  BY EmTypeParts
<1>1. ASSUME NEW m \in Other, SendToVest(<<m>>)
      PROVE  toVest' = toVest \/ \E ms \in Seq(Other) : toVest' = Queued(toVest, ms)
  <2>1. <<m>> \in Seq(Other)
    OBVIOUS
  <2> QED BY <1>1, <2>1 DEF SendToVest
<1>2. ASSUME NEW ids \in SUBSET Players, NEW c \in ConfigType, PushGameStart(ids, c)
      PROVE  toVest' = toVest \/ \E ms \in Seq(Other) : toVest' = Queued(toVest, ms)
  <2> DEFINE list == [cmd |-> "FRIENDLY_LIST", ids |-> ids]
             fire == [cmd |-> "FRIENDLY_FIRE", on |-> c.friendlyFire]
  <2>1. list \in Other /\ fire \in Other
    <3>1. c.friendlyFire \in BOOLEAN
      BY DEF ConfigType
    <3> QED BY <3>1, CommandsTyped DEF Other
  <2>2. toVest' = toVest \/ SendToVest(<<list, fire>>)
    BY <1>2 DEF PushGameStart
  <2> HIDE DEF list, fire
  <2>3. <<list, fire>> \in Seq(Other)
    BY <2>1
  <2> QED BY <2>2, <2>3 DEF SendToVest
<1>3. /\ [cmd |-> "RESPAWN"] \in Other /\ [cmd |-> "UNPAIR"] \in Other
      /\ [cmd |-> "DEATH"] \in Other
  BY CommandsTyped DEF Other
<1>4. cfg \in ConfigType /\ friendly \in SUBSET Players
  BY <1>0 DEF GsTypeOK, MainTypeOK
<1>5. CASE PhoneCommand
  <2>1. CASE CmdStart
    BY <1>2, <1>4, <2>1 DEF CmdStart
  <2>2. ASSUME NEW gc \in GameConfigs, StartGameLocal(gc)
        PROVE  toVest' = toVest \/ \E ms \in Seq(Other) : toVest' = Queued(toVest, ms)
    <3>1. gc.friends \in SUBSET Players /\ gc.cfg \in ConfigType
      BY GameConfigsAssumption DEF GameConfigType
    <3>2. \E ids \in SUBSET Players, c \in ConfigType : PushGameStart(ids, c)
      BY <1>4, <2>2, <3>1 DEF StartGameLocal
    <3> QED BY <1>2, <3>2
  <2>3. CASE CmdRespawn
    BY <1>1, <1>3, <2>3 DEF CmdRespawn
  <2>4. CASE CmdUnpairVest
    BY <1>1, <1>3, <2>4 DEF CmdUnpairVest
  <2>5. CASE CmdGameOver \/ CmdReload \/ CmdDebugFire \/ CmdStartLobbyHost
             \/ CmdStartLobbyScan \/ CmdStopLobby \/ CmdEnterPairing
    BY <2>5 DEF CmdGameOver, CmdReload, CmdDebugFire, CmdStartLobbyHost, CmdStartLobbyScan,
       CmdStopLobby, CmdEnterPairing, linkVars
  <2>6. ASSUME NEW c \in Configs, CmdConfig(c) PROVE toVest' = toVest
    BY <2>6 DEF CmdConfig, linkVars
  <2>7. ASSUME NEW n \in AmmoGrants, CmdAmmoIncrease(n) PROVE toVest' = toVest
    BY <2>7 DEF CmdAmmoIncrease, linkVars
  <2>8. ASSUME NEW id \in PacketIds, NEW shooter \in Players, CmdDebugHit(id, shooter)
        PROVE  FALSE
    BY <2>8 DEF CmdDebugHit, Phone
  <2> QED BY <1>5, <2>1, <2>2, <2>3, <2>4, <2>5, <2>6, <2>7, <2>8
          DEF PhoneCommand, CmdBroadcastGameCfg, MeshGameStart
<1>6. CASE FinishDeath
  BY <1>1, <1>3, <1>6 DEF FinishDeath
<1>7. CASE EmReboot
  BY <1>7 DEF EmReboot
<1>8. CASE TriggerEdge \/ EmGattReady \/ EmDisconnected \/ EmTick
  BY <1>8 DEF TriggerEdge, EmGattReady, EmDisconnected, EmTick, linkVars
<1>9. CASE Work
  BY <1>9 DEF Work, TriggerWork, ReloadWork, PlayerStateWork, ScoreboardWork,
     LobbyAnnounceWork, PeriodicWork, IrTxWork, PairingTxWork, OnlyWork, linkVars
<1> QED BY <1>5, <1>6, <1>7, <1>8, <1>9 DEF EmInternal

\* A hit the emitter acknowledges has been delivered in a game.
LEMMA AckReceives ==
  ASSUME HpTypeInv, GenuineInv, AckInv, EmitterReceives
  PROVE  AckInv'
<1> DEFINE h == Head(toEmitter)
<1>0. /\ LinkTypeOK /\ registered \in Seq(PacketIds) /\ toVest \in Seq(Answers)
      /\ toEmitter \in Seq(Genuine) /\ toEmitter # <<>>
      /\ Len(toVest) <= LinkCap
  BY EmTypeParts DEF HpTypeInv, GenuineInv, AckInv, VestTypeInv, VestTypeOK, LinkTypeOK,
     EmitterReceives, RecvHit
<1>1. h \in Genuine
  BY <1>0, HeadTailProperties
<1>2. /\ registered' = registered /\ acked' = acked
      /\ delivered' = IF InGame THEN delivered \cup {h.serial} ELSE delivered
  BY DEF EmitterReceives, vestVars, hitVars
<1>3. Answers \subseteq Answers'
  BY <1>2 DEF Answers
<1>4. VestHit(h)
  BY DEF EmitterReceives, RecvHit
<1> HIDE DEF h
<1>5. toVest' \in Seq(Answers')
  <2>1. CASE toVest' = toVest
    BY <1>0, <1>3, <2>1, SeqOfMore
  <2>2. CASE InGame /\ HitAck(h)
    <3> DEFINE ack == [cmd |-> "HIT_ACK", id |-> h.id]
    <3>1. ack \in VestCommands
      BY <1>1, CommandsTyped DEF Genuine, Hits
    <3>2. h.serial \in delivered' /\ h.serial \in DOMAIN registered' /\ registered'[h.serial] = h.id
      BY <1>1, <1>2, <2>2 DEF Genuine
    <3>3. ack \in Answers'
      BY <3>1, <3>2 DEF Answers
    <3>4. toVest' = toVest \/ toVest' = Queued(toVest, <<ack>>)
      BY <2>2 DEF HitAck, SendToVest
    <3> HIDE DEF ack
    <3>5. <<ack>> \in Seq(Answers') /\ toVest \in Seq(Answers')
      BY <1>0, <1>3, <3>3, SeqOfMore
    <3> QED BY <1>0, <3>4, <3>5, QueuedTyped
  <2> QED BY <1>4, <2>1, <2>2
          DEF VestHit, HitIgnored, HitDuplicate, HitWhileDead, HitApplied, InGame
<1> QED BY <1>2, <1>5 DEF AckInv, DistinctIds, AckMeansDelivered

\* An acknowledgement that settles the pending hit is about that very hit.
LEMMA AckSettles ==
  ASSUME HpTypeInv, GenuineInv, AckInv, VestReceives
  PROVE  AckInv'
<1> DEFINE m == Head(toVest)
<1>0. /\ toVest \in Seq(Answers) /\ toVest # <<>> /\ VestCommand
  BY DEF AckInv, VestReceives, VestCommand
<1>1. m \in Answers /\ toVest' = Tail(toVest) /\ Tail(toVest) \in Seq(Answers)
  BY <1>0, HeadTailProperties DEF VestCommand
<1>2. registered' = registered /\ delivered' = delivered
  BY <1>0 DEF VestReceives, VestCommand
<1>3. Answers' = Answers
  BY <1>2 DEF Answers
<1>4. acked' \subseteq delivered
  <2>1. acked \subseteq delivered
    BY DEF AckInv, AckMeansDelivered
  <2>2. CASE m.cmd = "HIT_ACK" /\ hitPending /\ ~hitPending'
    <3>1. OnHitAck(m)
      BY <1>0, <2>2 DEF VestCommand, OnHitAck, OnFriendlyList, OnFriendlyFire, OnDeath,
         OnRespawn, OnUnpair
    <3>2. m.id = hitBuf.id
      BY <2>2, <3>1 DEF OnHitAck
    <3>3. hitBuf \in Genuine
      BY <2>2, NoneAssumption DEF HpTypeInv, VestTypeInv, HandlesInv, GenuineInv
    <3>4. PICK s \in delivered : s \in DOMAIN registered /\ registered[s] = m.id
      BY <1>1, <2>2 DEF Answers
    <3>5. s = hitBuf.serial
      BY <3>2, <3>3, <3>4 DEF Genuine, AckInv, DistinctIds
    <3> QED BY <2>1, <3>4, <3>5 DEF VestReceives
  <2>3. CASE ~(m.cmd = "HIT_ACK" /\ hitPending /\ ~hitPending')
    BY <2>1, <2>3 DEF VestReceives
  <2> QED BY <2>2, <2>3
<1> QED BY <1>1, <1>2, <1>3, <1>4 DEF AckInv, DistinctIds, AckMeansDelivered

\* Commands that survive, whoever writes more of them.
LEMMA AnswersKept ==
  ASSUME HpTypeInv, AckInv, "DEBUG_HIT" \notin Inputs, EmInternal
  PROVE  toVest' \in Seq(Answers)
<1>0. /\ toVest \in Seq(Answers) /\ toVest \in Seq(VestCommands) /\ Len(toVest) <= LinkCap
      /\ EmTypeOK
  BY EmTypeParts DEF HpTypeInv, AckInv, LinkTypeOK
<1>1. Other \subseteq Answers
  BY DEF Other, Answers
<1>2. ASSUME NEW ms \in Seq(Other), toVest' = Queued(toVest, ms) PROVE toVest' \in Seq(Answers)
  <2>1. ms \in Seq(Answers)
    BY <1>1, SeqOfMore
  <2> QED BY <1>0, <1>2, <2>1, QueuedTyped
<1>3. ASSUME NEW n \in 0 .. Len(toVest), toVest' = SubSeq(toVest, 1, n)
      PROVE  toVest' \in Seq(Answers)
  BY <1>0, <1>3, CutTyped
<1> QED BY <1>0, <1>2, <1>3, EmitterWrites

\* The vest registers a hit under an id of its own.
LEMMA AckInvVest ==
  ASSUME FreshIds, HpTypeInv, AckInv, VestStep
  PROVE  AckInv'
<1>0. /\ VestInternal /\ UNCHANGED <<delivered, acked>>
      /\ registered \in Seq(PacketIds) /\ toVest \in Seq(Answers)
  BY DEF VestStep, history, AckInv, HpTypeInv, VestTypeInv, VestTypeOK
<1>1. CASE IrCommit
  <2>1. PICK id \in PacketIds :
          /\ id \notin UsedIds /\ registered' = Append(registered, id)
          /\ DOMAIN registered' = 1 .. Len(registered) + 1
          /\ registered'[Len(registered) + 1] = id
    BY <1>1, Registers
  <2>2. /\ DOMAIN registered \subseteq DOMAIN registered'
        /\ \A s \in DOMAIN registered : registered'[s] = registered[s]
    BY <1>0, <2>1, NothingForgotten
  <2>3. Answers \subseteq Answers'
    BY <1>0, <2>2 DEF Answers
  <2>4. DistinctIds'
    <3>1. \A i \in DOMAIN registered : registered[i] # id
      BY <2>1 DEF UsedIds
    <3>2. \A i \in DOMAIN registered' : i = Len(registered) + 1 \/ i \in DOMAIN registered
      BY <1>0, <2>1
    <3> QED BY <2>1, <2>2, <3>1, <3>2 DEF AckInv, DistinctIds
  <2>5. toVest' = toVest
    BY <1>1 DEF IrCommit, linkVars
  <2>6. toVest' \in Seq(Answers')
    BY <1>0, <2>3, <2>5, SeqOfMore
  <2> QED BY <1>0, <2>4, <2>6 DEF AckInv, AckMeansDelivered
<1>2. CASE ~IrCommit
  <2>1. registered' = registered /\ (toVest' = toVest \/ toVest' = <<>>)
    BY <1>0, <1>2, VestHitSteps DEF Notifies, KeepsHits, EndsLink, VestReboot, linkVars
  <2>2. Answers' = Answers
    BY <1>0, <2>1 DEF Answers
  <2>3. <<>> \in Seq(Answers)
    OBVIOUS
  <2>4. toVest' \in Seq(Answers)
    BY <1>0, <2>1, <2>3, Zenon
  <2> QED BY <1>0, <2>1, <2>2, <2>4 DEF AckInv, DistinctIds, AckMeansDelivered
<1> QED BY <1>1, <1>2

LEMMA AckInvInit == HpInit => AckInv
<1> SUFFICES ASSUME HpInit PROVE AckInv
  OBVIOUS
<1>1. registered = <<>> /\ toVest = <<>> /\ acked = {}
  BY DEF HpInit, PairedInit, HistoryInit
<1>2. <<>> \in Seq(Answers) /\ DOMAIN <<>> = {}
  OBVIOUS
<1> QED BY <1>1, <1>2 DEF AckInv, DistinctIds, AckMeansDelivered

LEMMA AckInvStep ==
  ASSUME FreshIds, "DEBUG_HIT" \notin Inputs
  PROVE  HpTypeInv /\ GenuineInv /\ AckInv /\ [HpNext]_hpVars => AckInv'
<1> SUFFICES ASSUME HpTypeInv, GenuineInv, AckInv, [HpNext]_hpVars PROVE AckInv'
  OBVIOUS
<1>0. toVest \in Seq(Answers) /\ Len(toVest) <= LinkCap
  BY EmTypeParts DEF AckInv, HpTypeInv, LinkTypeOK
<1>1. ASSUME UNCHANGED <<registered, delivered, acked>>, toVest' \in Seq(Answers)
      PROVE  AckInv'
  <2>1. Answers' = Answers
    BY <1>1 DEF Answers
  <2> QED BY <1>1, <2>1 DEF AckInv, DistinctIds, AckMeansDelivered
<1>2. CASE EmitterStep
  <2>1. EmInternal /\ UNCHANGED <<registered, delivered, acked>>
    BY <1>2 DEF EmitterStep, vestVars, hitVars
  <2>2. toVest' \in Seq(Answers)
    BY <2>1, AnswersKept
  <2> QED BY <1>1, <2>1, <2>2
<1>3. CASE Reconnect
  BY <1>0, <1>1, <1>3 DEF Reconnect, VestConnects, hitVars, history
<1>4. CASE LinkEnds
  <2>1. /\ UNCHANGED <<registered, delivered, acked>>
        /\ \E n \in 0 .. Len(toVest) : toVest' = SubSeq(toVest, 1, n)
    BY <1>4 DEF LinkEnds, LinkDrop, vestVars, hitVars
  <2>2. toVest' \in Seq(Answers)
    BY <1>0, <2>1, CutTyped
  <2> QED BY <1>1, <2>1, <2>2
<1>5. CASE UNCHANGED hpVars
  BY <1>0, <1>1, <1>5 DEF hpVars, vestVars, hitVars, history, linkVars
<1> QED BY <1>2, <1>3, <1>4, <1>5, AckReceives, AckSettles, AckInvVest DEF HpNext

\* A hit that an acknowledgement settled did reach the emitter in a game,
\* through any losses, retries, disconnections and reboots, whatever the
\* queues hold.  An id drawn twice would let the acknowledgement of the first
\* hit settle the second (sys_rand32_get, reciever main.c:242), and
\* CMD_DEBUG_HIT has the emitter acknowledge an id it made up: both are
\* excluded.
THEOREM AcksAreTrue ==
  ASSUME FreshIds, "DEBUG_HIT" \notin Inputs
  PROVE  HpSpec => []AckMeansDelivered
<1>1. HpInit => GenuineInv /\ AckInv
  BY GenuineInit, AckInvInit
<1>2. HpTypeInv /\ GenuineInv /\ AckInv /\ [HpNext]_hpVars => (GenuineInv /\ AckInv)'
  BY GenuineStep, AckInvStep
<1>3. AckInv => AckMeansDelivered
  BY DEF AckInv
<1> QED BY <1>1, <1>2, <1>3, HpTypeHolds, PTL DEF HpSpec

-----------------------------------------------------------------------------
(* Every hit counts at most once, in order.                                *)

\* A hit that will not be counted out of order or a second time: it is newer
\* than the last one that counted, or is that one and still in the ring.
Ordered(h) == h.serial > lastApplied \/ (h.serial = lastApplied /\ SeenHit(h))

QueueInOrder ==
  \A i, j \in DOMAIN toEmitter : i <= j => toEmitter[i].serial <= toEmitter[j].serial
QueueOrdered == \A i \in DOMAIN toEmitter : Ordered(toEmitter[i])

\* The vest may notify its last hit (again).
Sendable == hitPending \/ (mainPc = "notify" /\ econn)

\* No notification of the last hit was ever queued.
Unsent ==
  /\ hitBuf.serial > lastApplied
  /\ \A i \in DOMAIN toEmitter : toEmitter[i].serial < hitBuf.serial

\* The ring is emptied only in a reboot of the emitter, which ends the link:
\* the vest drops a hit that was notified before it can notify it again.
SendsInOrder ==
  Sendable => \/ link = "down" /\ peer # None
              \/ Unsent
              \/ peer # None /\ Ordered(hitBuf)

CountInv ==
  /\ lastApplied \in 0 .. Len(registered)
  /\ econn => peer # None
  /\ hitBuf # None => hitBuf.serial = Len(registered)
  /\ QueueInOrder
  /\ QueueOrdered
  /\ SendsInOrder

\* After hit_dedup_check the ring has the id, even if it has no other.
LEMMA Remembered ==
  ASSUME MainTypeOK, NEW h, h.id \in PacketIds, RememberHit(h)
  PROVE  SeenHit(h)'
<1> DEFINE all == Append(hitDedup, h.id)
<1>1. hitDedup \in Seq(PacketIds) /\ Len(hitDedup) \in Nat
      /\ HitDedupSize \in Nat /\ HitDedupSize >= 1
  BY HitDedupSizeAssumption DEF MainTypeOK
<1>2. /\ all \in Seq(PacketIds) /\ Len(all) = Len(hitDedup) + 1 /\ all[Len(all)] = h.id
      /\ all # <<>>
  BY <1>1, AppendProperties
<1>3. hitDedup' = all \/ (Len(all) > HitDedupSize /\ hitDedup' = Tail(all))
  BY DEF RememberHit
<1> HIDE DEF all
<1>4. CASE hitDedup' = all
  <2>1. Len(all) \in DOMAIN all
    BY <1>1, <1>2
  <2> QED BY <1>2, <1>4, <2>1 DEF SeenHit
<1>5. CASE Len(all) > HitDedupSize /\ hitDedup' = Tail(all)
  <2>1. /\ Tail(all) \in Seq(PacketIds) /\ Len(Tail(all)) = Len(all) - 1
        /\ \A i \in 1 .. Len(all) - 1 : Tail(all)[i] = all[i + 1]
    BY <1>2, HeadTailProperties
  <2>2. Len(all) - 1 \in 1 .. Len(all) - 1 /\ Len(all) - 1 + 1 = Len(all)
    BY <1>1, <1>2, <1>5
  <2>3. Tail(all)[Len(all) - 1] = h.id
    BY <1>2, <2>1, <2>2
  <2>4. Len(all) - 1 \in DOMAIN Tail(all)
    BY <2>1, <2>2
  <2> QED BY <1>5, <2>3, <2>4 DEF SeenHit
<1> QED BY <1>3, <1>4, <1>5

\* What the emitter does with a hit: it counts it if it is new.
LEMMA CountsIfNew ==
  ASSUME HpTypeInv, GenuineInv, EmitterReceives
  PROVE  \/ UNCHANGED <<lastApplied, applications>> /\ hitDedup' = hitDedup
         \/ /\ ~SeenHit(Head(toEmitter)) /\ RememberHit(Head(toEmitter))
            /\ \/ UNCHANGED <<lastApplied, applications>>
               \/ lastApplied' = Head(toEmitter).serial /\ applications' = applications + 1
<1>1. VestHit(Head(toEmitter))
  BY DEF EmitterReceives, RecvHit
<1>2. CASE UNCHANGED <<dying, gsVars>>
  <2>1. UNCHANGED <<lastApplied, applications>>
    BY <1>1, <1>2 DEF EmitterReceives, VestHit, gsVars
  <2> QED BY <1>1, <2>1 DEF VestHit, HitIgnored, HitDuplicate, HitWhileDead, HitApplied
<1>3. CASE HitApplied(Head(toEmitter))
  BY <1>3 DEF HitApplied, EmitterReceives
<1> QED BY <1>1, <1>2, <1>3 DEF VestHit, HitIgnored, HitDuplicate, HitWhileDead

\* A hit that comes after the one that is handled stays in order.
LEMMA StaysOrdered ==
  ASSUME HpTypeInv, GenuineInv, EmitterReceives, NEW g \in Genuine,
         lastApplied \in Nat, Ordered(Head(toEmitter)), Ordered(g),
         Head(toEmitter).serial <= g.serial
  PROVE  Ordered(g)'
<1>0. PICK h \in Genuine : h = Head(toEmitter)
  BY HeadTailProperties DEF EmitterReceives, RecvHit, GenuineInv
<1>1. h.serial \in Nat /\ g.serial \in Nat /\ h.id \in PacketIds
  BY <1>0 DEF Genuine, Hits
<1>2. h.serial = g.serial => h.id = g.id
  BY <1>0 DEF Genuine
<1>3. CASE lastApplied' = lastApplied /\ hitDedup' = hitDedup
  BY <1>3 DEF Ordered, SeenHit
<1>4. CASE ~SeenHit(h) /\ RememberHit(h) /\ (lastApplied' = lastApplied \/ lastApplied' = h.serial)
  <2>1. h.serial > lastApplied
    BY <1>0, <1>4 DEF Ordered
  <2>2. g.serial > lastApplied /\ h.serial <= g.serial
    BY <1>0, <1>1, <2>1
  <2>3. SeenHit(h)'
    BY <1>1, <1>4, Remembered, EmTypeParts DEF HpTypeInv
  <2>4. g.serial = h.serial => SeenHit(g)'
    BY <1>2, <2>3 DEF SeenHit
  <2>5. g.serial > lastApplied' \/ (g.serial = lastApplied' /\ g.serial = h.serial)
    BY <1>1, <1>4, <2>2
  <2> QED BY <2>4, <2>5 DEF Ordered
<1> QED BY <1>0, <1>3, <1>4, CountsIfNew

\* The places of what is left of a queue, or added to it.
LEMMA CutKeeps ==
  ASSUME NEW S, NEW q \in Seq(S), NEW n \in 0 .. Len(q)
  PROVE  \A i \in DOMAIN SubSeq(q, 1, n) : i \in DOMAIN q /\ SubSeq(q, 1, n)[i] = q[i]
OBVIOUS

LEMMA TailKeeps ==
  ASSUME NEW S, NEW q \in Seq(S), q # <<>>
  PROVE  /\ 1 \in DOMAIN q /\ Head(q) = q[1]
         /\ \A i \in DOMAIN Tail(q) : i \in Nat /\ i + 1 \in DOMAIN q /\ Tail(q)[i] = q[i + 1]
<1>1. /\ Len(q) \in Nat /\ Len(q) # 0 /\ DOMAIN q = 1 .. Len(q) /\ Head(q) = q[1]
  BY EmptySeq
<1>2. /\ Tail(q) \in Seq(S) /\ Len(Tail(q)) = Len(q) - 1
      /\ \A i \in 1 .. Len(q) - 1 : Tail(q)[i] = q[i + 1]
  BY HeadTailProperties
<1>3. DOMAIN Tail(q) = 1 .. Len(q) - 1
  BY <1>2
<1> QED BY <1>1, <1>2, <1>3

LEMMA QueuedPlaces ==
  ASSUME NEW S, NEW q \in Seq(S), NEW h \in S, Len(q) <= LinkCap
  PROVE  \A i \in DOMAIN Queued(q, <<h>>) :
           \/ i \in DOMAIN q /\ Queued(q, <<h>>)[i] = q[i]
           \/ i = Len(q) + 1 /\ Queued(q, <<h>>)[i] = h
<1> DEFINE all == q \o <<h>>
           n == IF Len(all) <= LinkCap THEN Len(all) ELSE LinkCap
<1>1. /\ all \in Seq(S) /\ Len(all) = Len(q) + 1 /\ Len(q) \in Nat
      /\ DOMAIN all = 1 .. Len(q) + 1 /\ DOMAIN q = 1 .. Len(q)
      /\ \A i \in 1 .. Len(q) : all[i] = q[i]
      /\ all[Len(q) + 1] = h
  OBVIOUS
<1>2. n \in 0 .. Len(all) /\ Queued(q, <<h>>) = SubSeq(all, 1, n)
  BY <1>1, LinkCapAssumption DEF Queued
<1> HIDE DEF all, n
<1>3. \A i \in DOMAIN SubSeq(all, 1, n) : i \in DOMAIN all /\ SubSeq(all, 1, n)[i] = all[i]
  BY <1>1, <1>2, CutKeeps
<1>4. \A i \in 1 .. Len(q) + 1 : i \in 1 .. Len(q) \/ i = Len(q) + 1
  BY <1>1
<1> QED BY <1>1, <1>2, <1>3, <1>4

\* Losing the end of the queue disturbs nothing.
LEMMA FewerInOrder ==
  ASSUME QueueInOrder, QueueOrdered, UNCHANGED <<lastApplied, hitDedup>>,
         \A i \in DOMAIN toEmitter' : i \in DOMAIN toEmitter /\ toEmitter'[i] = toEmitter[i]
  PROVE  QueueInOrder' /\ QueueOrdered'
BY DEF QueueInOrder, QueueOrdered, Ordered, SeenHit

\* The serials of the hits in flight and of the last hit.
LEMMA Serials ==
  ASSUME HpTypeInv, GenuineInv, CountInv
  PROVE  /\ Len(registered) \in Nat /\ lastApplied \in Nat
         /\ \A i \in DOMAIN toEmitter :
              toEmitter[i] \in Genuine /\ toEmitter[i].serial \in 1 .. Len(registered)
         /\ hitBuf # None => hitBuf \in Genuine
         /\ Sendable => hitBuf # None
<1>1. /\ registered \in Seq(PacketIds) /\ toEmitter \in Seq(Genuine)
      /\ hitBuf \in Genuine \cup {None}
  BY DEF HpTypeInv, VestTypeInv, VestTypeOK, GenuineInv
<1>2. \A g \in Genuine : g.serial \in 1 .. Len(registered)
  BY <1>1 DEF Genuine
<1>3. Sendable => hitBuf # None
  BY NoneAssumption DEF Sendable, HpTypeInv, VestTypeInv, HandlesInv
<1> QED BY <1>1, <1>2, <1>3 DEF CountInv

LEMMA CountInvReceives ==
  ASSUME HpTypeInv, GenuineInv, CountInv, EmitterReceives
  PROVE  CountInv'
<1>0. toEmitter \in Seq(Genuine) /\ toEmitter # <<>> /\ toEmitter' = Tail(toEmitter)
  BY DEF GenuineInv, EmitterReceives, RecvHit
<1>1. /\ UNCHANGED <<registered, econn, peer, hitBuf, hitPending, mainPc, link>>
  BY DEF EmitterReceives, RecvHit, VestHit, vestVars, hitVars, connVars, mainVars
<1>2. /\ 1 \in DOMAIN toEmitter /\ Head(toEmitter) = toEmitter[1]
      /\ \A i \in DOMAIN toEmitter' : i \in Nat /\ i + 1 \in DOMAIN toEmitter
                                       /\ toEmitter'[i] = toEmitter[i + 1]
  BY <1>0, TailKeeps
<1>3. PICK h \in Genuine : h = Head(toEmitter)
  BY <1>2, Serials
<1>4. lastApplied' = lastApplied \/ lastApplied' = h.serial
  BY <1>3, CountsIfNew
<1>5. /\ h.serial \in 1 .. Len(registered) /\ Len(registered) \in Nat /\ lastApplied \in Nat
      /\ Ordered(h) /\ Ordered(Head(toEmitter))
  BY <1>2, <1>3, Serials DEF CountInv, QueueOrdered
<1>6. \A i \in DOMAIN toEmitter : h.serial <= toEmitter[i].serial
  <2>1. \A i \in DOMAIN toEmitter : 1 <= i
    BY <1>0
  <2> QED BY <1>2, <1>3, <2>1 DEF CountInv, QueueInOrder
<1>7. \A g \in Genuine : Ordered(g) /\ h.serial <= g.serial => Ordered(g)'
  BY <1>3, <1>5, StaysOrdered
<1>8. QueueOrdered'
  <2>1. ASSUME NEW i \in DOMAIN toEmitter' PROVE Ordered(toEmitter[i])'
    <3>1. PICK g \in Genuine : g = toEmitter[i + 1]
      BY <1>2, Serials
    <3>2. Ordered(g) /\ h.serial <= g.serial
      BY <1>2, <1>6, <3>1 DEF CountInv, QueueOrdered
    <3>3. Ordered(g)' /\ toEmitter'[i] = g
      BY <1>2, <1>7, <3>1, <3>2
    <3> QED BY <3>3 DEF Ordered, SeenHit
  <2> QED BY <2>1 DEF QueueOrdered
<1>9. QueueInOrder'
  BY <1>2 DEF CountInv, QueueInOrder
<1>10. lastApplied' \in 0 .. Len(registered)'
  BY <1>1, <1>4, <1>5 DEF CountInv
<1>11. SendsInOrder'
  <2> SUFFICES ASSUME Sendable' PROVE SendsInOrder'
    BY DEF SendsInOrder
  <2>0. Sendable /\ hitBuf \in Genuine /\ hitBuf.serial = Len(registered)
    BY <1>1, Serials DEF Sendable, CountInv
  <2>1. CASE link = "down" /\ peer # None
    BY <1>1, <2>1 DEF SendsInOrder
  <2>2. CASE Unsent
    <3>1. hitBuf.serial > h.serial
      BY <1>2, <1>3, <1>5, <2>0, <2>2 DEF Unsent
    <3>2. Unsent'
      BY <1>1, <1>2, <1>4, <2>2, <3>1 DEF Unsent
    <3> QED BY <3>2 DEF SendsInOrder
  <2>3. CASE peer # None /\ Ordered(hitBuf)
    <3>1. PICK g \in Genuine : g = hitBuf
      BY <2>0
    <3>2. Ordered(g)'
      BY <1>5, <1>7, <2>0, <2>3, <3>1
    <3>3. Ordered(hitBuf)'
      BY <1>1, <3>1, <3>2 DEF Ordered, SeenHit
    <3> QED BY <1>1, <2>3, <3>3 DEF SendsInOrder
  <2> QED BY <2>0, <2>1, <2>2, <2>3 DEF CountInv, SendsInOrder
<1> QED BY <1>1, <1>8, <1>9, <1>10, <1>11 DEF CountInv

LEMMA CountInvVest ==
  ASSUME HpTypeInv, GenuineInv, CountInv, VestStep
  PROVE  CountInv'
<1>0. /\ VestInternal /\ UNCHANGED <<lastApplied, hitDedup>>
      /\ toEmitter \in Seq(Genuine) /\ Len(toEmitter) <= LinkCap
      /\ Len(registered) \in Nat /\ lastApplied \in Nat
  BY EmTypeParts, Serials
     DEF VestStep, history, emVars, GenuineInv, HpTypeInv, LinkTypeOK
<1> USE DEF linkVars
<1>1. CASE IrCommit
  <2>1. /\ hitBuf'.serial = Len(registered) + 1 /\ Len(registered') = Len(registered) + 1
        /\ UNCHANGED <<toEmitter, econn, peer>>
    <3>1. registered \in Seq(PacketIds)
      BY DEF HpTypeInv, VestTypeInv, VestTypeOK
    <3> QED BY <1>1, <3>1, Registers DEF IrCommit, connVars
  <2>2. lastApplied \in 0 .. Len(registered)
    BY DEF CountInv
  <2>3. \A i \in DOMAIN toEmitter : toEmitter[i].serial \in 1 .. Len(registered)
    BY Serials
  <2>4. Unsent'
    BY <1>0, <2>1, <2>2, <2>3 DEF Unsent
  <2>5. QueueInOrder' /\ QueueOrdered'
    BY <1>0, <2>1 DEF CountInv, QueueInOrder, QueueOrdered, Ordered, SeenHit
  <2> QED BY <1>0, <2>1, <2>2, <2>4, <2>5 DEF CountInv, SendsInOrder
<1>2. CASE Notifies
  <2>0. /\ UNCHANGED <<hitBuf, registered, link, peer, econn>>
        /\ NotifyHit /\ mainPc' \in {mainPc, "arm"}
    BY <1>2 DEF Notifies
  <2>1. /\ hitBuf \in Genuine /\ hitBuf.serial = Len(registered)
    BY <1>2, Serials, NoneAssumption
       DEF Notifies, HpTypeInv, VestTypeInv, HandlesInv, CountInv
  <2>2. CASE toEmitter' = toEmitter
    <3>1. QueueInOrder' /\ QueueOrdered'
      BY <1>0, <2>2 DEF CountInv, QueueInOrder, QueueOrdered, Ordered, SeenHit
    <3>2. Sendable' => Sendable
      BY <2>0 DEF NotifyHit, Sendable
    <3>3. SendsInOrder'
      BY <1>0, <2>0, <2>2, <3>2
         DEF CountInv, SendsInOrder, Unsent, Ordered, SeenHit
    <3> QED BY <1>0, <2>0, <3>1, <3>3 DEF CountInv
  <2>3. CASE econn /\ link # "down" /\ toEmitter' = Queued(toEmitter, <<hitBuf>>)
    <3>1. Sendable /\ peer # None /\ Ordered(hitBuf)
      <4>1. Sendable /\ peer # None
        BY <1>2, <2>3 DEF Notifies, Sendable, CountInv
      <4> QED BY <2>3, <4>1 DEF CountInv, SendsInOrder, Unsent, Ordered
    <3>2. \A i \in DOMAIN toEmitter' :
            \/ i \in DOMAIN toEmitter /\ toEmitter'[i] = toEmitter[i]
            \/ i = Len(toEmitter) + 1 /\ toEmitter'[i] = hitBuf
      BY <1>0, <2>1, <2>3, QueuedPlaces
    <3>3. QueueOrdered'
      BY <1>0, <3>1, <3>2 DEF CountInv, QueueOrdered, Ordered, SeenHit
    <3>4. QueueInOrder'
      <4>1. DOMAIN toEmitter = 1 .. Len(toEmitter) /\ Len(toEmitter) \in Nat
        BY <1>0
      <4>2. \A i \in DOMAIN toEmitter : toEmitter[i].serial <= hitBuf.serial
        BY <1>0, <2>1, Serials
      <4>3. hitBuf.serial <= hitBuf.serial
        BY <1>0, <2>1
      <4>4. \A i, j \in DOMAIN toEmitter' :
              i <= j => \/ i \in DOMAIN toEmitter
                        \/ i = Len(toEmitter) + 1 /\ j = Len(toEmitter) + 1
        BY <3>2, <4>1
      <4> QED BY <3>2, <4>2, <4>3, <4>4 DEF CountInv, QueueInOrder
    <3>5. SendsInOrder'
      BY <1>0, <2>0, <3>1 DEF SendsInOrder, Ordered, SeenHit
    <3> QED BY <1>0, <2>0, <3>3, <3>4, <3>5 DEF CountInv
  <2> QED BY <2>0, <2>2, <2>3 DEF NotifyHit, SendToEmitter
<1>3. CASE KeepsHits \/ EndsLink
  <2>1. UNCHANGED <<toEmitter, hitBuf, registered, link>>
    BY <1>3 DEF KeepsHits, EndsLink
  <2>2. /\ Sendable' => Sendable /\ UNCHANGED <<peer, econn>>
        /\ (econn => peer # None)'
    BY <1>3 DEF KeepsHits, EndsLink, Sendable, CountInv
  <2> QED BY <1>0, <2>1, <2>2
          DEF CountInv, QueueInOrder, QueueOrdered, SendsInOrder, Unsent, Ordered, SeenHit
<1>4. CASE VestReboot
  <2>1. /\ ~Sendable' /\ econn' = FALSE /\ hitBuf' = None /\ registered' = registered
        /\ \E n \in 0 .. Len(toEmitter) : toEmitter' = SubSeq(toEmitter, 1, n)
    BY <1>4 DEF VestReboot, Sendable
  <2>2. \A i \in DOMAIN toEmitter' : i \in DOMAIN toEmitter /\ toEmitter'[i] = toEmitter[i]
    BY <1>0, <2>1, CutKeeps
  <2>3. QueueInOrder' /\ QueueOrdered'
    BY <1>0, <2>2, FewerInOrder DEF CountInv
  <2> QED BY <1>0, <2>1, <2>3 DEF CountInv, SendsInOrder
<1> QED BY <1>0, <1>1, <1>2, <1>3, <1>4, VestHitSteps

LEMMA CountInvInit == HpInit => CountInv
<1> SUFFICES ASSUME HpInit PROVE CountInv
  OBVIOUS
<1>1. /\ lastApplied = 0 /\ registered = <<>> /\ peer = Me /\ hitBuf = None /\ toEmitter = <<>>
      /\ hitPending = FALSE /\ mainPc = "idle"
  BY DEF HpInit, PairedInit, HistoryInit
<1>2. Len(<<>>) = 0 /\ DOMAIN <<>> = {} /\ 0 \in 0 .. 0
  OBVIOUS
<1> QED BY <1>1, <1>2, MeAssumption, NoneAssumption
        DEF CountInv, QueueInOrder, QueueOrdered, SendsInOrder, Sendable

LEMMA CountInvStep ==
  ASSUME "DEBUG_HIT" \notin Inputs
  PROVE  HpTypeInv /\ GenuineInv /\ CountInv /\ [HpNext]_hpVars => CountInv'
<1> SUFFICES ASSUME HpTypeInv, GenuineInv, CountInv, [HpNext]_hpVars PROVE CountInv'
  OBVIOUS
<1>0. toEmitter \in Seq(Genuine)
  BY DEF GenuineInv
<1>1. ASSUME UNCHANGED <<lastApplied, hitDedup, registered, hitBuf, toEmitter>>,
             econn' => peer' # None, SendsInOrder'
      PROVE  CountInv'
  BY <1>1 DEF CountInv, QueueInOrder, QueueOrdered, Ordered, SeenHit
<1>2. CASE EmitterStep
  <2>1. EmInternal /\ UNCHANGED <<lastApplied, registered, hitBuf, econn, peer, hitPending, mainPc>>
    BY <1>2 DEF EmitterStep, vestVars, hitVars, connVars, mainVars
  <2>2. CASE toEmitter' = toEmitter /\ hitDedup' = hitDedup /\ (link' = "down" <=> link = "down")
    <3>1. SendsInOrder'
      BY <2>1, <2>2 DEF CountInv, SendsInOrder, Sendable, Unsent, Ordered, SeenHit
    <3> QED BY <1>1, <2>1, <2>2, <3>1 DEF CountInv
  <2>3. CASE toEmitter' = <<>> /\ link' = "down"
    <3>1. DOMAIN toEmitter' = {}
      BY <2>3
    <3>2. SendsInOrder'
      BY <2>1, <2>3, <3>1 DEF CountInv, SendsInOrder, Sendable, Unsent
    <3> QED BY <2>1, <3>1, <3>2 DEF CountInv, QueueInOrder, QueueOrdered
  <2> QED BY <2>1, <2>2, <2>3, EmitterKeepsHits
<1>3. CASE VestReceives
  <2>1. /\ UNCHANGED <<lastApplied, hitDedup, registered, hitBuf, toEmitter, econn, peer, link>>
        /\ Sendable' => Sendable
    BY <1>3 DEF VestReceives, VestCommand, emVars, mainVars, Sendable, OnHitAck,
       OnFriendlyList, OnFriendlyFire, OnDeath, OnRespawn, OnUnpair
  <2>2. SendsInOrder'
    BY <2>1 DEF CountInv, SendsInOrder, Unsent, Ordered, SeenHit
  <2> QED BY <1>1, <2>1, <2>2 DEF CountInv
<1>4. CASE Reconnect
  <2>1. /\ UNCHANGED <<lastApplied, hitDedup, registered, hitBuf, toEmitter, hitPending, mainPc>>
        /\ peer = None /\ peer' = Me /\ mainPc = "idle"
    BY <1>4 DEF Reconnect, EmConnected, VestConnects, history, hitVars, mainVars
  <2>2. Me # None
    BY MeAssumption, NoneAssumption
  <2>3. Sendable' => Sendable /\ Unsent'
    BY <2>1 DEF CountInv, SendsInOrder, Sendable, Unsent
  <2> QED BY <1>1, <2>1, <2>2, <2>3 DEF SendsInOrder
<1>5. CASE LinkEnds
  <2>1. /\ UNCHANGED <<lastApplied, hitDedup, registered, hitBuf, econn, peer, hitPending, mainPc>>
        /\ link # "down" /\ link' = "down"
        /\ \E n \in 0 .. Len(toEmitter) : toEmitter' = SubSeq(toEmitter, 1, n)
    BY <1>5 DEF LinkEnds, LinkDrop, emVars, vestVars, hitVars, connVars, mainVars
  <2>2. \A i \in DOMAIN toEmitter' : i \in DOMAIN toEmitter /\ toEmitter'[i] = toEmitter[i]
    BY <1>0, <2>1, CutKeeps
  <2>3. QueueInOrder' /\ QueueOrdered'
    BY <2>1, <2>2, FewerInOrder DEF CountInv
  <2>4. SendsInOrder'
    BY <2>1, <2>2 DEF CountInv, SendsInOrder, Sendable, Unsent
  <2> QED BY <2>1, <2>3, <2>4 DEF CountInv
<1>6. CASE UNCHANGED hpVars
  <2>1. UNCHANGED <<lastApplied, hitDedup, registered, hitBuf, toEmitter, econn, peer, link,
                    hitPending, mainPc>>
    BY <1>6 DEF hpVars, history, emVars, vestVars, hitVars, connVars, mainVars, linkVars
  <2>2. SendsInOrder'
    BY <2>1 DEF CountInv, SendsInOrder, Sendable, Unsent, Ordered, SeenHit
  <2> QED BY <1>1, <2>1, <2>2 DEF CountInv
<1> QED BY <1>2, <1>3, <1>4, <1>5, <1>6, CountInvReceives, CountInvVest DEF HpNext

\* Every step of the two programs is one of the protocol, or none.
LEMMA DeliveryStep ==
  ASSUME HpTypeInv, GenuineInv, CountInv, [HpNext]_hpVars
  PROVE  [Delivery!Register \/ Delivery!Count]_(Delivery!hdVars)
<1>1. ASSUME UNCHANGED <<registered, lastApplied, applications>>
      PROVE  UNCHANGED Delivery!hdVars
  BY <1>1 DEF Delivery!hdVars
<1>2. CASE EmitterReceives
  <2>1. registered' = registered /\ toEmitter \in Seq(Genuine) /\ toEmitter # <<>>
    BY <1>2 DEF EmitterReceives, RecvHit, vestVars, hitVars, GenuineInv
  <2>2. CASE UNCHANGED <<lastApplied, applications>>
    BY <1>1, <2>1, <2>2
  <2>3. CASE /\ ~SeenHit(Head(toEmitter)) /\ lastApplied' = Head(toEmitter).serial
             /\ applications' = applications + 1
    <3>1. 1 \in DOMAIN toEmitter /\ Head(toEmitter) = toEmitter[1]
      BY <2>1, TailKeeps
    <3>2. /\ Len(registered) \in Nat /\ lastApplied \in Nat
          /\ Head(toEmitter).serial \in 1 .. Len(registered)
      BY <3>1, Serials
    <3>3. Head(toEmitter).serial > lastApplied
      BY <2>3, <3>1 DEF CountInv, QueueOrdered, Ordered
    <3>4. lastApplied' \in lastApplied + 1 .. Len(registered)
      BY <2>3, <3>2, <3>3
    <3> QED BY <2>1, <2>3, <3>4 DEF Delivery!Count
  <2> QED BY <1>2, <2>2, <2>3, CountsIfNew
<1>3. CASE VestStep
  <2>1. VestInternal /\ UNCHANGED <<lastApplied, applications>>
    BY <1>3 DEF VestStep, history
  <2>2. CASE IrCommit
    <3>1. registered \in Seq(PacketIds)
      BY DEF HpTypeInv, VestTypeInv, VestTypeOK
    <3>2. Len(registered') = Len(registered) + 1
      BY <2>2, <3>1, Registers
    <3> QED BY <2>1, <3>2 DEF Delivery!Register
  <2>3. CASE ~IrCommit
    <3>1. registered' = registered
      BY <2>1, <2>3, VestHitSteps DEF Notifies, KeepsHits, EndsLink, VestReboot
    <3> QED BY <1>1, <2>1, <3>1
  <2> QED BY <2>2, <2>3
<1>4. CASE EmitterStep \/ VestReceives \/ Reconnect \/ LinkEnds
  BY <1>1, <1>4 DEF EmitterStep, VestReceives, VestCommand, Reconnect, VestConnects, LinkEnds,
     vestVars, hitVars, history
<1>5. CASE UNCHANGED hpVars
  BY <1>1, <1>5 DEF hpVars, vestVars, hitVars, history
<1> QED BY <1>2, <1>3, <1>4, <1>5 DEF HpNext

\* The emitter and the vest together implement the hit protocol: each hit the
\* vest registers counts against the player at most once, in the order of
\* registration, and no hit is made up, through retries, losses, reconnections,
\* reboots and new games, whatever packet ids the vest draws and for a ring of
\* any size.  CMD_DEBUG_HIT is excluded: it makes up hits, whose ids can push
\* that of a hit still being retried out of the ring.
THEOREM HitsCountOnce ==
  ASSUME "DEBUG_HIT" \notin Inputs
  PROVE  HpSpec => CountedAtMostOnce
<1>1. HpInit => GenuineInv /\ CountInv /\ Delivery!Init
  <2>1. HpInit => Delivery!Init
    BY DEF HpInit, PairedInit, HistoryInit, Delivery!Init
  <2> QED BY <2>1, GenuineInit, CountInvInit
<1>2. HpTypeInv /\ GenuineInv /\ CountInv /\ [HpNext]_hpVars => (GenuineInv /\ CountInv)'
  BY GenuineStep, CountInvStep
<1>3. HpTypeInv /\ GenuineInv /\ CountInv /\ [HpNext]_hpVars
        => [Delivery!Register \/ Delivery!Count]_(Delivery!hdVars)
  BY DeliveryStep
<1> QED BY <1>1, <1>2, <1>3, HpTypeHolds, PTL DEF HpSpec, CountedAtMostOnce, Delivery!Spec

-----------------------------------------------------------------------------
(* The vest follows the emitter.                                           *)

\* The commands that move the vest, and where to.
Moves == {"FRIENDLY_LIST", "DEATH", "RESPAWN"}
Target(m) == IF m.cmd = "DEATH" THEN "DEAD" ELSE "GAME_ACTIVE"
Moving(q) == {i \in DOMAIN q : q[i].cmd \in Moves}

\* A vest in state vs that reads the commands q ends in state es, the one of
\* the emitter.  Only a vest that waits for a game takes a friendly list for
\* a start, so that nothing may come before it.
LeadsTo(q, vs, es) ==
  /\ \A i \in DOMAIN q : q[i].cmd # "UNPAIR"
  /\ Moving(q) = {} => vs = es
  /\ \A i \in Moving(q) : (\A j \in Moving(q) : j <= i) => Target(q[i]) = es
  /\ \A i \in Moving(q) :
       q[i].cmd = "FRIENDLY_LIST" => vs = "PAIRED_IDLE" /\ \A j \in Moving(q) : i <= j

FollowInv ==
  ~strayed =>
    /\ vconn = "ready"
    /\ link \in {"ready", "down"}
    /\ link = "ready" => IF InGame THEN LeadsTo(toVest, vstate, estate)
                                   ELSE vstate = "PAIRED_IDLE" /\ toVest = <<>>

\* A queue with room left has lost nothing.
LEMMA QueuedWhole ==
  ASSUME NEW S, NEW q \in Seq(S), NEW ms \in Seq(S), Len(Queued(q, ms)) # LinkCap
  PROVE  Queued(q, ms) = q \o ms
<1> DEFINE all == q \o ms
<1>1. all \in Seq(S) /\ Len(all) \in Nat
  OBVIOUS
<1> HIDE DEF all
<1>2. CASE Len(all) <= LinkCap
  <2>1. SubSeq(all, 1, Len(all)) = all
    BY <1>1
  <2> QED BY <1>2, <2>1 DEF Queued, all
<1>3. CASE ~(Len(all) <= LinkCap)
  <2>1. LinkCap \in 0 .. Len(all)
    BY <1>1, <1>3, LinkCapAssumption
  <2>2. Len(SubSeq(all, 1, LinkCap)) = LinkCap
    BY <1>1, <2>1
  <2> QED BY <1>3, <2>2 DEF Queued, all
<1> QED BY <1>2, <1>3

\* One more command at the end: one that moves nothing, or one that moves a
\* vest in a game.
LEMMA OneMoreCommand ==
  ASSUME NEW q \in Seq(VestCommands), NEW m \in VestCommands, NEW vs, NEW es,
         LeadsTo(q, vs, es)
  PROVE  /\ m.cmd = "HIT_ACK" => LeadsTo(q \o <<m>>, vs, es)
         /\ m.cmd \in {"DEATH", "RESPAWN"} => LeadsTo(q \o <<m>>, vs, Target(m))
<1> DEFINE n == Len(q) + 1
           all == q \o <<m>>
<1>1. /\ Len(q) \in Nat /\ DOMAIN q = 1 .. Len(q) /\ DOMAIN all = 1 .. n /\ all[n] = m
      /\ \A i \in 1 .. Len(q) : all[i] = q[i]
  OBVIOUS
<1>2. \A i \in 1 .. n : i = n \/ i \in 1 .. Len(q)
  BY <1>1
<1>3. \A i \in 1 .. Len(q) : i \in 1 .. n /\ i <= n /\ ~(n <= i)
  BY <1>1
<1>4. n \in 1 .. n /\ n <= n
  BY <1>1
<1> HIDE DEF n, all
<1>5. CASE m.cmd = "HIT_ACK"
  <2>1. Moving(all) = Moving(q) /\ \A i \in Moving(q) : all[i] = q[i]
    BY <1>1, <1>2, <1>3, <1>5 DEF Moving, Moves
  <2>2. \A i \in DOMAIN all : all[i].cmd # "UNPAIR"
    BY <1>1, <1>2, <1>5 DEF LeadsTo
  <2>3. LeadsTo(all, vs, es)
    BY <2>1, <2>2 DEF LeadsTo
  <2> QED BY <1>5, <2>3 DEF all
<1>6. CASE m.cmd \in {"DEATH", "RESPAWN"}
  <2>1. /\ Moving(all) = Moving(q) \cup {n} /\ Moving(q) \subseteq 1 .. Len(q)
        /\ \A i \in Moving(q) : all[i] = q[i]
    BY <1>1, <1>2, <1>3, <1>4, <1>6 DEF Moving, Moves
  <2>2. \A i \in DOMAIN all : all[i].cmd # "UNPAIR"
    BY <1>1, <1>2, <1>6 DEF LeadsTo
  <2>3. \A i \in Moving(all) : (\A j \in Moving(all) : j <= i) => Target(all[i]) = Target(m)
    BY <1>1, <1>3, <2>1
  <2>4. ASSUME NEW i \in Moving(all), all[i].cmd = "FRIENDLY_LIST"
        PROVE  vs = "PAIRED_IDLE" /\ \A j \in Moving(all) : i <= j
    <3>1. i \in Moving(q) /\ q[i].cmd = "FRIENDLY_LIST"
      BY <1>1, <1>6, <2>1, <2>4
    <3> QED BY <1>3, <2>1, <3>1 DEF LeadsTo
  <2>5. LeadsTo(all, vs, Target(m))
    BY <2>1, <2>2, <2>3, <2>4 DEF LeadsTo
  <2> QED BY <1>6, <2>5 DEF all
<1> QED BY <1>5, <1>6

\* The first game of a vest that waits for one.
LEMMA GameCommands ==
  ASSUME NEW list \in VestCommands, NEW fire \in VestCommands,
         list.cmd = "FRIENDLY_LIST", fire.cmd = "FRIENDLY_FIRE"
  PROVE  LeadsTo(<<list, fire>>, "PAIRED_IDLE", "GAME_ACTIVE")
<1> DEFINE q == <<list, fire>>
<1>1. DOMAIN q = {1, 2} /\ q[1] = list /\ q[2] = fire
  OBVIOUS
<1> HIDE DEF q
<1>2. Moving(q) = {1}
  BY <1>1 DEF Moving, Moves
<1>3. LeadsTo(q, "PAIRED_IDLE", "GAME_ACTIVE")
  BY <1>1, <1>2 DEF LeadsTo, Target
<1> QED BY <1>3 DEF q

\* The first command is read.
LEMMA FirstCommand ==
  ASSUME NEW q \in Seq(VestCommands), q # <<>>, NEW vs, NEW es, LeadsTo(q, vs, es)
  PROVE  /\ Head(q).cmd # "UNPAIR"
         /\ Head(q).cmd = "FRIENDLY_LIST" => vs = "PAIRED_IDLE"
         /\ LeadsTo(Tail(q), IF Head(q).cmd \in Moves THEN Target(Head(q)) ELSE vs, es)
<1> DEFINE m == Head(q)
           r == Tail(q)
           ws == IF m.cmd \in Moves THEN Target(m) ELSE vs
<1>1. /\ 1 \in DOMAIN q /\ m = q[1] /\ DOMAIN q = 1 .. Len(q) /\ Len(q) \in Nat
      /\ DOMAIN r = 1 .. Len(q) - 1
      /\ \A i \in DOMAIN r : r[i] = q[i + 1]
  <2>1. r \in Seq(VestCommands) /\ Len(r) = Len(q) - 1
    BY HeadTailProperties
  <2> QED BY <2>1, TailKeeps
<1> HIDE DEF m, r
<1>2. \A i \in Moving(r) : i \in Nat /\ i >= 1 /\ i + 1 \in Moving(q) /\ r[i] = q[i + 1]
  BY <1>1 DEF Moving
<1>3. \A j \in Moving(q) : j = 1 \/ (j - 1 \in Moving(r) /\ j \in Nat)
  BY <1>1 DEF Moving
<1>4. 1 \in Moving(q) <=> m.cmd \in Moves
  BY <1>1 DEF Moving
<1>5. \A i \in DOMAIN r : r[i].cmd # "UNPAIR"
  BY <1>1 DEF LeadsTo
<1>6. ASSUME Moving(r) = {} PROVE ws = es
  <2>1. CASE m.cmd \in Moves
    <3>1. \A j \in Moving(q) : j <= 1
      BY <1>3, <1>6
    <3> QED BY <1>1, <1>4, <2>1, <3>1 DEF LeadsTo
  <2>2. CASE m.cmd \notin Moves
    BY <1>3, <1>4, <1>6, <2>2 DEF LeadsTo
  <2> QED BY <2>1, <2>2
<1>7. ASSUME NEW i \in Moving(r), \A j \in Moving(r) : j <= i PROVE Target(r[i]) = es
  <2>1. \A j \in Moving(q) : j <= i + 1
    BY <1>2, <1>3, <1>7
  <2> QED BY <1>2, <2>1 DEF LeadsTo
<1>8. ASSUME NEW i \in Moving(r), r[i].cmd = "FRIENDLY_LIST"
      PROVE  ws = "PAIRED_IDLE" /\ \A j \in Moving(r) : i <= j
  <2>1. vs = "PAIRED_IDLE" /\ \A j \in Moving(q) : i + 1 <= j
    BY <1>2, <1>8 DEF LeadsTo
  <2>2. 1 \notin Moving(q)
    BY <1>2, <2>1
  <2> QED BY <1>2, <1>4, <2>1, <2>2
<1>9. LeadsTo(r, ws, es)
  BY <1>5, <1>6, <1>7, <1>8 DEF LeadsTo
<1>10. m.cmd # "UNPAIR" /\ (m.cmd = "FRIENDLY_LIST" => vs = "PAIRED_IDLE")
  BY <1>1, <1>4 DEF LeadsTo, Moves
<1> QED BY <1>9, <1>10 DEF m, r

\* What the emitter tells the vest with a change of its own state, as long as
\* the link stays ready.
Tells(m, state) ==
  /\ SendToVest(<<m>>)
  /\ estate' = state

TellsGame(list, fire) ==
  /\ SendToVest(<<list, fire>>)
  /\ list.cmd = "FRIENDLY_LIST" /\ fire.cmd = "FRIENDLY_FIRE"
  /\ estate' = "GAME_ACTIVE"

EmitterTells ==
  \/ toVest' = toVest /\ (estate' = estate \/ estate' \notin {"GAME_ACTIVE", "DEAD"})
  \/ \E m \in VestCommands :
       \/ m.cmd = "HIT_ACK" /\ InGame /\ Tells(m, estate)
       \/ m.cmd = "RESPAWN" /\ InGame /\ Tells(m, "GAME_ACTIVE")
       \/ m.cmd = "DEATH" /\ Tells(m, "DEAD")
  \/ \E list, fire \in VestCommands : TellsGame(list, fire)

LEMMA HitTells ==
  ASSUME NEW h, h.id \in PacketIds, VestHit(h)
  PROVE  EmitterTells /\ link' = link /\ vconn' = vconn
<1>1. [cmd |-> "HIT_ACK", id |-> h.id] \in VestCommands
  BY CommandsTyped
<1> QED BY <1>1 DEF VestHit, HitIgnored, HitDuplicate, HitWhileDead, HitApplied, HitAck, InGame,
        Tells, EmitterTells

LEMMA EmitterAlwaysTells ==
  ASSUME HpTypeInv, EmInternal \/ RecvHit, vconn = "ready", link' = "ready"
  PROVE  EmitterTells /\ link = "ready" /\ vconn' = "ready"
<1> USE DEF linkVars, emVars, OnlyWork
<1>0. GsTypeOK /\ LinkTypeOK /\ MainTypeOK
  BY EmTypeParts DEF HpTypeInv
<1>1. CASE RecvHit
  <2>1. Head(toEmitter) \in Hits
    BY <1>0, <1>1, HeadTailProperties DEF RecvHit, LinkTypeOK
  <2>2. Head(toEmitter).id \in PacketIds
    BY <2>1 DEF Hits
  <2> QED BY <1>1, <2>2, HitTells DEF RecvHit
<1>2. CASE PhoneCommand
  <2>1. ASSUME NEW ids \in SUBSET Players, NEW c \in ConfigType, PushGameStart(ids, c),
               estate' = "GAME_ACTIVE"
        PROVE  EmitterTells
    <3> DEFINE list == [cmd |-> "FRIENDLY_LIST", ids |-> ids]
               fire == [cmd |-> "FRIENDLY_FIRE", on |-> c.friendlyFire]
    <3>1. /\ list \in VestCommands /\ fire \in VestCommands
          /\ list.cmd = "FRIENDLY_LIST" /\ fire.cmd = "FRIENDLY_FIRE"
      BY CommandsTyped DEF ConfigType
    <3>2. SendToVest(<<list, fire>>)
      BY <2>1 DEF PushGameStart, VestConnected
    <3> HIDE DEF list, fire
    <3> QED BY <2>1, <3>1, <3>2 DEF TellsGame, EmitterTells
  <2>2. CASE CmdStart
    <3>1. cfg \in ConfigType /\ friendly \in SUBSET Players
      BY <1>0 DEF GsTypeOK, MainTypeOK
    <3> QED BY <2>1, <2>2, <3>1 DEF CmdStart
  <2>3. ASSUME NEW gc \in GameConfigs, StartGameLocal(gc)
        PROVE  EmitterTells /\ link = "ready" /\ vconn' = "ready"
    <3>1. gc.friends \in SUBSET Players /\ gc.cfg \in ConfigType
      BY GameConfigsAssumption DEF GameConfigType
    <3>2. cfg \in ConfigType /\ friendly \in SUBSET Players
      BY <1>0 DEF GsTypeOK, MainTypeOK
    <3>3. \E ids \in SUBSET Players, c \in ConfigType : PushGameStart(ids, c)
      BY <2>3, <3>1, <3>2 DEF StartGameLocal
    <3> QED BY <2>1, <2>3, <3>3 DEF StartGameLocal
  <2>4. CASE CmdRespawn
    BY <2>4, CommandsTyped DEF CmdRespawn, VestConnected, InGame, Tells, EmitterTells
  <2>5. CASE CmdGameOver \/ CmdReload \/ CmdDebugFire \/ CmdStartLobbyHost
             \/ CmdStartLobbyScan \/ CmdStopLobby \/ CmdEnterPairing
    BY <2>5 DEF CmdGameOver, CmdReload, CmdDebugFire, CmdStartLobbyHost, CmdStartLobbyScan,
       CmdStopLobby, CmdEnterPairing, EmitterTells
  <2>6. CASE CmdUnpairVest
    BY <2>6 DEF CmdUnpairVest
  <2>7. ASSUME NEW c \in Configs, CmdConfig(c)
        PROVE  EmitterTells /\ link = "ready" /\ vconn' = "ready"
    BY <2>7 DEF CmdConfig, EmitterTells
  <2>8. ASSUME NEW n \in AmmoGrants, CmdAmmoIncrease(n)
        PROVE  EmitterTells /\ link = "ready" /\ vconn' = "ready"
    BY <2>8 DEF CmdAmmoIncrease, EmitterTells
  <2>9. ASSUME NEW id \in PacketIds, NEW shooter \in Players, CmdDebugHit(id, shooter)
        PROVE  EmitterTells /\ link = "ready" /\ vconn' = "ready"
    BY <2>9, HitTells DEF CmdDebugHit
  <2>10. ASSUME CmdStart PROVE link = "ready" /\ vconn' = "ready"
    BY <2>10 DEF CmdStart
  <2>11. ASSUME CmdRespawn PROVE link = "ready" /\ vconn' = "ready"
    BY <2>11 DEF CmdRespawn
  <2>12. ASSUME CmdGameOver \/ CmdReload \/ CmdDebugFire \/ CmdStartLobbyHost
             \/ CmdStartLobbyScan \/ CmdStopLobby \/ CmdEnterPairing
         PROVE  link = "ready" /\ vconn' = "ready"
    BY <2>12 DEF CmdGameOver, CmdReload, CmdDebugFire, CmdStartLobbyHost,
       CmdStartLobbyScan, CmdStopLobby, CmdEnterPairing
  <2> QED BY <1>2, <2>2, <2>3, <2>4, <2>5, <2>6, <2>7, <2>8, <2>9, <2>10, <2>11, <2>12
          DEF PhoneCommand, CmdBroadcastGameCfg, MeshGameStart
<1>3. CASE TriggerEdge
  BY <1>3 DEF TriggerEdge, EmitterTells
<1>4. CASE Work
  BY <1>4 DEF Work, TriggerWork, ReloadWork, PlayerStateWork, ScoreboardWork,
     LobbyAnnounceWork, PeriodicWork, IrTxWork, PairingTxWork, EmitterTells
<1>5. CASE FinishDeath
  BY <1>5, CommandsTyped DEF FinishDeath, Tells, EmitterTells
<1>6. CASE EmGattReady \/ EmDisconnected \/ EmReboot
  BY <1>6 DEF EmGattReady, EmDisconnected, EmReboot
<1>7. CASE EmTick
  BY <1>7 DEF EmTick, EmitterTells
<1> QED BY <1>1, <1>2, <1>3, <1>4, <1>5, <1>6, <1>7 DEF EmInternal

\* A step of the emitter after which nothing has been lost.
LEMMA FollowEmitter ==
  ASSUME HpTypeInv, FollowInv, EmInternal \/ RecvHit, Strays, vstate' = vstate, ~strayed'
  PROVE  FollowInv'
<1>1. ~strayed /\ ~AnotherGame /\ link' = "ready" /\ Len(toVest') # LinkCap
  BY DEF Strays, Cut
<1>2. EmitterTells /\ link = "ready" /\ vconn' = "ready"
  BY <1>1, EmitterAlwaysTells DEF FollowInv
<1>3. toVest \in Seq(VestCommands)
  BY EmTypeParts DEF HpTypeInv, LinkTypeOK
<1>4. IF InGame THEN LeadsTo(toVest, vstate, estate)
                ELSE vstate = "PAIRED_IDLE" /\ toVest = <<>>
  BY <1>1, <1>2 DEF FollowInv
<1>5. InGame => InGame'
  BY <1>1 DEF AnotherGame
<1>6. CASE toVest' = toVest /\ (estate' = estate \/ estate' \notin {"GAME_ACTIVE", "DEAD"})
  BY <1>1, <1>2, <1>4, <1>5, <1>6 DEF FollowInv, InGame
<1>7. ASSUME NEW m \in VestCommands,
             \/ m.cmd = "HIT_ACK" /\ InGame /\ Tells(m, estate)
             \/ m.cmd = "RESPAWN" /\ InGame /\ Tells(m, "GAME_ACTIVE")
             \/ m.cmd = "DEATH" /\ Tells(m, "DEAD")
      PROVE  FollowInv'
  <2>1. toVest' = toVest \o <<m>>
    <3>1. toVest' = Queued(toVest, <<m>>) /\ <<m>> \in Seq(VestCommands)
      BY <1>2, <1>7 DEF Tells, SendToVest
    <3> QED BY <1>1, <1>3, <3>1, QueuedWhole
  <2>2. PICK es : LeadsTo(toVest, vstate, es) /\ (InGame => es = estate)
    <3>1. CASE InGame
      BY <1>4, <3>1
    <3>2. CASE ~InGame
      <4>1. DOMAIN <<>> = {}
        OBVIOUS
      <4>2. LeadsTo(<<>>, vstate, vstate)
        BY <4>1 DEF LeadsTo, Moving
      <4> QED BY <1>4, <3>2, <4>2
    <3> QED BY <3>1, <3>2
  <2>3. LeadsTo(toVest', vstate, estate')
    BY <1>3, <1>7, <2>1, <2>2, OneMoreCommand DEF Tells, Target
  <2>4. InGame'
    BY <1>5, <1>7 DEF Tells, InGame
  <2> QED BY <1>1, <1>2, <2>3, <2>4 DEF FollowInv
<1>8. ASSUME NEW list \in VestCommands, NEW fire \in VestCommands, TellsGame(list, fire)
      PROVE  FollowInv'
  <2>1. toVest' = toVest \o <<list, fire>> /\ <<list, fire>> \in Seq(VestCommands)
    <3>1. toVest' = Queued(toVest, <<list, fire>>) /\ <<list, fire>> \in Seq(VestCommands)
      BY <1>2, <1>8 DEF TellsGame, SendToVest
    <3> QED BY <1>1, <1>3, <3>1, QueuedWhole
  <2>2. ~InGame
    <3>1. /\ Len(toVest) + 1 \in Len(toVest) + 1 .. Len(toVest')
          /\ toVest'[Len(toVest) + 1] = list
      BY <1>3, <2>1
    <3> QED BY <1>1, <1>8, <3>1 DEF AnotherGame, TellsGame
  <2>3. vstate = "PAIRED_IDLE" /\ toVest = <<>>
    BY <1>4, <2>2
  <2>4. toVest' = <<list, fire>>
    <3>1. <<>> \o <<list, fire>> = <<list, fire>>
      OBVIOUS
    <3> QED BY <2>1, <2>3, <3>1
  <2>5. LeadsTo(toVest', vstate, "GAME_ACTIVE")
    BY <1>8, <2>3, <2>4, GameCommands DEF TellsGame
  <2>6. InGame' /\ estate' = "GAME_ACTIVE"
    BY <1>8 DEF TellsGame, InGame
  <2> QED BY <1>1, <1>2, <2>5, <2>6 DEF FollowInv
<1> QED BY <1>2, <1>6, <1>7, <1>8 DEF EmitterTells

\* The vest changes its state by itself only when the link is gone.
LEMMA VestKeepsState ==
  ASSUME VestInternal, link' = "ready"
  PROVE  UNCHANGED <<vstate, toVest, link>>
<1> USE DEF linkVars
<1>1. ASSUME NEW s \in Shooters, IrShot(s) PROVE UNCHANGED <<vstate, toVest, link>>
  BY <1>1 DEF IrShot
<1>2. ASSUME NEW p \in Peers, PairingFrame(p) PROVE UNCHANGED <<vstate, toVest, link>>
  BY <1>2 DEF PairingFrame
<1>3. CASE MainStep
  BY <1>3 DEF MainStep, IrCommit, IrNotify, IrArm, PairingAdvertise, PairingArm
<1>4. CASE HitRetry \/ PairTimeout
  BY <1>4 DEF HitRetry, PairTimeout
<1>5. CASE VestDisconnected \/ VestReboot
  BY <1>5 DEF VestDisconnected, VestReboot
<1> QED BY <1>1, <1>2, <1>3, <1>4, <1>5 DEF VestInternal

\* A command moves the vest to where it leads.
LEMMA FollowCommand ==
  ASSUME HpTypeInv, FollowInv, VestReceives
  PROVE  FollowInv'
<1>1. /\ UNCHANGED <<strayed, vconn, link, estate>>
      /\ VestCommand /\ toVest # <<>> /\ toVest' = Tail(toVest)
  BY DEF VestReceives, VestCommand, emVars
<1> SUFFICES ASSUME ~strayed, link = "ready" PROVE InGame /\ LeadsTo(toVest', vstate', estate)
  BY <1>1 DEF FollowInv, InGame
<1>2. InGame /\ LeadsTo(toVest, vstate, estate) /\ toVest \in Seq(VestCommands)
  BY <1>1, EmTypeParts DEF FollowInv, HpTypeInv, LinkTypeOK
<1>3. /\ Head(toVest).cmd # "UNPAIR"
      /\ Head(toVest).cmd = "FRIENDLY_LIST" => vstate = "PAIRED_IDLE"
      /\ LeadsTo(Tail(toVest),
                 IF Head(toVest).cmd \in Moves THEN Target(Head(toVest)) ELSE vstate, estate)
  BY <1>1, <1>2, FirstCommand
<1>4. vstate' = IF Head(toVest).cmd \in Moves THEN Target(Head(toVest)) ELSE vstate
  BY <1>1, <1>3 DEF VestCommand, OnHitAck, OnFriendlyList, OnFriendlyFire, OnDeath, OnRespawn,
     OnUnpair, Moves, Target
<1> QED BY <1>1, <1>2, <1>3, <1>4

LEMMA FollowInvInit == HpInit => FollowInv
BY DEF HpInit, PairedInit, FollowInv, InGame

LEMMA FollowInvStep == HpTypeInv /\ FollowInv /\ [HpNext]_hpVars => FollowInv'
<1> SUFFICES ASSUME HpTypeInv, FollowInv, [HpNext]_hpVars PROVE FollowInv'
  OBVIOUS
<1>1. CASE EmitterStep \/ EmitterReceives
  <2>1. (EmInternal \/ RecvHit) /\ Strays /\ vstate' = vstate
    BY <1>1 DEF EmitterStep, EmitterReceives, vestVars
  <2>2. CASE strayed'
    BY <2>2 DEF FollowInv
  <2>3. CASE ~strayed'
    BY <2>1, <2>3, FollowEmitter
  <2> QED BY <2>2, <2>3
<1>2. CASE VestStep
  <2>1. VestInternal /\ UNCHANGED <<strayed, vconn, estate>>
    BY <1>2 DEF VestStep, emVars, history
  <2>2. CASE link' = "ready"
    BY <2>1, <2>2, VestKeepsState DEF FollowInv, InGame
  <2>3. CASE link' # "ready"
    <3>1. link' = link \/ link' = "down"
      BY <2>1, VestHitSteps
         DEF IrCommit, Notifies, KeepsHits, EndsLink, VestReboot, linkVars
    <3> QED BY <2>1, <2>3, <3>1 DEF FollowInv
  <2> QED BY <2>2, <2>3
<1>3. CASE VestReceives
  BY <1>3, FollowCommand
<1>4. CASE Reconnect
  BY <1>4 DEF Reconnect, EmConnected, FollowInv, history
<1>5. CASE LinkEnds
  BY <1>5 DEF LinkEnds, FollowInv
<1>6. CASE UNCHANGED hpVars
  BY <1>6 DEF hpVars, history, emVars, vestVars, linkVars, FollowInv, InGame
<1> QED BY <1>1, <1>2, <1>3, <1>4, <1>5, <1>6 DEF HpNext

\* With every command written and read, and nothing lost or cut short so far,
\* the vest of a player in a game is in the player's state, dead or active,
\* through any deaths and respawns of its first game, for queues of any length.
THEOREM VestInStep == HpSpec => []VestFollows
<1>1. HpInit => FollowInv
  BY FollowInvInit
<1>2. HpTypeInv /\ FollowInv /\ [HpNext]_hpVars => FollowInv'
  BY FollowInvStep
<1>3. HpTypeInv /\ FollowInv => VestFollows
  <2> SUFFICES ASSUME FollowInv, Settled, ~strayed, estate \in {"DEAD", "GAME_ACTIVE"}
               PROVE  vstate = estate
    BY DEF VestFollows
  <2>1. LeadsTo(<<>>, vstate, estate)
    BY DEF FollowInv, Settled, InGame
  <2>2. DOMAIN <<>> = {}
    OBVIOUS
  <2> QED BY <2>1, <2>2 DEF LeadsTo, Moving
<1> QED BY <1>1, <1>2, <1>3, HpTypeHolds, PTL DEF HpSpec

-----------------------------------------------------------------------------
(* The emitter's session, beside this vest.                                *)

LEMMA SessionInitHere == HpInit => SessionInv
<1> SUFFICES ASSUME HpInit PROVE SessionInv
  OBVIOUS
<1>1. estate = "PAIRING" /\ dying = FALSE /\ alive = FALSE /\ pullShots = 0 /\ work = {}
  BY Zenon DEF HpInit, PairedInit, GsInit, GsInitWith
<1> QED BY <1>1 DEF SessionInv, Flags, ReloadNeverStuck, InGame,
           LifeMatchesState, HeartbeatInGame, LobbyAnnounced, DyingInGame, ReadyMeansUnfired

LEMMA SessionStepHere == SessionInv /\ [HpNext]_hpVars => SessionInv'
<1> SUFFICES ASSUME SessionInv, [HpNext]_hpVars PROVE SessionInv'
  OBVIOUS
<1>1. CASE EmitterStep \/ EmitterReceives
  <2>1. EmNext
    BY <1>1 DEF EmitterStep, EmitterReceives, EmNext
  <2> QED BY <2>1, SessionInvStep
<1>2. ASSUME UNCHANGED <<estate, dying, alive, health, reloading, work, pressed, triggerReady,
                         pullShots>>
      PROVE  SessionInv'
  BY <1>2 DEF SessionInv, Flags, ReloadNeverStuck, InGame, LifeMatchesState, HeartbeatInGame,
     LobbyAnnounced, DyingInGame, ReadyMeansUnfired
<1>3. CASE ~(EmitterStep \/ EmitterReceives)
  BY <1>2, <1>3 DEF HpNext, VestStep, VestReceives, Reconnect, EmConnected, LinkEnds, hpVars,
     gsVars, emVars, triggerVars
<1> QED BY <1>1, <1>3

LEMMA SessionHoldsHere == HpSpec => []SessionInv
BY SessionInitHere, SessionStepHere, PTL DEF HpSpec

\* What the vest displays is the life that game_state.c keeps: at rest, with
\* nothing lost so far, the vest of a player in a game is dead exactly when the
\* player is, although the two only share the link.
THEOREM VestShowsLife == HpSpec => [](Settled /\ ~strayed /\ InGame => (vstate = "DEAD" <=> ~alive))
<1>1. SessionInv /\ VestFollows => (Settled /\ ~strayed /\ InGame => (vstate = "DEAD" <=> ~alive))
  BY DEF SessionInv, Flags, LifeMatchesState, VestFollows, Settled, InGame
<1> QED BY <1>1, SessionHoldsHere, VestInStep, PTL
=============================================================================
