-------------------------------- MODULE Vest --------------------------------
(***************************************************************************)
(* The vest's application, reciever/src/main.c: IR hits and their retries, *)
(* the emitter's commands, IR pairing and the connection.                  *)
(*                                                                         *)
(* The infrared receiver runs on the main thread, which is preemptible;    *)
(* the Bluetooth receive thread (commands, connection callbacks) and the   *)
(* system work queue (retry and time-out) are cooperative.  So a command,  *)
(* a callback or a work item is one action, and on_ir_rx and on_ir_pairing *)
(* are cut where the others can see or change what they use: mainPc says   *)
(* what the main thread does next.                                         *)
(***************************************************************************)
EXTENDS BleLink

CONSTANTS
  Peers,           \* the emitters in range, by their BLE address
  LsbOf,           \* the low two bytes of each address
  Shooters,        \* the players whose shots reach this vest
  None,            \* no peer, no hit
  HitRetryMax,     \* HIT_RETRY_MAX_COUNT
  FreshIds,        \* TRUE: sys_rand32_get repeats no packet id
  MaxHits,         \* bound on the hits registered (TLC only)
  VestInputs       \* the outside events this instance uses

ASSUME ShootersAssumption == Shooters \subseteq Players
ASSUME LsbAssumption == DOMAIN LsbOf = Peers
ASSUME NoneAssumption == None \notin Peers /\ None \notin Hits
ASSUME HitRetryMaxAssumption == HitRetryMax \in Nat \ {0}
ASSUME FreshIdsAssumption == FreshIds \in BOOLEAN

VARIABLES
  vstate,       \* current_state
  boundTo,      \* paired_emitter_addr, or None: has_paired_addr is FALSE
  pairPending,  \* pair_pending
  expected,     \* expected_addr_lsbs, or None before the first frame
  adv,          \* advertising
  refused,      \* history: the last bt_le_adv_start returned an error
  peer,         \* the central that is connected, or None
  econn,        \* emitter_conn # NULL: the connection was accepted
  vclosing,     \* bt_conn_disconnect was called on the connection
  friends,      \* friendly_ids
  ffOn,         \* friendly_fire_enabled
  hitPending,   \* hit_pending
  hitBuf,       \* pending_hit_buf, or None before the first hit
  retries,      \* hit_retry_count
  vwork,        \* the work items that are scheduled
  mainPc,       \* where the main thread is
  mainShooter,  \* the shot on_ir_rx is handling
  registered,   \* history: the packet ids of the hits registered
  aimed         \* history: the emitter whose frame opened the pairing window

pairVars == <<boundTo, pairPending, expected, aimed>>
connVars == <<adv, refused, peer, econn, vclosing>>
hitVars == <<hitPending, hitBuf, retries, registered>>
mainVars == <<mainPc, mainShooter>>
vestVars == <<vstate, pairVars, connVars, friends, ffOn, hitVars, vwork, mainVars>>

VestStates == {"UNPAIRED", "PAIRED_IDLE", "GAME_ACTIVE", "DEAD"}
MainSteps == {"idle", "commit", "notify", "arm", "advertise", "armTimeout"}

VestTypeOK ==
  /\ LinkTypeOK
  /\ vstate \in VestStates
  /\ boundTo \in Peers \cup {None}
  /\ pairPending \in BOOLEAN
  /\ expected \in {LsbOf[p] : p \in Peers} \cup {None}
  /\ adv \in BOOLEAN
  /\ refused \in BOOLEAN
  /\ peer \in Peers \cup {None}
  /\ econn \in BOOLEAN
  /\ vclosing \in BOOLEAN
  /\ friends \in SUBSET Players
  /\ ffOn \in BOOLEAN
  /\ hitPending \in BOOLEAN
  /\ hitBuf \in Hits \cup {None}
  /\ retries \in 0 .. HitRetryMax
  /\ vwork \in SUBSET {"hitRetry", "pairTimeout"}
  /\ mainPc \in MainSteps
  /\ mainShooter \in Shooters \cup {None}
  /\ registered \in Seq(PacketIds)
  /\ aimed \in Peers \cup {None}

VestInit ==
  /\ vstate = "UNPAIRED"
  /\ boundTo = None
  /\ pairPending = FALSE
  /\ expected = None
  /\ adv = FALSE
  /\ refused = FALSE
  /\ peer = None
  /\ econn = FALSE
  /\ vclosing = FALSE
  /\ friends = {}
  /\ ffOn = FALSE
  /\ hitPending = FALSE
  /\ hitBuf = None
  /\ retries = 0
  /\ vwork = {}
  /\ mainPc = "idle"
  /\ mainShooter = None
  /\ registered = <<>>
  /\ aimed = None

Bound == boundTo # None

-----------------------------------------------------------------------------
(* start_advertising needs the one connection object, and only logs it     *)
(* when bt_le_adv_start fails.                                             *)

AdvertisingStarts == adv' = TRUE /\ refused' = FALSE

AdvertisingRefused == adv' = FALSE /\ refused' = TRUE

\* From disconnected(), where the stack may still hold the connection object.
AdvertiseAgain(wanted) ==
  IF wanted
  THEN AdvertisingStarts \/ AdvertisingRefused
  ELSE adv' = FALSE /\ UNCHANGED refused

-----------------------------------------------------------------------------
(* The main thread: on_ir_rx.                                              *)

IsFriendly(shooter) == ~ffOn /\ shooter \in friends

\* A shot with a valid checksum passes the three checks of on_ir_rx.
IrShot(shooter) ==
  /\ "SHOTS" \in VestInputs
  /\ mainPc = "idle"
  /\ Len(registered) < MaxHits
  /\ vstate = "GAME_ACTIVE"
  /\ ~IsFriendly(shooter)
  /\ ~hitPending
  /\ mainPc' = "commit"
  /\ mainShooter' = shooter
  /\ UNCHANGED <<vstate, pairVars, connVars, friends, ffOn, hitVars, vwork, linkVars>>

UsedIds == {registered[i] : i \in DOMAIN registered}

\* Mutant: the retries of the hit before still count.
IrCommitKeepsRetries ==
  /\ mainPc = "commit"
  /\ \E id \in PacketIds :
       /\ FreshIds => id \notin UsedIds
       /\ hitBuf' = [id |-> id, shooter |-> mainShooter, serial |-> Len(registered) + 1]
       /\ registered' = Append(registered, id)
  /\ hitPending' = TRUE
  /\ mainPc' = "notify"
  /\ mainShooter' = None
  /\ UNCHANGED <<vstate, pairVars, connVars, friends, ffOn, retries, vwork, linkVars>>

\* The hit gets a random packet id and becomes the pending one, on the
\* strength of what the checks saw.
IrCommit ==
  /\ mainPc = "commit"
  /\ \E id \in PacketIds :
       /\ FreshIds => id \notin UsedIds
       /\ hitBuf' = [id |-> id, shooter |-> mainShooter, serial |-> Len(registered) + 1]
       /\ registered' = Append(registered, id)
  /\ hitPending' = TRUE
  /\ retries' = 0
  /\ mainPc' = "notify"
  /\ mainShooter' = None
  /\ UNCHANGED <<vstate, pairVars, connVars, friends, ffOn, vwork, linkVars>>

\* send_hit_notification
NotifyHit ==
  IF econn
  THEN SendToEmitter(<<hitBuf>>) /\ UNCHANGED hitPending
  ELSE hitPending' = FALSE /\ UNCHANGED toEmitter

IrNotify ==
  /\ mainPc = "notify"
  /\ NotifyHit
  /\ mainPc' = "arm"
  /\ UNCHANGED <<vstate, pairVars, connVars, friends, ffOn, hitBuf, retries, registered, vwork,
                 mainShooter, link, toVest>>

IrArm ==
  /\ mainPc = "arm"
  /\ vwork' = vwork \cup {"hitRetry"}
  /\ mainPc' = "idle"
  /\ UNCHANGED <<vstate, pairVars, connVars, friends, ffOn, hitVars, mainShooter, linkVars>>

-----------------------------------------------------------------------------
(* The main thread: on_ir_pairing.                                         *)

\* A pairing frame of emitter p opens the window of an unpaired vest that
\* has none open: the first frame wins.
PairingFrame(p) ==
  /\ "PAIRING" \in VestInputs
  /\ mainPc = "idle"
  /\ vstate = "UNPAIRED"
  /\ ~pairPending
  /\ expected' = LsbOf[p]
  /\ pairPending' = TRUE
  /\ aimed' = p
  /\ mainPc' = "advertise"
  /\ UNCHANGED <<vstate, boundTo, connVars, friends, ffOn, hitVars, vwork, mainShooter, linkVars>>

PairingAdvertise ==
  /\ mainPc = "advertise"
  /\ IF peer = None THEN AdvertisingStarts ELSE AdvertisingRefused
  /\ mainPc' = "armTimeout"
  /\ UNCHANGED <<vstate, pairVars, peer, econn, vclosing, friends, ffOn, hitVars, vwork,
                 mainShooter, linkVars>>

PairingArm ==
  /\ mainPc = "armTimeout"
  /\ vwork' = vwork \cup {"pairTimeout"}
  /\ mainPc' = "idle"
  /\ UNCHANGED <<vstate, pairVars, connVars, friends, ffOn, hitVars, mainShooter, linkVars>>

MainStep == IrCommit \/ IrNotify \/ IrArm \/ PairingAdvertise \/ PairingArm

-----------------------------------------------------------------------------
(* The system work queue.                                                  *)

RetryStale ==
  /\ ~hitPending
  /\ vwork' = vwork \ {"hitRetry"}
  /\ UNCHANGED <<hitPending, retries, toEmitter>>

RetryGivesUp ==
  /\ hitPending /\ retries + 1 >= HitRetryMax
  /\ retries' = retries + 1
  /\ hitPending' = FALSE
  /\ vwork' = vwork \ {"hitRetry"}
  /\ UNCHANGED toEmitter

\* Mutant: the retries are not counted.
RetrySendsUncounted ==
  /\ hitPending /\ retries + 1 < HitRetryMax
  /\ NotifyHit
  /\ UNCHANGED <<retries, vwork>>

RetrySends ==
  /\ hitPending /\ retries + 1 < HitRetryMax
  /\ retries' = retries + 1
  /\ NotifyHit
  /\ UNCHANGED vwork

\* hit_retry_handler
HitRetry ==
  /\ "hitRetry" \in vwork
  /\ RetryStale \/ RetryGivesUp \/ RetrySends
  /\ UNCHANGED <<vstate, pairVars, connVars, friends, ffOn, hitBuf, registered, mainVars, link, toVest>>

\* pair_pending_timeout_handler; emitter_conn is never set in the window.
PairTimeout ==
  /\ "pairTimeout" \in vwork
  /\ vwork' = vwork \ {"pairTimeout"}
  /\ IF ~Bound /\ pairPending
     THEN /\ pairPending' = FALSE
          /\ adv' = (adv /\ econn)
          /\ vclosing' = (vclosing \/ econn)
     ELSE UNCHANGED <<pairPending, adv, vclosing>>
  /\ UNCHANGED <<vstate, boundTo, expected, aimed, refused, peer, econn, friends, ffOn, hitVars,
                 mainVars, linkVars>>

-----------------------------------------------------------------------------
(* on_emitter_cmd.                                                         *)

\* Mutant: any acknowledgement stops the retries.
OnHitAckStops(m) ==
  /\ m.cmd = "HIT_ACK"
  /\ hitPending' = (hitPending /\ m.id # hitBuf.id)
  /\ vwork' = vwork \ {"hitRetry"}
  /\ UNCHANGED <<vstate, boundTo, pairPending, vclosing, friends, ffOn>>

\* Mutant: any acknowledgement settles the pending hit.
OnHitAckAny(m) ==
  /\ m.cmd = "HIT_ACK"
  /\ hitPending' = FALSE
  /\ vwork' = vwork \ {"hitRetry"}
  /\ UNCHANGED <<vstate, boundTo, pairPending, vclosing, friends, ffOn>>

OnHitAck(m) ==
  /\ m.cmd = "HIT_ACK"
  /\ IF hitPending /\ m.id = hitBuf.id
     THEN hitPending' = FALSE /\ vwork' = vwork \ {"hitRetry"}
     ELSE UNCHANGED <<hitPending, vwork>>
  /\ UNCHANGED <<vstate, boundTo, pairPending, vclosing, friends, ffOn>>

\* The list starts the game only for a vest that is idle.
OnFriendlyList(m) ==
  /\ m.cmd = "FRIENDLY_LIST"
  /\ friends' = m.ids
  /\ vstate' = IF vstate = "PAIRED_IDLE" THEN "GAME_ACTIVE" ELSE vstate
  /\ UNCHANGED <<boundTo, pairPending, vclosing, ffOn, hitPending, vwork>>

OnFriendlyFire(m) ==
  /\ m.cmd = "FRIENDLY_FIRE"
  /\ ffOn' = m.on
  /\ UNCHANGED <<vstate, boundTo, pairPending, vclosing, friends, hitPending, vwork>>

OnDeath(m) ==
  /\ m.cmd = "DEATH"
  /\ vstate' = "DEAD"
  /\ hitPending' = FALSE
  /\ vwork' = vwork \ {"hitRetry"}
  /\ UNCHANGED <<boundTo, pairPending, vclosing, friends, ffOn>>

\* Mutant: the vest goes back to waiting for a friendly list.
OnRespawnIdle(m) ==
  /\ m.cmd = "RESPAWN"
  /\ vstate' = "PAIRED_IDLE"
  /\ UNCHANGED <<boundTo, pairPending, vclosing, friends, ffOn, hitPending, vwork>>

OnRespawn(m) ==
  /\ m.cmd = "RESPAWN"
  /\ vstate' = "GAME_ACTIVE"
  /\ UNCHANGED <<boundTo, pairPending, vclosing, friends, ffOn, hitPending, vwork>>

\* The friendly-fire flag and a scheduled retry survive.
OnUnpair(m) ==
  /\ m.cmd = "UNPAIR"
  /\ boundTo' = None
  /\ pairPending' = FALSE
  /\ vstate' = "UNPAIRED"
  /\ friends' = {}
  /\ hitPending' = FALSE
  /\ vwork' = vwork \ {"pairTimeout"}
  /\ vclosing' = (vclosing \/ econn)
  /\ UNCHANGED ffOn

VestCommand ==
  /\ toVest # <<>>
  /\ LET m == Head(toVest)
     IN  OnHitAck(m) \/ OnFriendlyList(m) \/ OnFriendlyFire(m) \/ OnDeath(m)
           \/ OnRespawn(m) \/ OnUnpair(m)
  /\ toVest' = Tail(toVest)
  /\ UNCHANGED <<expected, aimed, adv, refused, peer, econn, hitBuf, retries, registered,
                 mainVars, link, toEmitter>>

-----------------------------------------------------------------------------
(* The connection, and power.                                              *)

\* The alternatives of connected(): the bound emitter comes back, the
\* expected one is bound, anyone else is turned away.
AcceptReconnect(p) ==
  /\ Bound /\ p = boundTo
  /\ econn' = TRUE
  /\ UNCHANGED <<vstate, boundTo, pairPending, vwork, vclosing>>

\* Mutant: whoever connects first is bound.
AcceptPairingAnyone(p) ==
  /\ ~Bound /\ pairPending
  /\ boundTo' = p
  /\ pairPending' = FALSE
  /\ vstate' = "PAIRED_IDLE"
  /\ vwork' = vwork \ {"pairTimeout"}
  /\ econn' = TRUE
  /\ UNCHANGED vclosing

AcceptPairing(p) ==
  /\ ~Bound /\ pairPending /\ LsbOf[p] = expected
  /\ boundTo' = p
  /\ pairPending' = FALSE
  /\ vstate' = "PAIRED_IDLE"
  /\ vwork' = vwork \ {"pairTimeout"}
  /\ econn' = TRUE
  /\ UNCHANGED vclosing

Reject(p) ==
  /\ IF Bound THEN p # boundTo ELSE pairPending => LsbOf[p] # expected
  /\ vclosing' = TRUE
  /\ UNCHANGED <<vstate, boundTo, pairPending, vwork, econn>>

\* connected(); a connection ends connectable advertising.
VestConnects(p) ==
  /\ adv /\ peer = None
  /\ peer' = p
  /\ adv' = FALSE
  /\ AcceptReconnect(p) \/ AcceptPairing(p) \/ Reject(p)
  /\ UNCHANGED <<expected, aimed, refused, friends, ffOn, hitVars, mainVars>>

\* Mutant: every disconnection ends a game.
VestDisconnectedIdles ==
  /\ peer # None /\ link = "down" /\ toVest = <<>>
  /\ peer' = None
  /\ econn' = FALSE
  /\ vclosing' = FALSE
  /\ hitPending' = FALSE
  /\ vwork' = vwork \ {"hitRetry"}
  /\ vstate' = "PAIRED_IDLE"
  /\ AdvertiseAgain(Bound \/ pairPending)
  /\ UNCHANGED <<pairVars, friends, ffOn, hitBuf, retries, registered, mainVars, linkVars>>

\* Mutant: only the loss of the accepted emitter matters.
VestDisconnectedStays ==
  /\ peer # None /\ link = "down" /\ toVest = <<>>
  /\ peer' = None
  /\ econn' = FALSE
  /\ vclosing' = FALSE
  /\ hitPending' = FALSE
  /\ vwork' = vwork \ {"hitRetry"}
  /\ vstate' = IF vstate \in {"GAME_ACTIVE", "DEAD"} THEN "PAIRED_IDLE" ELSE vstate
  /\ AdvertiseAgain(econn /\ (Bound \/ pairPending))
  /\ UNCHANGED <<pairVars, friends, ffOn, hitBuf, retries, registered, mainVars, linkVars>>

\* Mutant: the vest advertises after every disconnection.
VestDisconnectedShows ==
  /\ peer # None /\ link = "down" /\ toVest = <<>>
  /\ peer' = None
  /\ econn' = FALSE
  /\ vclosing' = FALSE
  /\ hitPending' = FALSE
  /\ vwork' = vwork \ {"hitRetry"}
  /\ vstate' = IF vstate \in {"GAME_ACTIVE", "DEAD"} THEN "PAIRED_IDLE" ELSE vstate
  /\ AdvertiseAgain(TRUE)
  /\ UNCHANGED <<pairVars, friends, ffOn, hitBuf, retries, registered, mainVars, linkVars>>

\* disconnected(), after the last command was read: advertise again for the
\* bound or the expected emitter, or go back to listening for IR frames.
VestDisconnected ==
  /\ peer # None /\ link = "down" /\ toVest = <<>>
  /\ peer' = None
  /\ econn' = FALSE
  /\ vclosing' = FALSE
  /\ hitPending' = FALSE
  /\ vwork' = vwork \ {"hitRetry"}
  /\ vstate' = IF vstate \in {"GAME_ACTIVE", "DEAD"} THEN "PAIRED_IDLE" ELSE vstate
  /\ AdvertiseAgain(Bound \/ pairPending)
  /\ UNCHANGED <<pairVars, friends, ffOn, hitBuf, retries, registered, mainVars, linkVars>>

\* Power is lost and comes back; nothing is remembered, the pairing included.
VestReboot ==
  /\ "VEST_REBOOT" \in VestInputs
  /\ vstate' = "UNPAIRED"
  /\ boundTo' = None
  /\ pairPending' = FALSE
  /\ expected' = None
  /\ adv' = FALSE
  /\ refused' = FALSE
  /\ peer' = None
  /\ econn' = FALSE
  /\ vclosing' = FALSE
  /\ friends' = {}
  /\ ffOn' = FALSE
  /\ hitPending' = FALSE
  /\ hitBuf' = None
  /\ retries' = 0
  /\ vwork' = {}
  /\ mainPc' = "idle"
  /\ mainShooter' = None
  /\ link' = "down"
  /\ toVest' = <<>>
  /\ \E n \in 0 .. Len(toEmitter) : toEmitter' = SubSeq(toEmitter, 1, n)
  /\ UNCHANGED <<registered, aimed>>

\* What the vest does on its own, whatever is at the other end of the link.
VestInternal ==
  \/ \E s \in Shooters : IrShot(s)
  \/ \E p \in Peers : PairingFrame(p)
  \/ MainStep
  \/ HitRetry
  \/ PairTimeout
  \/ VestDisconnected
  \/ VestReboot

-----------------------------------------------------------------------------
(* The vest beside any emitters at all: whoever is in range connects to    *)
(* what advertises; the accepted one writes any command, UNPAIR last.      *)

vestAll == <<vestVars, linkVars>>

AnyEmitterConnects(p) ==
  /\ link = "down"
  /\ VestConnects(p)
  /\ link' = "ready"
  /\ UNCHANGED <<toVest, toEmitter>>

\* Commands flow once the emitter has been through GATT discovery, which
\* takes several connection intervals; on_ir_pairing has ended long before.
PairingHandled == mainPc \notin {"advertise", "armTimeout"}

AnyEmitterWrites(m) ==
  /\ link = "ready" /\ econn /\ ~vclosing /\ toVest = <<>>
  /\ PairingHandled
  /\ SendToVest(<<m>>)
  /\ link' = IF m.cmd = "UNPAIR" THEN "closing" ELSE link
  /\ UNCHANGED <<vestVars, toEmitter>>

AnyEmitterReads ==
  /\ toEmitter # <<>>
  /\ toEmitter' = <<>>
  /\ UNCHANGED <<vestVars, link, toVest>>

AnyEmitterDrops == LinkDrop /\ UNCHANGED vestVars

VestNext ==
  \/ VestInternal
  \/ VestCommand
  \/ \E p \in Peers : AnyEmitterConnects(p)
  \/ \E m \in VestCommands : AnyEmitterWrites(m)
  \/ AnyEmitterReads
  \/ AnyEmitterDrops

\* Threads that have something to run do run; a shot, a frame, a command, a
\* connection or a loss of power need never come.
VestFairness == WF_vestAll(HitRetry) /\ WF_vestAll(MainStep)

VestAloneInit == LinkInit /\ VestInit

VestSpec == VestAloneInit /\ [][VestNext]_vestAll /\ VestFairness
-----------------------------------------------------------------------------
(* Properties.                                                             *)

\* The vest has a binding exactly when it is in a paired state: a bound vest
\* would ignore pairing frames forever, an unbound one in a paired state too.
BindingMatchesState == (vstate = "UNPAIRED") = ~Bound

\* The emitter a vest is bound to is the one whose frame opened the window,
\* however many frames and connections of others came in between.
BoundToTheAimed == Bound => boundTo = aimed

\* Whatever connected, was turned away or was lost, a bound vest without a
\* connection tried to advertise and has nothing running only if the stack
\* refused it: the one way, with the power, for an emitter to lose its vest.
Reconnectable == Bound /\ peer = None => adv \/ refused

\* A pending hit has its retry scheduled, or the main thread is about to
\* schedule it; no command, disconnection or time-out in between breaks it.
RetryArmed == hitPending => "hitRetry" \in vwork \/ mainPc \in {"notify", "arm"}

\* Every hit is settled: acknowledged, given up or dropped, so that one lost
\* acknowledgement never stops the vest from registering hits.
HitSettled == hitPending ~> ~hitPending

\* main.c:455: "Unpaired vests do NOT advertise".
SilentWhenUnpaired == adv => Bound \/ pairPending
=============================================================================
