------------------------------ MODULE VestProofs ------------------------------
(* Proofs about Vest, for any emitters, packet ids, number of retries and  *)
(* length of the link's queues.                                            *)
EXTENDS Vest, SequenceTheorems, TLAPS

-----------------------------------------------------------------------------
(* The inductive invariants.                                               *)

\* A pending hit has retries left; what the main thread is about to use is
\* there.
HandlesInv ==
  /\ hitPending => retries < HitRetryMax
  /\ hitPending \/ mainPc = "notify" => hitBuf \in Hits
  /\ mainPc = "commit" => mainShooter \in Shooters

VestTypeInv == VestTypeOK /\ HandlesInv

\* One central at most, and none while the vest advertises.
OneCentral == (econn => peer # None) /\ (adv => peer = None)

\* Only the emitter the vest is bound to has a say, one command at a time
\* and none before on_ir_pairing has ended; an unpaired connection closes.
BoundCommands ==
  /\ toVest # <<>> => econn /\ Bound /\ PairingHandled
  /\ Len(toVest) <= 1
  /\ econn /\ ~vclosing => Bound

\* The window is open for the emitter that was aimed, until someone is bound
\* or the time-out, which is not scheduled before on_ir_pairing schedules it.
WindowForTheAimed ==
  /\ pairPending => ~Bound /\ aimed \in Peers /\ expected = LsbOf[aimed]
  /\ ~PairingHandled => (Bound \/ pairPending) /\ "pairTimeout" \notin vwork
  /\ "pairTimeout" \in vwork => Bound \/ pairPending

PairingInv ==
  /\ OneCentral
  /\ BoundCommands
  /\ WindowForTheAimed
  /\ BindingMatchesState
  /\ SilentWhenUnpaired
  /\ Reconnectable

-----------------------------------------------------------------------------
(* The queues of the link.                                                 *)

\* Queueing drops what does not fit and adds nothing.
LEMMA QueuedTyped ==
  ASSUME NEW S, NEW q \in Seq(S), NEW ms \in Seq(S), Len(q) <= LinkCap
  PROVE  /\ Queued(q, ms) \in Seq(S)
         /\ Len(Queued(q, ms)) <= LinkCap
         /\ Len(Queued(q, ms)) <= Len(q) + Len(ms)
<1> DEFINE all == q \o ms
           n == IF Len(all) <= LinkCap THEN Len(all) ELSE LinkCap
<1>1. all \in Seq(S) /\ Len(all) = Len(q) + Len(ms) /\ Len(q) \in Nat /\ Len(ms) \in Nat
  OBVIOUS
<1>2. n \in 0 .. Len(all) /\ n <= LinkCap
  BY <1>1, LinkCapAssumption
<1>3. SubSeq(all, 1, n) \in Seq(S) /\ Len(SubSeq(all, 1, n)) = n
  BY <1>1, <1>2
<1> QED BY <1>1, <1>2, <1>3 DEF Queued

\* What the end of the link leaves of a queue.
LEMMA CutTyped ==
  ASSUME NEW S, NEW q \in Seq(S), NEW n \in 0 .. Len(q), Len(q) <= LinkCap
  PROVE  SubSeq(q, 1, n) \in Seq(S) /\ Len(SubSeq(q, 1, n)) <= LinkCap
                                   /\ Len(SubSeq(q, 1, n)) <= Len(q)
<1>1. SubSeq(q, 1, n) \in Seq(S) /\ Len(SubSeq(q, 1, n)) = n
  OBVIOUS
<1> QED BY <1>1, LinkCapAssumption

\* Nothing is left of a queue of one.
LEMMA LastTaken ==
  ASSUME NEW S, NEW q \in Seq(S), q # <<>>, Len(q) <= 1
  PROVE  Tail(q) = <<>>
<1>1. Len(q) = 1
  <2>1. Len(q) \in Nat /\ Len(q) # 0
    BY EmptySeq
  <2> QED BY <2>1
<1>2. Tail(q) \in Seq(S) /\ Len(Tail(q)) = 0
  BY <1>1
<1> QED BY <1>2, EmptySeq

-----------------------------------------------------------------------------
(* Types.                                                                  *)

LEMMA VestTypeInit == VestAloneInit => VestTypeInv
<1> SUFFICES ASSUME VestAloneInit PROVE VestTypeInv
  OBVIOUS
<1>1. LinkTypeOK
  <2>1. link = "down" /\ toVest = <<>> /\ toEmitter = <<>>
    BY DEF VestAloneInit, LinkInit
  <2>2. <<>> \in Seq(VestCommands) /\ <<>> \in Seq(Hits) /\ Len(<<>>) = 0
    OBVIOUS
  <2> QED BY <2>1, <2>2, LinkCapAssumption DEF LinkTypeOK
<1>2. registered \in Seq(PacketIds)
  BY DEF VestAloneInit, VestInit
<1>3. 0 \in 0 .. HitRetryMax
  BY HitRetryMaxAssumption
<1>4. retries = 0 /\ mainPc = "idle" /\ hitPending = FALSE
  BY DEF VestAloneInit, VestInit
<1> QED BY <1>1, <1>2, <1>3, <1>4
        DEF VestAloneInit, VestInit, VestTypeInv, VestTypeOK, HandlesInv, VestStates, MainSteps

LEMMA NotifyTyped ==
  ASSUME VestTypeInv, NotifyHit, hitPending \/ mainPc = "notify"
  PROVE  /\ toEmitter' \in Seq(Hits) /\ Len(toEmitter') <= LinkCap
         /\ hitPending' \in BOOLEAN /\ (hitPending' => hitPending)
<1>1. hitBuf \in Hits /\ toEmitter \in Seq(Hits) /\ Len(toEmitter) <= LinkCap
  BY DEF VestTypeInv, HandlesInv, VestTypeOK, LinkTypeOK
<1>2. <<hitBuf>> \in Seq(Hits)
  BY <1>1
<1>3. /\ Queued(toEmitter, <<hitBuf>>) \in Seq(Hits)
      /\ Len(Queued(toEmitter, <<hitBuf>>)) <= LinkCap
  BY <1>1, <1>2, QueuedTyped
<1> QED BY <1>1, <1>3 DEF NotifyHit, SendToEmitter, VestTypeInv, VestTypeOK

\* Every step of the vest on its own keeps the types.
LEMMA VestTypeInternal == VestTypeInv /\ VestInternal => VestTypeInv'
<1> SUFFICES ASSUME VestTypeInv, VestInternal PROVE VestTypeInv'
  OBVIOUS
<1> USE DEF VestTypeInv, VestTypeOK, HandlesInv, LinkTypeOK, VestStates, MainSteps,
            pairVars, connVars, hitVars, mainVars, linkVars
<1>1. ASSUME NEW s \in Shooters, IrShot(s) PROVE VestTypeInv'
  BY <1>1 DEF IrShot
<1>2. ASSUME NEW p \in Peers, PairingFrame(p) PROVE VestTypeInv'
  BY <1>2 DEF PairingFrame
<1>3. CASE IrCommit
  <2>1. PICK id \in PacketIds :
          /\ hitBuf' = [id |-> id, shooter |-> mainShooter, serial |-> Len(registered) + 1]
          /\ registered' = Append(registered, id)
    BY <1>3 DEF IrCommit
  <2>2. hitBuf' \in Hits /\ registered' \in Seq(PacketIds)
    BY <1>3, <2>1, ShootersAssumption DEF IrCommit, Hits
  <2>3. retries' = 0 /\ 0 < HitRetryMax /\ 0 \in 0 .. HitRetryMax
    BY <1>3, HitRetryMaxAssumption DEF IrCommit
  <2> QED BY <1>3, <2>2, <2>3 DEF IrCommit
<1>4. CASE IrNotify
  BY <1>4, NotifyTyped DEF IrNotify
<1>5. CASE IrArm
  BY <1>5 DEF IrArm
<1>6. CASE PairingAdvertise
  <2>1. adv' \in BOOLEAN /\ refused' \in BOOLEAN
    BY <1>6 DEF PairingAdvertise, AdvertisingStarts, AdvertisingRefused
  <2>2. /\ mainPc' = "armTimeout" /\ HandlesInv'
        /\ UNCHANGED <<vstate, pairVars, peer, econn, vclosing, friends, ffOn, hitVars, vwork,
                       mainShooter, linkVars>>
    BY <1>6 DEF PairingAdvertise
  <2>3. LinkTypeOK'
    BY <2>2
  <2> QED BY ONLY VestTypeInv, <2>1, <2>2, <2>3
<1>7. CASE PairingArm
  BY <1>7 DEF PairingArm
<1>8. CASE HitRetry
  <2> USE DEF HitRetry
  <2>0. UNCHANGED <<vstate, boundTo, pairPending, expected, aimed, adv, refused, peer, econn,
                    vclosing, friends, ffOn, hitBuf, registered, mainPc, mainShooter,
                    link, toVest>>
    BY <1>8
  <2>1. CASE RetryStale
    BY <1>8, <2>1 DEF RetryStale
  <2>2. CASE RetryGivesUp
    <3>1. retries' \in 0 .. HitRetryMax
      BY <2>2, HitRetryMaxAssumption DEF RetryGivesUp
    <3>2. /\ ~hitPending' /\ hitPending' \in BOOLEAN /\ vwork' \in SUBSET {"hitRetry", "pairTimeout"}
          /\ toEmitter' = toEmitter
      BY <2>2 DEF RetryGivesUp
    <3>3. HandlesInv'
      BY <2>0, <3>2
    <3>4. VestTypeOK'
      BY <2>0, <3>1, <3>2
    <3> QED BY <3>3, <3>4
  <2>3. CASE RetrySends
    <3>1. retries' \in 0 .. HitRetryMax /\ retries' < HitRetryMax
      BY <2>3, HitRetryMaxAssumption DEF RetrySends
    <3>2. /\ toEmitter' \in Seq(Hits) /\ Len(toEmitter') <= LinkCap
          /\ hitPending' \in BOOLEAN
      BY <2>3, NotifyTyped DEF RetrySends
    <3> QED BY <1>8, <2>3, <3>1, <3>2 DEF RetrySends
  <2> QED BY <1>8, <2>1, <2>2, <2>3
<1>9. CASE PairTimeout
  <2>1. pairPending' \in BOOLEAN /\ adv' \in BOOLEAN /\ vclosing' \in BOOLEAN
    <3>1. CASE ~Bound /\ pairPending
      BY <1>9, <3>1 DEF PairTimeout
    <3>2. CASE ~(~Bound /\ pairPending)
      BY <1>9, <3>2 DEF PairTimeout
    <3> QED BY <3>1, <3>2
  <2>2. /\ vstate' \in VestStates /\ boundTo' \in Peers \cup {None}
        /\ vwork' \in SUBSET {"hitRetry", "pairTimeout"}
    BY <1>9 DEF PairTimeout
  <2>3. HandlesInv'
    BY <1>9 DEF PairTimeout
  <2>4. UNCHANGED <<expected, aimed, refused, peer, econn, friends, ffOn, hitVars, mainVars, linkVars>>
    BY <1>9 DEF PairTimeout
  <2>5. LinkTypeOK'
    BY <2>4 DEF linkVars
  <2> QED BY ONLY VestTypeInv, <2>1, <2>2, <2>3, <2>4, <2>5
<1>10. CASE VestDisconnected
  <2>1. /\ peer' = None /\ econn' = FALSE /\ vclosing' = FALSE /\ hitPending' = FALSE
        /\ adv' \in BOOLEAN /\ refused' \in BOOLEAN
    BY <1>10 DEF VestDisconnected, AdvertiseAgain, AdvertisingStarts, AdvertisingRefused
  <2>2. /\ vstate' \in VestStates
        /\ vwork' \in SUBSET {"hitRetry", "pairTimeout"}
    BY <1>10 DEF VestDisconnected
  <2>3. HandlesInv'
    BY <1>10 DEF VestDisconnected
  <2>4. UNCHANGED <<pairVars, friends, ffOn, hitBuf, retries, registered, mainVars, linkVars>>
    BY <1>10 DEF VestDisconnected
  <2>5. LinkTypeOK'
    BY <2>4 DEF linkVars
  <2>6. VestTypeOK'
    <3> HIDE DEF LinkTypeOK
    <3> QED BY ONLY VestTypeInv, <2>1, <2>2, <2>4, <2>5
  <2> QED BY <2>3, <2>6
<1>11. CASE VestReboot
  <2>1. toEmitter' \in Seq(Hits) /\ Len(toEmitter') <= LinkCap
    BY <1>11, CutTyped DEF VestReboot
  <2>2. /\ toVest' \in Seq(VestCommands) /\ Len(toVest') <= LinkCap
    <3>1. toVest' = <<>>
      BY <1>11 DEF VestReboot
    <3> QED BY <3>1, LinkCapAssumption
  <2>3. retries' \in 0 .. HitRetryMax
    BY <1>11, HitRetryMaxAssumption DEF VestReboot
  <2> QED BY <1>11, <2>1, <2>2, <2>3 DEF VestReboot
<1> QED BY <1>1, <1>2, <1>3, <1>4, <1>5, <1>6, <1>7, <1>8, <1>9, <1>10, <1>11
        DEF VestInternal, MainStep

\* So does every command.
LEMMA VestTypeCommand == VestTypeInv /\ VestCommand => VestTypeInv'
<1> SUFFICES ASSUME VestTypeInv, VestCommand PROVE VestTypeInv'
  OBVIOUS
<1> USE DEF VestTypeInv, VestTypeOK, HandlesInv, VestStates
<1> DEFINE m == Head(toVest)
<1>1. /\ m \in VestCommands
      /\ toVest' \in Seq(VestCommands) /\ Len(toVest') <= LinkCap
  BY LinkCapAssumption DEF VestCommand, LinkTypeOK
<1>2. LinkTypeOK'
  BY <1>1 DEF VestCommand, LinkTypeOK
<1>3. CASE OnHitAck(m)
  <2>1. /\ hitPending' \in BOOLEAN /\ (hitPending' => hitPending)
        /\ vwork' \in SUBSET {"hitRetry", "pairTimeout"}
    <3>1. CASE hitPending /\ m.id = hitBuf.id
      BY <1>3, <3>1 DEF OnHitAck
    <3>2. CASE ~(hitPending /\ m.id = hitBuf.id)
      BY <1>3, <3>2 DEF OnHitAck
    <3> QED BY <3>1, <3>2
  <2>2. HandlesInv'
    BY <2>1 DEF VestCommand, mainVars
  <2> QED BY <1>2, <1>3, <2>1, <2>2 DEF VestCommand, OnHitAck, mainVars
<1>4. CASE OnFriendlyList(m)
  <2>1. m.ids \in SUBSET Players
    BY <1>1, <1>4 DEF OnFriendlyList, VestCommands
  <2> QED BY <1>2, <1>4, <2>1 DEF VestCommand, OnFriendlyList, mainVars
<1>5. CASE OnFriendlyFire(m)
  <2>1. m.on \in BOOLEAN
    BY <1>1, <1>5 DEF OnFriendlyFire, VestCommands
  <2> QED BY <1>2, <1>5, <2>1 DEF VestCommand, OnFriendlyFire, mainVars
<1>6. CASE OnDeath(m)
  <2>1. vwork' \in SUBSET {"hitRetry", "pairTimeout"} /\ ~hitPending' /\ hitPending' \in BOOLEAN
    BY <1>6 DEF OnDeath
  <2>2. HandlesInv'
    BY <2>1 DEF VestCommand, mainVars
  <2> QED BY <1>2, <1>6, <2>1, <2>2 DEF VestCommand, OnDeath, mainVars
<1>7. CASE OnRespawn(m)
  <2>1. HandlesInv'
    BY <1>7 DEF VestCommand, OnRespawn, mainVars
  <2> QED BY <1>2, <1>7, <2>1 DEF VestCommand, OnRespawn, mainVars
<1>8. CASE OnUnpair(m)
  <2>1. vclosing' \in BOOLEAN
    BY <1>8 DEF OnUnpair
  <2> QED BY <1>2, <1>8, <2>1 DEF VestCommand, OnUnpair, mainVars
<1> QED BY <1>3, <1>4, <1>5, <1>6, <1>7, <1>8 DEF VestCommand

\* Whoever connects, to whatever link.
LEMMA VestConnectsTyped ==
  ASSUME VestTypeInv, NEW p \in Peers, VestConnects(p), LinkTypeOK'
  PROVE  VestTypeInv'
<1> USE DEF VestTypeInv, VestTypeOK, HandlesInv, hitVars, mainVars
<1>1. /\ AcceptReconnect(p) \/ AcceptPairing(p) \/ Reject(p)
      /\ adv' = FALSE /\ peer' = p
      /\ UNCHANGED <<expected, aimed, refused, friends, ffOn, hitVars, mainVars>>
  BY DEF VestConnects
<1> DEFINE Typed == /\ vstate' \in VestStates /\ boundTo' \in Peers \cup {None}
                    /\ pairPending' \in BOOLEAN /\ econn' \in BOOLEAN
                    /\ vclosing' \in BOOLEAN
                    /\ vwork' \in SUBSET {"hitRetry", "pairTimeout"}
<1>2. CASE AcceptReconnect(p)
  <2>1. Typed
    BY <1>2 DEF AcceptReconnect
  <2> QED BY ONLY VestTypeInv, p \in Peers, LinkTypeOK', <1>1, <2>1
<1>3. CASE AcceptPairing(p)
  <2>1. Typed
    BY <1>3 DEF AcceptPairing, VestStates
  <2> QED BY ONLY VestTypeInv, p \in Peers, LinkTypeOK', <1>1, <2>1
<1>4. CASE Reject(p)
  <2>1. Typed
    BY <1>4 DEF Reject
  <2> QED BY ONLY VestTypeInv, p \in Peers, LinkTypeOK', <1>1, <2>1
<1> QED BY <1>1, <1>2, <1>3, <1>4

\* And every step at the other end of the link.
LEMMA VestTypeLink ==
  ASSUME VestTypeInv
  PROVE  /\ \A p \in Peers : AnyEmitterConnects(p) => VestTypeInv'
         /\ \A m \in VestCommands : AnyEmitterWrites(m) => VestTypeInv'
         /\ AnyEmitterReads => VestTypeInv'
         /\ AnyEmitterDrops => VestTypeInv'
<1> USE DEF VestTypeInv, VestTypeOK, HandlesInv, LinkTypeOK
<1> USE DEF vestVars, pairVars, connVars, hitVars, mainVars
<1>1. ASSUME NEW p \in Peers, AnyEmitterConnects(p) PROVE VestTypeInv'
  <2>1. VestConnects(p) /\ LinkTypeOK'
    BY <1>1 DEF AnyEmitterConnects
  <2> QED BY <2>1, VestConnectsTyped
<1>2. ASSUME NEW m \in VestCommands, AnyEmitterWrites(m) PROVE VestTypeInv'
  <2>1. /\ Queued(toVest, <<m>>) \in Seq(VestCommands)
        /\ Len(Queued(toVest, <<m>>)) <= LinkCap
    <3>1. toVest \in Seq(VestCommands) /\ Len(toVest) <= LinkCap
      OBVIOUS
    <3>2. <<m>> \in Seq(VestCommands)
      OBVIOUS
    <3> QED BY ONLY <3>1, <3>2, QueuedTyped
  <2> QED BY <1>2, <2>1 DEF AnyEmitterWrites, SendToVest
<1>3. CASE AnyEmitterReads
  <2>1. <<>> \in Seq(Hits) /\ Len(<<>>) <= LinkCap
    BY LinkCapAssumption
  <2> QED BY <1>3, <2>1 DEF AnyEmitterReads
<1>4. CASE AnyEmitterDrops
  <2>1. /\ toVest' \in Seq(VestCommands) /\ Len(toVest') <= LinkCap
        /\ toEmitter' \in Seq(Hits) /\ Len(toEmitter') <= LinkCap
    BY <1>4, CutTyped DEF AnyEmitterDrops, LinkDrop
  <2> QED BY <1>4, <2>1 DEF AnyEmitterDrops, LinkDrop
<1> QED BY <1>1, <1>2, <1>3, <1>4

LEMMA VestTypeStep == VestTypeInv /\ [VestNext]_vestAll => VestTypeInv'
<1>1. VestTypeInv /\ UNCHANGED vestAll => VestTypeInv'
  BY DEF VestTypeInv, VestTypeOK, HandlesInv, LinkTypeOK, vestAll, vestVars, linkVars,
         pairVars, connVars, hitVars, mainVars
<1> SUFFICES ASSUME VestTypeInv, VestNext PROVE VestTypeInv'
  BY <1>1
<1> QED BY VestTypeInternal, VestTypeCommand, VestTypeLink DEF VestNext

LEMMA VestTypeHolds == VestSpec => []VestTypeInv
BY VestTypeInit, VestTypeStep, PTL DEF VestSpec

\* The vest's state keeps its types; a pending hit never uses up its retries
\* without being settled.
THEOREM VestTypeCorrect == VestSpec => []VestTypeOK
<1>1. VestTypeInv => VestTypeOK
  BY DEF VestTypeInv
<1> QED BY <1>1, VestTypeHolds, PTL

-----------------------------------------------------------------------------
(* The binding and the advertising.                                        *)

LEMMA PairingInvInit == VestAloneInit => PairingInv
<1> SUFFICES ASSUME VestAloneInit PROVE PairingInv
  OBVIOUS
<1>1. /\ toVest = <<>> /\ Len(<<>>) = 0
      /\ peer = None /\ boundTo = None /\ mainPc = "idle" /\ vstate = "UNPAIRED"
      /\ vwork = {} /\ ~econn /\ ~adv /\ ~pairPending
  BY DEF VestAloneInit, LinkInit, VestInit
<1> QED BY <1>1 DEF PairingInv, OneCentral, BoundCommands, WindowForTheAimed, PairingHandled,
                    BindingMatchesState, SilentWhenUnpaired, Reconnectable, Bound

LEMMA PairingInvInternal == VestTypeInv /\ PairingInv /\ VestInternal => PairingInv'
<1> SUFFICES ASSUME VestTypeOK, PairingInv, VestInternal PROVE PairingInv'
  BY DEF VestTypeInv
<1> USE DEF PairingInv, OneCentral, BoundCommands, WindowForTheAimed, PairingHandled,
            BindingMatchesState, SilentWhenUnpaired, Reconnectable, Bound
<1> USE DEF pairVars, connVars, hitVars, mainVars, linkVars
<1>1. ASSUME NEW s \in Shooters, IrShot(s) PROVE PairingInv'
  BY <1>1 DEF IrShot
<1>2. ASSUME NEW p \in Peers, PairingFrame(p) PROVE PairingInv'
  BY <1>2 DEF PairingFrame
<1>3. CASE IrCommit
  BY <1>3 DEF IrCommit
<1>4. CASE IrNotify
  BY <1>4 DEF IrNotify
<1>5. CASE IrArm
  BY <1>5 DEF IrArm
<1>6. CASE PairingAdvertise
  BY <1>6 DEF PairingAdvertise, AdvertisingStarts, AdvertisingRefused
<1>7. CASE PairingArm
  BY <1>7 DEF PairingArm
<1>8. CASE HitRetry
  <2>1. "pairTimeout" \in vwork' <=> "pairTimeout" \in vwork
    BY <1>8 DEF HitRetry, RetryStale, RetryGivesUp, RetrySends
  <2> QED BY <1>8, <2>1 DEF HitRetry
<1>9. CASE PairTimeout
  BY <1>9 DEF PairTimeout, VestTypeOK
<1>10. CASE VestDisconnected
  BY <1>10 DEF VestDisconnected, AdvertiseAgain, AdvertisingStarts, AdvertisingRefused
<1>11. CASE VestReboot
  BY <1>11 DEF VestReboot
<1> QED BY <1>1, <1>2, <1>3, <1>4, <1>5, <1>6, <1>7, <1>8, <1>9, <1>10, <1>11
        DEF VestInternal, MainStep

LEMMA PairingInvCommand == VestTypeInv /\ PairingInv /\ VestCommand => PairingInv'
<1> SUFFICES ASSUME VestTypeOK, PairingInv, VestCommand PROVE PairingInv'
  BY DEF VestTypeInv
<1> USE DEF PairingInv, OneCentral, BoundCommands, WindowForTheAimed, PairingHandled,
            BindingMatchesState, SilentWhenUnpaired, Reconnectable, Bound, mainVars
<1> DEFINE m == Head(toVest)
<1>1. toVest' = <<>> /\ Len(toVest') = 0 /\ Len(toVest') <= 1
  <2>1. toVest \in Seq(VestCommands) /\ toVest # <<>> /\ Len(toVest) <= 1
    BY DEF VestCommand, VestTypeOK, LinkTypeOK
  <2>2. Tail(toVest) = <<>>
    BY ONLY <2>1, LastTaken
  <2>3. toVest' = <<>> /\ Len(<<>>) = 0
    BY <2>2 DEF VestCommand
  <2> QED BY ONLY <2>3
<1>2. econn /\ Bound /\ PairingHandled
  BY DEF VestCommand
<1>3. CASE OnHitAck(m)
  <2>1. "pairTimeout" \in vwork' <=> "pairTimeout" \in vwork
    BY <1>3 DEF OnHitAck
  <2> QED BY <1>1, <1>2, <1>3, <2>1 DEF VestCommand, OnHitAck
<1>4. CASE OnFriendlyList(m)
  BY <1>1, <1>2, <1>4 DEF VestCommand, OnFriendlyList
<1>5. CASE OnFriendlyFire(m)
  BY <1>1, <1>2, <1>5 DEF VestCommand, OnFriendlyFire
<1>6. CASE OnDeath(m)
  BY <1>1, <1>2, <1>6 DEF VestCommand, OnDeath
<1>7. CASE OnRespawn(m)
  BY <1>1, <1>2, <1>7 DEF VestCommand, OnRespawn
<1>8. CASE OnUnpair(m)
  BY <1>1, <1>2, <1>8 DEF VestCommand, OnUnpair
<1> QED BY <1>3, <1>4, <1>5, <1>6, <1>7, <1>8 DEF VestCommand

LEMMA PairingInvLink ==
  ASSUME VestTypeOK, PairingInv
  PROVE  /\ \A p \in Peers : AnyEmitterConnects(p) => PairingInv'
         /\ \A m \in VestCommands : AnyEmitterWrites(m) => PairingInv'
         /\ AnyEmitterReads => PairingInv'
         /\ AnyEmitterDrops => PairingInv'
<1> USE DEF PairingInv, OneCentral, BoundCommands, WindowForTheAimed, PairingHandled,
            BindingMatchesState, SilentWhenUnpaired, Reconnectable, Bound
<1> USE DEF vestVars, pairVars, connVars, hitVars, mainVars
<1>1. ASSUME NEW p \in Peers, AnyEmitterConnects(p) PROVE PairingInv'
  <2> USE <1>1 DEF AnyEmitterConnects, VestConnects
  <2>0. p # None
    BY NoneAssumption
  <2>1. CASE AcceptReconnect(p)
    BY <2>0, <2>1 DEF AcceptReconnect
  <2>2. CASE AcceptPairing(p)
    BY <2>0, <2>2 DEF AcceptPairing
  <2>3. CASE Reject(p)
    BY <2>0, <2>3 DEF Reject
  <2> QED BY <2>1, <2>2, <2>3
<1>2. ASSUME NEW m \in VestCommands, AnyEmitterWrites(m) PROVE PairingInv'
  <2>1. Len(toVest') <= 1
    <3>1. toVest = <<>> /\ toVest \in Seq(VestCommands) /\ Len(toVest) <= LinkCap
      BY <1>2 DEF AnyEmitterWrites, VestTypeOK, LinkTypeOK
    <3>2. <<m>> \in Seq(VestCommands) /\ Len(<<m>>) = 1 /\ Len(<<>>) = 0
      OBVIOUS
    <3>3. Len(Queued(toVest, <<m>>)) <= Len(toVest) + Len(<<m>>)
      BY ONLY <3>1, <3>2, QueuedTyped
    <3> QED BY <1>2, <3>1, <3>2, <3>3 DEF AnyEmitterWrites, SendToVest
  <2> QED BY <1>2, <2>1 DEF AnyEmitterWrites
<1>3. CASE AnyEmitterReads
  BY <1>3 DEF AnyEmitterReads
<1>4. CASE AnyEmitterDrops
  <2>1. Len(toVest') <= Len(toVest) /\ toVest' \in Seq(VestCommands)
    BY <1>4, CutTyped DEF AnyEmitterDrops, LinkDrop, VestTypeOK, LinkTypeOK
  <2>2. Len(toVest) \in Nat /\ Len(toVest') \in Nat
    BY <2>1 DEF VestTypeOK, LinkTypeOK
  <2>3. toVest' # <<>> => toVest # <<>>
    <3>1. toVest = <<>> => Len(toVest') = 0
      BY <2>1, <2>2
    <3> QED BY <2>1, <3>1
  <2> QED BY <1>4, <2>1, <2>2, <2>3 DEF AnyEmitterDrops
<1> QED BY <1>1, <1>2, <1>3, <1>4

LEMMA PairingInvStep ==
  VestTypeInv /\ PairingInv /\ [VestNext]_vestAll => PairingInv'
<1>1. PairingInv /\ UNCHANGED vestAll => PairingInv'
  BY DEF PairingInv, OneCentral, BoundCommands, WindowForTheAimed, PairingHandled, Bound,
         BindingMatchesState, SilentWhenUnpaired, Reconnectable, vestAll, vestVars,
         linkVars, pairVars, connVars, mainVars
<1> SUFFICES ASSUME VestTypeInv, VestTypeOK, PairingInv, VestNext PROVE PairingInv'
  BY <1>1 DEF VestTypeInv
<1> QED BY PairingInvInternal, PairingInvCommand, PairingInvLink DEF VestNext

LEMMA PairingInvHolds == VestSpec => []PairingInv
BY PairingInvInit, PairingInvStep, VestTypeHolds, PTL DEF VestSpec

\* A vest is bound exactly in the paired states, through games, deaths,
\* disconnections and unpairing.
THEOREM VestBindingMatchesState == VestSpec => []BindingMatchesState
<1>1. PairingInv => BindingMatchesState
  BY DEF PairingInv
<1> QED BY <1>1, PairingInvHolds, PTL

\* A bound vest without a connection advertises, or the stack refused its
\* last attempt.
THEOREM VestReconnectable == VestSpec => []Reconnectable
<1>1. PairingInv => Reconnectable
  BY DEF PairingInv
<1> QED BY <1>1, PairingInvHolds, PTL

\* Bound, with no connection and nothing advertised, on_ir_pairing done.
Stranded == Bound /\ peer = None /\ ~adv /\ PairingHandled

\* A refused start of advertising is final: nothing in the vest tries again,
\* no pairing frame is heard and no command can come, so that the vest stays
\* lost to its emitter until it loses its power (main.c:479, logged only).
THEOREM VestStrandedForGood == VestSpec => [][Stranded => Stranded' \/ VestReboot]_vestAll
<1> DEFINE Stays == Stranded => Stranded' \/ VestReboot
<1>1. VestTypeInv /\ PairingInv /\ [VestNext]_vestAll => [Stays]_vestAll
  <2> SUFFICES ASSUME PairingInv, Stranded, VestNext, ~VestReboot PROVE Stranded'
    OBVIOUS
  <2> USE DEF Stranded, PairingHandled, Bound, pairVars, connVars, mainVars
  <2>1. vstate # "UNPAIRED" /\ toVest = <<>> /\ ~pairPending
    BY DEF PairingInv, BindingMatchesState, OneCentral, BoundCommands, WindowForTheAimed
  <2>2. ASSUME NEW s \in Shooters, IrShot(s) PROVE Stranded'
    BY <2>2 DEF IrShot
  <2>3. ASSUME NEW p \in Peers, PairingFrame(p) \/ AnyEmitterConnects(p) PROVE FALSE
    BY <2>1, <2>3 DEF PairingFrame, AnyEmitterConnects, VestConnects
  <2>4. CASE MainStep
    BY <2>4 DEF MainStep, IrCommit, IrNotify, IrArm, PairingAdvertise, PairingArm
  <2>5. CASE HitRetry
    BY <2>5 DEF HitRetry
  <2>6. CASE PairTimeout
    BY <2>6 DEF PairTimeout
  <2>7. CASE VestDisconnected \/ VestCommand
    BY <2>1, <2>7 DEF VestDisconnected, VestCommand
  <2>8. ASSUME NEW m \in VestCommands, AnyEmitterWrites(m) PROVE Stranded'
    BY <2>8 DEF AnyEmitterWrites, vestVars
  <2>9. CASE AnyEmitterReads \/ AnyEmitterDrops
    BY <2>9 DEF AnyEmitterReads, AnyEmitterDrops, vestVars
  <2> QED BY <2>2, <2>3, <2>4, <2>5, <2>6, <2>7, <2>8, <2>9 DEF VestNext, VestInternal
<1> QED BY <1>1, VestTypeHolds, PairingInvHolds, PTL DEF VestSpec

\* An unpaired vest advertises only in its pairing window.
THEOREM VestSilentWhenUnpaired == VestSpec => []SilentWhenUnpaired
<1>1. PairingInv => SilentWhenUnpaired
  BY DEF PairingInv
<1> QED BY <1>1, PairingInvHolds, PTL

-----------------------------------------------------------------------------
(* Retries, and whom the vest is bound to.                                 *)

LEMMA RetryArmedStep == RetryArmed /\ [VestNext]_vestAll => RetryArmed'
<1> SUFFICES ASSUME RetryArmed, [VestNext]_vestAll PROVE RetryArmed'
  OBVIOUS
<1> USE DEF RetryArmed, vestVars, pairVars, connVars, hitVars, mainVars, linkVars
<1>1. ASSUME NEW s \in Shooters, IrShot(s) PROVE RetryArmed'
  BY <1>1 DEF IrShot
<1>2. ASSUME NEW p \in Peers, PairingFrame(p) PROVE RetryArmed'
  BY <1>2 DEF PairingFrame
<1>3. CASE MainStep
  BY <1>3 DEF MainStep, IrCommit, IrNotify, IrArm, PairingAdvertise, PairingArm
<1>4. CASE HitRetry
  <2>1. hitPending' => "hitRetry" \in vwork'
    BY <1>4 DEF HitRetry, RetryStale, RetryGivesUp, RetrySends
  <2> QED BY <2>1
<1>5. CASE PairTimeout
  BY <1>5 DEF PairTimeout
<1>6. CASE VestDisconnected
  BY <1>6 DEF VestDisconnected
<1>7. CASE VestReboot
  BY <1>7 DEF VestReboot
<1>8. CASE VestCommand
  <2> DEFINE m == Head(toVest)
  <2>1. hitPending' => hitPending /\ ("hitRetry" \in vwork => "hitRetry" \in vwork')
    <3>1. OnHitAck(m) => (hitPending' => hitPending /\ vwork' = vwork)
      BY DEF OnHitAck
    <3>2. OnDeath(m) \/ OnUnpair(m) => ~hitPending'
      BY DEF OnDeath, OnUnpair
    <3>3. OnFriendlyList(m) \/ OnFriendlyFire(m) \/ OnRespawn(m) =>
            hitPending' = hitPending /\ vwork' = vwork
      BY DEF OnFriendlyList, OnFriendlyFire, OnRespawn
    <3> QED BY <1>8, <3>1, <3>2, <3>3 DEF VestCommand
  <2> QED BY <1>8, <2>1 DEF VestCommand
<1>9. ASSUME NEW p \in Peers, AnyEmitterConnects(p) PROVE RetryArmed'
  BY <1>9 DEF AnyEmitterConnects, VestConnects, AcceptReconnect, AcceptPairing, Reject
<1>10. ASSUME NEW m \in VestCommands, AnyEmitterWrites(m) PROVE RetryArmed'
  BY <1>10 DEF AnyEmitterWrites
<1>11. CASE AnyEmitterReads \/ AnyEmitterDrops \/ UNCHANGED vestAll
  BY <1>11 DEF AnyEmitterReads, AnyEmitterDrops, vestAll
<1> QED BY <1>1, <1>2, <1>3, <1>4, <1>5, <1>6, <1>7, <1>8, <1>9, <1>10, <1>11
        DEF VestNext, VestInternal

\* No hit is left pending without a retry that will settle it.
THEOREM VestRetryArmed == VestSpec => []RetryArmed
<1>1. VestAloneInit => RetryArmed
  BY DEF VestAloneInit, VestInit, RetryArmed
<1> QED BY <1>1, RetryArmedStep, PTL DEF VestSpec

LEMMA BoundToTheAimedStep ==
  ASSUME \A p, q \in Peers : LsbOf[p] = LsbOf[q] => p = q
  PROVE  VestTypeInv /\ PairingInv /\ BoundToTheAimed /\ [VestNext]_vestAll
           => BoundToTheAimed'
<1> SUFFICES ASSUME PairingInv, BoundToTheAimed, [VestNext]_vestAll
             PROVE  BoundToTheAimed'
  OBVIOUS
<1> USE DEF BoundToTheAimed, Bound, vestVars, pairVars, connVars, hitVars, mainVars, linkVars
<1>1. CASE UNCHANGED <<boundTo, aimed>>
  BY <1>1
<1>2. ASSUME NEW p \in Peers, PairingFrame(p) PROVE BoundToTheAimed'
  BY <1>2 DEF PairingFrame, PairingInv, BindingMatchesState
<1>3. ASSUME NEW p \in Peers, AnyEmitterConnects(p) PROVE BoundToTheAimed'
  <2>1. CASE AcceptPairing(p)
    <3>1. aimed \in Peers /\ LsbOf[p] = LsbOf[aimed]
      BY <2>1 DEF AcceptPairing, PairingInv, WindowForTheAimed
    <3>2. p = aimed
      BY <3>1
    <3> QED BY <1>3, <2>1, <3>2 DEF AnyEmitterConnects, VestConnects, AcceptPairing
  <2>2. CASE AcceptReconnect(p) \/ Reject(p)
    BY <1>3, <2>2 DEF AnyEmitterConnects, VestConnects, AcceptReconnect, Reject
  <2> QED BY <1>3, <2>1, <2>2 DEF AnyEmitterConnects, VestConnects
<1>4. CASE VestCommand
  BY <1>4 DEF VestCommand, OnHitAck, OnFriendlyList, OnFriendlyFire, OnDeath, OnRespawn, OnUnpair
<1>5. CASE VestReboot
  BY <1>5 DEF VestReboot
<1>6. CASE MainStep \/ HitRetry \/ PairTimeout \/ VestDisconnected
  BY <1>1, <1>6 DEF MainStep, IrCommit, IrNotify, IrArm, PairingAdvertise, PairingArm,
                    HitRetry, PairTimeout, VestDisconnected
<1>7. ASSUME NEW s \in Shooters, IrShot(s) PROVE BoundToTheAimed'
  BY <1>1, <1>7 DEF IrShot
<1>8. ASSUME NEW m \in VestCommands, AnyEmitterWrites(m) PROVE BoundToTheAimed'
  BY <1>1, <1>8 DEF AnyEmitterWrites
<1>9. CASE AnyEmitterReads \/ AnyEmitterDrops \/ UNCHANGED vestAll
  BY <1>1, <1>9 DEF AnyEmitterReads, AnyEmitterDrops, vestAll
<1> QED BY <1>2, <1>3, <1>4, <1>5, <1>6, <1>7, <1>8, <1>9 DEF VestNext, VestInternal

\* When the low address bytes tell the emitters apart, a vest is bound to the
\* emitter that was aimed at it, whoever else connects or sends frames.
THEOREM VestBoundToTheAimed ==
  ASSUME \A p, q \in Peers : LsbOf[p] = LsbOf[q] => p = q
  PROVE  VestSpec => []BoundToTheAimed
<1>1. VestAloneInit => BoundToTheAimed
  BY DEF VestAloneInit, VestInit, BoundToTheAimed, Bound
<1>2. VestTypeInv /\ PairingInv /\ BoundToTheAimed /\ [VestNext]_vestAll
        => BoundToTheAimed'
  BY BoundToTheAimedStep
<1> QED BY <1>1, <1>2, VestTypeHolds, PairingInvHolds, PTL DEF VestSpec
=============================================================================
