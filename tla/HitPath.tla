------------------------------- MODULE HitPath -------------------------------
(***************************************************************************)
(* One emitter and the vest it is paired with: the path of a hit from the  *)
(* infrared receiver to the player's health and of the acknowledgement,    *)
(* the death and the next game back to the vest.                           *)
(*                                                                         *)
(* The run of the two programs is taken up after the pairing: the vest is  *)
(* bound to the emitter, the link is ready and no game has begun.          *)
(***************************************************************************)
EXTENDS Emitter, Vest

CONSTANT Me      \* the emitter's address

ASSUME MeAssumption == Me \in Peers

VARIABLES
  delivered,    \* history: hits that reached the emitter in a game
  acked,        \* history: hits settled by an acknowledgement
  lastApplied,  \* history: the latest hit applied to the player's health
  applications, \* history: how many hits were applied
  unpaired,     \* history: the phone has asked to unpair the vest
  strayed       \* history: something the vest was or should be told was lost

history == <<delivered, acked, lastApplied, applications, unpaired, strayed>>
hpVars == <<gsVars, linkVars, emVars, vestVars, history>>

HistoryInit ==
  delivered = {} /\ acked = {} /\ lastApplied = 0 /\ applications = 0
  /\ unpaired = FALSE /\ strayed = FALSE

\* The emitter and the vest after a pairing, in the middle of nothing.
PairedInit ==
  /\ GsInit
  /\ estate = "PAIRING" /\ dying = FALSE /\ friendly = {} /\ hitDedup = <<>>
  /\ savedConfig = ZeroConfig
  /\ pressed = FALSE /\ triggerReady = TRUE /\ pullShots = 0 /\ work = {}
  /\ vconn = "ready"
  /\ vstate = "PAIRED_IDLE" /\ boundTo = Me /\ pairPending = FALSE
  /\ expected = LsbOf[Me] /\ aimed = Me
  /\ adv = FALSE /\ refused = FALSE /\ peer = Me /\ econn = TRUE /\ vclosing = FALSE
  /\ friends = {} /\ ffOn = FALSE
  /\ hitPending = FALSE /\ hitBuf = None /\ retries = 0 /\ registered = <<>>
  /\ vwork = {} /\ mainPc = "idle" /\ mainShooter = None
  /\ link = "ready" /\ toVest = <<>> /\ toEmitter = <<>>

HpInit == PairedInit /\ HistoryInit

-----------------------------------------------------------------------------
\* The vest hears of no game but its first (NextGameHeard): the emitter has
\* left that game, or has told the vest of another one in the middle of it.
AnotherGame ==
  InGame /\ \/ ~InGame'
            \/ \E i \in Len(toVest) + 1 .. Len(toVest') : toVest'[i].cmd = "FRIENDLY_LIST"

\* The link is not ready, or has no buffer left for another command.
Cut == link' # "ready" \/ Len(toVest') = LinkCap

Strays == strayed' = (strayed \/ AnotherGame \/ Cut)

\* A step of the emitter that takes no hit from the vest.
EmitterStep ==
  /\ EmInternal
  /\ Strays
  /\ unpaired' = (unpaired \/ (link' = "closing" /\ link # "closing"))
  /\ UNCHANGED <<vestVars, delivered, acked, lastApplied, applications>>

\* The emitter takes a hit; what it does with it is seen in dying and health.
EmitterReceives ==
  /\ RecvHit
  /\ Strays
  /\ LET h       == Head(toEmitter)
         applied == alive /\ (health' # health \/ dying')
     IN  /\ delivered' = IF InGame THEN delivered \cup {h.serial} ELSE delivered
         /\ lastApplied' = IF applied THEN h.serial ELSE lastApplied
         /\ applications' = IF applied THEN applications + 1 ELSE applications
  /\ UNCHANGED <<vestVars, acked, unpaired>>

\* A step of the vest that reads no command.
VestStep ==
  /\ VestInternal
  /\ UNCHANGED <<gsVars, emVars, history>>

VestReceives ==
  /\ VestCommand
  /\ acked' = IF Head(toVest).cmd = "HIT_ACK" /\ hitPending /\ ~hitPending'
              THEN acked \cup {hitBuf.serial} ELSE acked
  /\ UNCHANGED <<gsVars, emVars, delivered, lastApplied, applications, unpaired, strayed>>

\* The emitter finds the advertising vest by its name and connects.  That
\* takes advertising intervals and then a discovery: on_ir_rx, which was at
\* most preempted by the disconnected callback, has ended.
Reconnect ==
  /\ link = "down"
  /\ mainPc = "idle"
  /\ link' = "up"
  /\ EmConnected
  /\ VestConnects(Me)
  /\ UNCHANGED <<toVest, toEmitter, history>>

\* The radio link is lost, or closes because one side asked for it.
LinkEnds ==
  /\ "DROP" \in Inputs \/ link = "closing" \/ vclosing
  /\ LinkDrop
  /\ strayed' = TRUE
  /\ UNCHANGED <<gsVars, emVars, vestVars, delivered, acked, lastApplied,
                 applications, unpaired>>

HpNext ==
  \/ EmitterStep \/ EmitterReceives
  \/ VestStep \/ VestReceives
  \/ Reconnect \/ LinkEnds

HpSpec == HpInit /\ [][HpNext]_hpVars
-----------------------------------------------------------------------------
(* Properties.                                                             *)

\* The protocol keeps its promise through retries, lost and repeated
\* notifications, link losses, reboots of the emitter and new games.
Delivery == INSTANCE HitDelivery
  WITH sent <- Len(registered), last <- lastApplied, counted <- applications

CountedAtMostOnce == Delivery!Spec

\* A hit the vest considers acknowledged did reach the emitter in a game; an
\* acknowledgement of an earlier hit, or of a retry of it, settles nothing.
AckMeansDelivered == acked \subseteq delivered

\* Both sides are at rest: every command was read, nothing is being handled.
Settled == link = "ready" /\ toVest = <<>> /\ ~dying

\* With no link loss and no full buffer the vest follows the emitter through
\* the deaths and respawns of its first game.
VestFollows ==
  Settled /\ ~strayed =>
    /\ estate = "DEAD" => vstate = "DEAD"
    /\ estate = "GAME_ACTIVE" => vstate = "GAME_ACTIVE"

\* reciever main.c:292, on every friendly list: "state -> GAME_ACTIVE"; so the
\* vest is not dead in the next game when it has heard of that game.
NextGameHeard == Settled /\ estate = "GAME_ACTIVE" => vstate # "DEAD"

\* emitter main.c:725: the vest is told to clear its binding "first so it
\* doesn't auto-reconnect after we drop the link".
UnpairHolds == unpaired /\ peer = None /\ vconn = "none" => ~Bound
=============================================================================
