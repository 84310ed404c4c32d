------------------------------- MODULE MeshNet -------------------------------
(***************************************************************************)
(* Several emitters and the frames they flood, emitter/src/mesh.c: the     *)
(* ring of frames seen, the time to live, the filter by team, the game     *)
(* that a frame starts, and the phone without which an emitter hears       *)
(* nothing (scan_recv of main.c).                                          *)
(*                                                                         *)
(* The pump of module MeshTx is one step here: it takes a frame from the   *)
(* queue and puts it on the air, where any of the other emitters may hear  *)
(* it, and none of them has to.                                            *)
(***************************************************************************)
EXTENDS Naturals, Sequences, Functions

CONSTANTS
  Nodes,        \* the emitters
  IdOf,         \* the player id the phone of each gives it
  JoinTeams,    \* the teams a phone may set
  Rosters,      \* the teams a game configuration may assign, to whom it names
  Repeats,      \* kind of frame |-> how often it is broadcast
  DefaultTtl,   \* MESH_DEFAULT_TTL
  DedupSize,    \* MESH_DEDUP_SIZE
  TxQueueSize,  \* MESH_TX_QUEUE_SIZE
  SeqMod,       \* 2^16, the values of a sequence number
  NoFrame,      \* an empty buffer
  May,          \* what may happen at each: HOST, LOBBY, REJOIN, LEAVE, DROP, REBOOT
  MaxFrames,    \* bound on the frames made (TLC only)
  MaxReboots    \* bound on the power losses of each emitter (TLC only)

\* Player id 0 is what an emitter has before its phone names the player.
ASSUME IdAssumption ==
  /\ IdOf \in [Nodes -> Nat \ {0}]
  /\ \A m, n \in Nodes : IdOf[m] = IdOf[n] => m = n
ASSUME TeamAssumption ==
  /\ JoinTeams \subseteq Nat
  /\ \A roster \in Rosters :
       DOMAIN roster \subseteq Nodes /\ roster \in [DOMAIN roster -> Nat]
ASSUME SizeAssumption ==
  /\ DedupSize \in Nat \ {0} /\ TxQueueSize \in Nat \ {0}
  /\ SeqMod \in Nat \ {0} /\ DefaultTtl \in Nat
ASSUME KindAssumption ==
  /\ Repeats \in [DOMAIN Repeats -> Nat \ {0}]
  /\ {"GAME_START", "PLAYER_STATE"} \subseteq DOMAIN Repeats

VARIABLES
  phone,      \* "advertising", "connected", or "waiting" for adv_work
  ident,      \* local_player_id
  team,       \* local_team_id
  inGame,     \* current_state is EMITTER_GAME_ACTIVE or EMITTER_DEAD
  seq,        \* seq_counter
  dedup,      \* dedup_buf, oldest entry first
  queue,      \* tx_queue, oldest frame first
  repeatBuf,  \* repeat_buf
  repeatLeft, \* repeat_remaining
  relayBuf,   \* relay_buf_pending while relay_work is scheduled
  adopted,    \* history: the game that assigned local_team_id, 0 if the phone did
  games,      \* history: the rosters of the games started
  made,       \* history: how many frames were made
  boots,      \* history: power losses of each emitter
  taken       \* history: the last DedupSize + 1 frames taken since power-on

teams == <<team, adopted>>
identity == <<ident, teams>>
outgoing == <<queue, repeatBuf, repeatLeft, relayBuf>>
incoming == <<dedup, taken>>
netVars == <<phone, identity, inGame, games, seq, outgoing, incoming, made, boots>>

Kinds == DOMAIN Repeats

\* What the frames that carry no configuration say of the teams.
NoRoster == <<>>

\* A frame: its header, the roster in the configuration of a GAME_START and the
\* team in the payload of a PLAYER_STATE; and as history the game it starts or
\* else the one that assigned the team of its maker, which frame it is, whose,
\* and made after how many power losses.
Frames == [kind : Kinds, origin : Nat, seq : 0 .. SeqMod - 1, ttl : 0 .. DefaultTtl,
           roster : Rosters \cup {NoRoster}, team : Nat,
           game : Nat, uid : Nat, by : Nodes, boot : Nat]

ASSUME NoFrameAssumption == NoFrame \notin Frames

\* What the ring keeps of a frame.
Key(f) == <<f.origin, f.seq>>

\* A frame taken: whether it showed the phone a position, and the games that
\* had assigned the team of its maker and the one of its taker.
Entries == [key : Nat \X (0 .. SeqMod - 1), uid : Nat, by : Nodes, boot : Nat,
            stateShown : BOOLEAN, game : Nat, mine : Nat]

NetTypeOK ==
  /\ phone \in [Nodes -> {"advertising", "connected", "waiting"}]
  /\ ident \in [Nodes -> Nat] /\ team \in [Nodes -> Nat]
  /\ adopted \in [Nodes -> Nat]
  /\ games \in Seq(Rosters)
  /\ inGame \in [Nodes -> BOOLEAN]
  /\ seq \in [Nodes -> 0 .. SeqMod - 1]
  /\ dedup \in [Nodes -> Seq(Nat \X (0 .. SeqMod - 1))]
  /\ queue \in [Nodes -> Seq(Frames)]
  /\ repeatBuf \in [Nodes -> Frames \cup {NoFrame}]
  /\ repeatLeft \in [Nodes -> Nat]
  /\ relayBuf \in [Nodes -> Frames \cup {NoFrame}]
  /\ made \in Nat
  /\ boots \in [Nodes -> Nat]
  /\ taken \in [Nodes -> Seq(Entries)]
  /\ \A n \in Nodes : /\ Len(dedup[n]) <= DedupSize
                      /\ Len(taken[n]) <= DedupSize + 1
                      /\ Len(queue[n]) <= TxQueueSize
                      /\ repeatLeft[n] > 0 => repeatBuf[n] # NoFrame

\* main and mesh_init on every emitter.
NetInit ==
  /\ phone = [n \in Nodes |-> "advertising"]
  /\ ident = [n \in Nodes |-> 0]
  /\ team = [n \in Nodes |-> 0]
  /\ adopted = [n \in Nodes |-> 0]
  /\ games = <<>>
  /\ inGame = [n \in Nodes |-> FALSE]
  /\ seq = [n \in Nodes |-> 0]
  /\ dedup = [n \in Nodes |-> <<>>]
  /\ queue = [n \in Nodes |-> <<>>]
  /\ repeatBuf = [n \in Nodes |-> NoFrame]
  /\ repeatLeft = [n \in Nodes |-> 0]
  /\ relayBuf = [n \in Nodes |-> NoFrame]
  /\ made = 0
  /\ boots = [n \in Nodes |-> 0]
  /\ taken = [n \in Nodes |-> <<>>]

-----------------------------------------------------------------------------
(* The phone link.                                                         *)

\* connected.  Advertising ends with the connection.
PhoneConnects(n) ==
  /\ phone[n] = "advertising"
  /\ phone' = [phone EXCEPT ![n] = "connected"]
  /\ UNCHANGED <<identity, inGame, games, seq, outgoing, incoming, made, boots>>

\* disconnected schedules adv_work.
PhoneDisconnects(n) ==
  /\ "DROP" \in May[n]
  /\ phone[n] = "connected"
  /\ phone' = [phone EXCEPT ![n] = "waiting"]
  /\ UNCHANGED <<identity, inGame, games, seq, outgoing, incoming, made, boots>>

\* adv_work_handler, start_advertising.
AdvWork(n) ==
  /\ phone[n] = "waiting"
  /\ phone' = [phone EXCEPT ![n] = "advertising"]
  /\ UNCHANGED <<identity, inGame, games, seq, outgoing, incoming, made, boots>>

\* CMD_SET_PLAYER_INFO, again and in a game too if the phone may join again.
SetPlayerInfo(n) ==
  /\ phone[n] = "connected"
  /\ ident[n] = 0 \/ "REJOIN" \in May[n]
  /\ ident' = [ident EXCEPT ![n] = IdOf[n]]
  /\ \E joinTeam \in JoinTeams : team' = [team EXCEPT ![n] = joinTeam]
  /\ adopted' = [adopted EXCEPT ![n] = 0]
  /\ UNCHANGED <<phone, inGame, games, seq, outgoing, incoming, made, boots>>

\* CMD_GAME_OVER.
GameOver(n) ==
  /\ "LEAVE" \in May[n]
  /\ phone[n] = "connected" /\ inGame[n]
  /\ inGame' = [inGame EXCEPT ![n] = FALSE]
  /\ UNCHANGED <<phone, identity, games, seq, outgoing, incoming, made, boots>>

-----------------------------------------------------------------------------
(* Sending.                                                                *)

\* Mutant: one frame more than the queue has slots.
DoCodedBroadcastOver(n, f) ==
  queue' = IF Len(queue[n]) <= TxQueueSize
           THEN [queue EXCEPT ![n] = Append(@, f)] ELSE queue

\* do_coded_broadcast: a frame that finds the queue full is dropped.
DoCodedBroadcast(n, f) ==
  queue' = IF Len(queue[n]) < TxQueueSize
           THEN [queue EXCEPT ![n] = Append(@, f)] ELSE queue

\* build_mesh_packet.
NewFrame(n, kind, roster) ==
  [kind |-> kind, origin |-> ident[n], seq |-> seq[n], ttl |-> DefaultTtl,
   roster |-> roster, team |-> team[n],
   game |-> IF kind = "GAME_START" THEN Len(games) + 1 ELSE adopted[n],
   uid |-> made + 1, by |-> n, boot |-> boots[n]]

\* broadcast_with_repeat, and the broadcasts that are not repeated.
BroadcastWithRepeat(n, kind, roster) ==
  /\ made < MaxFrames
  /\ made' = made + 1
  /\ seq' = [seq EXCEPT ![n] = (@ + 1) % SeqMod]
  /\ DoCodedBroadcast(n, NewFrame(n, kind, roster))
  /\ IF Repeats[kind] > 1
     THEN /\ repeatBuf' = [repeatBuf EXCEPT ![n] = NewFrame(n, kind, roster)]
          /\ repeatLeft' = [repeatLeft EXCEPT ![n] = Repeats[kind] - 1]
     ELSE UNCHANGED <<repeatBuf, repeatLeft>>

\* A phone commands a lobby or game broadcast, or a handler makes one, once
\* the phone has named the player.
Announce(n, kind) ==
  /\ "LOBBY" \in May[n] /\ kind \notin {"GAME_START", "PLAYER_STATE"}
  /\ ident[n] # 0
  /\ BroadcastWithRepeat(n, kind, NoRoster)
  /\ UNCHANGED <<phone, identity, inGame, games, relayBuf, incoming, boots>>

\* player_state_handler; the dead, whom it leaves out, are not told apart here.
PlayerState(n) ==
  /\ inGame[n]
  /\ BroadcastWithRepeat(n, "PLAYER_STATE", NoRoster)
  /\ UNCHANGED <<phone, identity, inGame, games, relayBuf, incoming, boots>>

\* Whom a roster names: it has the ids of the players, not of their emitters.
Named(starting, roster) ==
  {n \in starting : ident[n] = IdOf[n] /\ n \in DOMAIN roster}

\* Mutant: the team stays what it was when the player joined.
AdoptTeamsNot(starting, roster, game) ==
  /\ team' = team
  /\ adopted' = [n \in Nodes |-> IF n \in Named(starting, roster) THEN game ELSE adopted[n]]

\* start_game_local with a whole configuration: apply_game_config adopts the
\* team that the roster has for the local player, if it has one.
AdoptTeams(starting, roster, game) ==
  /\ team' = [n \in Nodes |-> IF n \in Named(starting, roster) THEN roster[n] ELSE team[n]]
  /\ adopted' = [n \in Nodes |-> IF n \in Named(starting, roster) THEN game ELSE adopted[n]]

\* CMD_BROADCAST_GAME_CFG: a game with a roster of its own, also in the middle
\* of another.
HostStartsGame(n) ==
  /\ "HOST" \in May[n]
  /\ phone[n] = "connected" /\ ident[n] # 0
  /\ \E roster \in Rosters :
       /\ games' = Append(games, roster)
       /\ AdoptTeams({n}, roster, Len(games) + 1)
       /\ BroadcastWithRepeat(n, "GAME_START", roster)
  /\ inGame' = [inGame EXCEPT ![n] = TRUE]
  /\ UNCHANGED <<phone, ident, relayBuf, incoming, boots>>

RepeatWork(n) ==
  /\ repeatLeft[n] > 0
  /\ repeatLeft' = [repeatLeft EXCEPT ![n] = @ - 1]
  /\ DoCodedBroadcast(n, repeatBuf[n])
  /\ UNCHANGED <<phone, identity, inGame, games, seq, repeatBuf, relayBuf, incoming,
                 made, boots>>

RelayWork(n) ==
  /\ relayBuf[n] # NoFrame
  /\ relayBuf' = [relayBuf EXCEPT ![n] = NoFrame]
  /\ DoCodedBroadcast(n, relayBuf[n])
  /\ UNCHANGED <<phone, identity, inGame, games, seq, repeatBuf, repeatLeft, incoming,
                 made, boots>>

-----------------------------------------------------------------------------
(* Receiving.                                                              *)

\* Mutant: the entry is not marked as used.
RememberUnused(ring, key) == ring

\* dedup_check_and_insert, for a frame that is not in the ring.
Remember(ring, key) ==
  IF Len(ring) < DedupSize THEN Append(ring, key) ELSE Append(Tail(ring), key)

\* The history after one more frame.
Record(recent, entry) ==
  IF Len(recent) <= DedupSize THEN Append(recent, entry)
                              ELSE Append(Tail(recent), entry)

\* Mutant: the origin is not looked at.
TakesEcho(n, f) ==
  /\ phone[n] = "connected"
  /\ Key(f) \notin Range(dedup[n])

\* scan_recv ignores the mesh without a phone; mesh_process_received ignores
\* frames of its own and frames it has seen.
Takes(n, f) ==
  /\ phone[n] = "connected"
  /\ f.origin # ident[n]
  /\ Key(f) \notin Range(dedup[n])

\* The privacy filter.
ForTeam(n, f) == f.kind = "PLAYER_STATE" => f.team = team[n]

\* Mutant: the time to live is not counted down.
RelayedForever(f) == f

\* What relay_message makes of a frame.
Relayed(f) == [f EXCEPT !.ttl = @ - 1]

\* mesh_process_received on each of the emitters in takers: it remembers the
\* frame, joins a game, shows the frame to the phone and relays it.
Process(takers, f) ==
  LET joiners  == {n \in takers : f.kind = "GAME_START" /\ ~inGame[n]}
      relayers == {n \in takers : ForTeam(n, f) /\ f.ttl > 0}
      entry(n) == [key |-> Key(f), uid |-> f.uid, by |-> f.by, boot |-> f.boot,
                   stateShown |-> f.kind = "PLAYER_STATE" /\ ForTeam(n, f),
                   game |-> f.game, mine |-> adopted[n]]
  IN  /\ dedup' = [n \in Nodes |-> IF n \in takers THEN Remember(dedup[n], Key(f))
                                   ELSE dedup[n]]
      /\ taken' = [n \in Nodes |-> IF n \in takers THEN Record(taken[n], entry(n))
                                   ELSE taken[n]]
      /\ AdoptTeams(joiners, f.roster, f.game)
      /\ inGame' = [n \in Nodes |-> inGame[n] \/ n \in joiners]
      /\ relayBuf' = [n \in Nodes |-> IF n \in relayers THEN Relayed(f)
                                      ELSE relayBuf[n]]

\* tx_pump_handler puts the next frame on the air, and some hear it.
Transmit(n) ==
  /\ queue[n] # <<>>
  /\ queue' = [queue EXCEPT ![n] = Tail(@)]
  /\ LET f == Head(queue[n]) IN
     \E takers \in SUBSET {m \in Nodes \ {n} : Takes(m, f)} : Process(takers, f)
  /\ UNCHANGED <<phone, ident, games, seq, repeatBuf, repeatLeft, made, boots>>

\* A power loss: everything above is in memory only.
Reboot(n) ==
  /\ "REBOOT" \in May[n] /\ boots[n] < MaxReboots
  /\ boots' = [boots EXCEPT ![n] = @ + 1]
  /\ phone' = [phone EXCEPT ![n] = "advertising"]
  /\ ident' = [ident EXCEPT ![n] = 0]
  /\ team' = [team EXCEPT ![n] = 0]
  /\ adopted' = [adopted EXCEPT ![n] = 0]
  /\ inGame' = [inGame EXCEPT ![n] = FALSE]
  /\ seq' = [seq EXCEPT ![n] = 0]
  /\ dedup' = [dedup EXCEPT ![n] = <<>>]
  /\ queue' = [queue EXCEPT ![n] = <<>>]
  /\ repeatBuf' = [repeatBuf EXCEPT ![n] = NoFrame]
  /\ repeatLeft' = [repeatLeft EXCEPT ![n] = 0]
  /\ relayBuf' = [relayBuf EXCEPT ![n] = NoFrame]
  /\ taken' = [taken EXCEPT ![n] = <<>>]
  /\ UNCHANGED <<games, made>>

-----------------------------------------------------------------------------
NetNext ==
  \E n \in Nodes :
    \/ PhoneConnects(n) \/ PhoneDisconnects(n) \/ AdvWork(n)
    \/ SetPlayerInfo(n) \/ GameOver(n)
    \/ \E kind \in Kinds : Announce(n, kind)
    \/ PlayerState(n) \/ HostStartsGame(n)
    \/ RepeatWork(n) \/ RelayWork(n) \/ Transmit(n)
    \/ Reboot(n)

\* The work queue of each emitter runs what is due, and every frame leaves
\* its transmit queue (EveryFrameLeaves of MeshTx).
NetFairness ==
  \A n \in Nodes :
    WF_netVars(RepeatWork(n)) /\ WF_netVars(RelayWork(n)) /\ WF_netVars(Transmit(n))

NetSpec == NetInit /\ [][NetNext]_netVars /\ NetFairness
-----------------------------------------------------------------------------
(* Properties.                                                             *)

\* mesh.c:497, "Fires once per unique frame": of the frames an emitter takes,
\* one more in a row than its ring holds never repeat an origin and number,
\* whatever repeats, relays and refused frames come between.
OncePerWindow ==
  \A n \in Nodes : \A i, j \in DOMAIN taken[n] :
    taken[n][i].key = taken[n][j].key => i = j

\* mesh.h:31 "(non-origin, post-dedup)": an emitter takes no frame of its own
\* for a peer's, however it comes back, unless it made it before it lost power
\* or before its player was named.
NoOwnEcho ==
  \A n \in Nodes : \A i \in DOMAIN taken[n] :
    LET f == taken[n][i] IN
    f.by = n => f.boot < boots[n] \/ f.key[1] = 0

\* mesh.c:483 "Privacy filter: only relay PLAYER_STATE from same team": between
\* two players whose teams come from the same game, a phone is shown the
\* positions of its own team only, however late each has heard of that game
\* and whatever game each had been in before.  Between players of different
\* games nothing of the kind holds: each judges by the game he is in.
PositionsWithinTeam ==
  \A n \in Nodes : \A i \in DOMAIN taken[n] :
    LET e == taken[n][i] IN
    e.stateShown /\ e.game # 0 /\ e.game = e.mine =>
      games[e.game][e.by] = games[e.game][n]

\* Nothing is queued, repeated or about to be relayed.
Silent ==
  \A n \in Nodes : queue[n] = <<>> /\ repeatLeft[n] = 0 /\ relayBuf[n] = NoFrame

\* A flood dies out, also where the ring is too small for the frames that
\* circulate and they are taken again and again.
FloodsDie == <>[]Silent

\* IOS_SYNC.md:171: "Emitter is the sole mesh-frame originator per player
\* (single monotonic seq counter) to avoid dedup collisions": what an emitter
\* refuses as seen, of a named player, it has seen.
NoDedupCollision ==
  \A m, n \in Nodes : queue[m] # <<>> =>
    LET f == Head(queue[m]) IN
      f.origin # 0 /\ Key(f) \in Range(dedup[n]) =>
        \E i \in DOMAIN taken[n] : taken[n][i].uid = f.uid
=============================================================================
