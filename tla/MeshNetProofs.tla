---------------------------- MODULE MeshNetProofs ----------------------------
(* Proofs about MeshNet, for any number of emitters, frames, power losses, *)
(* ring and queue sizes and times to live.                                 *)
EXTENDS MeshNet, SequenceTheorems, TLAPS

-----------------------------------------------------------------------------
(* Types.                                                                  *)

LEMMA KeyTyped == ASSUME NEW f \in Frames PROVE Key(f) \in Nat \X (0 .. SeqMod - 1)
BY DEF Frames, Key

LEMMA NewFrameTyped ==
  ASSUME NetTypeOK, NEW n \in Nodes, NEW kind \in Kinds,
         NEW roster \in Rosters \cup {NoRoster}
  PROVE  NewFrame(n, kind, roster) \in Frames
<1>1. /\ ident[n] \in Nat /\ team[n] \in Nat /\ seq[n] \in 0 .. SeqMod - 1
      /\ boots[n] \in Nat /\ made + 1 \in Nat
      /\ adopted[n] \in Nat /\ Len(games) + 1 \in Nat
  BY DEF NetTypeOK
<1>2. DefaultTtl \in 0 .. DefaultTtl
  BY SizeAssumption
<1> QED BY <1>1, <1>2 DEF NewFrame, Frames

\* A broadcast adds its frame at the end of one queue, or nothing.
LEMMA BroadcastTyped ==
  ASSUME NetTypeOK, NEW n \in Nodes, NEW f \in Frames, DoCodedBroadcast(n, f)
  PROVE  /\ queue' \in [Nodes -> Seq(Frames)]
         /\ \A m \in Nodes : Len(queue'[m]) <= TxQueueSize
         /\ \A m \in Nodes : \A i \in DOMAIN queue'[m] :
              queue'[m][i] = f \/ \E j \in DOMAIN queue[m] : queue'[m][i] = queue[m][j]
<1>1. queue \in [Nodes -> Seq(Frames)] /\ \A m \in Nodes : Len(queue[m]) <= TxQueueSize
  BY DEF NetTypeOK
<1>2. CASE Len(queue[n]) < TxQueueSize
  <2>1. queue' = [queue EXCEPT ![n] = Append(queue[n], f)]
    BY <1>2 DEF DoCodedBroadcast
  <2>2. /\ Append(queue[n], f) \in Seq(Frames)
        /\ Len(Append(queue[n], f)) = Len(queue[n]) + 1
        /\ \A i \in DOMAIN Append(queue[n], f) :
             Append(queue[n], f)[i] = f
               \/ (i \in DOMAIN queue[n] /\ Append(queue[n], f)[i] = queue[n][i])
    BY <1>1
  <2>3. Len(queue[n]) + 1 <= TxQueueSize
    BY <1>1, <1>2, SizeAssumption
  <2> QED BY <1>1, <2>1, <2>2, <2>3
<1>3. CASE ~(Len(queue[n]) < TxQueueSize)
  <2>1. queue' = queue
    BY <1>3 DEF DoCodedBroadcast
  <2> QED BY <1>1, <2>1
<1> QED BY <1>2, <1>3

\* A new broadcast, its repeats and its sequence number.
LEMMA BroadcastWithRepeatTyped ==
  ASSUME NetTypeOK, NEW n \in Nodes, NEW kind \in Kinds,
         NEW roster \in Rosters \cup {NoRoster}, BroadcastWithRepeat(n, kind, roster)
  PROVE  /\ made' \in Nat /\ seq' \in [Nodes -> 0 .. SeqMod - 1]
         /\ queue' \in [Nodes -> Seq(Frames)]
         /\ \A m \in Nodes : Len(queue'[m]) <= TxQueueSize
         /\ repeatBuf' \in [Nodes -> Frames \cup {NoFrame}]
         /\ repeatLeft' \in [Nodes -> Nat]
         /\ \A m \in Nodes : repeatLeft'[m] > 0 => repeatBuf'[m] # NoFrame
<1> DEFINE f == NewFrame(n, kind, roster)
<1>1. f \in Frames
  BY NewFrameTyped
<1>2. /\ queue' \in [Nodes -> Seq(Frames)]
      /\ \A m \in Nodes : Len(queue'[m]) <= TxQueueSize
  BY <1>1, BroadcastTyped DEF BroadcastWithRepeat
<1>3. made' \in Nat
  BY DEF BroadcastWithRepeat, NetTypeOK
<1>4. seq' \in [Nodes -> 0 .. SeqMod - 1]
  <2>1. seq[n] + 1 \in Nat /\ SeqMod \in Nat \ {0}
    BY SizeAssumption DEF NetTypeOK
  <2>2. (seq[n] + 1) % SeqMod \in 0 .. SeqMod - 1
    BY ONLY <2>1
  <2> QED BY <2>2 DEF BroadcastWithRepeat, NetTypeOK
<1>5. /\ repeatBuf' \in [Nodes -> Frames \cup {NoFrame}]
      /\ repeatLeft' \in [Nodes -> Nat]
      /\ \A m \in Nodes : repeatLeft'[m] > 0 => repeatBuf'[m] # NoFrame
  <2>1. /\ repeatBuf \in [Nodes -> Frames \cup {NoFrame}]
        /\ repeatLeft \in [Nodes -> Nat]
        /\ \A m \in Nodes : repeatLeft[m] > 0 => repeatBuf[m] # NoFrame
    BY DEF NetTypeOK
  <2>2. CASE Repeats[kind] > 1
    <3>1. /\ repeatBuf' = [repeatBuf EXCEPT ![n] = f]
          /\ repeatLeft' = [repeatLeft EXCEPT ![n] = Repeats[kind] - 1]
      BY <2>2 DEF BroadcastWithRepeat
    <3>2. Repeats[kind] - 1 \in Nat
      BY KindAssumption DEF Kinds
    <3>3. f # NoFrame
      BY <1>1, NoFrameAssumption
    <3> QED BY <1>1, <2>1, <3>1, <3>2, <3>3
  <2>3. CASE ~(Repeats[kind] > 1)
    BY <2>1, <2>3 DEF BroadcastWithRepeat
  <2> QED BY <2>2, <2>3
<1> QED BY <1>2, <1>3, <1>4, <1>5

\* The ring and its history after one more frame.
LEMMA RememberTyped ==
  ASSUME NEW S, NEW ring \in Seq(S), NEW key \in S, Len(ring) <= DedupSize
  PROVE  Remember(ring, key) \in Seq(S) /\ Len(Remember(ring, key)) <= DedupSize
<1>1. CASE Len(ring) < DedupSize
  <2>1. Append(ring, key) \in Seq(S) /\ Len(Append(ring, key)) = Len(ring) + 1
    OBVIOUS
  <2> QED BY <1>1, <2>1, SizeAssumption DEF Remember
<1>2. CASE ~(Len(ring) < DedupSize)
  <2>1. Len(ring) = DedupSize /\ DedupSize \in Nat \ {0}
    BY <1>2, SizeAssumption
  <2>2. Tail(ring) \in Seq(S) /\ Len(Tail(ring)) = Len(ring) - 1
    BY <2>1
  <2>3. /\ Append(Tail(ring), key) \in Seq(S)
        /\ Len(Append(Tail(ring), key)) = Len(ring)
    BY <2>1, <2>2
  <2> QED BY <1>2, <2>1, <2>3 DEF Remember
<1> QED BY <1>1, <1>2

LEMMA RecordTyped ==
  ASSUME NEW S, NEW recent \in Seq(S), NEW e \in S, Len(recent) <= DedupSize + 1
  PROVE  Record(recent, e) \in Seq(S) /\ Len(Record(recent, e)) <= DedupSize + 1
<1>1. CASE Len(recent) <= DedupSize
  <2>1. Append(recent, e) \in Seq(S) /\ Len(Append(recent, e)) = Len(recent) + 1
    OBVIOUS
  <2> QED BY <1>1, <2>1, SizeAssumption DEF Record
<1>2. CASE ~(Len(recent) <= DedupSize)
  <2>1. Len(recent) = DedupSize + 1 /\ DedupSize \in Nat
    BY <1>2, SizeAssumption
  <2>2. Tail(recent) \in Seq(S) /\ Len(Tail(recent)) = Len(recent) - 1
    BY <2>1
  <2>3. /\ Append(Tail(recent), e) \in Seq(S)
        /\ Len(Append(Tail(recent), e)) = Len(recent)
    BY <2>1, <2>2
  <2> QED BY <1>2, <2>1, <2>3 DEF Record
<1> QED BY <1>1, <1>2

LEMMA NetTypeInit == NetInit => NetTypeOK
<1> SUFFICES ASSUME NetInit PROVE NetTypeOK
  OBVIOUS
<1>1. /\ <<>> \in Seq(Frames) /\ <<>> \in Seq(Entries) /\ Len(<<>>) = 0
      /\ <<>> \in Seq(Nat \X (0 .. SeqMod - 1))
  OBVIOUS
<1>2. /\ dedup \in [Nodes -> Seq(Nat \X (0 .. SeqMod - 1))]
      /\ queue \in [Nodes -> Seq(Frames)]
      /\ taken \in [Nodes -> Seq(Entries)]
      /\ \A n \in Nodes : dedup[n] = <<>> /\ queue[n] = <<>> /\ taken[n] = <<>>
                          /\ repeatLeft[n] = 0
  BY <1>1 DEF NetInit
<1>3. \A n \in Nodes : /\ Len(dedup[n]) <= DedupSize /\ Len(taken[n]) <= DedupSize + 1
                       /\ Len(queue[n]) <= TxQueueSize
                       /\ repeatLeft[n] > 0 => repeatBuf[n] # NoFrame
  BY <1>1, <1>2, SizeAssumption
<1>4. seq \in [Nodes -> 0 .. SeqMod - 1]
  BY SizeAssumption DEF NetInit
<1> QED BY <1>2, <1>3, <1>4 DEF NetInit, NetTypeOK

\* Whatever roster is adopted, by whomever.
LEMMA AdoptTeamsTyped ==
  ASSUME NetTypeOK, NEW starting \in SUBSET Nodes, NEW roster \in Rosters \cup {NoRoster},
         NEW game \in Nat, AdoptTeams(starting, roster, game)
  PROVE  team' \in [Nodes -> Nat] /\ adopted' \in [Nodes -> Nat]
<1>1. \A n \in Named(starting, roster) : roster[n] \in Nat
  <2>1. CASE roster \in Rosters
    BY <2>1, TeamAssumption DEF Named
  <2>2. CASE roster = NoRoster
    BY <2>2 DEF Named, NoRoster
  <2> QED BY <2>1, <2>2
<1> QED BY <1>1 DEF AdoptTeams, NetTypeOK

LEMMA ProcessTyped ==
  ASSUME NetTypeOK, NEW f \in Frames, NEW takers \in SUBSET Nodes, Process(takers, f)
  PROVE  /\ dedup' \in [Nodes -> Seq(Nat \X (0 .. SeqMod - 1))]
         /\ taken' \in [Nodes -> Seq(Entries)]
         /\ \A m \in Nodes : Len(dedup'[m]) <= DedupSize /\ Len(taken'[m]) <= DedupSize + 1
         /\ team' \in [Nodes -> Nat] /\ adopted' \in [Nodes -> Nat]
         /\ inGame' \in [Nodes -> BOOLEAN]
         /\ relayBuf' \in [Nodes -> Frames \cup {NoFrame}]
<1> DEFINE entry(n) ==
      [key |-> Key(f), uid |-> f.uid, by |-> f.by, boot |-> f.boot,
       stateShown |-> f.kind = "PLAYER_STATE" /\ ForTeam(n, f),
       game |-> f.game, mine |-> adopted[n]]
<1>1. ASSUME NEW n \in Nodes PROVE entry(n) \in Entries
  BY KeyTyped DEF Entries, Frames, NetTypeOK
<1>2. ASSUME NEW n \in Nodes
      PROVE  /\ Remember(dedup[n], Key(f)) \in Seq(Nat \X (0 .. SeqMod - 1))
             /\ Len(Remember(dedup[n], Key(f))) <= DedupSize
             /\ Record(taken[n], entry(n)) \in Seq(Entries)
             /\ Len(Record(taken[n], entry(n))) <= DedupSize + 1
  <2>1. /\ dedup[n] \in Seq(Nat \X (0 .. SeqMod - 1)) /\ Len(dedup[n]) <= DedupSize
        /\ taken[n] \in Seq(Entries) /\ Len(taken[n]) <= DedupSize + 1
    BY DEF NetTypeOK
  <2>2. Key(f) \in Nat \X (0 .. SeqMod - 1) /\ entry(n) \in Entries
    BY <1>1, KeyTyped
  <2> HIDE DEF entry
  <2>3. /\ Remember(dedup[n], Key(f)) \in Seq(Nat \X (0 .. SeqMod - 1))
        /\ Len(Remember(dedup[n], Key(f))) <= DedupSize
    BY ONLY <2>1, <2>2, RememberTyped
  <2>4. /\ Record(taken[n], entry(n)) \in Seq(Entries)
        /\ Len(Record(taken[n], entry(n))) <= DedupSize + 1
    BY ONLY <2>1, <2>2, RecordTyped
  <2> QED BY <2>3, <2>4
<1>3. /\ dedup' = [n \in Nodes |-> IF n \in takers THEN Remember(dedup[n], Key(f))
                                                  ELSE dedup[n]]
      /\ taken' = [n \in Nodes |-> IF n \in takers THEN Record(taken[n], entry(n))
                                                  ELSE taken[n]]
  BY DEF Process
<1>4. /\ team' \in [Nodes -> Nat] /\ adopted' \in [Nodes -> Nat]
      /\ inGame' \in [Nodes -> BOOLEAN]
  <2> DEFINE joiners == {n \in takers : f.kind = "GAME_START" /\ ~inGame[n]}
  <2>1. /\ f.roster \in Rosters \cup {NoRoster} /\ f.game \in Nat
        /\ joiners \subseteq Nodes /\ AdoptTeams(joiners, f.roster, f.game)
    BY DEF Frames, Process
  <2> HIDE DEF joiners
  <2>2. team' \in [Nodes -> Nat] /\ adopted' \in [Nodes -> Nat]
    BY <2>1, AdoptTeamsTyped
  <2> QED BY <2>2 DEF Process, NetTypeOK
<1>5. relayBuf' \in [Nodes -> Frames \cup {NoFrame}]
  <2>1. f.ttl > 0 => Relayed(f) \in Frames
    BY SizeAssumption DEF Relayed, Frames
  <2> QED BY <2>1 DEF Process, NetTypeOK
<1>6. /\ dedup \in [Nodes -> Seq(Nat \X (0 .. SeqMod - 1))]
      /\ taken \in [Nodes -> Seq(Entries)]
      /\ \A m \in Nodes : Len(dedup[m]) <= DedupSize /\ Len(taken[m]) <= DedupSize + 1
  BY DEF NetTypeOK
<1> HIDE DEF entry
<1>7. /\ dedup' \in [Nodes -> Seq(Nat \X (0 .. SeqMod - 1))]
      /\ taken' \in [Nodes -> Seq(Entries)]
      /\ \A m \in Nodes : Len(dedup'[m]) <= DedupSize /\ Len(taken'[m]) <= DedupSize + 1
  BY ONLY <1>2, <1>3, <1>6
<1> QED BY <1>4, <1>5, <1>7

\* What leaves the queue was its oldest frame.
LEMMA HeadTyped ==
  ASSUME NetTypeOK, NEW n \in Nodes, queue[n] # <<>>
  PROVE  /\ Head(queue[n]) \in Frames /\ Head(queue[n]) = queue[n][1]
         /\ 1 \in DOMAIN queue[n]
         /\ Tail(queue[n]) \in Seq(Frames) /\ Len(Tail(queue[n])) <= TxQueueSize
         /\ \A i \in DOMAIN Tail(queue[n]) :
              i + 1 \in DOMAIN queue[n] /\ Tail(queue[n])[i] = queue[n][i + 1]
<1>1. queue[n] \in Seq(Frames) /\ Len(queue[n]) <= TxQueueSize
  BY DEF NetTypeOK
<1>2. Len(queue[n]) \in Nat \ {0}
  BY <1>1, EmptySeq
<1>3. Tail(queue[n]) \in Seq(Frames) /\ Len(Tail(queue[n])) = Len(queue[n]) - 1
  BY <1>1, <1>2
<1> QED BY <1>1, <1>2, <1>3, SizeAssumption

\* Emptying one of the queues.
LEMMA ResetTyped ==
  ASSUME NEW S, NEW q \in [Nodes -> Seq(S)], NEW n \in Nodes, NEW B \in Nat,
         \A m \in Nodes : Len(q[m]) <= B
  PROVE  /\ [q EXCEPT ![n] = <<>>] \in [Nodes -> Seq(S)]
         /\ \A m \in Nodes : Len([q EXCEPT ![n] = <<>>][m]) <= B
<1>1. <<>> \in Seq(S) /\ Len(<<>>) = 0
  OBVIOUS
<1> QED BY <1>1

LEMMA NetTypeStep == NetTypeOK /\ [NetNext]_netVars => NetTypeOK'
<1> SUFFICES ASSUME NetTypeOK, [NetNext]_netVars PROVE NetTypeOK'
  OBVIOUS
<1> USE DEF identity, teams, outgoing, incoming
<1>1. CASE UNCHANGED netVars
  BY <1>1 DEF netVars, NetTypeOK
<1> SUFFICES ASSUME NEW n \in Nodes,
                    \/ PhoneConnects(n) \/ PhoneDisconnects(n) \/ AdvWork(n)
                    \/ SetPlayerInfo(n) \/ GameOver(n)
                    \/ \E kind \in Kinds : Announce(n, kind)
                    \/ PlayerState(n) \/ HostStartsGame(n)
                    \/ RepeatWork(n) \/ RelayWork(n) \/ Transmit(n)
                    \/ Reboot(n)
             PROVE  NetTypeOK'
  BY <1>1 DEF NetNext
<1>2. CASE PhoneConnects(n) \/ PhoneDisconnects(n) \/ AdvWork(n)
  BY <1>2 DEF PhoneConnects, PhoneDisconnects, AdvWork, NetTypeOK
<1>3. CASE SetPlayerInfo(n)
  <2>1. IdOf[n] \in Nat /\ JoinTeams \subseteq Nat
    BY IdAssumption, TeamAssumption
  <2>2. /\ ident' \in [Nodes -> Nat] /\ team' \in [Nodes -> Nat]
        /\ adopted' \in [Nodes -> Nat]
    BY <1>3, <2>1 DEF SetPlayerInfo, NetTypeOK
  <2> QED BY <1>3, <2>2 DEF SetPlayerInfo, NetTypeOK
<1>4. CASE GameOver(n)
  BY <1>4 DEF GameOver, NetTypeOK
<1>5. ASSUME NEW kind \in Kinds, Announce(n, kind) PROVE NetTypeOK'
  <2>1. BroadcastWithRepeat(n, kind, NoRoster)
    BY <1>5 DEF Announce
  <2> QED BY <1>5, <2>1, BroadcastWithRepeatTyped DEF Announce, NetTypeOK
<1>6. CASE PlayerState(n)
  <2>1. "PLAYER_STATE" \in Kinds /\ BroadcastWithRepeat(n, "PLAYER_STATE", NoRoster)
    BY <1>6, KindAssumption DEF PlayerState, Kinds
  <2> QED BY <1>6, <2>1, BroadcastWithRepeatTyped DEF PlayerState, NetTypeOK
<1>7. CASE HostStartsGame(n)
  <2>1. PICK roster \in Rosters : /\ games' = Append(games, roster)
                                  /\ AdoptTeams({n}, roster, Len(games) + 1)
                                  /\ BroadcastWithRepeat(n, "GAME_START", roster)
    BY <1>7 DEF HostStartsGame
  <2>2. games \in Seq(Rosters) /\ games' \in Seq(Rosters) /\ Len(games) + 1 \in Nat
    BY <2>1 DEF NetTypeOK
  <2>3. team' \in [Nodes -> Nat] /\ adopted' \in [Nodes -> Nat]
    BY <2>1, <2>2, AdoptTeamsTyped
  <2>4. "GAME_START" \in Kinds
    BY KindAssumption DEF Kinds
  <2>5. inGame' \in [Nodes -> BOOLEAN]
    BY <1>7 DEF HostStartsGame, NetTypeOK
  <2> QED BY <1>7, <2>1, <2>2, <2>3, <2>4, <2>5, BroadcastWithRepeatTyped
          DEF HostStartsGame, NetTypeOK
<1>8. CASE RepeatWork(n)
  <2>1. repeatBuf[n] \in Frames
    BY <1>8 DEF RepeatWork, NetTypeOK
  <2>2. /\ queue' \in [Nodes -> Seq(Frames)]
        /\ \A m \in Nodes : Len(queue'[m]) <= TxQueueSize
    BY <1>8, <2>1, BroadcastTyped DEF RepeatWork
  <2>3. /\ repeatLeft' \in [Nodes -> Nat]
        /\ \A m \in Nodes : repeatLeft'[m] > 0 => repeatBuf'[m] # NoFrame
    BY <1>8 DEF RepeatWork, NetTypeOK
  <2> QED BY <1>8, <2>2, <2>3 DEF RepeatWork, NetTypeOK
<1>9. CASE RelayWork(n)
  <2>1. relayBuf[n] \in Frames
    BY <1>9 DEF RelayWork, NetTypeOK
  <2>2. /\ queue' \in [Nodes -> Seq(Frames)]
        /\ \A m \in Nodes : Len(queue'[m]) <= TxQueueSize
    BY <1>9, <2>1, BroadcastTyped DEF RelayWork
  <2>3. relayBuf' \in [Nodes -> Frames \cup {NoFrame}]
    BY <1>9 DEF RelayWork, NetTypeOK
  <2> QED BY <1>9, <2>2, <2>3 DEF RelayWork, NetTypeOK
<1>10. CASE Transmit(n)
  <2> DEFINE f == Head(queue[n])
  <2>1. PICK takers \in SUBSET Nodes : Process(takers, f)
    BY <1>10 DEF Transmit
  <2>2. /\ f \in Frames /\ Tail(queue[n]) \in Seq(Frames)
        /\ Len(Tail(queue[n])) <= TxQueueSize
    BY <1>10, HeadTyped DEF Transmit
  <2> HIDE DEF f
  <2>3. /\ queue' \in [Nodes -> Seq(Frames)]
        /\ \A m \in Nodes : Len(queue'[m]) <= TxQueueSize
    BY <1>10, <2>2 DEF Transmit, NetTypeOK
  <2>4. /\ dedup' \in [Nodes -> Seq(Nat \X (0 .. SeqMod - 1))]
        /\ taken' \in [Nodes -> Seq(Entries)]
        /\ \A m \in Nodes : Len(dedup'[m]) <= DedupSize /\ Len(taken'[m]) <= DedupSize + 1
        /\ team' \in [Nodes -> Nat] /\ adopted' \in [Nodes -> Nat]
        /\ inGame' \in [Nodes -> BOOLEAN]
        /\ relayBuf' \in [Nodes -> Frames \cup {NoFrame}]
    BY <2>1, <2>2, ProcessTyped
  <2> QED BY <1>10, <2>3, <2>4 DEF Transmit, NetTypeOK
<1>11. CASE Reboot(n)
  <2>2. /\ dedup' \in [Nodes -> Seq(Nat \X (0 .. SeqMod - 1))]
        /\ \A m \in Nodes : Len(dedup'[m]) <= DedupSize
    <3>1. dedup' = [dedup EXCEPT ![n] = <<>>]
      BY <1>11 DEF Reboot
    <3>2. /\ dedup \in [Nodes -> Seq(Nat \X (0 .. SeqMod - 1))] /\ DedupSize \in Nat
          /\ \A m \in Nodes : Len(dedup[m]) <= DedupSize
      BY SizeAssumption DEF NetTypeOK
    <3> QED BY ONLY n \in Nodes, <3>1, <3>2, ResetTyped
  <2>3. /\ queue' \in [Nodes -> Seq(Frames)]
        /\ \A m \in Nodes : Len(queue'[m]) <= TxQueueSize
    <3>1. queue' = [queue EXCEPT ![n] = <<>>]
      BY <1>11 DEF Reboot
    <3>2. /\ queue \in [Nodes -> Seq(Frames)] /\ TxQueueSize \in Nat
          /\ \A m \in Nodes : Len(queue[m]) <= TxQueueSize
      BY SizeAssumption DEF NetTypeOK
    <3> QED BY ONLY n \in Nodes, <3>1, <3>2, ResetTyped
  <2>4. /\ taken' \in [Nodes -> Seq(Entries)]
        /\ \A m \in Nodes : Len(taken'[m]) <= DedupSize + 1
    <3>1. taken' = [taken EXCEPT ![n] = <<>>]
      BY <1>11 DEF Reboot
    <3>2. /\ taken \in [Nodes -> Seq(Entries)] /\ DedupSize + 1 \in Nat
          /\ \A m \in Nodes : Len(taken[m]) <= DedupSize + 1
      BY SizeAssumption DEF NetTypeOK
    <3> QED BY ONLY n \in Nodes, <3>1, <3>2, ResetTyped
  <2>5. /\ repeatBuf' \in [Nodes -> Frames \cup {NoFrame}]
        /\ repeatLeft' \in [Nodes -> Nat]
        /\ \A m \in Nodes : repeatLeft'[m] > 0 => repeatBuf'[m] # NoFrame
        /\ relayBuf' \in [Nodes -> Frames \cup {NoFrame}]
    BY <1>11 DEF Reboot, NetTypeOK
  <2>6. /\ seq' \in [Nodes -> 0 .. SeqMod - 1] /\ boots' \in [Nodes -> Nat]
        /\ made' \in Nat
    BY <1>11, SizeAssumption DEF Reboot, NetTypeOK
  <2>7. /\ phone' \in [Nodes -> {"advertising", "connected", "waiting"}]
        /\ ident' \in [Nodes -> Nat] /\ team' \in [Nodes -> Nat]
        /\ inGame' \in [Nodes -> BOOLEAN] /\ adopted' \in [Nodes -> Nat]
        /\ games' \in Seq(Rosters)
    BY <1>11 DEF Reboot, NetTypeOK
  <2> QED BY <2>2, <2>3, <2>4, <2>5, <2>6, <2>7 DEF NetTypeOK
<1> QED BY <1>2, <1>3, <1>4, <1>5, <1>6, <1>7, <1>8, <1>9, <1>10, <1>11

LEMMA NetTypeHolds == NetSpec => []NetTypeOK
BY NetTypeInit, NetTypeStep, PTL DEF NetSpec

\* The state of every emitter keeps its types, its queue and its ring their
\* sizes, and a repeat always has a frame to repeat.
THEOREM NetTypeCorrect == NetSpec => []NetTypeOK
BY NetTypeHolds

-----------------------------------------------------------------------------
(* The ring.                                                               *)

\* The ring holds the keys of the last frames taken, and of the frames in the
\* history no two have the same key.
RingMatches(ring, recent) ==
  /\ Len(ring) = IF Len(recent) <= DedupSize THEN Len(recent) ELSE DedupSize
  /\ \A i \in DOMAIN ring : ring[i] = recent[Len(recent) - Len(ring) + i].key
  /\ \A i, j \in DOMAIN recent : recent[i].key = recent[j].key => i = j

RingInv == \A n \in Nodes : RingMatches(dedup[n], taken[n])

\* Also after one more frame that is not in the ring.
LEMMA RingStep ==
  ASSUME NEW ring \in Seq(Nat \X (0 .. SeqMod - 1)), NEW recent \in Seq(Entries),
         NEW e \in Entries,
         Len(ring) <= DedupSize, Len(recent) <= DedupSize + 1,
         RingMatches(ring, recent), e.key \notin Range(ring)
  PROVE  RingMatches(Remember(ring, e.key), Record(recent, e))
<1>1. DedupSize \in Nat \ {0} /\ Len(ring) \in Nat /\ Len(recent) \in Nat
  BY SizeAssumption
<1>2. \A i \in 1 .. Len(ring) : ring[i] # e.key
  BY DEF Range
<1>3. CASE Len(recent) < DedupSize
  <2>1. Len(ring) = Len(recent)
    BY <1>1, <1>3 DEF RingMatches
  <2>2. Remember(ring, e.key) = Append(ring, e.key) /\ Record(recent, e) = Append(recent, e)
    BY <1>1, <1>3, <2>1 DEF Remember, Record
  <2>3. ASSUME NEW i \in 1 .. Len(recent) PROVE ring[i] = recent[i].key
    <3>1. i \in DOMAIN ring /\ Len(recent) - Len(ring) + i = i
      BY <1>1, <2>1
    <3> QED BY <3>1 DEF RingMatches
  <2>4. \A i, j \in 1 .. Len(recent) : recent[i].key = recent[j].key => i = j
    BY DEF RingMatches
  <2> DEFINE r == Append(ring, e.key)
             t == Append(recent, e)
  <2>5. /\ Len(r) = Len(recent) + 1 /\ Len(t) = Len(recent) + 1
        /\ DOMAIN r = 1 .. Len(recent) + 1 /\ DOMAIN t = 1 .. Len(recent) + 1
        /\ \A i \in 1 .. Len(recent) : r[i] = ring[i] /\ t[i] = recent[i]
        /\ r[Len(recent) + 1] = e.key /\ t[Len(recent) + 1] = e
    BY <2>1
  <2> HIDE DEF r, t
  <2>6. Len(r) = IF Len(t) <= DedupSize THEN Len(t) ELSE DedupSize
    BY <1>1, <1>3, <2>5
  <2>7. ASSUME NEW i \in DOMAIN r PROVE r[i] = t[Len(t) - Len(r) + i].key
    <3>1. Len(t) - Len(r) + i = i
      BY <1>1, <2>5
    <3>2. CASE i = Len(recent) + 1
      BY <2>5, <3>1, <3>2
    <3>3. CASE i \in 1 .. Len(recent)
      BY <2>3, <2>5, <3>1, <3>3
    <3> QED BY <1>1, <2>5, <3>2, <3>3
  <2>8. ASSUME NEW i \in DOMAIN t, NEW j \in DOMAIN t, t[i].key = t[j].key PROVE i = j
    <3>1. \A k \in 1 .. Len(recent) : t[k].key # e.key
      BY <1>2, <2>1, <2>3, <2>5
    <3>2. CASE i \in 1 .. Len(recent) /\ j \in 1 .. Len(recent)
      <4>1. recent[i].key = recent[j].key
        BY <2>5, <2>8, <3>2
      <4> QED BY <2>4, <3>2, <4>1
    <3>3. CASE i = Len(recent) + 1 /\ j \in 1 .. Len(recent)
      BY <2>5, <2>8, <3>1, <3>3
    <3>4. CASE i \in 1 .. Len(recent) /\ j = Len(recent) + 1
      BY <2>5, <2>8, <3>1, <3>4
    <3>5. i \in 1 .. Len(recent) + 1 /\ j \in 1 .. Len(recent) + 1
      BY <2>5
    <3>6. /\ i \in 1 .. Len(recent) \/ i = Len(recent) + 1
          /\ j \in 1 .. Len(recent) \/ j = Len(recent) + 1
      BY ONLY <1>1, <3>5
    <3> QED BY <3>2, <3>3, <3>4, <3>6
  <2>9. RingMatches(r, t)
    BY <2>6, <2>7, <2>8 DEF RingMatches
  <2> QED BY <2>2, <2>9 DEF r, t
<1>4. CASE Len(recent) >= DedupSize
  <2>1. Len(ring) = DedupSize /\ Remember(ring, e.key) = Append(Tail(ring), e.key)
    BY <1>1, <1>4 DEF RingMatches, Remember
  <2>2. ASSUME NEW i \in 1 .. DedupSize
        PROVE  ring[i] = recent[Len(recent) - DedupSize + i].key
    <3>1. i \in DOMAIN ring
      BY <1>1, <2>1
    <3> QED BY <2>1, <3>1 DEF RingMatches
  <2>3. \A i, j \in 1 .. Len(recent) : recent[i].key = recent[j].key => i = j
    BY DEF RingMatches
  <2> DEFINE r == Append(Tail(ring), e.key)
             t == Record(recent, e)
  <2>4. /\ Len(r) = DedupSize /\ DOMAIN r = 1 .. DedupSize
        /\ \A i \in 1 .. DedupSize - 1 : r[i] = ring[i + 1]
        /\ r[DedupSize] = e.key
    <3>1. /\ Len(Tail(ring)) = DedupSize - 1 /\ Tail(ring) \in Seq(Nat \X (0 .. SeqMod - 1))
          /\ \A i \in 1 .. DedupSize - 1 : Tail(ring)[i] = ring[i + 1]
      BY <1>1, <2>1
    <3> QED BY <1>1, <3>1
  <2>5. CASE Len(recent) = DedupSize
    <3>1. /\ t = Append(recent, e)
          /\ Len(t) = DedupSize + 1 /\ DOMAIN t = 1 .. DedupSize + 1
          /\ \A i \in 1 .. DedupSize : t[i] = recent[i]
          /\ t[DedupSize + 1] = e
      BY <1>1, <2>5 DEF Record
    <3> HIDE DEF r, t
    <3>2. Len(r) = IF Len(t) <= DedupSize THEN Len(t) ELSE DedupSize
      BY <1>1, <2>4, <3>1
    <3>3. ASSUME NEW i \in 1 .. DedupSize PROVE ring[i] = recent[i].key
      <4>1. Len(recent) - DedupSize + i = i
        BY <1>1, <2>5
      <4> QED BY <2>2, <4>1
    <3>4. \A i \in DOMAIN r : r[i] = t[Len(t) - Len(r) + i].key
      BY <1>1, <2>4, <3>1, <3>3
    <3>5. \A i \in 1 .. DedupSize : t[i].key # e.key
      BY <1>2, <2>1, <3>1, <3>3
    <3>6. \A i, j \in DOMAIN t : t[i].key = t[j].key => i = j
      BY <1>1, <2>3, <2>5, <3>1, <3>5
    <3>7. RingMatches(r, t)
      BY <3>2, <3>4, <3>6 DEF RingMatches
    <3> QED BY <2>1, <3>7 DEF r, t
  <2>6. CASE Len(recent) = DedupSize + 1
    <3>1. /\ t = Append(Tail(recent), e)
          /\ Len(t) = DedupSize + 1 /\ DOMAIN t = 1 .. DedupSize + 1
          /\ \A i \in 1 .. DedupSize : t[i] = recent[i + 1]
          /\ t[DedupSize + 1] = e
      <4>1. /\ Len(Tail(recent)) = DedupSize /\ Tail(recent) \in Seq(Entries)
            /\ \A i \in 1 .. DedupSize : Tail(recent)[i] = recent[i + 1]
        BY <1>1, <2>6
      <4>2. t = Append(Tail(recent), e)
        BY <1>1, <2>6 DEF Record
      <4> QED BY <1>1, <4>1, <4>2
    <3> HIDE DEF r, t
    <3>2. Len(r) = IF Len(t) <= DedupSize THEN Len(t) ELSE DedupSize
      BY <1>1, <2>4, <3>1
    <3>3. ASSUME NEW i \in 1 .. DedupSize PROVE ring[i] = recent[i + 1].key
      <4>1. Len(recent) - DedupSize + i = i + 1
        BY <1>1, <2>6
      <4> QED BY <2>2, <4>1
    <3>4. \A i \in DOMAIN r : r[i] = t[Len(t) - Len(r) + i].key
      BY <1>1, <2>4, <3>1, <3>3
    <3>5. ASSUME NEW i \in 1 .. DedupSize PROVE t[i].key # e.key
      <4>1. t[i] = recent[i + 1] /\ ring[i] # e.key
        BY <1>2, <2>1, <3>1
      <4> QED BY <3>3, <4>1
    <3>6. \A i, j \in DOMAIN t : t[i].key = t[j].key => i = j
      BY <1>1, <2>3, <2>6, <3>1, <3>5
    <3>7. RingMatches(r, t)
      BY <3>2, <3>4, <3>6 DEF RingMatches
    <3> QED BY <2>1, <3>7 DEF r, t
  <2> QED BY <1>1, <1>4, <2>1, <2>5, <2>6
<1> QED BY <1>1, <1>3, <1>4

LEMMA RingInvStep == NetTypeOK /\ RingInv /\ [NetNext]_netVars => RingInv'
<1> SUFFICES ASSUME NetTypeOK, RingInv, [NetNext]_netVars PROVE RingInv'
  OBVIOUS
<1>1. CASE UNCHANGED <<dedup, taken>>
  BY <1>1 DEF RingInv, RingMatches
<1>2. ASSUME NEW n \in Nodes, Transmit(n) PROVE RingInv'
  <2> DEFINE f == Head(queue[n])
             entry(m) ==
               [key |-> Key(f), uid |-> f.uid, by |-> f.by, boot |-> f.boot,
                stateShown |-> f.kind = "PLAYER_STATE" /\ ForTeam(m, f),
                game |-> f.game, mine |-> adopted[m]]
  <2>1. PICK takers \in SUBSET {m \in Nodes \ {n} : Takes(m, f)} : Process(takers, f)
    BY <1>2 DEF Transmit
  <2>2. f \in Frames
    BY <1>2, HeadTyped DEF Transmit
  <2>3. /\ dedup' = [m \in Nodes |-> IF m \in takers THEN Remember(dedup[m], Key(f))
                                                    ELSE dedup[m]]
        /\ taken' = [m \in Nodes |-> IF m \in takers THEN Record(taken[m], entry(m))
                                                    ELSE taken[m]]
    BY <2>1 DEF Process
  <2> SUFFICES ASSUME NEW m \in Nodes PROVE RingMatches(dedup'[m], taken'[m])
    BY DEF RingInv, RingMatches
  <2>4. RingMatches(dedup[m], taken[m])
    BY DEF RingInv
  <2>5. CASE m \in takers
    <3>1. /\ dedup[m] \in Seq(Nat \X (0 .. SeqMod - 1)) /\ Len(dedup[m]) <= DedupSize
          /\ taken[m] \in Seq(Entries) /\ Len(taken[m]) <= DedupSize + 1
      BY DEF NetTypeOK
    <3>2. entry(m) \in Entries /\ entry(m).key = Key(f)
      BY <2>2, KeyTyped DEF Entries, Frames, NetTypeOK
    <3>3. Key(f) \notin Range(dedup[m])
      BY <2>1, <2>5 DEF Takes
    <3>4. dedup'[m] = Remember(dedup[m], Key(f)) /\ taken'[m] = Record(taken[m], entry(m))
      BY <2>3, <2>5
    <3> HIDE DEF f, entry
    <3>5. RingMatches(Remember(dedup[m], entry(m).key), Record(taken[m], entry(m)))
      BY ONLY <2>4, <3>1, <3>2, <3>3, RingStep
    <3> QED BY <3>2, <3>4, <3>5
  <2>6. CASE m \notin takers
    BY <2>3, <2>4, <2>6
  <2> QED BY <2>5, <2>6
<1>3. ASSUME NEW n \in Nodes, Reboot(n) PROVE RingInv'
  <2> SUFFICES ASSUME NEW m \in Nodes PROVE RingMatches(dedup'[m], taken'[m])
    BY DEF RingInv, RingMatches
  <2>1. CASE m = n
    <3>1. dedup'[m] = <<>> /\ taken'[m] = <<>>
      BY <1>3, <2>1 DEF Reboot, NetTypeOK
    <3> QED BY <3>1, SizeAssumption DEF RingMatches
  <2>2. CASE m # n
    <3>1. dedup'[m] = dedup[m] /\ taken'[m] = taken[m]
      BY <1>3, <2>2 DEF Reboot, NetTypeOK
    <3> QED BY <3>1 DEF RingInv
  <2> QED BY <2>1, <2>2
<1>4. ASSUME NEW n \in Nodes,
             \/ PhoneConnects(n) \/ PhoneDisconnects(n) \/ AdvWork(n)
             \/ SetPlayerInfo(n) \/ GameOver(n)
             \/ \E kind \in Kinds : Announce(n, kind)
             \/ PlayerState(n) \/ HostStartsGame(n)
             \/ RepeatWork(n) \/ RelayWork(n)
      PROVE  RingInv'
  BY <1>1, <1>4 DEF incoming, PhoneConnects, PhoneDisconnects, AdvWork, SetPlayerInfo,
                    GameOver, Announce, PlayerState, HostStartsGame, RepeatWork, RelayWork
<1>5. CASE UNCHANGED netVars
  BY <1>1, <1>5 DEF netVars, incoming
<1> QED BY <1>2, <1>3, <1>4, <1>5 DEF NetNext

LEMMA RingInvHolds == NetSpec => []RingInv
<1>1. NetInit => RingInv
  <2> SUFFICES ASSUME NetInit, NEW n \in Nodes PROVE RingMatches(dedup[n], taken[n])
    BY DEF RingInv
  <2>1. dedup[n] = <<>> /\ taken[n] = <<>>
    BY DEF NetInit
  <2> QED BY <2>1, SizeAssumption DEF RingMatches
<1> QED BY <1>1, RingInvStep, NetTypeHolds, PTL DEF NetSpec

\* Of the frames an emitter takes, one more in a row than its ring holds never
\* repeat an origin and number.
THEOREM NetOncePerWindow == NetSpec => []OncePerWindow
<1>1. RingInv => OncePerWindow
  BY DEF RingInv, RingMatches, OncePerWindow
<1> QED BY <1>1, RingInvHolds, PTL

-----------------------------------------------------------------------------
(* Whose frames are under way.                                             *)

\* What an emitter still has to send.
Carried(n) == Range(queue[n]) \cup ({repeatBuf[n], relayBuf[n]} \ {NoFrame})

\* A frame made since its maker last lost power, and after the player was
\* named, bears the name the maker still has; a GAME_START carries the roster of
\* its game, and a PLAYER_STATE the team that its maker's game assigned.
FrameGood(f) ==
  /\ f.boot <= boots[f.by]
  /\ f.boot = boots[f.by] /\ f.origin # 0 => f.origin = ident[f.by]
  /\ f.game \in 0 .. Len(games)
  /\ f.kind = "GAME_START" => f.game # 0 /\ f.roster = games[f.game]
  /\ f.kind = "PLAYER_STATE" /\ f.game # 0 => f.team = games[f.game][f.by]

\* A player's name never changes, and his team is that of the game he adopted it
\* from.
NodeInv ==
  \A n \in Nodes :
    /\ ident[n] \in {0, IdOf[n]}
    /\ adopted[n] \in 0 .. Len(games)
    /\ adopted[n] # 0 => team[n] = games[adopted[n]][n]

CarriedInv == \A n \in Nodes : \A f \in Carried(n) : FrameGood(f)

LEMMA CarriedTyped ==
  ASSUME NetTypeOK, NEW n \in Nodes, NEW f \in Carried(n)
  PROVE  f \in Frames
<1>1. queue[n] \in Seq(Frames) /\ repeatBuf[n] \in Frames \cup {NoFrame}
      /\ relayBuf[n] \in Frames \cup {NoFrame}
  BY DEF NetTypeOK
<1> QED BY <1>1 DEF Carried, Range

LEMMA GamesTyped ==
  /\ NetTypeOK => games \in Seq(Rosters) /\ Len(games) \in Nat
  /\ NetTypeOK' => games' \in Seq(Rosters) /\ Len(games') \in Nat
<1>1. NetTypeOK => games \in Seq(Rosters)
  BY DEF NetTypeOK
<1>2. NetTypeOK' => games' \in Seq(Rosters)
  BY DEF NetTypeOK
<1> QED BY <1>1, <1>2

\* The games that were started stay what they were.
GamesKept ==
  Len(games) <= Len(games') /\ \A g \in 1 .. Len(games) : games'[g] = games[g]

LEMMA StepKeepsGames == NetTypeOK /\ [NetNext]_netVars => GamesKept
<1> SUFFICES ASSUME NetTypeOK, [NetNext]_netVars PROVE GamesKept
  OBVIOUS
<1>1. games \in Seq(Rosters)
  BY DEF NetTypeOK
<1>2. CASE UNCHANGED games
  BY <1>1, <1>2 DEF GamesKept
<1>3. ASSUME NEW n \in Nodes, HostStartsGame(n) PROVE GamesKept
  <2>1. PICK roster \in Rosters : games' = Append(games, roster)
    BY <1>3 DEF HostStartsGame
  <2> QED BY <1>1, <2>1 DEF GamesKept
<1>4. ASSUME NEW n \in Nodes,
             \/ PhoneConnects(n) \/ PhoneDisconnects(n) \/ AdvWork(n)
             \/ SetPlayerInfo(n) \/ GameOver(n)
             \/ \E kind \in Kinds : Announce(n, kind)
             \/ PlayerState(n) \/ RepeatWork(n) \/ RelayWork(n) \/ Transmit(n) \/ Reboot(n)
      PROVE  GamesKept
  BY <1>2, <1>4 DEF PhoneConnects, PhoneDisconnects, AdvWork, SetPlayerInfo, GameOver,
                    Announce, PlayerState, RepeatWork, RelayWork, Transmit, Reboot
<1>5. CASE UNCHANGED netVars
  BY <1>2, <1>5 DEF netVars
<1> QED BY <1>3, <1>4, <1>5 DEF NetNext

\* Whoever starts a game with the roster it was started with.
LEMMA AdoptTeamsGood ==
  ASSUME NetTypeOK, NetTypeOK', NodeInv, GamesKept, ident' = ident,
         NEW starting \in SUBSET Nodes, NEW roster, NEW game \in 1 .. Len(games'),
         starting # {} => games'[game] = roster,
         AdoptTeams(starting, roster, game)
  PROVE  NodeInv'
<1> SUFFICES ASSUME NEW n \in Nodes
             PROVE  /\ adopted'[n] \in 0 .. Len(games')
                    /\ adopted'[n] # 0 => team'[n] = games'[adopted'[n]][n]
  BY DEF NodeInv
<1>1. Len(games) \in Nat /\ Len(games') \in Nat /\ Len(games) <= Len(games')
  BY GamesTyped DEF GamesKept
<1>2. CASE n \in Named(starting, roster)
  <2>1. adopted'[n] = game /\ team'[n] = roster[n] /\ starting # {}
    BY <1>2 DEF AdoptTeams, Named
  <2> QED BY <1>1, <2>1
<1>3. CASE n \notin Named(starting, roster)
  <2>1. adopted'[n] = adopted[n] /\ team'[n] = team[n]
    BY <1>3 DEF AdoptTeams
  <2>2. adopted[n] \in 0 .. Len(games)
    BY DEF NodeInv
  <2>3. adopted[n] # 0 => games'[adopted[n]] = games[adopted[n]]
    BY <1>1, <2>2 DEF GamesKept
  <2> QED BY <1>1, <2>1, <2>2, <2>3 DEF NodeInv
<1> QED BY <1>2, <1>3

LEMMA NodeInvStep ==
  NetTypeOK /\ NetTypeOK' /\ NodeInv /\ CarriedInv /\ [NetNext]_netVars => NodeInv'
<1> SUFFICES ASSUME NetTypeOK, NetTypeOK', NodeInv, CarriedInv, [NetNext]_netVars
             PROVE  NodeInv'
  OBVIOUS
<1> USE DEF identity, teams, outgoing, incoming
<1>0. GamesKept
  BY StepKeepsGames
<1>1. CASE UNCHANGED <<ident, team, adopted, games>>
  BY <1>1 DEF NodeInv
<1>2. ASSUME NEW n \in Nodes, SetPlayerInfo(n) PROVE NodeInv'
  <2>1. \A m \in Nodes : m # n => ident'[m] = ident[m] /\ team'[m] = team[m]
                                  /\ adopted'[m] = adopted[m]
    BY <1>2 DEF SetPlayerInfo, NetTypeOK
  <2>2. ident'[n] = IdOf[n] /\ adopted'[n] = 0 /\ games' = games
    BY <1>2 DEF SetPlayerInfo, NetTypeOK
  <2>3. 0 \in 0 .. Len(games)
    BY DEF NetTypeOK
  <2> QED BY <2>1, <2>2, <2>3 DEF NodeInv
<1>3. ASSUME NEW n \in Nodes, HostStartsGame(n) PROVE NodeInv'
  <2>1. PICK roster \in Rosters : /\ games' = Append(games, roster)
                                  /\ AdoptTeams({n}, roster, Len(games) + 1)
    BY <1>3 DEF HostStartsGame
  <2>2. Len(games) + 1 \in 1 .. Len(games') /\ games'[Len(games) + 1] = roster
    <3>1. games \in Seq(Rosters)
      BY DEF NetTypeOK
    <3> QED BY <2>1, <3>1
  <2>3. ident' = ident
    BY <1>3 DEF HostStartsGame
  <2> QED BY <1>0, <2>1, <2>2, <2>3, AdoptTeamsGood
<1>4. ASSUME NEW n \in Nodes, Transmit(n) PROVE NodeInv'
  <2> DEFINE f == Head(queue[n])
  <2>1. PICK takers \in SUBSET Nodes : Process(takers, f)
    BY <1>4 DEF Transmit
  <2>2. f \in Frames /\ FrameGood(f)
    BY <1>4, HeadTyped DEF Transmit, CarriedInv, Carried, Range
  <2>3. ident' = ident /\ games' = games
    BY <1>4 DEF Transmit
  <2> HIDE DEF f
  <2> DEFINE joiners == {m \in takers : f.kind = "GAME_START" /\ ~inGame[m]}
  <2>4. joiners \in SUBSET Nodes /\ AdoptTeams(joiners, f.roster, f.game)
    BY <2>1 DEF Process
  <2>5. CASE f.kind = "GAME_START"
    <3>1. f.game \in 1 .. Len(games') /\ games'[f.game] = f.roster
      <4>1. Len(games) \in Nat
        BY GamesTyped
      <4> QED BY <2>2, <2>3, <2>5, <4>1 DEF FrameGood
    <3> HIDE DEF joiners
    <3> QED BY <1>0, <2>3, <2>4, <3>1, AdoptTeamsGood
  <2>6. CASE f.kind # "GAME_START"
    <3>1. Named(joiners, f.roster) = {}
      BY <2>6 DEF Named
    <3> HIDE DEF joiners
    <3>2. team' = team /\ adopted' = adopted
      BY <2>4, <3>1 DEF AdoptTeams, NetTypeOK
    <3> QED BY <1>1, <2>3, <3>2
  <2> QED BY <2>5, <2>6
<1>5. ASSUME NEW n \in Nodes, Reboot(n) PROVE NodeInv'
  <2>1. \A m \in Nodes : m # n => ident'[m] = ident[m] /\ team'[m] = team[m]
                                  /\ adopted'[m] = adopted[m]
    BY <1>5 DEF Reboot, NetTypeOK
  <2>2. ident'[n] = 0 /\ adopted'[n] = 0 /\ games' = games
    BY <1>5 DEF Reboot, NetTypeOK
  <2>3. 0 \in 0 .. Len(games)
    BY DEF NetTypeOK
  <2> QED BY <2>1, <2>2, <2>3 DEF NodeInv
<1>6. ASSUME NEW n \in Nodes,
             \/ PhoneConnects(n) \/ PhoneDisconnects(n) \/ AdvWork(n) \/ GameOver(n)
             \/ \E kind \in Kinds : Announce(n, kind)
             \/ PlayerState(n) \/ RepeatWork(n) \/ RelayWork(n)
      PROVE  NodeInv'
  BY <1>1, <1>6 DEF PhoneConnects, PhoneDisconnects, AdvWork, GameOver, Announce,
                    PlayerState, RepeatWork, RelayWork
<1>7. CASE UNCHANGED netVars
  BY <1>1, <1>7 DEF netVars
<1> QED BY <1>2, <1>3, <1>4, <1>5, <1>6, <1>7 DEF NetNext

\* Emitters only ever gain a name, and lose it only with their power.
Steady ==
  \A n \in Nodes : /\ boots[n] <= boots'[n]
                   /\ boots'[n] = boots[n] /\ ident[n] # 0 => ident'[n] = ident[n]

LEMMA StepSteady == NetTypeOK /\ NodeInv /\ [NetNext]_netVars => Steady
<1> SUFFICES ASSUME NetTypeOK, NodeInv, [NetNext]_netVars PROVE Steady
  OBVIOUS
<1> USE DEF identity, teams, outgoing, incoming
<1>1. boots \in [Nodes -> Nat] /\ ident \in [Nodes -> Nat]
  BY DEF NetTypeOK
<1>2. CASE UNCHANGED <<ident, boots>>
  BY <1>1, <1>2 DEF Steady
<1>3. ASSUME NEW n \in Nodes, SetPlayerInfo(n) PROVE Steady
  BY <1>1, <1>3 DEF SetPlayerInfo, NodeInv, Steady
<1>4. ASSUME NEW n \in Nodes, Reboot(n) PROVE Steady
  BY <1>1, <1>4 DEF Reboot, Steady
<1>5. ASSUME NEW n \in Nodes,
             \/ PhoneConnects(n) \/ PhoneDisconnects(n) \/ AdvWork(n) \/ GameOver(n)
             \/ \E kind \in Kinds : Announce(n, kind)
             \/ PlayerState(n) \/ HostStartsGame(n)
             \/ RepeatWork(n) \/ RelayWork(n) \/ Transmit(n)
      PROVE  Steady
  BY <1>2, <1>5 DEF PhoneConnects, PhoneDisconnects, AdvWork, GameOver, Announce,
                    PlayerState, HostStartsGame, RepeatWork, RelayWork, Transmit
<1>6. CASE UNCHANGED netVars
  BY <1>2, <1>6 DEF netVars
<1> QED BY <1>3, <1>4, <1>5, <1>6 DEF NetNext

LEMMA FrameGoodKept ==
  ASSUME NetTypeOK, NetTypeOK', Steady, GamesKept, NEW f \in Frames, FrameGood(f)
  PROVE  FrameGood(f)'
<1>1. f.by \in Nodes /\ f.boot \in Nat
  BY DEF Frames
<1>2. boots[f.by] \in Nat /\ boots'[f.by] \in Nat
  BY <1>1 DEF NetTypeOK
<1>3. f.boot <= boots'[f.by]
  BY <1>1, <1>2 DEF Steady, FrameGood
<1>4. ASSUME f.boot = boots'[f.by], f.origin # 0 PROVE f.origin = ident'[f.by]
  <2>1. boots'[f.by] = boots[f.by]
    BY <1>1, <1>2, <1>4 DEF Steady, FrameGood
  <2>2. f.origin = ident[f.by] /\ ident[f.by] # 0
    BY <1>4, <2>1 DEF FrameGood
  <2> QED BY <1>1, <2>1, <2>2 DEF Steady
<1>5. Len(games) \in Nat /\ Len(games') \in Nat /\ Len(games) <= Len(games')
  BY GamesTyped DEF GamesKept
<1>6. f.game \in 0 .. Len(games') /\ (f.game # 0 => games'[f.game] = games[f.game])
  BY <1>5 DEF FrameGood, GamesKept
<1> QED BY <1>3, <1>4, <1>6 DEF FrameGood

\* A new frame of an emitter; one that starts a game carries the roster of the
\* game.
Makes(n, kind, roster) ==
  /\ BroadcastWithRepeat(n, kind, roster)
  /\ UNCHANGED <<ident, boots>>
  /\ kind = "GAME_START" => games' = Append(games, roster)

LEMMA NewFrameGood ==
  ASSUME NetTypeOK, NetTypeOK', NodeInv, GamesKept, NEW n \in Nodes, NEW kind \in Kinds,
         NEW roster \in Rosters \cup {NoRoster}, Makes(n, kind, roster),
         NEW f, f = NewFrame(n, kind, roster)
  PROVE  FrameGood(f)'
<1>1. boots[n] \in Nat /\ boots'[n] = boots[n] /\ ident'[n] = ident[n]
  BY DEF NetTypeOK, Makes
<1>2. /\ f.by = n /\ f.boot = boots[n] /\ f.origin = ident[n] /\ f.kind = kind
      /\ f.roster = roster /\ f.team = team[n]
      /\ f.game = IF kind = "GAME_START" THEN Len(games) + 1 ELSE adopted[n]
  BY DEF NewFrame
<1>3. Len(games) \in Nat /\ Len(games') \in Nat /\ Len(games) <= Len(games')
  BY GamesTyped DEF GamesKept
<1>4. CASE kind = "GAME_START"
  <2>1. games' = Append(games, roster) /\ games \in Seq(Rosters)
    BY <1>4 DEF Makes, NetTypeOK
  <2>2. Len(games') = Len(games) + 1 /\ games'[Len(games) + 1] = roster
    BY <2>1
  <2> QED BY <1>1, <1>2, <1>3, <1>4, <2>2 DEF FrameGood
<1>5. CASE kind # "GAME_START"
  <2>1. adopted[n] \in 0 .. Len(games) /\ (adopted[n] # 0 => team[n] = games[adopted[n]][n])
    BY DEF NodeInv
  <2>2. adopted[n] # 0 => games'[adopted[n]] = games[adopted[n]]
    BY <1>3, <2>1 DEF GamesKept
  <2> QED BY <1>1, <1>2, <1>3, <1>5, <2>1, <2>2 DEF FrameGood
<1> QED BY <1>4, <1>5

LEMMA RelayedGood ==
  ASSUME NEW f \in Frames, FrameGood(f)
  PROVE  FrameGood(Relayed(f))
<1>1. /\ Relayed(f).boot = f.boot /\ Relayed(f).by = f.by /\ Relayed(f).origin = f.origin
      /\ Relayed(f).kind = f.kind /\ Relayed(f).team = f.team
      /\ Relayed(f).game = f.game /\ Relayed(f).roster = f.roster
  BY DEF Relayed, Frames
<1> QED BY <1>1 DEF FrameGood

\* A broadcast adds its frame to what one emitter carries, and nothing else.
LEMMA BroadcastCarries ==
  ASSUME NetTypeOK, NEW n \in Nodes, NEW f \in Frames, DoCodedBroadcast(n, f)
  PROVE  \A m \in Nodes : Range(queue'[m]) \subseteq Range(queue[m]) \cup {f}
BY BroadcastTyped DEF Range

LEMMA BroadcastWithRepeatCarries ==
  ASSUME NetTypeOK, NEW n \in Nodes, NEW kind \in Kinds,
         NEW roster \in Rosters \cup {NoRoster}, BroadcastWithRepeat(n, kind, roster),
         relayBuf' = relayBuf
  PROVE  \A m \in Nodes : Carried(m)' \subseteq Carried(m) \cup {NewFrame(n, kind, roster)}
<1> DEFINE f == NewFrame(n, kind, roster)
<1>1. f \in Frames /\ DoCodedBroadcast(n, f)
  BY NewFrameTyped DEF BroadcastWithRepeat
<1>2. \A m \in Nodes : Range(queue'[m]) \subseteq Range(queue[m]) \cup {f}
  BY <1>1, BroadcastCarries
<1>3. \A m \in Nodes : repeatBuf'[m] \in {repeatBuf[m], f}
  <2>1. repeatBuf' = [repeatBuf EXCEPT ![n] = f] \/ repeatBuf' = repeatBuf
    BY DEF BroadcastWithRepeat
  <2>2. repeatBuf \in [Nodes -> Frames \cup {NoFrame}]
    BY DEF NetTypeOK
  <2> HIDE DEF f
  <2> QED BY ONLY <2>1, <2>2
<1> HIDE DEF f
<1>4. \A m \in Nodes : Carried(m)' \subseteq Carried(m) \cup {f}
  BY <1>2, <1>3 DEF Carried
<1> QED BY <1>4 DEF f

\* What an emitter carries after a step some emitter carried before, or it is the
\* relayed form of that, or a new frame.
LEMMA CarriedFrom ==
  ASSUME NetTypeOK, [NetNext]_netVars, NEW m \in Nodes, NEW g \in Carried(m)'
  PROVE  \/ \E k \in Nodes : \E f \in Carried(k) : g = f \/ g = Relayed(f)
         \/ \E n \in Nodes, kind \in Kinds, roster \in Rosters \cup {NoRoster} :
              Makes(n, kind, roster) /\ g = NewFrame(n, kind, roster)
<1> DEFINE Was == \E k \in Nodes : \E f \in Carried(k) : g = f \/ g = Relayed(f)
           New == \E n \in Nodes, kind \in Kinds, roster \in Rosters \cup {NoRoster} :
                    Makes(n, kind, roster) /\ g = NewFrame(n, kind, roster)
<1> SUFFICES Was \/ New
  OBVIOUS
<1> USE DEF identity, teams, outgoing, incoming
<1>1. ASSUME NEW k \in Nodes, g \in Carried(k) PROVE Was
  BY <1>1
<1> HIDE DEF Was
<1>2. CASE UNCHANGED outgoing
  BY <1>1, <1>2 DEF Carried
<1>3. ASSUME NEW n \in Nodes, NEW kind \in Kinds, NEW roster \in Rosters \cup {NoRoster},
             Makes(n, kind, roster), relayBuf' = relayBuf
      PROVE  Was \/ New
  <2>1. g \in Carried(m) \/ g = NewFrame(n, kind, roster)
    BY <1>3, BroadcastWithRepeatCarries DEF Makes
  <2> QED BY <1>1, <1>3, <2>1
<1> HIDE DEF New
<1>4. ASSUME NEW n \in Nodes, NEW kind \in Kinds, Announce(n, kind)
      PROVE  Was \/ New
  <2>1. Makes(n, kind, NoRoster) /\ relayBuf' = relayBuf
    BY <1>4 DEF Announce, Makes
  <2> QED BY <1>3, <2>1
<1>5. ASSUME NEW n \in Nodes, PlayerState(n) PROVE Was \/ New
  <2>1. Makes(n, "PLAYER_STATE", NoRoster) /\ relayBuf' = relayBuf
    BY <1>5 DEF PlayerState, Makes
  <2>2. "PLAYER_STATE" \in Kinds
    BY KindAssumption DEF Kinds
  <2> QED BY <1>3, <2>1, <2>2
<1>6. ASSUME NEW n \in Nodes, HostStartsGame(n) PROVE Was \/ New
  <2>1. PICK roster \in Rosters : Makes(n, "GAME_START", roster)
    BY <1>6 DEF HostStartsGame, Makes
  <2>2. "GAME_START" \in Kinds /\ relayBuf' = relayBuf
    BY <1>6, KindAssumption DEF HostStartsGame, Kinds
  <2> QED BY <1>3, <2>1, <2>2
<1>7. ASSUME NEW n \in Nodes, RepeatWork(n) PROVE Was
  <2>1. repeatBuf[n] \in Frames
    BY <1>7 DEF RepeatWork, NetTypeOK
  <2>2. repeatBuf[n] \in Carried(n)
    BY <2>1, NoFrameAssumption DEF Carried
  <2>3. g \in Carried(m) \/ g = repeatBuf[n]
    BY <1>7, <2>1, BroadcastCarries DEF RepeatWork, Carried
  <2> QED BY <1>1, <2>2, <2>3
<1>8. ASSUME NEW n \in Nodes, RelayWork(n) PROVE Was
  <2>1. relayBuf[n] \in Frames
    BY <1>8 DEF RelayWork, NetTypeOK
  <2>2. relayBuf[n] \in Carried(n)
    BY <2>1, NoFrameAssumption DEF Carried
  <2>3. \A k \in Nodes : relayBuf'[k] \in {relayBuf[k], NoFrame}
    BY <1>8 DEF RelayWork, NetTypeOK
  <2>4. g \in Carried(m) \/ g = relayBuf[n]
    BY <1>8, <2>1, <2>3, BroadcastCarries DEF RelayWork, Carried
  <2> QED BY <1>1, <2>2, <2>4
<1>9. ASSUME NEW n \in Nodes, Transmit(n) PROVE Was
  <2> DEFINE f == Head(queue[n])
  <2>1. PICK takers \in SUBSET Nodes : Process(takers, f)
    BY <1>9 DEF Transmit
  <2>2. f \in Carried(n)
    BY <1>9, HeadTyped DEF Transmit, Carried, Range
  <2>3. Range(queue'[m]) \subseteq Range(queue[m])
    <3>1. queue' = [queue EXCEPT ![n] = Tail(queue[n])]
      BY <1>9 DEF Transmit
    <3>2. Range(Tail(queue[n])) \subseteq Range(queue[n])
      BY <1>9, HeadTyped DEF Transmit, Range
    <3> QED BY <3>1, <3>2 DEF NetTypeOK
  <2> HIDE DEF f
  <2>4. relayBuf'[m] \in {relayBuf[m], Relayed(f)}
    BY <2>1 DEF Process
  <2>5. repeatBuf' = repeatBuf
    BY <1>9 DEF Transmit
  <2>6. g \in Carried(m) \/ g = Relayed(f)
    BY <2>3, <2>4, <2>5 DEF Carried
  <2> QED BY <1>1, <2>2, <2>6 DEF Was
<1>10. ASSUME NEW n \in Nodes, Reboot(n) PROVE Was
  <2>1. /\ \A k \in Nodes : queue'[k] \in {queue[k], <<>>}
        /\ \A k \in Nodes : repeatBuf'[k] \in {repeatBuf[k], NoFrame}
        /\ \A k \in Nodes : relayBuf'[k] \in {relayBuf[k], NoFrame}
    BY <1>10 DEF Reboot, NetTypeOK
  <2>2. Range(<<>>) = {}
    BY DEF Range
  <2>3. g \in Carried(m)
    BY <2>1, <2>2 DEF Carried
  <2> QED BY <1>1, <2>3
<1>11. ASSUME NEW n \in Nodes,
             \/ PhoneConnects(n) \/ PhoneDisconnects(n) \/ AdvWork(n)
             \/ SetPlayerInfo(n) \/ GameOver(n)
      PROVE  Was \/ New
  BY <1>2, <1>11 DEF PhoneConnects, PhoneDisconnects, AdvWork, SetPlayerInfo, GameOver
<1>12. CASE UNCHANGED netVars
  BY <1>2, <1>12 DEF netVars
<1> QED BY <1>4, <1>5, <1>6, <1>7, <1>8, <1>9, <1>10, <1>11, <1>12 DEF NetNext

LEMMA CarriedInvStep ==
  NetTypeOK /\ NetTypeOK' /\ NodeInv /\ CarriedInv /\ [NetNext]_netVars => CarriedInv'
<1> SUFFICES ASSUME NetTypeOK, NetTypeOK', NodeInv, CarriedInv, [NetNext]_netVars,
                    NEW m \in Nodes, NEW g \in Carried(m)'
             PROVE  FrameGood(g)'
  BY DEF CarriedInv
<1>1. g \in Frames
  <2>1. /\ queue'[m] \in Seq(Frames) /\ repeatBuf'[m] \in Frames \cup {NoFrame}
        /\ relayBuf'[m] \in Frames \cup {NoFrame}
    BY DEF NetTypeOK
  <2> QED BY <2>1 DEF Carried, Range
<1>2. Steady /\ GamesKept
  BY StepSteady, StepKeepsGames
<1>3. ASSUME NEW k \in Nodes, NEW f \in Carried(k), g = f \/ g = Relayed(f)
      PROVE  FrameGood(g)'
  <2>1. f \in Frames /\ FrameGood(f)
    BY CarriedTyped DEF CarriedInv
  <2>2. FrameGood(g)
    BY <1>3, <2>1, RelayedGood
  <2> QED BY <1>1, <1>2, <2>2, FrameGoodKept
<1>4. ASSUME NEW n \in Nodes, NEW kind \in Kinds, NEW roster \in Rosters \cup {NoRoster},
             Makes(n, kind, roster), g = NewFrame(n, kind, roster)
      PROVE  FrameGood(g)'
  BY <1>2, <1>4, NewFrameGood
<1> QED BY <1>3, <1>4, CarriedFrom

LEMMA NamesHold == NetSpec => [](NodeInv /\ CarriedInv)
<1>1. NetInit => NodeInv
  <2>1. NetInit => Len(games) = 0
    BY DEF NetInit
  <2> QED BY <2>1 DEF NetInit, NodeInv
<1>2. NetInit => CarriedInv
  BY DEF NetInit, CarriedInv, Carried, Range
<1> QED BY <1>1, <1>2, NodeInvStep, CarriedInvStep, NetTypeHolds, PTL DEF NetSpec

-----------------------------------------------------------------------------
(* Which frames are taken.                                                 *)

LEMMA RecordAdds ==
  ASSUME NEW S, NEW recent \in Seq(S), NEW e \in S, NEW i \in DOMAIN Record(recent, e)
  PROVE  Record(recent, e)[i] = e \/ \E j \in DOMAIN recent : Record(recent, e)[i] = recent[j]
<1>1. CASE Len(recent) <= DedupSize
  <2>1. Record(recent, e) = Append(recent, e)
    BY <1>1 DEF Record
  <2> QED BY <2>1
<1>2. CASE ~(Len(recent) <= DedupSize)
  <2>1. Record(recent, e) = Append(Tail(recent), e)
    BY <1>2 DEF Record
  <2>2. Len(recent) \in Nat \ {0}
    BY <1>2, SizeAssumption
  <2>3. /\ Tail(recent) \in Seq(S) /\ Len(Tail(recent)) = Len(recent) - 1
        /\ \A j \in 1 .. Len(recent) - 1 : Tail(recent)[j] = recent[j + 1]
    BY <2>2
  <2>4. CASE i = Len(recent)
    BY <2>1, <2>2, <2>3, <2>4
  <2>5. CASE i \in 1 .. Len(recent) - 1
    <3>1. Record(recent, e)[i] = recent[i + 1] /\ i + 1 \in DOMAIN recent
      BY <2>1, <2>2, <2>3, <2>5
    <3> QED BY <3>1
  <2>6. DOMAIN Record(recent, e) = 1 .. Len(recent)
    BY <2>1, <2>2, <2>3
  <2> QED BY <2>2, <2>4, <2>5, <2>6
<1> QED BY <1>1, <1>2

\* What NoOwnEcho and PositionsWithinTeam say of one frame taken by an emitter
\* with so many power losses.
EntryGood(n, e, losses) ==
  /\ e.by = n => e.boot < losses \/ e.key[1] = 0
  /\ e.stateShown => e.game \in 0 .. Len(games)
  /\ e.stateShown /\ e.game # 0 /\ e.game = e.mine =>
       games[e.game][e.by] = games[e.game][n]

TakenInv == \A n \in Nodes : \A i \in DOMAIN taken[n] : EntryGood(n, taken[n][i], boots[n])

\* A well-named frame that an emitter takes is not its own, and if it is shown
\* to the phone then a game that both players have put them in one team.
LEMMA TakesGood ==
  ASSUME NetTypeOK, NodeInv, NEW n \in Nodes, NEW f \in Frames, FrameGood(f),
         Takes(n, f),
         NEW e \in Entries,
         e = [key |-> Key(f), uid |-> f.uid, by |-> f.by, boot |-> f.boot,
              stateShown |-> f.kind = "PLAYER_STATE" /\ ForTeam(n, f),
              game |-> f.game, mine |-> adopted[n]]
  PROVE  EntryGood(n, e, boots[n])
<1>1. /\ e.key[1] = f.origin /\ e.by = f.by /\ e.boot = f.boot
      /\ e.stateShown => f.kind = "PLAYER_STATE" /\ f.team = team[n]
      /\ e.game = f.game /\ e.mine = adopted[n]
  BY DEF Key, ForTeam
<1>2. f.by \in Nodes /\ f.boot \in Nat /\ boots[n] \in Nat
  BY DEF Frames, NetTypeOK
<1>3. ASSUME e.by = n, e.key[1] # 0 PROVE e.boot < boots[n]
  BY <1>1, <1>2, <1>3 DEF FrameGood, Takes
<1>4. e.game \in 0 .. Len(games)
  BY <1>1 DEF FrameGood
<1>5. ASSUME e.stateShown, e.game # 0, e.game = e.mine
      PROVE  games[e.game][e.by] = games[e.game][n]
  BY <1>1, <1>2, <1>5 DEF FrameGood, NodeInv
<1> QED BY <1>3, <1>4, <1>5 DEF EntryGood

LEMMA TakenInvStep ==
  NetTypeOK /\ NetTypeOK' /\ NodeInv /\ CarriedInv /\ TakenInv /\ [NetNext]_netVars
    => TakenInv'
<1> SUFFICES ASSUME NetTypeOK, NetTypeOK', NodeInv, CarriedInv, TakenInv, [NetNext]_netVars
             PROVE  TakenInv'
  OBVIOUS
<1> USE DEF identity, teams, outgoing, incoming
<1>1. ASSUME UNCHANGED <<taken, boots>> PROVE TakenInv'
  <2> SUFFICES ASSUME NEW n \in Nodes, NEW i \in DOMAIN taken[n]
               PROVE  EntryGood(n, taken[n][i], boots[n])'
    BY <1>1 DEF TakenInv
  <2>1. EntryGood(n, taken[n][i], boots[n])
    BY DEF TakenInv
  <2>2. Len(games) \in Nat /\ Len(games') \in Nat /\ GamesKept
    BY GamesTyped, StepKeepsGames
  <2>3. taken'[n][i] = taken[n][i] /\ boots'[n] = boots[n]
    BY <1>1
  <2> DEFINE e == taken[n][i]
  <2>4. /\ e.by = n => e.boot < boots[n] \/ e.key[1] = 0
        /\ e.stateShown => e.game \in 0 .. Len(games)
        /\ e.stateShown /\ e.game # 0 /\ e.game = e.mine =>
             games[e.game][e.by] = games[e.game][n]
    BY <2>1 DEF EntryGood
  <2> HIDE DEF e
  <2>5. e.stateShown => e.game \in 0 .. Len(games')
    BY <2>2, <2>4 DEF GamesKept
  <2>6. e.stateShown /\ e.game # 0 => games'[e.game] = games[e.game]
    BY <2>2, <2>4 DEF GamesKept
  <2>7. EntryGood(n, e, boots[n])'
    BY <2>3, <2>4, <2>5, <2>6 DEF EntryGood, e
  <2> QED BY <2>7 DEF e
<1>2. ASSUME NEW n \in Nodes, Transmit(n) PROVE TakenInv'
  <2> DEFINE f == Head(queue[n])
             entry(m) ==
               [key |-> Key(f), uid |-> f.uid, by |-> f.by, boot |-> f.boot,
                stateShown |-> f.kind = "PLAYER_STATE" /\ ForTeam(m, f),
                game |-> f.game, mine |-> adopted[m]]
  <2>1. PICK takers \in SUBSET {m \in Nodes \ {n} : Takes(m, f)} : Process(takers, f)
    BY <1>2 DEF Transmit
  <2>2. f \in Frames /\ FrameGood(f)
    BY <1>2, HeadTyped DEF Transmit, CarriedInv, Carried, Range
  <2>3. /\ taken' = [m \in Nodes |-> IF m \in takers THEN Record(taken[m], entry(m))
                                                    ELSE taken[m]]
    BY <2>1 DEF Process
  <2>4. boots' = boots /\ games' = games
    BY <1>2 DEF Transmit
  <2> SUFFICES ASSUME NEW m \in Nodes, NEW i \in DOMAIN taken'[m]
               PROVE  EntryGood(m, taken'[m][i], boots[m])
    BY <2>4 DEF TakenInv, EntryGood
  <2>5. CASE m \notin takers
    <3>1. taken'[m] = taken[m]
      BY <2>3, <2>5
    <3> QED BY <3>1 DEF TakenInv
  <2>6. CASE m \in takers
    <3>1. entry(m) \in Entries
      BY <2>2, KeyTyped DEF Entries, Frames, NetTypeOK
    <3>2. EntryGood(m, entry(m), boots[m])
      BY <2>1, <2>2, <2>6, <3>1, TakesGood
    <3>3. taken'[m] = Record(taken[m], entry(m)) /\ taken[m] \in Seq(Entries)
      BY <2>3, <2>6 DEF NetTypeOK
    <3> HIDE DEF entry, f
    <3>4. taken'[m][i] = entry(m) \/ \E j \in DOMAIN taken[m] : taken'[m][i] = taken[m][j]
      BY <3>1, <3>3, RecordAdds
    <3> QED BY <3>2, <3>4 DEF TakenInv
  <2> QED BY <2>5, <2>6
<1>3. ASSUME NEW n \in Nodes, Reboot(n) PROVE TakenInv'
  <2> SUFFICES ASSUME NEW m \in Nodes, NEW i \in DOMAIN taken'[m]
               PROVE  EntryGood(m, taken'[m][i], boots'[m])
    BY <1>3 DEF TakenInv, EntryGood, Reboot
  <2>1. m # n
    <3>1. taken'[n] = <<>>
      BY <1>3 DEF Reboot, NetTypeOK
    <3> QED BY <3>1
  <2>2. taken'[m] = taken[m] /\ boots'[m] = boots[m]
    BY <1>3, <2>1 DEF Reboot, NetTypeOK
  <2> QED BY <2>2 DEF TakenInv
<1>4. ASSUME NEW n \in Nodes,
             \/ PhoneConnects(n) \/ PhoneDisconnects(n) \/ AdvWork(n)
             \/ SetPlayerInfo(n) \/ GameOver(n)
             \/ \E kind \in Kinds : Announce(n, kind)
             \/ PlayerState(n) \/ HostStartsGame(n)
             \/ RepeatWork(n) \/ RelayWork(n)
      PROVE  TakenInv'
  BY <1>1, <1>4 DEF PhoneConnects, PhoneDisconnects, AdvWork, SetPlayerInfo,
                    GameOver, Announce, PlayerState, HostStartsGame, RepeatWork, RelayWork
<1>5. CASE UNCHANGED netVars
  BY <1>1, <1>5 DEF netVars
<1> QED BY <1>2, <1>3, <1>4, <1>5 DEF NetNext

LEMMA TakenInvHolds == NetSpec => []TakenInv
<1>1. NetInit => TakenInv
  BY DEF NetInit, TakenInv
<1> QED BY <1>1, TakenInvStep, NetTypeHolds, NamesHold, PTL DEF NetSpec

\* An emitter takes no frame of its own for a peer's, unless it made it before
\* it lost power or before its player was named.
THEOREM NetNoOwnEcho == NetSpec => []NoOwnEcho
<1>1. TakenInv => NoOwnEcho
  BY DEF TakenInv, EntryGood, NoOwnEcho
<1> QED BY <1>1, TakenInvHolds, PTL

\* Between two players whose teams come from the same game, a phone is shown the
\* positions of its own team only, whatever games each has been in before.
THEOREM NetPositionsWithinTeam == NetSpec => []PositionsWithinTeam
<1>1. TakenInv => PositionsWithinTeam
  BY DEF TakenInv, EntryGood, PositionsWithinTeam
<1> QED BY <1>1, TakenInvHolds, PTL

-----------------------------------------------------------------------------
(* What is refused as seen has been seen.                                  *)

\* Who made a frame, when and under which name and number, and which it is: for
\* a frame under way and for one that was taken.
Label(f) == [by |-> f.by, boot |-> f.boot, origin |-> f.origin, seq |-> f.seq, uid |-> f.uid]
EntryLabel(e) ==
  [by |-> e.by, boot |-> e.boot, origin |-> e.key[1], seq |-> e.key[2], uid |-> e.uid]

Labels == [by : Nodes, boot : Nat, origin : Nat, seq : 0 .. SeqMod - 1, uid : Nat]

\* The frames some emitter still has to send or has in its history.
Known ==
  {a \in Labels :
     \E n \in Nodes : \/ \E f \in Carried(n) : a = Label(f)
                      \/ \E i \in DOMAIN taken[n] : a = EntryLabel(taken[n][i])}

\* Between two power losses an emitter gives no number twice, and a frame bears
\* no name but that of its maker's player.
NumberInv ==
  /\ made <= MaxFrames
  /\ \A n \in Nodes : seq[n] <= made
  /\ \A a \in Known :
       /\ a.origin \in {0, IdOf[a.by]}
       /\ a.boot <= boots[a.by]
       /\ a.boot = boots[a.by] => a.seq < seq[a.by]
  /\ \A a, b \in Known : a.by = b.by /\ a.boot = b.boot /\ a.seq = b.seq => a.uid = b.uid

LEMMA KnownStep ==
  ASSUME NetTypeOK, [NetNext]_netVars, NEW a \in Known'
  PROVE  \/ a \in Known
         \/ \E n \in Nodes, kind \in Kinds, roster \in Rosters \cup {NoRoster} :
              BroadcastWithRepeat(n, kind, roster) /\ a = Label(NewFrame(n, kind, roster))
<1> USE DEF identity, teams, outgoing, incoming
<1>0. a \in Labels
  BY DEF Known
<1>1. ASSUME NEW k \in Nodes, NEW f \in Carried(k), a = Label(f) PROVE a \in Known
  BY <1>0, <1>1 DEF Known
<1>2. PICK m \in Nodes : \/ \E g \in Carried(m)' : a = Label(g)
                         \/ \E i \in DOMAIN taken'[m] : a = EntryLabel(taken'[m][i])
  BY DEF Known
<1>3. CASE \E g \in Carried(m)' : a = Label(g)
  <2>1. PICK g \in Carried(m)' : a = Label(g)
    BY <1>3
  <2>2. ASSUME NEW k \in Nodes, NEW f \in Carried(k), g = f \/ g = Relayed(f)
        PROVE  a \in Known
    <3>1. Label(Relayed(f)) = Label(f)
      BY CarriedTyped DEF Relayed, Frames, Label
    <3> QED BY <1>1, <2>1, <2>2, <3>1
  <2> QED BY <2>1, <2>2, CarriedFrom DEF Makes
<1>4. ASSUME NEW i \in DOMAIN taken'[m], a = EntryLabel(taken'[m][i]) PROVE a \in Known
  <2>1. ASSUME NEW j \in DOMAIN taken[m], taken'[m][i] = taken[m][j] PROVE a \in Known
    BY <1>0, <1>4, <2>1 DEF Known
  <2>2. CASE UNCHANGED taken
    BY <2>1, <2>2
  <2>3. ASSUME NEW n \in Nodes, Transmit(n) PROVE a \in Known
    <3> DEFINE f == Head(queue[n])
               entry(k) ==
                 [key |-> Key(f), uid |-> f.uid, by |-> f.by, boot |-> f.boot,
                  stateShown |-> f.kind = "PLAYER_STATE" /\ ForTeam(k, f),
                  game |-> f.game, mine |-> adopted[k]]
    <3>1. PICK takers \in SUBSET Nodes : Process(takers, f)
      BY <2>3 DEF Transmit
    <3>2. f \in Frames /\ f \in Carried(n)
      BY <2>3, HeadTyped DEF Transmit, Carried, Range
    <3>3. taken' = [k \in Nodes |-> IF k \in takers THEN Record(taken[k], entry(k))
                                                    ELSE taken[k]]
      BY <3>1 DEF Process
    <3>4. entry(m) \in Entries /\ EntryLabel(entry(m)) = Label(f)
      BY <3>2, KeyTyped DEF Entries, Frames, NetTypeOK, Key, EntryLabel, Label
    <3> HIDE DEF f, entry
    <3>5. CASE m \notin takers
      BY <2>1, <3>3, <3>5
    <3>6. CASE m \in takers
      <4>1. taken'[m] = Record(taken[m], entry(m)) /\ taken[m] \in Seq(Entries)
        BY <3>3, <3>6 DEF NetTypeOK
      <4>2. taken'[m][i] = entry(m) \/ \E j \in DOMAIN taken[m] : taken'[m][i] = taken[m][j]
        BY <3>4, <4>1, RecordAdds
      <4> QED BY <1>1, <1>4, <2>1, <3>2, <3>4, <4>2
    <3> QED BY <3>5, <3>6
  <2>4. ASSUME NEW n \in Nodes, Reboot(n) PROVE a \in Known
    <3>1. taken'[m] \in {taken[m], <<>>}
      BY <2>4 DEF Reboot, NetTypeOK
    <3> QED BY <2>1, <3>1
  <2>5. ASSUME NEW n \in Nodes,
               \/ PhoneConnects(n) \/ PhoneDisconnects(n) \/ AdvWork(n)
               \/ SetPlayerInfo(n) \/ GameOver(n)
               \/ \E kind \in Kinds : Announce(n, kind)
               \/ PlayerState(n) \/ HostStartsGame(n)
               \/ RepeatWork(n) \/ RelayWork(n)
        PROVE  a \in Known
    BY <2>2, <2>5 DEF PhoneConnects, PhoneDisconnects, AdvWork, SetPlayerInfo,
                      GameOver, Announce, PlayerState, HostStartsGame, RepeatWork, RelayWork
  <2>6. CASE UNCHANGED netVars
    BY <2>2, <2>6 DEF netVars
  <2> QED BY <2>3, <2>4, <2>5, <2>6 DEF NetNext
<1> QED BY <1>2, <1>3, <1>4

\* A step leaves the numbers alone, gives one emitter's next one away, or takes
\* the power of one emitter and starts it again.
LEMMA NumbersStep ==
  ASSUME NetTypeOK, [NetNext]_netVars
  PROVE  \/ UNCHANGED <<seq, boots, made>>
         \/ boots' = boots /\ \E n \in Nodes, kind \in Kinds, roster \in Rosters \cup {NoRoster} :
              BroadcastWithRepeat(n, kind, roster)
         \/ made' = made /\ \E n \in Nodes : Reboot(n)
<1> USE DEF identity, teams, outgoing, incoming
<1>1. ASSUME NEW n \in Nodes, NEW kind \in Kinds, Announce(n, kind)
      PROVE  boots' = boots /\ BroadcastWithRepeat(n, kind, NoRoster)
  BY <1>1 DEF Announce
<1>2. ASSUME NEW n \in Nodes, PlayerState(n)
      PROVE  boots' = boots /\ BroadcastWithRepeat(n, "PLAYER_STATE", NoRoster)
  BY <1>2 DEF PlayerState
<1>3. ASSUME NEW n \in Nodes, HostStartsGame(n)
      PROVE  /\ boots' = boots
             /\ \E roster \in Rosters : BroadcastWithRepeat(n, "GAME_START", roster)
  BY <1>3 DEF HostStartsGame
<1>4. ASSUME NEW n \in Nodes,
             \/ PhoneConnects(n) \/ PhoneDisconnects(n) \/ AdvWork(n)
             \/ SetPlayerInfo(n) \/ GameOver(n)
             \/ RepeatWork(n) \/ RelayWork(n) \/ Transmit(n)
      PROVE  UNCHANGED <<seq, boots, made>>
  BY <1>4 DEF PhoneConnects, PhoneDisconnects, AdvWork, SetPlayerInfo, GameOver,
              RepeatWork, RelayWork, Transmit
<1>5. ASSUME NEW n \in Nodes, Reboot(n) PROVE made' = made
  BY <1>5 DEF Reboot
<1>6. CASE UNCHANGED netVars
  BY <1>6 DEF netVars
<1> QED BY <1>1, <1>2, <1>3, <1>4, <1>5, <1>6, KindAssumption DEF NetNext, Kinds

LEMMA NumberInvStep ==
  ASSUME MaxFrames \in 0 .. SeqMod - 1,
         NetTypeOK, NodeInv, NumberInv, [NetNext]_netVars
  PROVE  NumberInv'
<1>1. /\ made \in Nat /\ made <= MaxFrames /\ MaxFrames \in Nat /\ MaxFrames < SeqMod
      /\ SeqMod \in Nat
      /\ seq \in [Nodes -> 0 .. SeqMod - 1] /\ boots \in [Nodes -> Nat]
      /\ \A n \in Nodes : seq[n] \in Nat /\ boots[n] \in Nat /\ seq[n] <= made
  BY SizeAssumption DEF NetTypeOK, NumberInv
<1>2. \A a \in Known : a \in Labels
  BY DEF Known
\* What a broadcast makes of the numbers, and its label.
<1>3. ASSUME NEW n \in Nodes, NEW kind \in Kinds, NEW roster,
             BroadcastWithRepeat(n, kind, roster)
      PROVE  /\ made < MaxFrames /\ made' = made + 1
             /\ seq' = [seq EXCEPT ![n] = seq[n] + 1]
  <2>1. made < MaxFrames /\ made' = made + 1 /\ seq' = [seq EXCEPT ![n] = (seq[n] + 1) % SeqMod]
    BY <1>3 DEF BroadcastWithRepeat
  <2>2. seq[n] + 1 \in 0 .. SeqMod - 1
    BY <1>1, <2>1
  <2>3. (seq[n] + 1) % SeqMod = seq[n] + 1
    BY ONLY <2>2, <1>1
  <2> QED BY <2>1, <2>3
<1> DEFINE Fresh(a) ==
      /\ made' = made + 1 /\ a.by \in Nodes
      /\ a.boot = boots[a.by] /\ a.origin = ident[a.by] /\ a.seq = seq[a.by]
      /\ a.uid = made + 1 /\ seq'[a.by] = seq[a.by] + 1
<1>4. ASSUME NEW a \in Known' PROVE a \in Known \/ Fresh(a)
  <2>1. ASSUME NEW n \in Nodes, NEW kind \in Kinds, NEW roster,
               BroadcastWithRepeat(n, kind, roster), a = Label(NewFrame(n, kind, roster))
        PROVE  Fresh(a)
    <3>1. /\ a.by = n /\ a.boot = boots[n] /\ a.origin = ident[n] /\ a.seq = seq[n]
          /\ a.uid = made + 1
      BY <2>1 DEF Label, NewFrame
    <3>2. made' = made + 1 /\ seq'[n] = seq[n] + 1
      BY <1>1, <1>3, <2>1
    <3> QED BY <3>1, <3>2
  <2> HIDE DEF Fresh
  <2> QED BY <2>1, KnownStep
<1> DEFINE Grows ==
      /\ made' <= MaxFrames /\ made' \in Nat /\ made <= made'
      /\ \A n \in Nodes :
           /\ seq'[n] \in Nat /\ boots'[n] \in Nat /\ seq'[n] <= made'
           /\ \/ boots'[n] = boots[n] /\ seq[n] <= seq'[n]
              \/ boots'[n] = boots[n] + 1 /\ made' = made
<1>5. Grows
  <2>1. CASE UNCHANGED <<seq, boots, made>>
    BY <1>1, <2>1
  <2>2. ASSUME NEW n \in Nodes, NEW kind \in Kinds, NEW roster,
               BroadcastWithRepeat(n, kind, roster), boots' = boots
        PROVE  Grows
    BY <1>1, <1>3, <2>2
  <2>3. ASSUME NEW n \in Nodes, Reboot(n), made' = made
        PROVE  Grows
    <3>1. boots' = [boots EXCEPT ![n] = boots[n] + 1] /\ seq' = [seq EXCEPT ![n] = 0]
      BY <2>3 DEF Reboot
    <3> QED BY <1>1, <2>3, <3>1
  <2> HIDE DEF Grows
  <2> QED BY <2>1, <2>2, <2>3, NumbersStep
<1>6. ASSUME NEW a \in Known'
      PROVE  /\ a.origin \in {0, IdOf[a.by]}
             /\ a.boot <= boots'[a.by]
             /\ a.boot = boots'[a.by] => a.seq < seq'[a.by]
  <2>1. a.by \in Nodes /\ a.boot \in Nat /\ a.seq \in Nat
    BY DEF Known, Labels
  <2>2. CASE a \in Known
    <3>1. /\ a.origin \in {0, IdOf[a.by]}
          /\ a.boot <= boots[a.by]
          /\ a.boot = boots[a.by] => a.seq < seq[a.by]
      BY <2>2 DEF NumberInv
    <3> QED BY <1>1, <1>5, <2>1, <3>1
  <2>3. CASE Fresh(a)
    <3>1. boots'[a.by] = boots[a.by]
      BY <1>1, <1>5, <2>1, <2>3
    <3>2. ident[a.by] \in {0, IdOf[a.by]}
      BY <2>1 DEF NodeInv
    <3> QED BY <1>1, <2>1, <2>3, <3>1, <3>2
  <2> HIDE DEF Fresh
  <2> QED BY <1>4, <2>2, <2>3
<1>7. ASSUME NEW a \in Known', NEW b \in Known', a.by = b.by, a.boot = b.boot, a.seq = b.seq
      PROVE  a.uid = b.uid
  <2>1. ASSUME NEW c \in Known, NEW d, Fresh(d), c.by = d.by, c.boot = d.boot, c.seq = d.seq
        PROVE  FALSE
    <3>1. c.boot = boots[c.by] => c.seq < seq[c.by]
      BY DEF NumberInv
    <3> QED BY <1>1, <2>1, <3>1
  <2>2. CASE Fresh(a) /\ Fresh(b)
    BY <2>2
  <2>3. CASE a \in Known /\ b \in Known
    BY <1>7, <2>3 DEF NumberInv
  <2> HIDE DEF Fresh
  <2> QED BY <1>4, <1>7, <2>1, <2>2, <2>3
<1> HIDE DEF Fresh
<1> QED BY <1>5, <1>6, <1>7 DEF NumberInv

LEMMA NumbersHold ==
  ASSUME MaxFrames \in 0 .. SeqMod - 1 PROVE NetSpec => []NumberInv
<1>1. NetInit => NumberInv
  <2> SUFFICES ASSUME NetInit PROVE NumberInv
    OBVIOUS
  <2>1. Known = {}
    <3>1. \A n \in Nodes : Carried(n) = {} /\ DOMAIN taken[n] = {}
      BY DEF NetInit, Carried, Range
    <3> QED BY <3>1 DEF Known
  <2>2. made <= MaxFrames /\ \A n \in Nodes : seq[n] <= made
    BY DEF NetInit
  <2> QED BY <2>1, <2>2 DEF NumberInv
<1>2. NetTypeOK /\ NodeInv /\ NumberInv /\ [NetNext]_netVars => NumberInv'
  BY NumberInvStep
<1> QED BY <1>1, <1>2, NetTypeHolds, NamesHold, PTL DEF NetSpec

\* A frame of a named player that an emitter refuses as seen, it has seen, or its
\* maker has lost power since it made the one that was.
SeenOrReborn ==
  \A m, n \in Nodes : \A f \in Carried(m) :
    f.origin # 0 /\ Key(f) \in Range(dedup[n]) =>
      \E i \in DOMAIN taken[n] :
        /\ taken[n][i].by = f.by
        /\ taken[n][i].uid = f.uid \/ taken[n][i].boot # f.boot

LEMMA SeenFrom ==
  ASSUME NetTypeOK, RingInv, NumberInv,
         NEW m \in Nodes, NEW n \in Nodes, NEW f \in Carried(m),
         f.origin # 0, Key(f) \in Range(dedup[n])
  PROVE  \E i \in DOMAIN taken[n] :
           /\ taken[n][i].by = f.by
           /\ taken[n][i].uid = f.uid \/ taken[n][i].boot # f.boot
<1>1. f \in Frames
  BY CarriedTyped
<1>2. taken[n] \in Seq(Entries) /\ dedup[n] \in Seq(Nat \X (0 .. SeqMod - 1))
  BY DEF NetTypeOK
<1>3. PICK i \in DOMAIN taken[n] : taken[n][i].key = Key(f)
  <2>1. PICK j \in DOMAIN dedup[n] : dedup[n][j] = Key(f)
    BY DEF Range
  <2> DEFINE i == Len(taken[n]) - Len(dedup[n]) + j
  <2>2. /\ Len(dedup[n]) = IF Len(taken[n]) <= DedupSize THEN Len(taken[n]) ELSE DedupSize
        /\ dedup[n][j] = taken[n][i].key
    BY DEF RingInv, RingMatches
  <2>3. /\ Len(taken[n]) \in Nat /\ Len(dedup[n]) \in Nat /\ DedupSize \in Nat
        /\ j \in 1 .. Len(dedup[n])
    BY <1>2, SizeAssumption
  <2>4. i \in 1 .. Len(taken[n])
    <3>1. Len(dedup[n]) <= Len(taken[n])
      BY <2>2, <2>3
    <3>2. \A p, q \in Nat : q <= p => \A k \in 1 .. q : p - q + k \in 1 .. p
      OBVIOUS
    <3> QED BY <2>3, <3>1, <3>2
  <2>5. DOMAIN taken[n] = 1 .. Len(taken[n])
    BY <1>2
  <2> QED BY <2>1, <2>2, <2>4, <2>5
<1> DEFINE e == taken[n][i]
<1>4. e \in Entries
  BY <1>2
<1>5. Label(f) \in Known /\ EntryLabel(e) \in Known
  <2>1. Label(f) \in Labels
    BY <1>1 DEF Label, Labels, Frames
  <2>2. EntryLabel(e) \in Labels
    BY <1>4 DEF EntryLabel, Labels, Entries
  <2> QED BY <2>1, <2>2 DEF Known
<1>6. e.key[1] = f.origin /\ e.key[2] = f.seq
  BY <1>3 DEF Key
<1>7. e.by = f.by
  <2>1. Label(f).origin \in {0, IdOf[f.by]} /\ EntryLabel(e).origin \in {0, IdOf[e.by]}
    BY <1>5 DEF NumberInv, Label, EntryLabel
  <2>2. f.by \in Nodes /\ e.by \in Nodes
    BY <1>1, <1>4 DEF Frames, Entries
  <2> QED BY <1>6, <2>1, <2>2, IdAssumption DEF Label, EntryLabel
<1>8. e.boot = f.boot => e.uid = f.uid
  BY <1>5, <1>6, <1>7 DEF NumberInv, Label, EntryLabel
<1> QED BY <1>7, <1>8

\* As long as no emitter has used up its numbers, a frame of a named player that
\* is refused as seen was seen, or its maker has lost power in between: nothing
\* else, repeats, relays and a small ring included, makes two frames look alike.
THEOREM NetSeenOrReborn ==
  ASSUME MaxFrames \in 0 .. SeqMod - 1 PROVE NetSpec => []SeenOrReborn
<1>1. NetTypeOK /\ RingInv /\ NumberInv => SeenOrReborn
  BY SeenFrom DEF SeenOrReborn
<1> QED BY <1>1, NetTypeHolds, RingInvHolds, NumbersHold, PTL

\* Where no emitter ever loses power, what an emitter refuses as seen it has seen:
\* the power loss is what breaks the promise.
THEOREM OnlyPowerLossCollides ==
  ASSUME MaxFrames \in 0 .. SeqMod - 1, \A n \in Nodes : "REBOOT" \notin May[n]
  PROVE  NetSpec => []NoDedupCollision
<1> DEFINE Powered == \A n \in Nodes : boots[n] = 0
<1>1. NetInit => Powered
  BY DEF NetInit
<1>2. NetTypeOK /\ Powered /\ [NetNext]_netVars => Powered'
  <2> SUFFICES ASSUME NetTypeOK, Powered, [NetNext]_netVars PROVE Powered'
    OBVIOUS
  <2>1. ~\E n \in Nodes : Reboot(n)
    BY DEF Reboot
  <2>2. boots' = boots
    BY <2>1, NumbersStep
  <2> QED BY <2>2
<1>3. NetTypeOK /\ RingInv /\ NumberInv /\ Powered => NoDedupCollision
  <2> SUFFICES ASSUME NetTypeOK, RingInv, NumberInv, Powered,
                      NEW m \in Nodes, NEW n \in Nodes, queue[m] # <<>>,
                      Head(queue[m]).origin # 0,
                      Key(Head(queue[m])) \in Range(dedup[n])
               PROVE  \E i \in DOMAIN taken[n] : taken[n][i].uid = Head(queue[m]).uid
    BY DEF NoDedupCollision
  <2> DEFINE f == Head(queue[m])
  <2>1. f \in Frames /\ f \in Carried(m)
    BY HeadTyped DEF Carried, Range
  <2> HIDE DEF f
  <2>2. PICK i \in DOMAIN taken[n] :
          /\ taken[n][i].by = f.by
          /\ taken[n][i].uid = f.uid \/ taken[n][i].boot # f.boot
    BY <2>1, SeenFrom DEF f
  <2>3. taken[n][i] \in Entries
    BY DEF NetTypeOK
  <2>4. Label(f) \in Known /\ EntryLabel(taken[n][i]) \in Known
    <3>1. Label(f) \in Labels
      BY <2>1 DEF Label, Labels, Frames
    <3>2. EntryLabel(taken[n][i]) \in Labels
      BY <2>3 DEF EntryLabel, Labels, Entries
    <3> QED BY <2>1, <3>1, <3>2 DEF Known
  <2>5. f.boot \in Nat /\ f.by \in Nodes
    BY <2>1 DEF Frames
  <2>6. taken[n][i].boot \in Nat
    BY <2>3 DEF Entries
  <2>7. f.boot <= boots[f.by] /\ taken[n][i].boot <= boots[taken[n][i].by]
    BY <2>4 DEF NumberInv, Label, EntryLabel
  <2>8. f.boot = 0 /\ taken[n][i].boot = 0
    BY <2>2, <2>5, <2>6, <2>7
  <2> QED BY <2>2, <2>8 DEF f
<1> HIDE DEF Powered
<1> QED BY <1>1, <1>2, <1>3, NetTypeHolds, RingInvHolds, NumbersHold, PTL DEF NetSpec
=============================================================================
