------------------------------ MODULE MCMeshNet ------------------------------
(* Instances of MeshNet for TLC: three emitters and two rosters, of which  *)
(* one puts a player who joins late into the team that the other leaves.   *)
EXTENDS MeshNet, TLC

CONSTANTS host, mate, rival

MCNodes == {host, mate, rival}
MCIdOf == [n \in Nodes |-> CASE n = host -> 1 [] n = mate -> 2 [] n = rival -> 3]
First == host :> 0 @@ mate :> 0 @@ rival :> 1
Second == host :> 1 @@ rival :> 0
MCRosters == {First, Second}
MCMay == [n \in Nodes |-> CASE n = host -> {"HOST"}
                            [] n = mate -> {"LOBBY", "LEAVE"}
                            [] n = rival -> {"DROP", "REBOOT", "REJOIN"}]
\* Of the emitters that make frames one loses power.
MCRebootMay == [MCMay EXCEPT ![mate] = @ \cup {"REBOOT"}]
MCRepeats == [GAME_START |-> 1, PLAYER_STATE |-> 1, LOBBY_STATE |-> 2]

\* A state with two games: all three play the first, whose frame is gone and
\* not counted, and the host has just started the second.
Underway ==
  /\ phone = [n \in Nodes |-> "connected"]
  /\ ident = IdOf
  /\ games = <<First, Second>>
  /\ adopted = [n \in Nodes |-> IF n = host THEN 2 ELSE 1]
  /\ team = [n \in Nodes |-> games[adopted[n]][n]]
  /\ inGame = [n \in Nodes |-> TRUE]
  /\ seq = [n \in Nodes |-> IF n = host THEN 2 ELSE 0]
  /\ dedup = [n \in Nodes |-> IF n = host THEN <<>> ELSE <<(<<1, 0>>)>>]
  /\ taken = [n \in Nodes |->
       IF n = host THEN <<>>
       ELSE <<[key |-> <<1, 0>>, uid |-> 0, by |-> host, boot |-> 0,
               stateShown |-> FALSE, game |-> 1, mine |-> 0]>>]
  /\ queue = [n \in Nodes |->
       IF n = host
       THEN <<[kind |-> "GAME_START", origin |-> 1, seq |-> 1, ttl |-> DefaultTtl,
               roster |-> Second, team |-> 0, game |-> 2, uid |-> 1, by |-> host, boot |-> 0]>>
       ELSE <<>>]
  /\ repeatBuf = [n \in Nodes |-> NoFrame] /\ repeatLeft = [n \in Nodes |-> 0]
  /\ relayBuf = [n \in Nodes |-> NoFrame]
  /\ made = 1
  /\ boots = [n \in Nodes |-> 0]

MCSpec == (NetInit \/ Underway) /\ [][NetNext]_netVars /\ NetFairness
=============================================================================
