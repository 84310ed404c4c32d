CONSTANTS
  host = host
  mate = mate
  rival = rival
  Nodes <- MCNodes
  IdOf <- MCIdOf
  JoinTeams = {0}
  Rosters <- MCRosters
  Repeats <- MCRepeats
  DefaultTtl = 1
  DedupSize = 1
  TxQueueSize = 1
  SeqMod = 4
  NoFrame = NoFrame
  MaxFrames = 2
  MaxReboots = 1
  May <- MCMay
SPECIFICATION MCSpec
INVARIANTS NetTypeOK OncePerWindow NoOwnEcho PositionsWithinTeam
PROPERTY FloodsDie
