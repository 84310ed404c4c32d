CONSTANTS
  Configs <- SessionConfigs
  WordMod = 2
  RateCap = 0
  AmmoGrants = {}
  IssueBound = 0
  LinkCap = 1
  Players = {1}
  PacketIds = {1, 2}
  Inputs <- SessionInputs
  GameConfigs <- SessionGameConfigs
  HitDedupSize = 1
  PullBound = 0
SPECIFICATION EmSpec
INVARIANTS
  LifeMatchesState
  HeartbeatInGame
  LobbyAnnounced
