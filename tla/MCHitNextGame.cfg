CONSTANTS
  Me = Me
  None = None
  Configs = {}
  WordMod = 1
  RateCap = 0
  AmmoGrants = {}
  IssueBound = 0
  PullBound = 0
  LinkCap = 6
  Players = {1}
  PacketIds = {1, 2}
  Inputs = {"BROADCAST_GAME_CFG", "GAME_OVER"}
  GameConfigs <- MCGameConfigs
  HitDedupSize = 1
  Peers <- MCPeers
  LsbOf <- MCLsbOf
  Shooters = {1}
  HitRetryMax = 2
  FreshIds = TRUE
  MaxHits = 2
  VestInputs = {"SHOTS"}
SPECIFICATION HpSpec
INVARIANT NextGameHeard
