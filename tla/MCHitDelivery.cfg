CONSTANTS
  Me = Me
  None = None
  Configs = {}
  WordMod = 1
  RateCap = 0
  AmmoGrants = {}
  IssueBound = 0
  PullBound = 0
  LinkCap = 3
  Players = {1}
  PacketIds = {1, 2}
  Inputs = {"BROADCAST_GAME_CFG", "RESPAWN", "GAME_OVER", "DROP", "REBOOT"}
  GameConfigs <- MCGameConfigs
  HitDedupSize = 1
  Peers <- MCPeers
  LsbOf <- MCLsbOf
  Shooters = {1}
  HitRetryMax = 3
  FreshIds = TRUE
  MaxHits = 3
  VestInputs = {"SHOTS"}
SPECIFICATION HpSpec
INVARIANTS AckMeansDelivered VestFollows
PROPERTY CountedAtMostOnce
