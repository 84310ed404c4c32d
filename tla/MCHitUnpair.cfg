CONSTANTS
  Me = Me
  None = None
  Configs = {}
  WordMod = 1
  RateCap = 0
  AmmoGrants = {}
  IssueBound = 0
  PullBound = 0
  LinkCap = 2
  Players = {1}
  PacketIds = {1}
  Inputs = {"UNPAIR_VEST"}
  GameConfigs <- MCGameConfigs
  HitDedupSize = 1
  Peers <- MCPeers
  LsbOf <- MCLsbOf
  Shooters = {1}
  HitRetryMax = 2
  FreshIds = TRUE
  MaxHits = 0
  VestInputs = {"SHOTS"}
SPECIFICATION HpSpec
INVARIANT UnpairHolds
