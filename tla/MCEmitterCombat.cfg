CONSTANTS
  Configs <- MCConfigs
  WordMod = 4
  RateCap = 1
  AmmoGrants <- MCAmmoGrants
  IssueBound = 5
  LinkCap = 0
  Players = {1}
  PacketIds = {1, 2}
  Inputs <- CombatInputs
  GameConfigs = {}
  HitDedupSize = 1
  PullBound = 2
SPECIFICATION EmSpec
INVARIANTS
  EmTypeOK
  ReloadNeverStuck
  LifeMatchesState
  HeartbeatInGame
  AmmoNeverMinted
  AmmoNeverLost
PROPERTIES
  OneShotPerPull
  LoadsToSizeOrAll
