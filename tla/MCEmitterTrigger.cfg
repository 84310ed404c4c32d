CONSTANTS
  Configs <- MCConfigs
  WordMod = 8
  RateCap = 1
  AmmoGrants <- MCAmmoGrants
  IssueBound = 3
  LinkCap = 0
  Players = {1}
  PacketIds = {1, 2}
  Inputs <- CombatInputs
  GameConfigs = {}
  HitDedupSize = 1
  PullBound = 2
SPECIFICATION EmSpec
INVARIANT TriggerSettles
