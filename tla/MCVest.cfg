CONSTANTS
  e1 = e1
  e2 = e2
  None = None
  LinkCap = 1
  Players = {1}
  PacketIds = {1, 2}
  Peers <- MCPeers
  LsbOf <- MCLsbOf
  Shooters = {1}
  HitRetryMax = 3
  FreshIds = FALSE
  MaxHits = 2
  VestInputs = {"PAIRING", "SHOTS", "VEST_REBOOT"}
SPECIFICATION VestSpec
INVARIANTS
  VestTypeOK
  RetryArmed
  BindingMatchesState
  BoundToTheAimed
  Reconnectable
  SilentWhenUnpaired
PROPERTY HitSettled
