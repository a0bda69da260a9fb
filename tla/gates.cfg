SPECIFICATION Spec
CONSTANTS
  a = a
  b = b
  d = d
  t = t
  u = u
  Unbound = Unbound
  Ports <- AllPorts
  Privileged <- OnlyD
  Tenants <- OneTenant
  Clis = {c}
  CliOps = {"overlay", "drop", "reconcile", "central", "closeall", "freeze"}
  Policies <- OnePolicy
  RealSets <- RealB
  Targets <- OnlyB
  Skip = {}
  Seed <- SeedA
  Centrals <- CentralB
  Edits <- EditsD
  MaxEdits = 1
  RuntimeDirKept = TRUE
INVARIANTS TypeOK DualTrack NeverRefused
PROPERTIES EmergencyCloseHolds
