SPECIFICATION LiveSpec
CONSTANTS
  a = a
  b = b
  d = d
  t = t
  u = u
  Unbound = Unbound
  Ports <- AllPorts
  Privileged <- OnlyD
  Tenants <- OneTenant
  Clis = {c}
  CliOps = {}
  Policies <- TwoPolicies
  RealSets <- NoReal
  Targets = {}
  Skip = {}
  Seed <- SeedA
  Centrals = {}
  Edits <- EditsAB
  MaxEdits = 1
  RuntimeDirKept = TRUE
PROPERTIES ReloadApplied CtlAnswered
