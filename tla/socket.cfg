SPECIFICATION SocketSpec
CONSTANTS
  a = a
  b = b
  d = d
  t = t
  u = u
  Unbound = Unbound
  Ports <- AllPorts
  Privileged <- OnlyD
  Tenants <- TwoTenants
  Clis = {c}
  CliOps = {"freeze"}
  Policies <- Rivals
  RealSets <- RealMaybeB
  Targets = {}
  Skip = {}
  Seed <- SeedA
  Centrals = {}
  Edits = {}
  MaxEdits = 0
  RuntimeDirKept = TRUE
INVARIANTS InSync MapAdmissible
PROPERTIES KeepsPromise
