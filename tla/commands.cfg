SPECIFICATION CommandSpec
CONSTANTS
  a = a
  b = b
  d = d
  t = t
  u = u
  Unbound = Unbound
  Ports <- PortsAB
  Privileged = {}
  Tenants <- OneTenant
  Clis = {c}
  CliOps = {"open", "close", "import", "central", "openmode"}
  Policies <- Rivals
  RealSets <- RealB
  Targets = {}
  Skip = {}
  Seed <- SeedA
  Centrals <- CentralA
  Edits = {}
  MaxEdits = 0
  RuntimeDirKept = TRUE
INVARIANTS FileAdmissible
