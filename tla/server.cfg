SPECIFICATION LiveSpec
CONSTANTS
  l1 = l1
  l2 = l2
  c1 = c1
  mute = mute
  Loaders <- TwoLoaders
  Clients <- TwoClients
  Silent <- OnlyMute
  Lsn = {1, 2, 3, 4}
  None = None
  LockApart = TRUE
  MaxFaults = 2
INVARIANTS TypeOK NoDeadSocket LockOutlivesThread
PROPERTIES ServesOneByOne SocketKept   
