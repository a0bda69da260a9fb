SPECIFICATION LiveSpec
CONSTANTS
  unit = unit
  hand = hand
  Ports = {p, q}
  Inst = {1,2,3,4,5}
  None = None
  Loaders <- Both
  Unit = unit
  RuntimeDirKept = TRUE
  UnpinAlone = TRUE
  MaxKills = 3
INVARIANTS TypeOK OwnerHoldsPins ClosedStaysClosed NeverDropsPrimary
PROPERTIES SteeringSurvives ServesAgain
