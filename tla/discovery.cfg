SPECIFICATION LiveSpec
CONSTANTS
  MaxPort = 7
  Capacity = 5
  Sorted <- InOrder
  Root <- conf
  Canon <- Follow
  Join <- InDir
  Missing = Missing
  Requests <- SomeRequests
  Trees <- AllTrees
  Inner = {1}
  MaxEdits = 1
INVARIANTS TypeOK FillExact FillRefused BulkExact ReadOnce 
PROPERTIES Decided
CHECK_DEADLOCK FALSE
