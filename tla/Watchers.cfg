SPECIFICATION WatchersSpec
CONSTANTS
  Parts = {"monitor", "phones"}
  MaxFaults = 2
  RowIds = {1, 2, 3, 4}
  Garbled = {4}
  Phones = {w1, w2}
  BatchSize = 2
  Permits = 1
  MaxChanges = 1
  MaxInstalls = 2
PROPERTIES Follows Rotates
CHECK_DEADLOCK FALSE
