CONSTANTS
  Keys <- MCKeys
  Folder = {}
  DeleteBatchLimit = 1
  Faults = {"accessDenied", "canceled"}
  Drivers = {"azure"}
  Bucket = "b"
  Writers <- MCWriters
  MaxSaves = 2
  MaxOthers = 1
  MaxLate = 1
SPECIFICATION Spec
CHECK_DEADLOCK FALSE
INVARIANT FirstWriteWins
