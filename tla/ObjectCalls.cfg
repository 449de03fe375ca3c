CONSTANTS
  Keys <- MCKeys
  Folder = {}
  DeleteBatchLimit = 1
  Faults = {"accessDenied", "canceled", "internalError"}
  Drivers = {"aws", "minio", "alibaba", "tencent", "huawei", "volcengine", "gcs", "azure", "qiniu", "upyun"}
  Bucket = "b"
  Writers <- MCWriters
  MaxSaves = 2
  MaxOthers = 1
  MaxLate = 1
SPECIFICATION Spec
CHECK_DEADLOCK FALSE
INVARIANTS
  AckedUpdateNotLost NothingHalfDone DeleteManyAccounts CopyIsFaithful RangeIsExact
