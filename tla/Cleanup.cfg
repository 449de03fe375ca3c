CONSTANTS
  Keys <- MCKeys
  Folder <- MCFolder
  Uploads <- MCUploads
  DeleteBatchLimit = 1
  Faults = {"accessDenied", "internalError"}
  Drivers = {"aws", "minio", "alibaba", "tencent", "huawei", "volcengine", "gcs", "azure", "qiniu", "upyun"}
  Bucket = "b"
  CleanupBatchSize = 2
  MaxLate = 1
SPECIFICATION Spec
INVARIANT SilentMeansClean
PROPERTY CleanupEnds
CHECK_DEADLOCK FALSE
