CONSTANTS
  Keys <- MCKeys
  Folder = {}
  DeleteBatchLimit = 1
  Faults = {"accessDenied", "canceled"}
  Drivers = {"aws", "minio", "alibaba", "tencent", "huawei", "volcengine", "gcs", "azure", "qiniu", "upyun"}
  Bucket = "b"
  Providers <- MCProviders
  Owners = {"first", "second"}
  Callers = {"p"}
  None = None
  Unknown = "unknown"
  Configs <- MCConfigs
  Lives <- MCLives
  MaxBuckets = 2
SPECIFICATION Spec
CHECK_DEADLOCK FALSE
INVARIANTS
  FirstFactoryServes GrantLifeBounded UnsupportedIsReported
