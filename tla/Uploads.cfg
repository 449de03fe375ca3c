CONSTANTS
  Keys <- MCKeys
  Folder = {}
  DeleteBatchLimit = 1
  Faults = {"accessDenied", "canceled"}
  Drivers = {"aws", "minio", "alibaba", "tencent", "huawei", "volcengine", "gcs", "azure", "qiniu", "upyun"}
  Bucket = "b"
  Callers = {p, q}
  PartNumbers <- MCParts
  MaxUploads = 2
  MaxSends = 4
  MaxLate = 1
SYMMETRY Symmetry
CONSTRAINT FirstKeyFirst
SPECIFICATION Spec
CHECK_DEADLOCK FALSE
INVARIANTS
  CompleteMatchesAcks NotFoundMeansPublished AbortIsFinal
