------------------------------- MODULE Client --------------------------------
(* The interfaces of pkg/uos/client.go over the drivers: a call goes to the  *)
(* driver of the client c.  Each operator is the set of outcomes the call    *)
(* can have when the service and the driver's registry of uploads are s.     *)
EXTENDS ObjectService

Aws == INSTANCE AwsDriver
Minio == INSTANCE MinioDriver
Alibaba == INSTANCE AlibabaDriver
Tencent == INSTANCE TencentDriver
Huawei == INSTANCE HuaweiDriver
Volcengine == INSTANCE VolcengineDriver
Gcs == INSTANCE GcsDriver
Azure == INSTANCE AzureDriver
Qiniu == INSTANCE QiniuDriver
Upyun == INSTANCE UpyunDriver

AllDrivers == {"aws", "minio", "alibaba", "tencent", "huawei",
               "volcengine", "gcs", "azure", "qiniu", "upyun"}

(* Requests: the zero value of every field of the request structs.  Keys and *)
(* tokens are positions of a listing, 0 for none; times are half seconds.    *)
NoBody == [nil |-> TRUE, bytes |-> <<>>, fails |-> FALSE]
BodyOf(bytes) == [nil |-> FALSE, bytes |-> bytes, fails |-> FALSE]
Request ==
  [bucket |-> "", key |-> 0, body |-> NoBody, size |-> 0, meta |-> "nil",
   ctype |-> "none", match |-> {}, noneMatch |-> "", first |-> 0, last |-> 0 - 1,
   whole |-> TRUE, keys |-> <<>>, quiet |-> FALSE, srcBucket |-> "", srcKey |-> 0,
   directive |-> "", token |-> 0, startAfter |-> 0, delim |-> FALSE, max |-> 0,
   id |-> 0, pn |-> 0, parts |-> <<>>, expires |-> 0, method |-> "GET",
   upload |-> FALSE, override |-> 0, name |-> "", region |-> FALSE]

(* A view of the client on one bucket; Upyun is bound to one besides.        *)
View(c, bucket) == [f \in DOMAIN c \cup {"bucket", "bound"} |->
                      IF f \in DOMAIN c THEN c[f] ELSE bucket]

\* A view of an open client of the driver d with all that its calls may need.
Serving(d, bucket) ==
  View([drv |-> d, scheme |-> "hmac", live |-> TRUE, signs |-> TRUE,
        project |-> TRUE, endpoint |-> "ok"], bucket)

(* The report *)
Supported(d) ==
  CASE d = "aws" -> Aws!Supported [] d = "minio" -> Minio!Supported
    [] d = "alibaba" -> Alibaba!Supported [] d = "tencent" -> Tencent!Supported
    [] d = "huawei" -> Huawei!Supported [] d = "volcengine" -> Volcengine!Supported
    [] d = "gcs" -> Gcs!Supported [] d = "azure" -> Azure!Supported
    [] d = "qiniu" -> Qiniu!Supported [] d = "upyun" -> Upyun!Supported
Conditional(d) ==
  CASE d = "aws" -> Aws!Conditional [] d = "minio" -> Minio!Conditional
    [] d = "alibaba" -> Alibaba!Conditional [] d = "tencent" -> Tencent!Conditional
    [] d = "huawei" -> Huawei!Conditional [] d = "volcengine" -> Volcengine!Conditional
    [] d = "gcs" -> Gcs!Conditional [] d = "azure" -> Azure!Conditional
    [] d = "qiniu" -> Qiniu!Conditional [] d = "upyun" -> Upyun!Conditional

(* Factory and Client *)
Validate(d, cfg) ==
  CASE d = "aws" -> Aws!Validate(cfg) [] d = "minio" -> Minio!Validate(cfg)
    [] d = "alibaba" -> Alibaba!Validate(cfg) [] d = "tencent" -> Tencent!Validate(cfg)
    [] d = "huawei" -> Huawei!Validate(cfg) [] d = "volcengine" -> Volcengine!Validate(cfg)
    [] d = "gcs" -> Gcs!Validate(cfg) [] d = "azure" -> Azure!Validate(cfg)
    [] d = "qiniu" -> Qiniu!Validate(cfg) [] d = "upyun" -> Upyun!Validate(cfg)
Opened(d, cfg) ==
  CASE d = "aws" -> Aws!Opened(cfg) [] d = "minio" -> Minio!Opened(cfg)
    [] d = "alibaba" -> Alibaba!Opened(cfg) [] d = "tencent" -> Tencent!Opened(cfg)
    [] d = "huawei" -> Huawei!Opened(cfg) [] d = "volcengine" -> Volcengine!Opened(cfg)
    [] d = "gcs" -> Gcs!Opened(cfg) [] d = "azure" -> Azure!Opened(cfg)
    [] d = "qiniu" -> Qiniu!Opened(cfg) [] d = "upyun" -> Upyun!Opened(cfg)
Close(c) ==
  CASE c.drv = "aws" -> Aws!Close(c) [] c.drv = "minio" -> Minio!Close(c)
    [] c.drv = "alibaba" -> Alibaba!Close(c) [] c.drv = "tencent" -> Tencent!Close(c)
    [] c.drv = "huawei" -> Huawei!Close(c) [] c.drv = "volcengine" -> Volcengine!Close(c)
    [] c.drv = "gcs" -> Gcs!Close(c) [] c.drv = "azure" -> Azure!Close(c)
    [] c.drv = "qiniu" -> Qiniu!Close(c) [] c.drv = "upyun" -> Upyun!Close(c)

(* BucketService *)
ListBuckets(c, s, r) ==
  CASE c.drv = "aws" -> Aws!ListBuckets(c, s, r)
    [] c.drv = "minio" -> Minio!ListBuckets(c, s, r)
    [] c.drv = "alibaba" -> Alibaba!ListBuckets(c, s, r)
    [] c.drv = "tencent" -> Tencent!ListBuckets(c, s, r)
    [] c.drv = "huawei" -> Huawei!ListBuckets(c, s, r)
    [] c.drv = "volcengine" -> Volcengine!ListBuckets(c, s, r)
    [] c.drv = "gcs" -> Gcs!ListBuckets(c, s, r)
    [] c.drv = "azure" -> Azure!ListBuckets(c, s, r)
    [] c.drv = "qiniu" -> Qiniu!ListBuckets(c, s, r)
    [] c.drv = "upyun" -> Upyun!ListBuckets(c, s, r)
CreateBucket(c, s, r) ==
  CASE c.drv = "aws" -> Aws!CreateBucket(c, s, r)
    [] c.drv = "minio" -> Minio!CreateBucket(c, s, r)
    [] c.drv = "alibaba" -> Alibaba!CreateBucket(c, s, r)
    [] c.drv = "tencent" -> Tencent!CreateBucket(c, s, r)
    [] c.drv = "huawei" -> Huawei!CreateBucket(c, s, r)
    [] c.drv = "volcengine" -> Volcengine!CreateBucket(c, s, r)
    [] c.drv = "gcs" -> Gcs!CreateBucket(c, s, r)
    [] c.drv = "azure" -> Azure!CreateBucket(c, s, r)
    [] c.drv = "qiniu" -> Qiniu!CreateBucket(c, s, r)
    [] c.drv = "upyun" -> Upyun!CreateBucket(c, s, r)
StatBucket(c, s, r) ==
  CASE c.drv = "aws" -> Aws!StatBucket(c, s, r)
    [] c.drv = "minio" -> Minio!StatBucket(c, s, r)
    [] c.drv = "alibaba" -> Alibaba!StatBucket(c, s, r)
    [] c.drv = "tencent" -> Tencent!StatBucket(c, s, r)
    [] c.drv = "huawei" -> Huawei!StatBucket(c, s, r)
    [] c.drv = "volcengine" -> Volcengine!StatBucket(c, s, r)
    [] c.drv = "gcs" -> Gcs!StatBucket(c, s, r)
    [] c.drv = "azure" -> Azure!StatBucket(c, s, r)
    [] c.drv = "qiniu" -> Qiniu!StatBucket(c, s, r)
    [] c.drv = "upyun" -> Upyun!StatBucket(c, s, r)
DeleteBucket(c, s, r) ==
  CASE c.drv = "aws" -> Aws!DeleteBucket(c, s, r)
    [] c.drv = "minio" -> Minio!DeleteBucket(c, s, r)
    [] c.drv = "alibaba" -> Alibaba!DeleteBucket(c, s, r)
    [] c.drv = "tencent" -> Tencent!DeleteBucket(c, s, r)
    [] c.drv = "huawei" -> Huawei!DeleteBucket(c, s, r)
    [] c.drv = "volcengine" -> Volcengine!DeleteBucket(c, s, r)
    [] c.drv = "gcs" -> Gcs!DeleteBucket(c, s, r)
    [] c.drv = "azure" -> Azure!DeleteBucket(c, s, r)
    [] c.drv = "qiniu" -> Qiniu!DeleteBucket(c, s, r)
    [] c.drv = "upyun" -> Upyun!DeleteBucket(c, s, r)

(* ObjectService *)
PutObject(c, s, r) ==
  CASE c.drv = "aws" -> Aws!PutObject(c, s, r)
    [] c.drv = "minio" -> Minio!PutObject(c, s, r)
    [] c.drv = "alibaba" -> Alibaba!PutObject(c, s, r)
    [] c.drv = "tencent" -> Tencent!PutObject(c, s, r)
    [] c.drv = "huawei" -> Huawei!PutObject(c, s, r)
    [] c.drv = "volcengine" -> Volcengine!PutObject(c, s, r)
    [] c.drv = "gcs" -> Gcs!PutObject(c, s, r)
    [] c.drv = "azure" -> Azure!PutObject(c, s, r)
    [] c.drv = "qiniu" -> Qiniu!PutObject(c, s, r)
    [] c.drv = "upyun" -> Upyun!PutObject(c, s, r)
GetObject(c, s, r) ==
  CASE c.drv = "aws" -> Aws!GetObject(c, s, r)
    [] c.drv = "minio" -> Minio!GetObject(c, s, r)
    [] c.drv = "alibaba" -> Alibaba!GetObject(c, s, r)
    [] c.drv = "tencent" -> Tencent!GetObject(c, s, r)
    [] c.drv = "huawei" -> Huawei!GetObject(c, s, r)
    [] c.drv = "volcengine" -> Volcengine!GetObject(c, s, r)
    [] c.drv = "gcs" -> Gcs!GetObject(c, s, r)
    [] c.drv = "azure" -> Azure!GetObject(c, s, r)
    [] c.drv = "qiniu" -> Qiniu!GetObject(c, s, r)
    [] c.drv = "upyun" -> Upyun!GetObject(c, s, r)
HeadObject(c, s, r) ==
  CASE c.drv = "aws" -> Aws!HeadObject(c, s, r)
    [] c.drv = "minio" -> Minio!HeadObject(c, s, r)
    [] c.drv = "alibaba" -> Alibaba!HeadObject(c, s, r)
    [] c.drv = "tencent" -> Tencent!HeadObject(c, s, r)
    [] c.drv = "huawei" -> Huawei!HeadObject(c, s, r)
    [] c.drv = "volcengine" -> Volcengine!HeadObject(c, s, r)
    [] c.drv = "gcs" -> Gcs!HeadObject(c, s, r)
    [] c.drv = "azure" -> Azure!HeadObject(c, s, r)
    [] c.drv = "qiniu" -> Qiniu!HeadObject(c, s, r)
    [] c.drv = "upyun" -> Upyun!HeadObject(c, s, r)
DeleteObject(c, s, r) ==
  CASE c.drv = "aws" -> Aws!DeleteObject(c, s, r)
    [] c.drv = "minio" -> Minio!DeleteObject(c, s, r)
    [] c.drv = "alibaba" -> Alibaba!DeleteObject(c, s, r)
    [] c.drv = "tencent" -> Tencent!DeleteObject(c, s, r)
    [] c.drv = "huawei" -> Huawei!DeleteObject(c, s, r)
    [] c.drv = "volcengine" -> Volcengine!DeleteObject(c, s, r)
    [] c.drv = "gcs" -> Gcs!DeleteObject(c, s, r)
    [] c.drv = "azure" -> Azure!DeleteObject(c, s, r)
    [] c.drv = "qiniu" -> Qiniu!DeleteObject(c, s, r)
    [] c.drv = "upyun" -> Upyun!DeleteObject(c, s, r)
ExistsObject(c, s, r) ==
  CASE c.drv = "aws" -> Aws!ExistsObject(c, s, r)
    [] c.drv = "minio" -> Minio!ExistsObject(c, s, r)
    [] c.drv = "alibaba" -> Alibaba!ExistsObject(c, s, r)
    [] c.drv = "tencent" -> Tencent!ExistsObject(c, s, r)
    [] c.drv = "huawei" -> Huawei!ExistsObject(c, s, r)
    [] c.drv = "volcengine" -> Volcengine!ExistsObject(c, s, r)
    [] c.drv = "gcs" -> Gcs!ExistsObject(c, s, r)
    [] c.drv = "azure" -> Azure!ExistsObject(c, s, r)
    [] c.drv = "qiniu" -> Qiniu!ExistsObject(c, s, r)
    [] c.drv = "upyun" -> Upyun!ExistsObject(c, s, r)
DeleteMany(c, s, r) ==
  CASE c.drv = "aws" -> Aws!DeleteMany(c, s, r)
    [] c.drv = "minio" -> Minio!DeleteMany(c, s, r)
    [] c.drv = "alibaba" -> Alibaba!DeleteMany(c, s, r)
    [] c.drv = "tencent" -> Tencent!DeleteMany(c, s, r)
    [] c.drv = "huawei" -> Huawei!DeleteMany(c, s, r)
    [] c.drv = "volcengine" -> Volcengine!DeleteMany(c, s, r)
    [] c.drv = "gcs" -> Gcs!DeleteMany(c, s, r)
    [] c.drv = "azure" -> Azure!DeleteMany(c, s, r)
    [] c.drv = "qiniu" -> Qiniu!DeleteMany(c, s, r)
    [] c.drv = "upyun" -> Upyun!DeleteMany(c, s, r)
CopyObject(c, s, r) ==
  CASE c.drv = "aws" -> Aws!CopyObject(c, s, r)
    [] c.drv = "minio" -> Minio!CopyObject(c, s, r)
    [] c.drv = "alibaba" -> Alibaba!CopyObject(c, s, r)
    [] c.drv = "tencent" -> Tencent!CopyObject(c, s, r)
    [] c.drv = "huawei" -> Huawei!CopyObject(c, s, r)
    [] c.drv = "volcengine" -> Volcengine!CopyObject(c, s, r)
    [] c.drv = "gcs" -> Gcs!CopyObject(c, s, r)
    [] c.drv = "azure" -> Azure!CopyObject(c, s, r)
    [] c.drv = "qiniu" -> Qiniu!CopyObject(c, s, r)
    [] c.drv = "upyun" -> Upyun!CopyObject(c, s, r)
ListObjects(c, s, r) ==
  CASE c.drv = "aws" -> Aws!ListObjects(c, s, r)
    [] c.drv = "minio" -> Minio!ListObjects(c, s, r)
    [] c.drv = "alibaba" -> Alibaba!ListObjects(c, s, r)
    [] c.drv = "tencent" -> Tencent!ListObjects(c, s, r)
    [] c.drv = "huawei" -> Huawei!ListObjects(c, s, r)
    [] c.drv = "volcengine" -> Volcengine!ListObjects(c, s, r)
    [] c.drv = "gcs" -> Gcs!ListObjects(c, s, r)
    [] c.drv = "azure" -> Azure!ListObjects(c, s, r)
    [] c.drv = "qiniu" -> Qiniu!ListObjects(c, s, r)
    [] c.drv = "upyun" -> Upyun!ListObjects(c, s, r)

(* MultipartService *)
InitiateUpload(c, s, r) ==
  CASE c.drv = "aws" -> Aws!InitiateUpload(c, s, r)
    [] c.drv = "minio" -> Minio!InitiateUpload(c, s, r)
    [] c.drv = "alibaba" -> Alibaba!InitiateUpload(c, s, r)
    [] c.drv = "tencent" -> Tencent!InitiateUpload(c, s, r)
    [] c.drv = "huawei" -> Huawei!InitiateUpload(c, s, r)
    [] c.drv = "volcengine" -> Volcengine!InitiateUpload(c, s, r)
    [] c.drv = "gcs" -> Gcs!InitiateUpload(c, s, r)
    [] c.drv = "azure" -> Azure!InitiateUpload(c, s, r)
    [] c.drv = "qiniu" -> Qiniu!InitiateUpload(c, s, r)
    [] c.drv = "upyun" -> Upyun!InitiateUpload(c, s, r)
UploadPartGet(c, s, r) ==
  CASE c.drv = "aws" -> Aws!UploadPartGet(c, s, r)
    [] c.drv = "minio" -> Minio!UploadPartGet(c, s, r)
    [] c.drv = "alibaba" -> Alibaba!UploadPartGet(c, s, r)
    [] c.drv = "tencent" -> Tencent!UploadPartGet(c, s, r)
    [] c.drv = "huawei" -> Huawei!UploadPartGet(c, s, r)
    [] c.drv = "volcengine" -> Volcengine!UploadPartGet(c, s, r)
    [] c.drv = "gcs" -> Gcs!UploadPartGet(c, s, r)
    [] c.drv = "azure" -> Azure!UploadPartGet(c, s, r)
    [] c.drv = "qiniu" -> Qiniu!UploadPartGet(c, s, r)
    [] c.drv = "upyun" -> Upyun!UploadPartGet(c, s, r)
\* What UploadPart does behind its guards.
UploadPartRest(c, s, r) ==
  CASE c.drv = "aws" -> Aws!UploadPartSend(c, s, r)
    [] c.drv = "minio" -> Minio!UploadPartSend(c, s, r)
    [] c.drv = "alibaba" -> Alibaba!UploadPartSend(c, s, r)
    [] c.drv = "tencent" -> Tencent!UploadPartSend(c, s, r)
    [] c.drv = "huawei" -> Huawei!UploadPartSend(c, s, r)
    [] c.drv = "volcengine" -> Volcengine!UploadPartSend(c, s, r)
    [] c.drv = "gcs" -> Gcs!UploadPartLocked(c, s, r)
    [] c.drv = "azure" -> Azure!UploadPartStage(c, s, r)
    [] c.drv = "qiniu" -> Qiniu!UploadPartSend(c, s, r)
    [] c.drv = "upyun" -> Upyun!UploadPartSent(c, s, r)
\* Complete up to where a driver with a registry of its own has the session;
\* {} to go on.  TakeUpload is what going on does to the registry.
CompleteUploadGet(c, s, r) ==
  CASE c.drv = "gcs" -> Gcs!CompleteUploadGet(c, s, r)
    [] c.drv = "azure" -> Azure!CompleteUploadGet(c, s, r)
    [] c.drv = "qiniu" -> Qiniu!CompleteUploadGet(c, s, r)
    [] c.drv = "upyun" -> Upyun!CompleteUploadGet(c, s, r)
    [] OTHER -> {}
TakeUpload(c, s, r) == IF c.drv = "gcs" THEN Gcs!Take(s, r.id) ELSE s
CompleteUploadRest(c, s, r) ==
  CASE c.drv = "aws" -> Aws!CompleteUpload(c, s, r)
    [] c.drv = "minio" -> Minio!CompleteUpload(c, s, r)
    [] c.drv = "alibaba" -> Alibaba!CompleteUpload(c, s, r)
    [] c.drv = "tencent" -> Tencent!CompleteUpload(c, s, r)
    [] c.drv = "huawei" -> Huawei!CompleteUpload(c, s, r)
    [] c.drv = "volcengine" -> Volcengine!CompleteUpload(c, s, r)
    [] c.drv = "gcs" -> Gcs!CompleteUploadClose(c, s, r)
    [] c.drv = "azure" -> Azure!CompleteUploadCommit(c, s, r)
    [] c.drv = "qiniu" -> Qiniu!CompleteUploadCommit(c, s, r)
    [] c.drv = "upyun" -> Upyun!CompleteUploadCommit(c, s, r)
\* Abort in the same two steps, and as one.
AbortUploadGet(c, s, r) == IF c.drv = "gcs" THEN Gcs!AbortUploadGet(c, s, r) ELSE {}
AbortUploadRest(c, s, r) ==
  CASE c.drv = "aws" -> Aws!AbortUpload(c, s, r)
    [] c.drv = "minio" -> Minio!AbortUpload(c, s, r)
    [] c.drv = "alibaba" -> Alibaba!AbortUpload(c, s, r)
    [] c.drv = "tencent" -> Tencent!AbortUpload(c, s, r)
    [] c.drv = "huawei" -> Huawei!AbortUpload(c, s, r)
    [] c.drv = "volcengine" -> Volcengine!AbortUpload(c, s, r)
    [] c.drv = "gcs" -> Gcs!AbortUploadClose(c, s, r)
    [] c.drv = "azure" -> Azure!AbortUpload(c, s, r)
    [] c.drv = "qiniu" -> Qiniu!AbortUpload(c, s, r)
    [] c.drv = "upyun" -> Upyun!AbortUpload(c, s, r)
AbortUpload(c, s, r) ==
  IF AbortUploadGet(c, s, r) # {} THEN AbortUploadGet(c, s, r)
  ELSE AbortUploadRest(c, TakeUpload(c, s, r), r)
ListUploads(c, s, r) ==
  CASE c.drv = "aws" -> Aws!ListUploads(c, s, r)
    [] c.drv = "minio" -> Minio!ListUploads(c, s, r)
    [] c.drv = "alibaba" -> Alibaba!ListUploads(c, s, r)
    [] c.drv = "tencent" -> Tencent!ListUploads(c, s, r)
    [] c.drv = "huawei" -> Huawei!ListUploads(c, s, r)
    [] c.drv = "volcengine" -> Volcengine!ListUploads(c, s, r)
    [] c.drv = "gcs" -> Gcs!ListUploads(c, s, r)
    [] c.drv = "azure" -> Azure!ListUploads(c, s, r)
    [] c.drv = "qiniu" -> Qiniu!ListUploads(c, s, r)
    [] c.drv = "upyun" -> Upyun!ListUploads(c, s, r)

(* Signer *)
SignURL(c, s, r) ==
  CASE c.drv = "aws" -> Aws!SignURL(c, s, r) [] c.drv = "minio" -> Minio!SignURL(c, s, r)
    [] c.drv = "alibaba" -> Alibaba!SignURL(c, s, r)
    [] c.drv = "tencent" -> Tencent!SignURL(c, s, r)
    [] c.drv = "huawei" -> Huawei!SignURL(c, s, r)
    [] c.drv = "volcengine" -> Volcengine!SignURL(c, s, r)
    [] c.drv = "gcs" -> Gcs!SignURL(c, s, r) [] c.drv = "azure" -> Azure!SignURL(c, s, r)
    [] c.drv = "qiniu" -> Qiniu!SignURL(c, s, r)
    [] c.drv = "upyun" -> Upyun!SignURL(c, s, r)
IssueDirectGrant(c, s, r) ==
  CASE c.drv = "aws" -> Aws!IssueDirectGrant(c, s, r)
    [] c.drv = "minio" -> Minio!IssueDirectGrant(c, s, r)
    [] c.drv = "alibaba" -> Alibaba!IssueDirectGrant(c, s, r)
    [] c.drv = "tencent" -> Tencent!IssueDirectGrant(c, s, r)
    [] c.drv = "huawei" -> Huawei!IssueDirectGrant(c, s, r)
    [] c.drv = "volcengine" -> Volcengine!IssueDirectGrant(c, s, r)
    [] c.drv = "gcs" -> Gcs!IssueDirectGrant(c, s, r)
    [] c.drv = "azure" -> Azure!IssueDirectGrant(c, s, r)
    [] c.drv = "qiniu" -> Qiniu!IssueDirectGrant(c, s, r)
    [] c.drv = "upyun" -> Upyun!IssueDirectGrant(c, s, r)

=============================================================================
