------------------------------ MODULE S3Common ------------------------------
(* pkg/uos/s3common: the tables every driver falls back on.  The code        *)
(* strings are those the modelled services send; a string no table knows     *)
(* maps to NoCode, the (_, false) of the source.                             *)
EXTENDS Integers

NoCode == "no_code"

MapCodeString(c) ==
  CASE c \in {"NoSuchKey", "NoSuchBucket", "NoSuchUpload", "NoSuchVersion",
              "NotFound", "404", "NoSuchObjectVersion"}   -> "not_found"
    [] c \in {"BucketAlreadyExists", "BucketAlreadyOwnedByYou"}
                                                          -> "already_exists"
    [] c \in {"AccessDenied", "AllAccessDisabled", "Forbidden",
              "MethodNotAllowed"}                         -> "permission_denied"
    [] c \in {"InvalidAccessKeyId", "SignatureDoesNotMatch", "ExpiredToken",
              "InvalidToken"}                             -> "unauthenticated"
    [] c \in {"PreconditionFailed", "InvalidRange", "NotModified"}
                                                          -> "precondition_failed"
    [] c \in {"BucketNotEmpty", "OperationAborted", "Conflict"} -> "conflict"
    [] c \in {"SlowDown", "Throttling", "TooManyRequests"} -> "rate_limited"
    [] c \in {"RequestTimeout", "RequestTimeoutException"} -> "timeout"
    [] c \in {"ServiceUnavailable", "InternalError", "InternalFailure"}
                                                          -> "temporary"
    [] c \in {"BadDigest", "IncompleteBody", "UnexpectedEOF"}
                                                          -> "checksum_mismatch"
    [] c = "MissingContentLength"                         -> "length_required"
    [] c \in {"InvalidArgument", "MalformedXML", "InvalidBucketName",
              "InvalidPart", "InvalidPartOrder", "InvalidObjectState",
              "NotImplemented", "EntityTooSmall"}         -> "invalid_argument"
    [] OTHER                                              -> NoCode

MapHTTPStatus(status) ==
  CASE status = 404 -> "not_found"
    [] status = 403 -> "permission_denied"
    [] status = 401 -> "unauthenticated"
    [] status = 412 -> "precondition_failed"
    [] status = 409 -> "conflict"
    [] status = 429 -> "rate_limited"
    [] status = 408 -> "timeout"
    [] status = 411 -> "length_required"
    [] status \in 500..599 -> "temporary"
    [] status \in 400..499 \ {401, 403, 404, 408, 409, 411, 412, 429}
                           -> "invalid_argument"
    [] OTHER -> NoCode

\* ctx is "canceled", "deadline" or "none": what errors.Is finds in the chain.
MapContextErr(ctx) == IF ctx = "none" THEN NoCode ELSE "timeout"

IsRetryable(code) == code \in {"rate_limited", "timeout", "temporary"}

\* Is5xx(status): the drivers' own test beside IsRetryable.
Is5xx(status) == status \in 500..599

\* A map of user metadata is "nil", "empty" or a name that stands for its
\* lower-cased pairs: LowerMetadataKeys makes an empty map nil.
LowerMetadataKeys(m) == IF m = "empty" THEN "nil" ELSE m
\* EXTERNAL.  How a service of the S3 family words a situation: the code and
\* status of its answer, or what the context of a call that got none says.
ServiceError(sit) ==
  [code |-> CASE sit = "noSuchKey" -> "NoSuchKey"
              [] sit = "noSuchBucket" -> "NoSuchBucket"
              [] sit = "noSuchUpload" -> "NoSuchUpload"
              [] sit = "bucketExists" -> "BucketAlreadyExists"
              [] sit = "bucketNotEmpty" -> "BucketNotEmpty"
              [] sit = "preconditionFailed" -> "PreconditionFailed"
              [] sit = "notModified" -> "NotModified"
              [] sit = "invalidRange" -> "InvalidRange"
              [] sit = "invalidPart" -> "InvalidPart"
              [] sit = "accessDenied" -> "AccessDenied"
              [] sit = "badCredential" -> "SignatureDoesNotMatch"
              [] sit = "slowDown" -> "SlowDown"
              [] sit = "requestTimeout" -> "RequestTimeout"
              [] sit = "internalError" -> "InternalError"
              [] sit = "unavailable" -> "ServiceUnavailable"
              [] OTHER -> "",
   status |-> CASE sit \in {"noSuchKey", "noSuchBucket", "noSuchUpload"} -> 404
                [] sit \in {"bucketExists", "bucketNotEmpty"} -> 409
                [] sit = "preconditionFailed" -> 412
                [] sit = "notModified" -> 304
                [] sit = "invalidRange" -> 416
                [] sit \in {"invalidPart", "requestTimeout"} -> 400
                [] sit \in {"accessDenied", "badCredential"} -> 403
                [] sit \in {"slowDown", "unavailable"} -> 503
                [] sit = "internalError" -> 500
                [] OTHER -> 0,
   ctx |-> IF sit \in {"canceled", "deadline"} THEN sit ELSE "none"]

\* EXTERNAL.  An answer to HEAD has no body: the status is all there is.
HeadError(sit) == [ServiceError(sit) EXCEPT !.code = ""]
=============================================================================
