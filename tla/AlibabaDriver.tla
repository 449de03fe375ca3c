---------------------------- MODULE AlibabaDriver ----------------------------
(* providers/alibaba: the calls of the client, each as the set of its        *)
(* outcomes (c, s, r as in GcsDriver).                                       *)
EXTENDS ObjectService, S3Common

Supported == {"bucket.crud", "object.crud", "object.list.prefix_delimiter",
              "object.range_read", "object.multipart_upload", "signer.url_read",
              "signer.url_write", "object.tagging", "object.encryption.managed"}
Conditional == {"bucket.versioning", "object.acl"}

(* Errors *)
MapServiceCode(code, status) ==
  CASE MapCodeString(code) # NoCode -> MapCodeString(code)
    [] OTHER -> IF MapHTTPStatus(status) # NoCode THEN MapHTTPStatus(status)
                ELSE "internal"
Retryable(code, status) == IsRetryable(code) \/ Is5xx(status)

\* A CanceledError is looked into for the context's error.
MapError(s, e) ==
  IF e.status # 0
  THEN LET code == MapServiceCode(e.code, e.status)
       IN Error(s, code, Retryable(code, e.status), NoCap)
  ELSE IF MapContextErr(e.ctx) # NoCode
  THEN Error(s, MapContextErr(e.ctx), e.ctx = "deadline", NoCap)
  ELSE Refuse(s, "internal")

Answer(a) == IF a.sit = "ok" THEN Ok(a.store, a.out)
             ELSE MapError(a.store, ServiceError(a.sit))
Ask(answers) == {Answer(a) : a \in answers}

(* Factory *)
Validate(cfg) ==
  IF \/ cfg.provider \notin {"", "alibaba"}
     \/ ~cfg.region /\ cfg.endpoint = ""
     \/ ~cfg.cred.given
     \/ cfg.dc.given /\ ~cfg.dc.typed
  THEN "invalid_argument" ELSE "ok"

ExtractHMAC(cred) == cred.scheme \in {"", "hmac"} /\ cred.payload = "hmac"
Opened(cfg) ==
  IF Validate(cfg) # "ok" THEN {Refuse(Nothing, Validate(cfg))}
  ELSE IF ~cfg.cred.resolves THEN {Refuse(Nothing, "unauthenticated")}
  ELSE IF ~ExtractHMAC(cfg.cred) THEN {Refuse(Nothing, "invalid_argument")}
  ELSE {Ok(Nothing, [drv |-> "alibaba", scheme |-> cfg.cred.scheme, live |-> TRUE,
                     signs |-> TRUE, project |-> TRUE])}

Close(c) == c

(* Buckets *)
ListBuckets(c, s, r) == Ask(
  {IF a.sit # "ok" \/ r.max = 0 THEN a
   ELSE [a EXCEPT !.out.buckets = CHOOSE B \in SUBSET @ :
           Cardinality(B) = Min({r.max, Cardinality(@)})]
   : a \in SvcListBuckets(s)})
CreateBucket(c, s, r) == IF r.name = "" THEN {Refuse(s, "invalid_argument")}
                         ELSE Ask(SvcCreateBucket(s, r.name))
StatBucket(c, s, r) == IF r.name = "" THEN {Refuse(s, "invalid_argument")}
                       ELSE Ask(SvcStatBucket(s, r.name))
DeleteBucket(c, s, r) == IF r.name = "" THEN {Refuse(s, "invalid_argument")}
                         ELSE Ask(SvcDeleteBucket(s, r.name))

(* Objects *)
PickBucket(c, r) == IF r.bucket # "" THEN r.bucket ELSE c.bucket
At(c, r) == <<PickBucket(c, r), r.key>>
ApplyMetadata(m) == LowerMetadataKeys(m)

\* MUTANT: IfMatch is not forwarded.
PutIgnoresMatch(c, s, r) ==
  IF r.body.nil THEN {Refuse(s, "invalid_argument")}
  ELSE Ask(SvcPut(s, At(c, r), ObjectOf(r.body.bytes, ApplyMetadata(r.meta), r.ctype),
                  r.body.fails, {}, r.noneMatch = "*"))

PutObject(c, s, r) ==
  IF r.body.nil THEN {Refuse(s, "invalid_argument")}
  ELSE IF r.size < 0 THEN {Refuse(s, "length_required")}
  ELSE Ask(SvcPut(s, At(c, r), ObjectOf(r.body.bytes, ApplyMetadata(r.meta), r.ctype),
                  r.body.fails, r.match, r.noneMatch = "*"))

FormatRange(first, last) == [first |-> first, last |-> IF last < 0 THEN -1 ELSE last]
GetObject(c, s, r) ==
  LET rng == FormatRange(r.first, r.last)
  IN Ask(SvcGet(s, At(c, r), rng.first, rng.last, r.match))

HeadObject(c, s, r) == Ask(SvcHead(s, At(c, r)))
ExistsObject(c, s, r) ==
  {IF o.code \in {"ok", "not_found"} THEN Ok(o.store, [exists |-> o.code = "ok"]) ELSE o
   : o \in HeadObject(c, s, r)}
DeleteObject(c, s, r) == Ask(SvcDelete(s, At(c, r), FALSE))

\* One request for all keys; the service denies it as a whole or not at all,
\* and the driver has no failures to report.
DeleteMany(c, s, r) ==
  IF r.keys = <<>> THEN {Ok(s, [deleted |-> {}, failed |-> {}])}
  ELSE Ask({a \in SvcDeleteBatch(s, PickBucket(c, r), r.keys, r.quiet)
            : a.sit = "ok" => a.out.failed = {}})

\* MUTANT: no directive is derived from the request's metadata.
CopyWithoutDirective(c, s, r) ==
  LET src == <<IF r.srcBucket = "" THEN r.bucket ELSE r.srcBucket, r.srcKey>>
      replace == r.directive = "REPLACE"
  IN Ask(SvcCopy(s, src, <<r.bucket, r.key>>, replace, ApplyMetadata(r.meta),
                 replace, r.ctype, SourceTags(r.match, r.noneMatch), FALSE))

\* The destination's bucket is not defaulted; the source's is the
\* destination's when none is named.
CopyObject(c, s, r) ==
  LET src == <<IF r.srcBucket = "" THEN r.bucket ELSE r.srcBucket, r.srcKey>>
      replace == \/ r.directive = "REPLACE"
                 \/ r.directive # "COPY" /\ r.meta # "nil"
  IN IF r.bucket = "" THEN {Refuse(s, "internal")}
     ELSE Ask(SvcCopy(s, src, <<r.bucket, r.key>>, replace, ApplyMetadata(r.meta),
                      replace, r.ctype, SourceTags(r.match, r.noneMatch), FALSE))

\* MUTANT: IsTruncated of the answer is not copied.
ListForgetsTruncated(c, s, r) ==
  LET page == Page(s, PickBucket(c, r), r.token, r.delim, r.max)
  IN Ask(SvcList(s, PickBucket(c, r),
       [items |-> page.items, dirs |-> page.dirs, next |-> page.next, truncated |-> FALSE]))

ListObjects(c, s, r) ==
  LET b == PickBucket(c, r)
      page == Page(s, b, IF r.token # 0 THEN r.token ELSE r.startAfter, r.delim, r.max)
  IN Ask(SvcList(s, b, [items |-> page.items, dirs |-> page.dirs, next |-> page.next,
                        truncated |-> page.next # 0]))

(* Multipart *)
InitiateUpload(c, s, r) ==
  IF r.key = 0 THEN {Refuse(s, "internal")}
  ELSE Ask(SvcCreateUpload(s, At(c, r), ApplyMetadata(r.meta)))

UploadPartGet(c, s, r) ==
  IF r.body.nil THEN {Refuse(s, "invalid_argument")}
  ELSE IF r.size < 0 THEN {Refuse(s, "length_required")}
  ELSE {}
UploadPartSend(c, s, r) ==
  Ask(SvcUploadPart(s, r.id, At(c, r), r.pn, r.body.bytes, r.body.fails))

CompleteUpload(c, s, r) ==
  IF r.parts = <<>> THEN {Refuse(s, "invalid_argument")}
  ELSE Ask(SvcComplete(s, r.id, At(c, r), r.parts))
AbortUpload(c, s, r) == Ask(SvcAbort(s, r.id, At(c, r)))

\* The token is the key marker; the upload id marker is dropped.
ListUploads(c, s, r) ==
  {IF o.code = "ok"
   THEN Ok(o.store, [ids |-> o.out.ids, token |-> o.out.key, truncated |-> o.out.key # 0])
   ELSE o : o \in Ask(SvcListUploads(s, PickBucket(c, r), r.token, 0, r.max))}

(* Signer *)
SignURL(c, s, r) ==
  IF r.expires <= 0 \/ r.method \notin {"GET", "PUT", "HEAD"}
  THEN {Refuse(s, "invalid_argument")}
  ELSE {Ok(s, [method |-> r.method, expires |-> PresignLife(r.expires),
               says |-> r.expires])}
IssueDirectGrant(c, s, r) == {NewUnsupported(s, "signer.direct_grant")}
=============================================================================
