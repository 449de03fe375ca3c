---------------------------- MODULE HuaweiDriver -----------------------------
(* providers/huawei: the calls of the client, each as the set of its         *)
(* outcomes (c, s, r as in GcsDriver).                                       *)
EXTENDS ObjectService, S3Common

Supported == {"bucket.crud", "object.crud", "object.list.prefix_delimiter",
              "object.range_read", "object.multipart_upload", "signer.url_read",
              "signer.url_write", "object.tagging", "object.encryption.managed"}
Conditional == {"bucket.versioning", "object.acl"}

(* Errors *)
MapServiceCode(code, status) ==
  CASE MapCodeString(code) # NoCode -> MapCodeString(code)
    [] OTHER -> IF MapHTTPStatus(status) # NoCode THEN MapHTTPStatus(status)
                ELSE "internal"
Retryable(code, status) == IsRetryable(code) \/ Is5xx(status)

MapError(s, e) ==
  IF e.status # 0
  THEN LET code == MapServiceCode(e.code, e.status)
       IN Error(s, code, Retryable(code, e.status), NoCap)
  ELSE IF MapContextErr(e.ctx) # NoCode
  THEN Error(s, MapContextErr(e.ctx), e.ctx = "deadline", NoCap)
  ELSE Refuse(s, "internal")

HeadAnswer(a) == IF a.sit = "ok" THEN Ok(a.store, a.out)
                 ELSE MapError(a.store, HeadError(a.sit))
Answer(a) == IF a.sit = "ok" THEN Ok(a.store, a.out)
             ELSE MapError(a.store, ServiceError(a.sit))

\* Close drops the SDK client, and the SDK dereferences it in every call.
Panic(s) == Error(s, "panic", FALSE, NoCap)
WithClient(c, s, outcomes) == IF c.live THEN outcomes ELSE {Panic(s)}
Ask(c, s, answers) == WithClient(c, s, {Answer(a) : a \in answers})
AskHead(c, s, answers) == WithClient(c, s, {HeadAnswer(a) : a \in answers})

(* Factory *)
Validate(cfg) ==
  IF \/ cfg.provider \notin {"", "huawei"}
     \/ cfg.endpoint = ""
     \/ ~cfg.cred.given
     \/ cfg.dc.given /\ ~cfg.dc.typed
  THEN "invalid_argument" ELSE "ok"

ExtractHMAC(cred) == cred.scheme \in {"", "hmac"} /\ cred.payload = "hmac"
OpenOBSClient(endpoint) == endpoint # "bad"
Opened(cfg) ==
  IF Validate(cfg) # "ok" THEN {Refuse(Nothing, Validate(cfg))}
  ELSE IF ~cfg.cred.resolves THEN {Refuse(Nothing, "unauthenticated")}
  ELSE IF \/ ~ExtractHMAC(cfg.cred)
          \/ "BadSignature" \in cfg.dc.fields
          \/ ~OpenOBSClient(cfg.endpoint)
  THEN {Refuse(Nothing, "invalid_argument")}
  ELSE {Ok(Nothing, [drv |-> "huawei", scheme |-> cfg.cred.scheme, live |-> TRUE,
                     signs |-> TRUE, project |-> TRUE])}

Close(c) == [c EXCEPT !.live = FALSE]

(* Buckets *)
ListBuckets(c, s, r) == Ask(c, s,
  {IF a.sit # "ok" \/ r.max = 0 THEN a
   ELSE [a EXCEPT !.out.buckets = CHOOSE B \in SUBSET @ :
           Cardinality(B) = Min({r.max, Cardinality(@)})]
   : a \in SvcListBuckets(s)})
CreateBucket(c, s, r) == IF r.name = "" THEN {Refuse(s, "invalid_argument")}
                         ELSE Ask(c, s, SvcCreateBucket(s, r.name))
StatBucket(c, s, r) == IF r.name = "" THEN {Refuse(s, "invalid_argument")}
                       ELSE AskHead(c, s, SvcStatBucket(s, r.name))
DeleteBucket(c, s, r) == IF r.name = "" THEN {Refuse(s, "invalid_argument")}
                         ELSE Ask(c, s, SvcDeleteBucket(s, r.name))

(* Objects *)
PickBucket(c, r) == IF r.bucket # "" THEN r.bucket ELSE c.bucket
At(c, r) == <<PickBucket(c, r), r.key>>

\* Neither condition is forwarded.
PutObject(c, s, r) ==
  IF r.body.nil THEN {Refuse(s, "invalid_argument")}
  ELSE IF r.size < 0 THEN {Refuse(s, "length_required")}
  ELSE Ask(c, s, SvcPut(s, At(c, r), ObjectOf(r.body.bytes, LowerMetadataKeys(r.meta), r.ctype),
                  r.body.fails, {}, FALSE))

\* A closed range goes out as start and end, an open one as a header.
\* An open end goes as a Range string, a closed range in RangeStart and
\* RangeEnd, which the SDK takes for unset when both are 0.
GetObject(c, s, r) ==
  LET rng == IF r.last < 0 \/ (r.first = 0 /\ r.last = 0)
             THEN [start |-> r.first, end |-> -1]
             ELSE [start |-> r.first, end |-> r.last]
  IN Ask(c, s, SvcGet(s, At(c, r), rng.start, rng.end, r.match))

HeadObject(c, s, r) == AskHead(c, s, SvcHead(s, At(c, r)))
ExistsObject(c, s, r) ==
  {IF o.code \in {"ok", "not_found"} THEN Ok(o.store, [exists |-> o.code = "ok"]) ELSE o
   : o \in HeadObject(c, s, r)}
DeleteObject(c, s, r) == Ask(c, s, SvcDelete(s, At(c, r), FALSE))

\* One request for all keys.
DeleteMany(c, s, r) ==
  IF r.keys = <<>> THEN {Ok(s, [deleted |-> {}, failed |-> {}])}
  ELSE Ask(c, s, SvcDeleteBatch(s, PickBucket(c, r), r.keys, r.quiet))

\* The destination's bucket is not defaulted; the source's is the
\* destination's when none is named.
CopyObject(c, s, r) ==
  LET src == <<IF r.srcBucket = "" THEN r.bucket ELSE r.srcBucket, r.srcKey>>
      replace == \/ r.directive = "REPLACE"
                 \/ r.directive # "COPY" /\ r.meta # "nil"
  IN IF r.bucket = "" THEN WithClient(c, s, {Refuse(s, "internal")})
     ELSE Ask(c, s, SvcCopy(s, src, <<r.bucket, r.key>>, replace, LowerMetadataKeys(r.meta),
                      replace, r.ctype, SourceTags(r.match, r.noneMatch), FALSE))

ListObjects(c, s, r) ==
  LET b == PickBucket(c, r)
      page == Page(s, b, IF r.token # 0 THEN r.token ELSE r.startAfter, r.delim, r.max)
  IN Ask(c, s, SvcList(s, b, [items |-> page.items, dirs |-> page.dirs, next |-> page.next,
                        truncated |-> page.next # 0]))

(* Multipart *)
InitiateUpload(c, s, r) ==
  IF r.key = 0 THEN WithClient(c, s, {Refuse(s, "internal")})
  ELSE Ask(c, s, SvcCreateUpload(s, At(c, r), LowerMetadataKeys(r.meta)))

UploadPartGet(c, s, r) ==
  IF r.body.nil THEN {Refuse(s, "invalid_argument")}
  ELSE IF r.size < 0 THEN {Refuse(s, "length_required")}
  ELSE {}
UploadPartSend(c, s, r) ==
  Ask(c, s, SvcUploadPart(s, r.id, At(c, r), r.pn, r.body.bytes, r.body.fails))

CompleteUpload(c, s, r) ==
  IF r.parts = <<>> THEN {Refuse(s, "invalid_argument")}
  ELSE Ask(c, s, SvcComplete(s, r.id, At(c, r), r.parts))
AbortUpload(c, s, r) == Ask(c, s, SvcAbort(s, r.id, At(c, r)))

\* The token is the key marker; the upload id marker is dropped.
ListUploads(c, s, r) ==
  {IF o.code = "ok"
   THEN Ok(o.store, [ids |-> o.out.ids, token |-> o.out.key, truncated |-> o.out.key # 0])
   ELSE o : o \in Ask(c, s, SvcListUploads(s, PickBucket(c, r), r.token, 0, r.max))}

(* Signer: whole seconds, at least one. *)
SignURL(c, s, r) ==
  IF r.expires <= 0 \/ r.method \notin {"GET", "PUT", "HEAD", "DELETE", "POST"}
  THEN {Refuse(s, "invalid_argument")}
  ELSE WithClient(c, s,
         {Ok(s, [method |-> r.method, expires |-> Max({2, PresignLife(r.expires)}),
                 says |-> r.expires])})
IssueDirectGrant(c, s, r) == {NewUnsupported(s, "signer.direct_grant")}
=============================================================================
