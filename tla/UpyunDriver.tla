----------------------------- MODULE UpyunDriver -----------------------------
(* providers/upyun: the calls of the client, each as the set of its outcomes *)
(* (c, s, r as in GcsDriver).  A client is bound to one bucket, c.bound.     *)
(* The SDK takes no context: every request runs in a goroutine of its own    *)
(* and a call whose context ends returns without it.  A request left behind  *)
(* may act at once (Lost in ObjectService) or late (LateArrives in           *)
(* ObjectCalls and Uploads, LatePut in Cleanup).                             *)
EXTENDS ObjectService, S3Common

Supported == {"bucket.crud", "object.crud", "object.list.prefix_delimiter",
              "object.range_read", "object.multipart_upload", "signer.url_read",
              "signer.direct_grant"}
Conditional == {"signer.url_write"}

(* Errors *)
SdkError(sit) ==
  [code |-> CASE sit = "noSuchKey" -> 40400001
              [] sit = "noSuchBucket" -> 40400010
              [] sit = "noSuchUpload" -> 40400031
              [] sit = "preconditionFailed" -> 41200001
              [] sit = "notModified" -> 30400001
              [] sit = "invalidPart" -> 40000031
              [] sit = "accessDenied" -> 40300006
              [] sit = "badCredential" -> 40100001
              [] sit = "slowDown" -> 42900001
              [] sit = "requestTimeout" -> 40800001
              [] sit = "internalError" -> 50000001
              [] sit = "unavailable" -> 50300001
              [] OTHER -> 0,
   status |-> CASE sit \in {"noSuchKey", "noSuchBucket", "noSuchUpload"} -> 404
                [] sit = "preconditionFailed" -> 412
                [] sit = "notModified" -> 304
                [] sit = "invalidRange" -> 416
                [] sit = "invalidPart" -> 400
                [] sit = "accessDenied" -> 403
                [] sit = "badCredential" -> 401
                [] sit = "slowDown" -> 429
                [] sit = "requestTimeout" -> 408
                [] sit = "internalError" -> 500
                [] sit = "unavailable" -> 503
                [] OTHER -> 0,
   ctx |-> IF sit \in {"canceled", "deadline"} THEN sit ELSE "none"]

MapUpyunErrorCode(code) ==
  CASE code \in {40400001, 40400002, 40400006, 40400010, 40400029, 40400031}
                                                          -> "not_found"
    [] code = 40600001                                    -> "already_exists"
    [] code \in {40100001, 40100007}                      -> "unauthenticated"
    [] code \in {40300001, 40300003, 40300006, 40300010, 40300012}
                                                          -> "permission_denied"
    [] code \in {41200001, 30400001}                      -> "precondition_failed"
    [] code \in {40900001, 40900002, 40900010}            -> "conflict"
    [] code \in {42900001, 42900002}                      -> "rate_limited"
    [] code = 40800001                                    -> "timeout"
    [] code = 40000018                                    -> "checksum_mismatch"
    [] code \in {41100001, 41100002}                      -> "length_required"
    [] code \in {40000001, 40000002, 40000003, 40000010, 40000011, 40000017,
                 40000031, 40000033, 40000034}            -> "invalid_argument"
    [] code \in {50000001, 50300001}                      -> "temporary"
    [] OTHER -> NoCode

IsUpyunRetryableStatus(status) == status \in {500, 502, 503, 504}

MapError(s, e) ==
  IF e.status # 0
  THEN LET code == CASE MapUpyunErrorCode(e.code) # NoCode -> MapUpyunErrorCode(e.code)
                     [] OTHER -> MapHTTPStatus(e.status)
           retry == IsUpyunRetryableStatus(e.status)
       IN IF code = NoCode THEN Error(s, "internal", retry, NoCap)
          ELSE Error(s, code, IsRetryable(code) \/ retry, NoCap)
  ELSE IF MapContextErr(e.ctx) # NoCode
  THEN Error(s, MapContextErr(e.ctx), e.ctx = "deadline", NoCap)
  ELSE Refuse(s, "internal")

Answer(a) == IF a.sit = "ok" THEN Ok(a.store, a.out)
             ELSE MapError(a.store, SdkError(a.sit))
Ask(answers) == {Answer(a) : a \in answers}
Missing(o) == o.code = "not_found"

(* Factory *)
Validate(cfg) ==
  IF \/ cfg.provider \notin {"", "upyun"} \/ ~cfg.cred.given
     \/ ~cfg.dc.given \/ ~cfg.dc.typed \/ "Bucket" \notin cfg.dc.fields
  THEN "invalid_argument" ELSE "ok"

ExtractOperator(cred) == cred.payload = "operator"
Opened(cfg) ==
  IF Validate(cfg) # "ok" THEN {Refuse(Nothing, Validate(cfg))}
  ELSE IF ~cfg.cred.resolves THEN {Refuse(Nothing, "unauthenticated")}
  ELSE IF ~ExtractOperator(cfg.cred) \/ cfg.cred.scheme \notin {"custom", "shared_key"}
  THEN {Refuse(Nothing, "invalid_argument")}
  ELSE {Ok(Nothing, [drv |-> "upyun", scheme |-> cfg.cred.scheme, live |-> TRUE,
                     signs |-> TRUE, project |-> TRUE])}

Close(c) == c

\* A bucket that is named, by the request or by the handle, is the bound one.
Within(c, s, name, outcomes) ==
  IF (IF name # "" THEN name ELSE c.bucket) \notin {"", c.bound}
  THEN {Refuse(s, "invalid_argument")} ELSE outcomes
At(c, r) == <<c.bound, r.key>>

(* Buckets: Usage of the bound bucket stands for both questions. *)
UsageWithCtx(c, s, out) ==
  {[o EXCEPT !.out = IF o.code = "ok" THEN out ELSE @]
   : o \in Ask(SvcStatBucket(s, c.bound))}
ListBuckets(c, s, r) == UsageWithCtx(c, s, [buckets |-> {c.bound}])
CreateBucket(c, s, r) == {NewUnsupported(s, "bucket.crud")}
StatBucket(c, s, r) == UsageWithCtx(c, s, [name |-> c.bound])
DeleteBucket(c, s, r) == {NewUnsupported(s, "bucket.crud")}

(* Objects *)
PutSent(c, s, r) == Ask({IF a.sit = "ok" THEN [a EXCEPT !.out = [etag |-> <<>>]] ELSE a
  : a \in SvcPut(s, At(c, r), ObjectOf(r.body.bytes, LowerMetadataKeys(r.meta), r.ctype),
                 r.body.fails, r.match, r.noneMatch = "*")})
PutObject(c, s, r) == Within(c, s, r.bucket,
  IF r.body.nil THEN {Refuse(s, "invalid_argument")}
  ELSE IF r.size < 0 THEN {Refuse(s, "length_required")}
  ELSE PutSent(c, s, r))

FormatHTTPRange(first, last) == [first |-> first, last |-> IF last < 0 THEN -1 ELSE last]
GetObject(c, s, r) == Within(c, s, r.bucket,
  LET rng == FormatHTTPRange(r.first, r.last)
  IN Ask(SvcGet(s, At(c, r), rng.first, rng.last, r.match)))

HeadObject(c, s, r) == Within(c, s, r.bucket, Ask(SvcHead(s, At(c, r))))
ExistsObject(c, s, r) ==
  {IF o.code = "ok" THEN Ok(o.store, [exists |-> TRUE])
   ELSE IF Missing(o) THEN Ok(o.store, [exists |-> FALSE]) ELSE o
   : o \in HeadObject(c, s, r)}

DeleteObject(c, s, r) == Within(c, s, r.bucket,
  {IF Missing(o) THEN Ok(o.store, Nothing) ELSE o
   : o \in Ask(SvcDelete(s, At(c, r), TRUE))})

\* Delete, key after key; a key's failure is recorded and the loop goes on.
DeleteKey(c, r, acc, k) == UNION {
  {[store |-> o.store,
    deleted |-> IF o.code = "ok" /\ ~r.quiet THEN a.deleted \cup {k} ELSE a.deleted,
    failed |-> IF o.code = "ok" THEN a.failed ELSE a.failed \cup {k}]
   : o \in DeleteObject(c, a.store, [bucket |-> c.bound, key |-> k])}
  : a \in acc}
DeleteMany(c, s, r) == Within(c, s, r.bucket,
  {Ok(end.store, [deleted |-> end.deleted, failed |-> end.failed])
   : end \in Loop(LAMBDA acc, i : DeleteKey(c, r, acc, r.keys[i]),
                  {[store |-> s, deleted |-> {}, failed |-> {}]}, Len(r.keys))})

\* Attributes and preconditions of the request are not passed on.
CopySent(c, s, r) == Ask({IF a.sit = "ok" THEN [a EXCEPT !.out = [etag |-> <<>>]] ELSE a
  : a \in SvcCopy(s, <<c.bound, r.srcKey>>, At(c, r), FALSE, "nil", FALSE, "none", {}, FALSE)})
CopyObject(c, s, r) == Within(c, s, r.srcBucket,
  IF r.bucket \notin {"", c.bound} THEN {Refuse(s, "invalid_argument")}
  ELSE CopySent(c, s, r))

\* A path is listed, folders rolled up whatever the delimiter: without one a
\* folder is an item, here its last key negated.
ListObjects(c, s, r) == Within(c, s, r.bucket,
  LET page == Page(s, c.bound, r.token, TRUE, r.max)
  IN Ask(SvcList(s, c.bound,
       [items |-> page.items \cup (IF r.delim THEN {} ELSE {-d : d \in page.dirs}),
        dirs |-> IF r.delim THEN page.dirs ELSE {},
        next |-> page.next, truncated |-> page.next # 0])))

(* Multipart: an upload of the service and a session of the process. *)
LoadSession(s, at, id) == id \in DOMAIN s.sess /\ s.sess[id].listed /\ s.sess[id].at = at
DeleteSession(s, at, id) ==
  IF LoadSession(s, at, id) THEN [s EXCEPT !.sess[id].listed = FALSE] ELSE s

InitiateSent(c, s, r) == Ask(SvcCreateUpload(s, At(c, r), "nil"))
InitiateUpload(c, s, r) == Within(c, s, r.bucket,
  IF r.key = 0 THEN {Refuse(s, "invalid_argument")}
  ELSE {IF o.code # "ok" THEN o
        ELSE [o EXCEPT !.store.sess = With(@, o.out.id, [at |-> At(c, r), listed |-> TRUE])]
        : o \in InitiateSent(c, s, r)})

UploadPartGet(c, s, r) == Within(c, s, r.bucket,
  IF r.body.nil THEN {Refuse(s, "invalid_argument")}
  ELSE IF r.size < 0 THEN {Refuse(s, "length_required")}
  ELSE IF ~LoadSession(s, At(c, r), r.id) THEN {Refuse(s, "not_found")}
  ELSE {})
\* OrderUpload: the service takes the part it waits for and no other.
InOrder(s, id, partID) ==
  id \in DOMAIN s.ups => partID = Cardinality(DOMAIN s.ups[id].parts)
UploadPartSent(c, s, r) ==
  LET partID == r.pn - 1
  IN IF ~InOrder(s, r.id, partID) THEN Ask(Attempt(s, No(s, "invalidPart")))
     ELSE {IF o.code = "ok" THEN [o EXCEPT !.out = [etag |-> <<>>]] ELSE o
           : o \in Ask(SvcUploadPart(s, r.id, At(c, r), r.pn, r.body.bytes, r.body.fails))}

\* What the service has is assembled; the caller's parts are only counted.
AllParts(s, id) ==
  IF id \notin DOMAIN s.ups THEN <<>>
  ELSE [i \in 1..Cardinality(DOMAIN s.ups[id].parts) |->
         [pn |-> i, etag |-> s.ups[id].parts[i]]]
CompleteUploadGet(c, s, r) == Within(c, s, r.bucket,
  IF r.parts = <<>> THEN {Refuse(s, "invalid_argument")}
  ELSE IF ~LoadSession(s, At(c, r), r.id) THEN {Refuse(s, "not_found")}
  ELSE {})
\* With the session in hand and no lock held; the session goes only when the
\* answer of the goroutine is waited for.
CompleteSent(c, s, r) == Ask(SvcComplete(s, r.id, At(c, r), AllParts(s, r.id)))
CompleteUploadCommit(c, s, r) ==
  {IF o.code = "ok"
   THEN Ok(DeleteSession(o.store, At(c, r), r.id), [etag |-> <<>>]) ELSE o
   : o \in CompleteSent(c, s, r)}

\* The upload stays with the service until it expires there.
AbortUpload(c, s, r) == Within(c, s, r.bucket,
  {Ok(DeleteSession(s, At(c, r), r.id), Nothing)})

\* One page, with nothing to go on after.
ListUploads(c, s, r) == Within(c, s, r.bucket,
  {IF o.code = "ok" THEN Ok(o.store, [ids |-> o.out.ids, token |-> 0, truncated |-> FALSE])
   ELSE o : o \in Ask(SvcListUploads(s, c.bound, 0, 0, r.max))})

(* Signer: times in half seconds; a deadline is a whole second. *)
SignURL(c, s, r) == Within(c, s, r.bucket,
  IF r.expires <= 0 THEN {Refuse(s, "invalid_argument")}
  ELSE IF r.method \in {"PUT", "POST"} THEN {NewUnsupported(s, "signer.url_write")}
  ELSE IF r.method \notin {"GET", "HEAD"} THEN {Refuse(s, "invalid_argument")}
  ELSE LET deadline == 2 * (r.expires \div 2)
       IN {Ok(s, [method |-> r.method, expires |-> deadline, says |-> deadline])})

\* override: the "expiration-override" of Extra, 0 when there is none.
IssueFormUpload(c, s, r) ==
  IF r.key = 0 THEN {Refuse(s, "invalid_argument")}
  ELSE LET deadline == IF r.override # 0 THEN r.override ELSE 2 * (r.expires \div 2)
       IN {Ok(s, [method |-> "POST", expires |-> deadline, says |-> deadline])}
IssueDirectGrant(c, s, r) == Within(c, s, r.bucket,
  IF r.expires <= 0 THEN {Refuse(s, "invalid_argument")}
  ELSE IF r.upload THEN IssueFormUpload(c, s, r)
  ELSE {NewUnsupported(s, "signer.direct_grant")})
=============================================================================
