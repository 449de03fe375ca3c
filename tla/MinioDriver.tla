----------------------------- MODULE MinioDriver -----------------------------
(* providers/minio: the calls of the client, each as the set of its outcomes *)
(* (c, s, r as in GcsDriver).                                                *)
EXTENDS ObjectService, S3Common

Supported == {"bucket.crud", "object.crud", "object.list.prefix_delimiter",
              "object.range_read", "object.multipart_upload", "signer.url_read",
              "signer.url_write", "object.tagging", "object.encryption.managed"}
Conditional == {"bucket.versioning", "object.acl"}

(* Errors *)
\* The SDK names a HEAD that fails after its status.
HeadStatusError(sit) ==
  [HeadError(sit) EXCEPT !.code =
     CASE HeadError(sit).status = 404 -> "NoSuchKey"
       [] HeadError(sit).status = 403 -> "AccessDenied"
       [] OTHER -> ""]

MapErrorCode(e) ==
  CASE MapCodeString(e.code) # NoCode -> MapCodeString(e.code)
    [] MapCodeString(e.code) = NoCode /\ MapHTTPStatus(e.status) # NoCode
         -> MapHTTPStatus(e.status)
    [] OTHER -> IF MapContextErr(e.ctx) # NoCode THEN MapContextErr(e.ctx)
                ELSE "internal"
Retryable(code, status) == IsRetryable(code) \/ Is5xx(status)
MapError(s, e) ==
  Error(s, MapErrorCode(e), Retryable(MapErrorCode(e), e.status), NoCap)

Rendered(answers, Render(_)) ==
  {IF a.sit = "ok" THEN Ok(a.store, a.out) ELSE MapError(a.store, Render(a.sit))
   : a \in answers}
Ask(answers) == Rendered(answers, ServiceError)
AskHead(answers) == Rendered(answers, HeadStatusError)

(* Factory *)
Validate(cfg) ==
  IF cfg.provider \notin {"", "minio"} \/ cfg.endpoint = "" \/ ~cfg.cred.given
  THEN "invalid_argument" ELSE "ok"

ExtractHMAC(cred) == cred.scheme \in {"", "hmac"} /\ cred.payload = "hmac"
SplitEndpoint(endpoint) == endpoint # "bad"
Opened(cfg) ==
  IF Validate(cfg) # "ok" THEN {Refuse(Nothing, Validate(cfg))}
  ELSE IF ~cfg.cred.resolves THEN {Refuse(Nothing, "unauthenticated")}
  ELSE IF ~ExtractHMAC(cfg.cred) \/ ~SplitEndpoint(cfg.endpoint)
  THEN {Refuse(Nothing, "invalid_argument")}
  ELSE {Ok(Nothing, [drv |-> "minio", scheme |-> cfg.cred.scheme, live |-> TRUE,
                     signs |-> TRUE, project |-> TRUE])}

Close(c) == c

(* Buckets *)
ListBuckets(c, s, r) == Ask(
  {IF a.sit # "ok" \/ r.max = 0 THEN a
   ELSE [a EXCEPT !.out.buckets = CHOOSE B \in SUBSET @ :
           Cardinality(B) = Min({r.max, Cardinality(@)})]
   : a \in SvcListBuckets(s)})
CreateBucket(c, s, r) == IF r.name = "" THEN {Refuse(s, "invalid_argument")}
                         ELSE Ask(SvcCreateBucket(s, r.name))
\* BucketExists says no to a missing bucket, which Stat makes an error again.
StatBucket(c, s, r) == IF r.name = "" THEN {Refuse(s, "invalid_argument")}
                       ELSE AskHead(SvcStatBucket(s, r.name))
DeleteBucket(c, s, r) == IF r.name = "" THEN {Refuse(s, "invalid_argument")}
                         ELSE Ask(SvcDeleteBucket(s, r.name))

(* Objects *)
PickBucket(c, r) == IF r.bucket # "" THEN r.bucket ELSE c.bucket
At(c, r) == <<PickBucket(c, r), r.key>>
ToLowerMap(m) == LowerMetadataKeys(m)

PutObject(c, s, r) ==
  IF r.body.nil THEN {Refuse(s, "invalid_argument")}
  ELSE Ask(SvcPut(s, At(c, r), ObjectOf(r.body.bytes, ToLowerMap(r.meta), r.ctype),
                  r.body.fails, r.match, r.noneMatch = "*"))

\* EXTERNAL.  SetRange of the SDK: an end of 0 means "to the end", except from
\* the start of the object.
SetRange(start, end) ==
  CASE start > 0 /\ end = 0           -> [ok |-> TRUE, first |-> start, last |-> -1]
    [] start >= 0 /\ start <= end     -> [ok |-> TRUE, first |-> start, last |-> end]
    [] start < 0 \/ (start > end /\ end # 0) -> [ok |-> FALSE, first |-> 0, last |-> -1]

\* No Range at all is [first 0, last "none"]: r.whole.
ReadRange(r) ==
  IF r.whole THEN [ok |-> TRUE, first |-> 0, last |-> -1]
  ELSE SetRange(r.first, IF r.last < 0 THEN 0 ELSE r.last)

GetObject(c, s, r) ==
  LET rng == ReadRange(r)
  IN IF ~rng.ok THEN {Refuse(s, "invalid_argument")}
     ELSE Ask(SvcGet(s, At(c, r), rng.first, rng.last, r.match))

HeadObject(c, s, r) == AskHead(SvcHead(s, At(c, r)))
ExistsObject(c, s, r) ==
  {IF o.code \in {"ok", "not_found"} THEN Ok(o.store, [exists |-> o.code = "ok"]) ELSE o
   : o \in HeadObject(c, s, r)}
DeleteObject(c, s, r) == Ask(SvcDelete(s, At(c, r), FALSE))

\* The SDK reports a batch that fails key by key: the call itself succeeds.
DeleteMany(c, s, r) ==
  IF r.keys = <<>> THEN {Ok(s, [deleted |-> {}, failed |-> {}])}
  ELSE {IF o.code # "ok" THEN Ok(o.store, [deleted |-> {}, failed |-> Range(r.keys)])
        ELSE [o EXCEPT !.out.deleted = IF r.quiet THEN {} ELSE @]
        : o \in Ask(SvcDeleteBatch(s, PickBucket(c, r), r.keys, FALSE))}

CopyObject(c, s, r) ==
  LET replace == r.directive = "REPLACE" \/ r.meta # "nil"
  IN Ask(SvcCopy(s, <<r.srcBucket, r.srcKey>>, <<r.bucket, r.key>>,
                 replace, ToLowerMap(r.meta), replace, r.ctype,
                 SourceTags(r.match, r.noneMatch), FALSE))

PickListMarker(r) == IF r.token # 0 THEN r.token ELSE r.startAfter

\* The SDK streams page after page, a page's items before its prefixes.  The
\* loop stops at max items, whatever was streamed or skipped beside them, and
\* the token is the last item.
ListObjects(c, s, r) ==
  LET b == PickBucket(c, r)
      Fetch(acc, n) ==
        IF acc.full \/ (n > 1 /\ acc.next = 0) THEN acc
        ELSE LET page == Page(s, b, IF n > 1 THEN acc.next ELSE PickListMarker(r),
                              r.delim, r.max)
                 want == r.max - Cardinality(acc.items)
                 full == r.max > 0 /\ Cardinality(page.items) >= want
             IN [items |-> acc.items \cup
                           (IF full THEN FirstOf(page.items, want) ELSE page.items),
                 dirs |-> acc.dirs \cup (IF full THEN {} ELSE page.dirs),
                 next |-> page.next, full |-> full]
      all == Loop(Fetch, [items |-> {}, dirs |-> {}, next |-> 0, full |-> FALSE],
                  Cardinality(Keys))
  IN Ask(SvcList(s, b, [items |-> all.items, dirs |-> all.dirs,
                        next |-> IF all.full THEN Max(all.items) ELSE 0,
                        truncated |-> all.full]))

(* Multipart *)
InitiateUpload(c, s, r) ==
  IF r.key = 0 THEN {Refuse(s, "invalid_argument")}
  ELSE Ask(SvcCreateUpload(s, At(c, r), ToLowerMap(r.meta)))

UploadPartGet(c, s, r) ==
  IF r.body.nil \/ r.size < 0 THEN {Refuse(s, "invalid_argument")} ELSE {}
UploadPartSend(c, s, r) ==
  Ask(SvcUploadPart(s, r.id, At(c, r), r.pn, r.body.bytes, r.body.fails))

CompleteUpload(c, s, r) ==
  IF r.parts = <<>> THEN {Refuse(s, "invalid_argument")}
  ELSE Ask(SvcComplete(s, r.id, At(c, r), r.parts))
AbortUpload(c, s, r) == Ask(SvcAbort(s, r.id, At(c, r)))

\* The key marker is the token; the upload id marker is always empty.
ListUploads(c, s, r) ==
  {IF o.code = "ok"
   THEN Ok(o.store, [ids |-> o.out.ids, token |-> o.out.key, truncated |-> o.out.key # 0])
   ELSE o : o \in Ask(SvcListUploads(s, PickBucket(c, r), r.token, 0,
                                     IF r.max <= 0 THEN 1000 ELSE r.max))}

(* Signer: the SDK refuses less than a second. *)
SignURL(c, s, r) ==
  IF \/ r.expires <= 0 \/ r.method \notin {"GET", "HEAD", "PUT", "DELETE"}
     \/ PresignLife(r.expires) = 0
  THEN {Refuse(s, "invalid_argument")}
  ELSE {Ok(s, [method |-> r.method, expires |-> PresignLife(r.expires),
               says |-> r.expires])}
IssueDirectGrant(c, s, r) == {NewUnsupported(s, "signer.direct_grant")}
=============================================================================
