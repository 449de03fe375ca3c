---------------------------- MODULE TencentDriver ----------------------------
(* providers/tencent: the calls of the client, each as the set of its        *)
(* outcomes (c, s, r as in GcsDriver).                                       *)
EXTENDS ObjectService, S3Common

Supported == {"bucket.crud", "object.crud", "object.list.prefix_delimiter",
              "object.range_read", "object.multipart_upload", "signer.url_read",
              "signer.url_write", "object.tagging", "object.encryption.managed"}
Conditional == {"bucket.versioning", "object.acl"}

(* Errors *)
MapServiceCode(code, status) ==
  CASE MapCodeString(code) # NoCode -> MapCodeString(code)
    [] OTHER -> IF MapHTTPStatus(status) # NoCode THEN MapHTTPStatus(status)
                ELSE "internal"
Retryable(code, status) == IsRetryable(code) \/ Is5xx(status)

\* Of a RetryError the last error counts.
MapError(s, e) ==
  IF e.status # 0
  THEN LET code == MapServiceCode(e.code, e.status)
       IN Error(s, code, Retryable(code, e.status), NoCap)
  ELSE IF MapContextErr(e.ctx) # NoCode
  THEN Error(s, MapContextErr(e.ctx), e.ctx = "deadline", NoCap)
  ELSE Refuse(s, "internal")

Answer(a) == IF a.sit = "ok" THEN Ok(a.store, a.out)
             ELSE MapError(a.store, ServiceError(a.sit))
Ask(answers) == {Answer(a) : a \in answers}

(* Factory *)
Validate(cfg) ==
  IF \/ cfg.provider \notin {"", "tencent"}
     \/ ~cfg.region
     \/ ~cfg.cred.given
     \/ cfg.dc.given /\ ~cfg.dc.typed
  THEN "invalid_argument" ELSE "ok"

ExtractHMAC(cred) == cred.scheme \in {"", "hmac"} /\ cred.payload = "hmac"
Opened(cfg) ==
  IF Validate(cfg) # "ok" THEN {Refuse(Nothing, Validate(cfg))}
  ELSE IF ~cfg.cred.resolves THEN {Refuse(Nothing, "unauthenticated")}
  ELSE IF ~ExtractHMAC(cfg.cred) THEN {Refuse(Nothing, "invalid_argument")}
  ELSE {Ok(Nothing, [drv |-> "tencent", scheme |-> cfg.cred.scheme, live |-> TRUE,
                     signs |-> TRUE, project |-> TRUE, endpoint |-> cfg.endpoint])}

Close(c) == c

\* Every bucket is a host of its own: a client is made for it in each call,
\* and an endpoint that is no URL is refused only there.
BucketURL(c, b) == IF b = "" \/ c.endpoint = "bad" THEN "invalid_argument" ELSE "ok"
BucketClient(c, s, b, outcomes) ==
  IF BucketURL(c, b) # "ok" THEN {Refuse(s, BucketURL(c, b))} ELSE outcomes

(* Buckets *)
ListBuckets(c, s, r) == Ask(
  {IF a.sit # "ok" \/ r.max = 0 THEN a
   ELSE [a EXCEPT !.out.buckets = CHOOSE B \in SUBSET @ :
           Cardinality(B) = Min({r.max, Cardinality(@)})]
   : a \in SvcListBuckets(s)})
CreateBucket(c, s, r) == BucketClient(c, s, r.name, Ask(SvcCreateBucket(s, r.name)))
\* The answer to HEAD has no body: the error has a status and no code.
HeadAnswer(a) == IF a.sit = "ok" THEN Ok(a.store, a.out)
                 ELSE MapError(a.store, HeadError(a.sit))
StatBucket(c, s, r) == BucketClient(c, s, r.name,
                         {HeadAnswer(a) : a \in SvcStatBucket(s, r.name)})
DeleteBucket(c, s, r) == BucketClient(c, s, r.name, Ask(SvcDeleteBucket(s, r.name)))

(* Objects *)
PickBucket(c, r) == IF r.bucket # "" THEN r.bucket ELSE c.bucket
At(c, r) == <<PickBucket(c, r), r.key>>
MetadataToHeader(m) == LowerMetadataKeys(m)

\* Both conditions go out as headers.
BuildPreconditionHeader(match, noneMatch) ==
  [match |-> match, noneMatch |-> noneMatch = "*"]

PutObject(c, s, r) ==
  LET cond == BuildPreconditionHeader(r.match, r.noneMatch)
  IN IF r.body.nil THEN {Refuse(s, "invalid_argument")}
     ELSE IF r.size < 0 THEN {Refuse(s, "length_required")}
     ELSE BucketClient(c, s, PickBucket(c, r), Ask(
            SvcPut(s, At(c, r), ObjectOf(r.body.bytes, MetadataToHeader(r.meta), r.ctype),
                   r.body.fails, cond.match, cond.noneMatch)))

FormatRange(first, last) == [first |-> first, last |-> IF last < 0 THEN -1 ELSE last]
GetObject(c, s, r) ==
  LET rng == FormatRange(r.first, r.last)
      cond == BuildPreconditionHeader(r.match, "")
  IN BucketClient(c, s, PickBucket(c, r),
       Ask(SvcGet(s, At(c, r), rng.first, rng.last, cond.match)))

HeadObject(c, s, r) == BucketClient(c, s, PickBucket(c, r),
                         {HeadAnswer(a) : a \in SvcHead(s, At(c, r))})
ExistsObject(c, s, r) ==
  {IF o.code \in {"ok", "not_found"} THEN Ok(o.store, [exists |-> o.code = "ok"]) ELSE o
   : o \in HeadObject(c, s, r)}
DeleteObject(c, s, r) == BucketClient(c, s, PickBucket(c, r),
                           Ask(SvcDelete(s, At(c, r), FALSE)))

\* Batches of DeleteBatchLimit keys, one after another; one that fails ends
\* the loop, and what the ones before it did comes back beside the error.
Batch(keys, n) == SubSeq(keys, (n - 1) * DeleteBatchLimit + 1,
                         Min({Len(keys), n * DeleteBatchLimit}))
Merge(o, next) ==
  IF next.code # "ok" THEN [next EXCEPT !.out = o.out]
  ELSE Ok(next.store, [deleted |-> o.out.deleted \cup next.out.deleted,
                       failed |-> o.out.failed \cup next.out.failed])
DeleteBatch(c, r, acc, n) == UNION {
  IF o.code # "ok" THEN {o}
  ELSE {Merge(o, next) : next \in Ask(SvcDeleteBatch(o.store, PickBucket(c, r),
                                                     Batch(r.keys, n), r.quiet))}
  : o \in acc}
DeleteMany(c, s, r) ==
  LET batches == (Len(r.keys) + DeleteBatchLimit - 1) \div DeleteBatchLimit
      none == Ok(s, [deleted |-> {}, failed |-> {}])
  IN IF r.keys = <<>> THEN {none}
     ELSE BucketClient(c, s, PickBucket(c, r),
            Loop(LAMBDA acc, n : DeleteBatch(c, r, acc, n), {none}, batches))

\* The destination's bucket is not defaulted; the source's is the
\* destination's when none is named.
CopyObject(c, s, r) ==
  LET src == <<IF r.srcBucket = "" THEN r.bucket ELSE r.srcBucket, r.srcKey>>
      replace == \/ r.directive = "REPLACE"
                 \/ r.directive # "COPY" /\ r.meta # "nil"
  IN BucketClient(c, s, r.bucket, Ask(
       SvcCopy(s, src, <<r.bucket, r.key>>, replace, MetadataToHeader(r.meta),
               replace, r.ctype, SourceTags(r.match, r.noneMatch), FALSE)))

\* MUTANT: the continuation token is not sent.
ListFromTheStart(c, s, r) ==
  LET b == PickBucket(c, r)
      page == Page(s, b, r.startAfter, r.delim, r.max)
  IN BucketClient(c, s, b, Ask(SvcList(s, b,
       [items |-> page.items, dirs |-> page.dirs, next |-> page.next,
        truncated |-> page.next # 0])))

ListObjects(c, s, r) ==
  LET b == PickBucket(c, r)
      page == Page(s, b, IF r.token # 0 THEN r.token ELSE r.startAfter, r.delim, r.max)
  IN BucketClient(c, s, b, Ask(SvcList(s, b,
       [items |-> page.items, dirs |-> page.dirs, next |-> page.next,
        truncated |-> page.next # 0])))

(* Multipart *)
InitiateUpload(c, s, r) == BucketClient(c, s, PickBucket(c, r),
  Ask(SvcCreateUpload(s, At(c, r), MetadataToHeader(r.meta))))

UploadPartGet(c, s, r) ==
  IF r.body.nil THEN {Refuse(s, "invalid_argument")}
  ELSE IF r.size < 0 THEN {Refuse(s, "length_required")}
  ELSE BucketClient(c, s, PickBucket(c, r), {})
UploadPartSend(c, s, r) ==
  Ask(SvcUploadPart(s, r.id, At(c, r), r.pn, r.body.bytes, r.body.fails))

\* The parts in the order of their numbers; a list that has one twice is
\* refused in whatever order.
ByNumber(parts) ==
  LET D == DOMAIN parts
      order == CHOOSE p \in [D -> D] :
                 /\ IsInjective(p)
                 /\ \A i, j \in D : i < j => parts[p[i]].pn <= parts[p[j]].pn
  IN [i \in D |-> parts[order[i]]]

CompleteUpload(c, s, r) ==
  IF r.parts = <<>> THEN {Refuse(s, "invalid_argument")}
  ELSE BucketClient(c, s, PickBucket(c, r),
         Ask(SvcComplete(s, r.id, At(c, r), ByNumber(r.parts))))
AbortUpload(c, s, r) == BucketClient(c, s, PickBucket(c, r),
                          Ask(SvcAbort(s, r.id, At(c, r))))

\* The token is the key marker; the upload id marker is dropped.
ListUploads(c, s, r) == BucketClient(c, s, PickBucket(c, r),
  {IF o.code = "ok"
   THEN Ok(o.store, [ids |-> o.out.ids, token |-> o.out.key, truncated |-> o.out.key # 0])
   ELSE o : o \in Ask(SvcListUploads(s, PickBucket(c, r), r.token, 0, r.max))})

(* Signer *)
SignURL(c, s, r) ==
  IF r.expires <= 0 \/ r.method \notin {"GET", "PUT", "HEAD", "DELETE"}
  THEN {Refuse(s, "invalid_argument")}
  ELSE BucketClient(c, s, PickBucket(c, r),
         {Ok(s, [method |-> r.method, expires |-> PresignLife(r.expires),
                 says |-> r.expires])})
IssueDirectGrant(c, s, r) == {NewUnsupported(s, "signer.direct_grant")}
=============================================================================
