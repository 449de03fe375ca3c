------------------------------ MODULE AwsDriver ------------------------------
(* providers/aws: the calls of the client, each as the set of its outcomes   *)
(* (c, s, r as in GcsDriver).  The bucket is the request's; the handle's is  *)
(* not read, and the SDK refuses a request that names none.                  *)
EXTENDS ObjectService, S3Common

Supported == {"bucket.crud", "object.crud", "object.list.prefix_delimiter",
              "object.range_read", "object.multipart_upload", "signer.url_read",
              "signer.url_write", "object.tagging", "object.encryption.managed"}
Conditional == {"bucket.versioning", "object.acl"}

(* Errors *)
\* A HEAD that fails is named after its status.
HeadStatusError(sit) ==
  [HeadError(sit) EXCEPT !.code =
     CASE HeadError(sit).status = 404 -> "NotFound"
       [] HeadError(sit).status = 403 -> "Forbidden"
       [] HeadError(sit).status = 503 -> "ServiceUnavailable"
       [] OTHER -> ""]

MapError(s, e) ==
  IF MapContextErr(e.ctx) # NoCode
  THEN Error(s, MapContextErr(e.ctx), e.ctx = "deadline", NoCap)
  ELSE LET code == IF MapCodeString(e.code) # NoCode THEN MapCodeString(e.code)
                   ELSE MapHTTPStatus(e.status)
       IN IF code = NoCode THEN Refuse(s, "internal")
          ELSE Error(s, code, IsRetryable(code), NoCap)

Rendered(answers, Render(_)) ==
  {IF a.sit = "ok" THEN Ok(a.store, a.out) ELSE MapError(a.store, Render(a.sit))
   : a \in answers}
Ask(s, name, answers) ==
  IF name = "" THEN {Refuse(s, "internal")} ELSE Rendered(answers, ServiceError)
AskHead(s, name, answers) ==
  IF name = "" THEN {Refuse(s, "internal")} ELSE Rendered(answers, HeadStatusError)

(* Factory *)
Validate(cfg) ==
  IF \/ cfg.provider \notin {"", "aws"} \/ ~cfg.region
     \/ cfg.dc.given /\ ~cfg.dc.typed
     \/ cfg.endpoint = "bad"
  THEN "invalid_argument" ELSE "ok"

\* No provider at all is anonymous; the credential is read once, at Open.
BuildCredentialsProvider(cred) ==
  CASE ~cred.given -> "ok"
    [] cred.given /\ ~cred.resolves -> "unauthenticated"
    [] OTHER -> IF \/ cred.scheme = "anonymous"
                   \/ cred.scheme = "hmac" /\ cred.payload = "hmac"
                THEN "ok" ELSE "invalid_argument"
Opened(cfg) ==
  LET refusal == IF Validate(cfg) # "ok" THEN Validate(cfg)
                 ELSE BuildCredentialsProvider(cfg.cred)
  IN IF refusal # "ok" THEN {Refuse(Nothing, refusal)}
     ELSE {Ok(Nothing, [drv |-> "aws", scheme |-> cfg.cred.scheme, live |-> TRUE,
                        signs |-> TRUE, project |-> TRUE])}

Close(c) == c

(* Buckets *)
ListBuckets(c, s, r) == Rendered(
  {IF a.sit # "ok" \/ r.max = 0 THEN a
   ELSE [a EXCEPT !.out.buckets = CHOOSE B \in SUBSET @ :
           Cardinality(B) = Min({r.max, Cardinality(@)})]
   : a \in SvcListBuckets(s)}, ServiceError)
CreateBucket(c, s, r) == Ask(s, r.name, SvcCreateBucket(s, r.name))
StatBucket(c, s, r) == AskHead(s, r.name, SvcStatBucket(s, r.name))
DeleteBucket(c, s, r) == Ask(s, r.name, SvcDeleteBucket(s, r.name))

(* Objects *)
At(c, r) == <<r.bucket, r.key>>
MetadataToAWS(m) == LowerMetadataKeys(m)

PutObject(c, s, r) ==
  IF r.body.nil THEN {Refuse(s, "invalid_argument")}
  ELSE IF r.size < 0 THEN {Refuse(s, "length_required")}
  ELSE Ask(s, r.bucket,
           SvcPut(s, At(c, r), ObjectOf(r.body.bytes, MetadataToAWS(r.meta), r.ctype),
                  r.body.fails, r.match, r.noneMatch = "*"))

FormatRange(first, last) == [first |-> first, last |-> IF last < 0 THEN -1 ELSE last]
GetObject(c, s, r) ==
  LET rng == FormatRange(r.first, r.last)
  IN Ask(s, r.bucket, SvcGet(s, At(c, r), rng.first, rng.last, r.match))

HeadObject(c, s, r) == AskHead(s, r.bucket, SvcHead(s, At(c, r)))
ExistsObject(c, s, r) ==
  {IF o.code \in {"ok", "not_found"} THEN Ok(o.store, [exists |-> o.code = "ok"]) ELSE o
   : o \in HeadObject(c, s, r)}
DeleteObject(c, s, r) == Ask(s, r.bucket, SvcDelete(s, At(c, r), FALSE))

\* Chunk after chunk; what the earlier chunks did comes back with the error
\* of the one that failed.
DeleteFailureCode(code) ==
  CASE code = "AccessDenied" -> "permission_denied"
    [] code \in {"NoSuchKey", "NoSuchBucket"} -> "not_found"
    [] code = "InvalidArgument" -> "invalid_argument"
    [] OTHER -> "internal"
\* MUTANT: the answer's Errors are not read; what was asked counts as deleted.
DeleteManyTrusts(c, s, r) ==
  IF r.keys = <<>> THEN {Ok(s, [deleted |-> {}, failed |-> {}])}
  ELSE {IF o.code = "ok" THEN Ok(o.store, [deleted |-> Range(r.keys), failed |-> {}]) ELSE o
        : o \in Ask(s, r.bucket, SvcDeleteBatch(s, r.bucket, r.keys, r.quiet))}

Chunk(keys, i) == SubSeq(keys, (i - 1) * DeleteBatchLimit + 1,
                         Min({i * DeleteBatchLimit, Len(keys)}))
AppendResult(a, o) ==
  IF o.code = "ok"
  THEN Ok(o.store, [deleted |-> a.out.deleted \cup o.out.deleted,
                    failed |-> a.out.failed \cup o.out.failed])
  ELSE [o EXCEPT !.out = a.out]
DeleteChunk(r, acc, i) == UNION {
  IF a.code # "ok" THEN {a}
  ELSE {AppendResult(a, o) : o \in Ask(a.store, r.bucket,
                                        SvcDeleteBatch(a.store, r.bucket,
                                                       Chunk(r.keys, i), r.quiet))}
  : a \in acc}
DeleteMany(c, s, r) ==
  LET chunks == (Len(r.keys) + DeleteBatchLimit - 1) \div DeleteBatchLimit
  IN Loop(LAMBDA acc, i : DeleteChunk(r, acc, i),
          {Ok(s, [deleted |-> {}, failed |-> {}])}, chunks)

\* The directive is the caller's alone: without one the service copies the
\* source's metadata and headers whatever else the request says.
CopyObject(c, s, r) ==
  LET replace == r.directive = "REPLACE"
  IN Ask(s, r.bucket,
         SvcCopy(s, <<r.srcBucket, r.srcKey>>, At(c, r), replace, MetadataToAWS(r.meta),
                 replace, r.ctype, SourceTags(r.match, r.noneMatch), FALSE))

\* A token, when there is one, goes before StartAfter.
ListObjects(c, s, r) ==
  LET page == Page(s, r.bucket, IF r.token # 0 THEN r.token ELSE r.startAfter,
                   r.delim, r.max)
  IN Ask(s, r.bucket, SvcList(s, r.bucket,
       [items |-> page.items, dirs |-> page.dirs, next |-> page.next,
        truncated |-> page.next # 0]))

(* Multipart *)
InitiateUpload(c, s, r) ==
  IF r.key = 0 THEN {Refuse(s, "internal")}
  ELSE Ask(s, r.bucket, SvcCreateUpload(s, At(c, r), MetadataToAWS(r.meta)))

UploadPartGet(c, s, r) ==
  IF r.body.nil THEN {Refuse(s, "invalid_argument")}
  ELSE IF r.size < 0 THEN {Refuse(s, "length_required")}
  ELSE {}
UploadPartSend(c, s, r) ==
  Ask(s, r.bucket,
      SvcUploadPart(s, r.id, At(c, r), r.pn, r.body.bytes, r.body.fails))

CompleteUpload(c, s, r) == Ask(s, r.bucket, SvcComplete(s, r.id, At(c, r), r.parts))
AbortUpload(c, s, r) == Ask(s, r.bucket, SvcAbort(s, r.id, At(c, r)))

\* The token is the key marker; the upload id marker is dropped.
ListUploads(c, s, r) ==
  {IF o.code = "ok"
   THEN Ok(o.store, [ids |-> o.out.ids, token |-> o.out.key, truncated |-> o.out.key # 0])
   ELSE o : o \in Ask(s, r.bucket, SvcListUploads(s, r.bucket, r.token, 0, r.max))}

(* Signer *)
SignURL(c, s, r) ==
  IF r.expires <= 0 THEN {Refuse(s, "invalid_argument")}
  ELSE IF r.method \notin {"GET", "PUT", "HEAD", "DELETE"}
  THEN {Refuse(s, "invalid_argument")}
  ELSE IF r.bucket = "" THEN {Refuse(s, "internal")}
  ELSE {Ok(s, [method |-> r.method, expires |-> PresignLife(r.expires),
               says |-> r.expires])}
IssueDirectGrant(c, s, r) == {NewUnsupported(s, "signer.direct_grant")}
=============================================================================
