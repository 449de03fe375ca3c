----------------------------- MODULE AzureDriver -----------------------------
(* providers/azure: the calls of the client, each as the set of its outcomes *)
(* (c, s, r as in GcsDriver).  Uploads are sessions of the process over the  *)
(* uncommitted blocks of a blob; UploadPart is cut where it asks the service *)
(* between reading the session and appending to it.                          *)
EXTENDS ObjectService, S3Common

Supported == {"bucket.crud", "object.crud", "object.list.prefix_delimiter",
              "object.range_read", "object.multipart_upload",
              "signer.direct_grant", "object.tagging",
              "object.encryption.managed"}
Conditional == {"signer.url_read", "signer.url_write", "bucket.versioning",
                "object.acl"}

(* Errors *)
SdkError(sit) ==
  [code |-> CASE sit = "noSuchKey" -> "BlobNotFound"
              [] sit = "noSuchBucket" -> "ContainerNotFound"
              [] sit = "bucketExists" -> "ContainerAlreadyExists"
              [] sit = "invalidRange" -> "InvalidRange"
              [] sit = "invalidPart" -> "InvalidBlockList"
              [] sit = "accessDenied" -> "AuthorizationPermissionMismatch"
              [] sit = "badCredential" -> "AuthenticationFailed"
              [] sit = "slowDown" -> "ServerBusy"
              [] sit = "requestTimeout" -> "OperationTimedOut"
              [] sit = "internalError" -> "InternalError"
              [] OTHER -> "",
   status |-> CASE sit \in {"noSuchKey", "noSuchBucket"} -> 404
                [] sit = "bucketExists" -> 409
                [] sit = "invalidRange" -> 416
                [] sit = "invalidPart" -> 400
                [] sit \in {"accessDenied", "badCredential"} -> 403
                [] sit \in {"slowDown", "unavailable"} -> 503
                [] sit \in {"requestTimeout", "internalError"} -> 500
                [] OTHER -> 0,
   ctx |-> IF sit \in {"canceled", "deadline"} THEN sit ELSE "none"]

MapAzureErrorCode(code) ==
  CASE code \in {"BlobNotFound", "ContainerNotFound", "ResourceNotFound"}
                                                         -> "not_found"
    [] code \in {"ContainerAlreadyExists", "BlobAlreadyExists"} -> "already_exists"
    [] code \in {"AuthenticationFailed", "AuthorizationFailure",
                 "AuthorizationPermissionMismatch"}      -> "unauthenticated"
    [] code \in {"InsufficientAccountPermissions", "SasTokenExpired"}
                                                         -> "permission_denied"
    [] code \in {"ConditionNotMet", "SourceConditionNotMet"} -> "precondition_failed"
    [] code \in {"ContainerBeingDeleted", "InvalidBlobOrBlock",
                 "InvalidBlockList"}                     -> "conflict"
    [] code \in {"ServerBusy", "OperationTimedOut", "TooManyRequests"}
                                                         -> "rate_limited"
    [] code \in {"RequestTimeout", "RequestTimeTooSkewed"} -> "timeout"
    [] code \in {"Md5Mismatch", "CrcMismatch"}           -> "checksum_mismatch"
    [] code \in {"MissingContentLengthHeader"}           -> "length_required"
    [] code \in {"InvalidRange", "InvalidInput", "InvalidBlockId"}
                                                         -> "invalid_argument"
    [] code \in {"InternalError", "InternalErrorV2"}     -> "temporary"
    [] OTHER -> NoCode

IsAzureRetryableStatus(status) == status \in {500, 502, 503, 504}

MapError(s, e) ==
  IF e.status # 0
  THEN LET code == IF MapAzureErrorCode(e.code) # NoCode
                   THEN MapAzureErrorCode(e.code)
                   ELSE IF MapHTTPStatus(e.status) # NoCode
                   THEN MapHTTPStatus(e.status) ELSE "internal"
       IN Error(s, code, IsRetryable(code) \/ IsAzureRetryableStatus(e.status), NoCap)
  ELSE IF MapContextErr(e.ctx) # NoCode
  THEN Error(s, MapContextErr(e.ctx), e.ctx = "deadline", NoCap)
  ELSE Refuse(s, "internal")

Answer(a) == IF a.sit = "ok" THEN Ok(a.store, a.out)
             ELSE MapError(a.store, SdkError(a.sit))
Ask(answers) == {Answer(a) : a \in answers}
Missing(o) == o.code = "not_found"

\* ClientOptions with Retry.MaxRetries 0: the SDK reads zero as its default,
\* three retries, and sends the request again after an answer it can retry.
\* One retry stands for all.
SentAgain(answers) == {a \in answers : a.sit \in
  {"slowDown", "requestTimeout", "internalError", "unavailable", "connReset"}}
Tries(Send(_), s) == Send(s) \cup UNION {Send(a.store) : a \in SentAgain(Send(s))}

(* Factory *)
Validate(cfg) ==
  IF \/ cfg.provider \notin {"", "azure"} \/ ~cfg.cred.given
     \/ ~cfg.dc.given \/ ~cfg.dc.typed
     \/ {"StorageAccount", "ServiceURL"} \cap cfg.dc.fields = {}
  THEN "invalid_argument" ELSE "ok"

ExtractSharedKey(cred) == cred.payload = "sharedKey"
ExtractSAS(cred) == cred.payload = "sas"
\* Anything that carries no token credential falls back to the default chain.
ExtractTokenCredential(cred) ==
  IF cred.payload = "token" THEN {TRUE} ELSE {TRUE, FALSE}

OpenedAs(scheme, signs) ==
  Ok(Nothing, [drv |-> "azure", scheme |-> scheme, signs |-> signs,
               live |-> TRUE, project |-> FALSE])
Opened(cfg) ==
  LET bad == Refuse(Nothing, "invalid_argument")
  IN IF Validate(cfg) # "ok" THEN {Refuse(Nothing, Validate(cfg))}
     ELSE IF ~cfg.cred.resolves THEN {Refuse(Nothing, "unauthenticated")}
     ELSE CASE cfg.cred.scheme = "shared_key" ->
                 IF ~ExtractSharedKey(cfg.cred) THEN {bad}
                 ELSE IF "BadURL" \in cfg.dc.fields THEN {bad}
                 ELSE {OpenedAs("shared_key", TRUE),
                       Refuse(Nothing, "unauthenticated")}
            [] cfg.cred.scheme = "sas" ->
                 IF ~ExtractSAS(cfg.cred) THEN {bad} ELSE {OpenedAs("sas", FALSE)}
            [] cfg.cred.scheme = "custom" ->
                 {IF ok THEN OpenedAs("custom", TRUE) ELSE bad
                  : ok \in ExtractTokenCredential(cfg.cred)}
            [] OTHER -> {bad}

Close(c) == c                                    \* nothing to close

(* Containers *)
ListBuckets(c, s, r) == Ask(Tries(SvcListBuckets, s))
CreateBucket(c, s, r) == IF r.name = "" THEN {Refuse(s, "invalid_argument")}
  ELSE Ask(Tries(LAMBDA t : SvcCreateBucket(t, r.name), s))
StatBucket(c, s, r) == IF r.name = "" THEN {Refuse(s, "invalid_argument")}
  ELSE Ask(Tries(LAMBDA t : SvcStatBucket(t, r.name), s))
\* The service deletes a container with all that is in it.
SvcDeleteContainer(s, b) == Attempt(s, InBucket(s, <<b, 0>>,
  Done([s EXCEPT !.buckets = @ \ {b},
                 !.objs = Restrict(@, {at \in DOMAIN @ : at[1] # b})], Nothing)))
DeleteBucket(c, s, r) == IF r.name = "" THEN {Refuse(s, "invalid_argument")}
  ELSE Ask(Tries(LAMBDA t : SvcDeleteContainer(t, r.name), s))

(* Blobs *)
PickBucket(c, r) == IF r.bucket # "" THEN r.bucket ELSE c.bucket
At(c, r) == <<PickBucket(c, r), r.key>>

\* The whole body in memory, cut at size when one is given.
ToReadSeekCloser(body, size) ==
  IF size > 0 THEN SubSeq(body.bytes, 1, Min({size, Len(body.bytes)}))
  ELSE body.bytes

\* No precondition of the request is passed on.
PutObject(c, s, r) ==
  LET o == ObjectOf(ToReadSeekCloser(r.body, r.size), LowerMetadataKeys(r.meta), r.ctype)
      overwrite(a) == [a EXCEPT !.store.ups = Without(@, At(c, r))]
  IN IF r.body.nil THEN {Refuse(s, "invalid_argument")}
     ELSE IF r.size < 0 THEN {Refuse(s, "length_required")}
     ELSE IF r.body.fails THEN {Refuse(s, "internal")}
     ELSE Ask({IF a.sit = "ok" THEN overwrite(a) ELSE a
               : a \in Tries(LAMBDA t : SvcPut(t, At(c, r), o, FALSE, {}, FALSE), s)})

\* MUTANT: End taken as exclusive.
RangeWithoutLast(first, last) ==
  [offset |-> first, count |-> IF last >= 0 THEN last - first ELSE 0]

BuildHTTPRange(first, last) ==                   \* count 0 is to the end
  [offset |-> first, count |-> IF last >= 0 THEN last - first + 1 ELSE 0]
GetObject(c, s, r) ==
  LET rng == BuildHTTPRange(r.first, r.last)
  IN Ask(Tries(LAMBDA t : SvcGet(t, At(c, r), rng.offset,
       IF rng.count = 0 THEN -1 ELSE rng.offset + rng.count - 1, {}), s))

HeadObject(c, s, r) == Ask(Tries(LAMBDA t : SvcHead(t, At(c, r)), s))
ExistsObject(c, s, r) ==
  {IF o.code = "ok" THEN Ok(o.store, [exists |-> TRUE])
   ELSE IF Missing(o) THEN Ok(o.store, [exists |-> FALSE]) ELSE o
   : o \in HeadObject(c, s, r)}

DeleteAt(s, at) == Ask(Tries(LAMBDA t : SvcDelete(t, at, TRUE), s))
DeleteObject(c, s, r) ==
  {IF Missing(o) THEN Ok(o.store, Nothing) ELSE o : o \in DeleteAt(s, At(c, r))}

DeleteKey(c, r, acc, k) == UNION {
  {IF o.code = "ok" \/ Missing(o)
   THEN [store |-> o.store, failed |-> o0.failed,
         deleted |-> IF r.quiet THEN {} ELSE o0.deleted \cup {k}]
   ELSE [store |-> o.store, failed |-> o0.failed \cup {k}, deleted |-> o0.deleted]
   : o \in DeleteAt(o0.store, <<PickBucket(c, r), k>>)}
  : o0 \in acc}
DeleteMany(c, s, r) ==
  {Ok(end.store, [deleted |-> end.deleted, failed |-> end.failed])
   : end \in Loop(LAMBDA acc, i : DeleteKey(c, r, acc, r.keys[i]),
                  {[store |-> s, deleted |-> {}, failed |-> {}]}, Len(r.keys))}

\* Content, IfMatch and IfNoneMatch are not passed on.
CopyObject(c, s, r) ==
  LET src == <<IF r.srcBucket = "" THEN c.bucket ELSE r.srcBucket, r.srcKey>>
      meta == LowerMetadataKeys(r.meta)
  IN Ask(Tries(LAMBDA t : SvcCopy(t, src, <<r.bucket, r.key>>, meta # "nil", meta,
                                  FALSE, "none", {}, FALSE), s))

\* One page of the service; StartAfter is not passed on.
ListObjects(c, s, r) ==
  LET page == Page(s, PickBucket(c, r), r.token, r.delim, r.max)
      list == [items |-> page.items, dirs |-> page.dirs, next |-> page.next,
               truncated |-> page.next # 0]
  IN Ask(Tries(LAMBDA t : SvcList(t, PickBucket(c, r), list), s))

(* Multipart *)
InitiateUpload(c, s, r) ==
  IF r.key = 0 THEN {Refuse(s, "invalid_argument")}
  ELSE {Ok([s EXCEPT !.next = @ + 1,
              !.sess = With(@, s.next, [at |-> At(c, r), ids |-> <<>>, listed |-> TRUE,
                                        meta |-> LowerMetadataKeys(r.meta)])],
           [id |-> s.next])}

LoadSession(s, at, id) ==
  id \in DOMAIN s.sess /\ s.sess[id].listed /\ s.sess[id].at = at
DeleteSession(s, at, id) ==
  IF LoadSession(s, at, id) THEN [s EXCEPT !.sess[id].listed = FALSE] ELSE s
ListSessions(s, bucket) ==
  {id \in DOMAIN s.sess : s.sess[id].listed /\ s.sess[id].at[1] = bucket}

\* The blocks staged and committed of a blob; a block id is its part number.
Blocks(s, at) == IF at \in DOMAIN s.ups THEN s.ups[at]
                 ELSE [staged |-> <<>>, done |-> <<>>]
SvcStageBlock(s, at, id, bytes) == Attempt(s, InBucket(s, at,
  Done([s EXCEPT !.ups = With(@, at,
          [Blocks(s, at) EXCEPT !.staged = With(@, id, bytes)])], Nothing)))
\* The latest block of each id, staged before committed; what was staged and
\* is not named is gone.
SvcCommitBlocks(s, at, ids, meta) ==
  LET b == Blocks(s, at)
      known == DOMAIN b.staged \cup DOMAIN b.done
      latest == [id \in known |->
                   IF id \in DOMAIN b.staged THEN b.staged[id] ELSE b.done[id]]
      o == ObjectOf(Joined([i \in DOMAIN ids |-> latest[ids[i]]]), meta, "none")
  IN Attempt(s, InBucket(s, at,
       IF ~(Range(ids) \subseteq known) THEN No(s, "invalidPart")
       ELSE Done([StoreObject(s, at, o) EXCEPT !.ups = With(@, at,
                    [staged |-> <<>>, done |-> Restrict(latest, Range(ids))])],
                 [etag |-> Etag(o)])))

UploadPartGet(c, s, r) ==
  IF r.body.nil THEN {Refuse(s, "invalid_argument")}
  ELSE IF r.size < 0 THEN {Refuse(s, "length_required")}
  ELSE IF ~LoadSession(s, At(c, r), r.id) THEN {Refuse(s, "not_found")}
  ELSE {}
\* StageBlock, then the block id is appended under the lock, to a session
\* that may have left the registry.
UploadPartStage(c, s, r) ==
  LET bytes == ToReadSeekCloser(r.body, r.size)
  IN IF r.body.fails THEN {Refuse(s, "internal")}
     ELSE {IF o.code # "ok" THEN o
           ELSE Ok([o.store EXCEPT !.sess[r.id].ids = Append(@, r.pn)],
                   [etag |-> <<r.pn>>])
           : o \in Ask(Tries(LAMBDA t : SvcStageBlock(t, At(c, r), r.pn, bytes), s))}

\* MUTANT: the session is dropped whatever CommitBlockList answers.
CompleteDropsSession(c, s, r) ==
  LET ids == [i \in DOMAIN r.parts |-> r.parts[i].pn]
  IN {[o EXCEPT !.store = DeleteSession(@, At(c, r), r.id)]
      : o \in Ask(Tries(LAMBDA t : SvcCommitBlocks(t, At(c, r), ids,
                                     s.sess[r.id].meta), s))}

CompleteUploadGet(c, s, r) ==
  IF r.parts = <<>> THEN {Refuse(s, "invalid_argument")}
  ELSE IF ~LoadSession(s, At(c, r), r.id) THEN {Refuse(s, "not_found")}
  ELSE {}
\* With the session in hand and no lock held.  The ids are the ETags of the
\* caller's parts, in the caller's order, or are derived from the part number;
\* the session, which may have left the registry, gives the metadata only.
CompleteUploadCommit(c, s, r) ==
  LET ids == [i \in DOMAIN r.parts |-> IF r.parts[i].etag # <<>>
                THEN r.parts[i].etag[1] ELSE r.parts[i].pn]
  IN {IF o.code # "ok" THEN o
      ELSE [o EXCEPT !.store = DeleteSession(@, At(c, r), r.id)]
      : o \in Ask(Tries(LAMBDA t : SvcCommitBlocks(t, At(c, r), ids,
                                     s.sess[r.id].meta), s))}

\* MUTANT: Abort answers and leaves the session.
AbortDoesNothing(c, s, r) == {Ok(s, Nothing)}

AbortUpload(c, s, r) == {Ok(DeleteSession(s, At(c, r), r.id), Nothing)}

\* In the order of a map; a limit cuts the list and leaves no token.
ListUploads(c, s, r) ==
  LET all == ListSessions(s, PickBucket(c, r))
      limit == IF r.max <= 0 THEN Cardinality(all) ELSE r.max
  IN {Ok(s, [ids |-> S, token |-> 0, truncated |-> S # all])
      : S \in {T \in SUBSET all : Cardinality(T) = Min({limit, Cardinality(all)})}}

(* Signer *)
MethodToSASPermissions(method) == method \in {"GET", "HEAD", "PUT", "DELETE"}

\* The capability it names is the read one, whatever is to be signed.
BuildSASURL(c, s, out) ==
  CASE c.scheme = "shared_key" ->
         IF c.signs THEN {Ok(s, out)} ELSE {Refuse(s, "unauthenticated")}
    [] c.scheme = "custom" ->
         IF ~c.signs THEN {NewUnsupported(s, "signer.url_read")}
         ELSE Ask(Tries(LAMBDA t : Attempt(t, Done(t, out)), s))
    [] c.scheme = "sas" -> {NewUnsupported(s, "signer.url_read")}
    [] OTHER -> {Refuse(s, "unauthenticated")}

SignURL(c, s, r) ==
  IF r.expires <= 0 \/ ~MethodToSASPermissions(r.method)
  THEN {Refuse(s, "invalid_argument")}
  ELSE BuildSASURL(c, s, [method |-> r.method, expires |-> r.expires, says |-> r.expires])
IssueDirectGrant(c, s, r) ==
  IF r.expires <= 0 THEN {Refuse(s, "invalid_argument")}
  ELSE BuildSASURL(c, s, [method |-> IF r.upload THEN "PUT" ELSE "GET",
                          expires |-> r.expires, says |-> r.expires])
=============================================================================
