------------------------------ MODULE GcsDriver ------------------------------
(* providers/gcs: the calls of the client, each as the set of its outcomes.  *)
(* c is the client Open returned with the bucket it is used for, s the state *)
(* of the service and of the driver's upload registry, r the request.        *)
(* UploadPart is cut where the code releases and takes a lock.               *)
EXTENDS ObjectService, S3Common

\* MUTANT: signing is reported whatever the credential.
SupportedWithSigner == {"bucket.crud", "object.crud",
                        "object.list.prefix_delimiter", "object.range_read",
                        "object.multipart_upload", "signer.url_read"}

Supported == {"bucket.crud", "object.crud", "object.list.prefix_delimiter",
              "object.range_read", "object.multipart_upload", "object.tagging",
              "bucket.versioning", "object.encryption.managed"}
Conditional == {"signer.url_read", "signer.url_write", "object.acl"}

(* Errors.  An SDK error is a sentinel for a missing object or bucket, an    *)
(* HTTP answer with reasons, a context error, or anything else.              *)
SdkError(sit) ==
  [missing |-> sit \in {"noSuchKey", "noSuchBucket"},
   reason |-> CASE sit = "bucketExists" -> "conflict"
                [] sit = "bucketNotEmpty" -> "conflict"
                [] sit = "preconditionFailed" -> "conditionNotMet"
                [] sit = "accessDenied" -> "forbidden"
                [] sit = "badCredential" -> "authError"
                [] sit = "slowDown" -> "rateLimitExceeded"
                [] sit \in {"internalError", "unavailable"} -> "backendError"
                [] OTHER -> "",
   status |-> CASE sit \in {"bucketExists", "bucketNotEmpty"} -> 409
                [] sit = "preconditionFailed" -> 412
                [] sit = "invalidRange" -> 416
                [] sit = "accessDenied" -> 403
                [] sit = "badCredential" -> 401
                [] sit = "slowDown" -> 429
                [] sit = "requestTimeout" -> 408
                [] sit = "internalError" -> 500
                [] sit = "unavailable" -> 503
                [] OTHER -> 0,
   saysExists |-> sit = "bucketExists",
   ctx |-> IF sit \in {"canceled", "deadline"} THEN sit ELSE "none"]

MapGoogleAPIReason(reason) ==
  CASE reason = "notFound" -> "not_found"
    [] reason \in {"conflict", "alreadyExists"} -> "already_exists"
    [] reason \in {"forbidden", "insufficientPermissions"} -> "permission_denied"
    [] reason \in {"required", "unauthorized", "authError"} -> "unauthenticated"
    [] reason = "conditionNotMet" -> "precondition_failed"
    [] reason \in {"resourceIsNotReady", "objectUnderActiveHold"} -> "conflict"
    [] reason \in {"rateLimitExceeded", "quotaExceeded"} -> "rate_limited"
    [] reason \in {"backendError", "internalError"} -> "temporary"
    [] reason \in {"invalid", "badRequest", "parseError"} -> "invalid_argument"
    [] reason \in {"uploadBrokenConnection", "checksumMismatch"}
                                                        -> "checksum_mismatch"
    [] OTHER -> NoCode

RetryableAt(code, status) == IsRetryable(code) \/ Is5xx(status)

MapError(s, e) ==
  IF e.missing THEN Refuse(s, "not_found")
  ELSE IF e.status # 0
  THEN LET code == CASE MapGoogleAPIReason(e.reason) # NoCode
                          -> MapGoogleAPIReason(e.reason)
                     [] e.status = 409 /\ e.saysExists -> "already_exists"
                     [] OTHER -> IF MapHTTPStatus(e.status) # NoCode
                                 THEN MapHTTPStatus(e.status) ELSE "internal"
       IN Error(s, code, RetryableAt(code, e.status), NoCap)
  ELSE IF MapContextErr(e.ctx) # NoCode
  THEN Error(s, MapContextErr(e.ctx), e.ctx = "deadline", NoCap)
  ELSE Refuse(s, "internal")

Answer(a) == IF a.sit = "ok" THEN Ok(a.store, a.out)
             ELSE MapError(a.store, SdkError(a.sit))
Ask(answers) == {Answer(a) : a \in answers}
Missing(o) == o.code = "not_found"

(* Factory *)
Validate(cfg) ==
  IF \/ cfg.provider \notin {"", "gcs"}
     \/ ~cfg.cred.given /\ "EmulatorEndpoint" \notin cfg.dc.fields
     \/ cfg.dc.given /\ ~cfg.dc.typed
  THEN "invalid_argument" ELSE "ok"

\* The options a credential gives and whether it brings a signing key.
BuildClientOptions(cred, fields) ==
  [ok |-> \/ /\ cred.scheme \in {"", "oauth2"}
             /\ cred.payload \in {"nil", "serviceAccount", "rawOptions"}
          \/ cred.scheme = "hmac" /\ cred.payload = "hmac",
   signs |-> "SignerKey" \in fields \/ cred.payload \in {"serviceAccount", "hmac"}]

\* NewClient looks for default credentials when the credential names none.
Opened(cfg) ==
  LET emulator == "EmulatorEndpoint" \in cfg.dc.fields /\ ~cfg.cred.given
      options == IF emulator THEN [ok |-> TRUE, signs |-> FALSE]
                 ELSE BuildClientOptions(cfg.cred, cfg.dc.fields)
  IN IF Validate(cfg) # "ok" THEN {Refuse(Nothing, Validate(cfg))}
     ELSE IF "BadSigningScheme" \in cfg.dc.fields
     THEN {Refuse(Nothing, "invalid_argument")}
     ELSE IF ~emulator /\ ~cfg.cred.resolves
     THEN {Refuse(Nothing, "unauthenticated")}
     ELSE IF ~options.ok THEN {Refuse(Nothing, "invalid_argument")}
     ELSE {Ok(Nothing, [drv |-> "gcs", scheme |-> cfg.cred.scheme,
                        signs |-> options.signs, live |-> TRUE,
                        project |-> "ProjectID" \in cfg.dc.fields])}
          \cup IF emulator \/ cfg.cred.payload # "nil" THEN {}
               ELSE {Refuse(Nothing, "invalid_argument")}

Close(c) == c                  \* the SDK client is closed, calls still pass

(* Buckets *)
ListBuckets(c, s, r) == IF ~c.project THEN {Refuse(s, "invalid_argument")}
  ELSE Ask({IF a.sit # "ok" \/ r.max = 0 THEN a
            ELSE [a EXCEPT !.out.buckets = CHOOSE B \in SUBSET @ :
                    Cardinality(B) = Min({r.max, Cardinality(@)})]
            : a \in SvcListBuckets(s)})
CreateBucket(c, s, r) ==
  IF r.name = "" \/ ~c.project THEN {Refuse(s, "invalid_argument")}
  ELSE Ask(SvcCreateBucket(s, r.name))
StatBucket(c, s, r) == IF r.name = "" THEN {Refuse(s, "invalid_argument")}
                       ELSE Ask(SvcStatBucket(s, r.name))
DeleteBucket(c, s, r) == IF r.name = "" THEN {Refuse(s, "invalid_argument")}
                         ELSE Ask(SvcDeleteBucket(s, r.name))

(* Objects *)
PickBucket(c, r) == IF r.bucket # "" THEN r.bucket ELSE c.bucket
At(c, r) == <<PickBucket(c, r), r.key>>

\* A body that fails is followed by Close, which publishes what was read.
\* IfMatch is not looked at.
PutObject(c, s, r) ==
  LET o == ObjectOf(r.body.bytes, LowerMetadataKeys(r.meta), r.ctype)
      asked == SvcPut(s, At(c, r), o, FALSE, {}, r.noneMatch = "*")
  IN IF r.body.nil THEN {Refuse(s, "invalid_argument")}
     ELSE IF r.body.fails THEN {Refuse(a.store, "internal") : a \in asked}
     ELSE Ask(asked)

\* An IfMatch that is no generation number is no condition at all.
BuildReadConditions(match) == {}
TranslateRange(first, last) ==            \* offset and length, -1 to the end
  [offset |-> first, length |-> IF last < 0 THEN -1 ELSE last - first + 1]
GetObject(c, s, r) ==
  LET rng == TranslateRange(r.first, r.last)
  IN Ask(SvcGet(s, At(c, r), rng.offset,
                IF rng.length < 0 THEN -1 ELSE rng.offset + rng.length - 1,
                BuildReadConditions(r.match)))

HeadObject(c, s, r) == Ask(SvcHead(s, At(c, r)))
ExistsObject(c, s, r) ==
  {IF o.code = "ok" THEN Ok(o.store, [exists |-> TRUE])
   ELSE IF Missing(o) THEN Ok(o.store, [exists |-> FALSE]) ELSE o
   : o \in HeadObject(c, s, r)}

DeleteAt(s, at) == Ask(SvcDelete(s, at, TRUE))
DeleteObject(c, s, r) ==
  {IF Missing(o) THEN Ok(o.store, Nothing) ELSE o : o \in DeleteAt(s, At(c, r))}

\* Key after key; a key's failure is recorded and the loop goes on.
DeleteKey(c, r, acc, k) == UNION {
  {IF o.code = "ok" \/ Missing(o)
   THEN [store |-> o.store, failed |-> o0.failed,
         deleted |-> IF r.quiet THEN {} ELSE o0.deleted \cup {k}]
   ELSE [store |-> o.store, failed |-> o0.failed \cup {k}, deleted |-> o0.deleted]
   : o \in DeleteAt(o0.store, <<PickBucket(c, r), k>>)}
  : o0 \in acc}
DeleteMany(c, s, r) ==
  {Ok(end.store, [deleted |-> end.deleted, failed |-> end.failed])
   : end \in Loop(LAMBDA acc, i : DeleteKey(c, r, acc, r.keys[i]),
                  {[store |-> s, deleted |-> {}, failed |-> {}]}, Len(r.keys))}

\* With IfNoneMatch the copier is built again, without the attributes.
CopyObject(c, s, r) ==
  LET src == <<IF r.srcBucket = "" THEN c.bucket ELSE r.srcBucket, r.srcKey>>
      again == r.noneMatch = "*"
      meta == LowerMetadataKeys(r.meta)
  IN Ask(SvcCopy(s, src, <<r.bucket, r.key>>, meta # "nil" /\ ~again, meta,
                 r.ctype # "none" /\ ~again, r.ctype, {}, again))

\* The iterator hands out a page's items, then its prefixes, and the loop
\* fetches pages until it has max items; the token is that of the last page
\* fetched, whatever of it was read.  StartAfter goes as StartOffset, which is
\* inclusive.
ListObjects(c, s, r) ==
  LET b == PickBucket(c, r)
      Fetch(acc, n) == IF acc.full \/ (n > 1 /\ acc.next = 0) THEN acc
        ELSE LET after == IF n > 1 THEN acc.next
                          ELSE IF r.token >= r.startAfter THEN r.token
                          ELSE r.startAfter - 1
                 page == Page(s, b, after, r.delim, r.max)
                 want == r.max - Cardinality(acc.items)
                 full == r.max > 0 /\ Cardinality(page.items) >= want
             IN [items |-> acc.items \cup
                           (IF full THEN FirstOf(page.items, want) ELSE page.items),
                 dirs |-> acc.dirs \cup (IF full THEN {} ELSE page.dirs),
                 next |-> page.next, full |-> full]
      all == Loop(Fetch, [items |-> {}, dirs |-> {}, next |-> 0, full |-> FALSE],
                  Cardinality(Keys))
  IN Ask(SvcList(s, b, [items |-> all.items, dirs |-> all.dirs,
                        next |-> all.next, truncated |-> all.next # 0]))
(* Multipart: a resumable upload behind one writer, parts in order.  A       *)
(* session stays reachable for a call that got it before it was taken out.   *)
NewSession(at, meta) == [at |-> at, meta |-> meta, next |-> 1, written |-> <<>>,
                         writer |-> "none", listed |-> TRUE]
Listed(s, id) == id \in DOMAIN s.sess /\ s.sess[id].listed
Take(s, id) == [s EXCEPT !.sess[id].listed = FALSE]

InitiateUpload(c, s, r) ==
  IF r.key = 0 THEN {Refuse(s, "invalid_argument")}
  ELSE {Ok([s EXCEPT !.next = @ + 1,
              !.sess = With(@, s.next, NewSession(At(c, r), LowerMetadataKeys(r.meta)))],
           [id |-> s.next])}

\* Up to the end of uploads.get: a refusal, or the session to go on with.
UploadPartGet(c, s, r) ==
  IF r.body.nil \/ r.id = 0 \/ r.pn < 1 THEN {Refuse(s, "invalid_argument")}
  ELSE IF ~Listed(s, r.id) THEN {Refuse(s, "not_found")}
  ELSE {}

\* MUTANT: parts are taken in any order.
UploadPartAnyOrder(c, s, r) ==
  LET opened == [s EXCEPT !.sess[r.id].writer = IF @ = "none" THEN "open" ELSE @,
                          !.sess[r.id].written = @ \o r.body.bytes]
  IN IF s.sess[r.id].writer \notin {"none", "open"} \/ r.body.fails
     THEN {Refuse(s, "internal")}
     ELSE {Ok([opened EXCEPT !.sess[r.id].next = @ + 1], [etag |-> <<r.pn>>])}

\* What the service does to a writer, whose context is its own.  The writer
\* keeps the error and gives it to every later call.
WriterFaults == Faults \ {"canceled", "deadline"}
Broken(s, id, f) == MapError([s EXCEPT !.sess[id].writer = f], SdkError(f))

\* Under the session's lock.  The writer takes what the body gives until it
\* fails or the service does; only a whole part moves next on.
UploadPartLocked(c, s, r) ==
  LET me == s.sess[r.id]
      opened == [s EXCEPT !.sess[r.id].writer = IF @ = "none" THEN "open" ELSE @,
                          !.sess[r.id].written = @ \o r.body.bytes]
  IN IF me.next # r.pn THEN {Refuse(s, "invalid_argument")}
     ELSE IF me.writer \in WriterFaults THEN {Broken(s, r.id, me.writer)}
     ELSE IF me.writer \notin {"none", "open"} THEN {Refuse(s, "internal")}
     ELSE {Broken(s, r.id, f) : f \in WriterFaults} \cup
          {IF r.body.fails THEN Refuse(opened, "internal")
           ELSE Ok([opened EXCEPT !.sess[r.id].next = @ + 1], [etag |-> <<r.pn>>])}

\* Complete and Abort: uploads.take (Take), a step of its own, and then what
\* is done to the session under its lock.
CompleteUploadGet(c, s, r) ==
  IF Listed(s, r.id) THEN {} ELSE {Refuse(s, "not_found")}
\* Close of the writer publishes what was written; nothing of r.parts is
\* looked at.
CompleteUploadClose(c, s, r) ==
  LET me == s.sess[r.id]
      closed == [s EXCEPT !.sess[r.id].writer = "closed"]
  IN IF me.writer \in WriterFaults THEN {Broken(s, r.id, me.writer)}
     ELSE Ask({a \in SvcPut(closed, me.at, ObjectOf(me.written, me.meta, "none"),
                             FALSE, {}, FALSE) : a.sit \notin {"canceled", "deadline"}})

AbortUploadGet(c, s, r) == IF Listed(s, r.id) THEN {} ELSE {Ok(s, Nothing)}
AbortUploadClose(c, s, r) ==
  {Ok([s EXCEPT !.sess[r.id].writer = IF @ = "open" THEN "aborted" ELSE @], Nothing)}

ListUploads(c, s, r) == {Ok(s, [ids |-> {}, token |-> 0, truncated |-> FALSE])}

(* Signer *)
SignURL(c, s, r) ==
  IF r.expires <= 0 \/ r.method \notin {"GET", "PUT", "HEAD", "DELETE"}
  THEN {Refuse(s, "invalid_argument")}
  ELSE IF ~c.signs
  THEN {NewUnsupported(s, IF r.method = "PUT" THEN "signer.url_write"
                          ELSE "signer.url_read")}
  ELSE {Ok(s, [method |-> r.method, expires |-> r.expires, says |-> r.expires])}
IssueDirectGrant(c, s, r) == {NewUnsupported(s, "signer.direct_grant")}
=============================================================================
