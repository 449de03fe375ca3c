----------------------------- MODULE QiniuDriver -----------------------------
(* providers/qiniu: the calls of the client, each as the set of its outcomes *)
(* (c, s, r as in GcsDriver).  c.signs says that a download domain is        *)
(* configured; it is bound to the bucket c.bucket.  Management calls take no *)
(* context.  An upload is one of the service plus a session of the process.  *)
EXTENDS ObjectService, S3Common

Supported == {"bucket.crud", "object.crud", "object.list.prefix_delimiter",
              "object.range_read", "object.multipart_upload", "signer.url_read",
              "signer.direct_grant"}
Conditional == {"signer.url_write"}

(* Errors *)
SdkError(sit) ==
  [missing |-> sit \in {"noSuchKey", "noSuchBucket"},
   reason |-> CASE sit = "noSuchUpload" -> "no such file or directory"
                [] sit = "bucketExists" -> "bucket exists"
                [] sit = "accessDenied" -> "access denied"
                [] sit = "badCredential" -> "bad token"
                [] sit = "slowDown" -> "too many requests"
                [] OTHER -> "",
   status |-> CASE sit = "noSuchKey" -> 612
                [] sit = "noSuchBucket" -> 631
                [] sit = "noSuchUpload" -> 612
                [] sit = "bucketExists" -> 614
                [] sit \in {"bucketNotEmpty", "invalidPart"} -> 400
                [] sit = "invalidRange" -> 416
                [] sit = "accessDenied" -> 403
                [] sit = "badCredential" -> 401
                [] sit = "slowDown" -> 573
                [] sit = "requestTimeout" -> 504
                [] sit = "internalError" -> 599
                [] sit = "unavailable" -> 503
                [] OTHER -> 0,
   ctx |-> IF sit \in {"canceled", "deadline"} THEN sit ELSE "none"]

MapQiniuReason(reason) ==
  CASE reason \in {"no such file or directory", "no such bucket"} -> "not_found"
    [] reason \in {"file exists", "bucket exists"}   -> "already_exists"
    [] reason \in {"bad token", "expired token"}     -> "unauthenticated"
    [] reason \in {"access denied", "forbidden"}     -> "permission_denied"
    [] reason \in {"bucket is locked", "in progress"} -> "conflict"
    [] reason \in {"too many requests", "throttle"}  -> "rate_limited"
    [] reason \in {"etag mismatch", "data corrupted"} -> "checksum_mismatch"
    [] reason = "missing content-length"             -> "length_required"
    [] reason \in {"invalid argument", "bad request"} -> "invalid_argument"
    [] OTHER -> NoCode

IsQiniuRetryableStatus(status) == status \in {500, 502, 503, 504} \cup 570..579

MapError(s, e) ==
  IF e.missing THEN Refuse(s, "not_found")
  ELSE IF e.status # 0
  THEN LET code == IF MapQiniuReason(e.reason) # NoCode THEN MapQiniuReason(e.reason)
                   ELSE IF MapHTTPStatus(e.status) # NoCode
                   THEN MapHTTPStatus(e.status) ELSE "internal"
       IN Error(s, code, \/ IsQiniuRetryableStatus(e.status)
                         \/ code # "internal" /\ IsRetryable(code), NoCap)
  ELSE IF MapContextErr(e.ctx) # NoCode
  THEN Error(s, MapContextErr(e.ctx), e.ctx = "deadline", NoCap)
  ELSE Refuse(s, "internal")

\* qiniuStatusError, what a download that is answered with an HTTP error
\* gives: none of the types MapError asks for, so its status is not read.
StatusError(sit) == [SdkError(sit) EXCEPT !.missing = FALSE, !.status = 0]

Answer(a) == IF a.sit = "ok" THEN Ok(a.store, a.out)
             ELSE MapError(a.store, SdkError(a.sit))
Ask(answers) == {Answer(a) : a \in answers}
\* A call that takes no context cannot be cancelled by one.
Management(answers) == Ask({a \in answers : a.sit \notin {"canceled", "deadline"}})
Missing(o) == o.code = "not_found"

(* Factory *)
Hosts == {"RsHost", "RsfHost", "ApiHost", "IoHost", "UpHost"}
Validate(cfg) ==
  IF \/ cfg.provider \notin {"", "qiniu"} \/ ~cfg.cred.given
     \/ cfg.dc.given /\ ~cfg.dc.typed
     \/ /\ ~cfg.region /\ "Region" \notin cfg.dc.fields
        /\ cfg.endpoint = "" /\ cfg.dc.fields \cap Hosts = {}
  THEN "invalid_argument" ELSE "ok"

ExtractCredentials(cred) == cred.payload = "qiniu"
Opened(cfg) ==
  LET region == cfg.region \/ "Region" \in cfg.dc.fields
  IN IF Validate(cfg) # "ok" THEN {Refuse(Nothing, Validate(cfg))}
     ELSE IF ~cfg.cred.resolves THEN {Refuse(Nothing, "unauthenticated")}
     ELSE IF \/ cfg.cred.scheme \notin {"custom", ""}
             \/ ~ExtractCredentials(cfg.cred)
             \/ region /\ "UnknownRegion" \in cfg.dc.fields
     THEN {Refuse(Nothing, "invalid_argument")}
     ELSE {Ok(Nothing, [drv |-> "qiniu", scheme |-> cfg.cred.scheme, live |-> TRUE,
                        signs |-> "Domain" \in cfg.dc.fields, project |-> region])}

Close(c) == c

(* Buckets *)
ListBuckets(c, s, r) == Management(SvcListBuckets(s))
CreateBucket(c, s, r) ==
  IF r.name = "" \/ (~r.region /\ ~c.project) THEN {Refuse(s, "invalid_argument")}
  ELSE Management(SvcCreateBucket(s, r.name))
\* Stat lists one file and takes any answer for a yes.
StatBucket(c, s, r) ==
  IF r.name = "" THEN {Refuse(s, "invalid_argument")}
  ELSE Management(SvcStatBucket(s, r.name))
DeleteBucket(c, s, r) ==
  IF r.name = "" THEN {Refuse(s, "invalid_argument")}
  ELSE Management(SvcDeleteBucket(s, r.name))

(* Objects *)
PickBucket(c, r) == IF r.bucket # "" THEN r.bucket ELSE c.bucket
At(c, r) == <<PickBucket(c, r), r.key>>
BuildPutParams(m) == LowerMetadataKeys(m)        \* prefixed, nil stays nil

\* No precondition of the request is passed on.
PutObject(c, s, r) ==
  IF r.body.nil THEN {Refuse(s, "invalid_argument")}
  ELSE IF r.size < 0 THEN {Refuse(s, "length_required")}
  ELSE Ask(SvcPut(s, At(c, r), ObjectOf(r.body.bytes, BuildPutParams(r.meta), r.ctype),
                  r.body.fails, {}, FALSE))

\* A download goes to the domain's bucket, whatever bucket is asked for.
BuildRangeHeader(first, last) == [first |-> first, last |-> IF last < 0 THEN -1 ELSE last]
GetObject(c, s, r) ==
  LET rng == BuildRangeHeader(r.first, r.last)
  IN IF ~c.signs THEN {NewUnsupported(s, "object.crud")}
     ELSE {IF a.sit = "ok" THEN Ok(a.store, a.out)
           ELSE MapError(a.store, StatusError(a.sit))
           : a \in SvcGet(s, <<c.bucket, r.key>>, rng.first, rng.last, {})}

HeadObject(c, s, r) == Management(SvcHead(s, At(c, r)))
ExistsObject(c, s, r) ==
  {IF o.code = "ok" THEN Ok(o.store, [exists |-> TRUE])
   ELSE IF Missing(o) THEN Ok(o.store, [exists |-> FALSE]) ELSE o
   : o \in HeadObject(c, s, r)}
DeleteObject(c, s, r) ==
  {IF Missing(o) THEN Ok(o.store, Nothing) ELSE o
   : o \in Management(SvcDelete(s, At(c, r), TRUE))}

\* One batch; when it fails as a whole every key is reported failed and the
\* call itself succeeds.
DeleteMany(c, s, r) ==
  IF r.keys = <<>> THEN {Ok(s, [deleted |-> {}, failed |-> {}])}
  ELSE {IF o.code = "ok" THEN Ok(o.store, o.out)
        ELSE Ok(o.store, [deleted |-> {}, failed |-> Range(r.keys)])
        : o \in Management(SvcDeleteBatch(s, PickBucket(c, r), r.keys, r.quiet))}

\* Copy with force; the attributes and preconditions of the request are not
\* passed on, and a Stat that fails leaves the result empty.
CopyObject(c, s, r) ==
  LET src == <<IF r.srcBucket = "" THEN c.bucket ELSE r.srcBucket, r.srcKey>>
  IN UNION {IF o.code # "ok" THEN {o}
            ELSE {IF h.code = "ok" THEN o ELSE Ok(o.store, [etag |-> <<>>])
                  : h \in Management(SvcHead(o.store, <<r.bucket, r.key>>))}
            : o \in Management(SvcCopy(s, src, <<r.bucket, r.key>>,
                                 FALSE, "nil", FALSE, "none", {}, FALSE))}

\* StartAfter is not passed on.
ListObjects(c, s, r) ==
  LET page == Page(s, PickBucket(c, r), r.token, r.delim, r.max)
  IN Management(SvcList(s, PickBucket(c, r),
       [items |-> page.items, dirs |-> page.dirs, next |-> page.next,
        truncated |-> page.next # 0]))

(* Multipart *)
InitiateUpload(c, s, r) ==
  IF r.key = 0 THEN {Refuse(s, "invalid_argument")}
  ELSE {IF o.code # "ok" THEN o
        ELSE [o EXCEPT !.store.sess = With(@, o.out.id,
               [at |-> At(c, r), parts |-> <<>>, listed |-> TRUE])]
        : o \in Ask(SvcCreateUpload(s, At(c, r), BuildPutParams(r.meta)))}

LoadSession(s, id) == id \in DOMAIN s.sess /\ s.sess[id].listed
DeleteSession(s, id) ==
  IF LoadSession(s, id) THEN [s EXCEPT !.sess[id].listed = FALSE] ELSE s
ListSessions(s, bucket) ==
  {id \in DOMAIN s.sess : s.sess[id].listed /\ s.sess[id].at[1] = bucket}

UploadPartGet(c, s, r) ==
  IF r.body.nil THEN {Refuse(s, "invalid_argument")}
  ELSE IF r.size < 0 THEN {Refuse(s, "length_required")}
  ELSE IF r.pn < 1 THEN {Refuse(s, "invalid_argument")}
  ELSE IF ~LoadSession(s, r.id) THEN {Refuse(s, "not_found")}
  ELSE {}
\* The session's key is the one that counts.
UploadPartSend(c, s, r) ==
  {IF o.code # "ok" THEN o
   ELSE [o EXCEPT !.store.sess[r.id].parts =
           Append(@, [pn |-> r.pn, etag |-> o.out.etag])]
   : o \in Ask(SvcUploadPart(s, r.id, s.sess[r.id].at, r.pn, r.body.bytes, r.body.fails))}

CompleteUploadGet(c, s, r) ==
  IF r.parts = <<>> THEN {Refuse(s, "invalid_argument")}
  ELSE IF ~LoadSession(s, r.id) THEN {Refuse(s, "not_found")}
  ELSE {}
\* With the session in hand and no lock held.  The caller's parts are sent;
\* those of the session are not looked at.
CompleteUploadCommit(c, s, r) ==
  {IF o.code # "ok" THEN o ELSE [o EXCEPT !.store = DeleteSession(@, r.id)]
   : o \in Ask(SvcComplete(s, r.id, s.sess[r.id].at, r.parts))}

\* The upload stays with the service until it expires there.
AbortUpload(c, s, r) == {Ok(DeleteSession(s, r.id), Nothing)}

ListUploads(c, s, r) ==
  LET all == ListSessions(s, PickBucket(c, r))
      limit == IF r.max <= 0 THEN Cardinality(all) ELSE r.max
  IN {Ok(s, [ids |-> S, token |-> 0, truncated |-> S # all])
      : S \in {T \in SUBSET all : Cardinality(T) = Min({limit, Cardinality(all)})}}

(* Signer: times in half seconds; a deadline is a whole second. *)
SignURL(c, s, r) ==
  IF r.expires <= 0 THEN {Refuse(s, "invalid_argument")}
  ELSE IF r.method \in {"PUT", "POST", "DELETE"}
  THEN {NewUnsupported(s, "signer.url_write")}
  ELSE IF r.method \notin {"GET", "HEAD"} THEN {Refuse(s, "invalid_argument")}
  ELSE IF ~c.signs THEN {NewUnsupported(s, "signer.url_read")}
  ELSE LET deadline == 2 * (r.expires \div 2)
       IN {Ok(s, [method |-> r.method, expires |-> deadline, says |-> deadline])}

\* An upload token of no whole second is one of the SDK's default, an hour.
DefaultPolicy == 7200
PolicyLife(expires) == IF expires \div 2 = 0 THEN DefaultPolicy ELSE 2 * (expires \div 2)
IssueDirectGrant(c, s, r) ==
  IF r.expires <= 0 THEN {Refuse(s, "invalid_argument")}
  ELSE IF r.upload
  THEN {Ok(s, [method |-> "POST", expires |-> PolicyLife(r.expires), says |-> r.expires])}
  ELSE IF ~c.signs THEN {NewUnsupported(s, "signer.direct_grant")}
  ELSE {Ok(s, [method |-> "GET", expires |-> 2 * (r.expires \div 2), says |-> r.expires])}
=============================================================================
