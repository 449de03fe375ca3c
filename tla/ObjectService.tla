---------------------------- MODULE ObjectService ----------------------------
(* EXTERNAL.  The object service behind a driver, as the drivers use it: a   *)
(* request is carried out whole or refused, the answer may be lost, and what *)
(* comes back is a situation that each SDK renders as an error of its own.   *)
(*   buckets  the names of the buckets there are                             *)
(*   objs     <<bucket, key>> -> object (bytes, user metadata, content type) *)
(*   ups      id -> an open multipart upload; Azure keeps here, under        *)
(*            <<bucket, key>>, the blocks of a blob that are not committed   *)
(*   sess     the driver's own registry of uploads (gcs, azure, qiniu,       *)
(*            upyun keep one); it lives in the process, not in the service   *)
(*   next     the next fresh upload id                                       *)
(* Keys are numbers in the order a listing gives them; the keys of Folder    *)
(* share one prefix that ends in the delimiter.                              *)
EXTENDS Errors, Sequences, FiniteSetsExt

CONSTANTS Keys, Folder, Faults,
          DeleteBatchLimit    \* keys of one batch of DeleteMany where a driver
                              \* cuts batches itself: 1000 in aws and tencent

\* The situations an answer can report; those of Lost may also strike after
\* the request was carried out.
Refusals == {"accessDenied", "badCredential", "slowDown", "requestTimeout",
             "unavailable"}
Lost == {"internalError", "connReset", "deadline", "canceled"}
Situations == Refusals \cup Lost \cup
  {"ok", "noSuchKey", "noSuchBucket", "noSuchUpload", "bucketExists",
   "bucketNotEmpty", "preconditionFailed", "notModified", "invalidRange",
   "invalidPart", "bodyFailed"}

ASSUME ServiceAssumption ==
  /\ Keys \subseteq Nat \ {0} /\ Folder \subseteq Keys
  /\ Faults \subseteq Refusals \cup Lost
  /\ DeleteBatchLimit \in Nat \ {0}

NewStore(buckets) == [buckets |-> buckets, objs |-> <<>>, ups |-> <<>>,
                      sess |-> <<>>, next |-> 1]

\* A loop over 1..n.  SequencesExt has folds, but each driver would bring its
\* sixty operators along, and the provers carry all of them.
Loop(Turn(_, _), start, n) ==
  LET after[i \in 0..n] == IF i = 0 THEN start ELSE Turn(after[i - 1], i)
  IN after[n]

\* The byte strings of a sequence, one after the other.
Joined(seqs) == Loop(LAMBDA bytes, i : bytes \o seqs[i], <<>>, Len(seqs))

\* A finite set of numbers in their order.
Ascending(S) == CHOOSE seq \in [1..Cardinality(S) -> S] :
                  \A i, j \in DOMAIN seq : i < j => seq[i] < seq[j]

Without(f, x) == Restrict(f, DOMAIN f \ {x})
With(f, x, v) == [y \in DOMAIN f \cup {x} |-> IF y = x THEN v ELSE f[y]]

ObjectOf(bytes, meta, ctype) == [bytes |-> bytes, meta |-> meta, ctype |-> ctype]
Etag(o) == o.bytes                        \* content decides the entity tag

Reply(s, sit, out) == [store |-> s, sit |-> sit, out |-> out]
Done(s, out) == Reply(s, "ok", out)
No(s, sit) == Reply(s, sit, Nothing)

\* Every way the request answered by a can come back, faults included.
Attempt(s, a) ==
  {a} \cup {No(s, f) : f \in Faults}
      \cup {No(a.store, f) : f \in Faults \cap Lost}

InBucket(s, at, a) == IF at[1] \in s.buckets THEN a ELSE No(s, "noSuchBucket")

(* Objects *)
Has(s, at) == at \in DOMAIN s.objs
StoreObject(s, at, o) == [s EXCEPT !.objs = With(s.objs, at, o)]

\* match is a set of entity tags, empty for no condition.
Fails(s, at, match, noneMatch) ==
  \/ match # {} /\ ~(Has(s, at) /\ Etag(s.objs[at]) \in match)
  \/ noneMatch /\ Has(s, at)

\* "*" on the source of a copy, which exists: no entity tag passes.
NoTag == <<0 - 1>>
SourceTags(match, noneMatch) == IF noneMatch = "*" THEN {NoTag} ELSE match

SvcPut(s, at, o, bodyFails, match, noneMatch) == Attempt(s, InBucket(s, at,
  IF bodyFails THEN No(s, "bodyFailed")
  ELSE IF Fails(s, at, match, noneMatch) THEN No(s, "preconditionFailed")
  ELSE Done(StoreObject(s, at, o), [etag |-> Etag(o)])))

\* The bytes from first to last, both counted from 0; last -1 means the end.
Slice(bytes, first, last) ==
  SubSeq(bytes, first + 1,
         IF last = -1 \/ last >= Len(bytes) THEN Len(bytes) ELSE last + 1)

SvcGet(s, at, first, last, match) == Attempt(s, InBucket(s, at,
  IF ~Has(s, at) THEN No(s, "noSuchKey")
  ELSE IF match # {} /\ Etag(s.objs[at]) \notin match
       THEN No(s, "preconditionFailed")
  ELSE IF first > 0 /\ first >= Len(s.objs[at].bytes) THEN No(s, "invalidRange")
  ELSE Done(s, ObjectOf(Slice(s.objs[at].bytes, first, last),
                        s.objs[at].meta, s.objs[at].ctype))))

SvcHead(s, at) == Attempt(s, InBucket(s, at,
  IF Has(s, at) THEN Done(s, s.objs[at]) ELSE No(s, "noSuchKey")))

\* strict: the service reports a missing key (GCS, Azure, Qiniu, Upyun).
SvcDelete(s, at, strict) == Attempt(s, InBucket(s, at,
  IF strict /\ ~Has(s, at) THEN No(s, "noSuchKey")
  ELSE Done([s EXCEPT !.objs = Without(@, at)], Nothing)))

\* One request for many keys: each is deleted, or denied and named in the
\* answer; quiet answers name the failures only.
SvcDeleteBatch(s, bucket, keys, quiet) ==
  UNION {Attempt(s, InBucket(s, <<bucket, 0>>,
           Done([s EXCEPT !.objs = Restrict(@, DOMAIN @ \
                   {<<bucket, k>> : k \in Range(keys) \ denied})],
                [deleted |-> IF quiet THEN {} ELSE Range(keys) \ denied,
                 failed |-> denied])))
         : denied \in IF "accessDenied" \in Faults THEN SUBSET Range(keys) ELSE {{}}}

\* meta and ctype are those of the copy; replace* says whether the service is
\* asked to take them instead of the source's.
SvcCopy(s, src, dst, replaceMeta, meta, replaceType, ctype, match, noneMatch) ==
  Attempt(s, InBucket(s, dst, InBucket(s, src,
    IF ~Has(s, src) THEN No(s, "noSuchKey")
    ELSE IF \/ match # {} /\ Etag(s.objs[src]) \notin match
            \/ noneMatch /\ Has(s, dst)
         THEN No(s, "preconditionFailed")
    ELSE LET o == ObjectOf(s.objs[src].bytes,
                           IF replaceMeta THEN meta ELSE s.objs[src].meta,
                           IF replaceType THEN ctype ELSE s.objs[src].ctype)
         IN Done(StoreObject(s, dst, o), [etag |-> Etag(o)]))))

\* The entries after a position: a key, or for a folder rolled up by the
\* delimiter its last key.  Of those, a page holds the first max (0: all);
\* its next is the position to go on after, 0 when nothing is left.
FirstOf(S, max) == IF max = 0 THEN S
                   ELSE {e \in S : Cardinality({x \in S : x <= e}) <= max}
Entries(s, bucket, delim) ==
  LET there == {k \in Keys : <<bucket, k>> \in DOMAIN s.objs}
  IN IF delim /\ there \cap Folder # {}
     THEN (there \ Folder) \cup {Max(Folder)} ELSE there

Page(s, bucket, after, delim, max) ==
  LET rest == {e \in Entries(s, bucket, delim) : e > after}
      page == FirstOf(rest, max)
  IN [items |-> IF delim THEN page \ Folder ELSE page,
      dirs |-> IF delim THEN page \cap Folder ELSE {},
      next |-> IF page = rest THEN 0 ELSE Max(page)]

SvcList(s, bucket, page) == Attempt(s, InBucket(s, <<bucket, 0>>, Done(s, page)))

(* Buckets *)
SvcListBuckets(s) == Attempt(s, Done(s, [buckets |-> s.buckets]))
SvcCreateBucket(s, b) == Attempt(s,
  IF b \in s.buckets THEN No(s, "bucketExists")
  ELSE Done([s EXCEPT !.buckets = @ \cup {b}], [name |-> b]))
SvcStatBucket(s, b) == Attempt(s, InBucket(s, <<b, 0>>, Done(s, [name |-> b])))
SvcDeleteBucket(s, b) == Attempt(s, InBucket(s, <<b, 0>>,
  IF \E at \in DOMAIN s.objs : at[1] = b THEN No(s, "bucketNotEmpty")
  ELSE Done([s EXCEPT !.buckets = @ \ {b}], Nothing)))

\* A URL signed with a duration lives for whole seconds of it; times are
\* counted in half seconds.
PresignLife(expires) == 2 * (expires \div 2)

(* Multipart uploads *)
SvcCreateUpload(s, at, meta) == Attempt(s, InBucket(s, at,
  Done([s EXCEPT !.next = @ + 1,
                 !.ups = With(@, s.next, [at |-> at, meta |-> meta, parts |-> <<>>])],
       [id |-> s.next])))

IsOpen(s, id, at) == id \in DOMAIN s.ups /\ s.ups[id].at = at

SvcUploadPart(s, id, at, pn, bytes, bodyFails) == Attempt(s,
  IF ~IsOpen(s, id, at) THEN No(s, "noSuchUpload")
  ELSE IF bodyFails THEN No(s, "bodyFailed")
  ELSE Done([s EXCEPT !.ups[id].parts = With(@, pn, bytes)], [etag |-> bytes]))

\* parts is a sequence of [pn, etag]; an upload is made of exactly those.
Assembled(parts) == Joined([i \in DOMAIN parts |-> parts[i].etag])
SvcComplete(s, id, at, parts) == Attempt(s,
  IF ~IsOpen(s, id, at) THEN No(s, "noSuchUpload")
  ELSE IF \/ parts = <<>>
          \/ \E i \in DOMAIN parts :
               \/ parts[i].pn \notin DOMAIN s.ups[id].parts
               \/ s.ups[id].parts[parts[i].pn] # parts[i].etag
               \/ i > 1 /\ parts[i].pn <= parts[i - 1].pn
       THEN No(s, "invalidPart")
  ELSE LET o == ObjectOf(Assembled(parts), s.ups[id].meta, "none")
       IN Done([StoreObject(s, at, o) EXCEPT !.ups = Without(@, id)],
               [etag |-> Etag(o)]))

SvcAbort(s, id, at) == Attempt(s,
  IF ~IsOpen(s, id, at) THEN No(s, "noSuchUpload")
  ELSE Done([s EXCEPT !.ups = Without(@, id)], Nothing))

\* Uploads are listed by key, then by id; with a key marker alone the listing
\* goes on behind every upload of that key.
After(u, id, key, marker) == \/ u.at[2] > key
                             \/ u.at[2] = key /\ marker # 0 /\ id > marker
SvcListUploads(s, bucket, key, marker, max) == Attempt(s, InBucket(s, <<bucket, 0>>,
  LET Before(i, j) == \/ s.ups[i].at[2] < s.ups[j].at[2]
                      \/ s.ups[i].at[2] = s.ups[j].at[2] /\ i <= j
      rest == {i \in DOMAIN s.ups : /\ s.ups[i].at[1] = bucket
                                    /\ After(s.ups[i], i, key, marker)}
      page == IF max = 0 THEN rest
              ELSE {i \in rest : Cardinality({j \in rest : Before(j, i)}) <= max}
      last == CHOOSE i \in page : \A j \in page : Before(j, i)
  IN Done(s, IF page = rest THEN [ids |-> page, key |-> 0, id |-> 0]
             ELSE [ids |-> page, key |-> s.ups[last].at[2], id |-> last])))
=============================================================================
