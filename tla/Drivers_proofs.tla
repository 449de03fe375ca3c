--------------------------- MODULE Drivers_proofs ----------------------------
(* What the calls of the ten drivers do to the store they work on, proved    *)
(* driver by driver from their definitions: the facts that the proofs about  *)
(* the callers (ObjectCalls_proofs, Uploads_proofs) rest on.                 *)
EXTENDS Client, S3Common, TLAPS, FiniteSetTheorems, SequenceTheorems,
        WellFoundedInduction

\* The codes that say a call was refused (pkg/uos/error.go); any other error
\* code leaves open what the service did.
RefusalCodes ==
  {"unsupported", "invalid_argument", "not_found", "already_exists",
   "permission_denied", "unauthenticated", "precondition_failed", "length_required"}

\* The codes that say the request itself is at fault.
BlameCodes ==
  {"unsupported", "invalid_argument", "not_found", "already_exists", "conflict",
   "precondition_failed", "length_required"}

\* The situations in which the service has not found what was named.
Missing == {"noSuchKey", "noSuchBucket", "noSuchUpload"}

\* The outcome o of a call tells of the answer a: the store is the one the
\* answer left, success is success, a lost answer is no refusal, only what is
\* missing is not found, and a fault of the service does not blame the request.
Tells(a, o) == /\ o.store = a.store
               /\ o.code = "ok" <=> a.sit = "ok"
               /\ a.sit \in Lost => o.code \notin RefusalCodes
               /\ o.code = "not_found" => a.sit \in Missing
               /\ a.sit \in Refusals \cup Lost => o.code \notin BlameCodes

\* And a success gives what the answer gave.
Gives(a, o) == Tells(a, o) /\ (o.code = "ok" => o.out = a.out)

\* The driver refuses without an answer of the service.
Declines(o, s) == o.store = s /\ o.code # "ok"

\* s and t are states of one service, with the same buckets.
SameFields(s, t) == /\ DOMAIN t = DOMAIN s
                    /\ "buckets" \in DOMAIN s => t.buckets = s.buckets

\* t is s but for the object at dst.
Adds(s, dst, t) ==
  /\ SameFields(s, t)
  /\ "objs" \in DOMAIN s =>
       \A at : at # dst => /\ Has(t, at) <=> Has(s, at)
                           /\ Has(s, at) => t.objs[at] = s.objs[at]

\* Every answer leaves s but for the object at dst.
AnswersAdd(s, dst, answers) == \A a \in answers : Adds(s, dst, a.store)

\* t is s but for objects that are gone.
Shrinks(s, t) ==
  /\ SameFields(s, t)
  /\ "objs" \in DOMAIN s =>
       \A at : Has(t, at) => Has(s, at) /\ t.objs[at] = s.objs[at]

\* The request r names the bucket of the view c.
NamesView(c, r) == c.bucket = r.bucket /\ c.bound = r.bucket

\* The outcome o of a Put tells of an answer to the request r under these
\* preconditions.
SendsPut(s, r, match, noneMatch, o) ==
  \E meta : \E a \in SvcPut(s, <<r.bucket, r.key>>,
                           ObjectOf(r.body.bytes, meta, r.ctype),
                           r.body.fails, match, noneMatch) : Tells(a, o)

\* The answer a to a put stores o in the absence of a reason not to, and says
\* so or is lost, or it stores nothing.
PutDoes(s, at, o, bodyFails, match, noneMatch, a) ==
  /\ a.store = s \/ /\ a.store = StoreObject(s, at, o)
                    /\ ~bodyFails /\ ~Fails(s, at, match, noneMatch)
                    /\ a.sit \in Lost \cup {"ok"}
  /\ a.sit = "ok" => /\ a.store = StoreObject(s, at, o)
                     /\ ~bodyFails /\ ~Fails(s, at, match, noneMatch)

\* A range with its bounds in order; one without an end is open.
AsksRange(r) == /\ r.first \in Nat
                /\ r.last \in Int /\ (r.last = -1 \/ r.last >= r.first)

\* A Get that gives anything gives that range of the object there is.
ReadsRange(s, r, o) ==
  o.code = "ok" =>
    /\ Has(s, <<r.bucket, r.key>>)
    /\ o.out.bytes = Slice(s.objs[<<r.bucket, r.key>>].bytes, r.first, r.last)

\* A refusal is the truth: the call did nothing.
Honest(s, o) == o.code \in RefusalCodes => o.store = s

\* An answer that changed the store says so, or is lost.
Speaks(s, answers) ==
  \A a \in answers : /\ SameFields(s, a.store)
                     /\ a.store = s \/ a.sit \in Lost \cup {"ok"}

\* A copy has the bytes of its source and the metadata of the request, or the
\* source's if the request has none.
CopiesFrom(r) == r.srcBucket = r.bucket /\ r.directive = "" /\ r.noneMatch = "" /\ r.meta # "empty"

\* A copy within a bucket that keeps or replaces the metadata, as callers ask
\* for it.
CopiesSource(s, r, o) ==
  LET src == <<r.bucket, r.srcKey>>  dst == <<r.bucket, r.key>>
  IN o.code = "ok" =>
       /\ Has(s, src)
       /\ o.store.objs[dst].bytes = s.objs[src].bytes
       /\ o.store.objs[dst].meta = IF r.meta = "nil" THEN s.objs[src].meta ELSE r.meta

\* A copy under a precondition is of a source that satisfies it.
CopiesMatching(s, r, o) ==
  o.code = "ok" => r.match = {} \/ s.objs[<<r.bucket, r.srcKey>>].bytes \in r.match

\* The keys the outcome o of a DeleteMany says it deleted.
Deleted(o) == IF "deleted" \in DOMAIN o.out THEN o.out.deleted ELSE {}

\* Of the objects of the bucket b: none of K is in t; those of K that were in
\* s still are in t; those of other keys are.
Gone(t, b, K) == \A k \in K : ~Has(t, <<b, k>>)
Stay(s, b, K, t) == \A k \in K : Has(s, <<b, k>>) => Has(t, <<b, k>>)
Spares(s, b, K, t) == \A k : k \notin K /\ Has(s, <<b, k>>) => Has(t, <<b, k>>)

\* The outcome o of a DeleteMany accounts for the keys K.
Accounts(s, b, K, quiet, o) ==
  /\ Gone(o.store, b, Deleted(o))
  /\ o.code = "ok" => /\ Gone(o.store, b, K \ o.out.failed)
                      /\ quiet \/ Deleted(o) \cup o.out.failed = K
  /\ o.code \in RefusalCodes /\ ~quiet => Stay(s, b, K \ Deleted(o), o.store)

\* What is true after some batches, those of the keys K: a failed key was not
\* touched, every other one is gone, and no key outside K was touched.
Batched(s, b, K, quiet, o) ==
  /\ Shrinks(s, o.store) /\ Spares(s, b, K, o.store)
  /\ o.code = "ok" => /\ "deleted" \in DOMAIN o.out
                      /\ o.out.failed \subseteq K
                      /\ o.out.deleted = IF quiet THEN {} ELSE K \ o.out.failed
                      /\ Gone(o.store, b, K \ o.out.failed)
                      /\ Stay(s, b, o.out.failed, o.store)
  /\ o.code # "ok" => /\ Gone(o.store, b, Deleted(o))
                      /\ o.code \in RefusalCodes /\ ~quiet =>
                           Stay(s, b, K \ Deleted(o), o.store)

\* An outcome as a driver makes it: an error brings no list of its own.
WellFormed(o) == /\ {"store", "code", "out"} \subseteq DOMAIN o
                 /\ o.code # "ok" => Deleted(o) = {}

\* The outcome o is that of the batches before, p, and the next one's, q.
Merges(p, q, o) ==
  /\ o.store = q.store /\ o.code = q.code
  /\ q.code = "ok" => o.out = [deleted |-> p.out.deleted \cup q.out.deleted,
                               failed |-> p.out.failed \cup q.out.failed]
  /\ q.code # "ok" => o.out = p.out

\* A list of one key, or of two that differ.
ShortList(keys) == \E x, y : x # y /\ (keys = <<x>> \/ keys = <<x, y>>)

\* What is true after a loop over the keys K: only they were touched, what is
\* called deleted is gone, and so is every key that is not called failed.
Keyed(s, b, K, quiet, e) ==
  /\ Shrinks(s, e.store)
  /\ Gone(e.store, b, e.deleted)
  /\ Gone(e.store, b, K \ e.failed)
  /\ quiet \/ e.deleted \cup e.failed = K

\* A turn of the loop: the key is gone and may be called so, or it has failed.
TakesKey(p, b, k, quiet, e) ==
  /\ Shrinks(p.store, e.store)
  /\ \/ /\ ~Has(e.store, <<b, k>>) /\ e.failed = p.failed
        /\ \/ e.deleted = p.deleted \cup {k}
           \/ quiet /\ (e.deleted = {} \/ e.deleted = p.deleted)
     \/ e.failed = p.failed \cup {k} /\ e.deleted = p.deleted

\* The store has a bucket b, and room for its objects.
HasBucket(s, b) == {"objs", "buckets"} \subseteq DOMAIN s /\ b \in s.buckets

-----------------------------------------------------------------------------
(* The service *)

\* A fault is one of the errors of the service, never a success.
LEMMA FaultsAreErrors == "ok" \notin Faults /\ Faults \subseteq Refusals \cup Lost
BY ServiceAssumption DEF Refusals, Lost

\* A request that is answered is answered, refused, or carried out and lost.
LEMMA AttemptDoes ==
  ASSUME NEW s, NEW a, NEW b \in Attempt(s, a)
  PROVE  \/ b = a
         \/ b.store = s /\ b.sit # "ok"
         \/ b.store = a.store /\ b.sit # "ok" /\ b.sit \in Lost
BY FaultsAreErrors DEF Attempt, No, Reply

\* An attempt at what is a reply is a reply.
LEMMA AttemptReply ==
  ASSUME NEW s, NEW a, a = Reply(a.store, a.sit, a.out), NEW b \in Attempt(s, a)
  PROVE  b = Reply(b.store, b.sit, b.out)
BY DEF Attempt, No, Reply

\* Whatever its faults, a put does that.
LEMMA SvcPutDoes ==
  ASSUME NEW s, NEW at, NEW o, NEW bodyFails \in BOOLEAN, NEW match,
         NEW noneMatch \in BOOLEAN,
         NEW a \in SvcPut(s, at, o, bodyFails, match, noneMatch)
  PROVE  PutDoes(s, at, o, bodyFails, match, noneMatch, a)
<1> DEFINE b == InBucket(s, at,
                  IF bodyFails THEN No(s, "bodyFailed")
                  ELSE IF Fails(s, at, match, noneMatch) THEN No(s, "preconditionFailed")
                  ELSE Done(StoreObject(s, at, o), [etag |-> Etag(o)]))
<1>1. a \in Attempt(s, b)
  BY DEF SvcPut
<1>2. \/ b.store = s /\ b.sit # "ok"
      \/ /\ b.store = StoreObject(s, at, o) /\ b.sit = "ok"
         /\ ~bodyFails /\ ~Fails(s, at, match, noneMatch)
  BY DEF InBucket, No, Done, Reply
<1> HIDE DEF b
<1>3. /\ a.store = s \/ /\ a.store = StoreObject(s, at, o)
                        /\ ~bodyFails /\ ~Fails(s, at, match, noneMatch)
                        /\ a.sit \in Lost \cup {"ok"}
      /\ a.sit = "ok" => /\ a.store = StoreObject(s, at, o)
                         /\ ~bodyFails /\ ~Fails(s, at, match, noneMatch)
  BY <1>1, <1>2, AttemptDoes
<1> QED BY <1>3 DEF PutDoes

\* The answer to a put is a reply.
LEMMA SvcPutForm ==
  ASSUME NEW s, NEW at, NEW o, NEW bodyFails, NEW match, NEW noneMatch,
         NEW a \in SvcPut(s, at, o, bodyFails, match, noneMatch)
  PROVE  a = Reply(a.store, a.sit, a.out)
BY DEF SvcPut, Attempt, InBucket, No, Done, Reply

\* A put leaves a service that keeps what it kept.
LEMMA SvcPutKeepsFields ==
  ASSUME NEW s, NEW at, NEW o, NEW bodyFails, NEW match, NEW noneMatch,
         NEW a \in SvcPut(s, at, o, bodyFails, match, noneMatch)
  PROVE  SameFields(s, a.store)
<1>1. a.store = s \/ a.store = StoreObject(s, at, o)
  BY DEF SvcPut, Attempt, InBucket, No, Done, Reply
<1> QED BY <1>1 DEF StoreObject, SameFields

\* A get changes nothing, and gives the range asked for of the object there is.
LEMMA SvcGetDoes ==
  ASSUME NEW s, NEW at, NEW first, NEW last, NEW match,
         NEW a \in SvcGet(s, at, first, last, match)
  PROVE  a.store = s /\ (a.sit = "ok" =>
           /\ Has(s, at)
           /\ a.out = ObjectOf(Slice(s.objs[at].bytes, first, last),
                               s.objs[at].meta, s.objs[at].ctype))
<1> DEFINE b == InBucket(s, at,
                  IF ~Has(s, at) THEN No(s, "noSuchKey")
                  ELSE IF match # {} /\ Etag(s.objs[at]) \notin match
                       THEN No(s, "preconditionFailed")
                  ELSE IF first > 0 /\ first >= Len(s.objs[at].bytes)
                       THEN No(s, "invalidRange")
                  ELSE Done(s, ObjectOf(Slice(s.objs[at].bytes, first, last),
                                        s.objs[at].meta, s.objs[at].ctype)))
<1>1. a \in Attempt(s, b)
  BY DEF SvcGet
<1>2. /\ b.store = s
      /\ b.sit = "ok" =>
           /\ Has(s, at)
           /\ b.out = ObjectOf(Slice(s.objs[at].bytes, first, last),
                               s.objs[at].meta, s.objs[at].ctype)
  BY DEF InBucket, No, Done, Reply
<1> HIDE DEF b
<1> QED
  BY <1>1, <1>2, AttemptDoes

\* A driver that gives the answer to the range it was asked for reads that range.
LEMMA GetReads ==
  ASSUME NEW s, NEW r, NEW match, NEW o,
         NEW a \in SvcGet(s, <<r.bucket, r.key>>, r.first, r.last, match), Gives(a, o)
  PROVE  ReadsRange(s, r, o)
<1> DEFINE at == <<r.bucket, r.key>>
<1>1. SUFFICES ASSUME o.code = "ok"
               PROVE  Has(s, at) /\ o.out.bytes = Slice(s.objs[at].bytes, r.first, r.last)
  BY DEF ReadsRange
<1> HIDE DEF at
<1>2. a \in SvcGet(s, at, r.first, r.last, match)
  BY DEF at
<1>3. a.sit = "ok" /\ o.out = a.out
  BY <1>1 DEF Gives, Tells
<1>4. /\ Has(s, at)
      /\ a.out = ObjectOf(Slice(s.objs[at].bytes, r.first, r.last),
                          s.objs[at].meta, s.objs[at].ctype)
  BY <1>2, <1>3, SvcGetDoes
<1> QED BY <1>3, <1>4 DEF ObjectOf

\* A delete removes its object or does nothing, and an answer that removed it
\* says so or is lost.
LEMMA SvcDeleteDoes ==
  ASSUME NEW s, NEW at, NEW strict, NEW a \in SvcDelete(s, at, strict)
  PROVE  a.store = s \/ /\ a.store = [s EXCEPT !.objs = Without(@, at)]
                        /\ a.sit \in Lost \cup {"ok"}
<1> DEFINE b == InBucket(s, at,
                  IF strict /\ ~Has(s, at) THEN No(s, "noSuchKey")
                  ELSE Done([s EXCEPT !.objs = Without(@, at)], Nothing))
<1>1. a \in Attempt(s, b)
  BY DEF SvcDelete
<1>2. \/ b.store = s
      \/ b.store = [s EXCEPT !.objs = Without(@, at)] /\ b.sit = "ok"
  BY DEF InBucket, No, Done, Reply
<1> HIDE DEF b
<1> QED
  BY <1>1, <1>2, AttemptDoes

\* Removing nothing, and removing twice, are removing.
LEMMA ShrinksTransitive ==
  /\ \A s : Shrinks(s, s)
  /\ \A s, t, u : Shrinks(s, t) /\ Shrinks(t, u) => Shrinks(s, u)
BY DEF Shrinks, SameFields

\* A store without some of its objects.
LEMMA RestrictShrinks ==
  ASSUME NEW s, NEW S
  PROVE  Shrinks(s, [s EXCEPT !.objs = Restrict(@, DOMAIN @ \ S)])
BY DEF Shrinks, SameFields, Restrict, Has

\* A delete removes.
LEMMA SvcDeleteShrinks ==
  ASSUME NEW s, NEW at, NEW strict, NEW a \in SvcDelete(s, at, strict)
  PROVE  Shrinks(s, a.store)
BY SvcDeleteDoes, ShrinksTransitive, RestrictShrinks DEF Without

\* A batch delete removes, whatever it is denied.
LEMMA SvcDeleteBatchShrinks ==
  ASSUME NEW s, NEW bucket, NEW keys, NEW quiet,
         NEW a \in SvcDeleteBatch(s, bucket, keys, quiet)
  PROVE  Shrinks(s, a.store)
<1> DEFINE gone(denied) == [s EXCEPT !.objs = Restrict(@, DOMAIN @ \
                              {<<bucket, k>> : k \in Range(keys) \ denied})]
           out(denied) == [deleted |-> IF quiet THEN {} ELSE Range(keys) \ denied,
                           failed |-> denied]
           b(denied) == InBucket(s, <<bucket, 0>>, Done(gone(denied), out(denied)))
<1>1. \E denied : a \in Attempt(s, b(denied))
  BY DEF SvcDeleteBatch
<1>2. PICK denied : a \in Attempt(s, b(denied))
  BY <1>1
<1> HIDE DEF gone, out
<1>3. b(denied).store \in {s, gone(denied)}
  BY DEF InBucket, No, Done, Reply
<1>4. Shrinks(s, gone(denied))
  BY RestrictShrinks DEF gone
<1> HIDE DEF b
<1> QED
  BY <1>2, <1>3, <1>4, AttemptDoes, ShrinksTransitive

\* The store without the keys L of a bucket.
BatchGone(s, b, L) == [s EXCEPT !.objs = Restrict(@, DOMAIN @ \ {<<b, k>> : k \in L})]

\* Those keys are gone, and no others.
LEMMA BatchGoneDoes ==
  ASSUME NEW s, "objs" \in DOMAIN s, NEW b, NEW L
  PROVE  /\ Shrinks(s, BatchGone(s, b, L))
         /\ Gone(BatchGone(s, b, L), b, L)
         /\ Spares(s, b, L, BatchGone(s, b, L))
<1> DEFINE at(k) == <<b, k>>  t == BatchGone(s, b, L)
<1>1. Shrinks(s, t)
  BY RestrictShrinks DEF BatchGone
<1>2. DOMAIN t.objs = DOMAIN s.objs \ {<<b, k>> : k \in L}
  BY DEF BatchGone, Restrict
<1>3. \A k : at(k) \in {<<b, j>> : j \in L} <=> k \in L
  OBVIOUS
<1> HIDE DEF t
<1>4. \A k : Has(t, <<b, k>>) <=> Has(s, <<b, k>>) /\ k \notin L
  BY <1>2, <1>3 DEF Has
<1> QED BY <1>1, <1>4 DEF Gone, Spares, t

\* The answer a to a batch deletes the keys K but those denied and says so, or
\* is lost; or it does nothing.
BatchDoes(s, b, K, quiet, denied, a) ==
  LET t == BatchGone(s, b, K \ denied)
  IN /\ a.store = s \/ (a.store = t /\ a.sit \in Lost \cup {"ok"})
     /\ a.sit = "ok" =>
          /\ a.store = t
          /\ a.out = [deleted |-> IF quiet THEN {} ELSE K \ denied, failed |-> denied]

\* Whatever its faults, a batch does that.
LEMMA SvcDeleteBatchDoes ==
  ASSUME NEW s, NEW b, NEW keys, NEW quiet,
         NEW a \in SvcDeleteBatch(s, b, keys, quiet)
  PROVE  \E denied \in SUBSET Range(keys) :
           BatchDoes(s, b, Range(keys), quiet, denied, a)
<1> DEFINE t(denied) == BatchGone(s, b, Range(keys) \ denied)
           out(denied) == [deleted |-> IF quiet THEN {} ELSE Range(keys) \ denied,
                           failed |-> denied]
           base(denied) == InBucket(s, <<b, 0>>, Done(t(denied), out(denied)))
<1>1. \E denied \in SUBSET Range(keys) : a \in Attempt(s, base(denied))
  BY DEF SvcDeleteBatch, BatchGone
<1>2. PICK denied \in SUBSET Range(keys) : a \in Attempt(s, base(denied))
  BY <1>1
<1> DEFINE u == t(denied)  v == out(denied)
<1> HIDE DEF u, v
<1>3. base(denied) = InBucket(s, <<b, 0>>, Done(u, v))
  BY DEF u, v
<1>4. \/ base(denied).store = s /\ base(denied).sit # "ok"
      \/ base(denied).store = u /\ base(denied).sit = "ok" /\ base(denied).out = v
  BY <1>3 DEF InBucket, No, Done, Reply
<1> HIDE DEF base
<1>5. /\ a.store = s \/ (a.store = u /\ a.sit \in Lost \cup {"ok"})
      /\ a.sit = "ok" => a.store = u /\ a.out = v
  BY <1>2, <1>4, AttemptDoes
<1> QED BY <1>5 DEF u, v, BatchDoes

\* One batch, as a driver tells of it.
LEMMA BatchTells ==
  ASSUME NEW s, "objs" \in DOMAIN s, NEW b, NEW keys, NEW quiet,
         NEW a \in SvcDeleteBatch(s, b, keys, quiet), NEW o, Gives(a, o), WellFormed(o)
  PROVE  Batched(s, b, Range(keys), quiet, o)
         /\ (o.code \in RefusalCodes => o.store = s)
<1> DEFINE K == Range(keys)
<1>1. PICK denied \in SUBSET K : BatchDoes(s, b, K, quiet, denied, a)
  BY SvcDeleteBatchDoes
<1> DEFINE t == BatchGone(s, b, K \ denied)
<1> HIDE DEF K, t
<1>2. /\ o.store = s \/ (o.store = t /\ a.sit \in Lost \cup {"ok"})
      /\ o.code = "ok" => /\ o.store = t
                          /\ o.out = [deleted |-> IF quiet THEN {} ELSE K \ denied,
                                      failed |-> denied]
      /\ o.code = "ok" <=> a.sit = "ok"
      /\ a.sit \in Lost => o.code \notin RefusalCodes
  BY <1>1 DEF BatchDoes, Gives, Tells, t
<1>3. Shrinks(s, t) /\ Gone(t, b, K \ denied) /\ Spares(s, b, K \ denied, t)
  BY BatchGoneDoes DEF t
<1>4. o.code \in RefusalCodes => o.store = s
  BY <1>2 DEF RefusalCodes
<1>5. Shrinks(s, o.store) /\ Spares(s, b, K, o.store)
  BY <1>2, <1>3, ShrinksTransitive DEF Spares
<1>6. CASE o.code = "ok"
  <2>1. /\ "deleted" \in DOMAIN o.out
        /\ o.out.deleted = IF quiet THEN {} ELSE K \ denied
        /\ o.out.failed = denied
    BY <1>2, <1>6
  <2>2. Gone(o.store, b, K \ o.out.failed) /\ Stay(s, b, o.out.failed, o.store)
    BY <1>2, <1>3, <1>6, <2>1 DEF Spares, Stay
  <2> QED BY <1>4, <1>5, <1>6, <2>1, <2>2 DEF Batched, K
<1>7. CASE o.code # "ok"
  <2>1. Deleted(o) = {}
    BY <1>7 DEF WellFormed
  <2>2. Gone(o.store, b, Deleted(o))
    BY <2>1 DEF Gone
  <2>3. o.code \in RefusalCodes => Stay(s, b, K \ Deleted(o), o.store)
    BY <1>4 DEF Stay
  <2> QED BY <1>4, <1>5, <1>7, <2>2, <2>3 DEF Batched, K
<1> QED BY <1>6, <1>7

\* Before the first batch.
LEMMA BatchStart ==
  ASSUME NEW s, NEW b, NEW quiet, NEW o, o.store = s, o.code = "ok",
         o.out = [deleted |-> {}, failed |-> {}]
  PROVE  Batched(s, b, {}, quiet, o)
BY ShrinksTransitive DEF Batched, Spares, Gone, Stay

\* After a batch that failed no further one is sent.
LEMMA BatchStops ==
  ASSUME NEW s, NEW b, NEW K, NEW L, NEW quiet, NEW o,
         Batched(s, b, K, quiet, o), o.code # "ok"
  PROVE  Batched(s, b, K \cup L, quiet, o)
BY DEF Batched, Spares, Stay

\* The next batch, of other keys.
LEMMA BatchNext ==
  ASSUME NEW s, NEW b, NEW K, NEW L, K \cap L = {}, NEW quiet,
         "objs" \in DOMAIN s,
         NEW p, Batched(s, b, K, quiet, p), p.code = "ok",
         NEW q, Batched(p.store, b, L, quiet, q), q.code \in RefusalCodes => q.store = p.store,
         NEW o, Merges(p, q, o)
  PROVE  Batched(s, b, K \cup L, quiet, o)
<1>1. Shrinks(s, p.store) /\ Shrinks(p.store, q.store) /\ "objs" \in DOMAIN p.store
  BY DEF Batched, Shrinks, SameFields
<1>2. \A k : Has(q.store, <<b, k>>) => Has(p.store, <<b, k>>)
  BY <1>1 DEF Shrinks
<1>3. /\ \A k : k \notin K /\ Has(s, <<b, k>>) => Has(p.store, <<b, k>>)
      /\ \A k : k \notin L /\ Has(p.store, <<b, k>>) => Has(q.store, <<b, k>>)
  BY DEF Batched, Spares
<1>4. Shrinks(s, o.store) /\ Spares(s, b, K \cup L, o.store)
  BY <1>1, <1>3, ShrinksTransitive DEF Merges, Spares
<1>5. /\ "deleted" \in DOMAIN p.out
      /\ p.out.failed \subseteq K
      /\ p.out.deleted = IF quiet THEN {} ELSE K \ p.out.failed
      /\ \A k \in K \ p.out.failed : ~Has(p.store, <<b, k>>)
      /\ \A k \in p.out.failed : Has(s, <<b, k>>) => Has(p.store, <<b, k>>)
  BY DEF Batched, Gone, Stay
<1>6. CASE q.code = "ok"
  <2>1. /\ q.out.failed \subseteq L
        /\ q.out.deleted = IF quiet THEN {} ELSE L \ q.out.failed
        /\ \A k \in L \ q.out.failed : ~Has(q.store, <<b, k>>)
        /\ \A k \in q.out.failed : Has(p.store, <<b, k>>) => Has(q.store, <<b, k>>)
    BY <1>6 DEF Batched, Gone, Stay
  <2>2. /\ "deleted" \in DOMAIN o.out
        /\ o.out.deleted = p.out.deleted \cup q.out.deleted
        /\ o.out.failed = p.out.failed \cup q.out.failed
        /\ o.store = q.store /\ o.code = "ok"
    BY <1>6 DEF Merges
  <2>3. /\ o.out.failed \subseteq K \cup L
        /\ o.out.deleted = IF quiet THEN {} ELSE (K \cup L) \ o.out.failed
    BY <1>5, <2>1, <2>2
  <2>4. Gone(o.store, b, (K \cup L) \ o.out.failed)
    BY <1>2, <1>5, <2>1, <2>2 DEF Gone
  <2>5. Stay(s, b, o.out.failed, o.store)
    BY <1>3, <1>5, <2>1, <2>2 DEF Stay
  <2> QED BY <1>4, <2>2, <2>3, <2>4, <2>5 DEF Batched
<1>7. CASE q.code # "ok"
  <2>1. o.store = q.store /\ o.code = q.code /\ Deleted(o) = p.out.deleted
    BY <1>5, <1>7 DEF Merges, Deleted
  <2>2. Gone(o.store, b, Deleted(o))
    BY <1>2, <1>5, <2>1 DEF Gone
  <2>3. o.code \in RefusalCodes /\ ~quiet => Stay(s, b, (K \cup L) \ Deleted(o), o.store)
    BY <1>3, <1>5, <2>1 DEF Stay
  <2> QED BY <1>4, <1>7, <2>1, <2>2, <2>3 DEF Batched
<1> QED BY <1>6, <1>7

\* What was true after every batch accounts for the keys.
LEMMA BatchedAccounts ==
  ASSUME NEW s, NEW b, NEW K, NEW quiet, NEW o, Batched(s, b, K, quiet, o)
  PROVE  Shrinks(s, o.store) /\ Accounts(s, b, K, quiet, o)
<1>1. CASE o.code = "ok"
  <2>1. Deleted(o) = IF quiet THEN {} ELSE K \ o.out.failed
    BY <1>1 DEF Batched, Deleted
  <2> QED BY <1>1, <2>1 DEF Batched, Accounts, Gone, RefusalCodes
<1>2. CASE o.code # "ok"
  BY <1>2 DEF Batched, Accounts
<1> QED BY <1>1, <1>2

\* A driver that declines did nothing and lists nothing.
LEMMA DeclinesAccounts ==
  ASSUME NEW s, NEW b, NEW K, NEW quiet, NEW o, Declines(o, s), WellFormed(o)
  PROVE  Shrinks(s, o.store) /\ Accounts(s, b, K, quiet, o)
         /\ Batched(s, b, K, quiet, o)
BY ShrinksTransitive DEF Declines, WellFormed, Accounts, Batched, Gone, Stay, Spares

\* An answer that names every key as failed says nothing that could be wrong.
LEMMA AllFailedAccounts ==
  ASSUME NEW s, NEW b, NEW K, NEW quiet, NEW o,
         o.code = "ok", o.out = [deleted |-> {}, failed |-> K]
  PROVE  Accounts(s, b, K, quiet, o)
BY DEF Accounts, Gone, Deleted, RefusalCodes

\* What is in a short list.
LEMMA RangeShort ==
  ASSUME NEW x, NEW y
  PROVE  Range(<<x>>) = {x} /\ Range(<<x, y>>) = {x, y}
<1>1. \A e : e \in Range(<<x>>) <=> e = x
  <2>1. DOMAIN <<x>> = {1} /\ <<x>>[1] = x
    OBVIOUS
  <2> QED BY <2>1 DEF Range
<1>2. \A e : e \in Range(<<x, y>>) <=> e = x \/ e = y
  <2>1. DOMAIN <<x, y>> = {1, 2} /\ <<x, y>>[1] = x /\ <<x, y>>[2] = y
    OBVIOUS
  <2> QED BY <2>1 DEF Range
<1> QED BY <1>1, <1>2

\* It is not empty.
LEMMA ShortNotEmpty ==
  ASSUME NEW keys, ShortList(keys)
  PROVE  keys # <<>>
<1>1. PICK x, y : keys = <<x>> \/ keys = <<x, y>>
  BY DEF ShortList
<1>2. Len(<<>>) = 0 /\ Len(<<x>>) = 1 /\ Len(<<x, y>>) = 2
  OBVIOUS
<1> QED BY <1>1, <1>2

\* Its length tells what is in it.
LEMMA ShortLists ==
  ASSUME NEW keys, ShortList(keys)
  PROVE  \/ Len(keys) = 1 /\ Range(keys) = {keys[1]}
         \/ Len(keys) = 2 /\ Range(keys) = {keys[1], keys[2]}
<1>1. PICK x, y : keys = <<x>> \/ keys = <<x, y>>
  BY DEF ShortList
<1>2. CASE keys = <<x>>
  <2>1. Len(keys) = 1 /\ keys[1] = x
    BY <1>2
  <2> QED BY <1>2, <2>1, RangeShort
<1>3. CASE keys = <<x, y>>
  <2>1. Len(keys) = 2 /\ keys[1] = x /\ keys[2] = y
    BY <1>3
  <2> QED BY <1>3, <2>1, RangeShort
<1> QED BY <1>1, <1>2, <1>3


\* What a copy makes of the object src of s.
CopyOf(s, src, replaceMeta, meta, replaceType, ctype) ==
  ObjectOf(s.objs[src].bytes,
           IF replaceMeta THEN meta ELSE s.objs[src].meta,
           IF replaceType THEN ctype ELSE s.objs[src].ctype)

\* A copy that says it is done found a source that satisfies the precondition,
\* and stored the copy of it.
LEMMA SvcCopyDoes ==
  ASSUME NEW s, NEW src, NEW dst, NEW replaceMeta \in BOOLEAN, NEW meta,
         NEW replaceType \in BOOLEAN, NEW ctype, NEW match, NEW noneMatch \in BOOLEAN,
         NEW a \in SvcCopy(s, src, dst, replaceMeta, meta, replaceType, ctype,
                           match, noneMatch)
  PROVE  /\ a.store = s \/ a.sit \in Lost \cup {"ok"}
         /\ a.sit = "ok" =>
              /\ Has(s, src) /\ (match = {} \/ s.objs[src].bytes \in match)
              /\ a.store = StoreObject(s, dst,
                             CopyOf(s, src, replaceMeta, meta, replaceType, ctype))
<1> DEFINE o == CopyOf(s, src, replaceMeta, meta, replaceType, ctype)
           b == InBucket(s, dst, InBucket(s, src,
                  IF ~Has(s, src) THEN No(s, "noSuchKey")
                  ELSE IF \/ match # {} /\ Etag(s.objs[src]) \notin match
                          \/ noneMatch /\ Has(s, dst)
                       THEN No(s, "preconditionFailed")
                  ELSE Done(StoreObject(s, dst, o), [etag |-> Etag(o)])))
<1>1. a \in Attempt(s, b)
  BY DEF SvcCopy, CopyOf
<1>2. \/ b.store = s /\ b.sit # "ok"
      \/ /\ b.store = StoreObject(s, dst, o) /\ b.sit = "ok"
         /\ Has(s, src) /\ (match = {} \/ Etag(s.objs[src]) \in match)
  <2> HIDE DEF o
  <2> QED BY DEF InBucket, No, Done, Reply
<1>3. b.sit = "ok" =>
        /\ b.store = StoreObject(s, dst, o)
        /\ Has(s, src) /\ (match = {} \/ s.objs[src].bytes \in match)
  BY <1>2 DEF Etag
<1> HIDE DEF b, o
<1>4. /\ a.store = s \/ a.sit \in Lost \cup {"ok"}
      /\ a.sit = "ok" => a = b
  BY <1>1, <1>2, AttemptDoes
<1> QED
  BY <1>3, <1>4 DEF o

\* A driver that declines has done nothing.
LEMMA DeclinesHonest ==
  ASSUME NEW s, NEW o, Declines(o, s)
  PROVE  SameFields(s, o.store) /\ Honest(s, o) /\ Shrinks(s, o.store)
BY ShrinksTransitive DEF Declines, SameFields, Honest

\* A driver that tells of an answer of a service that speaks is honest.
LEMMA TellsHonest ==
  ASSUME NEW s, NEW answers, Speaks(s, answers), NEW a \in answers,
         NEW o, Tells(a, o)
  PROVE  SameFields(s, o.store) /\ Honest(s, o)
BY DEF Speaks, Tells, Honest, RefusalCodes

\* A delete speaks.
LEMMA SvcDeleteSpeaks ==
  ASSUME NEW s, NEW at, NEW strict
  PROVE  Speaks(s, SvcDelete(s, at, strict))
<1>1. \A a \in SvcDelete(s, at, strict) : SameFields(s, a.store)
  BY SvcDeleteShrinks DEF Shrinks
<1>2. \A a \in SvcDelete(s, at, strict) : a.store = s \/ a.sit \in Lost \cup {"ok"}
  BY SvcDeleteDoes
<1> QED BY <1>1, <1>2 DEF Speaks

\* A copy speaks.
LEMMA SvcCopySpeaks ==
  ASSUME NEW s, NEW src, NEW dst, NEW replaceMeta, NEW meta, NEW replaceType,
         NEW ctype, NEW match, NEW noneMatch
  PROVE  Speaks(s, SvcCopy(s, src, dst, replaceMeta, meta, replaceType, ctype,
                           match, noneMatch))
<1> SUFFICES ASSUME NEW a \in SvcCopy(s, src, dst, replaceMeta, meta, replaceType,
                                      ctype, match, noneMatch)
             PROVE  /\ SameFields(s, a.store)
                    /\ a.store = s \/ a.sit \in Lost \cup {"ok"}
  BY DEF Speaks
<1> DEFINE o == CopyOf(s, src, replaceMeta, meta, replaceType, ctype)
           b == InBucket(s, dst, InBucket(s, src,
                  IF ~Has(s, src) THEN No(s, "noSuchKey")
                  ELSE IF \/ match # {} /\ Etag(s.objs[src]) \notin match
                          \/ noneMatch /\ Has(s, dst)
                       THEN No(s, "preconditionFailed")
                  ELSE Done(StoreObject(s, dst, o), [etag |-> Etag(o)])))
<1>1. a \in Attempt(s, b)
  BY DEF SvcCopy, CopyOf
<1>2. b.store = s \/ (b.store = StoreObject(s, dst, o) /\ b.sit = "ok")
  <2> HIDE DEF o
  <2> QED BY DEF InBucket, No, Done, Reply
<1> HIDE DEF b, o
<1>3. a.store = s \/ (a.store = StoreObject(s, dst, o) /\ a.sit \in Lost \cup {"ok"})
  BY <1>1, <1>2, AttemptDoes
<1> QED BY <1>3 DEF StoreObject, SameFields

\* A copy adds the one object it makes.
LEMMA SvcCopyAdds ==
  ASSUME NEW s, NEW src, NEW dst, NEW replaceMeta, NEW meta, NEW replaceType,
         NEW ctype, NEW match, NEW noneMatch
  PROVE  AnswersAdd(s, dst, SvcCopy(s, src, dst, replaceMeta, meta, replaceType, ctype,
                                    match, noneMatch))
<1> SUFFICES ASSUME NEW a \in SvcCopy(s, src, dst, replaceMeta, meta, replaceType,
                                      ctype, match, noneMatch)
             PROVE  Adds(s, dst, a.store)
  BY DEF AnswersAdd
<1>1. a.store = s \/ \E made : a.store = StoreObject(s, dst, made)
  BY DEF SvcCopy, Attempt, InBucket, No, Done, Reply
<1>2. CASE a.store = s
  BY <1>2 DEF Adds, SameFields
<1>3. ASSUME NEW made, a.store = StoreObject(s, dst, made)
      PROVE  Adds(s, dst, a.store)
  <2>1. "objs" \in DOMAIN s => a.store.objs = With(s.objs, dst, made)
    BY <1>3 DEF StoreObject
  <2>2. SameFields(s, a.store)
    BY <1>3 DEF StoreObject, SameFields
  <2> QED BY <2>1, <2>2 DEF With, Adds, Has
<1> QED BY <1>1, <1>2, <1>3

\* Refusing without an answer adds nothing; an answer told adds what it added.
LEMMA DeclinesAdds ==
  ASSUME NEW s, NEW dst, NEW o, Declines(o, s)
  PROVE  Adds(s, dst, o.store)
BY DEF Declines, Adds, SameFields

\* A driver that tells of an answer touches no more than the service did.
LEMMA TellsAdds ==
  ASSUME NEW s, NEW dst, NEW answers, AnswersAdd(s, dst, answers), NEW a \in answers,
         NEW o, Tells(a, o)
  PROVE  Adds(s, dst, o.store)
BY DEF AnswersAdd, Tells

\* The answer to a copy is a reply.
LEMMA SvcCopyForm ==
  ASSUME NEW s, NEW src, NEW dst, NEW replaceMeta, NEW meta, NEW replaceType,
         NEW ctype, NEW match, NEW noneMatch,
         NEW a \in SvcCopy(s, src, dst, replaceMeta, meta, replaceType, ctype,
                           match, noneMatch)
  PROVE  a = Reply(a.store, a.sit, a.out)
BY DEF SvcCopy, Attempt, InBucket, No, Done, Reply

\* A driver that asks for that copy and tells of the answer copies its source,
\* and does so under the precondition if it sends it.
LEMMA CopyIsOfSource ==
  ASSUME NEW s, "objs" \in DOMAIN s, NEW r, NEW replace \in BOOLEAN, replace <=> r.meta # "nil",
         NEW replaceType \in BOOLEAN, NEW ctype, NEW match, NEW noneMatch \in BOOLEAN,
         NEW a \in SvcCopy(s, <<r.bucket, r.srcKey>>, <<r.bucket, r.key>>, replace,
                           r.meta, replaceType, ctype, match, noneMatch),
         NEW o, Tells(a, o)
  PROVE  /\ CopiesSource(s, r, o)
         /\ match = r.match => CopiesMatching(s, r, o)
<1> DEFINE src == <<r.bucket, r.srcKey>>  dst == <<r.bucket, r.key>>
           made == CopyOf(s, src, replace, r.meta, replaceType, ctype)
<1>1. SUFFICES ASSUME o.code = "ok"
               PROVE  /\ Has(s, src)
                      /\ o.store.objs[dst].bytes = s.objs[src].bytes
                      /\ o.store.objs[dst].meta =
                           IF r.meta = "nil" THEN s.objs[src].meta ELSE r.meta
                      /\ match = {} \/ s.objs[src].bytes \in match
  BY DEF CopiesSource, CopiesMatching
<1>2. made.bytes = s.objs[src].bytes /\
      made.meta = IF r.meta = "nil" THEN s.objs[src].meta ELSE r.meta
  BY DEF CopyOf, ObjectOf
<1> HIDE DEF src, dst
<1>3. a \in SvcCopy(s, src, dst, replace, r.meta, replaceType, ctype, match, noneMatch)
  BY DEF src, dst
<1>4. /\ Has(s, src) /\ (match = {} \/ s.objs[src].bytes \in match)
      /\ a.store = StoreObject(s, dst, made)
  BY <1>1, <1>3, SvcCopyDoes DEF Tells
<1> HIDE DEF made
<1>5. o.store.objs[dst] = made
  BY <1>4 DEF Tells, StoreObject, With
<1> QED BY <1>2, <1>4, <1>5

-----------------------------------------------------------------------------
(* Error tables *)

\* No entry of the tables the S3 family shares is the code of a success.
LEMMA TablesNeverOk == /\ \A x : MapCodeString(x) # "ok"
                       /\ \A x : MapHTTPStatus(x) # "ok"
                       /\ \A x : MapContextErr(x) # "ok"
BY DEF MapCodeString, MapHTTPStatus, MapContextErr, NoCode

\* A service of the S3 family words what was lost so that every table takes it
\* for a passing failure or does not know it.
LEMMA LostTables ==
  ASSUME NEW sit \in Lost
  PROVE  /\ MapContextErr(ServiceError(sit).ctx) \in {NoCode, "timeout"}
         /\ MapCodeString(ServiceError(sit).code) \in {NoCode, "temporary"}
         /\ MapHTTPStatus(ServiceError(sit).status) \in {NoCode, "temporary"}
<1>1. MapContextErr(ServiceError(sit).ctx) \in {NoCode, "timeout"}
  BY DEF MapContextErr
<1>2. MapCodeString(ServiceError(sit).code) \in {NoCode, "temporary"}
  <2>1. ServiceError(sit).code \in {"InternalError", ""}
    BY DEF ServiceError, Lost
  <2>2. MapCodeString("InternalError") = "temporary" /\ MapCodeString("") = NoCode
    BY DEF MapCodeString
  <2> QED BY <2>1, <2>2
<1>3. MapHTTPStatus(ServiceError(sit).status) \in {NoCode, "temporary"}
  <2>1. ServiceError(sit).status \in {0, 500}
    BY DEF ServiceError, Lost
  <2>2. \A n \in {0, 500} : MapHTTPStatus(n) \in {NoCode, "temporary"}
    BY DEF MapHTTPStatus
  <2> QED BY <2>1, <2>2
<1> QED BY <1>1, <1>2, <1>3

\* A code that an error map of the family makes of the error e.
FromTables(code, e) ==
  /\ code # NoCode
  /\ \/ code \in {MapContextErr(e.ctx), MapCodeString(e.code), "internal"}
     \/ code = MapHTTPStatus(e.status) /\ MapCodeString(e.code) = NoCode

\* Only what is missing is worded so that a table takes it for "not found".
LEMMA MissingTables ==
  ASSUME NEW sit, sit \notin Missing
  PROVE  /\ MapContextErr(ServiceError(sit).ctx) # "not_found"
         /\ MapCodeString(ServiceError(sit).code) # "not_found"
         /\ MapHTTPStatus(ServiceError(sit).status) # "not_found"
<1> DEFINE e == ServiceError(sit)
           words == {"BucketAlreadyExists", "BucketNotEmpty", "PreconditionFailed",
                     "NotModified", "InvalidRange", "InvalidPart", "AccessDenied",
                     "SignatureDoesNotMatch", "SlowDown", "RequestTimeout",
                     "InternalError", "ServiceUnavailable", ""}
           numbers == {409, 412, 304, 416, 400, 403, 503, 500, 0}
<1>1. e.code \in words
  BY DEF ServiceError, Missing
<1>2. e.status \in numbers
  BY DEF ServiceError, Missing
<1>3. \A x \in words : MapCodeString(x) # "not_found"
  BY DEF MapCodeString, NoCode
<1>4. \A n \in numbers : MapHTTPStatus(n) # "not_found"
  BY DEF MapHTTPStatus, NoCode
<1>5. MapContextErr(e.ctx) # "not_found"
  BY DEF MapContextErr, NoCode
<1> HIDE DEF e, words, numbers
<1>6. MapCodeString(e.code) # "not_found" /\ MapHTTPStatus(e.status) # "not_found"
  BY <1>1, <1>2, <1>3, <1>4
<1> QED BY <1>5, <1>6 DEF e

\* A fault of the service is worded so that no table blames the request.
LEMMA FaultTables ==
  ASSUME NEW sit \in Refusals \cup Lost
  PROVE  /\ MapContextErr(ServiceError(sit).ctx) \notin BlameCodes
         /\ MapCodeString(ServiceError(sit).code) \notin BlameCodes
         /\ \/ MapCodeString(ServiceError(sit).code) # NoCode
            \/ MapHTTPStatus(ServiceError(sit).status) \notin BlameCodes
<1> DEFINE e == ServiceError(sit)
           words == {"AccessDenied", "SignatureDoesNotMatch", "SlowDown", "RequestTimeout",
                     "InternalError", "ServiceUnavailable", ""}
           numbers == {403, 503, 500, 0}
<1>1. e.code \in words
  BY DEF ServiceError, Refusals, Lost
<1>2. e.status \in numbers \/ e.code = "RequestTimeout"
  BY DEF ServiceError, Refusals, Lost
<1>3. /\ MapCodeString("AccessDenied") = "permission_denied"
      /\ MapCodeString("SignatureDoesNotMatch") = "unauthenticated"
      /\ MapCodeString("SlowDown") = "rate_limited"
      /\ MapCodeString("RequestTimeout") = "timeout"
      /\ MapCodeString("InternalError") = "temporary"
      /\ MapCodeString("ServiceUnavailable") = "temporary"
      /\ MapCodeString("") = NoCode
  BY DEF MapCodeString
<1>4. /\ MapHTTPStatus(403) = "permission_denied" /\ MapHTTPStatus(500) = "temporary"
      /\ MapHTTPStatus(503) = "temporary" /\ MapHTTPStatus(0) = NoCode
  BY DEF MapHTTPStatus
<1>5. MapContextErr(e.ctx) \notin BlameCodes
  BY DEF MapContextErr, NoCode, BlameCodes
<1> HIDE DEF e
<1> DEFINE fine == {"permission_denied", "unauthenticated", "rate_limited", "timeout",
                    "temporary", NoCode}
<1>6. MapCodeString("RequestTimeout") # NoCode /\ \A x \in fine : x \notin BlameCodes
  BY <1>3 DEF BlameCodes, NoCode
<1>7. MapCodeString(e.code) \in fine
  BY <1>1, <1>3
<1>8. MapCodeString(e.code) # NoCode \/ MapHTTPStatus(e.status) \in fine
  <2>1. CASE e.code = "RequestTimeout"
    BY <1>6, <2>1
  <2>2. CASE e.status \in numbers
    BY <1>4, <2>2
  <2> QED BY <1>2, <2>1, <2>2
<1> HIDE DEF fine
<1>9. /\ MapCodeString(e.code) \notin BlameCodes
      /\ MapCodeString(e.code) # NoCode \/ MapHTTPStatus(e.status) \notin BlameCodes
  BY <1>6, <1>7, <1>8
<1> QED BY <1>5, <1>9 DEF e

\* So a code that comes from those tables is an error, after a lost answer no
\* refusal, after a fault no blame, and says "not found" of nothing else.
LEMMA TablesSafe ==
  ASSUME NEW sit, NEW code, FromTables(code, ServiceError(sit))
  PROVE  /\ code # "ok" /\ (sit \in Lost => code \notin RefusalCodes)
         /\ code = "not_found" => sit \in Missing
         /\ sit \in Refusals \cup Lost => code \notin BlameCodes
<1>1. code # "ok"
  BY TablesNeverOk DEF FromTables
<1>2. ASSUME sit \in Lost PROVE code \in {"temporary", "timeout", "internal"}
  BY <1>2, LostTables DEF FromTables
<1>3. code = "not_found" => sit \in Missing
  BY MissingTables DEF FromTables
<1>4. ASSUME sit \in Refusals \cup Lost PROVE code \notin BlameCodes
  <2>1. "internal" \notin BlameCodes
    BY DEF BlameCodes
  <2> QED BY <1>4, <2>1, FaultTables DEF FromTables
<1> QED
  BY <1>1, <1>2, <1>3, <1>4 DEF RefusalCodes

-----------------------------------------------------------------------------
(* AWS *)

\* The error tables of the AWS driver are those the S3 drivers share.
LEMMA AwsTables ==
  /\ \A x : Aws!MapCodeString(x) = MapCodeString(x)
  /\ \A x : Aws!MapHTTPStatus(x) = MapHTTPStatus(x)
  /\ \A x : Aws!MapContextErr(x) = MapContextErr(x)
  /\ \A x : Aws!ServiceError(x) = ServiceError(x)
  /\ Aws!NoCode = NoCode
BY DEF MapCodeString, MapHTTPStatus, MapContextErr, ServiceError, NoCode,
       Aws!MapCodeString, Aws!MapHTTPStatus, Aws!MapContextErr,
       Aws!ServiceError, Aws!NoCode

\* MapError of the AWS driver leaves the store alone, and its code comes
\* from the tables.
LEMMA AwsMapError ==
  ASSUME NEW s, NEW e
  PROVE  Aws!MapError(s, e).store = s /\ FromTables(Aws!MapError(s, e).code, e)
<1>1. CASE MapContextErr(e.ctx) # NoCode
  BY <1>1, AwsTables DEF Aws!MapError, Aws!Error, Aws!Refuse, FromTables, NoCode
<1>2. CASE MapContextErr(e.ctx) = NoCode /\ MapCodeString(e.code) # NoCode
  BY <1>2, AwsTables DEF Aws!MapError, Aws!Error, Aws!Refuse, FromTables, NoCode
<1>3. CASE MapContextErr(e.ctx) = NoCode /\ MapCodeString(e.code) = NoCode
  BY <1>3, AwsTables DEF Aws!MapError, Aws!Error, Aws!Refuse, FromTables, NoCode
<1> QED BY <1>1, <1>2, <1>3

\* The service the AWS driver talks to is the one of ObjectService.
LEMMA AwsService ==
  /\ \A s, at, o, f, m, n : Aws!SvcPut(s, at, o, f, m, n) = SvcPut(s, at, o, f, m, n)
  /\ \A s, at, f, l, m : Aws!SvcGet(s, at, f, l, m) = SvcGet(s, at, f, l, m)
  /\ \A s, at, strict : Aws!SvcDelete(s, at, strict) = SvcDelete(s, at, strict)
  /\ \A s, b, k, q : Aws!SvcDeleteBatch(s, b, k, q) = SvcDeleteBatch(s, b, k, q)
  /\ \A s, x, y, i, m, j, t, e, n :
       Aws!SvcCopy(s, x, y, i, m, j, t, e, n) = SvcCopy(s, x, y, i, m, j, t, e, n)
BY DEF SvcPut, SvcGet, SvcCopy, SvcDelete, SvcDeleteBatch, Attempt, InBucket,
       No, Done, Reply, StoreObject, With, Without, Restrict, Range, Fails,
       Has, Etag, Lost, Nothing, ObjectOf, Slice, Aws!SvcPut, Aws!SvcGet,
       Aws!SvcCopy, Aws!SvcDelete, Aws!SvcDeleteBatch, Aws!Attempt,
       Aws!InBucket, Aws!No, Aws!Done, Aws!Reply, Aws!StoreObject, Aws!With,
       Aws!Without, Aws!Restrict, Aws!Range, Aws!Fails, Aws!Has, Aws!Etag,
       Aws!Lost, Aws!Nothing, Aws!ObjectOf, Aws!Slice

\* The AWS driver hands on the service's answer, success for success and
\* error for error.
LEMMA AwsAsk ==
  ASSUME NEW s, NEW name, NEW answers, NEW o \in Aws!Ask(s, name, answers)
  PROVE  \/ Declines(o, s) /\ o.code \notin BlameCodes
         \/ \E a \in answers : Gives(a, o)
<1>1. CASE name = ""
  <2>1. o = Aws!Refuse(s, "internal")
    BY <1>1 DEF Aws!Ask
  <2> QED BY <2>1 DEF Aws!Refuse, Aws!Error, Declines, BlameCodes
<1>2. CASE name # ""
  <2>1. PICK a \in answers : o = IF a.sit = "ok" THEN Aws!Ok(a.store, a.out)
                                 ELSE Aws!MapError(a.store, ServiceError(a.sit))
    BY <1>2, AwsTables DEF Aws!Ask, Aws!Rendered
  <2>2. Gives(a, o)
    BY <2>1, AwsMapError, TablesSafe DEF Gives, Tells, Aws!Ok, Refusals, Lost
  <2> QED BY <2>2
<1> QED BY <1>1, <1>2

\* Put of the AWS driver sends the body, with the preconditions it forwards,
\* or declines.
LEMMA AwsPut ==
  ASSUME NEW c, NEW s, NEW r, NamesView(c, r),
         NEW o \in Aws!PutObject(c, s, r)
  PROVE  Declines(o, s) \/ SendsPut(s, r, r.match, r.noneMatch = "*", o)
<1> DEFINE obj == ObjectOf(r.body.bytes, Aws!MetadataToAWS(r.meta), r.ctype)
           answers == SvcPut(s, <<r.bucket, r.key>>, obj, r.body.fails, r.match, r.noneMatch = "*")
<1>1. CASE r.body.nil \/ r.size < 0
  <2>1. o \in {Aws!Refuse(s, "invalid_argument"), Aws!Refuse(s, "length_required")}
    BY <1>1 DEF Aws!PutObject
  <2>2. Declines(o, s)
    BY <2>1 DEF Aws!Refuse, Aws!Error, Declines
  <2> QED BY <2>2
<1>2. CASE ~r.body.nil /\ ~(r.size < 0)
  <2>1. Aws!PutObject(c, s, r) = Aws!Ask(s, r.bucket, answers)
    BY <1>2, AwsService DEF Aws!PutObject, Aws!At, Aws!ObjectOf, ObjectOf
  <2>2. Declines(o, s) \/ \E a \in answers : Gives(a, o)
    BY <2>1, AwsAsk
  <2> QED BY <2>2 DEF Gives, SendsPut
<1> QED BY <1>1, <1>2

\* A Get of the AWS driver that succeeds gives the bytes the range asks for.
LEMMA AwsGet ==
  ASSUME NEW c, NEW s, NEW r, NamesView(c, r), AsksRange(r),
         NEW o \in Aws!GetObject(c, s, r)
  PROVE  ReadsRange(s, r, o)
<1> DEFINE answers == SvcGet(s, <<r.bucket, r.key>>, r.first, r.last, r.match)
<1>1. o \in Aws!Ask(s, r.bucket, answers)
  BY AwsService DEF Aws!GetObject, Aws!FormatRange, Aws!At, AsksRange, NamesView
<1> HIDE DEF answers
<1>2. Declines(o, s) \/ \E a \in answers : Gives(a, o)
  BY <1>1, AwsAsk
<1>3. CASE Declines(o, s)
  BY <1>3 DEF Declines, ReadsRange
<1>4. CASE \E a \in answers : Gives(a, o)
  BY <1>4, GetReads DEF answers
<1> QED BY <1>2, <1>3, <1>4

\* Delete of the AWS driver only removes, and a refusal removes nothing.
LEMMA AwsDelete ==
  ASSUME NEW c, NEW s, NEW r, NEW o \in Aws!DeleteObject(c, s, r)
  PROVE  Shrinks(s, o.store) /\ Honest(s, o)
<1> DEFINE answers == SvcDelete(s, Aws!At(c, r), FALSE)
<1>1. Aws!SvcDelete(s, Aws!At(c, r), FALSE) = answers
  BY AwsService
<1>2. Speaks(s, answers) /\ \A a \in answers : Shrinks(s, a.store)
  BY SvcDeleteSpeaks, SvcDeleteShrinks
<1> HIDE DEF answers
<1>3. o \in Aws!Ask(s, r.bucket, answers)
  BY <1>1 DEF Aws!DeleteObject
<1>4. Declines(o, s) \/ \E a \in answers : Gives(a, o)
  BY <1>3, AwsAsk
<1> QED BY <1>2, <1>4, DeclinesHonest, TellsHonest DEF Gives, Tells

\* Copy of the AWS driver creates no other object, and a refusal copies
\* nothing.
LEMMA AwsCopy ==
  ASSUME NEW c, NEW s, NEW r, NEW o \in Aws!CopyObject(c, s, r)
  PROVE  SameFields(s, o.store) /\ Honest(s, o) /\ Adds(s, Aws!At(c, r), o.store)
<1> DEFINE replace == r.directive = "REPLACE"
           tags == Aws!SourceTags(r.match, r.noneMatch)
           meta == Aws!MetadataToAWS(r.meta)
           answers == SvcCopy(s, <<r.srcBucket, r.srcKey>>, Aws!At(c, r), replace, meta,
                              replace, r.ctype, tags, FALSE)
<1>1. Aws!CopyObject(c, s, r) = Aws!Ask(s, r.bucket, answers)
  <2> HIDE DEF tags, meta
  <2>1. answers = Aws!SvcCopy(s, <<r.srcBucket, r.srcKey>>, Aws!At(c, r), replace, meta,
                              replace, r.ctype, tags, FALSE)
    BY AwsService
  <2> HIDE DEF answers
  <2> QED BY <2>1 DEF Aws!CopyObject, tags, meta
<1>2. Speaks(s, answers)
  <2> HIDE DEF tags, meta, replace
  <2> QED BY SvcCopySpeaks
<1>a. AnswersAdd(s, Aws!At(c, r), answers)
  <2> HIDE DEF tags, meta, replace
  <2> QED BY SvcCopyAdds
<1> HIDE DEF answers
<1>3. Declines(o, s) \/ \E a \in answers : Gives(a, o)
  BY <1>1, AwsAsk
<1> QED BY <1>2, <1>a, <1>3, DeclinesHonest, TellsHonest, DeclinesAdds, TellsAdds DEF Gives

\* DeleteMany's loop takes one turn after the other.
LEMMA AwsLoop ==
  ASSUME NEW r, NEW base, NEW n \in 1..2
  PROVE  Aws!Loop(LAMBDA acc, i : Aws!DeleteChunk(r, acc, i), base, n) =
           IF n = 1 THEN Aws!DeleteChunk(r, base, 1)
           ELSE Aws!DeleteChunk(r, Aws!DeleteChunk(r, base, 1), 2)
<1> DEFINE one == Aws!DeleteChunk(r, base, 1)
           two == Aws!DeleteChunk(r, one, 2)
           Unfolds(f) == f = [i \in 0..n |-> IF i = 0 THEN base
                                             ELSE Aws!DeleteChunk(r, f[i - 1], i)]
           f == [i \in 0..n |-> IF i = 0 THEN base ELSE IF i = 1 THEN one ELSE two]
           after == CHOOSE g : Unfolds(g)
<1>1. Unfolds(f)
  <2>1. ASSUME NEW i \in 0..n
        PROVE  f[i] = IF i = 0 THEN base ELSE Aws!DeleteChunk(r, f[i - 1], i)
    <3> HIDE DEF one, two
    <3>1. i = 0 \/ (i = 1 /\ f[i - 1] = base) \/ (i = 2 /\ f[i - 1] = one)
      OBVIOUS
    <3> QED BY <3>1 DEF one, two
  <2> QED BY <2>1
<1>2. Unfolds(after)
  BY <1>1
<1>3. Aws!Loop(LAMBDA acc, i : Aws!DeleteChunk(r, acc, i), base, n) = after[n]
  BY DEF Aws!Loop
<1> HIDE DEF after
<1>4. after[0] = base /\ after[1] = one
  BY <1>2
<1>5. after[n] = IF n = 1 THEN one ELSE two
  BY <1>2, <1>4
<1> QED BY <1>3, <1>5, Zenon

\* Every outcome of the AWS driver is well formed.
LEMMA AwsAskForm ==
  ASSUME NEW s, NEW name, NEW answers, NEW o \in Aws!Ask(s, name, answers)
  PROVE  WellFormed(o)
<1>1. \A t, code, retry, cap : WellFormed(Aws!Error(t, code, retry, cap))
  BY DEF Aws!Error, Aws!Nothing, WellFormed, Deleted
<1>2. \A t, out : WellFormed(Aws!Ok(t, out))
  BY DEF Aws!Ok, WellFormed
<1>3. \A t, e : WellFormed(Aws!MapError(t, e))
  BY <1>1, Zenon DEF Aws!MapError, Aws!Refuse
<1> QED BY <1>1, <1>2, <1>3 DEF Aws!Ask, Aws!Rendered, Aws!Refuse

\* The chunks of a short list are the list, or one key and the other.
LEMMA AwsChunks ==
  ASSUME NEW keys, ShortList(keys)
  PROVE  LET n == (Len(keys) + DeleteBatchLimit - 1) \div DeleteBatchLimit
             chunk(i) == Range(Aws!Chunk(keys, i))
         IN \/ n = 1 /\ chunk(1) = Range(keys)
            \/ n = 2 /\ chunk(1) \cup chunk(2) = Range(keys) /\ chunk(1) \cap chunk(2) = {}
<1> DEFINE n == (Len(keys) + DeleteBatchLimit - 1) \div DeleteBatchLimit
<1>1. DeleteBatchLimit \in Nat \ {0}
  BY ServiceAssumption
<1>2. \A i, j \in Int : i <= j => Aws!Min({i, j}) = i /\ Aws!Min({j, i}) = i
  BY DEF Aws!Min
<1>3. PICK x, y : x # y /\ (keys = <<x>> \/ keys = <<x, y>>)
  BY DEF ShortList
<1>4. Range(<<x>>) = {x} /\ Range(<<y>>) = {y} /\ Range(<<x, y>>) = {x, y}
  BY RangeShort
<1>5. CASE keys = <<x>>
  <2>1. n = 1
    BY <1>1, <1>5
  <2>2. Aws!Chunk(keys, 1) = SubSeq(<<x>>, 1, 1)
    BY <1>1, <1>2, <1>5 DEF Aws!Chunk
  <2> QED BY <1>5, <2>1, <2>2
<1>6. CASE keys = <<x, y>> /\ DeleteBatchLimit = 1
  <2>1. n = 2
    BY <1>6
  <2>2. Aws!Chunk(keys, 1) = SubSeq(<<x, y>>, 1, 1) /\ Aws!Chunk(keys, 2) = SubSeq(<<x, y>>, 2, 2)
    BY <1>2, <1>6 DEF Aws!Chunk
  <2> QED BY <1>3, <1>4, <1>6, <2>1, <2>2
<1>7. CASE keys = <<x, y>> /\ DeleteBatchLimit # 1
  <2>1. n = 1
    BY <1>1, <1>7
  <2>2. Aws!Chunk(keys, 1) = SubSeq(<<x, y>>, 1, 2)
    BY <1>1, <1>2, <1>7 DEF Aws!Chunk
  <2> QED BY <1>7, <2>1, <2>2
<1> QED BY <1>3, <1>5, <1>6, <1>7

\* One chunk of DeleteMany, after those of the keys K.
LEMMA AwsDeleteChunk ==
  ASSUME NEW r, NEW s, "objs" \in DOMAIN s, NEW acc, NEW i, NEW K,
         K \cap Range(Aws!Chunk(r.keys, i)) = {},
         \A a \in acc : Batched(s, r.bucket, K, r.quiet, a),
         NEW o \in Aws!DeleteChunk(r, acc, i)
  PROVE  Batched(s, r.bucket, K \cup Range(Aws!Chunk(r.keys, i)), r.quiet, o)
<1> DEFINE L == Range(Aws!Chunk(r.keys, i))  quiet == r.quiet  b == r.bucket
           answers(t) == SvcDeleteBatch(t, b, Aws!Chunk(r.keys, i), quiet)
<1>1. \E p \in acc : \/ o = p /\ p.code # "ok"
                     \/ p.code = "ok" /\ \E q \in Aws!Ask(p.store, b, answers(p.store)) :
                          o = Aws!AppendResult(p, q)
  BY AwsService, Zenon DEF Aws!DeleteChunk
<1>2. PICK p \in acc : \/ o = p /\ p.code # "ok"
                       \/ p.code = "ok" /\ \E q \in Aws!Ask(p.store, b, answers(p.store)) :
                            o = Aws!AppendResult(p, q)
  BY <1>1
<1>3. CASE o = p /\ p.code # "ok"
  <2>1. Batched(s, b, K, quiet, o) /\ o.code # "ok"
    BY <1>3
  <2> HIDE DEF L, quiet, b
  <2>2. Batched(s, b, K \cup L, quiet, o)
    BY <2>1, BatchStops
  <2> QED BY <2>2 DEF L, quiet, b
<1>4. ASSUME p.code = "ok", NEW q \in Aws!Ask(p.store, b, answers(p.store)), o = Aws!AppendResult(p, q)
      PROVE  Batched(s, b, K \cup L, quiet, o)
  <2>1. Batched(s, b, K, quiet, p) /\ "objs" \in DOMAIN p.store
    BY DEF Batched, Shrinks, SameFields
  <2>2. WellFormed(q)
    BY <1>4, AwsAskForm
  <2>3. Declines(q, p.store) \/ \E a \in answers(p.store) : Gives(a, q)
    BY <1>4, AwsAsk
  <2>4. Batched(p.store, b, L, quiet, q) /\ (q.code \in RefusalCodes => q.store = p.store)
    <3>1. CASE Declines(q, p.store)
      BY <2>2, <3>1, DeclinesAccounts DEF Declines
    <3>2. CASE \E a \in answers(p.store) : Gives(a, q)
      BY <2>1, <2>2, <3>2, BatchTells
    <3> QED BY <2>3, <3>1, <3>2
  <2>5. Merges(p, q, o)
    BY <1>4, <2>2 DEF Merges, Aws!AppendResult, Aws!Ok, WellFormed
  <2> HIDE DEF L, quiet, b
  <2> QED BY <1>4, <2>1, <2>4, <2>5, BatchNext DEF L, quiet
<1> QED BY <1>2, <1>3, <1>4

\* DeleteMany of the AWS driver removes its keys and accounts for them.
LEMMA AwsDeleteMany ==
  ASSUME NEW c, NEW s, "objs" \in DOMAIN s, NEW r, ShortList(r.keys),
         NEW o \in Aws!DeleteMany(c, s, r)
  PROVE  Shrinks(s, o.store) /\ Accounts(s, r.bucket, Range(r.keys), r.quiet, o)
<1> DEFINE none == Aws!Ok(s, [deleted |-> {}, failed |-> {}])
           n == (Len(r.keys) + DeleteBatchLimit - 1) \div DeleteBatchLimit
           L(i) == Range(Aws!Chunk(r.keys, i))
           one == Aws!DeleteChunk(r, {none}, 1)
           two == Aws!DeleteChunk(r, one, 2)
           end == Aws!Loop(LAMBDA acc, i : Aws!DeleteChunk(r, acc, i), {none}, n)
           Upto(K, acc) == \A a \in acc : Batched(s, r.bucket, K, r.quiet, a)
<1>1. \/ n = 1 /\ L(1) = Range(r.keys)
      \/ n = 2 /\ L(1) \cup L(2) = Range(r.keys) /\ L(1) \cap L(2) = {}
  BY AwsChunks
<1>2. Upto({}, {none})
  BY BatchStart DEF Aws!Ok
<1>3. o \in end
  BY DEF Aws!DeleteMany
<1> HIDE DEF n, none
<1>4. Upto(L(1), one)
  <2>1. Upto({} \cup L(1), one)
    BY <1>2, AwsDeleteChunk
  <2>2. {} \cup L(1) = L(1)
    OBVIOUS
  <2> QED BY <2>1, <2>2, Zenon
<1>5. ASSUME n = 2 PROVE Upto(L(1) \cup L(2), two)
  <2>1. L(1) \cap L(2) = {}
    BY <1>1, <1>5
  <2> HIDE DEF one
  <2> QED BY <1>4, <2>1, AwsDeleteChunk, Zenon
<1>6. n \in 1..2 /\ (n = 1 \/ n = 2)
  BY <1>1
<1>7. end = IF n = 1 THEN one ELSE two
  BY <1>6, AwsLoop, Zenon
<1> HIDE DEF end, one, two, L
<1>8. Upto(Range(r.keys), end)
  BY <1>1, <1>4, <1>5, <1>7
<1> QED BY <1>3, <1>8, BatchedAccounts

-----------------------------------------------------------------------------
(* MinIO *)

\* The error tables of the MinIO driver are those the S3 drivers share.
LEMMA MinioTables ==
  /\ \A x : Minio!MapCodeString(x) = MapCodeString(x)
  /\ \A x : Minio!MapHTTPStatus(x) = MapHTTPStatus(x)
  /\ \A x : Minio!MapContextErr(x) = MapContextErr(x)
  /\ \A x : Minio!ServiceError(x) = ServiceError(x)
  /\ Minio!NoCode = NoCode
BY DEF MapCodeString, MapHTTPStatus, MapContextErr, ServiceError, NoCode,
       Minio!MapCodeString, Minio!MapHTTPStatus, Minio!MapContextErr,
       Minio!ServiceError, Minio!NoCode

\* MapError of the MinIO driver leaves the store alone, and its code comes
\* from the tables.
LEMMA MinioMapError ==
  ASSUME NEW s, NEW e
  PROVE  Minio!MapError(s, e).store = s /\ FromTables(Minio!MapError(s, e).code, e)
<1>1. CASE MapCodeString(e.code) # NoCode
  BY <1>1, MinioTables DEF Minio!MapError, Minio!MapErrorCode, Minio!Error, FromTables, NoCode
<1>2. CASE MapCodeString(e.code) = NoCode /\ MapHTTPStatus(e.status) # NoCode
  BY <1>2, MinioTables DEF Minio!MapError, Minio!MapErrorCode, Minio!Error, FromTables, NoCode
<1>3. CASE MapCodeString(e.code) = NoCode /\ MapHTTPStatus(e.status) = NoCode /\ MapContextErr(e.ctx) # NoCode
  BY <1>3, MinioTables DEF Minio!MapError, Minio!MapErrorCode, Minio!Error, FromTables, NoCode
<1>4. CASE MapCodeString(e.code) = NoCode /\ MapHTTPStatus(e.status) = NoCode /\ MapContextErr(e.ctx) = NoCode
  BY <1>4, MinioTables DEF Minio!MapError, Minio!MapErrorCode, Minio!Error, FromTables, NoCode
<1> QED BY <1>1, <1>2, <1>3, <1>4

\* The service the MinIO driver talks to is the one of ObjectService.
LEMMA MinioService ==
  /\ \A s, at, o, f, m, n : Minio!SvcPut(s, at, o, f, m, n) = SvcPut(s, at, o, f, m, n)
  /\ \A s, at, f, l, m : Minio!SvcGet(s, at, f, l, m) = SvcGet(s, at, f, l, m)
  /\ \A s, at, strict : Minio!SvcDelete(s, at, strict) = SvcDelete(s, at, strict)
  /\ \A s, b, k, q : Minio!SvcDeleteBatch(s, b, k, q) = SvcDeleteBatch(s, b, k, q)
  /\ \A s, x, y, i, m, j, t, e, n :
       Minio!SvcCopy(s, x, y, i, m, j, t, e, n) = SvcCopy(s, x, y, i, m, j, t, e, n)
BY DEF SvcPut, SvcGet, SvcCopy, SvcDelete, SvcDeleteBatch, Attempt, InBucket,
       No, Done, Reply, StoreObject, With, Without, Restrict, Range, Fails,
       Has, Etag, Lost, Nothing, ObjectOf, Slice, Minio!SvcPut, Minio!SvcGet,
       Minio!SvcCopy, Minio!SvcDelete, Minio!SvcDeleteBatch, Minio!Attempt,
       Minio!InBucket, Minio!No, Minio!Done, Minio!Reply, Minio!StoreObject,
       Minio!With, Minio!Without, Minio!Restrict, Minio!Range, Minio!Fails,
       Minio!Has, Minio!Etag, Minio!Lost, Minio!Nothing, Minio!ObjectOf,
       Minio!Slice

\* The MinIO driver hands on the service's answer, success for success and
\* error for error.
LEMMA MinioAsk ==
  ASSUME NEW answers, NEW o \in Minio!Ask(answers)
  PROVE  \E a \in answers : Gives(a, o)
<1>1. PICK a \in answers : o = IF a.sit = "ok" THEN Minio!Ok(a.store, a.out)
                               ELSE Minio!MapError(a.store, ServiceError(a.sit))
  BY MinioTables DEF Minio!Ask, Minio!Rendered
<1>2. Gives(a, o)
  BY <1>1, MinioMapError, TablesSafe DEF Gives, Tells, Minio!Ok, Refusals, Lost
<1> QED BY <1>2

\* Put of the MinIO driver sends the body, with the preconditions it forwards,
\* or declines.
LEMMA MinioPut ==
  ASSUME NEW c, NEW s, NEW r, NamesView(c, r),
         NEW o \in Minio!PutObject(c, s, r)
  PROVE  Declines(o, s) \/ SendsPut(s, r, r.match, r.noneMatch = "*", o)
<1> DEFINE obj == ObjectOf(r.body.bytes, Minio!ToLowerMap(r.meta), r.ctype)
           answers == SvcPut(s, <<r.bucket, r.key>>, obj, r.body.fails, r.match, r.noneMatch = "*")
<1>1. CASE r.body.nil
  <2>1. o \in {Minio!Refuse(s, "invalid_argument"), Minio!Refuse(s, "length_required")}
    BY <1>1 DEF Minio!PutObject
  <2>2. Declines(o, s)
    BY <2>1 DEF Minio!Refuse, Minio!Error, Declines
  <2> QED BY <2>2
<1>2. CASE ~r.body.nil
  <2>1. Minio!PutObject(c, s, r) = Minio!Ask(answers)
    BY <1>2, MinioService DEF Minio!PutObject, Minio!At, Minio!PickBucket, Minio!ObjectOf, ObjectOf, NamesView
  <2>2. Declines(o, s) \/ \E a \in answers : Gives(a, o)
    BY <2>1, MinioAsk
  <2> QED BY <2>2 DEF Gives, SendsPut
<1> QED BY <1>1, <1>2

\* A Get of the MinIO driver that succeeds gives the bytes the range asks for.
LEMMA MinioGet ==
  ASSUME NEW c, NEW s, NEW r, NamesView(c, r), AsksRange(r),
         r.whole => r.first = 0 /\ r.last = -1, r.whole \/ r.first > 0 \/ r.last >= 0,
         NEW o \in Minio!GetObject(c, s, r)
  PROVE  ReadsRange(s, r, o)
<1> DEFINE answers == SvcGet(s, <<r.bucket, r.key>>, r.first, r.last, r.match)
<1>1. Minio!ReadRange(r) = [ok |-> TRUE, first |-> r.first, last |-> r.last]
  <2>1. CASE r.whole
    BY <2>1 DEF Minio!ReadRange
  <2>2. CASE ~r.whole /\ r.last < 0
    <3>1. r.first \in Nat /\ r.first > 0 /\ r.last = -1
      BY <2>2 DEF AsksRange
    <3>2. Minio!ReadRange(r) = Minio!SetRange(r.first, 0)
      BY <2>2 DEF Minio!ReadRange
    <3>3. Minio!SetRange(r.first, 0) = [ok |-> TRUE, first |-> r.first, last |-> -1]
      BY <3>1 DEF Minio!SetRange
    <3> QED BY <3>1, <3>2, <3>3
  <2>3. CASE ~r.whole /\ ~(r.last < 0)
    BY <2>3 DEF Minio!ReadRange, Minio!SetRange, AsksRange
  <2> QED BY <2>1, <2>2, <2>3
<1>2. o \in Minio!Ask(answers)
  <2> HIDE DEF answers
  <2>1. answers = Minio!SvcGet(s, Minio!At(c, r), r.first, r.last, r.match)
    BY MinioService DEF Minio!At, Minio!PickBucket, NamesView, answers
  <2> QED BY <1>1, <2>1 DEF Minio!GetObject
<1> HIDE DEF answers
<1>3. Declines(o, s) \/ \E a \in answers : Gives(a, o)
  BY <1>2, MinioAsk
<1>4. CASE Declines(o, s)
  BY <1>4 DEF Declines, ReadsRange
<1>5. CASE \E a \in answers : Gives(a, o)
  BY <1>5, GetReads DEF answers
<1> QED BY <1>3, <1>4, <1>5

\* Delete of the MinIO driver only removes, and a refusal removes nothing.
LEMMA MinioDelete ==
  ASSUME NEW c, NEW s, NEW r, NEW o \in Minio!DeleteObject(c, s, r)
  PROVE  Shrinks(s, o.store) /\ Honest(s, o)
<1> DEFINE answers == SvcDelete(s, Minio!At(c, r), FALSE)
<1>1. Minio!SvcDelete(s, Minio!At(c, r), FALSE) = answers
  BY MinioService
<1>2. Speaks(s, answers) /\ \A a \in answers : Shrinks(s, a.store)
  BY SvcDeleteSpeaks, SvcDeleteShrinks
<1> HIDE DEF answers
<1>3. o \in Minio!Ask(answers)
  BY <1>1 DEF Minio!DeleteObject
<1>4. Declines(o, s) \/ \E a \in answers : Gives(a, o)
  BY <1>3, MinioAsk
<1> QED BY <1>2, <1>4, DeclinesHonest, TellsHonest DEF Gives, Tells

\* Copy of the MinIO driver: a refusal copies nothing, and a success
\* leaves the bytes and headers of the source that matched.
LEMMA MinioCopy ==
  ASSUME NEW c, NEW s, NEW r, NEW o \in Minio!CopyObject(c, s, r)
  PROVE  /\ SameFields(s, o.store) /\ Honest(s, o)
         /\ Adds(s, <<r.bucket, r.key>>, o.store)
         /\ CopiesFrom(r) /\ NamesView(c, r) /\ "objs" \in DOMAIN s =>
              CopiesSource(s, r, o) /\ CopiesMatching(s, r, o)
<1> DEFINE src == <<r.srcBucket, r.srcKey>>
           dst == <<r.bucket, r.key>>
           meta == Minio!ToLowerMap(r.meta)
           replace == r.directive = "REPLACE" \/ r.meta # "nil"
           tags == Minio!SourceTags(r.match, r.noneMatch)
           answers == SvcCopy(s, src, dst, replace, meta, replace, r.ctype, tags, FALSE)
<1>1. answers = Minio!SvcCopy(s, src, dst, replace, meta, replace, r.ctype, tags, FALSE)
  <2> HIDE DEF src, dst, meta, replace, tags
  <2> QED BY MinioService
<1>2. Speaks(s, answers)
  <2> HIDE DEF src, dst, meta, replace, tags
  <2> QED BY SvcCopySpeaks
<1>a. AnswersAdd(s, dst, answers)
  <2> HIDE DEF src, dst, meta, replace, tags
  <2> QED BY SvcCopyAdds
<1>3. ASSUME CopiesFrom(r), NamesView(c, r), "objs" \in DOMAIN s,
             NEW a \in answers, Tells(a, o)
      PROVE  CopiesSource(s, r, o) /\ CopiesMatching(s, r, o)
  <2>1. src = <<r.bucket, r.srcKey>> /\ meta = r.meta
    BY <1>3 DEF CopiesFrom, NamesView, Minio!ToLowerMap, Minio!LowerMetadataKeys
  <2> DEFINE no == FALSE
  <2>2. /\ replace \in BOOLEAN /\ (replace <=> r.meta # "nil")
        /\ no \in BOOLEAN /\ tags = r.match
    BY <1>3, <2>1 DEF CopiesFrom, Minio!SourceTags
  <2>3. a \in SvcCopy(s, <<r.bucket, r.srcKey>>, <<r.bucket, r.key>>, replace,
                      r.meta, replace, r.ctype, r.match, no)
    <3> HIDE DEF src, meta, replace, tags
    <3> QED BY <1>3, <2>1, <2>2
  <2> HIDE DEF no, replace, answers
  <2> QED BY <1>3, <2>2, <2>3, CopyIsOfSource
<1> HIDE DEF answers
<1>4. o \in Minio!Ask(answers)
  BY <1>1 DEF Minio!CopyObject
<1>5. Declines(o, s) \/ \E a \in answers : Gives(a, o)
  BY <1>4, MinioAsk
<1> QED BY <1>2, <1>a, <1>3, <1>5, DeclinesHonest, TellsHonest, DeclinesAdds, TellsAdds
      DEF Gives, Declines, CopiesSource, CopiesMatching

\* Every outcome of the MinIO driver is well formed.
LEMMA MinioAskForm ==
  ASSUME NEW answers, NEW o \in Minio!Ask(answers)
  PROVE  WellFormed(o)
<1>1. \A t, code, retry, cap : WellFormed(Minio!Error(t, code, retry, cap))
  BY DEF Minio!Error, Minio!Nothing, WellFormed, Deleted
<1>2. \A t, out : WellFormed(Minio!Ok(t, out))
  BY DEF Minio!Ok, WellFormed
<1>3. \A t, e : WellFormed(Minio!MapError(t, e))
  BY <1>1, Zenon DEF Minio!MapError, Minio!Refuse
<1> QED BY <1>1, <1>2, <1>3 DEF Minio!Ask, Minio!Rendered

\* DeleteMany of the MinIO driver removes its keys and accounts for them.
LEMMA MinioDeleteMany ==
  ASSUME NEW c, NEW s, "objs" \in DOMAIN s, NEW r, NamesView(c, r),
         NEW o \in Minio!DeleteMany(c, s, r)
  PROVE  Shrinks(s, o.store) /\ Accounts(s, r.bucket, Range(r.keys), r.quiet, o)
<1> DEFINE quiet == FALSE  K == Range(r.keys)
           answers == SvcDeleteBatch(s, r.bucket, r.keys, quiet)
<1>1. answers = Minio!SvcDeleteBatch(s, Minio!PickBucket(c, r), r.keys, quiet)
  BY MinioService, Zenon DEF Minio!PickBucket, NamesView
<1>2. CASE r.keys = <<>>
  <2>1. o = Minio!Ok(s, [deleted |-> {}, failed |-> {}])
    BY <1>2 DEF Minio!DeleteMany
  <2>2. o.store = s /\ o.code = "ok" /\ o.out = [deleted |-> {}, failed |-> {}]
    BY <2>1 DEF Minio!Ok
  <2>3. Range(r.keys) = {}
    BY <1>2 DEF Range
  <2> QED BY <2>2, <2>3, BatchStart, BatchedAccounts
<1>3. ASSUME NEW p \in Minio!Ask(answers)
      PROVE  Batched(s, r.bucket, K, quiet, p)
  <2> HIDE DEF quiet
  <2>1. WellFormed(p)
    BY <1>3, MinioAskForm
  <2>2. Declines(p, s) \/ \E a \in answers : Gives(a, p)
    BY <1>3, MinioAsk
  <2> QED BY <2>1, <2>2, BatchTells, DeclinesAccounts
<1>4. CASE r.keys # <<>>
  <2>1. PICK p \in Minio!Ask(answers) :
          o = IF p.code # "ok"
              THEN Minio!Ok(p.store, [deleted |-> {}, failed |-> Minio!Range(r.keys)])
              ELSE [p EXCEPT !.out.deleted = IF r.quiet THEN {} ELSE @]
    BY <1>1, <1>4 DEF Minio!DeleteMany
  <2>2. Batched(s, r.bucket, K, quiet, p)
    BY <1>3, <2>1
  <2>3. Shrinks(s, p.store) /\ Accounts(s, r.bucket, K, quiet, p)
    BY <2>2, BatchedAccounts
  <2>4. WellFormed(p)
    BY <2>1, MinioAskForm
  <2>5. CASE p.code = "ok"
    <3>1. /\ o.store = p.store /\ o.code = "ok"
          /\ o.out = [p.out EXCEPT !.deleted = IF r.quiet THEN {} ELSE @]
      BY <2>1, <2>4, <2>5 DEF WellFormed
    <3>2. "deleted" \in DOMAIN p.out
      BY <2>2, <2>5 DEF Batched
    <3>3. o.out.failed = p.out.failed /\ Deleted(o) = IF r.quiet THEN {} ELSE Deleted(p)
      BY <3>1, <3>2 DEF Deleted
    <3> QED BY <2>3, <2>5, <3>1, <3>3 DEF Accounts, Gone, RefusalCodes
  <2>6. CASE p.code # "ok"
    <3>1. o.store = p.store /\ o.code = "ok" /\ o.out = [deleted |-> {}, failed |-> K]
      BY <2>1, <2>6 DEF Minio!Ok, Minio!Range, Range
    <3> QED BY <2>3, <3>1, AllFailedAccounts
  <2> QED BY <2>5, <2>6
<1> QED BY <1>2, <1>4

-----------------------------------------------------------------------------
(* Alibaba *)

\* The error tables of the Alibaba driver are those the S3 drivers share.
LEMMA AlibabaTables ==
  /\ \A x : Alibaba!MapCodeString(x) = MapCodeString(x)
  /\ \A x : Alibaba!MapHTTPStatus(x) = MapHTTPStatus(x)
  /\ \A x : Alibaba!MapContextErr(x) = MapContextErr(x)
  /\ \A x : Alibaba!ServiceError(x) = ServiceError(x)
  /\ Alibaba!NoCode = NoCode
BY DEF MapCodeString, MapHTTPStatus, MapContextErr, ServiceError, NoCode,
       Alibaba!MapCodeString, Alibaba!MapHTTPStatus, Alibaba!MapContextErr,
       Alibaba!ServiceError, Alibaba!NoCode

\* MapError of the Alibaba driver leaves the store alone, and its code comes
\* from the tables.
LEMMA AlibabaMapError ==
  ASSUME NEW s, NEW e
  PROVE  Alibaba!MapError(s, e).store = s /\ FromTables(Alibaba!MapError(s, e).code, e)
<1>1. CASE e.status # 0 /\ MapCodeString(e.code) # NoCode
  BY <1>1, AlibabaTables DEF Alibaba!MapError, Alibaba!MapServiceCode, Alibaba!Error, Alibaba!Refuse, FromTables, NoCode
<1>2. CASE e.status # 0 /\ MapCodeString(e.code) = NoCode /\ MapHTTPStatus(e.status) # NoCode
  BY <1>2, AlibabaTables DEF Alibaba!MapError, Alibaba!MapServiceCode, Alibaba!Error, Alibaba!Refuse, FromTables, NoCode
<1>3. CASE e.status # 0 /\ MapCodeString(e.code) = NoCode /\ MapHTTPStatus(e.status) = NoCode
  BY <1>3, AlibabaTables DEF Alibaba!MapError, Alibaba!MapServiceCode, Alibaba!Error, Alibaba!Refuse, FromTables, NoCode
<1>4. CASE e.status = 0 /\ MapContextErr(e.ctx) # NoCode
  BY <1>4, AlibabaTables DEF Alibaba!MapError, Alibaba!MapServiceCode, Alibaba!Error, Alibaba!Refuse, FromTables, NoCode
<1>5. CASE e.status = 0 /\ MapContextErr(e.ctx) = NoCode
  BY <1>5, AlibabaTables DEF Alibaba!MapError, Alibaba!MapServiceCode, Alibaba!Error, Alibaba!Refuse, FromTables, NoCode
<1> QED BY <1>1, <1>2, <1>3, <1>4, <1>5

\* The service the Alibaba driver talks to is the one of ObjectService.
LEMMA AlibabaService ==
  /\ \A s, at, o, f, m, n : Alibaba!SvcPut(s, at, o, f, m, n) = SvcPut(s, at, o, f, m, n)
  /\ \A s, at, f, l, m : Alibaba!SvcGet(s, at, f, l, m) = SvcGet(s, at, f, l, m)
  /\ \A s, at, strict : Alibaba!SvcDelete(s, at, strict) = SvcDelete(s, at, strict)
  /\ \A s, b, k, q : Alibaba!SvcDeleteBatch(s, b, k, q) = SvcDeleteBatch(s, b, k, q)
  /\ \A s, x, y, i, m, j, t, e, n :
       Alibaba!SvcCopy(s, x, y, i, m, j, t, e, n) = SvcCopy(s, x, y, i, m, j, t, e, n)
BY DEF SvcPut, SvcGet, SvcCopy, SvcDelete, SvcDeleteBatch, Attempt, InBucket,
       No, Done, Reply, StoreObject, With, Without, Restrict, Range, Fails,
       Has, Etag, Lost, Nothing, ObjectOf, Slice, Alibaba!SvcPut,
       Alibaba!SvcGet, Alibaba!SvcCopy, Alibaba!SvcDelete,
       Alibaba!SvcDeleteBatch, Alibaba!Attempt, Alibaba!InBucket, Alibaba!No,
       Alibaba!Done, Alibaba!Reply, Alibaba!StoreObject, Alibaba!With,
       Alibaba!Without, Alibaba!Restrict, Alibaba!Range, Alibaba!Fails,
       Alibaba!Has, Alibaba!Etag, Alibaba!Lost, Alibaba!Nothing,
       Alibaba!ObjectOf, Alibaba!Slice

\* The Alibaba driver hands on the service's answer, success for success and
\* error for error.
LEMMA AlibabaAsk ==
  ASSUME NEW answers, NEW o \in Alibaba!Ask(answers)
  PROVE  \E a \in answers : Gives(a, o)
<1>1. PICK a \in answers : o = IF a.sit = "ok" THEN Alibaba!Ok(a.store, a.out)
                               ELSE Alibaba!MapError(a.store, ServiceError(a.sit))
  BY AlibabaTables DEF Alibaba!Ask, Alibaba!Answer
<1>2. Gives(a, o)
  BY <1>1, AlibabaMapError, TablesSafe DEF Gives, Tells, Alibaba!Ok, Refusals, Lost
<1> QED BY <1>2

\* Put of the Alibaba driver sends the body, with the preconditions it forwards,
\* or declines.
LEMMA AlibabaPut ==
  ASSUME NEW c, NEW s, NEW r, NamesView(c, r),
         NEW o \in Alibaba!PutObject(c, s, r)
  PROVE  Declines(o, s) \/ SendsPut(s, r, r.match, r.noneMatch = "*", o)
<1> DEFINE obj == ObjectOf(r.body.bytes, Alibaba!ApplyMetadata(r.meta), r.ctype)
           answers == SvcPut(s, <<r.bucket, r.key>>, obj, r.body.fails, r.match, r.noneMatch = "*")
<1>1. CASE r.body.nil \/ r.size < 0
  <2>1. o \in {Alibaba!Refuse(s, "invalid_argument"), Alibaba!Refuse(s, "length_required")}
    BY <1>1 DEF Alibaba!PutObject
  <2>2. Declines(o, s)
    BY <2>1 DEF Alibaba!Refuse, Alibaba!Error, Declines
  <2> QED BY <2>2
<1>2. CASE ~r.body.nil /\ ~(r.size < 0)
  <2>1. Alibaba!PutObject(c, s, r) = Alibaba!Ask(answers)
    BY <1>2, AlibabaService DEF Alibaba!PutObject, Alibaba!At, Alibaba!PickBucket, Alibaba!ObjectOf, ObjectOf, NamesView
  <2>2. Declines(o, s) \/ \E a \in answers : Gives(a, o)
    BY <2>1, AlibabaAsk
  <2> QED BY <2>2 DEF Gives, SendsPut
<1> QED BY <1>1, <1>2

\* A Get of the Alibaba driver that succeeds gives the bytes the range asks for.
LEMMA AlibabaGet ==
  ASSUME NEW c, NEW s, NEW r, NamesView(c, r), AsksRange(r),
         NEW o \in Alibaba!GetObject(c, s, r)
  PROVE  ReadsRange(s, r, o)
<1> DEFINE answers == SvcGet(s, <<r.bucket, r.key>>, r.first, r.last, r.match)
<1>1. o \in Alibaba!Ask(answers)
  BY AlibabaService DEF Alibaba!GetObject, Alibaba!FormatRange, Alibaba!At, Alibaba!PickBucket, AsksRange, NamesView
<1> HIDE DEF answers
<1>2. Declines(o, s) \/ \E a \in answers : Gives(a, o)
  BY <1>1, AlibabaAsk
<1>3. CASE Declines(o, s)
  BY <1>3 DEF Declines, ReadsRange
<1>4. CASE \E a \in answers : Gives(a, o)
  BY <1>4, GetReads DEF answers
<1> QED BY <1>2, <1>3, <1>4

\* Delete of the Alibaba driver only removes, and a refusal removes nothing.
LEMMA AlibabaDelete ==
  ASSUME NEW c, NEW s, NEW r, NEW o \in Alibaba!DeleteObject(c, s, r)
  PROVE  Shrinks(s, o.store) /\ Honest(s, o)
<1> DEFINE answers == SvcDelete(s, Alibaba!At(c, r), FALSE)
<1>1. Alibaba!SvcDelete(s, Alibaba!At(c, r), FALSE) = answers
  BY AlibabaService
<1>2. Speaks(s, answers) /\ \A a \in answers : Shrinks(s, a.store)
  BY SvcDeleteSpeaks, SvcDeleteShrinks
<1> HIDE DEF answers
<1>3. o \in Alibaba!Ask(answers)
  BY <1>1 DEF Alibaba!DeleteObject
<1>4. Declines(o, s) \/ \E a \in answers : Gives(a, o)
  BY <1>3, AlibabaAsk
<1> QED BY <1>2, <1>4, DeclinesHonest, TellsHonest DEF Gives, Tells

\* Copy of the Alibaba driver: a refusal copies nothing, and a success
\* leaves the bytes and headers of the source that matched.
LEMMA AlibabaCopy ==
  ASSUME NEW c, NEW s, NEW r, NEW o \in Alibaba!CopyObject(c, s, r)
  PROVE  /\ SameFields(s, o.store) /\ Honest(s, o)
         /\ Adds(s, <<r.bucket, r.key>>, o.store)
         /\ CopiesFrom(r) /\ NamesView(c, r) /\ "objs" \in DOMAIN s =>
              CopiesSource(s, r, o) /\ CopiesMatching(s, r, o)
<1> DEFINE src == <<IF r.srcBucket = "" THEN r.bucket ELSE r.srcBucket, r.srcKey>>
           dst == <<r.bucket, r.key>>
           meta == Alibaba!ApplyMetadata(r.meta)
           replace == r.directive = "REPLACE" \/ (r.directive # "COPY" /\ r.meta # "nil")
           tags == Alibaba!SourceTags(r.match, r.noneMatch)
           answers == SvcCopy(s, src, dst, replace, meta, replace, r.ctype, tags, FALSE)
<1>1. answers = Alibaba!SvcCopy(s, src, dst, replace, meta, replace, r.ctype, tags, FALSE)
  <2> HIDE DEF src, dst, meta, replace, tags
  <2> QED BY AlibabaService
<1>2. Speaks(s, answers)
  <2> HIDE DEF src, dst, meta, replace, tags
  <2> QED BY SvcCopySpeaks
<1>a. AnswersAdd(s, dst, answers)
  <2> HIDE DEF src, dst, meta, replace, tags
  <2> QED BY SvcCopyAdds
<1>3. ASSUME CopiesFrom(r), NamesView(c, r), "objs" \in DOMAIN s,
             NEW a \in answers, Tells(a, o)
      PROVE  CopiesSource(s, r, o) /\ CopiesMatching(s, r, o)
  <2>1. src = <<r.bucket, r.srcKey>> /\ meta = r.meta
    BY <1>3 DEF CopiesFrom, NamesView, Alibaba!ApplyMetadata, Alibaba!LowerMetadataKeys
  <2> DEFINE no == FALSE
  <2>2. /\ replace \in BOOLEAN /\ (replace <=> r.meta # "nil")
        /\ no \in BOOLEAN /\ tags = r.match
    BY <1>3, <2>1 DEF CopiesFrom, Alibaba!SourceTags
  <2>3. a \in SvcCopy(s, <<r.bucket, r.srcKey>>, <<r.bucket, r.key>>, replace,
                      r.meta, replace, r.ctype, r.match, no)
    <3> HIDE DEF src, meta, replace, tags
    <3> QED BY <1>3, <2>1, <2>2
  <2> HIDE DEF no, replace, answers
  <2> QED BY <1>3, <2>2, <2>3, CopyIsOfSource
<1> HIDE DEF answers
<1>4. CASE r.bucket = ""
  <2>1. o = Alibaba!Refuse(s, "internal")
    BY <1>4 DEF Alibaba!CopyObject
  <2> QED BY <2>1, DeclinesHonest, DeclinesAdds DEF Alibaba!Refuse, Alibaba!Error,
        Declines, CopiesSource, CopiesMatching
<1>5. CASE r.bucket # ""
  <2>1. o \in Alibaba!Ask(answers)
    BY <1>1, <1>5 DEF Alibaba!CopyObject
  <2>2. Declines(o, s) \/ \E a \in answers : Gives(a, o)
    BY <2>1, AlibabaAsk
  <2> QED BY <1>2, <1>a, <1>3, <2>2, DeclinesHonest, TellsHonest, DeclinesAdds, TellsAdds
        DEF Gives, Declines, CopiesSource, CopiesMatching
<1> QED BY <1>4, <1>5

\* Every outcome of the Alibaba driver is well formed.
LEMMA AlibabaAskForm ==
  ASSUME NEW answers, NEW o \in Alibaba!Ask(answers)
  PROVE  WellFormed(o)
<1>1. \A t, code, retry, cap : WellFormed(Alibaba!Error(t, code, retry, cap))
  BY DEF Alibaba!Error, Alibaba!Nothing, WellFormed, Deleted
<1>2. \A t, out : WellFormed(Alibaba!Ok(t, out))
  BY DEF Alibaba!Ok, WellFormed
<1>3. \A t, e : WellFormed(Alibaba!MapError(t, e))
  BY <1>1, Zenon DEF Alibaba!MapError, Alibaba!Refuse
<1> QED BY <1>1, <1>2, <1>3 DEF Alibaba!Ask, Alibaba!Answer

\* DeleteMany of the Alibaba driver removes its keys and accounts for them.
LEMMA AlibabaDeleteMany ==
  ASSUME NEW c, NEW s, "objs" \in DOMAIN s, NEW r, NamesView(c, r),
         NEW o \in Alibaba!DeleteMany(c, s, r)
  PROVE  Shrinks(s, o.store) /\ Accounts(s, r.bucket, Range(r.keys), r.quiet, o)
<1> DEFINE quiet == r.quiet  K == Range(r.keys)
           answers == SvcDeleteBatch(s, r.bucket, r.keys, quiet)
<1>1. answers = Alibaba!SvcDeleteBatch(s, Alibaba!PickBucket(c, r), r.keys, quiet)
  BY AlibabaService, Zenon DEF Alibaba!PickBucket, NamesView
<1>2. CASE r.keys = <<>>
  <2>1. o = Alibaba!Ok(s, [deleted |-> {}, failed |-> {}])
    BY <1>2 DEF Alibaba!DeleteMany
  <2>2. o.store = s /\ o.code = "ok" /\ o.out = [deleted |-> {}, failed |-> {}]
    BY <2>1 DEF Alibaba!Ok
  <2>3. Range(r.keys) = {}
    BY <1>2 DEF Range
  <2> QED BY <2>2, <2>3, BatchStart, BatchedAccounts
<1>3. ASSUME NEW S \in SUBSET answers, NEW p \in Alibaba!Ask(S)
      PROVE  Batched(s, r.bucket, K, quiet, p)
  <2> HIDE DEF quiet
  <2>1. WellFormed(p)
    BY <1>3, AlibabaAskForm
  <2>2. \E a \in answers : Gives(a, p)
    BY <1>3, AlibabaAsk
  <2> QED BY <2>1, <2>2, BatchTells
<1>4. CASE r.keys # <<>>
  <2>1. PICK S \in SUBSET answers : o \in Alibaba!Ask(S)
    BY <1>1, <1>4 DEF Alibaba!DeleteMany
  <2> QED BY <1>3, <2>1, BatchedAccounts
<1> QED BY <1>2, <1>4

-----------------------------------------------------------------------------
(* Tencent *)

\* The error tables of the Tencent driver are those the S3 drivers share.
LEMMA TencentTables ==
  /\ \A x : Tencent!MapCodeString(x) = MapCodeString(x)
  /\ \A x : Tencent!MapHTTPStatus(x) = MapHTTPStatus(x)
  /\ \A x : Tencent!MapContextErr(x) = MapContextErr(x)
  /\ \A x : Tencent!ServiceError(x) = ServiceError(x)
  /\ Tencent!NoCode = NoCode
BY DEF MapCodeString, MapHTTPStatus, MapContextErr, ServiceError, NoCode,
       Tencent!MapCodeString, Tencent!MapHTTPStatus, Tencent!MapContextErr,
       Tencent!ServiceError, Tencent!NoCode

\* MapError of the Tencent driver leaves the store alone, and its code comes
\* from the tables.
LEMMA TencentMapError ==
  ASSUME NEW s, NEW e
  PROVE  Tencent!MapError(s, e).store = s /\ FromTables(Tencent!MapError(s, e).code, e)
<1>1. CASE e.status # 0 /\ MapCodeString(e.code) # NoCode
  BY <1>1, TencentTables DEF Tencent!MapError, Tencent!MapServiceCode, Tencent!Error, Tencent!Refuse, FromTables, NoCode
<1>2. CASE e.status # 0 /\ MapCodeString(e.code) = NoCode /\ MapHTTPStatus(e.status) # NoCode
  BY <1>2, TencentTables DEF Tencent!MapError, Tencent!MapServiceCode, Tencent!Error, Tencent!Refuse, FromTables, NoCode
<1>3. CASE e.status # 0 /\ MapCodeString(e.code) = NoCode /\ MapHTTPStatus(e.status) = NoCode
  BY <1>3, TencentTables DEF Tencent!MapError, Tencent!MapServiceCode, Tencent!Error, Tencent!Refuse, FromTables, NoCode
<1>4. CASE e.status = 0 /\ MapContextErr(e.ctx) # NoCode
  BY <1>4, TencentTables DEF Tencent!MapError, Tencent!MapServiceCode, Tencent!Error, Tencent!Refuse, FromTables, NoCode
<1>5. CASE e.status = 0 /\ MapContextErr(e.ctx) = NoCode
  BY <1>5, TencentTables DEF Tencent!MapError, Tencent!MapServiceCode, Tencent!Error, Tencent!Refuse, FromTables, NoCode
<1> QED BY <1>1, <1>2, <1>3, <1>4, <1>5

\* The service the Tencent driver talks to is the one of ObjectService.
LEMMA TencentService ==
  /\ \A s, at, o, f, m, n : Tencent!SvcPut(s, at, o, f, m, n) = SvcPut(s, at, o, f, m, n)
  /\ \A s, at, f, l, m : Tencent!SvcGet(s, at, f, l, m) = SvcGet(s, at, f, l, m)
  /\ \A s, at, strict : Tencent!SvcDelete(s, at, strict) = SvcDelete(s, at, strict)
  /\ \A s, b, k, q : Tencent!SvcDeleteBatch(s, b, k, q) = SvcDeleteBatch(s, b, k, q)
  /\ \A s, x, y, i, m, j, t, e, n :
       Tencent!SvcCopy(s, x, y, i, m, j, t, e, n) = SvcCopy(s, x, y, i, m, j, t, e, n)
BY DEF SvcPut, SvcGet, SvcCopy, SvcDelete, SvcDeleteBatch, Attempt, InBucket,
       No, Done, Reply, StoreObject, With, Without, Restrict, Range, Fails,
       Has, Etag, Lost, Nothing, ObjectOf, Slice, Tencent!SvcPut,
       Tencent!SvcGet, Tencent!SvcCopy, Tencent!SvcDelete,
       Tencent!SvcDeleteBatch, Tencent!Attempt, Tencent!InBucket, Tencent!No,
       Tencent!Done, Tencent!Reply, Tencent!StoreObject, Tencent!With,
       Tencent!Without, Tencent!Restrict, Tencent!Range, Tencent!Fails,
       Tencent!Has, Tencent!Etag, Tencent!Lost, Tencent!Nothing,
       Tencent!ObjectOf, Tencent!Slice

\* The Tencent driver hands on the service's answer, success for success and
\* error for error.
LEMMA TencentAsk ==
  ASSUME NEW answers, NEW o \in Tencent!Ask(answers)
  PROVE  \E a \in answers : Gives(a, o)
<1>1. PICK a \in answers : o = IF a.sit = "ok" THEN Tencent!Ok(a.store, a.out)
                               ELSE Tencent!MapError(a.store, ServiceError(a.sit))
  BY TencentTables DEF Tencent!Ask, Tencent!Answer
<1>2. Gives(a, o)
  BY <1>1, TencentMapError, TablesSafe DEF Gives, Tells, Tencent!Ok, Refusals, Lost
<1> QED BY <1>2

\* A bucket client that cannot be built refuses the call.
LEMMA TencentBucketClient ==
  ASSUME NEW c, NEW s, NEW b, NEW outcomes, NEW o \in Tencent!BucketClient(c, s, b, outcomes)
  PROVE  (Declines(o, s) /\ o.code # "not_found") \/ o \in outcomes
<1>1. o = Tencent!Refuse(s, "invalid_argument") \/ o \in outcomes
  BY DEF Tencent!BucketClient, Tencent!BucketURL
<1>2. ASSUME o = Tencent!Refuse(s, "invalid_argument")
      PROVE  Declines(o, s) /\ o.code # "not_found"
  BY <1>2 DEF Tencent!Refuse, Tencent!Error, Declines
<1> QED BY <1>1, <1>2

\* Put of the Tencent driver sends the body, with the preconditions it forwards,
\* or declines.
LEMMA TencentPut ==
  ASSUME NEW c, NEW s, NEW r, NamesView(c, r),
         NEW o \in Tencent!PutObject(c, s, r)
  PROVE  Declines(o, s) \/ SendsPut(s, r, r.match, r.noneMatch = "*", o)
<1> DEFINE obj == ObjectOf(r.body.bytes, Tencent!MetadataToHeader(r.meta), r.ctype)
           answers == SvcPut(s, <<r.bucket, r.key>>, obj, r.body.fails, r.match, r.noneMatch = "*")
<1>1. CASE r.body.nil \/ r.size < 0
  <2>1. o \in {Tencent!Refuse(s, "invalid_argument"), Tencent!Refuse(s, "length_required")}
    BY <1>1 DEF Tencent!PutObject
  <2>2. Declines(o, s)
    BY <2>1 DEF Tencent!Refuse, Tencent!Error, Declines
  <2> QED BY <2>2
<1>2. CASE ~r.body.nil /\ ~(r.size < 0)
  <2>1. o = Tencent!Refuse(s, "invalid_argument") \/ o \in Tencent!Ask(answers)
    BY <1>2, TencentService DEF Tencent!PutObject, Tencent!At, Tencent!PickBucket, Tencent!ObjectOf, ObjectOf, NamesView,
       Tencent!BucketClient, Tencent!BucketURL, Tencent!BuildPreconditionHeader
  <2>2. Declines(o, s) \/ \E a \in answers : Gives(a, o)
    BY <2>1, TencentAsk DEF Tencent!Refuse, Tencent!Error, Declines
  <2> QED BY <2>2 DEF Gives, SendsPut
<1> QED BY <1>1, <1>2

\* A Get of the Tencent driver that succeeds gives the bytes the range asks for.
LEMMA TencentGet ==
  ASSUME NEW c, NEW s, NEW r, NamesView(c, r), AsksRange(r),
         NEW o \in Tencent!GetObject(c, s, r)
  PROVE  ReadsRange(s, r, o)
<1> DEFINE answers == SvcGet(s, <<r.bucket, r.key>>, r.first, r.last, r.match)
<1>1. o = Tencent!Refuse(s, "invalid_argument") \/ o \in Tencent!Ask(answers)
  <2>1. Tencent!SvcGet(s, Tencent!At(c, r), Tencent!FormatRange(r.first, r.last).first,
                   Tencent!FormatRange(r.first, r.last).last, r.match) = answers
    BY TencentService DEF Tencent!At, Tencent!PickBucket, Tencent!FormatRange, NamesView, AsksRange
  <2> HIDE DEF answers
  <2>2. Tencent!GetObject(c, s, r) =
          Tencent!BucketClient(c, s, Tencent!PickBucket(c, r), Tencent!Ask(answers))
    BY <2>1 DEF Tencent!GetObject, Tencent!BuildPreconditionHeader
  <2> QED BY <2>2 DEF Tencent!BucketClient, Tencent!BucketURL
<1>2. CASE o = Tencent!Refuse(s, "invalid_argument")
  BY <1>2 DEF Tencent!Refuse, Tencent!Error, ReadsRange
<1>3. CASE o \in Tencent!Ask(answers)
  <2> HIDE DEF answers
  <2>1. PICK a \in answers : Gives(a, o)
    BY <1>3, TencentAsk
  <2> QED BY <2>1, GetReads DEF answers
<1> QED BY <1>1, <1>2, <1>3

\* Delete of the Tencent driver only removes, and a refusal removes nothing.
LEMMA TencentDelete ==
  ASSUME NEW c, NEW s, NEW r, NEW o \in Tencent!DeleteObject(c, s, r)
  PROVE  Shrinks(s, o.store) /\ Honest(s, o)
<1> DEFINE answers == SvcDelete(s, Tencent!At(c, r), FALSE)
<1>1. Tencent!SvcDelete(s, Tencent!At(c, r), FALSE) = answers
  BY TencentService
<1>2. Speaks(s, answers) /\ \A a \in answers : Shrinks(s, a.store)
  BY SvcDeleteSpeaks, SvcDeleteShrinks
<1> HIDE DEF answers
<1>3. Declines(o, s) \/ o \in Tencent!Ask(answers)
  BY <1>1, TencentBucketClient DEF Tencent!DeleteObject
<1>4. Declines(o, s) \/ \E a \in answers : Gives(a, o)
  BY <1>3, TencentAsk
<1> QED BY <1>2, <1>4, DeclinesHonest, TellsHonest DEF Gives, Tells

\* Copy of the Tencent driver: a refusal copies nothing, and a success
\* leaves the bytes and headers of the source that matched.
LEMMA TencentCopy ==
  ASSUME NEW c, NEW s, NEW r, NEW o \in Tencent!CopyObject(c, s, r)
  PROVE  /\ SameFields(s, o.store) /\ Honest(s, o)
         /\ Adds(s, <<r.bucket, r.key>>, o.store)
         /\ CopiesFrom(r) /\ NamesView(c, r) /\ "objs" \in DOMAIN s =>
              CopiesSource(s, r, o) /\ CopiesMatching(s, r, o)
<1> DEFINE src == <<IF r.srcBucket = "" THEN r.bucket ELSE r.srcBucket, r.srcKey>>
           dst == <<r.bucket, r.key>>
           meta == Tencent!MetadataToHeader(r.meta)
           replace == r.directive = "REPLACE" \/ (r.directive # "COPY" /\ r.meta # "nil")
           tags == Tencent!SourceTags(r.match, r.noneMatch)
           answers == SvcCopy(s, src, dst, replace, meta, replace, r.ctype, tags, FALSE)
<1>1. answers = Tencent!SvcCopy(s, src, dst, replace, meta, replace, r.ctype, tags, FALSE)
  <2> HIDE DEF src, dst, meta, replace, tags
  <2> QED BY TencentService
<1>2. Speaks(s, answers)
  <2> HIDE DEF src, dst, meta, replace, tags
  <2> QED BY SvcCopySpeaks
<1>a. AnswersAdd(s, dst, answers)
  <2> HIDE DEF src, dst, meta, replace, tags
  <2> QED BY SvcCopyAdds
<1>3. ASSUME CopiesFrom(r), NamesView(c, r), "objs" \in DOMAIN s,
             NEW a \in answers, Tells(a, o)
      PROVE  CopiesSource(s, r, o) /\ CopiesMatching(s, r, o)
  <2>1. src = <<r.bucket, r.srcKey>> /\ meta = r.meta
    BY <1>3 DEF CopiesFrom, NamesView, Tencent!MetadataToHeader, Tencent!LowerMetadataKeys
  <2> DEFINE no == FALSE
  <2>2. /\ replace \in BOOLEAN /\ (replace <=> r.meta # "nil")
        /\ no \in BOOLEAN /\ tags = r.match
    BY <1>3, <2>1 DEF CopiesFrom, Tencent!SourceTags
  <2>3. a \in SvcCopy(s, <<r.bucket, r.srcKey>>, <<r.bucket, r.key>>, replace,
                      r.meta, replace, r.ctype, r.match, no)
    <3> HIDE DEF src, meta, replace, tags
    <3> QED BY <1>3, <2>1, <2>2
  <2> HIDE DEF no, replace, answers
  <2> QED BY <1>3, <2>2, <2>3, CopyIsOfSource
<1> HIDE DEF answers
<1>4. Declines(o, s) \/ o \in Tencent!Ask(answers)
  BY <1>1, TencentBucketClient DEF Tencent!CopyObject
<1>5. Declines(o, s) \/ \E a \in answers : Gives(a, o)
  BY <1>4, TencentAsk
<1> QED BY <1>2, <1>a, <1>3, <1>5, DeclinesHonest, TellsHonest, DeclinesAdds, TellsAdds
      DEF Gives, Declines, CopiesSource, CopiesMatching

\* DeleteMany's loop takes one turn after the other.
LEMMA TencentLoop ==
  ASSUME NEW c, NEW r, NEW base, NEW n \in 1..2
  PROVE  Tencent!Loop(LAMBDA acc, i : Tencent!DeleteBatch(c, r, acc, i), base, n) =
           IF n = 1 THEN Tencent!DeleteBatch(c, r, base, 1)
           ELSE Tencent!DeleteBatch(c, r, Tencent!DeleteBatch(c, r, base, 1), 2)
<1> DEFINE one == Tencent!DeleteBatch(c, r, base, 1)
           two == Tencent!DeleteBatch(c, r, one, 2)
           Unfolds(f) == f = [i \in 0..n |-> IF i = 0 THEN base
                                             ELSE Tencent!DeleteBatch(c, r, f[i - 1], i)]
           f == [i \in 0..n |-> IF i = 0 THEN base ELSE IF i = 1 THEN one ELSE two]
           after == CHOOSE g : Unfolds(g)
<1>1. Unfolds(f)
  <2>1. ASSUME NEW i \in 0..n
        PROVE  f[i] = IF i = 0 THEN base ELSE Tencent!DeleteBatch(c, r, f[i - 1], i)
    <3> HIDE DEF one, two
    <3>1. i = 0 \/ (i = 1 /\ f[i - 1] = base) \/ (i = 2 /\ f[i - 1] = one)
      OBVIOUS
    <3> QED BY <3>1 DEF one, two
  <2> QED BY <2>1
<1>2. Unfolds(after)
  BY <1>1
<1>3. Tencent!Loop(LAMBDA acc, i : Tencent!DeleteBatch(c, r, acc, i), base, n) = after[n]
  BY DEF Tencent!Loop
<1> HIDE DEF after
<1>4. after[0] = base /\ after[1] = one
  BY <1>2
<1>5. after[n] = IF n = 1 THEN one ELSE two
  BY <1>2, <1>4
<1> QED BY <1>3, <1>5, Zenon

\* Every outcome of the Tencent driver is well formed.
LEMMA TencentAskForm ==
  ASSUME NEW answers, NEW o \in Tencent!Ask(answers)
  PROVE  WellFormed(o)
<1>1. \A t, code, retry, cap : WellFormed(Tencent!Error(t, code, retry, cap))
  BY DEF Tencent!Error, Tencent!Nothing, WellFormed, Deleted
<1>2. \A t, out : WellFormed(Tencent!Ok(t, out))
  BY DEF Tencent!Ok, WellFormed
<1>3. \A t, e : WellFormed(Tencent!MapError(t, e))
  BY <1>1, Zenon DEF Tencent!MapError, Tencent!Refuse
<1> QED BY <1>1, <1>2, <1>3 DEF Tencent!Ask, Tencent!Answer

\* The chunks of a short list are the list, or one key and the other.
LEMMA TencentBatches ==
  ASSUME NEW keys, ShortList(keys)
  PROVE  LET n == (Len(keys) + DeleteBatchLimit - 1) \div DeleteBatchLimit
             chunk(i) == Range(Tencent!Batch(keys, i))
         IN \/ n = 1 /\ chunk(1) = Range(keys)
            \/ n = 2 /\ chunk(1) \cup chunk(2) = Range(keys) /\ chunk(1) \cap chunk(2) = {}
<1> DEFINE n == (Len(keys) + DeleteBatchLimit - 1) \div DeleteBatchLimit
<1>1. DeleteBatchLimit \in Nat \ {0}
  BY ServiceAssumption
<1>2. \A i, j \in Int : i <= j => Tencent!Min({i, j}) = i /\ Tencent!Min({j, i}) = i
  BY DEF Tencent!Min
<1>3. PICK x, y : x # y /\ (keys = <<x>> \/ keys = <<x, y>>)
  BY DEF ShortList
<1>4. Range(<<x>>) = {x} /\ Range(<<y>>) = {y} /\ Range(<<x, y>>) = {x, y}
  BY RangeShort
<1>5. CASE keys = <<x>>
  <2>1. n = 1
    BY <1>1, <1>5
  <2>2. Tencent!Batch(keys, 1) = SubSeq(<<x>>, 1, 1)
    BY <1>1, <1>2, <1>5 DEF Tencent!Batch
  <2> QED BY <1>5, <2>1, <2>2
<1>6. CASE keys = <<x, y>> /\ DeleteBatchLimit = 1
  <2>1. n = 2
    BY <1>6
  <2>2. Tencent!Batch(keys, 1) = SubSeq(<<x, y>>, 1, 1) /\ Tencent!Batch(keys, 2) = SubSeq(<<x, y>>, 2, 2)
    BY <1>2, <1>6 DEF Tencent!Batch
  <2> QED BY <1>3, <1>4, <1>6, <2>1, <2>2
<1>7. CASE keys = <<x, y>> /\ DeleteBatchLimit # 1
  <2>1. n = 1
    BY <1>1, <1>7
  <2>2. Tencent!Batch(keys, 1) = SubSeq(<<x, y>>, 1, 2)
    BY <1>1, <1>2, <1>7 DEF Tencent!Batch
  <2> QED BY <1>7, <2>1, <2>2
<1> QED BY <1>3, <1>5, <1>6, <1>7

\* One chunk of DeleteMany, after those of the keys K.
LEMMA TencentDeleteBatch ==
  ASSUME NEW c, NEW r, NamesView(c, r), NEW s, "objs" \in DOMAIN s, NEW acc, NEW i, NEW K,
         K \cap Range(Tencent!Batch(r.keys, i)) = {},
         \A a \in acc : Batched(s, r.bucket, K, r.quiet, a),
         NEW o \in Tencent!DeleteBatch(c, r, acc, i)
  PROVE  Batched(s, r.bucket, K \cup Range(Tencent!Batch(r.keys, i)), r.quiet, o)
<1> DEFINE L == Range(Tencent!Batch(r.keys, i))  quiet == r.quiet  b == r.bucket
           answers(t) == SvcDeleteBatch(t, b, Tencent!Batch(r.keys, i), quiet)
<1>1. \E p \in acc : \/ o = p /\ p.code # "ok"
                     \/ p.code = "ok" /\ \E q \in Tencent!Ask(answers(p.store)) :
                          o = Tencent!Merge(p, q)
  BY TencentService, Zenon DEF Tencent!DeleteBatch, Tencent!PickBucket, NamesView
<1>2. PICK p \in acc : \/ o = p /\ p.code # "ok"
                       \/ p.code = "ok" /\ \E q \in Tencent!Ask(answers(p.store)) :
                            o = Tencent!Merge(p, q)
  BY <1>1
<1>3. CASE o = p /\ p.code # "ok"
  <2>1. Batched(s, b, K, quiet, o) /\ o.code # "ok"
    BY <1>3
  <2> HIDE DEF L, quiet, b
  <2>2. Batched(s, b, K \cup L, quiet, o)
    BY <2>1, BatchStops
  <2> QED BY <2>2 DEF L, quiet, b
<1>4. ASSUME p.code = "ok", NEW q \in Tencent!Ask(answers(p.store)), o = Tencent!Merge(p, q)
      PROVE  Batched(s, b, K \cup L, quiet, o)
  <2>1. Batched(s, b, K, quiet, p) /\ "objs" \in DOMAIN p.store
    BY DEF Batched, Shrinks, SameFields
  <2>2. WellFormed(q)
    BY <1>4, TencentAskForm
  <2>3. PICK a \in answers(p.store) : Gives(a, q)
    BY <1>4, TencentAsk
  <2>4. Batched(p.store, b, L, quiet, q) /\ (q.code \in RefusalCodes => q.store = p.store)
    BY <2>1, <2>2, <2>3, BatchTells
  <2>5. Merges(p, q, o)
    BY <1>4, <2>2 DEF Merges, Tencent!Merge, Tencent!Ok, WellFormed
  <2> HIDE DEF L, quiet, b
  <2> QED BY <1>4, <2>1, <2>4, <2>5, BatchNext DEF L, quiet
<1> QED BY <1>2, <1>3, <1>4

\* DeleteMany of the Tencent driver removes its keys and accounts for them.
LEMMA TencentDeleteMany ==
  ASSUME NEW c, NEW s, "objs" \in DOMAIN s, NEW r, NamesView(c, r), ShortList(r.keys),
         NEW o \in Tencent!DeleteMany(c, s, r)
  PROVE  Shrinks(s, o.store) /\ Accounts(s, r.bucket, Range(r.keys), r.quiet, o)
<1> DEFINE none == Tencent!Ok(s, [deleted |-> {}, failed |-> {}])
           n == (Len(r.keys) + DeleteBatchLimit - 1) \div DeleteBatchLimit
           L(i) == Range(Tencent!Batch(r.keys, i))
           one == Tencent!DeleteBatch(c, r, {none}, 1)
           two == Tencent!DeleteBatch(c, r, one, 2)
           end == Tencent!Loop(LAMBDA acc, i : Tencent!DeleteBatch(c, r, acc, i), {none}, n)
           Upto(K, acc) == \A a \in acc : Batched(s, r.bucket, K, r.quiet, a)
<1>1. \/ n = 1 /\ L(1) = Range(r.keys)
      \/ n = 2 /\ L(1) \cup L(2) = Range(r.keys) /\ L(1) \cap L(2) = {}
  BY TencentBatches
<1>2. Upto({}, {none})
  BY BatchStart DEF Tencent!Ok
<1>3. (Declines(o, s) /\ WellFormed(o)) \/ o \in end
  <2>1. o \in Tencent!BucketClient(c, s, Tencent!PickBucket(c, r), end)
    BY ShortNotEmpty, Zenon DEF Tencent!DeleteMany
  <2> HIDE DEF end
  <2>2. o = Tencent!Refuse(s, "invalid_argument") \/ o \in end
    BY <2>1 DEF Tencent!BucketClient, Tencent!BucketURL
  <2> QED BY <2>2 DEF Tencent!Refuse, Tencent!Error, Tencent!Nothing, Declines, WellFormed, Deleted
<1> HIDE DEF n, none
<1>4. Upto(L(1), one)
  <2>1. Upto({} \cup L(1), one)
    BY <1>2, TencentDeleteBatch
  <2>2. {} \cup L(1) = L(1)
    OBVIOUS
  <2> QED BY <2>1, <2>2, Zenon
<1>5. ASSUME n = 2 PROVE Upto(L(1) \cup L(2), two)
  <2>1. L(1) \cap L(2) = {}
    BY <1>1, <1>5
  <2> HIDE DEF one
  <2> QED BY <1>4, <2>1, TencentDeleteBatch, Zenon
<1>6. n \in 1..2 /\ (n = 1 \/ n = 2)
  BY <1>1
<1>7. end = IF n = 1 THEN one ELSE two
  BY <1>6, TencentLoop, Zenon
<1> HIDE DEF end, one, two, L
<1>8. Upto(Range(r.keys), end)
  BY <1>1, <1>4, <1>5, <1>7
<1> QED BY <1>3, <1>8, BatchedAccounts, DeclinesAccounts

-----------------------------------------------------------------------------
(* Huawei *)

\* The error tables of the Huawei driver are those the S3 drivers share.
LEMMA HuaweiTables ==
  /\ \A x : Huawei!MapCodeString(x) = MapCodeString(x)
  /\ \A x : Huawei!MapHTTPStatus(x) = MapHTTPStatus(x)
  /\ \A x : Huawei!MapContextErr(x) = MapContextErr(x)
  /\ \A x : Huawei!ServiceError(x) = ServiceError(x)
  /\ Huawei!NoCode = NoCode
BY DEF MapCodeString, MapHTTPStatus, MapContextErr, ServiceError, NoCode,
       Huawei!MapCodeString, Huawei!MapHTTPStatus, Huawei!MapContextErr,
       Huawei!ServiceError, Huawei!NoCode

\* MapError of the Huawei driver leaves the store alone, and its code comes
\* from the tables.
LEMMA HuaweiMapError ==
  ASSUME NEW s, NEW e
  PROVE  Huawei!MapError(s, e).store = s /\ FromTables(Huawei!MapError(s, e).code, e)
<1>1. CASE e.status # 0 /\ MapCodeString(e.code) # NoCode
  BY <1>1, HuaweiTables DEF Huawei!MapError, Huawei!MapServiceCode, Huawei!Error, Huawei!Refuse, FromTables, NoCode
<1>2. CASE e.status # 0 /\ MapCodeString(e.code) = NoCode /\ MapHTTPStatus(e.status) # NoCode
  BY <1>2, HuaweiTables DEF Huawei!MapError, Huawei!MapServiceCode, Huawei!Error, Huawei!Refuse, FromTables, NoCode
<1>3. CASE e.status # 0 /\ MapCodeString(e.code) = NoCode /\ MapHTTPStatus(e.status) = NoCode
  BY <1>3, HuaweiTables DEF Huawei!MapError, Huawei!MapServiceCode, Huawei!Error, Huawei!Refuse, FromTables, NoCode
<1>4. CASE e.status = 0 /\ MapContextErr(e.ctx) # NoCode
  BY <1>4, HuaweiTables DEF Huawei!MapError, Huawei!MapServiceCode, Huawei!Error, Huawei!Refuse, FromTables, NoCode
<1>5. CASE e.status = 0 /\ MapContextErr(e.ctx) = NoCode
  BY <1>5, HuaweiTables DEF Huawei!MapError, Huawei!MapServiceCode, Huawei!Error, Huawei!Refuse, FromTables, NoCode
<1> QED BY <1>1, <1>2, <1>3, <1>4, <1>5

\* The service the Huawei driver talks to is the one of ObjectService.
LEMMA HuaweiService ==
  /\ \A s, at, o, f, m, n : Huawei!SvcPut(s, at, o, f, m, n) = SvcPut(s, at, o, f, m, n)
  /\ \A s, at, f, l, m : Huawei!SvcGet(s, at, f, l, m) = SvcGet(s, at, f, l, m)
  /\ \A s, at, strict : Huawei!SvcDelete(s, at, strict) = SvcDelete(s, at, strict)
  /\ \A s, b, k, q : Huawei!SvcDeleteBatch(s, b, k, q) = SvcDeleteBatch(s, b, k, q)
  /\ \A s, x, y, i, m, j, t, e, n :
       Huawei!SvcCopy(s, x, y, i, m, j, t, e, n) = SvcCopy(s, x, y, i, m, j, t, e, n)
BY DEF SvcPut, SvcGet, SvcCopy, SvcDelete, SvcDeleteBatch, Attempt, InBucket,
       No, Done, Reply, StoreObject, With, Without, Restrict, Range, Fails,
       Has, Etag, Lost, Nothing, ObjectOf, Slice, Huawei!SvcPut,
       Huawei!SvcGet, Huawei!SvcCopy, Huawei!SvcDelete,
       Huawei!SvcDeleteBatch, Huawei!Attempt, Huawei!InBucket, Huawei!No,
       Huawei!Done, Huawei!Reply, Huawei!StoreObject, Huawei!With,
       Huawei!Without, Huawei!Restrict, Huawei!Range, Huawei!Fails,
       Huawei!Has, Huawei!Etag, Huawei!Lost, Huawei!Nothing, Huawei!ObjectOf,
       Huawei!Slice

\* The Huawei driver hands on the service's answer, success for success and
\* error for error.
LEMMA HuaweiAsk ==
  ASSUME NEW c, NEW s, NEW answers, NEW o \in Huawei!Ask(c, s, answers)
  PROVE  \/ Declines(o, s) /\ o.code \notin BlameCodes
         \/ \E a \in answers : Gives(a, o)
<1>1. CASE ~c.live
  <2>1. o = Huawei!Panic(s)
    BY <1>1 DEF Huawei!Ask, Huawei!WithClient
  <2> QED BY <2>1 DEF Huawei!Panic, Huawei!Error, Declines, BlameCodes
<1>2. CASE c.live
  <2>1. PICK a \in answers : o = Huawei!Answer(a)
    BY <1>2 DEF Huawei!Ask, Huawei!WithClient
  <2>2. Gives(a, o)
    BY <2>1, HuaweiTables, HuaweiMapError, TablesSafe
       DEF Gives, Tells, Huawei!Ok, Refusals, Lost, Huawei!Answer
  <2> QED BY <2>2
<1> QED BY <1>1, <1>2

\* Put of the Huawei driver sends the body, with the preconditions it forwards,
\* or declines.
LEMMA HuaweiPut ==
  ASSUME NEW c, NEW s, NEW r, NamesView(c, r),
         NEW o \in Huawei!PutObject(c, s, r)
  PROVE  Declines(o, s) \/ SendsPut(s, r, {}, FALSE, o)
<1> DEFINE obj == ObjectOf(r.body.bytes, Huawei!LowerMetadataKeys(r.meta), r.ctype)
           answers == SvcPut(s, <<r.bucket, r.key>>, obj, r.body.fails, {}, FALSE)
<1>1. CASE r.body.nil \/ r.size < 0
  <2>1. o \in {Huawei!Refuse(s, "invalid_argument"), Huawei!Refuse(s, "length_required")}
    BY <1>1 DEF Huawei!PutObject
  <2>2. Declines(o, s)
    BY <2>1 DEF Huawei!Refuse, Huawei!Error, Declines
  <2> QED BY <2>2
<1>2. CASE ~r.body.nil /\ ~(r.size < 0)
  <2>1. Huawei!PutObject(c, s, r) = Huawei!Ask(c, s, answers)
    BY <1>2, HuaweiService DEF Huawei!PutObject, Huawei!At, Huawei!PickBucket, Huawei!ObjectOf, ObjectOf, NamesView
  <2>2. Declines(o, s) \/ \E a \in answers : Gives(a, o)
    BY <2>1, HuaweiAsk
  <2> QED BY <2>2 DEF Gives, SendsPut
<1> QED BY <1>1, <1>2

\* A Get of the Huawei driver that succeeds gives the bytes the range asks for,
\* but for the range of byte 0 alone.
LEMMA HuaweiGet ==
  ASSUME NEW c, NEW s, NEW r, NamesView(c, r), AsksRange(r),
         r.first # 0 \/ r.last # 0,
         NEW o \in Huawei!GetObject(c, s, r)
  PROVE  ReadsRange(s, r, o)
<1> DEFINE answers == SvcGet(s, <<r.bucket, r.key>>, r.first, r.last, r.match)
<1>1. o \in Huawei!Ask(c, s, answers)
  BY HuaweiService DEF Huawei!GetObject, Huawei!At, Huawei!PickBucket, AsksRange, NamesView
<1> HIDE DEF answers
<1>2. Declines(o, s) \/ \E a \in answers : Gives(a, o)
  BY <1>1, HuaweiAsk
<1>3. CASE Declines(o, s)
  BY <1>3 DEF Declines, ReadsRange
<1>4. CASE \E a \in answers : Gives(a, o)
  BY <1>4, GetReads DEF answers
<1> QED BY <1>2, <1>3, <1>4

\* Delete of the Huawei driver only removes, and a refusal removes nothing.
LEMMA HuaweiDelete ==
  ASSUME NEW c, NEW s, NEW r, NEW o \in Huawei!DeleteObject(c, s, r)
  PROVE  Shrinks(s, o.store) /\ Honest(s, o)
<1> DEFINE answers == SvcDelete(s, Huawei!At(c, r), FALSE)
<1>1. Huawei!SvcDelete(s, Huawei!At(c, r), FALSE) = answers
  BY HuaweiService
<1>2. Speaks(s, answers) /\ \A a \in answers : Shrinks(s, a.store)
  BY SvcDeleteSpeaks, SvcDeleteShrinks
<1> HIDE DEF answers
<1>3. o \in Huawei!Ask(c, s, answers)
  BY <1>1 DEF Huawei!DeleteObject
<1>4. Declines(o, s) \/ \E a \in answers : Gives(a, o)
  BY <1>3, HuaweiAsk
<1> QED BY <1>2, <1>4, DeclinesHonest, TellsHonest DEF Gives, Tells

\* Copy of the Huawei driver: a refusal copies nothing, and a success
\* leaves the bytes and headers of the source that matched.
LEMMA HuaweiCopy ==
  ASSUME NEW c, NEW s, NEW r, NEW o \in Huawei!CopyObject(c, s, r)
  PROVE  /\ SameFields(s, o.store) /\ Honest(s, o)
         /\ Adds(s, <<r.bucket, r.key>>, o.store)
         /\ CopiesFrom(r) /\ NamesView(c, r) /\ "objs" \in DOMAIN s =>
              CopiesSource(s, r, o) /\ CopiesMatching(s, r, o)
<1> DEFINE src == <<IF r.srcBucket = "" THEN r.bucket ELSE r.srcBucket, r.srcKey>>
           dst == <<r.bucket, r.key>>
           meta == Huawei!LowerMetadataKeys(r.meta)
           replace == r.directive = "REPLACE" \/ (r.directive # "COPY" /\ r.meta # "nil")
           tags == Huawei!SourceTags(r.match, r.noneMatch)
           answers == SvcCopy(s, src, dst, replace, meta, replace, r.ctype, tags, FALSE)
<1>1. answers = Huawei!SvcCopy(s, src, dst, replace, meta, replace, r.ctype, tags, FALSE)
  <2> HIDE DEF src, dst, meta, replace, tags
  <2> QED BY HuaweiService
<1>2. Speaks(s, answers)
  <2> HIDE DEF src, dst, meta, replace, tags
  <2> QED BY SvcCopySpeaks
<1>a. AnswersAdd(s, dst, answers)
  <2> HIDE DEF src, dst, meta, replace, tags
  <2> QED BY SvcCopyAdds
<1>3. ASSUME CopiesFrom(r), NamesView(c, r), "objs" \in DOMAIN s,
             NEW a \in answers, Tells(a, o)
      PROVE  CopiesSource(s, r, o) /\ CopiesMatching(s, r, o)
  <2>1. src = <<r.bucket, r.srcKey>> /\ meta = r.meta
    BY <1>3 DEF CopiesFrom, NamesView, Huawei!LowerMetadataKeys
  <2> DEFINE no == FALSE
  <2>2. /\ replace \in BOOLEAN /\ (replace <=> r.meta # "nil")
        /\ no \in BOOLEAN /\ tags = r.match
    BY <1>3, <2>1 DEF CopiesFrom, Huawei!SourceTags
  <2>3. a \in SvcCopy(s, <<r.bucket, r.srcKey>>, <<r.bucket, r.key>>, replace,
                      r.meta, replace, r.ctype, r.match, no)
    <3> HIDE DEF src, meta, replace, tags
    <3> QED BY <1>3, <2>1, <2>2
  <2> HIDE DEF no, replace, answers
  <2> QED BY <1>3, <2>2, <2>3, CopyIsOfSource
<1> HIDE DEF answers
<1>4. CASE r.bucket = ""
  <2>1. o \in {Huawei!Refuse(s, "internal"), Huawei!Panic(s)}
    BY <1>4 DEF Huawei!CopyObject, Huawei!WithClient
  <2> QED BY <2>1, DeclinesHonest, DeclinesAdds DEF Huawei!Refuse, Huawei!Panic, Huawei!Error,
        Declines, CopiesSource, CopiesMatching
<1>5. CASE r.bucket # ""
  <2>1. o \in Huawei!Ask(c, s, answers)
    BY <1>1, <1>5 DEF Huawei!CopyObject
  <2>2. Declines(o, s) \/ \E a \in answers : Gives(a, o)
    BY <2>1, HuaweiAsk
  <2> QED BY <1>2, <1>a, <1>3, <2>2, DeclinesHonest, TellsHonest, DeclinesAdds, TellsAdds
        DEF Gives, Declines, CopiesSource, CopiesMatching
<1> QED BY <1>4, <1>5

\* Every outcome of the Huawei driver is well formed.
LEMMA HuaweiAskForm ==
  ASSUME NEW c, NEW s, NEW answers, NEW o \in Huawei!Ask(c, s, answers)
  PROVE  WellFormed(o)
<1>1. \A t, code, retry, cap : WellFormed(Huawei!Error(t, code, retry, cap))
  BY DEF Huawei!Error, Huawei!Nothing, WellFormed, Deleted
<1>2. \A t, out : WellFormed(Huawei!Ok(t, out))
  BY DEF Huawei!Ok, WellFormed
<1>3. \A t, e : WellFormed(Huawei!MapError(t, e))
  BY <1>1, Zenon DEF Huawei!MapError, Huawei!Refuse
<1> QED BY <1>1, <1>2, <1>3 DEF Huawei!Ask, Huawei!WithClient, Huawei!Panic, Huawei!Answer

\* DeleteMany of the Huawei driver removes its keys and accounts for them.
LEMMA HuaweiDeleteMany ==
  ASSUME NEW c, NEW s, "objs" \in DOMAIN s, NEW r, NamesView(c, r),
         NEW o \in Huawei!DeleteMany(c, s, r)
  PROVE  Shrinks(s, o.store) /\ Accounts(s, r.bucket, Range(r.keys), r.quiet, o)
<1> DEFINE quiet == r.quiet  K == Range(r.keys)
           answers == SvcDeleteBatch(s, r.bucket, r.keys, quiet)
<1>1. answers = Huawei!SvcDeleteBatch(s, Huawei!PickBucket(c, r), r.keys, quiet)
  BY HuaweiService, Zenon DEF Huawei!PickBucket, NamesView
<1>2. CASE r.keys = <<>>
  <2>1. o = Huawei!Ok(s, [deleted |-> {}, failed |-> {}])
    BY <1>2 DEF Huawei!DeleteMany
  <2>2. o.store = s /\ o.code = "ok" /\ o.out = [deleted |-> {}, failed |-> {}]
    BY <2>1 DEF Huawei!Ok
  <2>3. Range(r.keys) = {}
    BY <1>2 DEF Range
  <2> QED BY <2>2, <2>3, BatchStart, BatchedAccounts
<1>3. ASSUME NEW p \in Huawei!Ask(c, s, answers)
      PROVE  Batched(s, r.bucket, K, quiet, p)
  <2> HIDE DEF quiet
  <2>1. WellFormed(p)
    BY <1>3, HuaweiAskForm
  <2>2. Declines(p, s) \/ \E a \in answers : Gives(a, p)
    BY <1>3, HuaweiAsk
  <2> QED BY <2>1, <2>2, BatchTells, DeclinesAccounts
<1>4. CASE r.keys # <<>>
  <2>1. o \in Huawei!Ask(c, s, answers)
    BY <1>1, <1>4 DEF Huawei!DeleteMany
  <2> QED BY <1>3, <2>1, BatchedAccounts
<1> QED BY <1>2, <1>4

-----------------------------------------------------------------------------
(* Volcengine *)

\* The error tables of the Volcengine driver are those the S3 drivers share.
LEMMA VolcengineTables ==
  /\ \A x : Volcengine!MapCodeString(x) = MapCodeString(x)
  /\ \A x : Volcengine!MapHTTPStatus(x) = MapHTTPStatus(x)
  /\ \A x : Volcengine!MapContextErr(x) = MapContextErr(x)
  /\ \A x : Volcengine!ServiceError(x) = ServiceError(x)
  /\ Volcengine!NoCode = NoCode
BY DEF MapCodeString, MapHTTPStatus, MapContextErr, ServiceError, NoCode,
       Volcengine!MapCodeString, Volcengine!MapHTTPStatus,
       Volcengine!MapContextErr, Volcengine!ServiceError, Volcengine!NoCode

\* MapError of the Volcengine driver leaves the store alone, and its code comes
\* from the tables.
LEMMA VolcengineMapError ==
  ASSUME NEW s, NEW e
  PROVE  Volcengine!MapError(s, e).store = s /\ FromTables(Volcengine!MapError(s, e).code, e)
<1>1. CASE e.status # 0 /\ e.code # "" /\ MapCodeString(e.code) # NoCode
  BY <1>1, VolcengineTables DEF Volcengine!MapError, Volcengine!MapServiceCode, Volcengine!Error, Volcengine!Refuse, FromTables, NoCode
<1>2. CASE e.status # 0 /\ e.code # "" /\ MapCodeString(e.code) = NoCode /\ MapHTTPStatus(e.status) # NoCode
  BY <1>2, VolcengineTables DEF Volcengine!MapError, Volcengine!MapServiceCode, Volcengine!Error, Volcengine!Refuse, FromTables, NoCode
<1>3. CASE e.status # 0 /\ e.code # "" /\ MapCodeString(e.code) = NoCode /\ MapHTTPStatus(e.status) = NoCode
  BY <1>3, VolcengineTables DEF Volcengine!MapError, Volcengine!MapServiceCode, Volcengine!Error, Volcengine!Refuse, FromTables, NoCode
<1>4. CASE e.status # 0 /\ e.code = ""
  <2>1. MapCodeString(e.code) = NoCode
    BY <1>4 DEF MapCodeString
  <2> QED
    BY <1>4, <2>1, VolcengineTables DEF Volcengine!MapError, Volcengine!MapServiceCode, Volcengine!Error, Volcengine!Refuse, FromTables, NoCode
<1>5. CASE e.status = 0 /\ MapContextErr(e.ctx) # NoCode
  BY <1>5, VolcengineTables DEF Volcengine!MapError, Volcengine!MapServiceCode, Volcengine!Error, Volcengine!Refuse, FromTables, NoCode
<1>6. CASE e.status = 0 /\ MapContextErr(e.ctx) = NoCode
  BY <1>6, VolcengineTables DEF Volcengine!MapError, Volcengine!MapServiceCode, Volcengine!Error, Volcengine!Refuse, FromTables, NoCode
<1> QED BY <1>1, <1>2, <1>3, <1>4, <1>5, <1>6

\* The service the Volcengine driver talks to is the one of ObjectService.
LEMMA VolcengineService ==
  /\ \A s, at, o, f, m, n : Volcengine!SvcPut(s, at, o, f, m, n) = SvcPut(s, at, o, f, m, n)
  /\ \A s, at, f, l, m : Volcengine!SvcGet(s, at, f, l, m) = SvcGet(s, at, f, l, m)
  /\ \A s, at, strict : Volcengine!SvcDelete(s, at, strict) = SvcDelete(s, at, strict)
  /\ \A s, b, k, q : Volcengine!SvcDeleteBatch(s, b, k, q) = SvcDeleteBatch(s, b, k, q)
  /\ \A s, x, y, i, m, j, t, e, n :
       Volcengine!SvcCopy(s, x, y, i, m, j, t, e, n) = SvcCopy(s, x, y, i, m, j, t, e, n)
BY DEF SvcPut, SvcGet, SvcCopy, SvcDelete, SvcDeleteBatch, Attempt, InBucket,
       No, Done, Reply, StoreObject, With, Without, Restrict, Range, Fails,
       Has, Etag, Lost, Nothing, ObjectOf, Slice, Volcengine!SvcPut,
       Volcengine!SvcGet, Volcengine!SvcCopy, Volcengine!SvcDelete,
       Volcengine!SvcDeleteBatch, Volcengine!Attempt, Volcengine!InBucket,
       Volcengine!No, Volcengine!Done, Volcengine!Reply,
       Volcengine!StoreObject, Volcengine!With, Volcengine!Without,
       Volcengine!Restrict, Volcengine!Range, Volcengine!Fails,
       Volcengine!Has, Volcengine!Etag, Volcengine!Lost, Volcengine!Nothing,
       Volcengine!ObjectOf, Volcengine!Slice

\* The Volcengine driver hands on the service's answer, success for success and
\* error for error.
LEMMA VolcengineAsk ==
  ASSUME NEW answers, NEW o \in Volcengine!Ask(answers)
  PROVE  \E a \in answers : Gives(a, o)
<1>1. PICK a \in answers : o = IF a.sit = "ok" THEN Volcengine!Ok(a.store, a.out)
                               ELSE Volcengine!MapError(a.store, ServiceError(a.sit))
  BY VolcengineTables DEF Volcengine!Ask, Volcengine!Answer
<1>2. Gives(a, o)
  BY <1>1, VolcengineMapError, TablesSafe DEF Gives, Tells, Volcengine!Ok, Refusals, Lost
<1> QED BY <1>2

\* Put of the Volcengine driver sends the body, with the preconditions it forwards,
\* or declines.
LEMMA VolcenginePut ==
  ASSUME NEW c, NEW s, NEW r, NamesView(c, r),
         NEW o \in Volcengine!PutObject(c, s, r)
  PROVE  Declines(o, s) \/ SendsPut(s, r, r.match, FALSE, o)
<1> DEFINE obj == ObjectOf(r.body.bytes, Volcengine!LowerMetadataKeys(r.meta), r.ctype)
           answers == SvcPut(s, <<r.bucket, r.key>>, obj, r.body.fails, r.match, FALSE)
<1>1. CASE r.body.nil \/ r.size < 0
  <2>1. o \in {Volcengine!Refuse(s, "invalid_argument"), Volcengine!Refuse(s, "length_required")}
    BY <1>1 DEF Volcengine!PutObject
  <2>2. Declines(o, s)
    BY <2>1 DEF Volcengine!Refuse, Volcengine!Error, Declines
  <2> QED BY <2>2
<1>2. CASE ~r.body.nil /\ ~(r.size < 0)
  <2>1. Volcengine!PutObject(c, s, r) = Volcengine!Ask(answers)
    BY <1>2, VolcengineService DEF Volcengine!PutObject, Volcengine!At, Volcengine!PickBucket, Volcengine!ObjectOf, ObjectOf, NamesView
  <2>2. Declines(o, s) \/ \E a \in answers : Gives(a, o)
    BY <2>1, VolcengineAsk
  <2> QED BY <2>2 DEF Gives, SendsPut
<1> QED BY <1>1, <1>2

\* A Get of the Volcengine driver that succeeds gives the bytes the range asks for.
LEMMA VolcengineGet ==
  ASSUME NEW c, NEW s, NEW r, NamesView(c, r), AsksRange(r),
         NEW o \in Volcengine!GetObject(c, s, r)
  PROVE  ReadsRange(s, r, o)
<1> DEFINE answers == SvcGet(s, <<r.bucket, r.key>>, r.first, r.last, r.match)
<1>1. o \in Volcengine!Ask(answers)
  BY VolcengineService DEF Volcengine!GetObject, Volcengine!FormatRangeHeader, Volcengine!At, Volcengine!PickBucket, AsksRange, NamesView
<1> HIDE DEF answers
<1>2. Declines(o, s) \/ \E a \in answers : Gives(a, o)
  BY <1>1, VolcengineAsk
<1>3. CASE Declines(o, s)
  BY <1>3 DEF Declines, ReadsRange
<1>4. CASE \E a \in answers : Gives(a, o)
  BY <1>4, GetReads DEF answers
<1> QED BY <1>2, <1>3, <1>4

\* Delete of the Volcengine driver only removes, and a refusal removes nothing.
LEMMA VolcengineDelete ==
  ASSUME NEW c, NEW s, NEW r, NEW o \in Volcengine!DeleteObject(c, s, r)
  PROVE  Shrinks(s, o.store) /\ Honest(s, o)
<1> DEFINE answers == SvcDelete(s, Volcengine!At(c, r), FALSE)
<1>1. Volcengine!SvcDelete(s, Volcengine!At(c, r), FALSE) = answers
  BY VolcengineService
<1>2. Speaks(s, answers) /\ \A a \in answers : Shrinks(s, a.store)
  BY SvcDeleteSpeaks, SvcDeleteShrinks
<1> HIDE DEF answers
<1>3. o \in Volcengine!Ask(answers)
  BY <1>1 DEF Volcengine!DeleteObject
<1>4. Declines(o, s) \/ \E a \in answers : Gives(a, o)
  BY <1>3, VolcengineAsk
<1> QED BY <1>2, <1>4, DeclinesHonest, TellsHonest DEF Gives, Tells

\* Copy of the Volcengine driver: a refusal copies nothing, and a success
\* leaves the bytes and headers of the source that matched.
LEMMA VolcengineCopy ==
  ASSUME NEW c, NEW s, NEW r, NEW o \in Volcengine!CopyObject(c, s, r)
  PROVE  /\ SameFields(s, o.store) /\ Honest(s, o)
         /\ Adds(s, <<r.bucket, r.key>>, o.store)
         /\ CopiesFrom(r) /\ NamesView(c, r) /\ "objs" \in DOMAIN s =>
              CopiesSource(s, r, o) /\ CopiesMatching(s, r, o)
<1> DEFINE src == <<IF r.srcBucket = "" THEN r.bucket ELSE r.srcBucket, r.srcKey>>
           dst == <<r.bucket, r.key>>
           meta == Volcengine!LowerMetadataKeys(r.meta)
           replace == r.directive = "REPLACE" \/ (r.directive # "COPY" /\ r.meta # "nil")
           tags == Volcengine!SourceTags(r.match, r.noneMatch)
           answers == SvcCopy(s, src, dst, replace, meta, replace, r.ctype, tags, FALSE)
<1>1. answers = Volcengine!SvcCopy(s, src, dst, replace, meta, replace, r.ctype, tags, FALSE)
  <2> HIDE DEF src, dst, meta, replace, tags
  <2> QED BY VolcengineService
<1>2. Speaks(s, answers)
  <2> HIDE DEF src, dst, meta, replace, tags
  <2> QED BY SvcCopySpeaks
<1>a. AnswersAdd(s, dst, answers)
  <2> HIDE DEF src, dst, meta, replace, tags
  <2> QED BY SvcCopyAdds
<1>3. ASSUME CopiesFrom(r), NamesView(c, r), "objs" \in DOMAIN s,
             NEW a \in answers, Tells(a, o)
      PROVE  CopiesSource(s, r, o) /\ CopiesMatching(s, r, o)
  <2>1. src = <<r.bucket, r.srcKey>> /\ meta = r.meta
    BY <1>3 DEF CopiesFrom, NamesView, Volcengine!LowerMetadataKeys
  <2> DEFINE no == FALSE
  <2>2. /\ replace \in BOOLEAN /\ (replace <=> r.meta # "nil")
        /\ no \in BOOLEAN /\ tags = r.match
    BY <1>3, <2>1 DEF CopiesFrom, Volcengine!SourceTags
  <2>3. a \in SvcCopy(s, <<r.bucket, r.srcKey>>, <<r.bucket, r.key>>, replace,
                      r.meta, replace, r.ctype, r.match, no)
    <3> HIDE DEF src, meta, replace, tags
    <3> QED BY <1>3, <2>1, <2>2
  <2> HIDE DEF no, replace, answers
  <2> QED BY <1>3, <2>2, <2>3, CopyIsOfSource
<1> HIDE DEF answers
<1>4. CASE r.bucket = ""
  <2>1. o = Volcengine!ClientError(s)
    BY <1>4 DEF Volcengine!CopyObject
  <2> QED BY <2>1, DeclinesHonest, DeclinesAdds DEF Volcengine!ClientError, Volcengine!Refuse, Volcengine!Error,
        Declines, CopiesSource, CopiesMatching
<1>5. CASE r.bucket # ""
  <2>1. o \in Volcengine!Ask(answers)
    BY <1>1, <1>5 DEF Volcengine!CopyObject
  <2>2. Declines(o, s) \/ \E a \in answers : Gives(a, o)
    BY <2>1, VolcengineAsk
  <2> QED BY <1>2, <1>a, <1>3, <2>2, DeclinesHonest, TellsHonest, DeclinesAdds, TellsAdds
        DEF Gives, Declines, CopiesSource, CopiesMatching
<1> QED BY <1>4, <1>5

\* Every outcome of the Volcengine driver is well formed.
LEMMA VolcengineAskForm ==
  ASSUME NEW answers, NEW o \in Volcengine!Ask(answers)
  PROVE  WellFormed(o)
<1>1. \A t, code, retry, cap : WellFormed(Volcengine!Error(t, code, retry, cap))
  BY DEF Volcengine!Error, Volcengine!Nothing, WellFormed, Deleted
<1>2. \A t, out : WellFormed(Volcengine!Ok(t, out))
  BY DEF Volcengine!Ok, WellFormed
<1>3. \A t, e : WellFormed(Volcengine!MapError(t, e))
  BY <1>1, Zenon DEF Volcengine!MapError, Volcengine!Refuse
<1> QED BY <1>1, <1>2, <1>3 DEF Volcengine!Ask, Volcengine!Answer

\* DeleteMany of the Volcengine driver removes its keys and accounts for them.
LEMMA VolcengineDeleteMany ==
  ASSUME NEW c, NEW s, "objs" \in DOMAIN s, NEW r, NamesView(c, r),
         NEW o \in Volcengine!DeleteMany(c, s, r)
  PROVE  Shrinks(s, o.store) /\ Accounts(s, r.bucket, Range(r.keys), r.quiet, o)
<1> DEFINE quiet == r.quiet  K == Range(r.keys)
           answers == SvcDeleteBatch(s, r.bucket, r.keys, quiet)
<1>1. answers = Volcengine!SvcDeleteBatch(s, Volcengine!PickBucket(c, r), r.keys, quiet)
  BY VolcengineService, Zenon DEF Volcengine!PickBucket, NamesView
<1>2. CASE r.keys = <<>>
  <2>1. o = Volcengine!Ok(s, [deleted |-> {}, failed |-> {}])
    BY <1>2 DEF Volcengine!DeleteMany
  <2>2. o.store = s /\ o.code = "ok" /\ o.out = [deleted |-> {}, failed |-> {}]
    BY <2>1 DEF Volcengine!Ok
  <2>3. Range(r.keys) = {}
    BY <1>2 DEF Range
  <2> QED BY <2>2, <2>3, BatchStart, BatchedAccounts
<1>3. ASSUME NEW p \in Volcengine!Ask(answers)
      PROVE  Batched(s, r.bucket, K, quiet, p)
  <2> HIDE DEF quiet
  <2>1. WellFormed(p)
    BY <1>3, VolcengineAskForm
  <2>2. Declines(p, s) \/ \E a \in answers : Gives(a, p)
    BY <1>3, VolcengineAsk
  <2> QED BY <2>1, <2>2, BatchTells, DeclinesAccounts
<1>4. CASE r.keys # <<>>
  <2>1. o \in Volcengine!Ask(answers)
    BY <1>1, <1>4 DEF Volcengine!DeleteMany
  <2> QED BY <1>3, <2>1, BatchedAccounts
<1> QED BY <1>2, <1>4

-----------------------------------------------------------------------------
(* Loops over keys *)

\* A store that lost objects has the same buckets.
LEMMA ShrinksKeepsBucket ==
  ASSUME NEW s, NEW t, Shrinks(s, t), NEW b, HasBucket(s, b)
  PROVE  HasBucket(t, b)
BY DEF Shrinks, SameFields, HasBucket

\* A strict delete removes the object, or finds none, or has met a fault.
LEMMA SvcDeleteFinds ==
  ASSUME NEW s, NEW b, NEW k, HasBucket(s, b),
         NEW a \in SvcDelete(s, <<b, k>>, TRUE)
  PROVE  ~Has(a.store, <<b, k>>) \/ a.sit \in Refusals \cup Lost
<1> DEFINE at == <<b, k>>
           t == [s EXCEPT !.objs = Without(@, at)]
           base == InBucket(s, at, IF ~Has(s, at) THEN No(s, "noSuchKey") ELSE Done(t, Nothing))
<1>1. a \in Attempt(s, base)
  BY DEF SvcDelete
<1>2. ~Has(t, at)
  BY DEF HasBucket, Has, Without, Restrict
<1>3. at[1] = b
  OBVIOUS
<1> HIDE DEF t, at
<1>4. ~Has(base.store, at)
  BY <1>2, <1>3 DEF InBucket, HasBucket, No, Done, Reply
<1> HIDE DEF base
<1>5. a = base \/ a.sit \in Faults
  BY <1>1 DEF Attempt, No, Reply
<1> QED BY <1>4, <1>5, FaultsAreErrors DEF at

\* Before the first key.
LEMMA KeyedStart ==
  ASSUME NEW s, NEW b, NEW quiet, NEW e, e.store = s, e.deleted = {}, e.failed = {}
  PROVE  Keyed(s, b, {}, quiet, e)
BY ShrinksTransitive DEF Keyed, Gone

\* The next key.
LEMMA KeyedNext ==
  ASSUME NEW s, NEW b, HasBucket(s, b), NEW K, NEW k, NEW quiet,
         NEW p, Keyed(s, b, K, quiet, p), NEW e, TakesKey(p, b, k, quiet, e)
  PROVE  Keyed(s, b, K \cup {k}, quiet, e)
<1>1. Shrinks(s, e.store)
  BY ShrinksTransitive DEF Keyed, TakesKey
<1>2. \A j : Has(e.store, <<b, j>>) => Has(p.store, <<b, j>>)
  <2>1. HasBucket(p.store, b)
    BY ShrinksKeepsBucket DEF Keyed
  <2> QED BY <2>1 DEF TakesKey, Shrinks, HasBucket
<1>3. /\ \A j \in p.deleted : ~Has(e.store, <<b, j>>)
      /\ \A j \in K \ p.failed : ~Has(e.store, <<b, j>>)
  BY <1>2 DEF Keyed, Gone
<1>4. CASE ~Has(e.store, <<b, k>>) /\ e.failed = p.failed
  <2>1. e.deleted \subseteq p.deleted \cup {k}
    BY <1>4 DEF TakesKey
  <2>2. Gone(e.store, b, e.deleted)
    BY <1>3, <1>4, <2>1 DEF Gone
  <2>3. Gone(e.store, b, (K \cup {k}) \ e.failed)
    BY <1>3, <1>4 DEF Gone
  <2>4. quiet \/ e.deleted \cup e.failed = K \cup {k}
    BY <1>4 DEF TakesKey, Keyed
  <2> QED BY <1>1, <2>2, <2>3, <2>4 DEF Keyed
<1>5. CASE e.failed = p.failed \cup {k} /\ e.deleted = p.deleted
  BY <1>1, <1>3, <1>5 DEF Keyed, Gone
<1> QED BY <1>4, <1>5 DEF TakesKey

\* What was true after every key accounts for the keys.
LEMMA KeyedAccounts ==
  ASSUME NEW s, NEW b, NEW K, NEW quiet, NEW e, Keyed(s, b, K, quiet, e),
         NEW o, o.store = e.store, o.code = "ok",
         o.out = [deleted |-> e.deleted, failed |-> e.failed]
  PROVE  Shrinks(s, o.store) /\ Accounts(s, b, K, quiet, o)
BY DEF Keyed, Accounts, Deleted, RefusalCodes

-----------------------------------------------------------------------------
(* GCS *)

\* No entry of the GCS driver's error tables is the code of a success.
LEMMA GcsTables ==
  /\ \A x : Gcs!MapGoogleAPIReason(x) # "ok"
  /\ \A x : Gcs!MapHTTPStatus(x) # "ok"
  /\ \A x : Gcs!MapContextErr(x) # "ok"
BY DEF Gcs!MapGoogleAPIReason, Gcs!MapHTTPStatus, Gcs!MapContextErr, Gcs!NoCode

\* An answer that was lost is none of the refusals the GCS driver's
\* tables know.
LEMMA GcsLostTables ==
  ASSUME NEW sit \in Lost
  PROVE  LET e == Gcs!SdkError(sit)
         IN /\ Gcs!MapGoogleAPIReason(e.reason) \in {Gcs!NoCode, "temporary"}
            /\ Gcs!MapHTTPStatus(e.status) \in {Gcs!NoCode, "temporary"}
            /\ Gcs!MapContextErr(e.ctx) \in {Gcs!NoCode, "timeout"}
            /\ ~e.missing /\ ~e.saysExists
<1> DEFINE e == Gcs!SdkError(sit)
<1>1. /\ e.reason \in {"backendError", ""} /\ e.status \in {500, 0}
      /\ ~e.missing /\ ~e.saysExists
  <2>1. e.reason \in {"backendError", ""}
    BY DEF Gcs!SdkError, Lost
  <2>2. e.status \in {500, 0}
    BY DEF Gcs!SdkError, Lost
  <2>3. ~e.missing
    BY DEF Gcs!SdkError, Lost
  <2>4. ~e.saysExists
    BY DEF Gcs!SdkError, Lost
  <2> QED BY <2>1, <2>2, <2>3, <2>4
<1>2. \A x \in {"backendError", ""} : Gcs!MapGoogleAPIReason(x) \in {Gcs!NoCode, "temporary"}
  BY DEF Gcs!MapGoogleAPIReason
<1>3. \A x \in {500, 0} : Gcs!MapHTTPStatus(x) \in {Gcs!NoCode, "temporary"}
  BY DEF Gcs!MapHTTPStatus
<1>4. Gcs!MapContextErr(e.ctx) \in {Gcs!NoCode, "timeout"}
  BY DEF Gcs!MapContextErr
<1> HIDE DEF e
<1>5. /\ Gcs!MapGoogleAPIReason(e.reason) \in {Gcs!NoCode, "temporary"}
      /\ Gcs!MapHTTPStatus(e.status) \in {Gcs!NoCode, "temporary"}
  <2>1. Gcs!MapGoogleAPIReason(e.reason) \in {Gcs!NoCode, "temporary"}
    BY <1>1, <1>2, Zenon
  <2>2. Gcs!MapHTTPStatus(e.status) \in {Gcs!NoCode, "temporary"}
    BY <1>1, <1>3
  <2> QED BY <2>1, <2>2
<1> QED BY <1>1, <1>4, <1>5 DEF e

\* What the GCS driver makes of an error comes from its tables, or is
\* "internal".
LEMMA GcsMapErrorCode ==
  ASSUME NEW s, NEW e
  PROVE  /\ Gcs!MapError(s, e).store = s
         /\ \/ /\ Gcs!MapError(s, e).code # Gcs!NoCode
               /\ Gcs!MapError(s, e).code \in
                    {Gcs!MapContextErr(e.ctx), Gcs!MapGoogleAPIReason(e.reason),
                     Gcs!MapHTTPStatus(e.status), "internal"}
            \/ e.missing /\ Gcs!MapError(s, e).code = "not_found"
            \/ e.saysExists /\ Gcs!MapError(s, e).code = "already_exists"
<1>1. CASE e.missing
  BY <1>1 DEF Gcs!MapError, Gcs!Error, Gcs!Refuse, Gcs!NoCode
<1>2. CASE ~e.missing /\ e.status # 0 /\ Gcs!MapGoogleAPIReason(e.reason) # Gcs!NoCode
  BY <1>2 DEF Gcs!MapError, Gcs!Error, Gcs!Refuse, Gcs!NoCode
<1>3. CASE /\ ~e.missing /\ e.status # 0 /\ Gcs!MapGoogleAPIReason(e.reason) = Gcs!NoCode
          /\ e.status = 409 /\ e.saysExists
  BY <1>3 DEF Gcs!MapError, Gcs!Error, Gcs!Refuse, Gcs!NoCode
<1>4. CASE /\ ~e.missing /\ e.status # 0 /\ Gcs!MapGoogleAPIReason(e.reason) = Gcs!NoCode
          /\ ~(e.status = 409 /\ e.saysExists)
          /\ Gcs!MapHTTPStatus(e.status) # Gcs!NoCode
  BY <1>4 DEF Gcs!MapError, Gcs!Error, Gcs!Refuse, Gcs!NoCode
<1>5. CASE /\ ~e.missing /\ e.status # 0 /\ Gcs!MapGoogleAPIReason(e.reason) = Gcs!NoCode
          /\ ~(e.status = 409 /\ e.saysExists)
          /\ Gcs!MapHTTPStatus(e.status) = Gcs!NoCode
  BY <1>5 DEF Gcs!MapError, Gcs!Error, Gcs!Refuse, Gcs!NoCode
<1>6. CASE ~e.missing /\ e.status = 0 /\ Gcs!MapContextErr(e.ctx) # Gcs!NoCode
  BY <1>6 DEF Gcs!MapError, Gcs!Error, Gcs!Refuse, Gcs!NoCode
<1>7. CASE ~e.missing /\ e.status = 0 /\ Gcs!MapContextErr(e.ctx) = Gcs!NoCode
  BY <1>7 DEF Gcs!MapError, Gcs!Error, Gcs!Refuse, Gcs!NoCode
<1> QED BY <1>1, <1>2, <1>3, <1>4, <1>5, <1>6, <1>7

\* Only what is missing is worded so that the GCS driver calls it not found.
LEMMA GcsFound ==
  ASSUME NEW s, NEW sit, sit \notin Missing
  PROVE  Gcs!MapError(s, Gcs!SdkError(sit)).code # "not_found"
<1> DEFINE e == Gcs!SdkError(sit)
           words == {"conflict", "conditionNotMet", "forbidden", "authError",
                     "rateLimitExceeded", "backendError", ""}
           numbers == {409, 412, 416, 403, 401, 429, 408, 503, 500, 0}
<1>1. e.reason \in words
  BY DEF Gcs!SdkError, Missing
<1>2. e.status \in numbers
  BY DEF Gcs!SdkError, Missing
<1>3. ~e.missing
  BY DEF Gcs!SdkError, Missing
<1>4. \A x \in words : Gcs!MapGoogleAPIReason(x) # "not_found"
  BY DEF Gcs!MapGoogleAPIReason, Gcs!NoCode
<1>5. \A x \in numbers : Gcs!MapHTTPStatus(x) # "not_found"
  BY DEF Gcs!MapHTTPStatus, Gcs!NoCode
<1>6. Gcs!MapContextErr(e.ctx) # "not_found"
  BY DEF Gcs!MapContextErr, Gcs!NoCode
<1> DEFINE code == Gcs!MapError(s, e).code
<1> HIDE DEF e, words, numbers
<1>7. Gcs!MapGoogleAPIReason(e.reason) # "not_found" /\ Gcs!MapHTTPStatus(e.status) # "not_found"
  BY <1>1, <1>2, <1>4, <1>5
<1>8. code # "not_found"
  <2>1. \/ code \in {Gcs!MapContextErr(e.ctx), Gcs!MapGoogleAPIReason(e.reason),
                   Gcs!MapHTTPStatus(e.status), "internal"}
        \/ code = "already_exists"
    BY <1>3, GcsMapErrorCode
  <2> HIDE DEF code
  <2> QED BY <2>1, <1>6, <1>7
<1> QED BY <1>8 DEF code, e

\* A fault of the service is worded so that the GCS driver does not blame the
\* request.
LEMMA GcsFaults ==
  ASSUME NEW s, NEW sit \in Refusals \cup Lost
  PROVE  Gcs!MapError(s, Gcs!SdkError(sit)).code \notin BlameCodes
<1> DEFINE e == Gcs!SdkError(sit)
           words == {"forbidden", "authError", "rateLimitExceeded", "backendError", ""}
           numbers == {403, 401, 429, 408, 503, 500, 0}
<1>1. e.reason \in words
  BY DEF Gcs!SdkError, Refusals, Lost
<1>2. e.status \in numbers
  BY DEF Gcs!SdkError, Refusals, Lost
<1>3. ~e.missing /\ ~e.saysExists
  BY DEF Gcs!SdkError, Refusals, Lost
<1>4. \A x \in words : Gcs!MapGoogleAPIReason(x) \notin BlameCodes
  BY DEF Gcs!MapGoogleAPIReason, Gcs!NoCode, BlameCodes
<1>5. \A x \in numbers : Gcs!MapHTTPStatus(x) \in {"permission_denied", "unauthenticated",
                                        "rate_limited", "timeout", "temporary", Gcs!NoCode}
  BY DEF Gcs!MapHTTPStatus, Gcs!NoCode
<1>6. Gcs!MapContextErr(e.ctx) \notin BlameCodes /\ "internal" \notin BlameCodes
  BY DEF Gcs!MapContextErr, Gcs!NoCode, BlameCodes
<1> DEFINE code == Gcs!MapError(s, e).code
<1> HIDE DEF e, words, numbers
<1>7. Gcs!MapGoogleAPIReason(e.reason) \notin BlameCodes /\ Gcs!MapHTTPStatus(e.status) \notin BlameCodes
  BY <1>1, <1>2, <1>4, <1>5 DEF BlameCodes, Gcs!NoCode
<1>8. code \notin BlameCodes
  <2>1. code \in {Gcs!MapContextErr(e.ctx), Gcs!MapGoogleAPIReason(e.reason),
                 Gcs!MapHTTPStatus(e.status), "internal"}
    BY <1>3, GcsMapErrorCode
  <2> HIDE DEF code
  <2> QED BY <2>1, <1>6, <1>7
<1> QED BY <1>8 DEF code, e

\* MapError of the GCS driver leaves the store alone, never says "ok", never
\* takes a lost answer for a refusal, calls nothing else not found, and does not
\* blame the request for a fault.
LEMMA GcsMapError ==
  ASSUME NEW s, NEW sit
  PROVE  LET o == Gcs!MapError(s, Gcs!SdkError(sit))
         IN /\ o.store = s /\ o.code # "ok"
            /\ sit \in Lost => o.code \notin RefusalCodes
            /\ o.code = "not_found" => sit \in Missing
            /\ sit \in Refusals \cup Lost => o.code \notin BlameCodes
<1> DEFINE o == Gcs!MapError(s, Gcs!SdkError(sit))
<1>1. o.store = s /\ o.code # "ok"
  BY GcsMapErrorCode, GcsTables
<1>2. ASSUME sit \in Lost PROVE o.code \in {"temporary", "timeout", "internal"}
  BY <1>2, GcsMapErrorCode, GcsLostTables
<1>3. o.code = "not_found" => sit \in Missing
  BY GcsFound
<1>4. sit \in Refusals \cup Lost => o.code \notin BlameCodes
  BY GcsFaults
<1> QED
  BY <1>1, <1>2, <1>3, <1>4 DEF RefusalCodes

\* The service the GCS driver talks to is the one of ObjectService.
LEMMA GcsService ==
  /\ \A s, at, o, f, m, n : Gcs!SvcPut(s, at, o, f, m, n) = SvcPut(s, at, o, f, m, n)
  /\ \A s, at, f, l, m : Gcs!SvcGet(s, at, f, l, m) = SvcGet(s, at, f, l, m)
  /\ \A s, at, strict : Gcs!SvcDelete(s, at, strict) = SvcDelete(s, at, strict)
  /\ \A s, b, k, q : Gcs!SvcDeleteBatch(s, b, k, q) = SvcDeleteBatch(s, b, k, q)
  /\ \A s, x, y, i, m, j, t, e, n :
       Gcs!SvcCopy(s, x, y, i, m, j, t, e, n) = SvcCopy(s, x, y, i, m, j, t, e, n)
BY DEF SvcPut, SvcGet, SvcCopy, SvcDelete, SvcDeleteBatch, Attempt, InBucket,
       No, Done, Reply, StoreObject, With, Without, Restrict, Range, Fails,
       Has, Etag, Lost, Nothing, ObjectOf, Slice, Gcs!SvcPut, Gcs!SvcGet,
       Gcs!SvcCopy, Gcs!SvcDelete, Gcs!SvcDeleteBatch, Gcs!Attempt,
       Gcs!InBucket, Gcs!No, Gcs!Done, Gcs!Reply, Gcs!StoreObject, Gcs!With,
       Gcs!Without, Gcs!Restrict, Gcs!Range, Gcs!Fails, Gcs!Has, Gcs!Etag,
       Gcs!Lost, Gcs!Nothing, Gcs!ObjectOf, Gcs!Slice

\* The GCS driver hands on the service's answer, success for success and
\* error for error.
LEMMA GcsAsk ==
  ASSUME NEW answers, NEW o \in Gcs!Ask(answers)
  PROVE  \E a \in answers : Gives(a, o)
<1>1. PICK a \in answers : o = Gcs!Answer(a)
  BY DEF Gcs!Ask
<1> DEFINE err == Gcs!MapError(a.store, Gcs!SdkError(a.sit))
<1>2. /\ err.store = a.store /\ err.code # "ok"
      /\ a.sit \in Lost => err.code \notin RefusalCodes
      /\ err.code = "not_found" => a.sit \in Missing
      /\ a.sit \in Refusals \cup Lost => err.code \notin BlameCodes
  BY GcsMapError
<1>3. o = IF a.sit = "ok" THEN Gcs!Ok(a.store, a.out) ELSE err
  BY <1>1 DEF Gcs!Answer
<1> HIDE DEF err
<1>4. Gives(a, o)
  BY <1>2, <1>3 DEF Gives, Tells, Gcs!Ok, Refusals, Lost
<1> QED BY <1>4
\* The writer of GCS publishes a body that failed like one that did not.

\* Put of the GCS driver sends the body, or declines; a body that fails
\* stores nothing.
LEMMA GcsPut ==
  ASSUME NEW c, NEW s, NEW r, NamesView(c, r), NEW o \in Gcs!PutObject(c, s, r)
  PROVE  \/ Declines(o, s)
         \/ \E meta : \E a \in SvcPut(s, <<r.bucket, r.key>>,
                                 ObjectOf(r.body.bytes, meta, r.ctype),
                                 FALSE, {}, r.noneMatch = "*") :
              \/ r.body.fails /\ o.store = a.store /\ o.code = "internal"
              \/ ~r.body.fails /\ Tells(a, o)
<1> DEFINE obj == ObjectOf(r.body.bytes, Gcs!LowerMetadataKeys(r.meta), r.ctype)
           answers == SvcPut(s, <<r.bucket, r.key>>, obj, FALSE, {}, r.noneMatch = "*")
<1>1. Gcs!SvcPut(s, Gcs!At(c, r),
        Gcs!ObjectOf(r.body.bytes, Gcs!LowerMetadataKeys(r.meta), r.ctype),
        FALSE, {}, r.noneMatch = "*") = answers
  BY GcsService DEF Gcs!At, Gcs!PickBucket, Gcs!ObjectOf, ObjectOf, NamesView
<1> HIDE DEF answers
<1>2. CASE r.body.nil
  <2>1. o = Gcs!Refuse(s, "invalid_argument")
    BY <1>2 DEF Gcs!PutObject
  <2>2. Declines(o, s)
    BY <2>1 DEF Gcs!Refuse, Gcs!Error, Declines
  <2> QED BY <2>2
<1>3. CASE ~r.body.nil /\ r.body.fails
  <2>1. PICK a \in answers : o = Gcs!Refuse(a.store, "internal")
    BY <1>1, <1>3 DEF Gcs!PutObject
  <2>2. r.body.fails /\ o.store = a.store /\ o.code = "internal"
    BY <2>1, <1>3 DEF Gcs!Refuse, Gcs!Error
  <2> QED BY <2>2 DEF answers
<1>4. CASE ~r.body.nil /\ ~r.body.fails
  <2>1. Gcs!PutObject(c, s, r) = Gcs!Ask(answers)
    BY <1>1, <1>4 DEF Gcs!PutObject
  <2>2. \E a \in answers : Gives(a, o)
    BY <2>1, GcsAsk
  <2> QED BY <2>2, <1>4 DEF Gives, answers
<1> QED BY <1>2, <1>3, <1>4

\* A Get of the GCS driver that succeeds gives the bytes the range asks for.
LEMMA GcsGet ==
  ASSUME NEW c, NEW s, NEW r, NamesView(c, r), AsksRange(r),
         NEW o \in Gcs!GetObject(c, s, r)
  PROVE  ReadsRange(s, r, o)
<1> DEFINE answers == SvcGet(s, <<r.bucket, r.key>>, r.first, r.last, {})
<1>1. o \in Gcs!Ask(answers)
  BY GcsService DEF Gcs!GetObject, Gcs!TranslateRange, Gcs!BuildReadConditions, Gcs!At, Gcs!PickBucket, AsksRange, NamesView
<1> HIDE DEF answers
<1>2. Declines(o, s) \/ \E a \in answers : Gives(a, o)
  BY <1>1, GcsAsk
<1>3. CASE Declines(o, s)
  BY <1>3 DEF Declines, ReadsRange
<1>4. CASE \E a \in answers : Gives(a, o)
  BY <1>4, GetReads DEF answers
<1> QED BY <1>2, <1>3, <1>4

\* Delete of the GCS driver only removes, and a refusal removes nothing.
LEMMA GcsDelete ==
  ASSUME NEW c, NEW s, NEW r, NEW o \in Gcs!DeleteObject(c, s, r)
  PROVE  Shrinks(s, o.store) /\ Honest(s, o)
<1> DEFINE answers == SvcDelete(s, Gcs!At(c, r), TRUE)
<1>1. Gcs!SvcDelete(s, Gcs!At(c, r), TRUE) = answers
  BY GcsService
<1>2. Speaks(s, answers) /\ \A a \in answers : Shrinks(s, a.store)
  BY SvcDeleteSpeaks, SvcDeleteShrinks
<1> HIDE DEF answers
<1>3. \E p \in Gcs!Ask(answers) :
        o = IF Gcs!Missing(p) THEN Gcs!Ok(p.store, Gcs!Nothing) ELSE p
  BY <1>1 DEF Gcs!DeleteObject, Gcs!DeleteAt
<1>4. PICK p \in Gcs!Ask(answers) :
        o = IF Gcs!Missing(p) THEN Gcs!Ok(p.store, Gcs!Nothing) ELSE p
  BY <1>3
<1>5. PICK a \in answers : Gives(a, p)
  BY <1>4, GcsAsk
<1>6. Shrinks(s, p.store) /\ Honest(s, p)
  BY <1>2, <1>5, TellsHonest DEF Gives, Tells
<1>7. o = p \/ (o.store = p.store /\ o.code = "ok")
  BY <1>4 DEF Gcs!Ok
<1> QED BY <1>6, <1>7 DEF Honest, RefusalCodes

\* Copy of the GCS driver: a refusal copies nothing, and a success leaves
\* the bytes and headers of the source.
LEMMA GcsCopy ==
  ASSUME NEW c, NEW s, NEW r, NEW o \in Gcs!CopyObject(c, s, r)
  PROVE  /\ SameFields(s, o.store) /\ Honest(s, o)
         /\ Adds(s, <<r.bucket, r.key>>, o.store)
         /\ CopiesFrom(r) /\ NamesView(c, r) /\ "objs" \in DOMAIN s =>
              CopiesSource(s, r, o)
<1> DEFINE src == <<IF r.srcBucket = "" THEN c.bucket ELSE r.srcBucket, r.srcKey>>
           dst == <<r.bucket, r.key>>
           meta == Gcs!LowerMetadataKeys(r.meta)
           again == r.noneMatch = "*"
           replace == meta # "nil" /\ ~again
           retype == r.ctype # "none" /\ ~again
           answers == SvcCopy(s, src, dst, replace, meta, retype, r.ctype, {}, again)
<1>1. answers = Gcs!SvcCopy(s, src, dst, replace, meta, retype, r.ctype, {}, again)
  <2> HIDE DEF src, dst, meta, replace, again, retype
  <2> QED BY GcsService
<1>2. Speaks(s, answers)
  <2> HIDE DEF src, dst, meta, replace, again, retype
  <2> QED BY SvcCopySpeaks
<1>a. AnswersAdd(s, dst, answers)
  <2> HIDE DEF src, dst, meta, replace, again, retype
  <2> QED BY SvcCopyAdds
<1>3. ASSUME CopiesFrom(r), NamesView(c, r), "objs" \in DOMAIN s,
             NEW a \in answers, Tells(a, o)
      PROVE  CopiesSource(s, r, o)
  <2>1. src = <<r.bucket, r.srcKey>> /\ meta = r.meta
    BY <1>3 DEF CopiesFrom, NamesView, Gcs!LowerMetadataKeys
  <2>2. /\ replace \in BOOLEAN /\ (replace <=> r.meta # "nil")
        /\ again \in BOOLEAN /\ retype \in BOOLEAN
    BY <1>3, <2>1 DEF CopiesFrom
  <2> HIDE DEF src, meta, replace, again, retype
  <2>3. a \in SvcCopy(s, <<r.bucket, r.srcKey>>, <<r.bucket, r.key>>, replace,
                      r.meta, retype, r.ctype, {}, again)
    BY <1>3, <2>1
  <2> QED BY <1>3, <2>2, <2>3, CopyIsOfSource
<1> HIDE DEF answers
<1>4. o \in Gcs!Ask(answers)
  BY <1>1 DEF Gcs!CopyObject
<1>5. Declines(o, s) \/ \E a \in answers : Gives(a, o)
  BY <1>4, GcsAsk
<1> QED BY <1>2, <1>a, <1>3, <1>5, DeclinesHonest, TellsHonest, DeclinesAdds, TellsAdds
      DEF Gives, Declines, CopiesSource, CopiesMatching

\* DeleteMany's loop takes one turn after the other.
LEMMA GcsLoop ==
  ASSUME NEW c, NEW r, NEW base, NEW n \in 1..2
  PROVE  Gcs!Loop(LAMBDA acc, i : Gcs!DeleteKey(c, r, acc, r.keys[i]), base, n) =
           IF n = 1 THEN Gcs!DeleteKey(c, r, base, r.keys[1])
           ELSE Gcs!DeleteKey(c, r, Gcs!DeleteKey(c, r, base, r.keys[1]), r.keys[2])
<1> DEFINE one == Gcs!DeleteKey(c, r, base, r.keys[1])
           two == Gcs!DeleteKey(c, r, one, r.keys[2])
           Unfolds(f) == f = [i \in 0..n |-> IF i = 0 THEN base
                                             ELSE Gcs!DeleteKey(c, r, f[i - 1], r.keys[i])]
           f == [i \in 0..n |-> IF i = 0 THEN base ELSE IF i = 1 THEN one ELSE two]
           after == CHOOSE g : Unfolds(g)
<1>1. Unfolds(f)
  <2>1. ASSUME NEW i \in 0..n
        PROVE  f[i] = IF i = 0 THEN base ELSE Gcs!DeleteKey(c, r, f[i - 1], r.keys[i])
    <3> HIDE DEF one, two
    <3>1. i = 0 \/ (i = 1 /\ f[i - 1] = base) \/ (i = 2 /\ f[i - 1] = one)
      OBVIOUS
    <3> QED BY <3>1 DEF one, two
  <2> QED BY <2>1
<1>2. Unfolds(after)
  BY <1>1
<1>3. Gcs!Loop(LAMBDA acc, i : Gcs!DeleteKey(c, r, acc, r.keys[i]), base, n) = after[n]
  BY DEF Gcs!Loop
<1> HIDE DEF after
<1>4. after[0] = base /\ after[1] = one
  BY <1>2
<1>5. after[n] = IF n = 1 THEN one ELSE two
  BY <1>2, <1>4
<1> QED BY <1>3, <1>5, Zenon

\* A key that the GCS driver deleted, or did not find, is gone.
LEMMA GcsRemoves ==
  ASSUME NEW s, NEW b, NEW k, HasBucket(s, b),
         NEW o \in Gcs!Ask(SvcDelete(s, <<b, k>>, TRUE))
  PROVE  Shrinks(s, o.store) /\ (o.code \in {"ok", "not_found"} => ~Has(o.store, <<b, k>>))
<1> DEFINE answers == SvcDelete(s, <<b, k>>, TRUE)
<1>1. \A a \in answers : /\ Shrinks(s, a.store)
                         /\ ~Has(a.store, <<b, k>>) \/ a.sit \in Refusals \cup Lost
  BY SvcDeleteShrinks, SvcDeleteFinds
<1> HIDE DEF answers
<1>2. PICK a \in answers : Gives(a, o)
  BY GcsAsk DEF answers
<1>3. o.code \in {"ok", "not_found"} => a.sit \notin Refusals \cup Lost
  BY <1>2 DEF Gives, Tells, Missing, Refusals, Lost
<1> QED BY <1>1, <1>2, <1>3 DEF Gives, Tells

\* One key of DeleteMany, after the keys K.
LEMMA GcsDeleteKey ==
  ASSUME NEW c, NEW r, NamesView(c, r), NEW s, HasBucket(s, r.bucket), NEW acc, NEW K, NEW k,
         \A a \in acc : Keyed(s, r.bucket, K, r.quiet, a), NEW o \in Gcs!DeleteKey(c, r, acc, k)
  PROVE  Keyed(s, r.bucket, K \cup {k}, r.quiet, o)
<1> DEFINE b == r.bucket
           call(a) == Gcs!DeleteAt(a.store, <<b, k>>)
           turn(a, p) == IF p.code = "ok" \/ Gcs!Missing(p)
                         THEN [store |-> p.store, failed |-> a.failed,
                               deleted |-> IF r.quiet THEN {} ELSE a.deleted \cup {k}]
                         ELSE [store |-> p.store, failed |-> a.failed \cup {k}, deleted |-> a.deleted]
<1>1. PICK a \in acc : \E p \in call(a) : o = turn(a, p)
  BY DEF Gcs!DeleteKey, Gcs!PickBucket, NamesView
<1>2. PICK p \in call(a) : o = turn(a, p)
  BY <1>1
<1>3. HasBucket(a.store, b)
  BY ShrinksKeepsBucket DEF Keyed
<1>4. Shrinks(a.store, p.store) /\ (p.code \in {"ok", "not_found"} => ~Has(p.store, <<b, k>>))
  <2> DEFINE answers == SvcDelete(a.store, <<b, k>>, TRUE)
  <2>1. p \in Gcs!Ask(answers)
    <3>1. Gcs!SvcDelete(a.store, <<b, k>>, TRUE) = answers
      BY GcsService
    <3> QED BY <1>2, <3>1 DEF Gcs!DeleteAt
  <2> HIDE DEF answers
  <2> QED BY <1>3, <2>1, GcsRemoves DEF answers
<1> HIDE DEF call
<1>5. TakesKey(a, b, k, r.quiet, o)
  BY <1>2, <1>4 DEF TakesKey, Gcs!Missing
<1> QED BY <1>5, KeyedNext

\* DeleteMany of the GCS driver removes its keys and accounts for them.
LEMMA GcsDeleteMany ==
  ASSUME NEW c, NEW s, NEW r, NamesView(c, r), ShortList(r.keys), HasBucket(s, r.bucket),
         NEW o \in Gcs!DeleteMany(c, s, r)
  PROVE  Shrinks(s, o.store) /\ Accounts(s, r.bucket, Range(r.keys), r.quiet, o)
<1> DEFINE none == [store |-> s, deleted |-> {}, failed |-> {}]
           n == Len(r.keys)
           one == Gcs!DeleteKey(c, r, {none}, r.keys[1])
           two == Gcs!DeleteKey(c, r, one, r.keys[2])
           ends == Gcs!Loop(LAMBDA acc, i : Gcs!DeleteKey(c, r, acc, r.keys[i]), {none}, n)
           done == {Gcs!Ok(end.store, [deleted |-> end.deleted, failed |-> end.failed])
                    : end \in ends}
           Upto(K, acc) == \A a \in acc : Keyed(s, r.bucket, K, r.quiet, a)
<1>1. \/ n = 1 /\ Range(r.keys) = {r.keys[1]}
      \/ n = 2 /\ Range(r.keys) = {r.keys[1], r.keys[2]}
  BY ShortLists
<1>2. o \in done
  BY DEF Gcs!DeleteMany
<1>3. Upto({}, {none})
  BY KeyedStart
<1> HIDE DEF none, n
<1>4. Upto({} \cup {r.keys[1]}, one)
  BY <1>3, GcsDeleteKey
<1>5. {} \cup {r.keys[1]} = {r.keys[1]}
  OBVIOUS
<1>6. Upto({r.keys[1]}, one)
  BY <1>4, <1>5, Zenon
<1> HIDE DEF one
<1>7. Upto({r.keys[1]} \cup {r.keys[2]}, two)
  BY <1>6, GcsDeleteKey
<1>8. {r.keys[1]} \cup {r.keys[2]} = {r.keys[1], r.keys[2]}
  OBVIOUS
<1>9. Upto({r.keys[1], r.keys[2]}, two)
  BY <1>7, <1>8, Zenon
<1>10. n \in 1..2
  BY <1>1
<1>11. ends = IF n = 1 THEN one ELSE two
  BY <1>10, GcsLoop, Zenon DEF one
<1> HIDE DEF ends, two
<1>12. Upto(Range(r.keys), ends)
  BY <1>1, <1>6, <1>9, <1>11
<1>13. \A p \in done : Shrinks(s, p.store) /\ Accounts(s, r.bucket, Range(r.keys), r.quiet, p)
  <2>1. ASSUME NEW end \in ends, NEW p, p = Gcs!Ok(end.store, [deleted |-> end.deleted, failed |-> end.failed])
        PROVE  Shrinks(s, p.store) /\ Accounts(s, r.bucket, Range(r.keys), r.quiet, p)
    <3>1. /\ p.store = end.store /\ p.code = "ok"
          /\ p.out = [deleted |-> end.deleted, failed |-> end.failed]
      BY <2>1 DEF Gcs!Ok
    <3>2. Keyed(s, r.bucket, Range(r.keys), r.quiet, end)
      BY <1>12, <2>1
    <3> QED BY <3>1, <3>2, KeyedAccounts
  <2> QED BY <2>1
<1> HIDE DEF done
<1> QED BY <1>2, <1>13

-----------------------------------------------------------------------------
(* Azure *)

\* No entry of the Azure driver's error tables is the code of a success.
LEMMA AzureTables ==
  /\ \A x : Azure!MapAzureErrorCode(x) # "ok"
  /\ \A x : Azure!MapHTTPStatus(x) # "ok"
  /\ \A x : Azure!MapContextErr(x) # "ok"
BY DEF Azure!MapAzureErrorCode, Azure!MapHTTPStatus, Azure!MapContextErr, Azure!NoCode

\* An answer that was lost is none of the refusals the Azure driver's
\* tables know.
LEMMA AzureLostTables ==
  ASSUME NEW sit \in Lost
  PROVE  LET e == Azure!SdkError(sit)
         IN /\ Azure!MapAzureErrorCode(e.code) \in {Azure!NoCode, "temporary"}
            /\ Azure!MapHTTPStatus(e.status) \in {Azure!NoCode, "temporary"}
            /\ Azure!MapContextErr(e.ctx) \in {Azure!NoCode, "timeout"}
<1> DEFINE e == Azure!SdkError(sit)
<1>1. /\ e.code \in {"InternalError", ""} /\ e.status \in {500, 0}
  <2>1. e.code \in {"InternalError", ""}
    BY DEF Azure!SdkError, Lost
  <2>2. e.status \in {500, 0}
    BY DEF Azure!SdkError, Lost
  <2> QED BY <2>1, <2>2
<1>2. \A x \in {"InternalError", ""} : Azure!MapAzureErrorCode(x) \in {Azure!NoCode, "temporary"}
  BY DEF Azure!MapAzureErrorCode
<1>3. \A x \in {500, 0} : Azure!MapHTTPStatus(x) \in {Azure!NoCode, "temporary"}
  BY DEF Azure!MapHTTPStatus
<1>4. Azure!MapContextErr(e.ctx) \in {Azure!NoCode, "timeout"}
  BY DEF Azure!MapContextErr
<1> HIDE DEF e
<1>5. /\ Azure!MapAzureErrorCode(e.code) \in {Azure!NoCode, "temporary"}
      /\ Azure!MapHTTPStatus(e.status) \in {Azure!NoCode, "temporary"}
  <2>1. Azure!MapAzureErrorCode(e.code) \in {Azure!NoCode, "temporary"}
    BY <1>1, <1>2, Zenon
  <2>2. Azure!MapHTTPStatus(e.status) \in {Azure!NoCode, "temporary"}
    BY <1>1, <1>3
  <2> QED BY <2>1, <2>2
<1> QED BY <1>1, <1>4, <1>5 DEF e

\* What the Azure driver makes of an error comes from its tables, or is
\* "internal".
LEMMA AzureMapErrorCode ==
  ASSUME NEW s, NEW e
  PROVE  /\ Azure!MapError(s, e).store = s
         /\ \/ /\ Azure!MapError(s, e).code # Azure!NoCode
               /\ Azure!MapError(s, e).code \in
                    {Azure!MapContextErr(e.ctx), Azure!MapAzureErrorCode(e.code),
                     Azure!MapHTTPStatus(e.status), "internal"}
<1>1. CASE e.status # 0 /\ Azure!MapAzureErrorCode(e.code) # Azure!NoCode
  BY <1>1 DEF Azure!MapError, Azure!Error, Azure!Refuse, Azure!NoCode
<1>2. CASE /\ e.status # 0 /\ Azure!MapAzureErrorCode(e.code) = Azure!NoCode
          /\ Azure!MapHTTPStatus(e.status) # Azure!NoCode
  BY <1>2 DEF Azure!MapError, Azure!Error, Azure!Refuse, Azure!NoCode
<1>3. CASE /\ e.status # 0 /\ Azure!MapAzureErrorCode(e.code) = Azure!NoCode
          /\ Azure!MapHTTPStatus(e.status) = Azure!NoCode
  BY <1>3 DEF Azure!MapError, Azure!Error, Azure!Refuse, Azure!NoCode
<1>4. CASE e.status = 0 /\ Azure!MapContextErr(e.ctx) # Azure!NoCode
  BY <1>4 DEF Azure!MapError, Azure!Error, Azure!Refuse, Azure!NoCode
<1>5. CASE e.status = 0 /\ Azure!MapContextErr(e.ctx) = Azure!NoCode
  BY <1>5 DEF Azure!MapError, Azure!Error, Azure!Refuse, Azure!NoCode
<1> QED BY <1>1, <1>2, <1>3, <1>4, <1>5

\* Only what is missing is worded so that the Azure driver calls it not found.
LEMMA AzureFound ==
  ASSUME NEW s, NEW sit, sit \notin Missing
  PROVE  Azure!MapError(s, Azure!SdkError(sit)).code # "not_found"
<1> DEFINE e == Azure!SdkError(sit)
           words == {"ContainerAlreadyExists", "InvalidRange", "InvalidBlockList",
                     "AuthorizationPermissionMismatch", "AuthenticationFailed",
                     "ServerBusy", "OperationTimedOut", "InternalError", ""}
           numbers == {409, 416, 400, 403, 503, 500, 0}
<1>1. e.code \in words
  BY DEF Azure!SdkError, Missing
<1>2. e.status \in numbers
  BY DEF Azure!SdkError, Missing
<1>4. \A x \in words : Azure!MapAzureErrorCode(x) # "not_found"
  BY DEF Azure!MapAzureErrorCode, Azure!NoCode
<1>5. \A x \in numbers : Azure!MapHTTPStatus(x) # "not_found"
  BY DEF Azure!MapHTTPStatus, Azure!NoCode
<1>6. Azure!MapContextErr(e.ctx) # "not_found"
  BY DEF Azure!MapContextErr, Azure!NoCode
<1> DEFINE code == Azure!MapError(s, e).code
<1> HIDE DEF e, words, numbers
<1>7. Azure!MapAzureErrorCode(e.code) # "not_found" /\ Azure!MapHTTPStatus(e.status) # "not_found"
  BY <1>1, <1>2, <1>4, <1>5
<1>8. code # "not_found"
  <2>1. \/ code \in {Azure!MapContextErr(e.ctx), Azure!MapAzureErrorCode(e.code),
                   Azure!MapHTTPStatus(e.status), "internal"}
        \/ code = "already_exists"
    BY AzureMapErrorCode
  <2> HIDE DEF code
  <2> QED BY <2>1, <1>6, <1>7
<1> QED BY <1>8 DEF code, e

\* A fault of the service is worded so that the Azure driver does not blame the
\* request.
LEMMA AzureFaults ==
  ASSUME NEW s, NEW sit \in Refusals \cup Lost
  PROVE  Azure!MapError(s, Azure!SdkError(sit)).code \notin BlameCodes
<1> DEFINE e == Azure!SdkError(sit)
           words == {"AuthorizationPermissionMismatch", "AuthenticationFailed", "ServerBusy",
                     "OperationTimedOut", "InternalError", ""}
           numbers == {403, 503, 500, 0}
<1>1. e.code \in words
  BY DEF Azure!SdkError, Refusals, Lost
<1>2. e.status \in numbers
  BY DEF Azure!SdkError, Refusals, Lost
<1>4. \A x \in words : Azure!MapAzureErrorCode(x) \notin BlameCodes
  BY DEF Azure!MapAzureErrorCode, Azure!NoCode, BlameCodes
<1>5. \A x \in numbers : Azure!MapHTTPStatus(x) \in {"permission_denied", "unauthenticated",
                                        "rate_limited", "timeout", "temporary", Azure!NoCode}
  BY DEF Azure!MapHTTPStatus, Azure!NoCode
<1>6. Azure!MapContextErr(e.ctx) \notin BlameCodes /\ "internal" \notin BlameCodes
  BY DEF Azure!MapContextErr, Azure!NoCode, BlameCodes
<1> DEFINE code == Azure!MapError(s, e).code
<1> HIDE DEF e, words, numbers
<1>7. Azure!MapAzureErrorCode(e.code) \notin BlameCodes /\ Azure!MapHTTPStatus(e.status) \notin BlameCodes
  BY <1>1, <1>2, <1>4, <1>5 DEF BlameCodes, Azure!NoCode
<1>8. code \notin BlameCodes
  <2>1. code \in {Azure!MapContextErr(e.ctx), Azure!MapAzureErrorCode(e.code),
                 Azure!MapHTTPStatus(e.status), "internal"}
    BY AzureMapErrorCode
  <2> HIDE DEF code
  <2> QED BY <2>1, <1>6, <1>7
<1> QED BY <1>8 DEF code, e

\* MapError of the Azure driver leaves the store alone, never says "ok", never
\* takes a lost answer for a refusal, calls nothing else not found, and does not
\* blame the request for a fault.
LEMMA AzureMapError ==
  ASSUME NEW s, NEW sit
  PROVE  LET o == Azure!MapError(s, Azure!SdkError(sit))
         IN /\ o.store = s /\ o.code # "ok"
            /\ sit \in Lost => o.code \notin RefusalCodes
            /\ o.code = "not_found" => sit \in Missing
            /\ sit \in Refusals \cup Lost => o.code \notin BlameCodes
<1> DEFINE o == Azure!MapError(s, Azure!SdkError(sit))
<1>1. o.store = s /\ o.code # "ok"
  BY AzureMapErrorCode, AzureTables
<1>2. ASSUME sit \in Lost PROVE o.code \in {"temporary", "timeout", "internal"}
  BY <1>2, AzureMapErrorCode, AzureLostTables
<1>3. o.code = "not_found" => sit \in Missing
  BY AzureFound
<1>4. sit \in Refusals \cup Lost => o.code \notin BlameCodes
  BY AzureFaults
<1> QED
  BY <1>1, <1>2, <1>3, <1>4 DEF RefusalCodes

\* The service the Azure driver talks to is the one of ObjectService.
LEMMA AzureService ==
  /\ \A s, at, o, f, m, n : Azure!SvcPut(s, at, o, f, m, n) = SvcPut(s, at, o, f, m, n)
  /\ \A s, at, f, l, m : Azure!SvcGet(s, at, f, l, m) = SvcGet(s, at, f, l, m)
  /\ \A s, at, strict : Azure!SvcDelete(s, at, strict) = SvcDelete(s, at, strict)
  /\ \A s, b, k, q : Azure!SvcDeleteBatch(s, b, k, q) = SvcDeleteBatch(s, b, k, q)
  /\ \A s, x, y, i, m, j, t, e, n :
       Azure!SvcCopy(s, x, y, i, m, j, t, e, n) = SvcCopy(s, x, y, i, m, j, t, e, n)
BY DEF SvcPut, SvcGet, SvcCopy, SvcDelete, SvcDeleteBatch, Attempt, InBucket,
       No, Done, Reply, StoreObject, With, Without, Restrict, Range, Fails,
       Has, Etag, Lost, Nothing, ObjectOf, Slice, Azure!SvcPut, Azure!SvcGet,
       Azure!SvcCopy, Azure!SvcDelete, Azure!SvcDeleteBatch, Azure!Attempt,
       Azure!InBucket, Azure!No, Azure!Done, Azure!Reply, Azure!StoreObject,
       Azure!With, Azure!Without, Azure!Restrict, Azure!Range, Azure!Fails,
       Azure!Has, Azure!Etag, Azure!Lost, Azure!Nothing, Azure!ObjectOf,
       Azure!Slice

\* The Azure driver hands on the service's answer, success for success and
\* error for error.
LEMMA AzureAsk ==
  ASSUME NEW answers, NEW o \in Azure!Ask(answers)
  PROVE  \E a \in answers : Gives(a, o)
<1>1. PICK a \in answers : o = Azure!Answer(a)
  BY DEF Azure!Ask
<1> DEFINE err == Azure!MapError(a.store, Azure!SdkError(a.sit))
<1>2. /\ err.store = a.store /\ err.code # "ok"
      /\ a.sit \in Lost => err.code \notin RefusalCodes
      /\ err.code = "not_found" => a.sit \in Missing
      /\ a.sit \in Refusals \cup Lost => err.code \notin BlameCodes
  BY AzureMapError
<1>3. o = IF a.sit = "ok" THEN Azure!Ok(a.store, a.out) ELSE err
  BY <1>1 DEF Azure!Answer
<1> HIDE DEF err
<1>4. Gives(a, o)
  BY <1>2, <1>3 DEF Gives, Tells, Azure!Ok, Refusals, Lost
<1> QED BY <1>4

\* What is sent again was sent once.
LEMMA AzureSentAgain == \A answers : Azure!SentAgain(answers) \subseteq answers
BY DEF Azure!SentAgain

\* Put of the Azure driver keeps the store's shape, and a body that fails
\* stores nothing.
LEMMA AzurePut ==
  ASSUME NEW c, NEW s, NEW r, NEW o \in Azure!PutObject(c, s, r)
  PROVE  /\ SameFields(s, o.store)
         /\ r.body.fails => Declines(o, s)
<1> DEFINE at == Azure!At(c, r)
           obj == Azure!ObjectOf(Azure!ToReadSeekCloser(r.body, r.size),
                                 Azure!LowerMetadataKeys(r.meta), r.ctype)
           send(t) == Azure!SvcPut(t, at, obj, FALSE, {}, FALSE)
           kept(a) == [a EXCEPT !.store.ups = Azure!Without(@, at)]
           done(a) == IF a.sit = "ok" THEN kept(a) ELSE a
<1>1. CASE r.body.nil \/ r.size < 0 \/ r.body.fails
  <2>1. o \in {Azure!Refuse(s, "invalid_argument"), Azure!Refuse(s, "length_required"),
               Azure!Refuse(s, "internal")}
    BY <1>1 DEF Azure!PutObject
  <2>2. Declines(o, s)
    BY <2>1 DEF Azure!Refuse, Azure!Error, Declines
  <2> QED BY <2>2 DEF Declines, SameFields
<1>2. CASE ~r.body.nil /\ ~(r.size < 0) /\ ~r.body.fails
  <2> DEFINE sent == send(s) \cup UNION {send(a.store) : a \in send(s)}
  <2>1. PICK S \in SUBSET sent : o \in Azure!Ask({done(a) : a \in S})
    BY <1>2, AzureSentAgain DEF Azure!PutObject, Azure!Tries
  <2>2. PICK a \in sent : Gives(done(a), o)
    <3> HIDE DEF sent, done
    <3> QED BY <2>1, AzureAsk
  <2>3. \A t : \A b \in send(t) : SameFields(t, b.store) /\ b = Reply(b.store, b.sit, b.out)
    <3> HIDE DEF at, obj
    <3>1. \A t : send(t) = SvcPut(t, at, obj, FALSE, {}, FALSE)
      BY AzureService
    <3>2. ASSUME NEW t, NEW b \in SvcPut(t, at, obj, FALSE, {}, FALSE)
          PROVE  b = Reply(b.store, b.sit, b.out)
      BY SvcPutForm
    <3>3. ASSUME NEW t, NEW b \in SvcPut(t, at, obj, FALSE, {}, FALSE)
          PROVE  SameFields(t, b.store)
      BY SvcPutKeepsFields
    <3> HIDE DEF send
    <3> QED BY <3>1, <3>2, <3>3
  <2>4. SameFields(s, a.store) /\ a = Reply(a.store, a.sit, a.out)
    <3> HIDE DEF send
    <3> QED BY <2>3 DEF SameFields
  <2>5. DOMAIN done(a).store = DOMAIN a.store
    <3> HIDE DEF at
    <3>1. kept(a).store = [a.store EXCEPT !.ups = Azure!Without(@, at)]
      BY <2>4 DEF Reply
    <3> QED BY <3>1
  <2> QED BY <2>2, <2>4, <2>5, <1>2 DEF Gives, Tells, SameFields
<1> QED BY <1>1, <1>2

\* A Get of the Azure driver that succeeds gives the bytes the range asks for.
LEMMA AzureGet ==
  ASSUME NEW c, NEW s, NEW r, NamesView(c, r), AsksRange(r),
         NEW o \in Azure!GetObject(c, s, r)
  PROVE  ReadsRange(s, r, o)
<1> DEFINE rng == Azure!BuildHTTPRange(r.first, r.last)
           end == IF rng.count = 0 THEN -1 ELSE rng.offset + rng.count - 1
           send(t) == SvcGet(t, <<r.bucket, r.key>>, r.first, r.last, {})
<1>1. rng.offset = r.first /\ end = r.last
  BY DEF Azure!BuildHTTPRange, AsksRange
<1>2. Azure!At(c, r) = <<r.bucket, r.key>>
  BY DEF Azure!At, Azure!PickBucket, NamesView
<1>3. \A t : Azure!SvcGet(t, Azure!At(c, r), rng.offset, end, {}) = send(t)
  BY <1>1, <1>2, AzureService
<1> DEFINE sent == send(s) \cup UNION {send(a.store) : a \in send(s)}
<1>4. PICK S \in SUBSET sent : o \in Azure!Ask(S)
  BY <1>3, AzureSentAgain DEF Azure!GetObject, Azure!Tries
<1>5. PICK a \in sent : Gives(a, o)
  <2> HIDE DEF sent
  <2> QED BY <1>4, AzureAsk
<1>6. a \in send(s)
  <2>1. \A b \in send(s) : b.store = s
    BY SvcGetDoes
  <2> HIDE DEF send
  <2> QED BY <2>1
<1> QED BY <1>5, <1>6, GetReads

\* Delete of the Azure driver only removes.
LEMMA AzureDeleteAt ==
  ASSUME NEW s, NEW at, NEW o \in Azure!DeleteAt(s, at)
  PROVE  Shrinks(s, o.store)
<1> DEFINE send(t) == Azure!SvcDelete(t, at, TRUE)
           sent == send(s) \cup UNION {send(a.store) : a \in send(s)}
<1>1. PICK S \in SUBSET sent : o \in Azure!Ask(S)
  BY AzureSentAgain DEF Azure!DeleteAt, Azure!Tries
<1>2. PICK a \in sent : Gives(a, o)
  <2> HIDE DEF sent
  <2> QED BY <1>1, AzureAsk
<1>3. ASSUME NEW t, NEW b \in send(t) PROVE Shrinks(t, b.store)
  <2>1. b \in SvcDelete(t, at, TRUE)
    BY <1>3, AzureService
  <2> QED BY <2>1, SvcDeleteShrinks
<1> HIDE DEF send
<1>4. Shrinks(s, a.store)
  BY <1>3, ShrinksTransitive
<1> QED BY <1>2, <1>4 DEF Gives, Tells

\* Delete of the Azure driver only removes.
LEMMA AzureDelete ==
  ASSUME NEW c, NEW s, NEW r, NEW o \in Azure!DeleteObject(c, s, r)
  PROVE  Shrinks(s, o.store)
<1>1. PICK p \in Azure!DeleteAt(s, Azure!At(c, r)) : o.store = p.store
  BY DEF Azure!DeleteObject, Azure!Ok
<1> QED BY <1>1, AzureDeleteAt

\* Copy of the Azure driver: what it leaves is the source, whatever the
\* run of its retries.
LEMMA AzureCopy ==
  ASSUME NEW c, NEW s, "objs" \in DOMAIN s, NEW r, CopiesFrom(r), NamesView(c, r),
         r.srcKey # r.key, NEW o \in Azure!CopyObject(c, s, r)
  PROVE  SameFields(s, o.store) /\ CopiesSource(s, r, o)
<1> DEFINE src == <<r.bucket, r.srcKey>>
           dst == <<r.bucket, r.key>>
           replace == r.meta # "nil"
           send(t) == SvcCopy(t, src, dst, replace, r.meta, FALSE, "none", {}, FALSE)
           sent == send(s) \cup UNION {send(a.store) : a \in send(s)}
           from == <<IF r.srcBucket = "" THEN c.bucket ELSE r.srcBucket, r.srcKey>>
           meta == Azure!LowerMetadataKeys(r.meta)
           raw(t) == Azure!SvcCopy(t, from, dst, meta # "nil", meta, FALSE, "none", {}, FALSE)
<1>1. from = src /\ meta = r.meta
  BY DEF CopiesFrom, NamesView, Azure!LowerMetadataKeys
<1>2. \A t : raw(t) = send(t)
  <2>1. \A t : raw(t) = Azure!SvcCopy(t, src, dst, replace, r.meta, FALSE, "none", {}, FALSE)
    <3> HIDE DEF from, meta, src, dst
    <3> QED BY <1>1
  <2> HIDE DEF src, dst, replace, raw
  <2> QED BY <2>1, AzureService
<1>3. PICK S \in SUBSET sent : o \in Azure!Ask(S)
  <2>1. o \in Azure!Ask(raw(s) \cup UNION {raw(a.store) : a \in Azure!SentAgain(raw(s))})
    BY DEF Azure!CopyObject, Azure!Tries
  <2> HIDE DEF raw, send
  <2>2. raw(s) \cup UNION {raw(a.store) : a \in Azure!SentAgain(raw(s))} \subseteq sent
    BY <1>2, AzureSentAgain
  <2> QED BY <2>1, <2>2
<1>4. PICK a \in sent : Gives(a, o)
  <2> HIDE DEF sent
  <2> QED BY <1>3, AzureAsk
<1>5. \A t : Speaks(t, send(t))
  <2> HIDE DEF src, dst, replace
  <2>1. ASSUME NEW t
        PROVE  Speaks(t, SvcCopy(t, src, dst, replace, r.meta, FALSE, "none", {}, FALSE))
    BY SvcCopySpeaks
  <2> QED BY <2>1
<1>6. ASSUME NEW t, "objs" \in DOMAIN t, NEW b \in send(t), Tells(b, o)
      PROVE  CopiesSource(t, r, o)
  <2> DEFINE no == FALSE
  <2>1. no \in BOOLEAN /\ replace \in BOOLEAN /\ (replace <=> r.meta # "nil")
    OBVIOUS
  <2>2. b \in SvcCopy(t, <<r.bucket, r.srcKey>>, <<r.bucket, r.key>>, replace,
                      r.meta, no, "none", {}, no)
    BY <1>6
  <2> HIDE DEF no, replace, send
  <2> QED BY <1>6, <2>1, <2>2, CopyIsOfSource
<1>7. CASE a \in send(s)
  <2> HIDE DEF send
  <2> QED BY <1>4, <1>5, <1>6, <1>7, TellsHonest DEF Gives
<1>8. CASE \E b \in send(s) : a \in send(b.store)
  <2> HIDE DEF send
  <2>1. PICK b \in send(s) : a \in send(b.store)
    BY <1>8
  <2>2. SameFields(s, b.store) /\ SameFields(b.store, o.store)
    BY <1>4, <1>5, <2>1, TellsHonest DEF Gives, Speaks
  <2>3. CopiesSource(b.store, r, o)
    BY <1>4, <1>6, <2>1, <2>2 DEF Gives, SameFields
  <2>4. Adds(s, dst, b.store)
    <3> HIDE DEF src, dst, replace
    <3>1. ASSUME NEW x \in SvcCopy(s, src, dst, replace, r.meta, FALSE, "none", {}, FALSE)
          PROVE  Adds(s, dst, x.store)
      BY SvcCopyAdds DEF AnswersAdd
    <3> QED BY <2>1, <3>1 DEF send
  <2>5. src # dst
    OBVIOUS
  <2> QED BY <2>2, <2>3, <2>4, <2>5 DEF SameFields, CopiesSource, Adds
<1> QED BY <1>4, <1>7, <1>8

\* DeleteMany's loop takes one turn after the other.
LEMMA AzureLoop ==
  ASSUME NEW c, NEW r, NEW base, NEW n \in 1..2
  PROVE  Azure!Loop(LAMBDA acc, i : Azure!DeleteKey(c, r, acc, r.keys[i]), base, n) =
           IF n = 1 THEN Azure!DeleteKey(c, r, base, r.keys[1])
           ELSE Azure!DeleteKey(c, r, Azure!DeleteKey(c, r, base, r.keys[1]), r.keys[2])
<1> DEFINE one == Azure!DeleteKey(c, r, base, r.keys[1])
           two == Azure!DeleteKey(c, r, one, r.keys[2])
           Unfolds(f) == f = [i \in 0..n |-> IF i = 0 THEN base
                                             ELSE Azure!DeleteKey(c, r, f[i - 1], r.keys[i])]
           f == [i \in 0..n |-> IF i = 0 THEN base ELSE IF i = 1 THEN one ELSE two]
           after == CHOOSE g : Unfolds(g)
<1>1. Unfolds(f)
  <2>1. ASSUME NEW i \in 0..n
        PROVE  f[i] = IF i = 0 THEN base ELSE Azure!DeleteKey(c, r, f[i - 1], r.keys[i])
    <3> HIDE DEF one, two
    <3>1. i = 0 \/ (i = 1 /\ f[i - 1] = base) \/ (i = 2 /\ f[i - 1] = one)
      OBVIOUS
    <3> QED BY <3>1 DEF one, two
  <2> QED BY <2>1
<1>2. Unfolds(after)
  BY <1>1
<1>3. Azure!Loop(LAMBDA acc, i : Azure!DeleteKey(c, r, acc, r.keys[i]), base, n) = after[n]
  BY DEF Azure!Loop
<1> HIDE DEF after
<1>4. after[0] = base /\ after[1] = one
  BY <1>2
<1>5. after[n] = IF n = 1 THEN one ELSE two
  BY <1>2, <1>4
<1> QED BY <1>3, <1>5, Zenon

\* A key that the Azure driver deleted, or did not find, is gone, whichever of
\* its tries was answered.
LEMMA AzureRemoves ==
  ASSUME NEW s, NEW b, NEW k, HasBucket(s, b),
         NEW o \in Azure!DeleteAt(s, <<b, k>>)
  PROVE  Shrinks(s, o.store) /\ (o.code \in {"ok", "not_found"} => ~Has(o.store, <<b, k>>))
<1> DEFINE at == <<b, k>>
           send(t) == Azure!SvcDelete(t, at, TRUE)
           sent == send(s) \cup UNION {send(a.store) : a \in send(s)}
           Found(a) == ~Has(a.store, at) \/ a.sit \in Refusals \cup Lost
<1>1. PICK S \in SUBSET sent : o \in Azure!Ask(S)
  BY AzureSentAgain DEF Azure!DeleteAt, Azure!Tries
<1>2. ASSUME NEW t, HasBucket(t, b), NEW a \in send(t)
      PROVE  Shrinks(t, a.store) /\ Found(a)
  <2>1. a \in SvcDelete(t, at, TRUE)
    BY <1>2, AzureService
  <2> QED BY <1>2, <2>1, SvcDeleteShrinks, SvcDeleteFinds
<1> HIDE DEF send, Found
<1>3. \A a \in sent : Shrinks(s, a.store) /\ Found(a)
  BY <1>2, ShrinksTransitive, ShrinksKeepsBucket
<1> HIDE DEF sent
<1>4. PICK a \in sent : Gives(a, o)
  BY <1>1, AzureAsk
<1>5. o.code \in {"ok", "not_found"} => a.sit \notin Refusals \cup Lost
  BY <1>4 DEF Gives, Tells, Missing, Refusals, Lost
<1> QED BY <1>3, <1>4, <1>5 DEF Gives, Tells, Found

\* One key of DeleteMany, after the keys K.
LEMMA AzureDeleteKey ==
  ASSUME NEW c, NEW r, NamesView(c, r), NEW s, HasBucket(s, r.bucket), NEW acc, NEW K, NEW k,
         \A a \in acc : Keyed(s, r.bucket, K, r.quiet, a), NEW o \in Azure!DeleteKey(c, r, acc, k)
  PROVE  Keyed(s, r.bucket, K \cup {k}, r.quiet, o)
<1> DEFINE b == r.bucket
           call(a) == Azure!DeleteAt(a.store, <<b, k>>)
           turn(a, p) == IF p.code = "ok" \/ Azure!Missing(p)
                         THEN [store |-> p.store, failed |-> a.failed,
                               deleted |-> IF r.quiet THEN {} ELSE a.deleted \cup {k}]
                         ELSE [store |-> p.store, failed |-> a.failed \cup {k}, deleted |-> a.deleted]
<1>1. PICK a \in acc : \E p \in call(a) : o = turn(a, p)
  BY DEF Azure!DeleteKey, Azure!PickBucket, NamesView
<1>2. PICK p \in call(a) : o = turn(a, p)
  BY <1>1
<1>3. HasBucket(a.store, b)
  BY ShrinksKeepsBucket DEF Keyed
<1>4. Shrinks(a.store, p.store) /\ (p.code \in {"ok", "not_found"} => ~Has(p.store, <<b, k>>))
  BY <1>2, <1>3, AzureRemoves
<1> HIDE DEF call
<1>5. TakesKey(a, b, k, r.quiet, o)
  BY <1>2, <1>4 DEF TakesKey, Azure!Missing
<1> QED BY <1>5, KeyedNext

\* DeleteMany of the Azure driver removes its keys and accounts for them.
LEMMA AzureDeleteMany ==
  ASSUME NEW c, NEW s, NEW r, NamesView(c, r), ShortList(r.keys), HasBucket(s, r.bucket),
         NEW o \in Azure!DeleteMany(c, s, r)
  PROVE  Shrinks(s, o.store) /\ Accounts(s, r.bucket, Range(r.keys), r.quiet, o)
<1> DEFINE none == [store |-> s, deleted |-> {}, failed |-> {}]
           n == Len(r.keys)
           one == Azure!DeleteKey(c, r, {none}, r.keys[1])
           two == Azure!DeleteKey(c, r, one, r.keys[2])
           ends == Azure!Loop(LAMBDA acc, i : Azure!DeleteKey(c, r, acc, r.keys[i]), {none}, n)
           done == {Azure!Ok(end.store, [deleted |-> end.deleted, failed |-> end.failed])
                    : end \in ends}
           Upto(K, acc) == \A a \in acc : Keyed(s, r.bucket, K, r.quiet, a)
<1>1. \/ n = 1 /\ Range(r.keys) = {r.keys[1]}
      \/ n = 2 /\ Range(r.keys) = {r.keys[1], r.keys[2]}
  BY ShortLists
<1>2. o \in done
  BY DEF Azure!DeleteMany
<1>3. Upto({}, {none})
  BY KeyedStart
<1> HIDE DEF none, n
<1>4. Upto({} \cup {r.keys[1]}, one)
  BY <1>3, AzureDeleteKey
<1>5. {} \cup {r.keys[1]} = {r.keys[1]}
  OBVIOUS
<1>6. Upto({r.keys[1]}, one)
  BY <1>4, <1>5, Zenon
<1> HIDE DEF one
<1>7. Upto({r.keys[1]} \cup {r.keys[2]}, two)
  BY <1>6, AzureDeleteKey
<1>8. {r.keys[1]} \cup {r.keys[2]} = {r.keys[1], r.keys[2]}
  OBVIOUS
<1>9. Upto({r.keys[1], r.keys[2]}, two)
  BY <1>7, <1>8, Zenon
<1>10. n \in 1..2
  BY <1>1
<1>11. ends = IF n = 1 THEN one ELSE two
  BY <1>10, AzureLoop, Zenon DEF one
<1> HIDE DEF ends, two
<1>12. Upto(Range(r.keys), ends)
  BY <1>1, <1>6, <1>9, <1>11
<1>13. \A p \in done : Shrinks(s, p.store) /\ Accounts(s, r.bucket, Range(r.keys), r.quiet, p)
  <2>1. ASSUME NEW end \in ends, NEW p, p = Azure!Ok(end.store, [deleted |-> end.deleted, failed |-> end.failed])
        PROVE  Shrinks(s, p.store) /\ Accounts(s, r.bucket, Range(r.keys), r.quiet, p)
    <3>1. /\ p.store = end.store /\ p.code = "ok"
          /\ p.out = [deleted |-> end.deleted, failed |-> end.failed]
      BY <2>1 DEF Azure!Ok
    <3>2. Keyed(s, r.bucket, Range(r.keys), r.quiet, end)
      BY <1>12, <2>1
    <3> QED BY <3>1, <3>2, KeyedAccounts
  <2> QED BY <2>1
<1> HIDE DEF done
<1> QED BY <1>2, <1>13

-----------------------------------------------------------------------------
(* Qiniu *)

\* No entry of the Qiniu driver's error tables is the code of a success.
LEMMA QiniuTables ==
  /\ \A x : Qiniu!MapQiniuReason(x) # "ok"
  /\ \A x : Qiniu!MapHTTPStatus(x) # "ok"
  /\ \A x : Qiniu!MapContextErr(x) # "ok"
BY DEF Qiniu!MapQiniuReason, Qiniu!MapHTTPStatus, Qiniu!MapContextErr, Qiniu!NoCode

\* An answer that was lost is none of the refusals the Qiniu driver's
\* tables know.
LEMMA QiniuLostTables ==
  ASSUME NEW sit \in Lost
  PROVE  LET e == Qiniu!SdkError(sit)
         IN /\ Qiniu!MapQiniuReason(e.reason) \in {Qiniu!NoCode, "temporary"}
            /\ Qiniu!MapHTTPStatus(e.status) \in {Qiniu!NoCode, "temporary"}
            /\ Qiniu!MapContextErr(e.ctx) \in {Qiniu!NoCode, "timeout"}
            /\ ~e.missing
<1> DEFINE e == Qiniu!SdkError(sit)
<1>1. /\ e.reason \in {""} /\ e.status \in {599, 0}
      /\ ~e.missing
  <2>1. e.reason \in {""}
    BY DEF Qiniu!SdkError, Lost
  <2>2. e.status \in {599, 0}
    BY DEF Qiniu!SdkError, Lost
  <2>3. ~e.missing
    BY DEF Qiniu!SdkError, Lost
  <2> QED BY <2>1, <2>2, <2>3
<1>2. \A x \in {""} : Qiniu!MapQiniuReason(x) \in {Qiniu!NoCode, "temporary"}
  BY DEF Qiniu!MapQiniuReason
<1>3. \A x \in {599, 0} : Qiniu!MapHTTPStatus(x) \in {Qiniu!NoCode, "temporary"}
  BY DEF Qiniu!MapHTTPStatus
<1>4. Qiniu!MapContextErr(e.ctx) \in {Qiniu!NoCode, "timeout"}
  BY DEF Qiniu!MapContextErr
<1>6. e.status \in {599, 0}
  BY <1>1
<1> HIDE DEF e
<1>5. /\ Qiniu!MapQiniuReason(e.reason) \in {Qiniu!NoCode, "temporary"}
      /\ Qiniu!MapHTTPStatus(e.status) \in {Qiniu!NoCode, "temporary"}
  <2>1. Qiniu!MapQiniuReason(e.reason) \in {Qiniu!NoCode, "temporary"}
    BY <1>1, <1>2, Zenon
  <2>2. Qiniu!MapHTTPStatus(e.status) \in {Qiniu!NoCode, "temporary"}
    BY <1>3, <1>6
  <2> QED BY <2>1, <2>2
<1> QED BY <1>1, <1>4, <1>5 DEF e

\* What the Qiniu driver makes of an error comes from its tables, or is
\* "internal".
LEMMA QiniuMapErrorCode ==
  ASSUME NEW s, NEW e
  PROVE  /\ Qiniu!MapError(s, e).store = s
         /\ \/ /\ Qiniu!MapError(s, e).code # Qiniu!NoCode
               /\ Qiniu!MapError(s, e).code \in
                    {Qiniu!MapContextErr(e.ctx), Qiniu!MapQiniuReason(e.reason),
                     Qiniu!MapHTTPStatus(e.status), "internal"}
            \/ e.missing /\ Qiniu!MapError(s, e).code = "not_found"
<1>1. CASE e.missing
  BY <1>1 DEF Qiniu!MapError, Qiniu!Error, Qiniu!Refuse, Qiniu!NoCode
<1>2. CASE ~e.missing /\ e.status # 0 /\ Qiniu!MapQiniuReason(e.reason) # Qiniu!NoCode
  BY <1>2 DEF Qiniu!MapError, Qiniu!Error, Qiniu!Refuse, Qiniu!NoCode
<1>3. CASE /\ ~e.missing /\ e.status # 0 /\ Qiniu!MapQiniuReason(e.reason) = Qiniu!NoCode
          /\ Qiniu!MapHTTPStatus(e.status) # Qiniu!NoCode
  BY <1>3 DEF Qiniu!MapError, Qiniu!Error, Qiniu!Refuse, Qiniu!NoCode
<1>4. CASE /\ ~e.missing /\ e.status # 0 /\ Qiniu!MapQiniuReason(e.reason) = Qiniu!NoCode
          /\ Qiniu!MapHTTPStatus(e.status) = Qiniu!NoCode
  BY <1>4 DEF Qiniu!MapError, Qiniu!Error, Qiniu!Refuse, Qiniu!NoCode
<1>5. CASE ~e.missing /\ e.status = 0 /\ Qiniu!MapContextErr(e.ctx) # Qiniu!NoCode
  BY <1>5 DEF Qiniu!MapError, Qiniu!Error, Qiniu!Refuse, Qiniu!NoCode
<1>6. CASE ~e.missing /\ e.status = 0 /\ Qiniu!MapContextErr(e.ctx) = Qiniu!NoCode
  BY <1>6 DEF Qiniu!MapError, Qiniu!Error, Qiniu!Refuse, Qiniu!NoCode
<1> QED BY <1>1, <1>2, <1>3, <1>4, <1>5, <1>6

\* Only what is missing is worded so that the Qiniu driver calls it not found.
LEMMA QiniuFound ==
  ASSUME NEW s, NEW sit, sit \notin Missing
  PROVE  Qiniu!MapError(s, Qiniu!SdkError(sit)).code # "not_found"
<1> DEFINE e == Qiniu!SdkError(sit)
           words == {"bucket exists", "access denied", "bad token", "too many requests",
                     ""}
           numbers == {614, 400, 416, 403, 401, 573, 504, 599, 503, 0}
<1>1. e.reason \in words
  BY DEF Qiniu!SdkError, Missing
<1>2. e.status \in numbers
  BY DEF Qiniu!SdkError, Missing
<1>3. ~e.missing
  BY DEF Qiniu!SdkError, Missing
<1>4. \A x \in words : Qiniu!MapQiniuReason(x) # "not_found"
  BY DEF Qiniu!MapQiniuReason, Qiniu!NoCode
<1>5. \A x \in numbers : Qiniu!MapHTTPStatus(x) # "not_found"
  BY DEF Qiniu!MapHTTPStatus, Qiniu!NoCode
<1>6. Qiniu!MapContextErr(e.ctx) # "not_found"
  BY DEF Qiniu!MapContextErr, Qiniu!NoCode
<1> DEFINE code == Qiniu!MapError(s, e).code
<1> HIDE DEF e, words, numbers
<1>7. Qiniu!MapQiniuReason(e.reason) # "not_found" /\ Qiniu!MapHTTPStatus(e.status) # "not_found"
  BY <1>1, <1>2, <1>4, <1>5
<1>8. code # "not_found"
  <2>1. \/ code \in {Qiniu!MapContextErr(e.ctx), Qiniu!MapQiniuReason(e.reason),
                   Qiniu!MapHTTPStatus(e.status), "internal"}
        \/ code = "already_exists"
    BY <1>3, QiniuMapErrorCode
  <2> HIDE DEF code
  <2> QED BY <2>1, <1>6, <1>7
<1> QED BY <1>8 DEF code, e

\* A fault of the service is worded so that the Qiniu driver does not blame the
\* request.
LEMMA QiniuFaults ==
  ASSUME NEW s, NEW sit \in Refusals \cup Lost
  PROVE  Qiniu!MapError(s, Qiniu!SdkError(sit)).code \notin BlameCodes
<1> DEFINE e == Qiniu!SdkError(sit)
           words == {"access denied", "bad token", "too many requests", ""}
           numbers == {403, 401, 573, 504, 599, 503, 0}
<1>1. e.reason \in words
  BY DEF Qiniu!SdkError, Refusals, Lost
<1>2. e.status \in numbers
  BY DEF Qiniu!SdkError, Refusals, Lost
<1>3. ~e.missing
  BY DEF Qiniu!SdkError, Refusals, Lost
<1>4. \A x \in words : Qiniu!MapQiniuReason(x) \notin BlameCodes
  BY DEF Qiniu!MapQiniuReason, Qiniu!NoCode, BlameCodes
<1>5. \A x \in numbers : Qiniu!MapHTTPStatus(x) \in {"permission_denied", "unauthenticated",
                                        "rate_limited", "timeout", "temporary", Qiniu!NoCode}
  BY DEF Qiniu!MapHTTPStatus, Qiniu!NoCode
<1>6. Qiniu!MapContextErr(e.ctx) \notin BlameCodes /\ "internal" \notin BlameCodes
  BY DEF Qiniu!MapContextErr, Qiniu!NoCode, BlameCodes
<1> DEFINE code == Qiniu!MapError(s, e).code
<1> HIDE DEF e, words, numbers
<1>7. Qiniu!MapQiniuReason(e.reason) \notin BlameCodes /\ Qiniu!MapHTTPStatus(e.status) \notin BlameCodes
  BY <1>1, <1>2, <1>4, <1>5 DEF BlameCodes, Qiniu!NoCode
<1>8. code \notin BlameCodes
  <2>1. code \in {Qiniu!MapContextErr(e.ctx), Qiniu!MapQiniuReason(e.reason),
                 Qiniu!MapHTTPStatus(e.status), "internal"}
    BY <1>3, QiniuMapErrorCode
  <2> HIDE DEF code
  <2> QED BY <2>1, <1>6, <1>7
<1> QED BY <1>8 DEF code, e

\* MapError of the Qiniu driver leaves the store alone, never says "ok", never
\* takes a lost answer for a refusal, calls nothing else not found, and does not
\* blame the request for a fault.
LEMMA QiniuMapError ==
  ASSUME NEW s, NEW sit
  PROVE  LET o == Qiniu!MapError(s, Qiniu!SdkError(sit))
         IN /\ o.store = s /\ o.code # "ok"
            /\ sit \in Lost => o.code \notin RefusalCodes
            /\ o.code = "not_found" => sit \in Missing
            /\ sit \in Refusals \cup Lost => o.code \notin BlameCodes
<1> DEFINE o == Qiniu!MapError(s, Qiniu!SdkError(sit))
<1>1. o.store = s /\ o.code # "ok"
  BY QiniuMapErrorCode, QiniuTables
<1>2. ASSUME sit \in Lost PROVE o.code \in {"temporary", "timeout", "internal"}
  BY <1>2, QiniuMapErrorCode, QiniuLostTables
<1>3. o.code = "not_found" => sit \in Missing
  BY QiniuFound
<1>4. sit \in Refusals \cup Lost => o.code \notin BlameCodes
  BY QiniuFaults
<1> QED
  BY <1>1, <1>2, <1>3, <1>4 DEF RefusalCodes

\* The service the Qiniu driver talks to is the one of ObjectService.
LEMMA QiniuService ==
  /\ \A s, at, o, f, m, n : Qiniu!SvcPut(s, at, o, f, m, n) = SvcPut(s, at, o, f, m, n)
  /\ \A s, at, f, l, m : Qiniu!SvcGet(s, at, f, l, m) = SvcGet(s, at, f, l, m)
  /\ \A s, at, strict : Qiniu!SvcDelete(s, at, strict) = SvcDelete(s, at, strict)
  /\ \A s, b, k, q : Qiniu!SvcDeleteBatch(s, b, k, q) = SvcDeleteBatch(s, b, k, q)
  /\ \A s, x, y, i, m, j, t, e, n :
       Qiniu!SvcCopy(s, x, y, i, m, j, t, e, n) = SvcCopy(s, x, y, i, m, j, t, e, n)
BY DEF SvcPut, SvcGet, SvcCopy, SvcDelete, SvcDeleteBatch, Attempt, InBucket,
       No, Done, Reply, StoreObject, With, Without, Restrict, Range, Fails,
       Has, Etag, Lost, Nothing, ObjectOf, Slice, Qiniu!SvcPut, Qiniu!SvcGet,
       Qiniu!SvcCopy, Qiniu!SvcDelete, Qiniu!SvcDeleteBatch, Qiniu!Attempt,
       Qiniu!InBucket, Qiniu!No, Qiniu!Done, Qiniu!Reply, Qiniu!StoreObject,
       Qiniu!With, Qiniu!Without, Qiniu!Restrict, Qiniu!Range, Qiniu!Fails,
       Qiniu!Has, Qiniu!Etag, Qiniu!Lost, Qiniu!Nothing, Qiniu!ObjectOf,
       Qiniu!Slice

\* The Qiniu driver hands on the service's answer, success for success and
\* error for error.
LEMMA QiniuAsk ==
  ASSUME NEW answers, NEW o \in Qiniu!Ask(answers)
  PROVE  \E a \in answers : Gives(a, o)
<1>1. PICK a \in answers : o = Qiniu!Answer(a)
  BY DEF Qiniu!Ask
<1> DEFINE err == Qiniu!MapError(a.store, Qiniu!SdkError(a.sit))
<1>2. /\ err.store = a.store /\ err.code # "ok"
      /\ a.sit \in Lost => err.code \notin RefusalCodes
      /\ err.code = "not_found" => a.sit \in Missing
      /\ a.sit \in Refusals \cup Lost => err.code \notin BlameCodes
  BY QiniuMapError
<1>3. o = IF a.sit = "ok" THEN Qiniu!Ok(a.store, a.out) ELSE err
  BY <1>1 DEF Qiniu!Answer
<1> HIDE DEF err
<1>4. Gives(a, o)
  BY <1>2, <1>3 DEF Gives, Tells, Qiniu!Ok, Refusals, Lost
<1> QED BY <1>4

\* Put of the Qiniu driver sends the body, with the preconditions it forwards,
\* or declines.
LEMMA QiniuPut ==
  ASSUME NEW c, NEW s, NEW r, NamesView(c, r),
         NEW o \in Qiniu!PutObject(c, s, r)
  PROVE  Declines(o, s) \/ SendsPut(s, r, {}, FALSE, o)
<1> DEFINE obj == ObjectOf(r.body.bytes, Qiniu!BuildPutParams(r.meta), r.ctype)
           answers == SvcPut(s, <<r.bucket, r.key>>, obj, r.body.fails, {}, FALSE)
<1>1. CASE r.body.nil \/ r.size < 0
  <2>1. o \in {Qiniu!Refuse(s, "invalid_argument"), Qiniu!Refuse(s, "length_required")}
    BY <1>1 DEF Qiniu!PutObject
  <2>2. Declines(o, s)
    BY <2>1 DEF Qiniu!Refuse, Qiniu!Error, Declines
  <2> QED BY <2>2
<1>2. CASE ~r.body.nil /\ ~(r.size < 0)
  <2>1. Qiniu!PutObject(c, s, r) = Qiniu!Ask(answers)
    BY <1>2, QiniuService DEF Qiniu!PutObject, Qiniu!At, Qiniu!PickBucket, Qiniu!ObjectOf, ObjectOf, NamesView
  <2>2. Declines(o, s) \/ \E a \in answers : Gives(a, o)
    BY <2>1, QiniuAsk
  <2> QED BY <2>2 DEF Gives, SendsPut
<1> QED BY <1>1, <1>2

\* A Get of the Qiniu driver that succeeds gives the bytes the range asks for.
LEMMA QiniuGet ==
  ASSUME NEW c, NEW s, NEW r, NamesView(c, r), AsksRange(r),
         NEW o \in Qiniu!GetObject(c, s, r)
  PROVE  ReadsRange(s, r, o)
<1> DEFINE answers == SvcGet(s, <<r.bucket, r.key>>, r.first, r.last, {})
<1>1. Qiniu!SvcGet(s, <<c.bucket, r.key>>, Qiniu!BuildRangeHeader(r.first, r.last).first,
                   Qiniu!BuildRangeHeader(r.first, r.last).last, {}) = answers
  BY QiniuService DEF Qiniu!BuildRangeHeader, AsksRange, NamesView
<1> HIDE DEF answers
<1>2. CASE ~c.signs
  <2>1. o = Qiniu!NewUnsupported(s, "object.crud")
    BY <1>2 DEF Qiniu!GetObject
  <2> QED BY <2>1 DEF Qiniu!NewUnsupported, Qiniu!Error, ReadsRange
<1>3. CASE c.signs
  <2>1. PICK a \in answers : o = IF a.sit = "ok" THEN Qiniu!Ok(a.store, a.out)
                                 ELSE Qiniu!MapError(a.store, Qiniu!StatusError(a.sit))
    BY <1>1, <1>3 DEF Qiniu!GetObject
  <2>2. CASE a.sit = "ok"
    <3>1. Gives(a, o)
      BY <2>1, <2>2 DEF Qiniu!Ok, Gives, Tells, Refusals, Lost
    <3> QED BY <3>1, GetReads DEF answers
  <2>3. CASE a.sit # "ok"
    <3>1. o.code # "ok"
      BY <2>1, <2>3, QiniuMapErrorCode, QiniuTables
    <3> QED BY <3>1 DEF ReadsRange
  <2> QED BY <2>2, <2>3
<1> QED BY <1>2, <1>3

\* Delete of the Qiniu driver only removes, and a refusal removes nothing.
LEMMA QiniuDelete ==
  ASSUME NEW c, NEW s, NEW r, NEW o \in Qiniu!DeleteObject(c, s, r)
  PROVE  Shrinks(s, o.store) /\ Honest(s, o)
<1> DEFINE answers == SvcDelete(s, Qiniu!At(c, r), TRUE)
<1>1. Qiniu!SvcDelete(s, Qiniu!At(c, r), TRUE) = answers
  BY QiniuService
<1>2. Speaks(s, answers) /\ \A a \in answers : Shrinks(s, a.store)
  BY SvcDeleteSpeaks, SvcDeleteShrinks
<1> HIDE DEF answers
<1>3. \E p \in Qiniu!Management(answers) :
        o = IF Qiniu!Missing(p) THEN Qiniu!Ok(p.store, Qiniu!Nothing) ELSE p
  BY <1>1 DEF Qiniu!DeleteObject
<1>4. PICK p \in Qiniu!Management(answers) :
        o = IF Qiniu!Missing(p) THEN Qiniu!Ok(p.store, Qiniu!Nothing) ELSE p
  BY <1>3
<1>5. PICK a \in answers : Gives(a, p)
  BY <1>4, QiniuAsk DEF Qiniu!Management
<1>6. Shrinks(s, p.store) /\ Honest(s, p)
  BY <1>2, <1>5, TellsHonest DEF Gives, Tells
<1>7. o = p \/ (o.store = p.store /\ o.code = "ok")
  BY <1>4 DEF Qiniu!Ok
<1> QED BY <1>6, <1>7 DEF Honest, RefusalCodes

\* Copy of the Qiniu driver creates no other object, and a refusal copies
\* nothing.
LEMMA QiniuCopy ==
  ASSUME NEW c, NEW s, NEW r, NEW o \in Qiniu!CopyObject(c, s, r)
  PROVE  SameFields(s, o.store) /\ Honest(s, o)
<1> DEFINE src == <<IF r.srcBucket = "" THEN c.bucket ELSE r.srcBucket, r.srcKey>>
           dst == <<r.bucket, r.key>>
           answers == SvcCopy(s, src, dst, FALSE, "nil", FALSE, "none", {}, FALSE)
<1>1. answers = Qiniu!SvcCopy(s, src, dst, FALSE, "nil", FALSE, "none", {}, FALSE)
  <2> HIDE DEF src, dst
  <2> QED BY QiniuService
<1>2. Speaks(s, answers)
  <2> HIDE DEF src, dst
  <2> QED BY SvcCopySpeaks
<1> HIDE DEF answers
<1>3. PICK p \in Qiniu!Management(answers) :
        o \in IF p.code # "ok" THEN {p}
              ELSE {IF h.code = "ok" THEN p ELSE Qiniu!Ok(p.store, [etag |-> <<>>])
                    : h \in Qiniu!Management(Qiniu!SvcHead(p.store, <<r.bucket, r.key>>))}
  BY <1>1 DEF Qiniu!CopyObject
<1>4. o = p \/ (o.store = p.store /\ o.code = "ok")
  <2>1. o = p \/ o = Qiniu!Ok(p.store, [etag |-> <<>>])
    BY <1>3
  <2> QED BY <2>1 DEF Qiniu!Ok
<1>5. PICK a \in answers : Gives(a, p)
  BY <1>3, QiniuAsk DEF Qiniu!Management
<1>6. SameFields(s, p.store) /\ Honest(s, p)
  BY <1>2, <1>5, TellsHonest DEF Gives
<1> QED BY <1>4, <1>6 DEF Honest, RefusalCodes

\* Every outcome of the Qiniu driver is well formed.
LEMMA QiniuAskForm ==
  ASSUME NEW answers, NEW o \in Qiniu!Ask(answers)
  PROVE  WellFormed(o)
<1>1. \A t, code, retry, cap : WellFormed(Qiniu!Error(t, code, retry, cap))
  BY DEF Qiniu!Error, Qiniu!Nothing, WellFormed, Deleted
<1>2. \A t, out : WellFormed(Qiniu!Ok(t, out))
  BY DEF Qiniu!Ok, WellFormed
<1>3. \A t, e : WellFormed(Qiniu!MapError(t, e))
  BY <1>1, Zenon DEF Qiniu!MapError, Qiniu!Refuse
<1> QED BY <1>1, <1>2, <1>3 DEF Qiniu!Ask, Qiniu!Answer

\* DeleteMany of the Qiniu driver removes its keys and accounts for them.
LEMMA QiniuDeleteMany ==
  ASSUME NEW c, NEW s, "objs" \in DOMAIN s, NEW r, NamesView(c, r),
         NEW o \in Qiniu!DeleteMany(c, s, r)
  PROVE  Shrinks(s, o.store) /\ Accounts(s, r.bucket, Range(r.keys), r.quiet, o)
<1> DEFINE quiet == r.quiet  K == Range(r.keys)
           answers == SvcDeleteBatch(s, r.bucket, r.keys, quiet)
<1>1. answers = Qiniu!SvcDeleteBatch(s, Qiniu!PickBucket(c, r), r.keys, quiet)
  BY QiniuService, Zenon DEF Qiniu!PickBucket, NamesView
<1>2. CASE r.keys = <<>>
  <2>1. o = Qiniu!Ok(s, [deleted |-> {}, failed |-> {}])
    BY <1>2 DEF Qiniu!DeleteMany
  <2>2. o.store = s /\ o.code = "ok" /\ o.out = [deleted |-> {}, failed |-> {}]
    BY <2>1 DEF Qiniu!Ok
  <2>3. Range(r.keys) = {}
    BY <1>2 DEF Range
  <2> QED BY <2>2, <2>3, BatchStart, BatchedAccounts
<1>3. ASSUME NEW S \in SUBSET answers, NEW p \in Qiniu!Ask(S)
      PROVE  Batched(s, r.bucket, K, quiet, p)
  <2> HIDE DEF quiet
  <2>1. WellFormed(p)
    BY <1>3, QiniuAskForm
  <2>2. \E a \in answers : Gives(a, p)
    BY <1>3, QiniuAsk
  <2> QED BY <2>1, <2>2, BatchTells
<1>4. CASE r.keys # <<>>
  <2>1. PICK p \in Qiniu!Management(answers) :
          o = IF p.code = "ok" THEN Qiniu!Ok(p.store, p.out)
              ELSE Qiniu!Ok(p.store, [deleted |-> {}, failed |-> Qiniu!Range(r.keys)])
    BY <1>1, <1>4 DEF Qiniu!DeleteMany
  <2>2. Batched(s, r.bucket, K, quiet, p)
    BY <1>3, <2>1 DEF Qiniu!Management
  <2>3. Shrinks(s, p.store) /\ Accounts(s, r.bucket, K, quiet, p)
    BY <2>2, BatchedAccounts
  <2>4. o.store = p.store /\ o.code = "ok"
    BY <2>1 DEF Qiniu!Ok
  <2>5. CASE p.code = "ok"
    <3>1. o.out = p.out
      BY <2>1, <2>5 DEF Qiniu!Ok
    <3> QED BY <2>3, <2>4, <2>5, <3>1 DEF Accounts, Deleted
  <2>6. CASE p.code # "ok"
    <3>1. o.out = [deleted |-> {}, failed |-> K]
      BY <2>1, <2>6 DEF Qiniu!Ok, Qiniu!Range, Range
    <3> QED BY <2>3, <2>4, <3>1, AllFailedAccounts
  <2> QED BY <2>5, <2>6
<1> QED BY <1>2, <1>4

-----------------------------------------------------------------------------
(* Upyun *)

\* No entry of the Upyun driver's error tables is the code of a success.
LEMMA UpyunTables ==
  /\ \A x : Upyun!MapUpyunErrorCode(x) # "ok"
  /\ \A x : Upyun!MapHTTPStatus(x) # "ok"
  /\ \A x : Upyun!MapContextErr(x) # "ok"
BY DEF Upyun!MapUpyunErrorCode, Upyun!MapHTTPStatus, Upyun!MapContextErr, Upyun!NoCode

\* An answer that was lost is none of the refusals the Upyun driver's
\* tables know.
LEMMA UpyunLostTables ==
  ASSUME NEW sit \in Lost
  PROVE  LET e == Upyun!SdkError(sit)
         IN /\ Upyun!MapUpyunErrorCode(e.code) \in {Upyun!NoCode, "temporary"}
            /\ Upyun!MapHTTPStatus(e.status) \in {Upyun!NoCode, "temporary"}
            /\ Upyun!MapContextErr(e.ctx) \in {Upyun!NoCode, "timeout"}
<1> DEFINE e == Upyun!SdkError(sit)
<1>1. /\ e.code \in {50000001, 0} /\ e.status \in {500, 0}
  <2>1. e.code \in {50000001, 0}
    BY DEF Upyun!SdkError, Lost
  <2>2. e.status \in {500, 0}
    BY DEF Upyun!SdkError, Lost
  <2> QED BY <2>1, <2>2
<1>2. \A x \in {50000001, 0} : Upyun!MapUpyunErrorCode(x) \in {Upyun!NoCode, "temporary"}
  BY DEF Upyun!MapUpyunErrorCode
<1>3. \A x \in {500, 0} : Upyun!MapHTTPStatus(x) \in {Upyun!NoCode, "temporary"}
  BY DEF Upyun!MapHTTPStatus
<1>4. Upyun!MapContextErr(e.ctx) \in {Upyun!NoCode, "timeout"}
  BY DEF Upyun!MapContextErr
<1> HIDE DEF e
<1>5. /\ Upyun!MapUpyunErrorCode(e.code) \in {Upyun!NoCode, "temporary"}
      /\ Upyun!MapHTTPStatus(e.status) \in {Upyun!NoCode, "temporary"}
  <2>1. Upyun!MapUpyunErrorCode(e.code) \in {Upyun!NoCode, "temporary"}
    BY <1>1, <1>2
  <2>2. Upyun!MapHTTPStatus(e.status) \in {Upyun!NoCode, "temporary"}
    BY <1>1, <1>3
  <2> QED BY <2>1, <2>2
<1> QED BY <1>1, <1>4, <1>5 DEF e

\* What the Upyun driver makes of an error comes from its tables, or is
\* "internal".
LEMMA UpyunMapErrorCode ==
  ASSUME NEW s, NEW e
  PROVE  /\ Upyun!MapError(s, e).store = s
         /\ \/ /\ Upyun!MapError(s, e).code # Upyun!NoCode
               /\ Upyun!MapError(s, e).code \in
                    {Upyun!MapContextErr(e.ctx), Upyun!MapUpyunErrorCode(e.code),
                     Upyun!MapHTTPStatus(e.status), "internal"}
<1>1. CASE e.status # 0 /\ Upyun!MapUpyunErrorCode(e.code) # Upyun!NoCode
  BY <1>1 DEF Upyun!MapError, Upyun!Error, Upyun!Refuse, Upyun!NoCode
<1>2. CASE /\ e.status # 0 /\ Upyun!MapUpyunErrorCode(e.code) = Upyun!NoCode
          /\ Upyun!MapHTTPStatus(e.status) # Upyun!NoCode
  BY <1>2 DEF Upyun!MapError, Upyun!Error, Upyun!Refuse, Upyun!NoCode
<1>3. CASE /\ e.status # 0 /\ Upyun!MapUpyunErrorCode(e.code) = Upyun!NoCode
          /\ Upyun!MapHTTPStatus(e.status) = Upyun!NoCode
  BY <1>3 DEF Upyun!MapError, Upyun!Error, Upyun!Refuse, Upyun!NoCode
<1>4. CASE e.status = 0 /\ Upyun!MapContextErr(e.ctx) # Upyun!NoCode
  BY <1>4 DEF Upyun!MapError, Upyun!Error, Upyun!Refuse, Upyun!NoCode
<1>5. CASE e.status = 0 /\ Upyun!MapContextErr(e.ctx) = Upyun!NoCode
  BY <1>5 DEF Upyun!MapError, Upyun!Error, Upyun!Refuse, Upyun!NoCode
<1> QED BY <1>1, <1>2, <1>3, <1>4, <1>5

\* Only what is missing is worded so that the Upyun driver calls it not found.
LEMMA UpyunFound ==
  ASSUME NEW s, NEW sit, sit \notin Missing
  PROVE  Upyun!MapError(s, Upyun!SdkError(sit)).code # "not_found"
<1> DEFINE e == Upyun!SdkError(sit)
           words == {41200001, 30400001, 40000031, 40300006, 40100001, 42900001,
                     40800001, 50000001, 50300001, 0}
           numbers == {412, 304, 416, 400, 403, 401, 429, 408, 503, 500, 0}
<1>1. e.code \in words
  BY DEF Upyun!SdkError, Missing
<1>2. e.status \in numbers
  BY DEF Upyun!SdkError, Missing
<1>4. \A x \in words : Upyun!MapUpyunErrorCode(x) # "not_found"
  BY DEF Upyun!MapUpyunErrorCode, Upyun!NoCode
<1>5. \A x \in numbers : Upyun!MapHTTPStatus(x) # "not_found"
  BY DEF Upyun!MapHTTPStatus, Upyun!NoCode
<1>6. Upyun!MapContextErr(e.ctx) # "not_found"
  BY DEF Upyun!MapContextErr, Upyun!NoCode
<1> DEFINE code == Upyun!MapError(s, e).code
<1> HIDE DEF e, words, numbers
<1>7. Upyun!MapUpyunErrorCode(e.code) # "not_found" /\ Upyun!MapHTTPStatus(e.status) # "not_found"
  BY <1>1, <1>2, <1>4, <1>5
<1>8. code # "not_found"
  <2>1. \/ code \in {Upyun!MapContextErr(e.ctx), Upyun!MapUpyunErrorCode(e.code),
                   Upyun!MapHTTPStatus(e.status), "internal"}
        \/ code = "already_exists"
    BY UpyunMapErrorCode
  <2> HIDE DEF code
  <2> QED BY <2>1, <1>6, <1>7
<1> QED BY <1>8 DEF code, e

\* A fault of the service is worded so that the Upyun driver does not blame the
\* request.
LEMMA UpyunFaults ==
  ASSUME NEW s, NEW sit \in Refusals \cup Lost
  PROVE  Upyun!MapError(s, Upyun!SdkError(sit)).code \notin BlameCodes
<1> DEFINE e == Upyun!SdkError(sit)
           words == {40300006, 40100001, 42900001, 40800001, 50000001, 50300001, 0}
           numbers == {403, 401, 429, 408, 503, 500, 0}
<1>1. e.code \in words
  BY DEF Upyun!SdkError, Refusals, Lost
<1>2. e.status \in numbers
  BY DEF Upyun!SdkError, Refusals, Lost
<1>4. \A x \in words : Upyun!MapUpyunErrorCode(x) \notin BlameCodes
  BY DEF Upyun!MapUpyunErrorCode, Upyun!NoCode, BlameCodes
<1>5. \A x \in numbers : Upyun!MapHTTPStatus(x) \in {"permission_denied", "unauthenticated",
                                        "rate_limited", "timeout", "temporary", Upyun!NoCode}
  BY DEF Upyun!MapHTTPStatus, Upyun!NoCode
<1>6. Upyun!MapContextErr(e.ctx) \notin BlameCodes /\ "internal" \notin BlameCodes
  BY DEF Upyun!MapContextErr, Upyun!NoCode, BlameCodes
<1> DEFINE code == Upyun!MapError(s, e).code
<1> HIDE DEF e, words, numbers
<1>7. Upyun!MapUpyunErrorCode(e.code) \notin BlameCodes /\ Upyun!MapHTTPStatus(e.status) \notin BlameCodes
  BY <1>1, <1>2, <1>4, <1>5 DEF BlameCodes, Upyun!NoCode
<1>8. code \notin BlameCodes
  <2>1. code \in {Upyun!MapContextErr(e.ctx), Upyun!MapUpyunErrorCode(e.code),
                 Upyun!MapHTTPStatus(e.status), "internal"}
    BY UpyunMapErrorCode
  <2> HIDE DEF code
  <2> QED BY <2>1, <1>6, <1>7
<1> QED BY <1>8 DEF code, e

\* MapError of the Upyun driver leaves the store alone, never says "ok", never
\* takes a lost answer for a refusal, calls nothing else not found, and does not
\* blame the request for a fault.
LEMMA UpyunMapError ==
  ASSUME NEW s, NEW sit
  PROVE  LET o == Upyun!MapError(s, Upyun!SdkError(sit))
         IN /\ o.store = s /\ o.code # "ok"
            /\ sit \in Lost => o.code \notin RefusalCodes
            /\ o.code = "not_found" => sit \in Missing
            /\ sit \in Refusals \cup Lost => o.code \notin BlameCodes
<1> DEFINE o == Upyun!MapError(s, Upyun!SdkError(sit))
<1>1. o.store = s /\ o.code # "ok"
  BY UpyunMapErrorCode, UpyunTables
<1>2. ASSUME sit \in Lost PROVE o.code \in {"temporary", "timeout", "internal"}
  BY <1>2, UpyunMapErrorCode, UpyunLostTables
<1>3. o.code = "not_found" => sit \in Missing
  BY UpyunFound
<1>4. sit \in Refusals \cup Lost => o.code \notin BlameCodes
  BY UpyunFaults
<1> QED
  BY <1>1, <1>2, <1>3, <1>4 DEF RefusalCodes

\* The service the Upyun driver talks to is the one of ObjectService.
LEMMA UpyunService ==
  /\ \A s, at, o, f, m, n : Upyun!SvcPut(s, at, o, f, m, n) = SvcPut(s, at, o, f, m, n)
  /\ \A s, at, f, l, m : Upyun!SvcGet(s, at, f, l, m) = SvcGet(s, at, f, l, m)
  /\ \A s, at, strict : Upyun!SvcDelete(s, at, strict) = SvcDelete(s, at, strict)
  /\ \A s, b, k, q : Upyun!SvcDeleteBatch(s, b, k, q) = SvcDeleteBatch(s, b, k, q)
  /\ \A s, x, y, i, m, j, t, e, n :
       Upyun!SvcCopy(s, x, y, i, m, j, t, e, n) = SvcCopy(s, x, y, i, m, j, t, e, n)
BY DEF SvcPut, SvcGet, SvcCopy, SvcDelete, SvcDeleteBatch, Attempt, InBucket,
       No, Done, Reply, StoreObject, With, Without, Restrict, Range, Fails,
       Has, Etag, Lost, Nothing, ObjectOf, Slice, Upyun!SvcPut, Upyun!SvcGet,
       Upyun!SvcCopy, Upyun!SvcDelete, Upyun!SvcDeleteBatch, Upyun!Attempt,
       Upyun!InBucket, Upyun!No, Upyun!Done, Upyun!Reply, Upyun!StoreObject,
       Upyun!With, Upyun!Without, Upyun!Restrict, Upyun!Range, Upyun!Fails,
       Upyun!Has, Upyun!Etag, Upyun!Lost, Upyun!Nothing, Upyun!ObjectOf,
       Upyun!Slice

\* The Upyun driver hands on the service's answer, success for success and
\* error for error.
LEMMA UpyunAsk ==
  ASSUME NEW answers, NEW o \in Upyun!Ask(answers)
  PROVE  \E a \in answers : Gives(a, o)
<1>1. PICK a \in answers : o = Upyun!Answer(a)
  BY DEF Upyun!Ask
<1> DEFINE err == Upyun!MapError(a.store, Upyun!SdkError(a.sit))
<1>2. /\ err.store = a.store /\ err.code # "ok"
      /\ a.sit \in Lost => err.code \notin RefusalCodes
      /\ err.code = "not_found" => a.sit \in Missing
      /\ a.sit \in Refusals \cup Lost => err.code \notin BlameCodes
  BY UpyunMapError
<1>3. o = IF a.sit = "ok" THEN Upyun!Ok(a.store, a.out) ELSE err
  BY <1>1 DEF Upyun!Answer
<1> HIDE DEF err
<1>4. Gives(a, o)
  BY <1>2, <1>3 DEF Gives, Tells, Upyun!Ok, Refusals, Lost
<1> QED BY <1>4

\* A call for a bucket the view is not bound to is refused.
LEMMA UpyunWithin ==
  ASSUME NEW c, NEW s, NEW name, NEW outcomes, NEW o \in Upyun!Within(c, s, name, outcomes)
  PROVE  Declines(o, s) \/ o \in outcomes
<1>1. o = Upyun!Refuse(s, "invalid_argument") \/ o \in outcomes
  BY DEF Upyun!Within
<1>2. ASSUME o = Upyun!Refuse(s, "invalid_argument") PROVE Declines(o, s)
  BY <1>2 DEF Upyun!Refuse, Upyun!Error, Declines
<1> QED BY <1>1, <1>2

\* Put of the Upyun driver sends the body, with the preconditions it forwards,
\* or declines.
LEMMA UpyunPut ==
  ASSUME NEW c, NEW s, NEW r, NamesView(c, r),
         NEW o \in Upyun!PutObject(c, s, r)
  PROVE  Declines(o, s) \/ SendsPut(s, r, r.match, r.noneMatch = "*", o)
<1> DEFINE obj == ObjectOf(r.body.bytes, Upyun!LowerMetadataKeys(r.meta), r.ctype)
           answers == SvcPut(s, <<r.bucket, r.key>>, obj, r.body.fails, r.match, r.noneMatch = "*")
<1>1. CASE r.body.nil \/ r.size < 0
  <2>1. o \in {Upyun!Refuse(s, "invalid_argument"), Upyun!Refuse(s, "length_required")}
    BY <1>1 DEF Upyun!PutObject, Upyun!Within, NamesView
  <2>2. Declines(o, s)
    BY <2>1 DEF Upyun!Refuse, Upyun!Error, Declines
  <2> QED BY <2>2
<1>2. CASE ~r.body.nil /\ ~(r.size < 0)
  <2> DEFINE named == {IF a.sit = "ok" THEN [a EXCEPT !.out = [etag |-> <<>>]] ELSE a
                        : a \in answers}
  <2>1. Upyun!PutObject(c, s, r) = Upyun!Ask(named)
    BY <1>2, UpyunService DEF Upyun!PutObject, Upyun!PutSent, Upyun!At, Upyun!Within, Upyun!ObjectOf, ObjectOf, NamesView
  <2>2. PICK b \in named : Gives(b, o)
    BY <2>1, UpyunAsk
  <2>3. PICK a \in answers : b = IF a.sit = "ok" THEN [a EXCEPT !.out = [etag |-> <<>>]] ELSE a
    OBVIOUS
  <2>4. b.store = a.store /\ b.sit = a.sit
    BY <2>3, SvcPutForm DEF Reply
  <2>5. Tells(a, o)
    BY <2>2, <2>4 DEF Gives, Tells
  <2> QED BY <2>5 DEF SendsPut
<1> QED BY <1>1, <1>2

\* A Get of the Upyun driver that succeeds gives the bytes the range asks for.
LEMMA UpyunGet ==
  ASSUME NEW c, NEW s, NEW r, NamesView(c, r), AsksRange(r),
         NEW o \in Upyun!GetObject(c, s, r)
  PROVE  ReadsRange(s, r, o)
<1> DEFINE answers == SvcGet(s, <<r.bucket, r.key>>, r.first, r.last, r.match)
<1>1. o \in Upyun!Ask(answers)
  BY UpyunService DEF Upyun!GetObject, Upyun!FormatHTTPRange, Upyun!At, Upyun!Within, AsksRange, NamesView, Upyun!Within
<1> HIDE DEF answers
<1>2. Declines(o, s) \/ \E a \in answers : Gives(a, o)
  BY <1>1, UpyunAsk
<1>3. CASE Declines(o, s)
  BY <1>3 DEF Declines, ReadsRange
<1>4. CASE \E a \in answers : Gives(a, o)
  BY <1>4, GetReads DEF answers
<1> QED BY <1>2, <1>3, <1>4

\* Delete of the Upyun driver only removes, and a refusal removes nothing.
LEMMA UpyunDelete ==
  ASSUME NEW c, NEW s, NEW r, NEW o \in Upyun!DeleteObject(c, s, r)
  PROVE  Shrinks(s, o.store) /\ Honest(s, o)
<1> DEFINE answers == SvcDelete(s, Upyun!At(c, r), TRUE)
<1>1. Upyun!SvcDelete(s, Upyun!At(c, r), TRUE) = answers
  BY UpyunService
<1>2. Speaks(s, answers) /\ \A a \in answers : Shrinks(s, a.store)
  BY SvcDeleteSpeaks, SvcDeleteShrinks
<1> HIDE DEF answers
<1>3. CASE Declines(o, s)
  BY <1>3, DeclinesHonest
<1>4. ASSUME ~Declines(o, s)
      PROVE  \E p \in Upyun!Ask(answers) :
               o = IF Upyun!Missing(p) THEN Upyun!Ok(p.store, Upyun!Nothing) ELSE p
  <2> DEFINE done == {IF Upyun!Missing(p) THEN Upyun!Ok(p.store, Upyun!Nothing) ELSE p
                      : p \in Upyun!Ask(answers)}
  <2>1. o \in Upyun!Within(c, s, r.bucket, done)
    BY <1>1 DEF Upyun!DeleteObject
  <2> HIDE DEF done
  <2>2. o \in done
    BY <1>4, <2>1, UpyunWithin
  <2> QED BY <2>2 DEF done
<1>5. CASE ~Declines(o, s)
  <2>1. PICK p \in Upyun!Ask(answers) :
               o = IF Upyun!Missing(p) THEN Upyun!Ok(p.store, Upyun!Nothing) ELSE p
    BY <1>4, <1>5
  <2>2. PICK a \in answers : Gives(a, p)
    BY <2>1, UpyunAsk
  <2>3. Shrinks(s, p.store) /\ Honest(s, p)
    BY <1>2, <2>2, TellsHonest DEF Gives, Tells
  <2>4. o = p \/ (o.store = p.store /\ o.code = "ok")
    BY <2>1 DEF Upyun!Ok
  <2> QED BY <2>3, <2>4 DEF Honest, RefusalCodes
<1> QED BY <1>3, <1>5

\* Copy of the Upyun driver creates no other object, and a refusal copies
\* nothing.
LEMMA UpyunCopy ==
  ASSUME NEW c, NEW s, NEW r, NEW o \in Upyun!CopyObject(c, s, r)
  PROVE  SameFields(s, o.store) /\ Honest(s, o) /\ Adds(s, Upyun!At(c, r), o.store)
<1> DEFINE src == <<c.bound, r.srcKey>>
           dst == Upyun!At(c, r)
           answers == SvcCopy(s, src, dst, FALSE, "nil", FALSE, "none", {}, FALSE)
           named == {IF a.sit = "ok" THEN [a EXCEPT !.out = [etag |-> <<>>]] ELSE a
                     : a \in answers}
<1>1. answers = Upyun!SvcCopy(s, src, dst, FALSE, "nil", FALSE, "none", {}, FALSE)
  <2> HIDE DEF src, dst
  <2> QED BY UpyunService
<1>2. Speaks(s, answers)
  <2> HIDE DEF src, dst
  <2> QED BY SvcCopySpeaks
<1>a. AnswersAdd(s, dst, answers)
  <2> HIDE DEF src, dst
  <2> QED BY SvcCopyAdds
<1>3. \A a \in answers : a = Reply(a.store, a.sit, a.out)
  <2> HIDE DEF src, dst
  <2>1. ASSUME NEW a \in SvcCopy(s, src, dst, FALSE, "nil", FALSE, "none", {}, FALSE)
        PROVE  a = Reply(a.store, a.sit, a.out)
    BY SvcCopyForm
  <2> QED BY <2>1
<1> HIDE DEF answers
<1>4. Upyun!CopySent(c, s, r) = Upyun!Ask(named)
  BY <1>1 DEF Upyun!CopySent
<1>5. CASE Declines(o, s)
  BY <1>5, DeclinesHonest, DeclinesAdds
<1>6. CASE ~Declines(o, s)
  <2>1. o \in IF r.bucket \notin {"", c.bound} THEN {Upyun!Refuse(s, "invalid_argument")}
              ELSE Upyun!CopySent(c, s, r)
    BY <1>6, UpyunWithin DEF Upyun!CopyObject
  <2>2. CASE o = Upyun!Refuse(s, "invalid_argument")
    BY <1>6, <2>2 DEF Upyun!Refuse, Upyun!Error, Declines
  <2>3. CASE o \in Upyun!Ask(named)
    <3>1. PICK b \in named : Gives(b, o)
      BY <2>3, UpyunAsk
    <3>2. PICK a \in answers : b = IF a.sit = "ok" THEN [a EXCEPT !.out = [etag |-> <<>>]] ELSE a
      OBVIOUS
    <3>3. b.store = a.store /\ b.sit = a.sit
      BY <3>2, <1>3 DEF Reply
    <3>4. Tells(a, o)
      BY <3>1, <3>3 DEF Gives, Tells
    <3> QED BY <1>2, <1>a, <3>4, TellsHonest, TellsAdds
  <2> QED BY <1>4, <2>1, <2>2, <2>3
<1> QED BY <1>5, <1>6

\* DeleteMany's loop takes one turn after the other.
LEMMA UpyunLoop ==
  ASSUME NEW c, NEW r, NEW base, NEW n \in 1..2
  PROVE  Upyun!Loop(LAMBDA acc, i : Upyun!DeleteKey(c, r, acc, r.keys[i]), base, n) =
           IF n = 1 THEN Upyun!DeleteKey(c, r, base, r.keys[1])
           ELSE Upyun!DeleteKey(c, r, Upyun!DeleteKey(c, r, base, r.keys[1]), r.keys[2])
<1> DEFINE one == Upyun!DeleteKey(c, r, base, r.keys[1])
           two == Upyun!DeleteKey(c, r, one, r.keys[2])
           Unfolds(f) == f = [i \in 0..n |-> IF i = 0 THEN base
                                             ELSE Upyun!DeleteKey(c, r, f[i - 1], r.keys[i])]
           f == [i \in 0..n |-> IF i = 0 THEN base ELSE IF i = 1 THEN one ELSE two]
           after == CHOOSE g : Unfolds(g)
<1>1. Unfolds(f)
  <2>1. ASSUME NEW i \in 0..n
        PROVE  f[i] = IF i = 0 THEN base ELSE Upyun!DeleteKey(c, r, f[i - 1], r.keys[i])
    <3> HIDE DEF one, two
    <3>1. i = 0 \/ (i = 1 /\ f[i - 1] = base) \/ (i = 2 /\ f[i - 1] = one)
      OBVIOUS
    <3> QED BY <3>1 DEF one, two
  <2> QED BY <2>1
<1>2. Unfolds(after)
  BY <1>1
<1>3. Upyun!Loop(LAMBDA acc, i : Upyun!DeleteKey(c, r, acc, r.keys[i]), base, n) = after[n]
  BY DEF Upyun!Loop
<1> HIDE DEF after
<1>4. after[0] = base /\ after[1] = one
  BY <1>2
<1>5. after[n] = IF n = 1 THEN one ELSE two
  BY <1>2, <1>4
<1> QED BY <1>3, <1>5, Zenon

\* A key that the Upyun driver deleted, or did not find, is gone.
LEMMA UpyunRemoves ==
  ASSUME NEW s, NEW b, NEW k, HasBucket(s, b),
         NEW o \in Upyun!Ask(SvcDelete(s, <<b, k>>, TRUE))
  PROVE  Shrinks(s, o.store) /\ (o.code \in {"ok", "not_found"} => ~Has(o.store, <<b, k>>))
<1> DEFINE answers == SvcDelete(s, <<b, k>>, TRUE)
<1>1. \A a \in answers : /\ Shrinks(s, a.store)
                         /\ ~Has(a.store, <<b, k>>) \/ a.sit \in Refusals \cup Lost
  BY SvcDeleteShrinks, SvcDeleteFinds
<1> HIDE DEF answers
<1>2. PICK a \in answers : Gives(a, o)
  BY UpyunAsk DEF answers
<1>3. o.code \in {"ok", "not_found"} => a.sit \notin Refusals \cup Lost
  BY <1>2 DEF Gives, Tells, Missing, Refusals, Lost
<1> QED BY <1>1, <1>2, <1>3 DEF Gives, Tells

\* Within DeleteMany a key is deleted by a call of Delete.
LEMMA UpyunRemovesKey ==
  ASSUME NEW c, NEW s, NEW b, b = c.bound, NEW k, HasBucket(s, b),
         NEW o \in Upyun!DeleteObject(c, s, [bucket |-> b, key |-> k])
  PROVE  Shrinks(s, o.store) /\ (o.code = "ok" => ~Has(o.store, <<b, k>>))
<1> DEFINE answers == SvcDelete(s, <<b, k>>, TRUE)
           done == {IF Upyun!Missing(p) THEN Upyun!Ok(p.store, Upyun!Nothing) ELSE p
                    : p \in Upyun!Ask(answers)}
           req == [bucket |-> b, key |-> k]
<1>1. Upyun!SvcDelete(s, Upyun!At(c, req), TRUE) = answers
  BY UpyunService DEF Upyun!At
<1>2. o \in Upyun!Within(c, s, b, done)
  BY <1>1 DEF Upyun!DeleteObject
<1>3. \A p \in Upyun!Ask(answers) :
        Shrinks(s, p.store) /\ (p.code \in {"ok", "not_found"} => ~Has(p.store, <<b, k>>))
  BY UpyunRemoves
<1> HIDE DEF answers
<1>4. \A q \in done : Shrinks(s, q.store) /\ (q.code = "ok" => ~Has(q.store, <<b, k>>))
  BY <1>3 DEF Upyun!Missing, Upyun!Ok
<1> HIDE DEF done
<1>5. CASE o \in done
  BY <1>4, <1>5
<1>6. CASE Declines(o, s)
  BY <1>6, ShrinksTransitive DEF Declines
<1> QED BY <1>2, <1>5, <1>6, UpyunWithin

\* One key of DeleteMany, after the keys K.
LEMMA UpyunDeleteKey ==
  ASSUME NEW c, NEW r, NamesView(c, r), NEW s, HasBucket(s, r.bucket), NEW acc, NEW K, NEW k,
         \A a \in acc : Keyed(s, r.bucket, K, r.quiet, a), NEW o \in Upyun!DeleteKey(c, r, acc, k)
  PROVE  Keyed(s, r.bucket, K \cup {k}, r.quiet, o)
<1> DEFINE b == r.bucket
           call(a) == Upyun!DeleteObject(c, a.store, [bucket |-> c.bound, key |-> k])
           turn(a, p) == [store |-> p.store,
                          deleted |-> IF p.code = "ok" /\ ~r.quiet THEN a.deleted \cup {k} ELSE a.deleted,
                          failed |-> IF p.code = "ok" THEN a.failed ELSE a.failed \cup {k}]
<1>1. PICK a \in acc : \E p \in call(a) : o = turn(a, p)
  BY DEF Upyun!DeleteKey
<1>2. PICK p \in call(a) : o = turn(a, p)
  BY <1>1
<1>3. HasBucket(a.store, b)
  BY ShrinksKeepsBucket DEF Keyed
<1>4. Shrinks(a.store, p.store) /\ (p.code = "ok" => ~Has(p.store, <<b, k>>))
  BY <1>2, <1>3, UpyunRemovesKey DEF NamesView
<1> HIDE DEF call
<1>5. TakesKey(a, b, k, r.quiet, o)
  BY <1>2, <1>4 DEF TakesKey
<1> QED BY <1>5, KeyedNext

\* DeleteMany of the Upyun driver removes its keys and accounts for them.
LEMMA UpyunDeleteMany ==
  ASSUME NEW c, NEW s, NEW r, NamesView(c, r), ShortList(r.keys), HasBucket(s, r.bucket),
         NEW o \in Upyun!DeleteMany(c, s, r)
  PROVE  Shrinks(s, o.store) /\ Accounts(s, r.bucket, Range(r.keys), r.quiet, o)
<1> DEFINE none == [store |-> s, deleted |-> {}, failed |-> {}]
           n == Len(r.keys)
           one == Upyun!DeleteKey(c, r, {none}, r.keys[1])
           two == Upyun!DeleteKey(c, r, one, r.keys[2])
           ends == Upyun!Loop(LAMBDA acc, i : Upyun!DeleteKey(c, r, acc, r.keys[i]), {none}, n)
           done == {Upyun!Ok(end.store, [deleted |-> end.deleted, failed |-> end.failed])
                    : end \in ends}
           Upto(K, acc) == \A a \in acc : Keyed(s, r.bucket, K, r.quiet, a)
<1>1. \/ n = 1 /\ Range(r.keys) = {r.keys[1]}
      \/ n = 2 /\ Range(r.keys) = {r.keys[1], r.keys[2]}
  BY ShortLists
<1>2. o \in done \/ (Declines(o, s) /\ WellFormed(o))
  <2>1. o \in Upyun!Within(c, s, r.bucket, done)
    BY DEF Upyun!DeleteMany
  <2> HIDE DEF done
  <2>2. o \in done \/ o = Upyun!Refuse(s, "invalid_argument")
    BY <2>1 DEF Upyun!Within
  <2> QED BY <2>2 DEF Upyun!Refuse, Upyun!Error, Upyun!Nothing, Declines, WellFormed, Deleted
<1>3. Upto({}, {none})
  BY KeyedStart
<1> HIDE DEF none, n
<1>4. Upto({} \cup {r.keys[1]}, one)
  BY <1>3, UpyunDeleteKey
<1>5. {} \cup {r.keys[1]} = {r.keys[1]}
  OBVIOUS
<1>6. Upto({r.keys[1]}, one)
  BY <1>4, <1>5, Zenon
<1> HIDE DEF one
<1>7. Upto({r.keys[1]} \cup {r.keys[2]}, two)
  BY <1>6, UpyunDeleteKey
<1>8. {r.keys[1]} \cup {r.keys[2]} = {r.keys[1], r.keys[2]}
  OBVIOUS
<1>9. Upto({r.keys[1], r.keys[2]}, two)
  BY <1>7, <1>8, Zenon
<1>10. n \in 1..2
  BY <1>1
<1>11. ends = IF n = 1 THEN one ELSE two
  BY <1>10, UpyunLoop, Zenon DEF one
<1> HIDE DEF ends, two
<1>12. Upto(Range(r.keys), ends)
  BY <1>1, <1>6, <1>9, <1>11
<1>13. \A p \in done : Shrinks(s, p.store) /\ Accounts(s, r.bucket, Range(r.keys), r.quiet, p)
  <2>1. ASSUME NEW end \in ends, NEW p, p = Upyun!Ok(end.store, [deleted |-> end.deleted, failed |-> end.failed])
        PROVE  Shrinks(s, p.store) /\ Accounts(s, r.bucket, Range(r.keys), r.quiet, p)
    <3>1. /\ p.store = end.store /\ p.code = "ok"
          /\ p.out = [deleted |-> end.deleted, failed |-> end.failed]
      BY <2>1 DEF Upyun!Ok
    <3>2. Keyed(s, r.bucket, Range(r.keys), r.quiet, end)
      BY <1>12, <2>1
    <3> QED BY <3>1, <3>2, KeyedAccounts
  <2> QED BY <2>1
<1> HIDE DEF done
<1> QED BY <1>2, <1>13, DeclinesAccounts

-----------------------------------------------------------------------------
(* Numbers in order *)

LEMMA LeastNumber ==
  ASSUME NEW T \in SUBSET Nat, T # {}
  PROVE  \E x \in T : \A y \in T : x <= y
<1> DEFINE R == OpToRel(<, Nat)
<1>1. \A x, y \in Nat : <<y, x>> \in R <=> y < x
  BY DEF OpToRel
<1>2. IsWellFoundedOn(R, Nat)
  BY NatLessThanWellFounded
<1> HIDE DEF R
<1>3. PICK x \in T : \A y \in T : ~ (<<y, x>> \in R)
  BY <1>2, WFMin
<1>4. \A y \in T : x <= y
  <2> TAKE y \in T
  <2>1. x \in Nat /\ y \in Nat /\ ~(y < x)
    BY <1>1, <1>3
  <2> QED BY <2>1
<1> QED BY <1>4

\* seq lists the numbers of S, each once, in their order.
Rises(seq) == \A i, j \in DOMAIN seq : i < j => seq[i] < seq[j]
Lists(seq, S) == /\ seq \in [1..Cardinality(S) -> S] /\ Rises(seq)
                 /\ \A n \in S : \E i \in DOMAIN seq : seq[i] = n

\* A list with one more number, put where it belongs.
LEMMA ListWith ==
  ASSUME NEW S \in SUBSET Nat, IsFiniteSet(S), NEW seq, Lists(seq, S), NEW n \in Nat, n \notin S
  PROVE  \E longer : Lists(longer, S \cup {n})
<1> DEFINE k == Cardinality(S)
           above == {i \in 1..k+1 : i = k+1 \/ seq[i] > n}
<1>1. k \in Nat /\ Cardinality(S \cup {n}) = k + 1
  BY FS_CardinalityType, FS_AddElement
<1>2. above \in SUBSET Nat /\ above # {}
  BY <1>1
<1>3. PICK p \in above : \A i \in above : p <= i
  BY <1>2, LeastNumber
<1>4. p \in 1..k+1 /\ (\A i \in 1..k : i < p => seq[i] < n) /\ (\A i \in 1..k : i >= p => seq[i] > n)
  <2>1. seq \in [1..k -> S] /\ \A i, j \in 1..k : i < j => seq[i] < seq[j]
    BY DEF Lists, Rises
  <2>2. p \in 1..k+1 /\ (p = k+1 \/ seq[p] > n) /\ \A i \in 1..k : i < p => ~(seq[i] > n)
    BY <1>1, <1>3
  <2>3. \A i \in 1..k : seq[i] \in Nat /\ seq[i] # n
    BY <2>1
  <2>4. ASSUME NEW i \in 1..k, i < p PROVE seq[i] < n
    <3>1. ~(seq[i] > n) /\ seq[i] \in Nat /\ seq[i] # n
      BY <2>2, <2>3, <2>4
    <3> QED BY <3>1
  <2>5. ASSUME NEW i \in 1..k, i >= p PROVE seq[i] > n
    <3>1. p \in 1..k /\ seq[p] > n
      BY <1>1, <2>2, <2>5
    <3>2. i = p \/ seq[p] < seq[i]
      BY <2>1, <2>5, <3>1
    <3>3. seq[p] \in Nat /\ seq[i] \in Nat
      BY <2>3, <3>1
    <3> QED BY <3>1, <3>2, <3>3
  <2> QED BY <2>2, <2>4, <2>5
<1> HIDE DEF above
<1> DEFINE longer == [i \in 1..k+1 |-> IF i < p THEN seq[i] ELSE IF i = p THEN n ELSE seq[i - 1]]
<1>5. seq \in [1..k -> S] /\ \A i, j \in 1..k : i < j => seq[i] < seq[j]
  BY DEF Lists, Rises
<1> HIDE DEF k
<1>6. longer \in [1..k+1 -> S \cup {n}]
  <2> SUFFICES ASSUME NEW i \in 1..k+1
               PROVE  (IF i < p THEN seq[i] ELSE IF i = p THEN n ELSE seq[i - 1]) \in S \cup {n}
    OBVIOUS
  <2>1. CASE i < p
    <3>1. i \in 1..k
      BY <1>1, <1>4, <2>1
    <3> QED BY <1>5, <2>1, <3>1
  <2>2. CASE i = p
    BY <2>2
  <2>3. CASE i > p
    <3>1. i - 1 \in 1..k
      BY <1>1, <1>4, <2>3
    <3> QED BY <1>1, <1>4, <1>5, <2>3, <3>1
  <2> QED BY <1>1, <1>4, <2>1, <2>2, <2>3
<1>7. ASSUME NEW i \in 1..k+1, NEW j \in 1..k+1, i < j PROVE longer[i] < longer[j]
  <2>1. \A x \in 1..k : seq[x] \in Nat
    BY <1>5
  <2>2. CASE j < p
    BY <1>1, <1>4, <1>5, <1>7, <2>2
  <2>3. CASE i < p /\ j = p
    BY <1>1, <1>4, <1>5, <1>7, <2>3
  <2>4. CASE i < p /\ p < j
    <3>1. i \in 1..k /\ j - 1 \in 1..k /\ i < j - 1
      BY <1>1, <1>4, <1>7, <2>4
    <3>2. longer[i] = seq[i] /\ longer[j] = seq[j - 1]
      BY <1>1, <1>4, <2>4
    <3> QED BY <1>5, <3>1, <3>2
  <2>5. CASE i = p
    <3>1. j - 1 \in 1..k /\ j - 1 >= p
      BY <1>1, <1>4, <1>7, <2>5
    <3>2. longer[i] = n /\ longer[j] = seq[j - 1]
      BY <1>1, <1>4, <1>7, <2>5
    <3>3. seq[j - 1] > n /\ seq[j - 1] \in Nat
      BY <1>4, <2>1, <3>1
    <3> QED BY <3>2, <3>3
  <2>6. CASE p < i
    <3>1. i - 1 \in 1..k /\ j - 1 \in 1..k /\ i - 1 < j - 1
      BY <1>1, <1>4, <1>7, <2>6
    <3>2. longer[i] = seq[i - 1] /\ longer[j] = seq[j - 1]
      BY <1>1, <1>4, <1>7, <2>6
    <3> QED BY <1>5, <3>1, <3>2
  <2> QED BY <1>1, <1>4, <1>7, <2>2, <2>3, <2>4, <2>5, <2>6
<1>8. ASSUME NEW m \in S \cup {n} PROVE \E i \in 1..k+1 : longer[i] = m
  <2>1. CASE m = n
    BY <1>1, <1>4, <2>1
  <2>2. CASE m \in S
    <3>1. PICK i \in 1..k : seq[i] = m
      BY <1>5, <2>2 DEF Lists
    <3>2. CASE i < p
      BY <1>1, <3>1, <3>2
    <3>3. CASE i >= p
      <4>1. i + 1 \in 1..k+1 /\ longer[i + 1] = seq[i]
        BY <1>1, <1>4, <3>3
      <4> QED BY <3>1, <4>1
    <3> QED BY <1>1, <1>4, <3>2, <3>3
  <2> QED BY <2>1, <2>2
<1>9. DOMAIN longer = 1..k+1
  OBVIOUS
<1> HIDE DEF longer
<1>10. Lists(longer, S \cup {n})
  BY <1>1, <1>6, <1>7, <1>8, <1>9 DEF Lists, Rises, k
<1> QED BY <1>10

\* Every finite set of numbers has a list: a least one without would have a
\* list for all of its numbers but one.
LEMMA ListExists ==
  ASSUME NEW S \in SUBSET Nat, IsFiniteSet(S)
  PROVE  \E seq : Lists(seq, S)
<1> DEFINE Listless(U) == U \in SUBSET Nat /\ IsFiniteSet(U) /\ ~\E seq : Lists(seq, U)
           sizes == {m \in Nat : \E U : Listless(U) /\ Cardinality(U) = m}
<1>1. SUFFICES ASSUME Listless(S) PROVE FALSE
  OBVIOUS
<1>2. Cardinality(S) \in sizes
  BY <1>1, FS_CardinalityType
<1>3. PICK m \in sizes : \A x \in sizes : m <= x
  BY <1>2, LeastNumber
<1>4. PICK U : Listless(U) /\ Cardinality(U) = m
  OBVIOUS
<1>5. U # {}
  <2>1. SUFFICES ASSUME U = {} PROVE FALSE
    OBVIOUS
  <2>2. Cardinality(U) = 0
    BY <2>1, FS_EmptySet
  <2>3. Lists(<<>>, U)
    BY <2>1, <2>2 DEF Lists, Rises
  <2> QED BY <1>4, <2>3
<1>6. PICK n : n \in U
  BY <1>5
<1>7. /\ IsFiniteSet(U \ {n}) /\ Cardinality(U \ {n}) = m - 1 /\ m \in Nat
      /\ U \ {n} \in SUBSET Nat /\ n \in Nat
  BY <1>4, <1>6, FS_RemoveElement
<1>8. m - 1 \in Nat /\ m - 1 < m
  BY <1>7, FS_CardinalityType
<1>9. m - 1 \notin sizes
  BY <1>3, <1>7, <1>8
<1>10. ~Listless(U \ {n})
  BY <1>7, <1>8, <1>9
<1>11. PICK seq : Lists(seq, U \ {n})
  BY <1>7, <1>10
<1>12. \E seq2 : Lists(seq2, (U \ {n}) \cup {n})
  BY <1>7, <1>11, ListWith
<1>13. (U \ {n}) \cup {n} = U
  BY <1>6
<1> QED BY <1>4, <1>12, <1>13

\* So Ascending gives a list, and every list of the set is that one.
LEMMA AscendingLists ==
  ASSUME NEW S \in SUBSET Nat, IsFiniteSet(S)
  PROVE  Lists(Ascending(S), S)
<1> DEFINE k == Cardinality(S)
           seq == Ascending(S)
<1>1. k \in Nat
  BY FS_CardinalityType
<1>2. \E q \in [1..k -> S] : \A i, j \in DOMAIN q : i < j => q[i] < q[j]
  BY ListExists DEF Lists, Rises
<1>3. seq \in [1..k -> S] /\ \A i, j \in DOMAIN seq : i < j => seq[i] < seq[j]
  BY <1>2 DEF Ascending
<1> HIDE DEF seq
<1>4. \A i, j \in 1..k : seq[i] = seq[j] => i = j
  <2> TAKE i, j \in 1..k
  <2>1. /\ i < j => seq[i] < seq[j]
        /\ j < i => seq[j] < seq[i]
        /\ seq[i] \in Nat /\ seq[j] \in Nat
    BY <1>3
  <2> QED BY <1>1, <2>1
<1>5. seq \in Injection(1..k, S)
  BY <1>3, <1>4 DEF Injection, IsInjective
<1>6. Cardinality(1..k) = k
  BY <1>1, FS_Interval
<1>7. seq \in Surjection(1..k, S)
  BY <1>5, <1>6, FS_Injection
<1>8. \A n \in S : \E i \in 1..k : seq[i] = n
  BY <1>7 DEF Surjection
<1>9. Lists(seq, S)
  BY <1>3, <1>8 DEF Lists, Rises
<1> QED BY <1>9 DEF seq

\* A map of 1..n to itself that keeps the order keeps every number.
LEMMA RisesOnto ==
  ASSUME NEW n \in Nat, NEW p \in [1..n -> 1..n],
         \A i, j \in 1..n : i < j => p[i] < p[j]
  PROVE  \A i \in 1..n : p[i] = i
<1> DEFINE low == {i \in 1..n : p[i] < i}
           high == {k \in Nat : \E i \in 1..n : p[i] > i /\ k = n - i}
<1>1. low = {}
  <2> SUFFICES ASSUME low # {} PROVE FALSE
    OBVIOUS
  <2>1. low \in SUBSET Nat
    OBVIOUS
  <2>2. PICK i \in low : \A j \in low : i <= j
    BY <2>1, LeastNumber
  <2>3. i \in 1..n /\ p[i] \in 1..n /\ p[i] < i
    OBVIOUS
  <2>4. p[p[i]] < p[i] /\ p[p[i]] \in 1..n
    BY <2>3
  <2>5. p[i] \in low
    BY <2>3, <2>4
  <2>6. i <= p[i]
    BY <2>2, <2>5
  <2> QED BY <2>3, <2>6
<1>2. high = {}
  <2> SUFFICES ASSUME high # {} PROVE FALSE
    OBVIOUS
  <2>1. high \in SUBSET Nat
    OBVIOUS
  <2>2. PICK k \in high : \A m \in high : k <= m
    BY <2>1, LeastNumber
  <2>3. PICK i \in 1..n : p[i] > i /\ k = n - i
    OBVIOUS
  <2>4. p[i] \in 1..n /\ p[p[i]] > p[i] /\ p[p[i]] \in 1..n
    BY <2>3
  <2>5. n - p[i] \in high
    <3>1. n - p[i] \in Nat
      <4> HIDE DEF high, low
      <4>1. \A q \in 1..n : n - q \in Nat
        OBVIOUS
      <4> QED BY <2>4, <4>1
    <3>2. p[p[i]] > p[i] /\ n - p[i] = n - p[i]
      BY <2>4
    <3>3. \E m \in 1..n : p[m] > m /\ n - p[i] = n - m
      BY <2>4, <3>2
    <3> QED BY <3>1, <3>3
  <2>6. k <= n - p[i]
    BY <2>2, <2>5
  <2> QED BY <2>3, <2>4, <2>6
<1>3. ASSUME NEW i \in 1..n PROVE p[i] = i
  <2>1. p[i] \in 1..n
    OBVIOUS
  <2>2. ~(p[i] < i)
    BY <1>1
  <2>3. ~(p[i] > i)
    <3>1. p[i] > i => n - i \in high
      OBVIOUS
    <3> QED BY <1>2, <3>1
  <2> QED BY <2>1, <2>2, <2>3
<1> QED BY <1>3

\* A list of parts in the order of their numbers, none twice.
Ordered(parts) ==
  \E n \in Nat : /\ parts = [i \in 1..n |-> parts[i]]
                 /\ \A i \in 1..n : parts[i].pn \in Nat
                 /\ \A i, j \in 1..n : i < j => parts[i].pn < parts[j].pn

\* Sorting leaves a list as it is that is in order.
LEMMA ByNumberKeeps ==
  ASSUME NEW parts, Ordered(parts)
  PROVE  Tencent!ByNumber(parts) = parts
<1>1. PICK n \in Nat : /\ parts = [i \in 1..n |-> parts[i]]
                       /\ \A i \in 1..n : parts[i].pn \in Nat
                       /\ \A i, j \in 1..n : i < j => parts[i].pn < parts[j].pn
  BY DEF Ordered
<1> DEFINE D == DOMAIN parts
           Sorts(p) == /\ Tencent!IsInjective(p)
                       /\ \A i, j \in D : i < j => parts[p[i]].pn <= parts[p[j]].pn
           order == CHOOSE p \in [D -> D] : Sorts(p)
<1>2. D = 1..n
  BY <1>1
<1>3. Tencent!ByNumber(parts) = [i \in D |-> parts[order[i]]]
  BY Zenon DEF Tencent!ByNumber
<1>4. \E p \in [D -> D] : Sorts(p)
  <2> DEFINE id == [i \in D |-> i]
  <2>1. id \in [D -> D] /\ \A i \in D : id[i] = i
    OBVIOUS
  <2>2. Tencent!IsInjective(id)
    BY DEF Tencent!IsInjective
  <2>3. \A i, j \in D : i < j => parts[id[i]].pn <= parts[id[j]].pn
    BY <1>1, <1>2, <2>1
  <2> HIDE DEF id
  <2> QED BY <2>1, <2>2, <2>3
<1>5. order \in [D -> D] /\ Sorts(order)
  BY <1>4
<1> HIDE DEF order
<1>6. \A i, j \in D : i < j => order[i] < order[j]
  <2> SUFFICES ASSUME NEW i \in D, NEW j \in D, i < j PROVE order[i] < order[j]
    OBVIOUS
  <2>1. order[i] \in D /\ order[j] \in D /\ order[i] # order[j]
    <3>1. order[i] \in D /\ order[j] \in D
      BY <1>5
    <3>2. order[i] = order[j] => i = j
      BY Zenon, <1>5 DEF Tencent!IsInjective
    <3>3. i # j
      BY <1>2
    <3> QED BY <3>1, <3>2, <3>3
  <2>2. parts[order[i]].pn <= parts[order[j]].pn
    BY <1>5
  <2>3. order[j] < order[i] => parts[order[j]].pn < parts[order[i]].pn
    BY <1>1, <1>2, <2>1
  <2>4. parts[order[i]].pn \in Nat /\ parts[order[j]].pn \in Nat
    BY <1>1, <1>2, <2>1
  <2>5. ~(order[j] < order[i])
    BY <2>2, <2>3, <2>4
  <2> QED BY <1>2, <2>1, <2>5
<1>7. \A i \in D : order[i] = i
  BY <1>2, <1>5, <1>6, RisesOnto
<1> QED BY <1>1, <1>2, <1>3, <1>7

-----------------------------------------------------------------------------
(* Byte strings one after the other *)

\* f has the byte strings of seqs up to i, for i up to n.
Chain(f, seqs, n) ==
  f = [i \in 0..n |-> IF i = 0 THEN <<>> ELSE f[i - 1] \o seqs[i]]

LEMMA ChainTurns ==
  ASSUME NEW seqs, NEW n \in Nat, NEW f, Chain(f, seqs, n)
  PROVE  f[0] = <<>> /\ \A i \in 1..n : f[i] = f[i - 1] \o seqs[i]
<1> DEFINE joined(i) == f[i - 1] \o seqs[i]
           none == <<>>
           turn(i) == IF i = 0 THEN none ELSE joined(i)
<1>1. f = [i \in 0..n |-> turn(i)]
  BY Zenon DEF Chain
<1> HIDE DEF joined, none
<1>2. ASSUME NEW i \in 0..n PROVE f[i] = turn(i)
  <2> HIDE DEF turn
  <2> QED BY <1>1
<1>3. f[0] = none
  <2>1. 0 \in 0..n
    OBVIOUS
  <2> QED BY <1>2, <2>1
<1>4. ASSUME NEW i \in 1..n PROVE f[i] = joined(i)
  <2>1. i \in 0..n /\ i # 0
    OBVIOUS
  <2> QED BY <1>2, <2>1
<1>5. \A i \in 1..n : f[i] = f[i - 1] \o seqs[i]
  BY Zenon, <1>4 DEF joined
<1> QED BY Zenon, <1>3, <1>5 DEF none

\* There is such a function, a least n without one would have one for n - 1; and
\* it is one only.
LEMMA ChainExists ==
  ASSUME NEW seqs, NEW n \in Nat
  PROVE  \E f : Chain(f, seqs, n)
<1> DEFINE none == {m \in Nat : ~\E f : Chain(f, seqs, m)}
<1>1. SUFFICES ASSUME none # {} PROVE FALSE
  OBVIOUS
<1>2. PICK m \in none : \A x \in none : m <= x
  <2>1. none \in SUBSET Nat
    OBVIOUS
  <2> QED BY <1>1, <2>1, LeastNumber
<1>3. m \in Nat /\ ~\E f : Chain(f, seqs, m)
  BY <1>2
<1>4. CASE m = 0
  <2> DEFINE f == [i \in 0..0 |-> <<>>]
  <2>1. f = [i \in 0..0 |-> IF i = 0 THEN <<>> ELSE f[i - 1] \o seqs[i]]
    OBVIOUS
  <2> HIDE DEF f
  <2>2. Chain(f, seqs, 0)
    BY Zenon, <2>1 DEF Chain
  <2> QED BY <1>3, <1>4, <2>2
<1>5. CASE m # 0
  <2>1. m - 1 \in Nat /\ ~(m <= m - 1)
    BY <1>3, <1>5
  <2>2. m - 1 \notin none
    BY <1>2, <2>1
  <2>3. PICK f : Chain(f, seqs, m - 1)
    BY <2>1, <2>2
  <2>4. f[0] = <<>> /\ \A i \in 1..(m - 1) : f[i] = f[i - 1] \o seqs[i]
    BY <2>1, <2>3, ChainTurns
  <2> DEFINE g == [i \in 0..m |-> IF i < m THEN f[i] ELSE f[m - 1] \o seqs[m]]
             turn(i) == IF i = 0 THEN <<>> ELSE g[i - 1] \o seqs[i]
  <2>5. ASSUME NEW i \in 0..m PROVE g[i] = turn(i)
    <3>1. CASE i = 0
      BY <1>3, <1>5, <2>4, <3>1
    <3>2. CASE i # 0 /\ i < m
      <4>1. i \in 1..(m - 1) /\ i - 1 \in 0..m /\ i - 1 < m
        BY <1>3, <3>2
      <4>2. g[i] = f[i] /\ g[i - 1] = f[i - 1]
        BY <3>2, <4>1
      <4> QED BY <2>4, <3>2, <4>1, <4>2
    <3>3. CASE i = m
      <4>1. m - 1 \in 0..m /\ m - 1 < m /\ ~(m < m) /\ m \in 0..m
        BY <1>3, <1>5
      <4>2. g[m - 1] = f[m - 1] /\ g[m] = f[m - 1] \o seqs[m]
        BY <4>1
      <4> QED BY <1>5, <3>3, <4>2
    <3> QED BY <1>3, <3>1, <3>2, <3>3
  <2>6. DOMAIN g = 0..m /\ g = [i \in 0..m |-> g[i]]
    OBVIOUS
  <2> HIDE DEF g
  <2>7. g = [i \in 0..m |-> turn(i)]
    <3> HIDE DEF turn
    <3> QED BY <2>5, <2>6
  <2>8. Chain(g, seqs, m)
    BY Zenon, <2>7 DEF Chain
  <2> QED BY <1>3, <2>8
<1> QED BY <1>4, <1>5

LEMMA ChainsAgree ==
  ASSUME NEW seqs, NEW n \in Nat, NEW f, Chain(f, seqs, n),
         NEW more, NEW m \in Nat, n <= m, NEW g, Chain(g, more, m),
         \A i \in 1..n : more[i] = seqs[i]
  PROVE  \A i \in 0..n : g[i] = f[i]
<1> DEFINE apart == {i \in 0..n : g[i] # f[i]}
<1>1. /\ f[0] = <<>> /\ \A i \in 1..n : f[i] = f[i - 1] \o seqs[i]
      /\ g[0] = <<>> /\ \A i \in 1..m : g[i] = g[i - 1] \o more[i]
  BY ChainTurns
<1>2. SUFFICES ASSUME apart # {} PROVE FALSE
  OBVIOUS
<1>3. PICK k \in apart : \A x \in apart : k <= x
  <2>1. apart \in SUBSET Nat
    OBVIOUS
  <2> QED BY <1>2, <2>1, LeastNumber
<1>4. k \in 0..n /\ g[k] # f[k] /\ k # 0
  BY <1>1, <1>3
<1>5. k \in 1..n /\ k \in 1..m /\ k - 1 \in 0..n /\ ~(k <= k - 1)
  BY <1>4
<1>6. g[k - 1] = f[k - 1]
  BY <1>3, <1>5
<1>7. f[k] = f[k - 1] \o seqs[k] /\ g[k] = g[k - 1] \o more[k] /\ more[k] = seqs[k]
  BY <1>1, <1>5
<1> QED BY <1>4, <1>6, <1>7

LEMMA JoinedChain ==
  ASSUME NEW seqs, Len(seqs) \in Nat, NEW f, Chain(f, seqs, Len(seqs))
  PROVE  Joined(seqs) = f[Len(seqs)]
<1> DEFINE n == Len(seqs)
           after == CHOOSE g : g = [i \in 0..n |-> IF i = 0 THEN <<>> ELSE g[i - 1] \o seqs[i]]
<1>1. Joined(seqs) = after[n]
  BY Zenon DEF Joined, Loop
<1>2. after = [i \in 0..n |-> IF i = 0 THEN <<>> ELSE after[i - 1] \o seqs[i]]
  BY Zenon DEF Chain
<1> HIDE DEF after
<1>3. Chain(after, seqs, n)
  BY Zenon, <1>2 DEF Chain
<1> HIDE DEF n
<1>4. n \in Nat /\ Chain(f, seqs, n)
  BY DEF n
<1>5. \A i \in 0..n : after[i] = f[i]
  BY <1>3, <1>4, ChainsAgree
<1>6. n \in 0..n
  BY <1>4
<1> QED BY <1>1, <1>5, <1>6 DEF n

\* Joining one more is appending it.
LEMMA JoinedAppend ==
  ASSUME NEW seqs, NEW n \in Nat, Len(seqs) = n,
         NEW more, Len(more) = n + 1, \A i \in 1..n : more[i] = seqs[i]
  PROVE  Joined(more) = Joined(seqs) \o more[n + 1]
<1>1. n + 1 \in Nat /\ n <= n + 1 /\ n \in 0..n /\ n + 1 \in 1..(n + 1) /\ (n + 1) - 1 = n
  OBVIOUS
<1>2. PICK f : Chain(f, seqs, n)
  BY ChainExists
<1>3. PICK g : Chain(g, more, n + 1)
  BY <1>1, ChainExists
<1>4. g[n] = f[n]
  BY <1>1, <1>2, <1>3, ChainsAgree
<1>5. g[n + 1] = g[n] \o more[n + 1]
  <2>1. \A i \in 1..(n + 1) : g[i] = g[i - 1] \o more[i]
    BY <1>1, <1>3, ChainTurns
  <2>2. g[n + 1] = g[(n + 1) - 1] \o more[n + 1]
    BY Zenon, <1>1, <2>1
  <2> QED BY Zenon, <1>1, <2>2
<1>6. Joined(seqs) = f[n] /\ Joined(more) = g[n + 1]
  BY <1>1, <1>2, <1>3, JoinedChain
<1> QED BY <1>4, <1>5, <1>6

LEMMA JoinedNone ==
  ASSUME NEW seqs, Len(seqs) = 0
  PROVE  Joined(seqs) = <<>>
<1>1. 0 \in Nat
  OBVIOUS
<1>2. PICK f : Chain(f, seqs, 0)
  BY <1>1, ChainExists
<1>3. f[0] = <<>>
  BY Zenon, <1>1, <1>2, ChainTurns
<1>4. Len(seqs) \in Nat /\ Chain(f, seqs, Len(seqs))
  BY Zenon, <1>1, <1>2
<1>5. Joined(seqs) = f[Len(seqs)]
  BY Zenon, <1>4, JoinedChain
<1> QED BY Zenon, <1>3, <1>5

-----------------------------------------------------------------------------
(* The uploads of a store *)

\* The drivers whose uploads are those of the service; the others keep a
\* registry of sessions, two of them over uploads of the service.
Services == {"aws", "minio", "alibaba", "tencent", "huawei", "volcengine"}
OverService == {"qiniu", "upyun"}

Listed(s, id) == id \in DOMAIN s.sess /\ s.sess[id].listed

\* A Complete of the upload id gets past the driver; and nothing that it needs
\* to publish the object is gone.
Reaches(d, s, id, at) == IF d \in Services THEN IsOpen(s, id, at) ELSE Listed(s, id)
Held(d, s, id, at) == IF d \in OverService THEN Listed(s, id) /\ IsOpen(s, id, at)
                      ELSE Reaches(d, s, id, at)

\* The session of the upload in the registry, if there is one, is for the
\* object at.
Placed(d, s, id, at) == d \notin Services /\ id \in DOMAIN s.sess => s.sess[id].at = at

\* The fields that the upload calls use are there: of the store, of the uploads
\* of a service, of the sessions of a registry.
Shaped(s) == {"buckets", "objs", "ups", "sess", "next"} \subseteq DOMAIN s /\ s.next \in Nat
UpsShaped(s) == \A i \in DOMAIN s.ups : "at" \in DOMAIN s.ups[i]
SessShaped(s) == \A i \in DOMAIN s.sess : {"at", "listed"} \subseteq DOMAIN s.sess[i]
Sound(d, s) == Shaped(s) /\ SessShaped(s) /\ (d \in Services \cup OverService => UpsShaped(s))

-----------------------------------------------------------------------------
(* The service *)

\* The buckets are the same, and no object is gone.
KeepsObjects(s, t) == t.buckets = s.buckets /\ \A at : Has(s, at) => Has(t, at)

\* What an answer to each of the four requests leaves behind.
Creates(s, at, a) ==
  a.sit = "ok" =>
    /\ a.out.id = s.next
    /\ \E meta : a.store =
         [s EXCEPT !.next = @ + 1,
                   !.ups = With(@, s.next, [at |-> at, meta |-> meta, parts |-> <<>>])]
SendsPart(s, id, at, a) ==
  \/ a.store = s
  \/ /\ IsOpen(s, id, at)
     /\ \E pn, bytes : a.store = [s EXCEPT !.ups[id].parts = With(@, pn, bytes)]
Finishes(s, id, at, a) ==
  \/ a.store = s /\ a.sit # "ok" /\ (a.sit \in Missing => ~IsOpen(s, id, at))
  \/ /\ IsOpen(s, id, at) /\ a.sit \in Lost \cup {"ok"}
     /\ \E o : a.store = [StoreObject(s, at, o) EXCEPT !.ups = Without(@, id)]
Drops(s, id, at, a) ==
  \/ a.store = s /\ a.sit # "ok"
  \/ IsOpen(s, id, at) /\ a.store = [s EXCEPT !.ups = Without(@, id)]

\* Nothing but the uploads of the service changes from s to t.
OnlyUps(s, t) == Shaped(t) /\ UpsShaped(t) /\ t.sess = s.sess /\ KeepsObjects(s, t)

\* A new upload is open, and the others are as they were.
LEMMA CreatesDoes ==
  ASSUME NEW s, Shaped(s), UpsShaped(s), NEW at, NEW a, Creates(s, at, a), a.sit = "ok"
  PROVE  /\ OnlyUps(s, a.store) /\ a.store.next = s.next + 1
         /\ a.out.id = s.next /\ IsOpen(a.store, s.next, at)
         /\ \A i, x : i # s.next => (IsOpen(a.store, i, x) <=> IsOpen(s, i, x))
<1> DEFINE t == a.store
<1>1. PICK meta : t = [s EXCEPT !.next = @ + 1,
           !.ups = With(@, s.next, [at |-> at, meta |-> meta, parts |-> <<>>])]
  BY DEF Creates
<1> DEFINE up == [at |-> at, meta |-> meta, parts |-> <<>>]
<1>2. /\ t.next = s.next + 1 /\ t.buckets = s.buckets /\ t.objs = s.objs /\ t.sess = s.sess
      /\ DOMAIN t = DOMAIN s /\ t.ups = With(s.ups, s.next, up)
  BY <1>1 DEF Shaped
<1>3. up.at = at /\ "at" \in DOMAIN up
  OBVIOUS
<1> HIDE DEF up, t
<1>4. /\ DOMAIN t.ups = DOMAIN s.ups \cup {s.next} /\ t.ups[s.next] = up
      /\ \A i \in DOMAIN s.ups : i # s.next => t.ups[i] = s.ups[i]
  BY <1>2 DEF With
<1>5. OnlyUps(s, t)
  BY <1>2, <1>3, <1>4 DEF OnlyUps, Shaped, UpsShaped, KeepsObjects, Has
<1>6. IsOpen(t, s.next, at) /\ \A i, x : i # s.next => (IsOpen(t, i, x) <=> IsOpen(s, i, x))
  BY <1>3, <1>4 DEF IsOpen
<1>7. a.out.id = s.next
  BY DEF Creates
<1> QED BY <1>2, <1>5, <1>6, <1>7 DEF t

\* A part changes nothing of what uploads there are.
LEMMA SendsPartDoes ==
  ASSUME NEW s, Shaped(s), UpsShaped(s), NEW id, NEW at, NEW a, SendsPart(s, id, at, a)
  PROVE  /\ OnlyUps(s, a.store) /\ a.store.next = s.next /\ a.store.objs = s.objs
         /\ \A i, x : IsOpen(a.store, i, x) <=> IsOpen(s, i, x)
<1> DEFINE t == a.store
<1>1. CASE t = s
  BY <1>1 DEF OnlyUps, KeepsObjects
<1>2. CASE t # s
  <2>1. PICK pn, bytes : IsOpen(s, id, at) /\ t = [s EXCEPT !.ups[id].parts = With(@, pn, bytes)]
    BY <1>2 DEF SendsPart
  <2> DEFINE up == [s.ups[id] EXCEPT !.parts = With(s.ups[id].parts, pn, bytes)]
  <2>2. /\ t.next = s.next /\ t.buckets = s.buckets /\ t.objs = s.objs /\ t.sess = s.sess
        /\ DOMAIN t = DOMAIN s /\ t.ups = [s.ups EXCEPT ![id] = up]
    BY <2>1 DEF Shaped
  <2>3. id \in DOMAIN s.ups => up.at = s.ups[id].at /\ "at" \in DOMAIN up
    BY DEF UpsShaped
  <2> HIDE DEF up, t
  <2>4. /\ DOMAIN t.ups = DOMAIN s.ups
        /\ \A i \in DOMAIN s.ups : t.ups[i].at = s.ups[i].at /\ "at" \in DOMAIN t.ups[i]
    BY <2>2, <2>3 DEF UpsShaped
  <2>5. OnlyUps(s, t)
    BY <2>2, <2>4 DEF OnlyUps, Shaped, UpsShaped, KeepsObjects, Has
  <2>6. \A i, x : IsOpen(t, i, x) <=> IsOpen(s, i, x)
    BY <2>4 DEF IsOpen
  <2> QED BY <2>2, <2>5, <2>6 DEF t
<1> QED BY <1>1, <1>2

\* An upload that is taken from the service is open no more; the others are as
\* they were.
LEMMA WithoutUpload ==
  ASSUME NEW s, Shaped(s), UpsShaped(s), NEW id, NEW at, NEW t, DOMAIN t = DOMAIN s,
         t.ups = Without(s.ups, id), t.next = s.next, t.sess = s.sess, KeepsObjects(s, t)
  PROVE  /\ OnlyUps(s, t) /\ ~IsOpen(t, id, at)
         /\ \A i, x : /\ i # id => (IsOpen(t, i, x) <=> IsOpen(s, i, x))
                      /\ IsOpen(t, i, x) => IsOpen(s, i, x)
<1>1. DOMAIN t.ups = DOMAIN s.ups \ {id} /\ \A i \in DOMAIN t.ups : t.ups[i] = s.ups[i]
  BY DEF Without, Restrict
<1>2. OnlyUps(s, t)
  BY <1>1 DEF OnlyUps, Shaped, UpsShaped
<1> QED BY <1>1, <1>2 DEF IsOpen

\* A Complete that is carried out publishes the object and ends the upload; one
\* that is not leaves everything, and what it does not find is not open.
LEMMA FinishesDoes ==
  ASSUME NEW s, Shaped(s), UpsShaped(s), NEW id, NEW at, NEW a, Finishes(s, id, at, a)
  PROVE  /\ OnlyUps(s, a.store) /\ a.store.next = s.next
         /\ \A i, x : /\ i # id => (IsOpen(a.store, i, x) <=> IsOpen(s, i, x))
                      /\ IsOpen(a.store, i, x) => IsOpen(s, i, x)
         /\ a.sit = "ok" => IsOpen(s, id, at)
         /\ IsOpen(s, id, at) => IsOpen(a.store, id, at) \/ Has(a.store, at)
         /\ a.sit \in Missing => ~IsOpen(s, id, at)
<1> DEFINE t == a.store
<1>1. CASE t = s /\ a.sit # "ok" /\ (a.sit \in Missing => ~IsOpen(s, id, at))
  BY <1>1 DEF OnlyUps, KeepsObjects
<1>2. ASSUME IsOpen(s, id, at), a.sit \in Lost \cup {"ok"}, NEW o,
             t = [StoreObject(s, at, o) EXCEPT !.ups = Without(@, id)]
      PROVE  /\ OnlyUps(s, t) /\ t.next = s.next /\ Has(t, at)
             /\ \A i, x : /\ i # id => (IsOpen(t, i, x) <=> IsOpen(s, i, x))
                          /\ IsOpen(t, i, x) => IsOpen(s, i, x)
             /\ a.sit \notin Missing
  <2>1. /\ DOMAIN t = DOMAIN s /\ t.ups = Without(s.ups, id) /\ t.next = s.next /\ t.sess = s.sess
        /\ t.buckets = s.buckets /\ t.objs = With(s.objs, at, o)
    BY <1>2 DEF StoreObject, Shaped
  <2> HIDE DEF t
  <2>2. KeepsObjects(s, t) /\ Has(t, at)
    BY <2>1 DEF KeepsObjects, Has, With
  <2>3. a.sit \notin Missing
    BY <1>2 DEF Lost, Missing
  <2> QED BY <2>1, <2>2, <2>3, WithoutUpload
<1> QED BY <1>1, <1>2 DEF Finishes

\* An abort takes away its upload at most, and one that says so has.
LEMMA DropsDoes ==
  ASSUME NEW s, Shaped(s), UpsShaped(s), NEW id, NEW at, NEW a, Drops(s, id, at, a)
  PROVE  /\ OnlyUps(s, a.store) /\ a.store.next = s.next
         /\ a.sit = "ok" => ~IsOpen(a.store, id, at)
         /\ \A i, x : /\ i # id => (IsOpen(a.store, i, x) <=> IsOpen(s, i, x))
                      /\ IsOpen(a.store, i, x) => IsOpen(s, i, x)
<1> DEFINE t == a.store
<1>1. CASE t = s /\ a.sit # "ok"
  BY <1>1 DEF OnlyUps, KeepsObjects
<1>2. CASE t = [s EXCEPT !.ups = Without(@, id)]
  <2>1. /\ DOMAIN t = DOMAIN s /\ t.ups = Without(s.ups, id) /\ t.next = s.next
        /\ t.sess = s.sess /\ KeepsObjects(s, t)
    BY <1>2 DEF Shaped, KeepsObjects, Has
  <2> HIDE DEF t
  <2>2. t.next = s.next
    BY <2>1
  <2>3. /\ OnlyUps(s, t) /\ ~IsOpen(t, id, at)
        /\ \A i, x : /\ i # id => (IsOpen(t, i, x) <=> IsOpen(s, i, x))
                     /\ IsOpen(t, i, x) => IsOpen(s, i, x)
    BY <2>1, WithoutUpload
  <2> QED BY <2>2, <2>3 DEF t
<1> QED BY <1>1, <1>2 DEF Drops

\* Each request, whatever its faults, is answered so.
LEMMA SvcCreateUploadDoes ==
  ASSUME NEW s, NEW at, NEW m, NEW a \in SvcCreateUpload(s, at, m)
  PROVE  Creates(s, at, a)
<1> DEFINE t == [s EXCEPT !.next = @ + 1,
                          !.ups = With(@, s.next, [at |-> at, meta |-> m, parts |-> <<>>])]
           out == [id |-> s.next]
           b == InBucket(s, at, Done(t, out))
<1>1. a \in Attempt(s, b)
  BY DEF SvcCreateUpload
<1>2. out.id = s.next
  OBVIOUS
<1> HIDE DEF t, out
<1>3. b.sit = "ok" => b.store = t /\ b.out = out
  BY DEF InBucket, No, Done, Reply
<1> HIDE DEF b
<1>4. a.sit = "ok" => a.store = t /\ a.out = out
  BY <1>1, <1>3, AttemptDoes
<1> QED BY <1>2, <1>4 DEF Creates, t

LEMMA SvcUploadPartDoes ==
  ASSUME NEW s, NEW id, NEW at, NEW pn, NEW bytes, NEW bodyFails,
         NEW a \in SvcUploadPart(s, id, at, pn, bytes, bodyFails)
  PROVE  SendsPart(s, id, at, a)
<1> DEFINE t == [s EXCEPT !.ups[id].parts = With(@, pn, bytes)]
           b == IF ~IsOpen(s, id, at) THEN No(s, "noSuchUpload")
                ELSE IF bodyFails THEN No(s, "bodyFailed")
                ELSE Done(t, [etag |-> bytes])
<1>1. a \in Attempt(s, b)
  BY DEF SvcUploadPart
<1> HIDE DEF t
<1>2. b.store = s \/ (b.store = t /\ IsOpen(s, id, at))
  BY DEF No, Done, Reply
<1> HIDE DEF b
<1>3. a.store = s \/ (a.store = t /\ IsOpen(s, id, at))
  BY <1>1, <1>2, AttemptDoes
<1> QED BY <1>3 DEF SendsPart, t

LEMMA SvcCompleteDoes ==
  ASSUME NEW s, NEW id, NEW at, NEW parts, NEW a \in SvcComplete(s, id, at, parts)
  PROVE  Finishes(s, id, at, a)
<1> DEFINE o == ObjectOf(Assembled(parts), s.ups[id].meta, "none")
           t == [StoreObject(s, at, o) EXCEPT !.ups = Without(@, id)]
           bad == \/ parts = <<>>
                  \/ \E i \in DOMAIN parts :
                       \/ parts[i].pn \notin DOMAIN s.ups[id].parts
                       \/ s.ups[id].parts[parts[i].pn] # parts[i].etag
                       \/ i > 1 /\ parts[i].pn <= parts[i - 1].pn
           b == IF ~IsOpen(s, id, at) THEN No(s, "noSuchUpload")
                ELSE IF bad THEN No(s, "invalidPart")
                ELSE Done(t, [etag |-> Etag(o)])
<1>1. a \in Attempt(s, b)
  BY DEF SvcComplete
<1>2. t = [StoreObject(s, at, o) EXCEPT !.ups = Without(@, id)]
  OBVIOUS
<1> HIDE DEF t, o, bad
<1>3. \/ b.store = s /\ b.sit # "ok" /\ (b.sit \in Missing => ~IsOpen(s, id, at))
      \/ b.store = t /\ b.sit = "ok" /\ IsOpen(s, id, at)
  BY DEF No, Done, Reply, Missing
<1> HIDE DEF b
<1>4. \A f \in Faults : f # "ok" /\ f \notin Missing
  BY FaultsAreErrors DEF Refusals, Lost, Missing
<1>5. \/ a = b
      \/ a.store = s /\ a.sit # "ok" /\ a.sit \notin Missing
      \/ a.store = b.store /\ a.sit # "ok" /\ a.sit \notin Missing /\ a.sit \in Lost
  BY <1>1, <1>4 DEF Attempt, No, Reply
<1>6. \/ a.store = s /\ a.sit # "ok" /\ (a.sit \in Missing => ~IsOpen(s, id, at))
      \/ a.store = t /\ a.sit \in Lost \cup {"ok"} /\ IsOpen(s, id, at)
  BY <1>3, <1>5
<1> QED BY <1>2, <1>6 DEF Finishes

LEMMA SvcAbortDoes ==
  ASSUME NEW s, NEW id, NEW at, NEW a \in SvcAbort(s, id, at)
  PROVE  Drops(s, id, at, a)
<1> DEFINE t == [s EXCEPT !.ups = Without(@, id)]
           b == IF ~IsOpen(s, id, at) THEN No(s, "noSuchUpload") ELSE Done(t, Nothing)
<1>1. a \in Attempt(s, b)
  BY DEF SvcAbort
<1> HIDE DEF t
<1>2. (b.store = t /\ IsOpen(s, id, at)) \/ (b.store = s /\ b.sit # "ok")
  BY DEF No, Done, Reply
<1> HIDE DEF b
<1>3. (a.store = t /\ IsOpen(s, id, at)) \/ (a.store = s /\ a.sit # "ok")
  BY <1>1, <1>2, AttemptDoes
<1> QED BY <1>3 DEF Drops, t

-----------------------------------------------------------------------------
(* What a driver's call does to the uploads *)

\* The upload i is the same in t as in s, for whatever object.
Same(d, s, t, i) ==
  \A x : /\ Reaches(d, t, i, x) <=> Reaches(d, s, i, x)
         /\ Held(d, t, i, x) <=> Held(d, s, i, x)
         /\ Placed(d, s, i, x) => Placed(d, t, i, x)

\* A new upload; a part; the end of an upload, by a Complete or an Abort.
Begins(d, s, t, id, at) ==
  /\ Sound(d, t) /\ KeepsObjects(s, t) /\ id = s.next /\ t.next = s.next + 1
  /\ Placed(d, t, id, at) /\ Held(d, t, id, at)
  /\ \A i : i # id => Same(d, s, t, i)
Continues(d, s, t) ==
  /\ Sound(d, t) /\ t.buckets = s.buckets /\ t.objs = s.objs /\ t.next = s.next
  /\ \A i : Same(d, s, t, i)
Ends(d, s, t, id, at) ==
  /\ Sound(d, t) /\ KeepsObjects(s, t) /\ t.next = s.next /\ Placed(d, t, id, at)
  /\ \A i : i # id => Same(d, s, t, i)
  /\ Reaches(d, t, id, at) => Reaches(d, s, id, at)

\* The outcomes of the calls, from where a driver with a registry has the
\* session.  A Complete that a service carries out is of an open upload; it
\* takes nothing away without publishing the object, and finds nothing only
\* where something was taken away.  An Abort that is answered has taken the
\* upload out of reach.  The gcs driver takes the session away before.
Initiates(d, s, at, o) == o.code = "ok" => Begins(d, s, o.store, o.out.id, at)
Completes(d, s, id, at, o) ==
  /\ Ends(d, s, o.store, id, at)
  /\ d \in Services /\ ~Reaches(d, s, id, at) => o.code # "ok" /\ o.store.objs = s.objs
  /\ d # "gcs" => /\ Held(d, s, id, at) => Held(d, o.store, id, at) \/ Has(o.store, at)
                  /\ o.code = "not_found" => ~Held(d, s, id, at)
Aborts(d, s, id, at, o) ==
  /\ Ends(d, s, o.store, id, at)
  /\ o.code = "ok" /\ (d = "gcs" => ~Reaches(d, s, id, at)) => ~Reaches(d, o.store, id, at)

\* The outcomes of the four calls that a driver makes of the upload id of the
\* object at.
UploadCalls(d, s, at, id, initiated, sent, completed, aborted) ==
  /\ \A o \in initiated : Initiates(d, s, at, o)
  /\ \A o \in sent : Continues(d, s, o.store)
  /\ \A o \in completed : Completes(d, s, id, at, o)
  /\ \A o \in aborted : Aborts(d, s, id, at, o)

\* A call that is declined does nothing of this.
LEMMA NothingDone ==
  ASSUME NEW d, NEW s, Sound(d, s)
  PROVE  /\ Continues(d, s, s)
         /\ \A id, at : Placed(d, s, id, at) => Ends(d, s, s, id, at)
BY DEF Continues, Ends, Same, KeepsObjects

LEMMA DeclinedUpload ==
  ASSUME NEW d, NEW s, Sound(d, s), NEW o, Declines(o, s)
  PROVE  /\ \A at : Initiates(d, s, at, o)
         /\ Continues(d, s, o.store)
         /\ \A id, at : Placed(d, s, id, at) => Aborts(d, s, id, at, o)
         /\ \A id, at : Placed(d, s, id, at) /\ (o.code = "not_found" => ~Held(d, s, id, at)) =>
              Completes(d, s, id, at, o)
BY NothingDone DEF Declines, Initiates, Aborts, Completes

\* A driver that passes the service's answers on.
LEMMA ServiceInitiates ==
  ASSUME NEW d \in Services, NEW s, Sound(d, s), NEW at, NEW m,
         NEW a \in SvcCreateUpload(s, at, m), NEW o, Gives(a, o)
  PROVE  Initiates(d, s, at, o)
<1> SUFFICES ASSUME o.code = "ok" PROVE Begins(d, s, o.store, o.out.id, at)
  BY DEF Initiates
<1>1. Creates(s, at, a) /\ a.sit = "ok" /\ o.store = a.store /\ o.out = a.out
  BY SvcCreateUploadDoes DEF Gives, Tells
<1>2. Shaped(s) /\ UpsShaped(s) /\ SessShaped(s)
  BY DEF Sound
<1>3. /\ OnlyUps(s, a.store) /\ a.store.next = s.next + 1
      /\ a.out.id = s.next /\ IsOpen(a.store, s.next, at)
      /\ \A i, x : i # s.next => (IsOpen(a.store, i, x) <=> IsOpen(s, i, x))
  BY <1>1, <1>2, CreatesDoes
<1> QED
  BY <1>1, <1>2, <1>3
  DEF Begins, Sound, OnlyUps, SessShaped, Placed, Held, Reaches, Same, Services, OverService

LEMMA ServiceContinues ==
  ASSUME NEW d \in Services, NEW s, Sound(d, s), NEW id, NEW at, NEW pn, NEW bytes,
         NEW fails, NEW a \in SvcUploadPart(s, id, at, pn, bytes, fails), NEW o, Tells(a, o)
  PROVE  Continues(d, s, o.store)
<1>1. SendsPart(s, id, at, a) /\ o.store = a.store
  BY SvcUploadPartDoes DEF Tells
<1>2. Shaped(s) /\ UpsShaped(s) /\ SessShaped(s)
  BY DEF Sound
<1>3. /\ OnlyUps(s, a.store) /\ a.store.next = s.next /\ a.store.objs = s.objs
      /\ \A i, x : IsOpen(a.store, i, x) <=> IsOpen(s, i, x)
  BY <1>1, <1>2, SendsPartDoes
<1> QED
  BY <1>1, <1>2, <1>3
  DEF Continues, KeepsObjects, Sound, OnlyUps, SessShaped, Placed, Held, Reaches, Same, Services,
      OverService

LEMMA ServiceCompletes ==
  ASSUME NEW d \in Services, NEW s, Sound(d, s), NEW id, NEW at, NEW parts,
         NEW a \in SvcComplete(s, id, at, parts), NEW o, Tells(a, o)
  PROVE  Completes(d, s, id, at, o)
<1>1. /\ Finishes(s, id, at, a) /\ o.store = a.store
      /\ o.code = "ok" <=> a.sit = "ok"
      /\ o.code = "not_found" => a.sit \in Missing
  BY SvcCompleteDoes DEF Tells
<1>2. Shaped(s) /\ UpsShaped(s) /\ SessShaped(s)
  BY DEF Sound
<1>3. /\ OnlyUps(s, a.store) /\ a.store.next = s.next
      /\ \A i, x : /\ i # id => (IsOpen(a.store, i, x) <=> IsOpen(s, i, x))
                   /\ IsOpen(a.store, i, x) => IsOpen(s, i, x)
      /\ IsOpen(s, id, at) => IsOpen(a.store, id, at) \/ Has(a.store, at)
      /\ a.sit \in Missing => ~IsOpen(s, id, at)
  BY <1>1, <1>2, FinishesDoes
<1>4. ~IsOpen(s, id, at) => a.sit # "ok" /\ a.store.objs = s.objs
  BY <1>1 DEF Finishes
<1>5. \A u, i, x : Reaches(d, u, i, x) = IsOpen(u, i, x) /\ Held(d, u, i, x) = IsOpen(u, i, x)
  BY DEF Reaches, Held, Services, OverService
<1>6. Ends(d, s, o.store, id, at)
  BY <1>1, <1>2, <1>3, <1>5
  DEF Ends, Sound, OnlyUps, SessShaped, Placed, Same
<1> QED
  BY <1>1, <1>3, <1>4, <1>5, <1>6 DEF Completes

LEMMA ServiceAborts ==
  ASSUME NEW d \in Services, NEW s, Sound(d, s), NEW id, NEW at,
         NEW a \in SvcAbort(s, id, at), NEW o, Tells(a, o)
  PROVE  Aborts(d, s, id, at, o)
<1>1. Drops(s, id, at, a) /\ o.store = a.store /\ (o.code = "ok" <=> a.sit = "ok")
  BY SvcAbortDoes DEF Tells
<1>2. Shaped(s) /\ UpsShaped(s) /\ SessShaped(s)
  BY DEF Sound
<1>3. /\ OnlyUps(s, a.store) /\ a.store.next = s.next
      /\ a.sit = "ok" => ~IsOpen(a.store, id, at)
      /\ \A i, x : /\ i # id => (IsOpen(a.store, i, x) <=> IsOpen(s, i, x))
                   /\ IsOpen(a.store, i, x) => IsOpen(s, i, x)
  BY <1>1, <1>2, DropsDoes
<1>4. \A u, i, x : Reaches(d, u, i, x) = IsOpen(u, i, x) /\ Held(d, u, i, x) = IsOpen(u, i, x)
  BY DEF Reaches, Held, Services, OverService
<1>5. Ends(d, s, o.store, id, at)
  BY <1>1, <1>2, <1>3, <1>4 DEF Ends, Sound, OnlyUps, SessShaped, Placed, Same
<1> QED BY <1>1, <1>3, <1>4, <1>5 DEF Aborts

-----------------------------------------------------------------------------
(* Drivers whose uploads are those of the service *)

\* What a driver makes of the answers about an upload it passes on: of the
\* request, when it sends it at all.  A Complete it does not send it blames on
\* the caller only when the list is empty or, the Tencent driver, when the bucket
\* is no host; and it sends the parts in their order.
Hosted(d, cl, bucket) == d = "tencent" => Tencent!BucketURL(cl, bucket) = "ok"
RelaysInitiate(d, cl, s, at, r, o) ==
  \/ Declines(o, s)
  \/ /\ Hosted(d, cl, r.bucket)
     /\ \E meta : \E a \in SvcCreateUpload(s, at, meta) : Gives(a, o)
RelaysPart(s, at, r, o) ==
  \/ Declines(o, s)
  \/ \E a \in SvcUploadPart(s, r.id, at, r.pn, r.body.bytes, r.body.fails) : Gives(a, o)
RefusesComplete(d, cl, s, r, o) ==
  /\ Declines(o, s) /\ o.code # "not_found"
  /\ r.parts # <<>> /\ Hosted(d, cl, r.bucket) => o.code \notin BlameCodes
RelaysComplete(d, cl, s, at, r, o) ==
  \/ RefusesComplete(d, cl, s, r, o)
  \/ \E parts : /\ Ordered(r.parts) => parts = r.parts
                /\ \E a \in SvcComplete(s, r.id, at, parts) : Gives(a, o)
RelaysAbort(s, at, r, o) ==
  Declines(o, s) \/ \E a \in SvcAbort(s, r.id, at) : Gives(a, o)
RelaysUploads(d, cl, s, at, r, initiated, sent, completed, aborted) ==
  /\ \A o \in initiated : RelaysInitiate(d, cl, s, at, r, o)
  /\ \A o \in sent : RelaysPart(s, at, r, o)
  /\ \A o \in completed : RelaysComplete(d, cl, s, at, r, o)
  /\ \A o \in aborted : RelaysAbort(s, at, r, o)

\* Such a driver does to the uploads what the service does.
LEMMA RelaysDo ==
  ASSUME NEW d \in Services, NEW s, Sound(d, s), NEW cl, NEW at, NEW r, NEW initiated,
         NEW sent, NEW completed, NEW aborted,
         RelaysUploads(d, cl, s, at, r, initiated, sent, completed, aborted)
  PROVE  UploadCalls(d, s, at, r.id, initiated, sent, completed, aborted)
<1>1. \A o \in initiated : Initiates(d, s, at, o)
  BY DeclinedUpload, ServiceInitiates DEF RelaysUploads, RelaysInitiate
<1>2. \A o \in sent : Continues(d, s, o.store)
  BY DeclinedUpload, ServiceContinues DEF RelaysUploads, RelaysPart, Gives
<1>3. \A o \in completed : Completes(d, s, r.id, at, o)
  BY DeclinedUpload, ServiceCompletes
     DEF RelaysUploads, RelaysComplete, RefusesComplete, Gives, Placed
<1>4. \A o \in aborted : Aborts(d, s, r.id, at, o)
  BY DeclinedUpload, ServiceAborts DEF RelaysUploads, RelaysAbort, Gives, Placed
<1> QED BY <1>1, <1>2, <1>3, <1>4 DEF UploadCalls

\* The uploads the AWS driver sees are those of ObjectService.
LEMMA AwsUploadService ==
  /\ \A s, at, m : Aws!SvcCreateUpload(s, at, m) = SvcCreateUpload(s, at, m)
  /\ \A s, i, at, n, b, f :
       Aws!SvcUploadPart(s, i, at, n, b, f) = SvcUploadPart(s, i, at, n, b, f)
  /\ \A s, i, at, p : Aws!SvcComplete(s, i, at, p) = SvcComplete(s, i, at, p)
  /\ \A s, i, at : Aws!SvcAbort(s, i, at) = SvcAbort(s, i, at)
<1>1. \A s, i, at, p : Aws!SvcComplete(s, i, at, p) = SvcComplete(s, i, at, p)
  <2>1. \A parts : Aws!Assembled(parts) = Assembled(parts)
    BY DEF Assembled, Joined, Loop, Aws!Assembled, Aws!Joined, Aws!Loop
  <2>2. /\ \A s, a : Aws!Attempt(s, a) = Attempt(s, a)
        /\ \A s, f : Aws!No(s, f) = No(s, f) /\ Aws!Done(s, f) = Done(s, f)
        /\ \A s, i, at : Aws!IsOpen(s, i, at) = IsOpen(s, i, at)
    BY DEF Attempt, No, Done, Reply, IsOpen, Lost, Nothing, Aws!Attempt, Aws!No,
           Aws!Done, Aws!Reply, Aws!IsOpen, Aws!Lost, Aws!Nothing
  <2>3. /\ \A s, at, o : Aws!StoreObject(s, at, o) = StoreObject(s, at, o)
        /\ \A f, x : Aws!Without(f, x) = Without(f, x)
        /\ \A b, m, t : Aws!ObjectOf(b, m, t) = ObjectOf(b, m, t)
        /\ \A o : Aws!Etag(o) = Etag(o)
    BY DEF StoreObject, With, Without, Restrict, ObjectOf, Etag, Aws!StoreObject,
           Aws!With, Aws!Without, Aws!Restrict, Aws!ObjectOf, Aws!Etag
  <2> QED BY <2>1, <2>2, <2>3 DEF SvcComplete, Aws!SvcComplete
<1> QED
  BY <1>1
  DEF SvcCreateUpload, SvcUploadPart, SvcAbort, Attempt, InBucket, No, Done, Reply,
      With, Without, Restrict, IsOpen, Lost, Nothing, Aws!SvcCreateUpload,
      Aws!SvcUploadPart, Aws!SvcAbort, Aws!Attempt, Aws!InBucket, Aws!No, Aws!Done,
      Aws!Reply, Aws!With, Aws!Without, Aws!Restrict, Aws!IsOpen, Aws!Lost,
      Aws!Nothing

\* The AWS driver passes the answers about an upload on.
LEMMA AwsRelays ==
  ASSUME NEW cl, NEW s, NEW r, NamesView(cl, r)
  PROVE  RelaysUploads("aws", cl, s, <<r.bucket, r.key>>, r,
           Aws!InitiateUpload(cl, s, r), Aws!UploadPartSend(cl, s, r),
           Aws!CompleteUpload(cl, s, r), Aws!AbortUpload(cl, s, r))
<1> DEFINE at == <<r.bucket, r.key>>
           created == SvcCreateUpload(s, at, Aws!MetadataToAWS(r.meta))
           sent == SvcUploadPart(s, r.id, at, r.pn, r.body.bytes, r.body.fails)
           completed == SvcComplete(s, r.id, at, r.parts)
           aborted == SvcAbort(s, r.id, at)
<1>1. Aws!At(cl, r) = at
  BY DEF Aws!At, NamesView
<1> HIDE DEF at
<1>2. \A o \in Aws!InitiateUpload(cl, s, r) :
        Declines(o, s) \/ (Hosted("aws", cl, r.bucket) /\ o \in Aws!Ask(s, r.bucket, created))
  BY <1>1, AwsUploadService
     DEF Aws!InitiateUpload, Aws!Refuse, Aws!Error, Declines, Hosted
<1>3. \A o \in Aws!UploadPartSend(cl, s, r) : o \in Aws!Ask(s, r.bucket, sent)
  BY <1>1, AwsUploadService DEF Aws!UploadPartSend
<1>4. \A o \in Aws!CompleteUpload(cl, s, r) :
        RefusesComplete("aws", cl, s, r, o) \/ o \in Aws!Ask(s, r.bucket, completed)
  BY <1>1, AwsUploadService
     DEF Aws!CompleteUpload, Aws!Refuse, Aws!Error, Declines, RefusesComplete
<1>5. \A o \in Aws!AbortUpload(cl, s, r) : Declines(o, s) \/ o \in Aws!Ask(s, r.bucket, aborted)
  BY <1>1, AwsUploadService
     DEF Aws!AbortUpload, Aws!Refuse, Aws!Error, Declines
<1> HIDE DEF created, sent, completed, aborted
<1>6. \A answers : \A o \in Aws!Ask(s, r.bucket, answers) :
        \/ Declines(o, s) /\ o.code \notin BlameCodes
        \/ \E a \in answers : Gives(a, o)
  BY AwsAsk
<1>7. \A o : Declines(o, s) /\ o.code \notin BlameCodes => RefusesComplete("aws", cl, s, r, o)
  BY DEF RefusesComplete, BlameCodes
<1>8. \A o \in Aws!InitiateUpload(cl, s, r) : RelaysInitiate("aws", cl, s, at, r, o)
  BY <1>2, <1>6 DEF RelaysInitiate, created
<1>9. \A o \in Aws!UploadPartSend(cl, s, r) : RelaysPart(s, at, r, o)
  BY <1>3, <1>6 DEF RelaysPart, sent
<1>10. \A o \in Aws!CompleteUpload(cl, s, r) : RelaysComplete("aws", cl, s, at, r, o)
  BY <1>4, <1>6, <1>7 DEF RelaysComplete, completed
<1>11. \A o \in Aws!AbortUpload(cl, s, r) : RelaysAbort(s, at, r, o)
  BY <1>5, <1>6 DEF RelaysAbort, aborted
<1> QED BY <1>8, <1>9, <1>10, <1>11 DEF at, RelaysUploads

\* The uploads the MinIO driver sees are those of ObjectService.
LEMMA MinioUploadService ==
  /\ \A s, at, m : Minio!SvcCreateUpload(s, at, m) = SvcCreateUpload(s, at, m)
  /\ \A s, i, at, n, b, f :
       Minio!SvcUploadPart(s, i, at, n, b, f) = SvcUploadPart(s, i, at, n, b, f)
  /\ \A s, i, at, p : Minio!SvcComplete(s, i, at, p) = SvcComplete(s, i, at, p)
  /\ \A s, i, at : Minio!SvcAbort(s, i, at) = SvcAbort(s, i, at)
<1>1. \A s, i, at, p : Minio!SvcComplete(s, i, at, p) = SvcComplete(s, i, at, p)
  <2>1. \A parts : Minio!Assembled(parts) = Assembled(parts)
    BY DEF Assembled, Joined, Loop, Minio!Assembled, Minio!Joined, Minio!Loop
  <2>2. /\ \A s, a : Minio!Attempt(s, a) = Attempt(s, a)
        /\ \A s, f : Minio!No(s, f) = No(s, f) /\ Minio!Done(s, f) = Done(s, f)
        /\ \A s, i, at : Minio!IsOpen(s, i, at) = IsOpen(s, i, at)
    BY DEF Attempt, No, Done, Reply, IsOpen, Lost, Nothing, Minio!Attempt, Minio!No,
           Minio!Done, Minio!Reply, Minio!IsOpen, Minio!Lost, Minio!Nothing
  <2>3. /\ \A s, at, o : Minio!StoreObject(s, at, o) = StoreObject(s, at, o)
        /\ \A f, x : Minio!Without(f, x) = Without(f, x)
        /\ \A b, m, t : Minio!ObjectOf(b, m, t) = ObjectOf(b, m, t)
        /\ \A o : Minio!Etag(o) = Etag(o)
    BY DEF StoreObject, With, Without, Restrict, ObjectOf, Etag, Minio!StoreObject,
           Minio!With, Minio!Without, Minio!Restrict, Minio!ObjectOf, Minio!Etag
  <2> QED BY <2>1, <2>2, <2>3 DEF SvcComplete, Minio!SvcComplete
<1> QED
  BY <1>1
  DEF SvcCreateUpload, SvcUploadPart, SvcAbort, Attempt, InBucket, No, Done, Reply,
      With, Without, Restrict, IsOpen, Lost, Nothing, Minio!SvcCreateUpload,
      Minio!SvcUploadPart, Minio!SvcAbort, Minio!Attempt, Minio!InBucket, Minio!No,
      Minio!Done, Minio!Reply, Minio!With, Minio!Without, Minio!Restrict,
      Minio!IsOpen, Minio!Lost, Minio!Nothing

\* The MinIO driver passes the answers about an upload on.
LEMMA MinioRelays ==
  ASSUME NEW cl, NEW s, NEW r, NamesView(cl, r)
  PROVE  RelaysUploads("minio", cl, s, <<r.bucket, r.key>>, r,
           Minio!InitiateUpload(cl, s, r), Minio!UploadPartSend(cl, s, r),
           Minio!CompleteUpload(cl, s, r), Minio!AbortUpload(cl, s, r))
<1> DEFINE at == <<r.bucket, r.key>>
           created == SvcCreateUpload(s, at, Minio!ToLowerMap(r.meta))
           sent == SvcUploadPart(s, r.id, at, r.pn, r.body.bytes, r.body.fails)
           completed == SvcComplete(s, r.id, at, r.parts)
           aborted == SvcAbort(s, r.id, at)
<1>1. Minio!At(cl, r) = at
  BY DEF Minio!At, Minio!PickBucket, NamesView
<1> HIDE DEF at
<1>2. \A o \in Minio!InitiateUpload(cl, s, r) :
        Declines(o, s) \/ (Hosted("minio", cl, r.bucket) /\ o \in Minio!Ask(created))
  BY <1>1, MinioUploadService
     DEF Minio!InitiateUpload, Minio!Refuse, Minio!Error, Declines, Hosted
<1>3. \A o \in Minio!UploadPartSend(cl, s, r) : o \in Minio!Ask(sent)
  BY <1>1, MinioUploadService DEF Minio!UploadPartSend
<1>4. \A o \in Minio!CompleteUpload(cl, s, r) :
        RefusesComplete("minio", cl, s, r, o) \/ o \in Minio!Ask(completed)
  BY <1>1, MinioUploadService
     DEF Minio!CompleteUpload, Minio!Refuse, Minio!Error, Declines, RefusesComplete
<1>5. \A o \in Minio!AbortUpload(cl, s, r) : Declines(o, s) \/ o \in Minio!Ask(aborted)
  BY <1>1, MinioUploadService
     DEF Minio!AbortUpload, Minio!Refuse, Minio!Error, Declines
<1> HIDE DEF created, sent, completed, aborted
<1>6. \A answers : \A o \in Minio!Ask(answers) :
        \/ Declines(o, s) /\ o.code \notin BlameCodes
        \/ \E a \in answers : Gives(a, o)
  BY MinioAsk
<1>7. \A o : Declines(o, s) /\ o.code \notin BlameCodes => RefusesComplete("minio", cl, s, r, o)
  BY DEF RefusesComplete, BlameCodes
<1>8. \A o \in Minio!InitiateUpload(cl, s, r) : RelaysInitiate("minio", cl, s, at, r, o)
  BY <1>2, <1>6 DEF RelaysInitiate, created
<1>9. \A o \in Minio!UploadPartSend(cl, s, r) : RelaysPart(s, at, r, o)
  BY <1>3, <1>6 DEF RelaysPart, sent
<1>10. \A o \in Minio!CompleteUpload(cl, s, r) : RelaysComplete("minio", cl, s, at, r, o)
  BY <1>4, <1>6, <1>7 DEF RelaysComplete, completed
<1>11. \A o \in Minio!AbortUpload(cl, s, r) : RelaysAbort(s, at, r, o)
  BY <1>5, <1>6 DEF RelaysAbort, aborted
<1> QED BY <1>8, <1>9, <1>10, <1>11 DEF at, RelaysUploads

\* The uploads the Alibaba driver sees are those of ObjectService.
LEMMA AlibabaUploadService ==
  /\ \A s, at, m : Alibaba!SvcCreateUpload(s, at, m) = SvcCreateUpload(s, at, m)
  /\ \A s, i, at, n, b, f :
       Alibaba!SvcUploadPart(s, i, at, n, b, f) = SvcUploadPart(s, i, at, n, b, f)
  /\ \A s, i, at, p : Alibaba!SvcComplete(s, i, at, p) = SvcComplete(s, i, at, p)
  /\ \A s, i, at : Alibaba!SvcAbort(s, i, at) = SvcAbort(s, i, at)
<1>1. \A s, i, at, p : Alibaba!SvcComplete(s, i, at, p) = SvcComplete(s, i, at, p)
  <2>1. \A parts : Alibaba!Assembled(parts) = Assembled(parts)
    BY DEF Assembled, Joined, Loop, Alibaba!Assembled, Alibaba!Joined, Alibaba!Loop
  <2>2. /\ \A s, a : Alibaba!Attempt(s, a) = Attempt(s, a)
        /\ \A s, f : Alibaba!No(s, f) = No(s, f) /\ Alibaba!Done(s, f) = Done(s, f)
        /\ \A s, i, at : Alibaba!IsOpen(s, i, at) = IsOpen(s, i, at)
    BY
       DEF Attempt, No, Done, Reply, IsOpen, Lost, Nothing, Alibaba!Attempt,
           Alibaba!No,
           Alibaba!Done, Alibaba!Reply, Alibaba!IsOpen, Alibaba!Lost, Alibaba!Nothing
  <2>3. /\ \A s, at, o : Alibaba!StoreObject(s, at, o) = StoreObject(s, at, o)
        /\ \A f, x : Alibaba!Without(f, x) = Without(f, x)
        /\ \A b, m, t : Alibaba!ObjectOf(b, m, t) = ObjectOf(b, m, t)
        /\ \A o : Alibaba!Etag(o) = Etag(o)
    BY
       DEF StoreObject, With, Without, Restrict, ObjectOf, Etag, Alibaba!StoreObject,
           Alibaba!With, Alibaba!Without, Alibaba!Restrict, Alibaba!ObjectOf,
           Alibaba!Etag
  <2> QED BY <2>1, <2>2, <2>3 DEF SvcComplete, Alibaba!SvcComplete
<1> QED
  BY <1>1
  DEF SvcCreateUpload, SvcUploadPart, SvcAbort, Attempt, InBucket, No, Done, Reply,
      With, Without, Restrict, IsOpen, Lost, Nothing, Alibaba!SvcCreateUpload,
      Alibaba!SvcUploadPart, Alibaba!SvcAbort, Alibaba!Attempt, Alibaba!InBucket,
      Alibaba!No, Alibaba!Done, Alibaba!Reply, Alibaba!With, Alibaba!Without,
      Alibaba!Restrict, Alibaba!IsOpen, Alibaba!Lost, Alibaba!Nothing

\* The Alibaba driver passes the answers about an upload on.
LEMMA AlibabaRelays ==
  ASSUME NEW cl, NEW s, NEW r, NamesView(cl, r)
  PROVE  RelaysUploads("alibaba", cl, s, <<r.bucket, r.key>>, r,
           Alibaba!InitiateUpload(cl, s, r), Alibaba!UploadPartSend(cl, s, r),
           Alibaba!CompleteUpload(cl, s, r), Alibaba!AbortUpload(cl, s, r))
<1> DEFINE at == <<r.bucket, r.key>>
           created == SvcCreateUpload(s, at, Alibaba!ApplyMetadata(r.meta))
           sent == SvcUploadPart(s, r.id, at, r.pn, r.body.bytes, r.body.fails)
           completed == SvcComplete(s, r.id, at, r.parts)
           aborted == SvcAbort(s, r.id, at)
<1>1. Alibaba!At(cl, r) = at
  BY DEF Alibaba!At, Alibaba!PickBucket, NamesView
<1> HIDE DEF at
<1>2. \A o \in Alibaba!InitiateUpload(cl, s, r) :
        Declines(o, s) \/ (Hosted("alibaba", cl, r.bucket) /\ o \in Alibaba!Ask(created))
  BY <1>1, AlibabaUploadService
     DEF Alibaba!InitiateUpload, Alibaba!Refuse, Alibaba!Error, Declines, Hosted
<1>3. \A o \in Alibaba!UploadPartSend(cl, s, r) : o \in Alibaba!Ask(sent)
  BY <1>1, AlibabaUploadService DEF Alibaba!UploadPartSend
<1>4. \A o \in Alibaba!CompleteUpload(cl, s, r) :
        RefusesComplete("alibaba", cl, s, r, o) \/ o \in Alibaba!Ask(completed)
  BY <1>1, AlibabaUploadService
     DEF Alibaba!CompleteUpload, Alibaba!Refuse, Alibaba!Error, Declines, RefusesComplete
<1>5. \A o \in Alibaba!AbortUpload(cl, s, r) : Declines(o, s) \/ o \in Alibaba!Ask(aborted)
  BY <1>1, AlibabaUploadService
     DEF Alibaba!AbortUpload, Alibaba!Refuse, Alibaba!Error, Declines
<1> HIDE DEF created, sent, completed, aborted
<1>6. \A answers : \A o \in Alibaba!Ask(answers) :
        \/ Declines(o, s) /\ o.code \notin BlameCodes
        \/ \E a \in answers : Gives(a, o)
  BY AlibabaAsk
<1>7. \A o : Declines(o, s) /\ o.code \notin BlameCodes => RefusesComplete("alibaba", cl, s, r, o)
  BY DEF RefusesComplete, BlameCodes
<1>8. \A o \in Alibaba!InitiateUpload(cl, s, r) : RelaysInitiate("alibaba", cl, s, at, r, o)
  BY <1>2, <1>6 DEF RelaysInitiate, created
<1>9. \A o \in Alibaba!UploadPartSend(cl, s, r) : RelaysPart(s, at, r, o)
  BY <1>3, <1>6 DEF RelaysPart, sent
<1>10. \A o \in Alibaba!CompleteUpload(cl, s, r) : RelaysComplete("alibaba", cl, s, at, r, o)
  BY <1>4, <1>6, <1>7 DEF RelaysComplete, completed
<1>11. \A o \in Alibaba!AbortUpload(cl, s, r) : RelaysAbort(s, at, r, o)
  BY <1>5, <1>6 DEF RelaysAbort, aborted
<1> QED BY <1>8, <1>9, <1>10, <1>11 DEF at, RelaysUploads

\* The uploads the Tencent driver sees are those of ObjectService.
LEMMA TencentUploadService ==
  /\ \A s, at, m : Tencent!SvcCreateUpload(s, at, m) = SvcCreateUpload(s, at, m)
  /\ \A s, i, at, n, b, f :
       Tencent!SvcUploadPart(s, i, at, n, b, f) = SvcUploadPart(s, i, at, n, b, f)
  /\ \A s, i, at, p : Tencent!SvcComplete(s, i, at, p) = SvcComplete(s, i, at, p)
  /\ \A s, i, at : Tencent!SvcAbort(s, i, at) = SvcAbort(s, i, at)
<1>1. \A s, i, at, p : Tencent!SvcComplete(s, i, at, p) = SvcComplete(s, i, at, p)
  <2>1. \A parts : Tencent!Assembled(parts) = Assembled(parts)
    BY DEF Assembled, Joined, Loop, Tencent!Assembled, Tencent!Joined, Tencent!Loop
  <2>2. /\ \A s, a : Tencent!Attempt(s, a) = Attempt(s, a)
        /\ \A s, f : Tencent!No(s, f) = No(s, f) /\ Tencent!Done(s, f) = Done(s, f)
        /\ \A s, i, at : Tencent!IsOpen(s, i, at) = IsOpen(s, i, at)
    BY
       DEF Attempt, No, Done, Reply, IsOpen, Lost, Nothing, Tencent!Attempt,
           Tencent!No,
           Tencent!Done, Tencent!Reply, Tencent!IsOpen, Tencent!Lost, Tencent!Nothing
  <2>3. /\ \A s, at, o : Tencent!StoreObject(s, at, o) = StoreObject(s, at, o)
        /\ \A f, x : Tencent!Without(f, x) = Without(f, x)
        /\ \A b, m, t : Tencent!ObjectOf(b, m, t) = ObjectOf(b, m, t)
        /\ \A o : Tencent!Etag(o) = Etag(o)
    BY
       DEF StoreObject, With, Without, Restrict, ObjectOf, Etag, Tencent!StoreObject,
           Tencent!With, Tencent!Without, Tencent!Restrict, Tencent!ObjectOf,
           Tencent!Etag
  <2> QED BY <2>1, <2>2, <2>3 DEF SvcComplete, Tencent!SvcComplete
<1> QED
  BY <1>1
  DEF SvcCreateUpload, SvcUploadPart, SvcAbort, Attempt, InBucket, No, Done, Reply,
      With, Without, Restrict, IsOpen, Lost, Nothing, Tencent!SvcCreateUpload,
      Tencent!SvcUploadPart, Tencent!SvcAbort, Tencent!Attempt, Tencent!InBucket,
      Tencent!No, Tencent!Done, Tencent!Reply, Tencent!With, Tencent!Without,
      Tencent!Restrict, Tencent!IsOpen, Tencent!Lost, Tencent!Nothing

\* The Tencent driver makes a client for the host of the bucket first.
LEMMA TencentHosts ==
  ASSUME NEW cl, NEW s, NEW r, NamesView(cl, r)
  PROVE  /\ Tencent!PickBucket(cl, r) = r.bucket
         /\ \A outcomes : \A o \in Tencent!BucketClient(cl, s, r.bucket, outcomes) :
              \/ Hosted("tencent", cl, r.bucket) /\ o \in outcomes
              \/ ~Hosted("tencent", cl, r.bucket) /\ o = Tencent!Refuse(s, "invalid_argument")
BY DEF Tencent!PickBucket, NamesView, Hosted, Tencent!BucketClient, Tencent!BucketURL

\* The Tencent driver passes the answers about an upload on.
LEMMA TencentRelays ==
  ASSUME NEW cl, NEW s, NEW r, NamesView(cl, r)
  PROVE  RelaysUploads("tencent", cl, s, <<r.bucket, r.key>>, r,
           Tencent!InitiateUpload(cl, s, r), Tencent!UploadPartSend(cl, s, r),
           Tencent!CompleteUpload(cl, s, r), Tencent!AbortUpload(cl, s, r))
<1> DEFINE at == <<r.bucket, r.key>>
           created == SvcCreateUpload(s, at, Tencent!MetadataToHeader(r.meta))
           sent == SvcUploadPart(s, r.id, at, r.pn, r.body.bytes, r.body.fails)
           completed(parts) == SvcComplete(s, r.id, at, parts)
           aborted == SvcAbort(s, r.id, at)
<1>1. Tencent!At(cl, r) = at
  BY DEF Tencent!At, Tencent!PickBucket, NamesView
<1> HIDE DEF at
<1>2. \A o \in Tencent!InitiateUpload(cl, s, r) :
        Declines(o, s) \/ (Hosted("tencent", cl, r.bucket) /\ o \in Tencent!Ask(created))
  <2> DEFINE asked == Tencent!Ask(Tencent!SvcCreateUpload(s, Tencent!At(cl, r),
                                    Tencent!MetadataToHeader(r.meta)))
  <2>1. asked = Tencent!Ask(created)
    BY <1>1, TencentUploadService
  <2>2. Tencent!InitiateUpload(cl, s, r) = Tencent!BucketClient(cl, s, r.bucket, asked)
    BY TencentHosts DEF Tencent!InitiateUpload
  <2> HIDE DEF asked
  <2>3. Declines(Tencent!Refuse(s, "invalid_argument"), s)
    BY DEF Tencent!Refuse, Tencent!Error, Declines
  <2>4. \A o \in Tencent!BucketClient(cl, s, r.bucket, asked) :
          Declines(o, s) \/ (Hosted("tencent", cl, r.bucket) /\ o \in asked)
    BY <2>3, TencentHosts
  <2> QED BY Zenon, <2>1, <2>2, <2>4
<1>3. \A o \in Tencent!UploadPartSend(cl, s, r) : o \in Tencent!Ask(sent)
  BY <1>1, TencentUploadService DEF Tencent!UploadPartSend
<1>4. \A o \in Tencent!CompleteUpload(cl, s, r) :
        \/ RefusesComplete("tencent", cl, s, r, o)
        \/ o \in Tencent!Ask(completed(Tencent!ByNumber(r.parts)))
  <2> DEFINE asked == Tencent!Ask(Tencent!SvcComplete(s, r.id, Tencent!At(cl, r),
                                    Tencent!ByNumber(r.parts)))
             no == Tencent!Refuse(s, "invalid_argument")
  <2>1. asked = Tencent!Ask(completed(Tencent!ByNumber(r.parts)))
    BY <1>1, TencentUploadService
  <2>2. Tencent!CompleteUpload(cl, s, r) =
          IF r.parts = <<>> THEN {no}
          ELSE Tencent!BucketClient(cl, s, r.bucket, asked)
    BY Zenon, TencentHosts DEF Tencent!CompleteUpload
  <2> HIDE DEF asked
  <2>3. ~Hosted("tencent", cl, r.bucket) \/ r.parts = <<>> =>
          RefusesComplete("tencent", cl, s, r, Tencent!Refuse(s, "invalid_argument"))
    BY DEF Tencent!Refuse, Tencent!Error, Declines, RefusesComplete
  <2>4. \A o \in Tencent!BucketClient(cl, s, r.bucket, asked) :
          RefusesComplete("tencent", cl, s, r, o) \/ o \in asked
    BY <2>3, TencentHosts
  <2>5. r.parts = <<>> => RefusesComplete("tencent", cl, s, r, no)
    BY <2>3
  <2> HIDE DEF no
  <2>6. \A o \in Tencent!CompleteUpload(cl, s, r) :
          RefusesComplete("tencent", cl, s, r, o) \/ o \in asked
    BY <2>2, <2>4, <2>5
  <2> QED BY Zenon, <2>1, <2>6
<1>5. \A o \in Tencent!AbortUpload(cl, s, r) : Declines(o, s) \/ o \in Tencent!Ask(aborted)
  BY <1>1, TencentUploadService, TencentBucketClient
     DEF Tencent!AbortUpload, Tencent!Refuse, Tencent!Error, Declines
<1> HIDE DEF created, sent, completed, aborted
<1>6. \A answers : \A o \in Tencent!Ask(answers) :
        \/ Declines(o, s) /\ o.code \notin BlameCodes
        \/ \E a \in answers : Gives(a, o)
  BY TencentAsk
<1>7. \A o : Declines(o, s) /\ o.code \notin BlameCodes => RefusesComplete("tencent", cl, s, r, o)
  BY DEF RefusesComplete, BlameCodes
<1>8. \A o \in Tencent!InitiateUpload(cl, s, r) : RelaysInitiate("tencent", cl, s, at, r, o)
  BY <1>2, <1>6 DEF RelaysInitiate, created
<1>9. \A o \in Tencent!UploadPartSend(cl, s, r) : RelaysPart(s, at, r, o)
  BY <1>3, <1>6 DEF RelaysPart, sent
<1>10. \A o \in Tencent!CompleteUpload(cl, s, r) : RelaysComplete("tencent", cl, s, at, r, o)
  BY <1>4, <1>6, <1>7, ByNumberKeeps DEF RelaysComplete, completed
<1>11. \A o \in Tencent!AbortUpload(cl, s, r) : RelaysAbort(s, at, r, o)
  BY <1>5, <1>6 DEF RelaysAbort, aborted
<1> QED BY <1>8, <1>9, <1>10, <1>11 DEF at, RelaysUploads

\* The uploads the Huawei driver sees are those of ObjectService.
LEMMA HuaweiUploadService ==
  /\ \A s, at, m : Huawei!SvcCreateUpload(s, at, m) = SvcCreateUpload(s, at, m)
  /\ \A s, i, at, n, b, f :
       Huawei!SvcUploadPart(s, i, at, n, b, f) = SvcUploadPart(s, i, at, n, b, f)
  /\ \A s, i, at, p : Huawei!SvcComplete(s, i, at, p) = SvcComplete(s, i, at, p)
  /\ \A s, i, at : Huawei!SvcAbort(s, i, at) = SvcAbort(s, i, at)
<1>1. \A s, i, at, p : Huawei!SvcComplete(s, i, at, p) = SvcComplete(s, i, at, p)
  <2>1. \A parts : Huawei!Assembled(parts) = Assembled(parts)
    BY DEF Assembled, Joined, Loop, Huawei!Assembled, Huawei!Joined, Huawei!Loop
  <2>2. /\ \A s, a : Huawei!Attempt(s, a) = Attempt(s, a)
        /\ \A s, f : Huawei!No(s, f) = No(s, f) /\ Huawei!Done(s, f) = Done(s, f)
        /\ \A s, i, at : Huawei!IsOpen(s, i, at) = IsOpen(s, i, at)
    BY
       DEF Attempt, No, Done, Reply, IsOpen, Lost, Nothing, Huawei!Attempt,
           Huawei!No,
           Huawei!Done, Huawei!Reply, Huawei!IsOpen, Huawei!Lost, Huawei!Nothing
  <2>3. /\ \A s, at, o : Huawei!StoreObject(s, at, o) = StoreObject(s, at, o)
        /\ \A f, x : Huawei!Without(f, x) = Without(f, x)
        /\ \A b, m, t : Huawei!ObjectOf(b, m, t) = ObjectOf(b, m, t)
        /\ \A o : Huawei!Etag(o) = Etag(o)
    BY DEF StoreObject, With, Without, Restrict, ObjectOf, Etag, Huawei!StoreObject,
           Huawei!With, Huawei!Without, Huawei!Restrict, Huawei!ObjectOf, Huawei!Etag
  <2> QED BY <2>1, <2>2, <2>3 DEF SvcComplete, Huawei!SvcComplete
<1> QED
  BY <1>1
  DEF SvcCreateUpload, SvcUploadPart, SvcAbort, Attempt, InBucket, No, Done, Reply,
      With, Without, Restrict, IsOpen, Lost, Nothing, Huawei!SvcCreateUpload,
      Huawei!SvcUploadPart, Huawei!SvcAbort, Huawei!Attempt, Huawei!InBucket,
      Huawei!No, Huawei!Done, Huawei!Reply, Huawei!With, Huawei!Without,
      Huawei!Restrict, Huawei!IsOpen, Huawei!Lost, Huawei!Nothing

\* The Huawei driver passes the answers about an upload on.
LEMMA HuaweiRelays ==
  ASSUME NEW cl, NEW s, NEW r, NamesView(cl, r)
  PROVE  RelaysUploads("huawei", cl, s, <<r.bucket, r.key>>, r,
           Huawei!InitiateUpload(cl, s, r), Huawei!UploadPartSend(cl, s, r),
           Huawei!CompleteUpload(cl, s, r), Huawei!AbortUpload(cl, s, r))
<1> DEFINE at == <<r.bucket, r.key>>
           created == SvcCreateUpload(s, at, Huawei!LowerMetadataKeys(r.meta))
           sent == SvcUploadPart(s, r.id, at, r.pn, r.body.bytes, r.body.fails)
           completed == SvcComplete(s, r.id, at, r.parts)
           aborted == SvcAbort(s, r.id, at)
<1>1. Huawei!At(cl, r) = at
  BY DEF Huawei!At, Huawei!PickBucket, NamesView
<1> HIDE DEF at
<1>2. \A o \in Huawei!InitiateUpload(cl, s, r) :
        Declines(o, s) \/ (Hosted("huawei", cl, r.bucket) /\ o \in Huawei!Ask(cl, s, created))
  BY <1>1, HuaweiUploadService
     DEF Huawei!InitiateUpload, Huawei!Refuse, Huawei!Error, Huawei!Panic, Huawei!WithClient, Declines, Hosted
<1>3. \A o \in Huawei!UploadPartSend(cl, s, r) : o \in Huawei!Ask(cl, s, sent)
  BY <1>1, HuaweiUploadService DEF Huawei!UploadPartSend
<1>4. \A o \in Huawei!CompleteUpload(cl, s, r) :
        RefusesComplete("huawei", cl, s, r, o) \/ o \in Huawei!Ask(cl, s, completed)
  BY <1>1, HuaweiUploadService
     DEF Huawei!CompleteUpload, Huawei!Refuse, Huawei!Error, Huawei!Panic, Huawei!WithClient, Declines, RefusesComplete
<1>5. \A o \in Huawei!AbortUpload(cl, s, r) : Declines(o, s) \/ o \in Huawei!Ask(cl, s, aborted)
  BY <1>1, HuaweiUploadService
     DEF Huawei!AbortUpload, Huawei!Refuse, Huawei!Error, Huawei!Panic, Huawei!WithClient, Declines
<1> HIDE DEF created, sent, completed, aborted
<1>6. \A answers : \A o \in Huawei!Ask(cl, s, answers) :
        \/ Declines(o, s) /\ o.code \notin BlameCodes
        \/ \E a \in answers : Gives(a, o)
  BY HuaweiAsk
<1>7. \A o : Declines(o, s) /\ o.code \notin BlameCodes => RefusesComplete("huawei", cl, s, r, o)
  BY DEF RefusesComplete, BlameCodes
<1>8. \A o \in Huawei!InitiateUpload(cl, s, r) : RelaysInitiate("huawei", cl, s, at, r, o)
  BY <1>2, <1>6 DEF RelaysInitiate, created
<1>9. \A o \in Huawei!UploadPartSend(cl, s, r) : RelaysPart(s, at, r, o)
  BY <1>3, <1>6 DEF RelaysPart, sent
<1>10. \A o \in Huawei!CompleteUpload(cl, s, r) : RelaysComplete("huawei", cl, s, at, r, o)
  BY <1>4, <1>6, <1>7 DEF RelaysComplete, completed
<1>11. \A o \in Huawei!AbortUpload(cl, s, r) : RelaysAbort(s, at, r, o)
  BY <1>5, <1>6 DEF RelaysAbort, aborted
<1> QED BY <1>8, <1>9, <1>10, <1>11 DEF at, RelaysUploads

\* The uploads the Volcengine driver sees are those of ObjectService.
LEMMA VolcengineUploadService ==
  /\ \A s, at, m : Volcengine!SvcCreateUpload(s, at, m) = SvcCreateUpload(s, at, m)
  /\ \A s, i, at, n, b, f :
       Volcengine!SvcUploadPart(s, i, at, n, b, f) = SvcUploadPart(s, i, at, n, b, f)
  /\ \A s, i, at, p : Volcengine!SvcComplete(s, i, at, p) = SvcComplete(s, i, at, p)
  /\ \A s, i, at : Volcengine!SvcAbort(s, i, at) = SvcAbort(s, i, at)
<1>1. \A s, i, at, p : Volcengine!SvcComplete(s, i, at, p) = SvcComplete(s, i, at, p)
  <2>1. \A parts : Volcengine!Assembled(parts) = Assembled(parts)
    BY DEF Assembled, Joined, Loop, Volcengine!Assembled, Volcengine!Joined, Volcengine!Loop
  <2>2. /\ \A s, a : Volcengine!Attempt(s, a) = Attempt(s, a)
        /\ \A s, f : Volcengine!No(s, f) = No(s, f) /\ Volcengine!Done(s, f) = Done(s, f)
        /\ \A s, i, at : Volcengine!IsOpen(s, i, at) = IsOpen(s, i, at)
    BY
       DEF Attempt, No, Done, Reply, IsOpen, Lost, Nothing, Volcengine!Attempt,
           Volcengine!No, Volcengine!Done, Volcengine!Reply, Volcengine!IsOpen,
           Volcengine!Lost, Volcengine!Nothing
  <2>3. /\ \A s, at, o : Volcengine!StoreObject(s, at, o) = StoreObject(s, at, o)
        /\ \A f, x : Volcengine!Without(f, x) = Without(f, x)
        /\ \A b, m, t : Volcengine!ObjectOf(b, m, t) = ObjectOf(b, m, t)
        /\ \A o : Volcengine!Etag(o) = Etag(o)
    BY
       DEF StoreObject, With, Without, Restrict, ObjectOf, Etag,
           Volcengine!StoreObject, Volcengine!With, Volcengine!Without,
           Volcengine!Restrict, Volcengine!ObjectOf, Volcengine!Etag
  <2> QED BY <2>1, <2>2, <2>3 DEF SvcComplete, Volcengine!SvcComplete
<1> QED
  BY <1>1
  DEF SvcCreateUpload, SvcUploadPart, SvcAbort, Attempt, InBucket, No, Done, Reply,
      With, Without, Restrict, IsOpen, Lost, Nothing, Volcengine!SvcCreateUpload,
      Volcengine!SvcUploadPart, Volcengine!SvcAbort, Volcengine!Attempt,
      Volcengine!InBucket, Volcengine!No, Volcengine!Done, Volcengine!Reply,
      Volcengine!With, Volcengine!Without, Volcengine!Restrict, Volcengine!IsOpen,
      Volcengine!Lost, Volcengine!Nothing

\* The Volcengine driver passes the answers about an upload on.
LEMMA VolcengineRelays ==
  ASSUME NEW cl, NEW s, NEW r, NamesView(cl, r)
  PROVE  RelaysUploads("volcengine", cl, s, <<r.bucket, r.key>>, r,
           Volcengine!InitiateUpload(cl, s, r), Volcengine!UploadPartSend(cl, s, r),
           Volcengine!CompleteUpload(cl, s, r), Volcengine!AbortUpload(cl, s, r))
<1> DEFINE at == <<r.bucket, r.key>>
           created == SvcCreateUpload(s, at, Volcengine!LowerMetadataKeys(r.meta))
           sent == SvcUploadPart(s, r.id, at, r.pn, r.body.bytes, r.body.fails)
           completed == SvcComplete(s, r.id, at, r.parts)
           aborted == SvcAbort(s, r.id, at)
<1>1. Volcengine!At(cl, r) = at
  BY DEF Volcengine!At, Volcengine!PickBucket, NamesView
<1> HIDE DEF at
<1>2. \A o \in Volcengine!InitiateUpload(cl, s, r) :
        Declines(o, s) \/ (Hosted("volcengine", cl, r.bucket) /\ o \in Volcengine!Ask(created))
  BY <1>1, VolcengineUploadService
     DEF Volcengine!InitiateUpload, Volcengine!Refuse, Volcengine!Error, Volcengine!ClientError, Declines, Hosted
<1>3. \A o \in Volcengine!UploadPartSend(cl, s, r) : o \in Volcengine!Ask(sent)
  BY <1>1, VolcengineUploadService DEF Volcengine!UploadPartSend
<1>4. \A o \in Volcengine!CompleteUpload(cl, s, r) :
        RefusesComplete("volcengine", cl, s, r, o) \/ o \in Volcengine!Ask(completed)
  BY <1>1, VolcengineUploadService
     DEF Volcengine!CompleteUpload, Volcengine!Refuse, Volcengine!Error, Volcengine!ClientError, Declines, RefusesComplete
<1>5. \A o \in Volcengine!AbortUpload(cl, s, r) : Declines(o, s) \/ o \in Volcengine!Ask(aborted)
  BY <1>1, VolcengineUploadService
     DEF Volcengine!AbortUpload, Volcengine!Refuse, Volcengine!Error, Volcengine!ClientError, Declines
<1> HIDE DEF created, sent, completed, aborted
<1>6. \A answers : \A o \in Volcengine!Ask(answers) :
        \/ Declines(o, s) /\ o.code \notin BlameCodes
        \/ \E a \in answers : Gives(a, o)
  BY VolcengineAsk
<1>7. \A o : Declines(o, s) /\ o.code \notin BlameCodes => RefusesComplete("volcengine", cl, s, r, o)
  BY DEF RefusesComplete, BlameCodes
<1>8. \A o \in Volcengine!InitiateUpload(cl, s, r) : RelaysInitiate("volcengine", cl, s, at, r, o)
  BY <1>2, <1>6 DEF RelaysInitiate, created
<1>9. \A o \in Volcengine!UploadPartSend(cl, s, r) : RelaysPart(s, at, r, o)
  BY <1>3, <1>6 DEF RelaysPart, sent
<1>10. \A o \in Volcengine!CompleteUpload(cl, s, r) : RelaysComplete("volcengine", cl, s, at, r, o)
  BY <1>4, <1>6, <1>7 DEF RelaysComplete, completed
<1>11. \A o \in Volcengine!AbortUpload(cl, s, r) : RelaysAbort(s, at, r, o)
  BY <1>5, <1>6 DEF RelaysAbort, aborted
<1> QED BY <1>8, <1>9, <1>10, <1>11 DEF at, RelaysUploads

-----------------------------------------------------------------------------
(* Drivers with a registry of their own *)

\* The sessions of t are those of s; but the one of id may have left the
\* registry.
AlikeSession(x, y) ==
  {"at", "listed"} \subseteq DOMAIN y /\ y.at = x.at /\ y.listed = x.listed
AlikeSessions(s, t) ==
  DOMAIN t.sess = DOMAIN s.sess /\ \A i \in DOMAIN s.sess : AlikeSession(s.sess[i], t.sess[i])
EndsSession(s, t, id) ==
  /\ DOMAIN t.sess = DOMAIN s.sess
  /\ \A i \in DOMAIN s.sess :
       \/ AlikeSession(s.sess[i], t.sess[i])
       \/ /\ i = id /\ {"at", "listed"} \subseteq DOMAIN t.sess[i]
          /\ t.sess[i].at = s.sess[i].at /\ ~t.sess[i].listed

\* A session that is entered for an upload; the service has the upload.
LEMMA SessionBegins ==
  ASSUME NEW d, d \notin Services, NEW s, Sound(d, s), NEW at,
         NEW rec, {"at", "listed"} \subseteq DOMAIN rec, rec.at = at, rec.listed,
         NEW t, Shaped(t), KeepsObjects(s, t), t.next = s.next + 1,
         t.sess = With(s.sess, s.next, rec),
         d \in OverService =>
           /\ UpsShaped(t) /\ IsOpen(t, s.next, at)
           /\ \A i, x : i # s.next => (IsOpen(t, i, x) <=> IsOpen(s, i, x))
  PROVE  Begins(d, s, t, s.next, at)
<1>1. /\ DOMAIN t.sess = DOMAIN s.sess \cup {s.next} /\ t.sess[s.next] = rec
      /\ \A i \in DOMAIN s.sess : i # s.next => t.sess[i] = s.sess[i]
  BY DEF With
<1>2. SessShaped(t)
  BY <1>1 DEF Sound, SessShaped
<1>3. \A i : i # s.next => (i \in DOMAIN t.sess <=> i \in DOMAIN s.sess)
  BY <1>1
<1>4. \A i : i # s.next => Same(d, s, t, i)
  BY <1>1, <1>3 DEF Same, Reaches, Held, Listed, Placed
<1>5. Placed(d, t, s.next, at) /\ Held(d, t, s.next, at)
  BY <1>1 DEF Placed, Held, Reaches, Listed
<1> QED BY <1>2, <1>4, <1>5 DEF Begins, Sound

\* A part changes nothing of what sessions there are.
LEMMA SessionContinues ==
  ASSUME NEW d, d \notin Services, NEW s, Sound(d, s),
         NEW t, Shaped(t), t.buckets = s.buckets, t.objs = s.objs, t.next = s.next,
         AlikeSessions(s, t),
         d \in OverService => UpsShaped(t) /\ \A i, x : IsOpen(t, i, x) <=> IsOpen(s, i, x)
  PROVE  Continues(d, s, t)
<1>1. SessShaped(t)
  BY DEF AlikeSessions, AlikeSession, SessShaped
<1>2. \A i : Same(d, s, t, i)
  BY DEF Same, Reaches, Held, Listed, Placed, AlikeSessions, AlikeSession
<1> QED BY <1>1, <1>2 DEF Continues, Sound

\* The end of an upload.
LEMMA SessionEnds ==
  ASSUME NEW d, d \notin Services, NEW s, Sound(d, s), NEW id, NEW at, Placed(d, s, id, at),
         NEW t, Shaped(t), KeepsObjects(s, t), t.next = s.next, EndsSession(s, t, id),
         d \in OverService => /\ UpsShaped(t)
                              /\ \A i, x : i # id => (IsOpen(t, i, x) <=> IsOpen(s, i, x))
  PROVE  Ends(d, s, t, id, at)
<1>1. SessShaped(t)
  BY DEF EndsSession, AlikeSession, SessShaped
<1>2. \A i : i # id => Same(d, s, t, i)
  BY DEF Same, Reaches, Held, Listed, Placed, EndsSession, AlikeSession
<1>3. Placed(d, t, id, at) /\ (Reaches(d, t, id, at) => Reaches(d, s, id, at))
  BY DEF Reaches, Listed, Placed, EndsSession, AlikeSession
<1> QED BY <1>1, <1>2, <1>3 DEF Ends, Sound

\* The session of id leaves the registry.
LEMMA Unlists ==
  ASSUME NEW s, Shaped(s), SessShaped(s), NEW id,
         NEW t, t = [s EXCEPT !.sess[id].listed = FALSE]
  PROVE  /\ EndsSession(s, t, id) /\ ~Listed(t, id) /\ Shaped(t)
         /\ t.buckets = s.buckets /\ t.objs = s.objs /\ t.next = s.next /\ t.ups = s.ups
<1>1. /\ DOMAIN t = DOMAIN s /\ t.buckets = s.buckets /\ t.objs = s.objs /\ t.next = s.next
      /\ t.ups = s.ups /\ t.sess = [s.sess EXCEPT ![id].listed = FALSE]
  BY DEF Shaped
<1>2. /\ DOMAIN t.sess = DOMAIN s.sess
      /\ \A i \in DOMAIN s.sess :
           t.sess[i] = IF i = id THEN [s.sess[i] EXCEPT !.listed = FALSE] ELSE s.sess[i]
  BY <1>1
<1>3. \A i \in DOMAIN s.sess : {"at", "listed"} \subseteq DOMAIN s.sess[i]
  BY DEF SessShaped
<1> DEFINE x == s.sess[id]
           y == [x EXCEPT !.listed = FALSE]
<1>4. id \in DOMAIN s.sess => {"at", "listed"} \subseteq DOMAIN y /\ y.at = x.at /\ y.listed = FALSE
  BY <1>3
<1>5. id \in DOMAIN s.sess => t.sess[id] = y
  BY <1>2
<1>6. \A i \in DOMAIN s.sess : i # id => AlikeSession(s.sess[i], t.sess[i])
  BY <1>2, <1>3 DEF AlikeSession
<1> HIDE DEF y
<1>7. EndsSession(s, t, id)
  BY <1>2, <1>4, <1>5, <1>6 DEF EndsSession
<1>8. ~Listed(t, id)
  BY <1>2, <1>4, <1>5 DEF Listed
<1>9. Shaped(t)
  BY <1>1 DEF Shaped
<1> QED BY <1>1, <1>7, <1>8, <1>9

SetSession(s, id, y) == [s EXCEPT !.sess[id] = y]

\* One session is changed, in what the uploads do not hang on.
LEMMA SessionChanged ==
  ASSUME NEW s, Shaped(s), SessShaped(s), NEW id, NEW y,
         id \in DOMAIN s.sess => AlikeSession(s.sess[id], y),
         NEW t, t = SetSession(s, id, y)
  PROVE  /\ AlikeSessions(s, t) /\ Shaped(t) /\ SessShaped(t)
         /\ t.buckets = s.buckets /\ t.objs = s.objs /\ t.next = s.next /\ t.ups = s.ups
<1>1. /\ DOMAIN t = DOMAIN s /\ t.buckets = s.buckets /\ t.objs = s.objs /\ t.next = s.next
      /\ t.ups = s.ups /\ t.sess = [s.sess EXCEPT ![id] = y]
  BY DEF Shaped, SetSession
<1>2. /\ DOMAIN t.sess = DOMAIN s.sess
      /\ \A i \in DOMAIN s.sess : t.sess[i] = IF i = id THEN y ELSE s.sess[i]
  BY <1>1
<1>3. AlikeSessions(s, t)
  BY <1>2 DEF AlikeSessions, AlikeSession, SessShaped
<1>4. SessShaped(t)
  BY <1>3 DEF AlikeSessions, AlikeSession, SessShaped
<1>5. Shaped(t)
  BY <1>1 DEF Shaped
<1> QED BY <1>1, <1>3, <1>4, <1>5

LEMMA AlikeTransitive ==
  ASSUME NEW s, NEW t, NEW u, AlikeSessions(t, u)
  PROVE  /\ AlikeSessions(s, t) => AlikeSessions(s, u)
         /\ \A id : EndsSession(s, t, id) => EndsSession(s, u, id)
<1>1. AlikeSessions(s, t) => AlikeSessions(s, u)
  BY DEF AlikeSessions, AlikeSession
<1>2. ASSUME NEW id, EndsSession(s, t, id) PROVE EndsSession(s, u, id)
  BY <1>2 DEF AlikeSessions, AlikeSession, EndsSession
<1> QED BY <1>1, <1>2

\* An Abort that drops the session, whatever else it does.
LEMMA SessionAborts ==
  ASSUME NEW d, d \notin Services, NEW s, Sound(d, s), NEW id, NEW at, Placed(d, s, id, at),
         NEW o, o.store = IF Listed(s, id) THEN [s EXCEPT !.sess[id].listed = FALSE] ELSE s
  PROVE  Aborts(d, s, id, at, o)
<1>1. Shaped(s) /\ SessShaped(s) /\ (d \in OverService => UpsShaped(s))
  BY DEF Sound
<1>2. CASE ~Listed(s, id)
  <2>1. o.store = s
    BY <1>2
  <2>2. \A u : Reaches(d, u, id, at) = Listed(u, id)
    BY DEF Reaches
  <2> QED BY <1>2, <2>1, <2>2, NothingDone DEF Aborts
<1>3. CASE Listed(s, id)
  <2>1. o.store = [s EXCEPT !.sess[id].listed = FALSE]
    BY <1>3
  <2>2. /\ EndsSession(s, o.store, id) /\ ~Listed(o.store, id) /\ Shaped(o.store)
        /\ o.store.buckets = s.buckets /\ o.store.objs = s.objs /\ o.store.next = s.next
        /\ o.store.ups = s.ups
    BY <1>1, <2>1, Unlists
  <2>3. KeepsObjects(s, o.store)
    BY <2>2 DEF KeepsObjects, Has
  <2>4. UpsShaped(s) => UpsShaped(o.store)
    BY <2>2 DEF UpsShaped
  <2>5. \A i, x : IsOpen(o.store, i, x) <=> IsOpen(s, i, x)
    BY <2>2 DEF IsOpen
  <2>6. Ends(d, s, o.store, id, at)
    BY <1>1, <2>2, <2>3, <2>4, <2>5, SessionEnds
  <2> QED BY <2>2, <2>6 DEF Aborts, Reaches
<1> QED BY <1>2, <1>3

\* A driver that keeps a session for each upload of the service.
Entered(s, id, rec) == [s EXCEPT !.sess = With(@, id, rec)]

LEMMA OverInitiates ==
  ASSUME NEW d \in OverService, NEW s, Sound(d, s), NEW at, NEW m,
         NEW a \in SvcCreateUpload(s, at, m), NEW p, Gives(a, p),
         NEW rec, {"at", "listed"} \subseteq DOMAIN rec, rec.at = at, rec.listed,
         NEW o, o.code = p.code,
         o.code = "ok" => o.out = p.out /\ o.store = Entered(p.store, p.out.id, rec)
  PROVE  Initiates(d, s, at, o)
<1> SUFFICES ASSUME o.code = "ok" PROVE Begins(d, s, o.store, o.out.id, at)
  BY DEF Initiates
<1>1. Creates(s, at, a) /\ a.sit = "ok" /\ p.store = a.store /\ p.out = a.out
  BY SvcCreateUploadDoes DEF Gives, Tells
<1>2. Shaped(s) /\ UpsShaped(s) /\ SessShaped(s)
  BY DEF Sound
<1>3. /\ OnlyUps(s, a.store) /\ a.store.next = s.next + 1
      /\ a.out.id = s.next /\ IsOpen(a.store, s.next, at)
      /\ \A i, x : i # s.next => (IsOpen(a.store, i, x) <=> IsOpen(s, i, x))
  BY <1>1, <1>2, CreatesDoes
<1> DEFINE t == o.store
<1>4. t = Entered(a.store, s.next, rec) /\ o.out.id = s.next
  BY <1>1, <1>3
<1> HIDE DEF t
<1>5. /\ DOMAIN t = DOMAIN a.store /\ t.buckets = a.store.buckets /\ t.objs = a.store.objs
      /\ t.next = a.store.next /\ t.ups = a.store.ups
      /\ t.sess = With(a.store.sess, s.next, rec)
  BY <1>3, <1>4 DEF Entered, OnlyUps, Shaped
<1>6. /\ Shaped(t) /\ UpsShaped(t) /\ KeepsObjects(s, t) /\ t.next = s.next + 1
      /\ t.sess = With(s.sess, s.next, rec)
  BY <1>3, <1>5 DEF OnlyUps, Shaped, UpsShaped, KeepsObjects, Has
<1>7. \A i, x : IsOpen(t, i, x) <=> IsOpen(a.store, i, x)
  BY <1>5 DEF IsOpen
<1>8. Begins(d, s, t, s.next, at)
  BY <1>3, <1>6, <1>7, SessionBegins DEF Services, OverService
<1> QED BY <1>4, <1>8 DEF t

LEMMA OverContinues ==
  ASSUME NEW d \in OverService, NEW s, Sound(d, s), NEW id, NEW at, NEW pn, NEW bytes,
         NEW fails, NEW a \in SvcUploadPart(s, id, at, pn, bytes, fails), NEW y,
         id \in DOMAIN s.sess => AlikeSession(s.sess[id], y),
         NEW t, t = a.store \/ t = SetSession(a.store, id, y)
  PROVE  Continues(d, s, t)
<1>1. SendsPart(s, id, at, a)
  BY SvcUploadPartDoes
<1>2. Shaped(s) /\ UpsShaped(s) /\ SessShaped(s)
  BY DEF Sound
<1>3. /\ OnlyUps(s, a.store) /\ a.store.next = s.next /\ a.store.objs = s.objs
      /\ \A i, x : IsOpen(a.store, i, x) <=> IsOpen(s, i, x)
  BY <1>1, <1>2, SendsPartDoes
<1>4. Shaped(a.store) /\ UpsShaped(a.store) /\ SessShaped(a.store) /\ a.store.sess = s.sess
      /\ a.store.buckets = s.buckets
  BY <1>2, <1>3 DEF OnlyUps, SessShaped, KeepsObjects
<1>5. AlikeSessions(a.store, a.store)
  BY <1>4 DEF AlikeSessions, AlikeSession, SessShaped
<1>6. /\ AlikeSessions(a.store, t) /\ Shaped(t) /\ t.buckets = a.store.buckets
      /\ t.objs = a.store.objs /\ t.next = a.store.next /\ t.ups = a.store.ups
  BY <1>4, <1>5, SessionChanged
<1>7. AlikeSessions(s, t)
  BY <1>4, <1>6 DEF AlikeSessions
<1>8. UpsShaped(t) /\ \A i, x : IsOpen(t, i, x) <=> IsOpen(s, i, x)
  BY <1>3, <1>4, <1>6 DEF UpsShaped, IsOpen
<1> QED BY <1>3, <1>4, <1>6, <1>7, <1>8, SessionContinues DEF Services, OverService

\* The request goes to the object to, which is that of the session; the
\* session may have left the registry before, and does so at the end.
LEMMA OverCompletes ==
  ASSUME NEW d \in OverService, NEW s, Sound(d, s), NEW id, NEW at, Placed(d, s, id, at),
         NEW to, Listed(s, id) => to = at,
         NEW parts, NEW a \in SvcComplete(s, id, to, parts), NEW p, Tells(a, p),
         NEW o, o.code = p.code,
         \/ o.store = p.store
         \/ o.code = "ok" /\ o.store = [p.store EXCEPT !.sess[id].listed = FALSE]
  PROVE  Completes(d, s, id, at, o)
<1>1. /\ Finishes(s, id, to, a) /\ p.store = a.store
      /\ o.code = "ok" <=> a.sit = "ok"
      /\ o.code = "not_found" => a.sit \in Missing
  BY SvcCompleteDoes DEF Tells
<1>2. Shaped(s) /\ UpsShaped(s) /\ SessShaped(s)
  BY DEF Sound
<1> DEFINE u == a.store
<1>3. /\ OnlyUps(s, u) /\ u.next = s.next
      /\ \A i, x : /\ i # id => (IsOpen(u, i, x) <=> IsOpen(s, i, x))
                   /\ IsOpen(u, i, x) => IsOpen(s, i, x)
      /\ IsOpen(s, id, to) => IsOpen(u, id, to) \/ Has(u, to)
      /\ a.sit \in Missing => ~IsOpen(s, id, to)
  BY <1>1, <1>2, FinishesDoes
<1>4. /\ Shaped(u) /\ UpsShaped(u) /\ SessShaped(u) /\ u.sess = s.sess /\ KeepsObjects(s, u)
      /\ EndsSession(s, u, id)
  BY <1>2, <1>3 DEF OnlyUps, SessShaped, EndsSession, AlikeSession
<1>5. d \notin Services /\ d # "gcs"
  BY DEF Services, OverService
<1>6. \A v : Held(d, v, id, at) = (Listed(v, id) /\ IsOpen(v, id, at))
  BY DEF Held
<1>7. CASE o.store = u
  <2>1. Ends(d, s, o.store, id, at)
    BY <1>3, <1>4, <1>5, <1>7, SessionEnds
  <2>2. Listed(s, id) => Listed(u, id)
    BY <1>4 DEF Listed
  <2> QED BY <1>1, <1>3, <1>5, <1>6, <1>7, <2>1, <2>2 DEF Completes
<1>8. CASE o.code = "ok" /\ o.store = [u EXCEPT !.sess[id].listed = FALSE]
  <2> HIDE DEF u
  <2>1. /\ EndsSession(u, o.store, id) /\ Shaped(o.store)
        /\ o.store.buckets = u.buckets /\ o.store.objs = u.objs /\ o.store.next = u.next
        /\ o.store.ups = u.ups
    BY <1>4, <1>8, Unlists
  <2>2. EndsSession(s, o.store, id)
    BY <1>4, <2>1 DEF EndsSession
  <2>3. KeepsObjects(s, o.store) /\ (Has(u, to) => Has(o.store, to))
    BY <1>4, <2>1 DEF KeepsObjects, Has
  <2>4. UpsShaped(o.store) /\ \A i, x : IsOpen(o.store, i, x) <=> IsOpen(u, i, x)
    BY <1>4, <2>1 DEF UpsShaped, IsOpen
  <2>5. Ends(d, s, o.store, id, at)
    BY <1>3, <1>5, <2>1, <2>2, <2>3, <2>4, SessionEnds
  <2>6. Has(o.store, to)
    <3>1. a.sit = "ok"
      BY <1>1, <1>8
    <3>2. PICK x : a.store = [StoreObject(s, to, x) EXCEPT !.ups = Without(@, id)]
      BY <1>1, <3>1 DEF Finishes
    <3>3. u.objs = With(s.objs, to, x)
      BY <1>2, <3>2 DEF StoreObject, Shaped, u
    <3> QED BY <2>3, <3>3 DEF Has, With
  <2>7. Held(d, s, id, at) => Has(o.store, at)
    BY <1>6, <2>6
  <2> QED BY <1>5, <1>8, <2>5, <2>7 DEF Completes
<1> QED BY <1>1, <1>7, <1>8

\* A put leaves everything, or stores its object.
LEMMA PutLeaves ==
  ASSUME NEW s, NEW at, NEW o, NEW a \in SvcPut(s, at, o, FALSE, {}, FALSE)
  PROVE  a.store = s \/ a.store = StoreObject(s, at, o)
<1> DEFINE no == FALSE  any == {}
<1>1. no \in BOOLEAN /\ a \in SvcPut(s, at, o, no, any, no)
  OBVIOUS
<1> HIDE DEF no, any
<1>2. PutDoes(s, at, o, no, any, no, a)
  BY <1>1, SvcPutDoes
<1> QED BY <1>2 DEF PutDoes

GcsWritten(s, id, v) == [s EXCEPT !.sess[id].writer = v]

\* A session of the GCS driver whose writer is something else now.
LEMMA GcsWrites ==
  ASSUME NEW s, Shaped(s), SessShaped(s), NEW id, NEW v,
         NEW t, t = GcsWritten(s, id, v)
  PROVE  /\ AlikeSessions(s, t) /\ EndsSession(s, t, id) /\ Shaped(t) /\ SessShaped(t)
         /\ t.buckets = s.buckets /\ t.objs = s.objs /\ t.next = s.next
<1> DEFINE y == [s.sess[id] EXCEPT !.writer = v]
<1>1. t = SetSession(s, id, y)
  BY DEF SetSession, GcsWritten
<1>2. id \in DOMAIN s.sess => AlikeSession(s.sess[id], y)
  BY DEF SessShaped, AlikeSession
<1> HIDE DEF y
<1>3. /\ AlikeSessions(s, t) /\ Shaped(t) /\ SessShaped(t)
      /\ t.buckets = s.buckets /\ t.objs = s.objs /\ t.next = s.next
  BY <1>1, <1>2, SessionChanged
<1> QED BY <1>3 DEF AlikeSessions, EndsSession

\* The upload calls of the GCS driver.
LEMMA GcsUploads ==
  ASSUME NEW cl, NEW s, Sound("gcs", s), NEW r, NamesView(cl, r),
         Placed("gcs", s, r.id, <<r.bucket, r.key>>)
  PROVE  UploadCalls("gcs", s, <<r.bucket, r.key>>, r.id,
           Gcs!InitiateUpload(cl, s, r), Gcs!UploadPartLocked(cl, s, r),
           Gcs!CompleteUploadClose(cl, s, r), Gcs!AbortUploadClose(cl, s, r))
<1> DEFINE at == <<r.bucket, r.key>>
<1>1. Gcs!At(cl, r) = at /\ "gcs" \notin Services /\ "gcs" \notin OverService
  BY DEF Gcs!At, Gcs!PickBucket, NamesView, Services, OverService
<1> HIDE DEF at
<1>2. Shaped(s) /\ SessShaped(s) /\ Placed("gcs", s, r.id, at)
  BY DEF Sound, at
<1>3. ASSUME NEW f
      PROVE  LET b == Gcs!Broken(s, r.id, f)
             IN /\ Continues("gcs", s, b.store) /\ Ends("gcs", s, b.store, r.id, at)
                /\ b.code # "ok"
  <2> DEFINE t == [s EXCEPT !.sess[r.id].writer = f]
             b == Gcs!Broken(s, r.id, f)
  <2>1. /\ AlikeSessions(s, t) /\ EndsSession(s, t, r.id) /\ Shaped(t)
        /\ t.buckets = s.buckets /\ t.objs = s.objs /\ t.next = s.next
    BY <1>2, GcsWrites DEF GcsWritten
  <2> HIDE DEF t
  <2>2. KeepsObjects(s, t)
    BY <2>1 DEF KeepsObjects, Has
  <2>3. Continues("gcs", s, t) /\ Ends("gcs", s, t, r.id, at)
    BY <1>1, <1>2, <2>1, <2>2, SessionContinues, SessionEnds
  <2>4. b.store = t /\ b.code # "ok"
    BY GcsMapError DEF Gcs!Broken, t
  <2> QED BY <2>3, <2>4
<1>4. ASSUME NEW o \in Gcs!InitiateUpload(cl, s, r)
      PROVE  Initiates("gcs", s, at, o)
  <2> DEFINE rec == Gcs!NewSession(at, Gcs!LowerMetadataKeys(r.meta))
             t == [s EXCEPT !.next = @ + 1, !.sess = Gcs!With(@, s.next, rec)]
  <2>1. CASE r.key = 0
    <3>1. Declines(o, s)
      BY <1>4, <2>1 DEF Gcs!InitiateUpload, Gcs!Refuse, Gcs!Error, Declines
    <3> QED BY <3>1, DeclinedUpload
  <2>2. CASE r.key # 0
    <3>1. o = Gcs!Ok(t, [id |-> s.next])
      BY <1>1, <1>4, <2>2 DEF Gcs!InitiateUpload
    <3>2. rec.at = at /\ rec.listed /\ {"at", "listed"} \subseteq DOMAIN rec
      BY DEF Gcs!NewSession
    <3> HIDE DEF rec
    <3>3. /\ DOMAIN t = DOMAIN s /\ t.buckets = s.buckets /\ t.objs = s.objs
          /\ t.next = s.next + 1 /\ t.sess = With(s.sess, s.next, rec)
      BY <1>2 DEF Shaped, With, Gcs!With
    <3> HIDE DEF t
    <3>4. Shaped(t) /\ KeepsObjects(s, t)
      BY <1>2, <3>3 DEF Shaped, KeepsObjects, Has
    <3>5. Begins("gcs", s, t, s.next, at)
      BY <1>1, <3>2, <3>3, <3>4, SessionBegins
    <3>6. o.store = t /\ o.out.id = s.next
      BY <3>1 DEF Gcs!Ok
    <3> QED BY <3>5, <3>6 DEF Initiates
  <2> QED BY <2>1, <2>2
<1>5. ASSUME NEW o \in Gcs!UploadPartLocked(cl, s, r)
      PROVE  Continues("gcs", s, o.store)
  <2> DEFINE x == s.sess[r.id]
             y1 == [x EXCEPT !.writer = IF @ = "none" THEN "open" ELSE @]
             t1 == [s EXCEPT !.sess[r.id] = y1]
             y2 == [t1.sess[r.id] EXCEPT !.written = x.written \o r.body.bytes]
             t2 == [t1 EXCEPT !.sess[r.id] = y2]
             y3 == [t2.sess[r.id] EXCEPT !.next = @ + 1]
             t3 == [t2 EXCEPT !.sess[r.id] = y3]
  <2>1. o.store \in {s, t2, t3} \/ \E f : o = Gcs!Broken(s, r.id, f)
    BY <1>5 DEF Gcs!UploadPartLocked, Gcs!Refuse, Gcs!Error, Gcs!Ok
  <2>2. r.id \in DOMAIN s.sess => AlikeSession(x, y1)
    BY <1>2 DEF SessShaped, AlikeSession
  <2>3. r.id \in DOMAIN t1.sess /\ SessShaped(t1) => AlikeSession(t1.sess[r.id], y2)
    BY DEF SessShaped, AlikeSession
  <2>4. r.id \in DOMAIN t2.sess /\ SessShaped(t2) => AlikeSession(t2.sess[r.id], y3)
    BY DEF SessShaped, AlikeSession
  <2> HIDE DEF y1, y2, y3
  <2>5. /\ t1 = SetSession(s, r.id, y1) /\ t2 = SetSession(t1, r.id, y2)
        /\ t3 = SetSession(t2, r.id, y3)
    BY DEF SetSession
  <2> HIDE DEF t1, t2, t3
  <2>6. /\ AlikeSessions(s, t1) /\ Shaped(t1) /\ SessShaped(t1)
        /\ t1.buckets = s.buckets /\ t1.objs = s.objs /\ t1.next = s.next
    BY <1>2, <2>2, <2>5, SessionChanged
  <2>7. /\ AlikeSessions(s, t2) /\ Shaped(t2) /\ SessShaped(t2)
        /\ t2.buckets = s.buckets /\ t2.objs = s.objs /\ t2.next = s.next
    BY <2>3, <2>5, <2>6, SessionChanged, AlikeTransitive
  <2>8. /\ AlikeSessions(s, t3) /\ Shaped(t3)
        /\ t3.buckets = s.buckets /\ t3.objs = s.objs /\ t3.next = s.next
    BY <2>4, <2>5, <2>7, SessionChanged, AlikeTransitive
  <2>9. Continues("gcs", s, t2) /\ Continues("gcs", s, t3)
    BY <1>1, <2>7, <2>8, SessionContinues
  <2> QED BY <1>3, <2>1, <2>9, NothingDone
<1>6. ASSUME NEW o \in Gcs!CompleteUploadClose(cl, s, r)
      PROVE  Completes("gcs", s, r.id, at, o)
  <2> DEFINE me == s.sess[r.id]
             closed == [s EXCEPT !.sess[r.id].writer = "closed"]
             obj == Gcs!ObjectOf(me.written, me.meta, "none")
  <2> SUFFICES Ends("gcs", s, o.store, r.id, at)
    BY <1>1 DEF Completes
  <2>1. CASE me.writer \in Gcs!WriterFaults
    BY <1>3, <1>6, <2>1 DEF Gcs!CompleteUploadClose
  <2>2. CASE me.writer \notin Gcs!WriterFaults
    <3>1. PICK a \in Gcs!SvcPut(closed, me.at, obj, FALSE, {}, FALSE) : Gives(a, o)
      <4>1. PICK S \in SUBSET Gcs!SvcPut(closed, me.at, obj, FALSE, {}, FALSE) : o \in Gcs!Ask(S)
        <5> DEFINE P == Gcs!SvcPut(closed, me.at, obj, FALSE, {}, FALSE)
                   S == {a \in P : a.sit \notin {"canceled", "deadline"}}
        <5>1. S \in SUBSET P
          OBVIOUS
        <5>2. o \in Gcs!Ask(S)
          BY <1>6, <2>2 DEF Gcs!CompleteUploadClose
        <5> QED BY <5>1, <5>2
      <4> QED BY <4>1, GcsAsk
    <3>2. /\ Shaped(closed) /\ EndsSession(s, closed, r.id) /\ closed.next = s.next
          /\ closed.buckets = s.buckets /\ closed.objs = s.objs
      BY <1>2, GcsWrites DEF GcsWritten
    <3> HIDE DEF closed, obj
    <3>3. a.store = closed \/ a.store = StoreObject(closed, me.at, obj)
      BY <3>1, GcsService, PutLeaves
    <3>4. KeepsObjects(s, closed)
      BY <3>2 DEF KeepsObjects, Has
    <3>5. ASSUME NEW u, u = StoreObject(closed, me.at, obj)
          PROVE  Shaped(u) /\ EndsSession(s, u, r.id) /\ KeepsObjects(s, u) /\ u.next = s.next
      <4>1. /\ DOMAIN u = DOMAIN closed /\ u.buckets = closed.buckets /\ u.next = closed.next
            /\ u.sess = closed.sess /\ u.objs = With(closed.objs, me.at, obj)
        BY <3>2, <3>5 DEF StoreObject, Shaped
      <4> QED BY <3>2, <3>4, <4>1 DEF Shaped, EndsSession, KeepsObjects, Has, With
    <3>6. o.store = a.store
      BY <3>1 DEF Gives, Tells
    <3> QED BY <1>1, <1>2, <3>2, <3>3, <3>4, <3>5, <3>6, SessionEnds
  <2> QED BY <2>1, <2>2
<1>7. ASSUME NEW o \in Gcs!AbortUploadClose(cl, s, r)
      PROVE  Aborts("gcs", s, r.id, at, o)
  <2> DEFINE t == [s EXCEPT !.sess[r.id].writer = IF @ = "open" THEN "aborted" ELSE @]
             v == IF s.sess[r.id].writer = "open" THEN "aborted" ELSE s.sess[r.id].writer
  <2>1. o.store = t
    BY <1>7 DEF Gcs!AbortUploadClose, Gcs!Ok
  <2>2. t = GcsWritten(s, r.id, v)
    BY DEF GcsWritten
  <2> HIDE DEF t, v
  <2>3. /\ Shaped(t) /\ EndsSession(s, t, r.id) /\ t.next = s.next
        /\ t.buckets = s.buckets /\ t.objs = s.objs
    BY <1>2, <2>2, GcsWrites
  <2>4. KeepsObjects(s, t)
    BY <2>3 DEF KeepsObjects, Has
  <2>5. Ends("gcs", s, t, r.id, at)
    BY <1>1, <1>2, <2>3, <2>4, SessionEnds
  <2> QED BY <2>1, <2>5 DEF Aborts, Ends
<1> QED BY <1>4, <1>5, <1>6, <1>7 DEF at, UploadCalls

\* The answers of the Azure driver's service are those of ObjectService.
LEMMA AzureAnswers ==
  /\ \A s, a : Azure!Attempt(s, a) = Attempt(s, a)
  /\ \A s, at, a : Azure!InBucket(s, at, a) = InBucket(s, at, a)
  /\ \A s, sit : Azure!No(s, sit) = No(s, sit)
  /\ \A s, out : Azure!Done(s, out) = Done(s, out)
  /\ \A s, at, o : Azure!StoreObject(s, at, o) = StoreObject(s, at, o)
BY DEF Attempt, InBucket, No, Done, Reply, StoreObject, With, Lost, Nothing,
       Azure!Attempt, Azure!InBucket, Azure!No, Azure!Done, Azure!Reply,
       Azure!StoreObject, Azure!With, Azure!Lost, Azure!Nothing

\* Nothing but the blocks of blobs changes from s to t.
OnlyBlocks(s, t) == /\ Shaped(t) /\ t.sess = s.sess /\ t.next = s.next
                    /\ t.buckets = s.buckets /\ t.objs = s.objs

\* Staging a block does only that.
LEMMA AzureStages ==
  ASSUME NEW s, Shaped(s), NEW at, NEW id, NEW bytes,
         NEW a \in Azure!SvcStageBlock(s, at, id, bytes)
  PROVE  OnlyBlocks(s, a.store)
<1> DEFINE blocks == Azure!With(s.ups, at,
                       [Azure!Blocks(s, at) EXCEPT !.staged = Azure!With(@, id, bytes)])
           t == [s EXCEPT !.ups = blocks]
           b == InBucket(s, at, Done(t, Azure!Nothing))
<1>1. a \in Attempt(s, b)
  BY AzureAnswers DEF Azure!SvcStageBlock
<1> HIDE DEF blocks
<1>2. OnlyBlocks(s, t) /\ OnlyBlocks(s, s)
  BY DEF OnlyBlocks, Shaped
<1> HIDE DEF t
<1>3. b.store \in {s, t}
  BY DEF InBucket, No, Done, Reply
<1> HIDE DEF b
<1>4. a.store \in {s, t}
  BY <1>1, <1>3, AttemptDoes
<1> QED BY <1>2, <1>4

\* Committing blocks publishes the blob or nothing, and touches no session.
Commits(s, at, t) == /\ Shaped(t) /\ t.sess = s.sess /\ t.next = s.next /\ KeepsObjects(s, t)
LEMMA AzureCommits ==
  ASSUME NEW s, Shaped(s), NEW at, NEW ids, NEW meta,
         NEW a \in Azure!SvcCommitBlocks(s, at, ids, meta)
  PROVE  /\ Commits(s, at, a.store)
         /\ a.sit = "ok" => Has(a.store, at)
         /\ at[1] \in s.buckets => a.sit \notin Missing
<1>1. PICK obj, blocks, bad, out :
        a \in Attempt(s, InBucket(s, at, IF bad THEN No(s, "invalidPart")
                ELSE Done([StoreObject(s, at, obj) EXCEPT !.ups = blocks], out)))
  <2> DEFINE b == Azure!Blocks(s, at)
             known == DOMAIN b.staged \cup DOMAIN b.done
             latest == [id \in known |->
                          IF id \in DOMAIN b.staged THEN b.staged[id] ELSE b.done[id]]
             o == Azure!ObjectOf(Azure!Joined([i \in DOMAIN ids |-> latest[ids[i]]]), meta, "none")
             blocks == Azure!With(Azure!StoreObject(s, at, o).ups, at, [staged |-> <<>>,
                                    done |-> Azure!Restrict(latest, Azure!Range(ids))])
             bad == ~(Azure!Range(ids) \subseteq known)
             out == [etag |-> Azure!Etag(o)]
  <2>1. a \in Azure!Attempt(s, Azure!InBucket(s, at, IF bad THEN Azure!No(s, "invalidPart")
                ELSE Azure!Done([Azure!StoreObject(s, at, o) EXCEPT !.ups = blocks], out)))
    BY Zenon DEF Azure!SvcCommitBlocks
  <2> HIDE DEF o, blocks, bad, out
  <2> QED BY <2>1, AzureAnswers
<1> DEFINE t == [StoreObject(s, at, obj) EXCEPT !.ups = blocks]
           b == InBucket(s, at, IF bad THEN No(s, "invalidPart") ELSE Done(t, out))
<1>2. Shaped(t) /\ t.sess = s.sess /\ t.next = s.next /\ t.buckets = s.buckets
      /\ t.objs = With(s.objs, at, obj)
  BY DEF Shaped, StoreObject
<1> HIDE DEF t
<1>3. Commits(s, at, s) /\ Commits(s, at, t) /\ Has(t, at)
  BY <1>2 DEF Commits, KeepsObjects, Has, With
<1>4. /\ b.store = s \/ b.store = t
      /\ b.sit = "ok" => b.store = t
      /\ at[1] \in s.buckets => b.sit \notin Missing
  BY DEF InBucket, No, Done, Reply, Missing
<1> HIDE DEF b
<1>5. \A f \in Faults : f # "ok" /\ f \notin Missing
  BY FaultsAreErrors DEF Refusals, Lost, Missing
<1>6. \/ a = b
      \/ (a.store = s \/ a.store = b.store) /\ a.sit \in Faults
  BY <1>1 DEF Attempt, No, Reply, b, t
<1> QED BY <1>3, <1>4, <1>5, <1>6

\* The upload calls of the Azure driver, whatever the runs of its retries.
LEMMA AzureUploads ==
  ASSUME NEW cl, NEW s, Sound("azure", s), NEW r, NamesView(cl, r),
         Placed("azure", s, r.id, <<r.bucket, r.key>>), r.bucket \in s.buckets
  PROVE  UploadCalls("azure", s, <<r.bucket, r.key>>, r.id,
           Azure!InitiateUpload(cl, s, r), Azure!UploadPartStage(cl, s, r),
           Azure!CompleteUploadCommit(cl, s, r), Azure!AbortUpload(cl, s, r))
<1> DEFINE at == Azure!At(cl, r)
<1>1. at = <<r.bucket, r.key>> /\ "azure" \notin Services /\ "azure" \notin OverService
      /\ at[1] \in s.buckets
  BY DEF Azure!At, Azure!PickBucket, NamesView, Services, OverService
<1> HIDE DEF at
<1>2. Shaped(s) /\ SessShaped(s) /\ Placed("azure", s, r.id, at)
  BY <1>1 DEF Sound
<1>3. \A t : t.sess = s.sess => Azure!LoadSession(t, at, r.id) = Listed(s, r.id)
  BY <1>1, <1>2 DEF Azure!LoadSession, Listed, Placed
<1>4. ASSUME NEW o \in Azure!InitiateUpload(cl, s, r)
      PROVE  Initiates("azure", s, at, o)
  <2> DEFINE rec == [at |-> at, ids |-> <<>>, listed |-> TRUE,
                     meta |-> Azure!LowerMetadataKeys(r.meta)]
             t == [s EXCEPT !.next = @ + 1, !.sess = Azure!With(@, s.next, rec)]
  <2>1. CASE r.key = 0
    <3>1. Declines(o, s)
      BY <1>4, <2>1 DEF Azure!InitiateUpload, Azure!Refuse, Azure!Error, Declines
    <3> QED BY <3>1, DeclinedUpload
  <2>2. CASE r.key # 0
    <3>1. o = Azure!Ok(t, [id |-> s.next])
      BY <1>4, <2>2 DEF Azure!InitiateUpload, at
    <3>2. rec.at = at /\ rec.listed /\ {"at", "listed"} \subseteq DOMAIN rec
      OBVIOUS
    <3> HIDE DEF rec
    <3>3. /\ DOMAIN t = DOMAIN s /\ t.buckets = s.buckets /\ t.objs = s.objs
          /\ t.next = s.next + 1 /\ t.sess = With(s.sess, s.next, rec)
      BY <1>2 DEF Shaped, With, Azure!With
    <3> HIDE DEF t
    <3>4. Shaped(t) /\ KeepsObjects(s, t)
      BY <1>2, <3>3 DEF Shaped, KeepsObjects, Has
    <3>5. Begins("azure", s, t, s.next, at)
      BY <1>1, <3>2, <3>3, <3>4, SessionBegins
    <3>6. o.store = t /\ o.out.id = s.next
      BY <3>1 DEF Azure!Ok
    <3> QED BY <3>5, <3>6 DEF Initiates
  <2> QED BY <2>1, <2>2
<1>5. ASSUME NEW o \in Azure!UploadPartStage(cl, s, r)
      PROVE  Continues("azure", s, o.store)
  <2> DEFINE bytes == Azure!ToReadSeekCloser(r.body, r.size)
             send(t) == Azure!SvcStageBlock(t, at, r.pn, bytes)
             sent == send(s) \cup UNION {send(a.store) : a \in send(s)}
             y(t) == [t.sess[r.id] EXCEPT !.ids = Append(@, r.pn)]
             noted(t) == SetSession(t, r.id, y(t))
  <2>1. CASE r.body.fails
    <3>1. Declines(o, s)
      BY <1>5, <2>1 DEF Azure!UploadPartStage, Azure!Refuse, Azure!Error, Declines
    <3> QED BY <3>1, DeclinedUpload
  <2>2. CASE ~r.body.fails
    <3>1. PICK S \in SUBSET sent : \E p \in Azure!Ask(S) :
            o.store = p.store \/ o.store = noted(p.store)
      <4> DEFINE asked == Azure!Ask(Azure!Tries(LAMBDA t : Azure!SvcStageBlock(t, at, r.pn,
                                                             bytes), s))
                 note(t) == [t EXCEPT !.sess[r.id].ids = Append(@, r.pn)]
                 told(p) == IF p.code # "ok" THEN p
                            ELSE Azure!Ok(note(p.store), [etag |-> <<r.pn>>])
      <4>1. Azure!UploadPartStage(cl, s, r) = {told(p) : p \in asked}
        BY Zenon, <2>2 DEF Azure!UploadPartStage, at
      <4>2. PICK S \in SUBSET sent : asked = Azure!Ask(S)
        BY AzureSentAgain DEF Azure!Tries
      <4> HIDE DEF asked, sent
      <4>3. \A t : note(t) = noted(t)
        BY DEF SetSession
      <4> HIDE DEF note, noted
      <4>4. PICK p \in asked : o = told(p)
        BY <1>5, <4>1
      <4>5. o.store = p.store \/ o.store = noted(p.store)
        BY <4>3, <4>4 DEF Azure!Ok
      <4> QED BY <4>2, <4>4, <4>5
    <3>2. ASSUME NEW t, Shaped(t), NEW a \in send(t) PROVE OnlyBlocks(t, a.store)
      BY <3>2, AzureStages
    <3> HIDE DEF send
    <3>3. \A a \in sent : OnlyBlocks(s, a.store)
      BY <1>2, <3>2 DEF OnlyBlocks
    <3> HIDE DEF sent, y, noted
    <3>4. PICK a \in sent : o.store = a.store \/ o.store = noted(a.store)
      BY <3>1, AzureAsk DEF Gives, Tells
    <3>5. OnlyBlocks(s, a.store)
      BY <3>3
    <3>6. Shaped(a.store) /\ SessShaped(a.store)
      BY <1>2, <3>5 DEF OnlyBlocks, SessShaped
    <3>7. r.id \in DOMAIN a.store.sess => AlikeSession(a.store.sess[r.id], y(a.store))
      BY <3>6 DEF SessShaped, AlikeSession, y
    <3>8. AlikeSessions(a.store, a.store)
      BY <3>6 DEF SessShaped, AlikeSessions, AlikeSession
    <3>9. /\ AlikeSessions(a.store, o.store) /\ Shaped(o.store)
          /\ o.store.buckets = a.store.buckets /\ o.store.objs = a.store.objs
          /\ o.store.next = a.store.next
      BY <3>4, <3>6, <3>7, <3>8, SessionChanged DEF noted
    <3>10. AlikeSessions(s, o.store)
      BY <3>5, <3>9 DEF OnlyBlocks, AlikeSessions
    <3> QED BY <1>1, <3>5, <3>9, <3>10, SessionContinues DEF OnlyBlocks
  <2> QED BY <2>1, <2>2
<1>6. ASSUME NEW o \in Azure!CompleteUploadCommit(cl, s, r)
      PROVE  Completes("azure", s, r.id, at, o)
  <2> DEFINE ids == [i \in DOMAIN r.parts |-> IF r.parts[i].etag # <<>>
                       THEN r.parts[i].etag[1] ELSE r.parts[i].pn]
             send(t) == Azure!SvcCommitBlocks(t, at, ids, s.sess[r.id].meta)
             sent == send(s) \cup UNION {send(a.store) : a \in send(s)}
  <2>1. PICK S \in SUBSET sent : \E p \in Azure!Ask(S) :
          /\ o.code = p.code
          /\ o.store = IF p.code # "ok" THEN p.store
                       ELSE Azure!DeleteSession(p.store, at, r.id)
    <3> DEFINE asked == Azure!Ask(Azure!Tries(LAMBDA t : Azure!SvcCommitBlocks(t, at, ids,
                                                s.sess[r.id].meta), s))
    <3> DEFINE left(p) == [p EXCEPT !.store = Azure!DeleteSession(@, at, r.id)]
               told(p) == IF p.code # "ok" THEN p ELSE left(p)
    <3>1. Azure!CompleteUploadCommit(cl, s, r) = {told(p) : p \in asked}
      BY Zenon DEF Azure!CompleteUploadCommit, at
    <3>2. PICK S \in SUBSET sent : asked = Azure!Ask(S)
      BY AzureSentAgain DEF Azure!Tries
    <3> HIDE DEF asked, sent
    <3>3. PICK p \in asked : o = told(p)
      BY <1>6, <3>1
    <3>4. p.code = "ok" => {"store", "code"} \subseteq DOMAIN p
      <4>1. PICK a : p = Azure!Answer(a)
        BY <3>2, <3>3 DEF Azure!Ask
      <4> DEFINE err == Azure!MapError(a.store, Azure!SdkError(a.sit))
      <4>2. err.code # "ok"
        BY AzureMapError
      <4> HIDE DEF err
      <4>3. p = IF a.sit = "ok" THEN Azure!Ok(a.store, a.out) ELSE err
        BY <4>1 DEF Azure!Answer, err
      <4> QED BY <4>2, <4>3 DEF Azure!Ok
    <3> DEFINE ended == Azure!DeleteSession(p.store, at, r.id)
    <3>5. p.code = "ok" => left(p).store = ended /\ left(p).code = "ok"
      <4> HIDE DEF ended
      <4>1. left(p) = [p EXCEPT !.store = ended]
        BY DEF ended
      <4> HIDE DEF left
      <4> QED BY <3>4, <4>1
    <3> HIDE DEF left
    <3>6. /\ o.code = p.code
          /\ o.store = IF p.code # "ok" THEN p.store
                       ELSE Azure!DeleteSession(p.store, at, r.id)
      BY <3>3, <3>5
    <3> QED BY <3>2, <3>3, <3>6
  <2>2. ASSUME NEW t, Shaped(t), NEW a \in send(t)
        PROVE  /\ Commits(t, at, a.store)
               /\ a.sit = "ok" => Has(a.store, at)
               /\ at[1] \in t.buckets => a.sit \notin Missing
    BY <2>2, AzureCommits
  <2> HIDE DEF send
  <2>3. \A a \in sent : /\ Commits(s, at, a.store)
                        /\ a.sit = "ok" => Has(a.store, at)
                        /\ a.sit \notin Missing
    BY <1>1, <1>2, <2>2 DEF Commits, KeepsObjects
  <2> HIDE DEF sent
  <2> DEFINE Ended(p) == /\ o.code = p.code
                         /\ o.store = IF p.code # "ok" THEN p.store
                                      ELSE Azure!DeleteSession(p.store, at, r.id)
  <2>4. PICK a \in sent : \E p : Gives(a, p) /\ Ended(p)
    BY <2>1, AzureAsk
  <2>5. PICK p : Gives(a, p) /\ Ended(p)
    BY <2>4
  <2>6. /\ p.store = a.store /\ Commits(s, at, p.store) /\ o.code # "not_found"
        /\ o.code = "ok" => Has(p.store, at)
    BY <2>3, <2>4, <2>5 DEF Gives, Tells
  <2>7. Shaped(p.store) /\ SessShaped(p.store) /\ AlikeSessions(s, p.store)
    BY <1>2, <2>6 DEF Commits, SessShaped, AlikeSessions, AlikeSession
  <2>8. CASE o.code # "ok"
    <3>1. o.store = p.store
      BY <2>5, <2>8
    <3>2. EndsSession(s, o.store, r.id)
      BY <2>7, <3>1 DEF EndsSession, AlikeSessions
    <3>3. Ends("azure", s, o.store, r.id, at)
      BY <1>1, <1>2, <2>6, <2>7, <3>1, <3>2, SessionEnds DEF Commits
    <3>4. Listed(s, r.id) => Listed(o.store, r.id)
      BY <2>6, <3>1 DEF Commits, Listed
    <3> QED BY <1>1, <2>6, <2>8, <3>3, <3>4 DEF Completes, Held, Reaches
  <2>9. CASE o.code = "ok"
    <3>1. o.store \in {p.store, [p.store EXCEPT !.sess[r.id].listed = FALSE]}
      BY <2>5, <2>9 DEF Azure!DeleteSession
    <3>2. /\ EndsSession(p.store, o.store, r.id) /\ Shaped(o.store)
          /\ o.store.buckets = p.store.buckets /\ o.store.objs = p.store.objs
          /\ o.store.next = p.store.next
      <4> DEFINE u == p.store
      <4>1. EndsSession(u, u, r.id)
        BY <2>7 DEF EndsSession, AlikeSession, SessShaped
      <4>2. Shaped(u) /\ SessShaped(u)
        BY <2>7
      <4> HIDE DEF u
      <4>3. CASE o.store = u
        BY <4>1, <4>2, <4>3 DEF u
      <4>4. CASE o.store = [u EXCEPT !.sess[r.id].listed = FALSE]
        BY <4>2, <4>4, Unlists DEF u
      <4> QED BY <3>1, <4>3, <4>4 DEF u
    <3>3. EndsSession(s, o.store, r.id)
      BY <2>6, <3>2 DEF EndsSession, Commits
    <3>4. KeepsObjects(s, o.store) /\ Has(o.store, at) /\ o.store.next = s.next
      BY <2>6, <2>9, <3>2 DEF Commits, KeepsObjects, Has
    <3>5. Ends("azure", s, o.store, r.id, at)
      BY <1>1, <1>2, <3>2, <3>3, <3>4, SessionEnds
    <3> QED BY <1>1, <2>9, <3>4, <3>5 DEF Completes
  <2> QED BY <2>8, <2>9
<1>7. ASSUME NEW o \in Azure!AbortUpload(cl, s, r)
      PROVE  Aborts("azure", s, r.id, at, o)
  <2>1. o.store = IF Listed(s, r.id) THEN [s EXCEPT !.sess[r.id].listed = FALSE] ELSE s
    BY <1>3, <1>7 DEF Azure!AbortUpload, Azure!DeleteSession, Azure!Ok, at
  <2> QED BY <1>1, <1>2, <2>1, SessionAborts
<1> QED BY <1>1, <1>4, <1>5, <1>6, <1>7 DEF UploadCalls

\* The uploads the Qiniu driver sees are those of ObjectService.
LEMMA QiniuUploadService ==
  /\ \A s, at, m : Qiniu!SvcCreateUpload(s, at, m) = SvcCreateUpload(s, at, m)
  /\ \A s, i, at, n, b, f :
       Qiniu!SvcUploadPart(s, i, at, n, b, f) = SvcUploadPart(s, i, at, n, b, f)
  /\ \A s, i, at, p : Qiniu!SvcComplete(s, i, at, p) = SvcComplete(s, i, at, p)
  /\ \A s, i, at : Qiniu!SvcAbort(s, i, at) = SvcAbort(s, i, at)
<1>1. \A s, i, at, p : Qiniu!SvcComplete(s, i, at, p) = SvcComplete(s, i, at, p)
  <2>1. \A parts : Qiniu!Assembled(parts) = Assembled(parts)
    BY DEF Assembled, Joined, Loop, Qiniu!Assembled, Qiniu!Joined, Qiniu!Loop
  <2>2. /\ \A s, a : Qiniu!Attempt(s, a) = Attempt(s, a)
        /\ \A s, f : Qiniu!No(s, f) = No(s, f) /\ Qiniu!Done(s, f) = Done(s, f)
        /\ \A s, i, at : Qiniu!IsOpen(s, i, at) = IsOpen(s, i, at)
    BY DEF Attempt, No, Done, Reply, IsOpen, Lost, Nothing, Qiniu!Attempt, Qiniu!No,
           Qiniu!Done, Qiniu!Reply, Qiniu!IsOpen, Qiniu!Lost, Qiniu!Nothing
  <2>3. /\ \A s, at, o : Qiniu!StoreObject(s, at, o) = StoreObject(s, at, o)
        /\ \A f, x : Qiniu!Without(f, x) = Without(f, x)
        /\ \A b, m, t : Qiniu!ObjectOf(b, m, t) = ObjectOf(b, m, t)
        /\ \A o : Qiniu!Etag(o) = Etag(o)
    BY DEF StoreObject, With, Without, Restrict, ObjectOf, Etag, Qiniu!StoreObject,
           Qiniu!With, Qiniu!Without, Qiniu!Restrict, Qiniu!ObjectOf, Qiniu!Etag
  <2> QED BY <2>1, <2>2, <2>3 DEF SvcComplete, Qiniu!SvcComplete
<1> QED
  BY <1>1
  DEF SvcCreateUpload, SvcUploadPart, SvcAbort, Attempt, InBucket, No, Done, Reply,
      With, Without, Restrict, IsOpen, Lost, Nothing, Qiniu!SvcCreateUpload,
      Qiniu!SvcUploadPart, Qiniu!SvcAbort, Qiniu!Attempt, Qiniu!InBucket, Qiniu!No,
      Qiniu!Done, Qiniu!Reply, Qiniu!With, Qiniu!Without, Qiniu!Restrict,
      Qiniu!IsOpen, Qiniu!Lost, Qiniu!Nothing

\* The upload calls of the Qiniu driver.
LEMMA QiniuUploads ==
  ASSUME NEW cl, NEW s, Sound("qiniu", s), NEW r, NamesView(cl, r),
         Placed("qiniu", s, r.id, <<r.bucket, r.key>>)
  PROVE  UploadCalls("qiniu", s, <<r.bucket, r.key>>, r.id,
           Qiniu!InitiateUpload(cl, s, r), Qiniu!UploadPartSend(cl, s, r),
           Qiniu!CompleteUploadCommit(cl, s, r), Qiniu!AbortUpload(cl, s, r))
<1> DEFINE at == Qiniu!At(cl, r)
<1>1. at = <<r.bucket, r.key>> /\ "qiniu" \notin Services /\ "qiniu" \in OverService
  BY DEF Qiniu!At, Qiniu!PickBucket, NamesView, Services, OverService
<1> HIDE DEF at
<1>2. Shaped(s) /\ SessShaped(s) /\ Placed("qiniu", s, r.id, at)
  BY <1>1 DEF Sound
<1>3. \A t : Qiniu!LoadSession(t, r.id) = Listed(t, r.id)
  BY DEF Qiniu!LoadSession, Listed
<1>4. ASSUME NEW o \in Qiniu!InitiateUpload(cl, s, r)
      PROVE  Initiates("qiniu", s, at, o)
  <2>1. CASE r.key = 0
    <3>1. Declines(o, s)
      BY <1>4, <2>1 DEF Qiniu!InitiateUpload, Qiniu!Refuse, Qiniu!Error, Declines
    <3> QED BY <3>1, DeclinedUpload
  <2>2. CASE r.key # 0
    <3> DEFINE meta == Qiniu!BuildPutParams(r.meta)
               asked == Qiniu!Ask(Qiniu!SvcCreateUpload(s, at, meta))
               rec == [at |-> at, parts |-> <<>>, listed |-> TRUE]
               entered(p) == [p EXCEPT !.store.sess = Qiniu!With(@, p.out.id, rec)]
    <3>1. PICK p \in asked : o = IF p.code # "ok" THEN p ELSE entered(p)
      BY <1>4, <2>2 DEF Qiniu!InitiateUpload, at
    <3>2. PICK a \in SvcCreateUpload(s, at, meta) : Gives(a, p)
      BY <3>1, QiniuAsk, QiniuUploadService
    <3>3. WellFormed(p)
      BY <3>1, QiniuAskForm
    <3>4. rec.at = at /\ rec.listed /\ {"at", "listed"} \subseteq DOMAIN rec
      OBVIOUS
    <3> HIDE DEF asked, rec, meta
    <3>5. /\ entered(p).code = p.code /\ entered(p).out = p.out
          /\ entered(p).store = Entered(p.store, p.out.id, rec)
      BY <3>3 DEF WellFormed, Entered, With, Qiniu!With
    <3> HIDE DEF entered
    <3> QED BY <1>1, <3>1, <3>2, <3>4, <3>5, OverInitiates
  <2> QED BY <2>1, <2>2
<1>5. ASSUME NEW o \in Qiniu!UploadPartSend(cl, s, r)
      PROVE  Continues("qiniu", s, o.store)
  <2> DEFINE on == s.sess[r.id].at
             asked == Qiniu!Ask(Qiniu!SvcUploadPart(s, r.id, on, r.pn, r.body.bytes,
                                                    r.body.fails))
             sent == SvcUploadPart(s, r.id, on, r.pn, r.body.bytes, r.body.fails)
             noted(p) == [p EXCEPT !.store.sess[r.id].parts =
                            Append(@, [pn |-> r.pn, etag |-> p.out.etag])]
  <2>1. PICK p \in asked : o = IF p.code # "ok" THEN p ELSE noted(p)
    BY <1>5 DEF Qiniu!UploadPartSend
  <2>2. PICK a \in sent : Gives(a, p)
    BY <2>1, QiniuAsk, QiniuUploadService
  <2>3. WellFormed(p)
    BY <2>1, QiniuAskForm
  <2> DEFINE y == [p.store.sess[r.id] EXCEPT
                     !.parts = Append(@, [pn |-> r.pn, etag |-> p.out.etag])]
  <2>4. noted(p).store = SetSession(p.store, r.id, y)
    BY <2>3 DEF WellFormed, SetSession
  <2>5. p.store = a.store /\ a.store.sess = s.sess
    <3>1. SendsPart(s, r.id, on, a)
      BY SvcUploadPartDoes
    <3>2. OnlyUps(s, a.store)
      BY <1>1, <3>1, SendsPartDoes DEF Sound
    <3> QED BY <2>2, <3>2 DEF OnlyUps, Gives, Tells
  <2>6. r.id \in DOMAIN s.sess => AlikeSession(s.sess[r.id], y)
    BY <1>2, <2>5 DEF SessShaped, AlikeSession
  <2> HIDE DEF asked, noted, y, on
  <2>7. o.store = a.store \/ o.store = SetSession(a.store, r.id, y)
    BY <2>1, <2>4, <2>5
  <2> QED BY <1>1, <2>6, <2>7, OverContinues
<1>6. ASSUME NEW o \in Qiniu!CompleteUploadCommit(cl, s, r)
      PROVE  Completes("qiniu", s, r.id, at, o)
  <2> DEFINE to == s.sess[r.id].at
             asked == Qiniu!Ask(Qiniu!SvcComplete(s, r.id, to, r.parts))
             left(p) == [p EXCEPT !.store = Qiniu!DeleteSession(@, r.id)]
  <2>1. Listed(s, r.id) => to = at
    BY <1>1, <1>2 DEF Placed, Listed
  <2>2. PICK p \in asked : o = IF p.code # "ok" THEN p ELSE left(p)
    BY <1>6 DEF Qiniu!CompleteUploadCommit
  <2> HIDE DEF to
  <2>3. PICK a \in SvcComplete(s, r.id, to, r.parts) : Gives(a, p)
    BY <2>2, QiniuAsk, QiniuUploadService
  <2>4. WellFormed(p)
    BY <2>2, QiniuAskForm
  <2>5. left(p).code = p.code /\ left(p).store = Qiniu!DeleteSession(p.store, r.id)
    BY <2>4 DEF WellFormed
  <2>6. Qiniu!DeleteSession(p.store, r.id) \in
          {p.store, [p.store EXCEPT !.sess[r.id].listed = FALSE]}
    BY DEF Qiniu!DeleteSession
  <2> HIDE DEF asked, left
  <2> QED BY <1>1, <1>2, <2>1, <2>2, <2>3, <2>5, <2>6, OverCompletes DEF Gives
<1>7. ASSUME NEW o \in Qiniu!AbortUpload(cl, s, r)
      PROVE  Aborts("qiniu", s, r.id, at, o)
  <2>1. o.store = IF Listed(s, r.id) THEN [s EXCEPT !.sess[r.id].listed = FALSE] ELSE s
    BY <1>3, <1>7 DEF Qiniu!AbortUpload, Qiniu!DeleteSession, Qiniu!Ok
  <2> QED BY <1>1, <1>2, <2>1, SessionAborts
<1> QED BY <1>1, <1>4, <1>5, <1>6, <1>7 DEF UploadCalls

\* The uploads the Upyun driver sees are those of ObjectService.
LEMMA UpyunUploadService ==
  /\ \A s, at, m : Upyun!SvcCreateUpload(s, at, m) = SvcCreateUpload(s, at, m)
  /\ \A s, i, at, n, b, f :
       Upyun!SvcUploadPart(s, i, at, n, b, f) = SvcUploadPart(s, i, at, n, b, f)
  /\ \A s, i, at, p : Upyun!SvcComplete(s, i, at, p) = SvcComplete(s, i, at, p)
  /\ \A s, i, at : Upyun!SvcAbort(s, i, at) = SvcAbort(s, i, at)
<1>1. \A s, i, at, p : Upyun!SvcComplete(s, i, at, p) = SvcComplete(s, i, at, p)
  <2>1. \A parts : Upyun!Assembled(parts) = Assembled(parts)
    BY DEF Assembled, Joined, Loop, Upyun!Assembled, Upyun!Joined, Upyun!Loop
  <2>2. /\ \A s, a : Upyun!Attempt(s, a) = Attempt(s, a)
        /\ \A s, f : Upyun!No(s, f) = No(s, f) /\ Upyun!Done(s, f) = Done(s, f)
        /\ \A s, i, at : Upyun!IsOpen(s, i, at) = IsOpen(s, i, at)
    BY DEF Attempt, No, Done, Reply, IsOpen, Lost, Nothing, Upyun!Attempt, Upyun!No,
           Upyun!Done, Upyun!Reply, Upyun!IsOpen, Upyun!Lost, Upyun!Nothing
  <2>3. /\ \A s, at, o : Upyun!StoreObject(s, at, o) = StoreObject(s, at, o)
        /\ \A f, x : Upyun!Without(f, x) = Without(f, x)
        /\ \A b, m, t : Upyun!ObjectOf(b, m, t) = ObjectOf(b, m, t)
        /\ \A o : Upyun!Etag(o) = Etag(o)
    BY DEF StoreObject, With, Without, Restrict, ObjectOf, Etag, Upyun!StoreObject,
           Upyun!With, Upyun!Without, Upyun!Restrict, Upyun!ObjectOf, Upyun!Etag
  <2> QED BY <2>1, <2>2, <2>3 DEF SvcComplete, Upyun!SvcComplete
<1> QED
  BY <1>1
  DEF SvcCreateUpload, SvcUploadPart, SvcAbort, Attempt, InBucket, No, Done, Reply,
      With, Without, Restrict, IsOpen, Lost, Nothing, Upyun!SvcCreateUpload,
      Upyun!SvcUploadPart, Upyun!SvcAbort, Upyun!Attempt, Upyun!InBucket, Upyun!No,
      Upyun!Done, Upyun!Reply, Upyun!With, Upyun!Without, Upyun!Restrict,
      Upyun!IsOpen, Upyun!Lost, Upyun!Nothing

\* Every outcome of the Upyun driver is well formed.
LEMMA UpyunAskForm ==
  ASSUME NEW answers, NEW o \in Upyun!Ask(answers)
  PROVE  WellFormed(o)
<1>1. \A t, code, retry, cap : WellFormed(Upyun!Error(t, code, retry, cap))
  BY DEF Upyun!Error, Upyun!Nothing, WellFormed, Deleted
<1>2. \A t, out : WellFormed(Upyun!Ok(t, out))
  BY DEF Upyun!Ok, WellFormed
<1>3. \A t, e : WellFormed(Upyun!MapError(t, e))
  BY <1>1, Zenon DEF Upyun!MapError, Upyun!Refuse
<1> QED BY <1>1, <1>2, <1>3 DEF Upyun!Ask, Upyun!Answer

\* The upload calls of the Upyun driver.
LEMMA UpyunUploads ==
  ASSUME NEW cl, NEW s, Sound("upyun", s), NEW r, NamesView(cl, r),
         Placed("upyun", s, r.id, <<r.bucket, r.key>>)
  PROVE  UploadCalls("upyun", s, <<r.bucket, r.key>>, r.id,
           Upyun!InitiateUpload(cl, s, r), Upyun!UploadPartSent(cl, s, r),
           Upyun!CompleteUploadCommit(cl, s, r), Upyun!AbortUpload(cl, s, r))
<1> DEFINE at == Upyun!At(cl, r)
<1>1. at = <<r.bucket, r.key>> /\ "upyun" \notin Services /\ "upyun" \in OverService
  BY DEF Upyun!At, NamesView, Services, OverService
<1> HIDE DEF at
<1>2. Shaped(s) /\ SessShaped(s) /\ Placed("upyun", s, r.id, at)
  BY <1>1 DEF Sound
<1>3. \A t : t.sess = s.sess => Upyun!LoadSession(t, at, r.id) = Listed(s, r.id)
  BY <1>1, <1>2 DEF Upyun!LoadSession, Listed, Placed
<1>4. \A outcomes : \A o \in Upyun!Within(cl, s, r.bucket, outcomes) : o \in outcomes
  BY DEF Upyun!Within, NamesView
<1>5. ASSUME NEW o \in Upyun!InitiateUpload(cl, s, r)
      PROVE  Initiates("upyun", s, at, o)
  <2>1. CASE r.key = 0
    <3>1. Declines(o, s)
      BY <1>4, <1>5, <2>1 DEF Upyun!InitiateUpload, Upyun!Refuse, Upyun!Error, Declines
    <3> QED BY <3>1, DeclinedUpload
  <2>2. CASE r.key # 0
    <3> DEFINE asked == Upyun!Ask(Upyun!SvcCreateUpload(s, at, "nil"))
               rec == [at |-> at, listed |-> TRUE]
               entered(p) == [p EXCEPT !.store.sess = Upyun!With(@, p.out.id, rec)]
    <3>1. PICK p \in asked : o = IF p.code # "ok" THEN p ELSE entered(p)
      <4>1. o \in {IF p.code # "ok" THEN p ELSE entered(p) : p \in asked}
        BY Zenon, <1>4, <1>5, <2>2 DEF Upyun!InitiateUpload, Upyun!InitiateSent, at
      <4> QED BY <4>1
    <3> DEFINE meta == "nil"
    <3>2. PICK a \in SvcCreateUpload(s, at, meta) : Gives(a, p)
      BY <3>1, UpyunAsk, UpyunUploadService
    <3>3. WellFormed(p)
      BY <3>1, UpyunAskForm
    <3>4. rec.at = at /\ rec.listed /\ {"at", "listed"} \subseteq DOMAIN rec
      OBVIOUS
    <3> HIDE DEF asked, rec, meta
    <3>5. /\ entered(p).code = p.code /\ entered(p).out = p.out
          /\ entered(p).store = Entered(p.store, p.out.id, rec)
      BY <3>3 DEF WellFormed, Entered, With, Upyun!With
    <3> HIDE DEF entered
    <3> QED BY <1>1, <3>1, <3>2, <3>4, <3>5, OverInitiates
  <2> QED BY <2>1, <2>2
<1>6. ASSUME NEW o \in Upyun!UploadPartSent(cl, s, r)
      PROVE  Continues("upyun", s, o.store)
  <2>1. CASE ~Upyun!InOrder(s, r.id, r.pn - 1)
    <3> DEFINE a == No(s, "invalidPart")
    <3>1. o \in Upyun!Ask(Upyun!Attempt(s, Upyun!No(s, "invalidPart")))
      BY <1>6, <2>1 DEF Upyun!UploadPartSent
    <3>2. Upyun!Attempt(s, Upyun!No(s, "invalidPart")) = Attempt(s, a)
      BY DEF Attempt, No, Reply, Lost, Nothing, Upyun!Attempt, Upyun!No, Upyun!Reply,
             Upyun!Lost, Upyun!Nothing
    <3>3. PICK b \in Attempt(s, a) : Gives(b, o)
      BY <3>1, <3>2, UpyunAsk
    <3>4. a.store = s
      BY DEF No, Reply
    <3> HIDE DEF a
    <3>5. b.store = s
      BY <3>3, <3>4, AttemptDoes
    <3> QED BY <3>3, <3>5, NothingDone DEF Gives, Tells
  <2>2. CASE Upyun!InOrder(s, r.id, r.pn - 1)
    <3> DEFINE asked == Upyun!Ask(Upyun!SvcUploadPart(s, r.id, at, r.pn, r.body.bytes,
                                                      r.body.fails))
               sent == SvcUploadPart(s, r.id, at, r.pn, r.body.bytes, r.body.fails)
               told(p) == [p EXCEPT !.out = [etag |-> <<>>]]
    <3>1. PICK p \in asked : o = IF p.code = "ok" THEN told(p) ELSE p
      BY <1>6, <2>2 DEF Upyun!UploadPartSent, at
    <3>2. PICK a \in sent : Gives(a, p)
      BY <3>1, UpyunAsk, UpyunUploadService
    <3>3. WellFormed(p)
      BY <3>1, UpyunAskForm
    <3>4. told(p).store = p.store
      BY <3>3 DEF WellFormed
    <3> DEFINE y == s.sess[r.id]
    <3>5. r.id \in DOMAIN s.sess => AlikeSession(s.sess[r.id], y)
      BY <1>2 DEF SessShaped, AlikeSession
    <3> HIDE DEF asked, told, y
    <3>6. o.store = a.store
      BY <3>1, <3>2, <3>4 DEF Gives, Tells
    <3> QED BY <1>1, <3>5, <3>6, OverContinues
  <2> QED BY <2>1, <2>2
<1>7. ASSUME NEW o \in Upyun!CompleteUploadCommit(cl, s, r)
      PROVE  Completes("upyun", s, r.id, at, o)
  <2> DEFINE parts == Upyun!AllParts(s, r.id)
             asked == Upyun!Ask(Upyun!SvcComplete(s, r.id, at, parts))
             left(p) == Upyun!Ok(Upyun!DeleteSession(p.store, at, r.id), [etag |-> <<>>])
  <2>1. PICK p \in asked : o = IF p.code = "ok" THEN left(p) ELSE p
    BY <1>7 DEF Upyun!CompleteUploadCommit, Upyun!CompleteSent, at
  <2> HIDE DEF parts
  <2>2. PICK a \in SvcComplete(s, r.id, at, parts) : Gives(a, p)
    BY <2>1, UpyunAsk, UpyunUploadService
  <2>3. left(p).code = "ok" /\ left(p).store = Upyun!DeleteSession(p.store, at, r.id)
    BY DEF Upyun!Ok
  <2>4. Upyun!DeleteSession(p.store, at, r.id) \in
          {p.store, [p.store EXCEPT !.sess[r.id].listed = FALSE]}
    BY DEF Upyun!DeleteSession
  <2> HIDE DEF asked, left
  <2> QED BY <1>1, <1>2, <2>1, <2>2, <2>3, <2>4, OverCompletes DEF Gives
<1>8. ASSUME NEW o \in Upyun!AbortUpload(cl, s, r)
      PROVE  Aborts("upyun", s, r.id, at, o)
  <2>1. o.store = IF Listed(s, r.id) THEN [s EXCEPT !.sess[r.id].listed = FALSE] ELSE s
    <3>1. o \in {Upyun!Ok(Upyun!DeleteSession(s, at, r.id), Upyun!Nothing)}
      BY Zenon, <1>4, <1>8 DEF Upyun!AbortUpload, at
    <3> QED BY <1>3, <3>1 DEF Upyun!DeleteSession, Upyun!Ok
  <2> QED BY <1>1, <1>2, <2>1, SessionAborts
<1> QED BY <1>1, <1>5, <1>6, <1>7, <1>8 DEF UploadCalls

-----------------------------------------------------------------------------
(* The client *)

\* The client of a service's uploads, whichever it is, passes the answers on.
LEMMA ClientRelays ==
  ASSUME NEW cl, NEW d, d = cl.drv, d \in Services, NEW s, NEW r, NamesView(cl, r)
  PROVE  RelaysUploads(d, cl, s, <<r.bucket, r.key>>, r,
           InitiateUpload(cl, s, r), UploadPartRest(cl, s, r),
           CompleteUploadRest(cl, s, r), AbortUploadRest(cl, s, r))
<1> DEFINE at == <<r.bucket, r.key>>
<1>0. at = <<r.bucket, r.key>>
  OBVIOUS
<1> HIDE DEF at
<1>1. CASE d = "aws"
  <2>1. RelaysUploads("aws", cl, s, at, r, Aws!InitiateUpload(cl, s, r),
          Aws!UploadPartSend(cl, s, r), Aws!CompleteUpload(cl, s, r), Aws!AbortUpload(cl, s, r))
    BY <1>0, <1>1, AwsRelays
  <2>2. /\ InitiateUpload(cl, s, r) = Aws!InitiateUpload(cl, s, r)
        /\ UploadPartRest(cl, s, r) = Aws!UploadPartSend(cl, s, r)
        /\ CompleteUploadRest(cl, s, r) = Aws!CompleteUpload(cl, s, r)
        /\ AbortUploadRest(cl, s, r) = Aws!AbortUpload(cl, s, r)
    BY Zenon, <1>1 DEF InitiateUpload, UploadPartRest, CompleteUploadRest, AbortUploadRest
  <2> QED BY <1>0, <1>1, <2>1, <2>2
<1>2. CASE d = "minio"
  <2>1. RelaysUploads("minio", cl, s, at, r, Minio!InitiateUpload(cl, s, r),
          Minio!UploadPartSend(cl, s, r), Minio!CompleteUpload(cl, s, r), Minio!AbortUpload(cl, s, r))
    BY <1>0, <1>2, MinioRelays
  <2>2. /\ InitiateUpload(cl, s, r) = Minio!InitiateUpload(cl, s, r)
        /\ UploadPartRest(cl, s, r) = Minio!UploadPartSend(cl, s, r)
        /\ CompleteUploadRest(cl, s, r) = Minio!CompleteUpload(cl, s, r)
        /\ AbortUploadRest(cl, s, r) = Minio!AbortUpload(cl, s, r)
    BY Zenon, <1>2 DEF InitiateUpload, UploadPartRest, CompleteUploadRest, AbortUploadRest
  <2> QED BY <1>0, <1>2, <2>1, <2>2
<1>3. CASE d = "alibaba"
  <2>1. RelaysUploads("alibaba", cl, s, at, r, Alibaba!InitiateUpload(cl, s, r),
          Alibaba!UploadPartSend(cl, s, r), Alibaba!CompleteUpload(cl, s, r), Alibaba!AbortUpload(cl, s, r))
    BY <1>0, <1>3, AlibabaRelays
  <2>2. /\ InitiateUpload(cl, s, r) = Alibaba!InitiateUpload(cl, s, r)
        /\ UploadPartRest(cl, s, r) = Alibaba!UploadPartSend(cl, s, r)
        /\ CompleteUploadRest(cl, s, r) = Alibaba!CompleteUpload(cl, s, r)
        /\ AbortUploadRest(cl, s, r) = Alibaba!AbortUpload(cl, s, r)
    BY Zenon, <1>3 DEF InitiateUpload, UploadPartRest, CompleteUploadRest, AbortUploadRest
  <2> QED BY <1>0, <1>3, <2>1, <2>2
<1>4. CASE d = "tencent"
  <2>1. RelaysUploads("tencent", cl, s, at, r, Tencent!InitiateUpload(cl, s, r),
          Tencent!UploadPartSend(cl, s, r), Tencent!CompleteUpload(cl, s, r), Tencent!AbortUpload(cl, s, r))
    BY <1>0, <1>4, TencentRelays
  <2>2. /\ InitiateUpload(cl, s, r) = Tencent!InitiateUpload(cl, s, r)
        /\ UploadPartRest(cl, s, r) = Tencent!UploadPartSend(cl, s, r)
        /\ CompleteUploadRest(cl, s, r) = Tencent!CompleteUpload(cl, s, r)
        /\ AbortUploadRest(cl, s, r) = Tencent!AbortUpload(cl, s, r)
    BY Zenon, <1>4 DEF InitiateUpload, UploadPartRest, CompleteUploadRest, AbortUploadRest
  <2> QED BY <1>0, <1>4, <2>1, <2>2
<1>5. CASE d = "huawei"
  <2>1. RelaysUploads("huawei", cl, s, at, r, Huawei!InitiateUpload(cl, s, r),
          Huawei!UploadPartSend(cl, s, r), Huawei!CompleteUpload(cl, s, r), Huawei!AbortUpload(cl, s, r))
    BY <1>0, <1>5, HuaweiRelays
  <2>2. /\ InitiateUpload(cl, s, r) = Huawei!InitiateUpload(cl, s, r)
        /\ UploadPartRest(cl, s, r) = Huawei!UploadPartSend(cl, s, r)
        /\ CompleteUploadRest(cl, s, r) = Huawei!CompleteUpload(cl, s, r)
        /\ AbortUploadRest(cl, s, r) = Huawei!AbortUpload(cl, s, r)
    BY Zenon, <1>5 DEF InitiateUpload, UploadPartRest, CompleteUploadRest, AbortUploadRest
  <2> QED BY <1>0, <1>5, <2>1, <2>2
<1>6. CASE d = "volcengine"
  <2>1. RelaysUploads("volcengine", cl, s, at, r, Volcengine!InitiateUpload(cl, s, r),
          Volcengine!UploadPartSend(cl, s, r), Volcengine!CompleteUpload(cl, s, r), Volcengine!AbortUpload(cl, s, r))
    BY <1>0, <1>6, VolcengineRelays
  <2>2. /\ InitiateUpload(cl, s, r) = Volcengine!InitiateUpload(cl, s, r)
        /\ UploadPartRest(cl, s, r) = Volcengine!UploadPartSend(cl, s, r)
        /\ CompleteUploadRest(cl, s, r) = Volcengine!CompleteUpload(cl, s, r)
        /\ AbortUploadRest(cl, s, r) = Volcengine!AbortUpload(cl, s, r)
    BY Zenon, <1>6 DEF InitiateUpload, UploadPartRest, CompleteUploadRest, AbortUploadRest
  <2> QED BY <1>0, <1>6, <2>1, <2>2
<1> QED BY <1>1, <1>2, <1>3, <1>4, <1>5, <1>6 DEF Services

\* The upload calls of a client, whichever driver it has.
LEMMA ClientUploads ==
  ASSUME NEW cl, NEW d, d = cl.drv, d \in AllDrivers, NEW s, Sound(d, s), NEW r, NamesView(cl, r),
         Placed(d, s, r.id, <<r.bucket, r.key>>), r.bucket \in s.buckets
  PROVE  UploadCalls(d, s, <<r.bucket, r.key>>, r.id,
           InitiateUpload(cl, s, r), UploadPartRest(cl, s, r),
           CompleteUploadRest(cl, s, r), AbortUploadRest(cl, s, r))
<1> DEFINE at == <<r.bucket, r.key>>
<1>0. at = <<r.bucket, r.key>>
  OBVIOUS
<1> HIDE DEF at
<1>1. CASE d \in Services
  BY <1>0, <1>1, ClientRelays, RelaysDo
<1>7. CASE d = "gcs"
  <2>1. UploadCalls("gcs", s, at, r.id, Gcs!InitiateUpload(cl, s, r),
          Gcs!UploadPartLocked(cl, s, r), Gcs!CompleteUploadClose(cl, s, r), Gcs!AbortUploadClose(cl, s, r))
    BY <1>0, <1>7, GcsUploads
  <2>2. /\ InitiateUpload(cl, s, r) = Gcs!InitiateUpload(cl, s, r)
        /\ UploadPartRest(cl, s, r) = Gcs!UploadPartLocked(cl, s, r)
        /\ CompleteUploadRest(cl, s, r) = Gcs!CompleteUploadClose(cl, s, r)
        /\ AbortUploadRest(cl, s, r) = Gcs!AbortUploadClose(cl, s, r)
    BY Zenon, <1>7 DEF InitiateUpload, UploadPartRest, CompleteUploadRest, AbortUploadRest
  <2> QED BY <1>0, <1>7, <2>1, <2>2
<1>8. CASE d = "azure"
  <2>1. UploadCalls("azure", s, at, r.id, Azure!InitiateUpload(cl, s, r),
          Azure!UploadPartStage(cl, s, r), Azure!CompleteUploadCommit(cl, s, r), Azure!AbortUpload(cl, s, r))
    BY <1>0, <1>8, AzureUploads
  <2>2. /\ InitiateUpload(cl, s, r) = Azure!InitiateUpload(cl, s, r)
        /\ UploadPartRest(cl, s, r) = Azure!UploadPartStage(cl, s, r)
        /\ CompleteUploadRest(cl, s, r) = Azure!CompleteUploadCommit(cl, s, r)
        /\ AbortUploadRest(cl, s, r) = Azure!AbortUpload(cl, s, r)
    BY Zenon, <1>8 DEF InitiateUpload, UploadPartRest, CompleteUploadRest, AbortUploadRest
  <2> QED BY <1>0, <1>8, <2>1, <2>2
<1>9. CASE d = "qiniu"
  <2>1. UploadCalls("qiniu", s, at, r.id, Qiniu!InitiateUpload(cl, s, r),
          Qiniu!UploadPartSend(cl, s, r), Qiniu!CompleteUploadCommit(cl, s, r), Qiniu!AbortUpload(cl, s, r))
    BY <1>0, <1>9, QiniuUploads
  <2>2. /\ InitiateUpload(cl, s, r) = Qiniu!InitiateUpload(cl, s, r)
        /\ UploadPartRest(cl, s, r) = Qiniu!UploadPartSend(cl, s, r)
        /\ CompleteUploadRest(cl, s, r) = Qiniu!CompleteUploadCommit(cl, s, r)
        /\ AbortUploadRest(cl, s, r) = Qiniu!AbortUpload(cl, s, r)
    BY Zenon, <1>9 DEF InitiateUpload, UploadPartRest, CompleteUploadRest, AbortUploadRest
  <2> QED BY <1>0, <1>9, <2>1, <2>2
<1>10. CASE d = "upyun"
  <2>1. UploadCalls("upyun", s, at, r.id, Upyun!InitiateUpload(cl, s, r),
          Upyun!UploadPartSent(cl, s, r), Upyun!CompleteUploadCommit(cl, s, r), Upyun!AbortUpload(cl, s, r))
    BY <1>0, <1>10, UpyunUploads
  <2>2. /\ InitiateUpload(cl, s, r) = Upyun!InitiateUpload(cl, s, r)
        /\ UploadPartRest(cl, s, r) = Upyun!UploadPartSent(cl, s, r)
        /\ CompleteUploadRest(cl, s, r) = Upyun!CompleteUploadCommit(cl, s, r)
        /\ AbortUploadRest(cl, s, r) = Upyun!AbortUpload(cl, s, r)
    BY Zenon, <1>10 DEF InitiateUpload, UploadPartRest, CompleteUploadRest, AbortUploadRest
  <2> QED BY <1>0, <1>10, <2>1, <2>2
<1> QED BY <1>1, <1>7, <1>8, <1>9, <1>10 DEF AllDrivers, Services

\* Up to where a driver with a registry has the session: it goes on with an
\* upload that can be reached, and with each that it holds and whose list of
\* parts is not empty; it finds nothing where there is nothing.
LEMMA ClientGets ==
  ASSUME NEW cl, NEW d, d = cl.drv, d \in AllDrivers, NEW s, NEW r, NamesView(cl, r),
         Placed(d, s, r.id, <<r.bucket, r.key>>)
  PROVE  LET at == <<r.bucket, r.key>>
             got == CompleteUploadGet(cl, s, r)
         IN /\ got = {} /\ d \notin Services => Reaches(d, s, r.id, at)
            /\ Held(d, s, r.id, at) /\ r.parts # <<>> => got = {}
            /\ \A o \in got : o.code = "not_found" => ~Held(d, s, r.id, at)
            /\ AbortUploadGet(cl, s, r) # {} => ~Reaches(d, s, r.id, at)
<1> DEFINE at == <<r.bucket, r.key>>
           got == CompleteUploadGet(cl, s, r)
<1>1. AbortUploadGet(cl, s, r) # {} => ~Reaches(d, s, r.id, at)
  BY DEF AbortUploadGet, Gcs!AbortUploadGet, Gcs!Listed, Listed, Reaches, Services
<1>2. CASE d \in Services
  BY <1>1, <1>2 DEF CompleteUploadGet, Services
<1>3. CASE d \notin Services
  <2>1. Reaches(d, s, r.id, at) <=> Listed(s, r.id)
    BY <1>3 DEF Reaches
  <2>2. Held(d, s, r.id, at) => Listed(s, r.id)
    BY <2>1 DEF Held
  <2> SUFFICES /\ got = {} => Listed(s, r.id)
               /\ Listed(s, r.id) /\ r.parts # <<>> => got = {}
               /\ \A o \in got : o.code = "not_found" => ~Listed(s, r.id)
    BY <1>1, <1>3, <2>1, <2>2
  <2>3. CASE d = "gcs"
    BY <2>3 DEF CompleteUploadGet, Gcs!CompleteUploadGet, Gcs!Listed, Listed
  <2>4. CASE d = "azure"
    <3>1. Azure!LoadSession(s, Azure!At(cl, r), r.id) = Listed(s, r.id)
      BY <1>3 DEF Azure!LoadSession, Azure!At, Azure!PickBucket, NamesView, Listed, Placed
    <3>2. got = Azure!CompleteUploadGet(cl, s, r)
      BY Zenon, <2>4 DEF CompleteUploadGet
    <3> DEFINE x == Azure!Refuse(s, "invalid_argument")  y == Azure!Refuse(s, "not_found")
    <3>3. x.code = "invalid_argument"
      BY DEF Azure!Refuse, Azure!Error
    <3>4. got = IF r.parts = <<>> THEN {x} ELSE IF ~Listed(s, r.id) THEN {y} ELSE {}
      BY <3>1, <3>2 DEF Azure!CompleteUploadGet
    <3> HIDE DEF x, y, got
    <3> QED BY <3>3, <3>4
  <2>5. CASE d = "qiniu"
    <3>1. Qiniu!LoadSession(s, r.id) = Listed(s, r.id)
      BY DEF Qiniu!LoadSession, Listed
    <3>2. got = Qiniu!CompleteUploadGet(cl, s, r)
      BY Zenon, <2>5 DEF CompleteUploadGet
    <3> DEFINE x == Qiniu!Refuse(s, "invalid_argument")  y == Qiniu!Refuse(s, "not_found")
    <3>3. x.code = "invalid_argument"
      BY DEF Qiniu!Refuse, Qiniu!Error
    <3>4. got = IF r.parts = <<>> THEN {x} ELSE IF ~Listed(s, r.id) THEN {y} ELSE {}
      BY <3>1, <3>2 DEF Qiniu!CompleteUploadGet
    <3> HIDE DEF x, y, got
    <3> QED BY <3>3, <3>4
  <2>6. CASE d = "upyun"
    <3>1. Upyun!LoadSession(s, Upyun!At(cl, r), r.id) = Listed(s, r.id)
      BY <1>3 DEF Upyun!LoadSession, Upyun!At, NamesView, Listed, Placed
    <3>2. got = Upyun!CompleteUploadGet(cl, s, r)
      BY Zenon, <2>6 DEF CompleteUploadGet
    <3>3. \A outcomes : Upyun!Within(cl, s, r.bucket, outcomes) = outcomes
      BY DEF Upyun!Within, NamesView
    <3> DEFINE x == Upyun!Refuse(s, "invalid_argument")  y == Upyun!Refuse(s, "not_found")
    <3>4. x.code = "invalid_argument"
      BY DEF Upyun!Refuse, Upyun!Error
    <3>5. got = IF r.parts = <<>> THEN {x} ELSE IF ~Listed(s, r.id) THEN {y} ELSE {}
      BY <3>1, <3>2, <3>3 DEF Upyun!CompleteUploadGet
    <3> HIDE DEF x, y, got
    <3> QED BY <3>4, <3>5
  <2> QED BY <1>3, <2>3, <2>4, <2>5, <2>6 DEF AllDrivers, Services
<1> QED BY <1>2, <1>3

\* Going on is nothing, or in the gcs driver takes the session away.
LEMMA ClientTakes ==
  ASSUME NEW cl, NEW d, d = cl.drv, d \in AllDrivers, NEW s, Sound(d, s), NEW r, NEW at,
         Placed(d, s, r.id, at)
  PROVE  LET t == TakeUpload(cl, s, r)
         IN /\ d # "gcs" => t = s
            /\ d = "gcs" => Ends(d, s, t, r.id, at) /\ ~Reaches(d, t, r.id, at)
<1> DEFINE t == TakeUpload(cl, s, r)
<1>1. d # "gcs" => t = s
  BY DEF TakeUpload
<1>2. ASSUME d = "gcs"
      PROVE  Ends(d, s, t, r.id, at) /\ ~Reaches(d, t, r.id, at)
  <2>1. Shaped(s) /\ SessShaped(s) /\ d \notin Services /\ d \notin OverService
    BY <1>2 DEF Sound, Services, OverService
  <2>2. t = [s EXCEPT !.sess[r.id].listed = FALSE]
    BY <1>2 DEF TakeUpload, Gcs!Take
  <2> HIDE DEF t
  <2>3. /\ EndsSession(s, t, r.id) /\ ~Listed(t, r.id) /\ Shaped(t)
        /\ t.buckets = s.buckets /\ t.objs = s.objs /\ t.next = s.next
    BY <2>1, <2>2, Unlists
  <2>4. KeepsObjects(s, t)
    BY <2>3 DEF KeepsObjects, Has
  <2> QED BY <2>1, <2>3, <2>4, SessionEnds DEF Reaches
<1> QED BY <1>1, <1>2

\* A request that is carried out after its call has returned does to the uploads
\* what the call would have done, except that the registry stays as it is.
LateStore(s, t) == [t EXCEPT !.sess = s.sess]

LEMMA LateRegistry ==
  ASSUME NEW d, d # "gcs", NEW s, NEW t, Sound(d, s), Sound(d, t)
  PROVE  LET u == LateStore(s, t)
         IN /\ Sound(d, u) /\ u.buckets = t.buckets /\ u.objs = t.objs /\ u.next = t.next
            /\ \A i : Same(d, s, t, i) => Same(d, s, u, i)
            /\ \A i, x : /\ (Placed(d, s, i, x) => Placed(d, u, i, x))
                         /\ ((Reaches(d, t, i, x) => Reaches(d, s, i, x)) =>
                               (Reaches(d, u, i, x) => Reaches(d, s, i, x)))
                         /\ (Held(d, s, i, x) /\ Held(d, t, i, x) => Held(d, u, i, x))
<1> DEFINE u == LateStore(s, t)
<1>1. /\ DOMAIN u = DOMAIN t /\ u.buckets = t.buckets /\ u.objs = t.objs /\ u.next = t.next
      /\ u.ups = t.ups /\ u.sess = s.sess
  BY DEF LateStore, Sound, Shaped
<1> HIDE DEF u
<1>2. Sound(d, u)
  BY <1>1 DEF Sound, Shaped, SessShaped, UpsShaped
<1>3. \A i, x : /\ (IsOpen(u, i, x) <=> IsOpen(t, i, x))
               /\ (Listed(u, i) <=> Listed(s, i))
               /\ (Placed(d, u, i, x) <=> Placed(d, s, i, x))
  BY <1>1 DEF IsOpen, Listed, Placed
<1>4. ASSUME NEW i, Same(d, s, t, i) PROVE Same(d, s, u, i)
  <2>1. CASE d \in Services
    BY <1>3, <1>4, <2>1 DEF Same, Reaches, Held, Services, OverService
  <2>2. CASE d \notin Services /\ d \notin OverService
    BY <1>3, <2>2 DEF Same, Reaches, Held
  <2>3. CASE d \notin Services /\ d \in OverService
    BY <1>3, <1>4, <2>3 DEF Same, Reaches, Held
  <2> QED BY <2>1, <2>2, <2>3
<1>5. \A i, x : /\ (Placed(d, s, i, x) => Placed(d, u, i, x))
               /\ ((Reaches(d, t, i, x) => Reaches(d, s, i, x)) =>
                     (Reaches(d, u, i, x) => Reaches(d, s, i, x)))
               /\ (Held(d, s, i, x) /\ Held(d, t, i, x) => Held(d, u, i, x))
  BY <1>3 DEF Reaches, Held
<1> QED BY <1>1, <1>2, <1>4, <1>5 DEF u
=============================================================================
