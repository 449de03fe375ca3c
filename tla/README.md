# Verification of the uos storage SDK

TLA+ models of this repository, of its transfer layer and of its ten drivers, the TLC configurations that
check them, and TLAPS proofs about them. The modules are translated from the Go
source; the file and lines behind every definition are in the `map` of
`PROJECT.json`.

## 1. The system

`uos` is one Go API over ten object stores. A driver translates a request into
calls of the vendor's SDK and the SDK's errors into `*uos.Error`; four drivers
also keep a registry of multipart uploads in the process. Above the drivers stand
a transfer manager and a streaming writer, below them the registry of factories.

| Part | State it keeps | Operations | Interacts with |
| --- | --- | --- | --- |
| `pkg/uos/transfer.Manager` | per call only: context, upload id, parts; goroutines and channels of `runWorkers` | `Upload` = planner, `materializeBody`, `uploadMultipart`, `runWorkers`, `sliceParts`, `loadResume` | a `MultipartServiceLike`, a `StateStore`, a progress callback |
| `transfer.StateStore` | payload per resume key (`resumeState`: upload id and parts) | `Save`, `Load`, `Delete` | shared by all Managers that are given the same store |
| `streamio.Writer` | buffer, upload, parts, next part number, closed / aborted / sticky error | `Write`, `Close`, `Abort` | `MultipartService` and `ObjectService` of a Client |
| GCS driver | registry of sessions, each with a mutex, a lazy writer and the next part number | every call of `Client` | one `storage.Writer` per upload |
| Azure driver | sessions with content and metadata | the same | block staging and commit; block ids are made of the part number |
| Qiniu driver | sessions with tokens and parts | the same | resumable upload v2, one batch request |
| Upyun driver | sessions; a goroutine per SDK call that outlives a cancelled caller | the same | an SDK without contexts |
| AWS, MinIO, Alibaba, Tencent, Huawei, Volcengine drivers | none beyond the SDK's client | the same | the service keeps the uploads |
| `Registry`, `Client` | factories by provider under a RWMutex | `Register`, `Open`, `Close` | factories, credential chain |
| credential chain, capability report, error model, error maps | none (pure; the chain reads the environment) | `Resolve`, `Has`, `Is`, `mapError` | every driver |
| clean-up of the contract suite | what the pages gave so far | list, abort, delete in batches | every driver |
| middleware, httpx, examples | none worth modelling | | |

Nothing in the repository calls `transfer.Manager` from a driver yet; its tests
and its documentation say how it is meant to be used.

### Hard behaviours and what makes the parts correct

* **Worker pool.** Workers, dispatcher and caller meet over an unbuffered
  channel, two buffered ones, a WaitGroup and a derived context. A failure
  cancels the siblings, whose own errors must not hide the cause; the dispatcher
  may stop with parts unsent; the caller must neither block nor return early.
* **Slicing.** The body is read once, forward. Resumed parts have to be read past;
  the last part is short; the body may be shorter than claimed.
* **Upload and resume.** Abort and Delete are best effort, answers may be lost, a
  process may die anywhere, two processes may share a resume key, the context
  may end at any time. The object must stay whole unless the call was cancelled, the
  payload true, no upload may be left open by a return, and the key must stay
  uploadable.
* **Writer.** Write, Close and Abort come in any order, and every call of the
  service in them may fail. What is committed must be what was written.
* **Objects shared by callers.** Preconditions must reach the service, an answer
  that was lost must not be mapped to a refusal, a request given up may be
  carried out later, a batch may fail half way, ranges are inclusive or open.
* **Multipart uploads of a driver.** A session is looked up, the registry's lock let
  go, and the session used later: an Abort, a part or a second Complete comes in
  between. A retry after half a part appends twice; block ids repeat between uploads
  of one key; the answer of Complete or Abort is lost and it is asked again; a request
  arrives after its caller has left.
* **Listings.** A truncated page must name a token, the token must go on where the
  page ended, whatever is deleted or written in between.
* **Opening a client.** Two packages register one provider, the environment changes
  while credentials are read, grants are asked for less than a second, calls come
  after Close, and what the report calls supported must not be refused.

The list with lines is `hazards` in `PROJECT.json`; each names its properties, or
says why none can be stated.

## 2. Modules

| Module | What it is | Source |
| --- | --- | --- |
| `PartPlan` | the arithmetic of the plan: number, offset and length of parts | `manager.go` `sliceParts` |
| `SliceParts` | the pass of `sliceParts` over the body | `manager.go` `sliceParts` |
| `PartBatch` | abstract specification: what `runWorkers` promises | `manager.go` `runWorkers` |
| `WorkerPool` | `runWorkers` with its goroutines; refines `PartBatch` | `manager.go` `runWorkers` |
| `TransferManager` | `Upload` and `uploadMultipart`, several callers, service and store; uses `PartBatch` | `manager.go`, `statestore.go` |
| `StreamWriter` | `streamio.Writer` | `streamio/writer.go` |
| `Errors` | `*uos.Error` and the outcome of a call | `error.go` |
| `S3Common` | tables and helpers the drivers share | `s3common/s3common.go` |
| `ObjectService` | external: the service behind a driver, its faults, the situations it reports | |
| `AwsDriver`, `MinioDriver`, `AlibabaDriver`, `TencentDriver`, `HuaweiDriver`, `VolcengineDriver`, `GcsDriver`, `AzureDriver`, `QiniuDriver`, `UpyunDriver` | one driver each: Validate, Open, Close, report, error map, and every call of the Client | `providers/*/{factory,driver,error_map,capabilities}.go` |
| `Client` | the interfaces of a Client over the ten drivers, and the request | `client.go`, `request*.go` |
| `ObjectCalls` | callers that share an object | the drivers' `ObjectService` |
| `Uploads` | callers of multipart uploads | the drivers' `MultipartService` |
| `Cleanup` | the clean-up that walks the pages of uploads and objects | `testkit/contract/artifacts.go` |
| `Registry` | `Register` and `Open` under the lock | `registry.go` |
| `ClientLife` | the life of clients: registration, Config, credentials, Open, calls, Close | `config.go`, `credential/*.go`, the factories |
| `MC*` | the instances TLC checks | |
| `WorkerPool_proofs`, `SliceParts_proofs`, `StreamWriter_proofs`, `TransferManager_proofs` | the TLAPS proofs about the module of that name | |
| `Drivers_proofs` | what each object call and each upload call of each driver does to the store: lemmas | |
| `ObjectCalls_proofs`, `Uploads_proofs` | the TLAPS proofs about the module of that name, from those lemmas | |
| `ClientLife_proofs` | the TLAPS proofs about `Registry` and `ClientLife` | |

**How they compose.** `WorkerPool` is shown to implement `PartBatch` (run
`WorkerPool`, property `ImplementsBatch`; theorem `Refinement`). `TransferManager`
models the call of `runWorkers` at the level of `PartBatch`, and the run
`ManagerCrash` checks that it never assumes more (`UsesBatch`): parts are
acknowledged in any order, an error needs a failed part or an expired deadline,
and a list without an error may be partial when the context was cancelled.
`SliceParts` and `WorkerPool` share the arithmetic of `PartPlan`. `ObjectCalls`,
`Uploads`, `Cleanup` and `ClientLife` each compose callers with `Client`, `Client`
with the ten drivers, and the drivers with `ObjectService`; `ClientLife` also
extends `Registry`.

### `WorkerPool`: state and actions

`parent` and `workCtx` are `ctx.Err()` of the caller's and of the derived
context; `todo` is what the dispatcher has still to send; `pc[w]` and `job[w]` are
where a worker is and its part; `resCh` and `errCh` are the buffered channels;
`main` is the calling goroutine; `parts`, `transferred`, `saved` and `outcome` are
the returned slice, the last progress report, the payload in the store, and what
the call returned. `stored` is the service.

* A send on the unbuffered `jobCh` is a rendezvous: `Dispatch(w)` needs an idle
  worker. Go's `select` picks any ready case, so `Dispatch` stays possible when
  `workCtx` is done, and `DispatchStops` is possible while a worker waits.
* An `UploadPart` takes two steps, `ServiceStores` and `UploadOk`; `UploadFails` may
  happen before or after the first, so an answer may be lost. An error is the
  service's own or that of `workCtx`.
* `Report` and `WorkerCancels` are two steps, as in the code: the error is queued
  before `cancel()`.
* `WaitFails` and `WaitPasses` are lines 332-342, including the fall-through for a
  context that is `Canceled`.
* `Collect` is one turn of the result loop, with the append, the progress report
  and the Save, whose error is ignored.

### `SliceParts`

One action per turn of the loop (`SkipPart`, `ReadPart`, `ShortBody`) and `Done`. A
byte is its position, so "the wrong bytes" can be said without contents. The
properties use a definition of their own of which part a byte belongs to
(`k \div partSize + 1`), not the offsets of the code.

### `TransferManager`: state and actions

Per caller: `pc`, the body, the context, the upload id, `parts`, `acked`, `failed`.
Shared: `uploads` (the service), `object` (the key), `store` (the payload), and
`faults`, what may still go wrong. An ETag stands for the bytes of its part, so
an object can be compared with a whole body. Actions are in program order:
`Begin`, `SinglePut`, `LoadResume`/`LoadNothing`, `Initiate`, `Slice`, `UploadPart`,
`BatchPasses`/`BatchFails`, `Collect`, `Complete`, and the three ways out:
`AbortBatch`+`ForgetBatch` after a failed batch, `UndoComplete` after a failed
Complete (no Delete there, as in the code), `Cleanup` after success. `Crash` ends a
call anywhere; store and service live on. `Recover` ends all outages.

The service is external: an upload is open, done or aborted, it holds parts, and
Complete accepts a non-empty list of parts that the open upload holds, whatever has
become of the caller's context: nothing in the interface (`manager.go:107-119`) says
that it is refused then, and the fake of the tests and Upyun's driver carry it out. So
a call that is cancelled between two parts may complete the upload with those it
has (line 340 and then 258), which is run `ManagerCancelTruncates`. Upload identifiers are reused when nobody can name the old upload any more, so a run
never ends for lack of identifiers; when none is free, Initiate fails.

### `StreamWriter`

`buf` is the length of the buffer, `drained` the number of bytes taken off its
front, `written` those of successful Writes; parts are (number, position,
length). Calls are broken into steps where the service is asked. A Writer
belongs to one goroutine (its documentation says so), so calls do not overlap.
An answer of Complete may be lost; whether the service's Abort works is
fixed per behaviour by `abortFails`.

### Drivers and the service

A driver keeps next to no state of its own, so a call is an operator, not an
action: `PutObject(c, s, r)` of `GcsDriver` is the set of outcomes the call can
have for client `c`, service and sessions `s` and request `r`. An outcome
(`Errors`) is the store afterwards, the code, whether the error is retryable, the
capability it names and the result. The operator follows the Go method: its
guards in their order, the requests it sends, and `mapError` of that driver applied
to whatever comes back. `mapError` is translated table by table, in the order in
which the code tries typed errors, API codes, contexts and HTTP status; the rows
kept are those the modelled situations reach.

The service (`ObjectService`) is external and is what the drivers use: buckets,
objects with bytes, metadata and content type, open uploads. A request is carried
out or refused; `Attempt` adds every way it can come back: a refusal of `Faults`
with nothing done, or one of `Lost` (a connection that resets, a deadline, a
cancelled context, an internal error) with the effect there or not. Each SDK
renders a situation as an error of its own (`SdkError` of each driver), and that is
where drivers differ. An entity tag is the content of the object, so that
preconditions can be compared with bytes; a key is its place in a listing; times
are half seconds, so that "below a second" exists.

The drivers with sessions keep them in `sess` of the same store. `UploadPart` and
`Complete` are two operators, `...Get` up to where the code lets go of the registry's
lock and `...Rest` from there on (in the drivers `...Send`, `...Locked`, `...Commit`,
`...Close`), and so is `Abort` on GCS; `Uploads` lets everything happen in between. For
GCS this is the gap between `uploads.get` or `uploads.take` and `sess.mu.Lock`:
`TakeUpload` is what the first half of Complete and Abort does to the registry. For Azure,
Qiniu and Upyun it is the gap between `loadSession` and the commit, for the drivers
without a registry the time before the request is sent. A writer of GCS has a context
of its own and keeps the first error the service gives it (`WriterFaults`, `Broken`);
a session out of the registry is still there for the call that has it. Upyun's goroutine behind
each call makes the effect of a cancelled call possible at a later time; in
`ObjectCalls` a Put that came back as a timeout or an internal error may be
carried out later (`LateArrives`), for every driver, since a request in the network
does the same.

### `ObjectCalls`

Writers load key 1 and save it with their mark added, under If-Match of what they
saw or If-None-Match `*` when nothing was there, and retry after an error; others
delete keys and copy. `acked` are the writers that were told success. Four of the
five properties quantify, in every reachable state, over a set of requests and all
their outcomes, so they also say what a call would do that no caller makes here.

### `Uploads`

UploadPart, Complete and Abort are two steps each, `PartBegin`/`PartEnd` (`cut` is a body
that fails half way), `CompleteBegin`/`CompleteEnd` and `AbortBegin`/`AbortEnd`, cut as
described above; `calls` is what each caller is in the middle of. A Complete lists the
parts that were acknowledged when it began. It is asked once more after any answer, so
there are two Completes of an upload at most, which may overlap with each other, with
parts and with an Abort; Abort is asked until one is acknowledged. `AbortEnd` takes every
outcome: an Abort that was carried out and whose answer is lost leaves `abort` at "tried".
A call whose answer says nothing definite may leave its request behind (`LeaveBehind`),
and the service carries it out at any later time (`LateArrives`); what it does to the
registry of the process is then left out, as the call has returned.

### `Cleanup`

The two paging loops with their early returns: page, abort one by one, page,
delete in batches. A late Put lands anywhere. `reported` is `t.Errorf`.

### `Registry` and `ClientLife`

`Register` is one step under the lock. `Open` is two: the look-up under the read lock,
and the Factory's Validate and Open after it. `OpenAnswers` resolves the credential
chain (first provider that succeeds; the environment may change before it), then
asks the driver. After that calls and `Close` come in any order.

### Mutants

A comment `MUTANT` marks an operator that is not part of the specification: it is
the action above which a plausible bug was put (a dropped guard, a missing
reset, a swapped order). For every property of every passing run `PROJECT.json`
names one; TLC finds the property violated when it takes the place of the
original.

## 3. Runs

| Run | Instance | States | Shows |
| --- | --- | --- | --- |
| `WorkerPool` | 2 workers, 3 parts (the last short), any payload of parts 1-4, contexts that may end any time | 29,310 | complete or cancelled, root cause, no lost error, no part twice, nothing running after the return, true payload, returns, dispatcher ends, implements `PartBatch` |
| `SliceParts` | sizes 1-7, part sizes 1, 2, 3, 9, bodies shorter and longer, every payload of parts 1-4 | 9,328 | right bytes, exact parts, short bodies refused, ends |
| `ManagerCrash` | 2 callers, one key, 2 parts, 2 upload ids, all faults of crashes, parts, answers, Complete, Abort, Delete, context | 903,194 | object whole unless cancelled, counted parts held, no orphan, `PartBatch` used as stated |
| `ManagerRetry` | 1 caller, a multipart and a small body, faults put, load, initiate, body, part, save | 1,602 | uploads go on succeeding |
| `StreamWriter` | parts of 3 bytes, Writes of 1, 2, 3, 7 bytes up to 8 in all, four thresholds | 2,066 | committed is written, no byte lost, upload released, commit rule, calls return |
| `ObjectCalls` | ten drivers in turn, 2 keys, 2 writers, 2 Saves, 1 deletion or copy, 1 request that comes late, faults `accessDenied`, `canceled` and `internalError`, batches of 1 | 27,836 | no acknowledged update lost, refusals did nothing, DeleteMany accounts for its keys, copies faithful, ranges exact |
| `Uploads` | ten drivers, 2 callers whose calls overlap, 2 uploads of one key or of two, 2 parts, 3 UploadParts of one upload or 2 of two, 2 Completes of each, 1 request that comes late, faults `accessDenied` and `canceled` | 956,429 | Complete publishes the parts it lists, "not found" without an Abort means published, an Abort is final for what begins after it |
| `Cleanup` | ten drivers, 4 keys (2 in a folder), every set of objects left, no, two or three uploads, pages and batches of 2, driver batches of 1, 1 late Put, faults `accessDenied` and `internalError` | 102,613 | silent means clean, the loops end |
| `ClientLife` | ten drivers, the right Configs and those with one deviation, two packages, one caller, 2 bucket calls, grants asked for -1 to 5 half seconds, a changing environment | 11,328 | first Factory serves, grants live no longer than asked, "unsupported" agrees with the report |

**Why the bounds are enough.** Three parts and two workers are the least with a
part waiting at the dispatcher, one in a worker that fails and one in a sibling,
and with a short last part; part 4 is a payload of a longer body. The slices go
from one part to seven with and without a rest. Two callers and two identifiers
give every race for one payload, an upload resumed by another caller and an
identifier used again; callers and identifiers are symmetric, and that run has no
liveness property. Two constraints keep it small: `CalmAfterRecovery` has
one caller at work once the outages are over, where less can happen than before, and
`OneReason` lets contexts end for one reason, cancellation or deadline, within a
behaviour; the theorems have neither. Seven bytes in one Write flush two parts and leave a rest;
8 bytes in all allow a flush in two different Writes. The proofs then remove the
bounds for the pool, the slices, the Manager, the Writer, the callers of an object and of
uploads, and the life of clients.

For the drivers: with two writers and two Saves, one of them reads before the Save of the
other or retries after it; one late request is enough to land behind an acknowledged
Save. Two uploads of one key meet in the blocks of Azure, and three UploadParts
are a part, its retry and another part. Two callers are an Abort between the two steps
of a Complete, a part between them, or two Completes at once; a third would repeat one
of these. The callers are symmetric, and so are the two keys: the constraint
`FirstKeyFirst` gives the first upload the first key. Faults stand for their class: every code of
`Refusals` is treated alike by the service, one of them is a refusal and one of
`Lost` has an effect without an answer; the tables of the drivers are translated for
all of them. `ObjectCalls` has a second one of `Lost`, `internalError`, as Azure's SDK
sends the request again after it and not after a cancelled context. With pages of
two and three uploads, two of one key, a page ends between the two; with four keys and
a folder in the middle a page ends before, in and after the folder. The larger batch
limits of the code (1000) are the constants `DeleteBatchLimit` and `CleanupBatchSize`;
at 1 every request for two keys is cut, at 2 every listing of three. One caller is
enough in `ClientLife` as clients share nothing but the registry, whose races are
proved for any number of callers.

`CHECK_DEADLOCK FALSE` is used where the behaviours of the model end because of a
bound or because the work is done: `SliceParts`, `Cleanup`, and `ObjectCalls`,
`Uploads` and `ClientLife`, whose callers have a number of calls. In the other models
the end of a call is a step of its own (`Finished`, `Spent`), so that a blocked
goroutine would show as a deadlock.

**Fairness.** `WorkerPool!FairSpec`: weak fairness of the dispatcher, of the caller
and of each worker, which is what the Go scheduler gives a goroutine that can
run. It includes the assumption that every `UploadPart` returns; the code sets
no timeout of its own (`PartUploadTimeout` is read nowhere), so without it nothing
ends. The end of the caller's context is not fair. `TransferManager!FairSpec`:
a call that was begun is carried on, outages end (`Recover`), and each body is
uploaded again and again (strong fairness of `Begin`: a caller that is idle
infinitely often). `SliceParts` and `StreamWriter`: the running call goes on, the
service answers with a result or an error. `Cleanup`: the loop is one
goroutine whose calls come back, so it keeps running (weak fairness of `Turn`).

**Conditions of the properties.** `WholeUnlessCanceled` is checked with callers that
all send the same body; with two bodies it is violated, as a payload is not tied to a
body. Of a call whose context was cancelled it says only that nothing but parts of
its body is published (run `ManagerCancelTruncates` shows that some may be missing). `RetrySucceeds` is checked for the outages after which the code cleans up;
with a failing Complete it is violated (run `ManagerStuckAfterComplete`). Crashes are
left out of that run as well: a crash can leave the same kind of stale payload.
Where a driver does not do what a property says, the property names it, and the
reason is in the code:

* `AckedUpdateNotLost`: the drivers that forward both preconditions of a Put. Azure,
  Huawei and Qiniu drop both, GCS If-Match, Volcengine If-None-Match.
* `NothingHalfDone`: a body that fails half way; GCS closes its writer, which
  publishes what was read (`gcs/driver.go:335-338`). And what Azure refuses, as its SDK
  asks again by itself (below): the first request may have done what the second
  is refused for.
* `CopyIsFaithful`: AWS sends metadata only under a directive of the caller, Qiniu and
  Upyun send none; GCS and Azure do not condition on an entity tag.
* `RangeIsExact`: the open range from byte 0 of MinIO, of which it returns one byte, and
  the range of byte 0 alone of Huawei, of which it returns the whole object (both are
  modelled so; see the disagreements below).
* `CompleteMatchesAcks`: Azure when two uploads share a key; GCS and Upyun when an
  UploadPart of the upload came to no definite answer. GCS and Upyun do not look at the
  list: there it says that every part acknowledged before the commit is published, once
  each and in order, be it in the list or not. That a Complete is
  not refused for what it says holds for the first one of an upload nobody has aborted.
* `NotFoundMeansPublished`: GCS, which drops the session before it closes the writer;
  and an upload somebody has called Abort for, as an Abort that was carried out and whose
  answer was lost leaves nothing to complete.
* `AbortIsFinal`: on the four drivers with a registry it is about Completes that begin
  after the Abort was acknowledged. One that has its session already
  publishes, and the model has that step. On the other six it is about every Complete.
* `SilentMeansClean`: objects in folders on Upyun, whose listing stays in one folder;
  uploads on GCS, Qiniu and Upyun, which drop the session only; and several uploads
  of one key, which the AWS token (a key marker alone) pages past.
* `GrantLifeBounded`: an upload token of Qiniu for less than a second is one of an
  hour; an upload grant of Upyun with an `expiration-override` lives as long as that says. `UnsupportedIsReported`: Upyun, and Qiniu without a domain.

### Disagreements with the documentation

Each of these three is a run that TLC finds violated, listed under `findings`.

* `ManagerStuckAfterComplete`: after a failed Complete the payload still names the
  aborted upload, and every later upload of the key fails.
* `FirstWriteWins`: Azure drops If-None-Match without a word, so two writers of a new
  key are both told that they won.
* `ManagerCancelTruncates`: an upload cancelled between two parts is completed with the
  parts it has and reported as a success; `manager.go:274-277` promises the full set.

Others, seen while modelling and not given a run. The model does what the code does in
each of the first three, and the property that meets it leaves it out by name:

* Ranges: MinIO answers the range from byte 0 to the end with one byte
  (`minio/driver.go:276`), and Huawei the range from byte 0 to byte 0 with the whole
  object, as its SDK takes a RangeEnd of 0 with a RangeStart of 0 for no range
  (`huawei/driver.go:299-304`); `request_object.go:70-76` promises an open end and an
  inclusive one.
* Complete of Upyun publishes every part the service has, whatever is in the list
  (`upyun/driver.go:865`), and that of GCS what is in the writer; `client.go:125-126` says
  "stitching the supplied parts".
* On GCS, Azure, Qiniu and Upyun an Abort that is acknowledged between the two steps of a
  Complete does not keep the object from being published (`azure/driver.go:784` and
  812, `qiniu/driver.go:694` and 719, `upyun/driver.go:853` and 865, `gcs/driver.go:780` and
  808); `client.go:129` says "cancels an in-flight upload".
* Manager: `runWorkers` saves nothing
  before all workers have ended (157-158 promise progress after each part), an
  upload is recorded with its first collected part, not when it is initiated
  (`docs/provider_roadmap.md:179`), a payload is resumed for any body
  (`docs/prd.md:673` asks for a fingerprint), and progress counts the short last part
  as a full one (`config.go:38-39`). `PartUploadTimeout` and `RateLimiter` are read
  nowhere.
* Writer: a total of exactly `PartSize` goes by multipart although it is within
  `SmallObjectThreshold` (`streamio/README.md:70`).
* After `Close` no driver answers `ErrInvalidArgument` (`client.go:24-25`, 53-55);
  Huawei's client panics. Registering twice gives `ErrAlreadyExists`, and the comment
  (`registry.go:40-43`) says `ErrInvalidArgument`. Credentials are read once, in Open,
  where `config.go` says lazily.
* A second Put under `*` gets `precondition_failed`, not `ErrAlreadyExists`
  (`docs/v1_polish_audit.md:78`).
* GCS: List skips keys when a delimiter is given; Copy under `*` and, as on Azure,
  with empty metadata keeps the source's; a bucket that is not empty is
  `already_exists`; Complete ignores its list of parts.
* MinIO: a cancelled call is a retryable timeout; List drops prefixes of more than
  one folder. AWS: a Copy without directive ignores its Metadata. Alibaba:
  DeleteMany reports no failures.
* Azure: the SDK's own retries are said to be off, with `MaxRetries` 0
  (`azure/factory.go:189-191` and 220-222), but the SDK takes 0 for its default of
  three and only a negative number for none. `Tries` models it: after an answer
  that can be retried (`SentAgain`) the request is sent once more, and one more stands
  for three. A Delete or a conditional Copy that was done and whose answer was an
  internal error then comes back as `not_found` or `precondition_failed`. A truncated list of uploads names no
  token; grants are reported for a SAS credential and refused; DeleteBucket deletes
  what is in it.
* Qiniu: a missing object is `internal` on Get; the bucket of a request is ignored; a
  failed batch is a nil error. Qiniu and Upyun: Abort leaves the upload at the
  service. Upyun: CreateBucket and download grants are refused though reported; an
  Initiate that was cancelled leaks its upload.
* S3 family: Abort of an unknown upload is `not_found`; a connection that resets is
  `internal` and not retryable.

## 4. Proofs

TLAPS proves the following for every value of the constants, under the named
assumptions of the modules (a finite, non-empty set of workers; positive sizes;
part numbers from 1), which TLC evaluates in the runs.

**`WorkerPool_proofs`.** Seven invariants (types, `OkMeansAllParts`,
`RootCauseReported`, `FailureReported`, `EachPartOnce`, `QuiescentReturn`,
`SnapshotIsStored`) and the refinement of `PartBatch`. Few of them are
inductive alone. `IInv` adds:
`PhaseInv` (which goroutines exist in each phase of the caller, so that "returned"
means everyone is gone); `ErrorInv` (errCh holds an error exactly when a worker
failed, and until then nobody has cancelled, so `workCtx` equals the caller's
context and the head of errCh is a cause of its own); `PlanInv` (every part is
still to send, held or acknowledged, and parts are given up only when `workCtx`
is done); `StoreInv` (acknowledged and saved parts are stored). With `PlanInv` the
completeness of the result follows when the workers are gone; with `ErrorInv`
the root cause follows. The refinement maps the phases of the caller to the
outcome of the batch and the failed workers to its flag.

**`SliceParts_proofs`.** Lemmas about the plan (`TotalBounds`, `PartFits`,
`ByteInPart`, `PlanByBytes`), then `IInv`: between two turns the reader stands at
the end of part `i` or of the body (`ReadInv`), and the specs are exactly those of
the parts up to `i` that are not in the payload (`SpecsInv`). From it `RightBytes`,
`ExactParts` and `ShortBodyRefused`.

**`StreamWriter_proofs`.** `IInv` says where the flags and the upload stand at each
place of a call (`FlowInv`) and that until the last part the parts are full, lie
end to end, and are followed by the buffer (`BytesInv`). From it all four
invariants of the run and the action property `CommitRule`.

**`TransferManager_proofs`.** `IInv` is the types and, for each caller, where its
locals stand in each phase (`CallInv`): an upload from Initiate on, nothing counted
before, no failure and a batch that is complete or cancelled from `collect` to
`complete`, and at `cleanup` an upload that is closed. That the last stays true while
others work is `NamedStaysClosed`: nobody reopens an upload that can be named. From
it the types, `NoOrphan` and `UsesBatch`, the last action by action: each step of
`uploadMultipart` is a step of `PartBatch` or a stutter. `CountedIsHeld` and
`WholeUnlessCanceled` are proved under `SameBody` (all callers send one body), which is
needed: an open upload then only gains parts (`HeldGrows`), and a list with all
numbers is the whole body.

**`Drivers_proofs`.** Lemmas, from the service up. The service:
what `SvcPut`, `SvcGet`, `SvcDelete`, `SvcCopy` and a batch may leave behind, for any
faults. Then for each driver: no row of its error tables says "ok", and none maps an
answer that was lost to a refusal (`AwsTables`, `GcsLostTables` and their like); from
that, the outcome of a call tells of the answer it came from (`Tells`), and what Put,
Get, Delete, DeleteMany and Copy do to the store. The second half has the four
drivers with tables and protocols of their own: the writer of GCS that publishes a
cut body, the second try of Azure, the batch of Qiniu, the goroutine of Upyun.
DeleteMany is a loop, and what is true after some of its turns is stated once for each
kind: `Batched` for the drivers that send batches (a failed key was not touched, every
other key of the batches is gone, no key outside them was touched) and `Keyed` for
GCS, Azure and Upyun, which delete key by key. `BatchNext` and `KeyedNext` carry them
over a turn, for any keys. The second needs that a fault is never taken for "not found"
(`GcsFaultFound` and its like): those drivers count a missing key as deleted.

**`ObjectCalls_proofs`.** For any keys, writers, bounds, faults and any of the ten drivers.
`Serves` is inductive: the client is one of its driver, the store keeps its objects
and its bucket, and what is on its way are Puts into that bucket. It gives the lemmas
about the drivers what they ask for in every state, and `NothingHalfDone`,
`RangeIsExact`, `CopyIsFaithful` and `DeleteManyAccounts` follow call by call.
`AckedUpdateNotLost` is not inductive: a Put on its way could take an acknowledged
mark away, or a writer could have seen an object without it. `AckInv` adds that every
pending Put is conditional, and that a Put conditioned on some bytes writes a superset
of them (`WritesBack`), so that whatever still arrives either fails or keeps every
mark. Both were model-checked on the instance of the run before they were proved.

**`Uploads_proofs`**, with the last part of `Drivers_proofs`, about the upload calls. For
any callers, keys, parts, bounds, faults and any of the ten drivers. Where an upload
lives differs: at the service (the S3 family), in a registry
of sessions in the process (GCS, Azure), or in both (Qiniu, Upyun, whose Abort forgets
the session and leaves the upload at the service). Two words cover the three cases:
a Complete *reaches* an upload when it gets past the driver, and the upload is *held*
when nothing that Complete needs is gone. `UploadCalls` says in these words what
Initiate and the second steps of the other calls may do to a store: Initiate begins one
upload, whose number is new, and leaves the others alone; a part changes nothing of what
uploads or objects there are; Complete and Abort leave every other upload alone, no
Complete but that of GCS takes an upload away without publishing the object, none answers
"not found" for one that is held, with the drivers that ask the service none succeeds for
one out of reach, and an Abort that is answered leaves the upload out of reach.
`AwsUploads`, `GcsUploads` and their like (in `Drivers_proofs`) prove it for each driver
from its definitions, for every fault; the second try of Azure and the goroutine of Upyun
are in there. `ClientGets` and `ClientTakes` are about the first steps, and
`LateRegistry` about a request that is carried out when its caller has left.
`UploadsInv` is the inductive invariant. Neither property is inductive: an aborted
upload might be opened again by an Initiate that gets its number, so every upload that
a caller knows has a number below the next one; a session might be of another object
than the caller thinks (`Placed`); for `NotFoundMeansPublished` an upload that was
asked to be completed must be held still, or the object be there (`Kept`); and a call
between its two steps must have left the upload as it found it (`InFlight`): an upload of
GCS is out of the registry then, and a Complete that began after an Abort was answered
gets that far only where the service is asked. `StepInv` carries all of this over a step
of any kind, and there is a lemma for each action. `AbortIsFinal` and
`NotFoundMeansPublished` follow from the invariant in a step.

**`ClientLife_proofs`.** The map of factories is exactly what `Register` said yes to
(`ToldIsKept`), and what an Open took from it stays told; `FirstFactoryServes`
follows for any packages, providers and callers (`RegistryInv`). The steps of
`ClientLife` are steps of the registry or leave it alone (`LifeImplementsRegistry`),
so the rule holds there as well. `LifeInv` says that whatever a caller has open is
what its driver's `Open` makes (a client per credential on Azure and GCS, a domain or
none on Qiniu), also after `Close`; without it a client could be any record and
nothing could be said of its grants. From it `GrantLifeBounded` for every duration
(`Lives` is any set of integers, in half seconds) and `UnsupportedIsReported`, both
driver by driver, for any Config and any faults.

The exemptions of the properties (section 3) are in the theorems as they are in the
runs: nothing is claimed of a driver that the property names.

**Only model-checked.**

* Liveness: `PoolReturns`, `DispatcherEnds`, `SliceEnds`, `RetrySucceeds`, `CallReturns`,
  `CleanupEnds`. Liveness under fairness is out of reach of the installed provers.
* A DeleteMany of more than two keys: `DeleteManyAccounts` asks for lists of one key and of
  two, and so does its theorem. The step from one batch or key to the next is proved
  for any list (`BatchNext`, `KeyedNext`); the induction over the list is not.
* `CompleteMatchesAcks` (`Uploads`): it is about what the bytes of parts are, in the
  service, in the writer of GCS and in the blocks of Azure, while Completes overlap and
  parts come late.
* `SilentMeansClean` (`Cleanup`): it is about whole passes over the pages of a listing.
  That no page skips what is behind its token rests on the order of keys as the drivers
  sort and cut them: for each of ten drivers a proof about the listing as a whole.

## 5. What is not modelled, and why

* `materializeBody` and its helpers: a stream of unknown size is read into memory or
  a file and counted; sequential, and its three boundaries are in reach of a test.
  The checks of Upload's arguments go with it.
* Middleware, which no driver calls; `httpx`, which builds an `http.Client` once; the
  examples, benchmarks and scripts; the tests themselves.
* `Client.As`, which hands out the SDK's client; version ids, conditions on times,
  tags, storage classes, ACLs and checksums, which the drivers pass through.
* Contents beyond what the properties compare, names, the wording of errors and their
  request ids, 64-bit overflow of sizes (a body of that size cannot be read), and the
  JSON of the payload (an unreadable payload is the fault `load`).
* What a signature is made of: a grant is its life and its refusals.
* Of the service: eventual consistency, and the expiry of uploads that nobody
  completes. A request is atomic there; that Upyun's own Complete or Azure's commit
  could be seen half done is not considered.
* The environment provider reads its variables one by one; one Resolve is taken to
  read them at one moment.

What could be added: the Manager's pool over a driver (`WorkerPool` with the operators
of `Uploads` in place of its service, where the order GCS asks for meets more than one
worker), and `Report.Require`.
