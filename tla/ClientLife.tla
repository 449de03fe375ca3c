------------------------------ MODULE ClientLife ------------------------------
(* The life of clients: packages register the Factory of one provider, a     *)
(* caller opens a client from a Config while the environment its credentials *)
(* come from changes, uses buckets and grants, and closes it.                *)
EXTENDS Client, Registry
LOCAL INSTANCE TLC

CONSTANTS Drivers,     \* the drivers under test
          Bucket,
          Configs(_),  \* the Configs callers of a driver come with
          Unknown,     \* a provider nobody registers
          Lives,       \* the lifetimes grants are asked for, in half seconds
          MaxBuckets   \* bound: bucket calls

ASSUME LifeAssumption == /\ Drivers \subseteq AllDrivers
                         /\ Providers = Drivers \cup {Unknown}
                         /\ Lives \subseteq Int
                         /\ MaxBuckets \in Nat

VARIABLES driver,  \* the driver of this process
          env,     \* the variables of the environment that are set
          cfg,     \* caller -> the Config of its Open
          conn,    \* caller -> its client
          store,   \* the service
          calls    \* bucket calls so far
vars == <<registryVars, driver, env, cfg, conn, store, calls>>

NoClient == [drv |-> "none"]
Init == /\ RegistryInit
        /\ driver \in Drivers
        /\ env = {}
        /\ cfg \in [Callers -> Configs(driver)]
        /\ conn = [q \in Callers |-> NoClient]
        /\ store = NewStore({Bucket})
        /\ calls = 0

(* pkg/uos/credential.  A provider is [kind, cred], a kind of nil, env or    *)
(* static; a credential is the scheme and the type of its payload.           *)
NotFound == [resolves |-> FALSE, scheme |-> "", payload |-> "nil"]
StaticResolve(p) == [resolves |-> TRUE, scheme |-> p.cred.scheme, payload |-> p.cred.payload]
EnvResolve ==                           \* the first complete pair of the two
  IF \E prefix \in {"OSC", "AWS"} : {<<prefix, "id">>, <<prefix, "secret">>} \subseteq env
  THEN [resolves |-> TRUE, scheme |-> "hmac", payload |-> "hmac"] ELSE NotFound
NewChain(ps) == SelectSeq(ps, LAMBDA p : p.kind # "nil")
ChainResolve(chain) ==
  LET results == [i \in DOMAIN chain |->
        IF chain[i].kind = "env" THEN EnvResolve ELSE StaticResolve(chain[i])]
      good == SelectSeq(results, LAMBDA x : x.resolves)
  IN IF good = <<>> THEN NotFound ELSE Head(good)

\* What the factory sees of a Config, its credential resolved now.
Seen(q) == [cfg[q] EXCEPT !.cred = ChainResolve(NewChain(@.chain)) @@ [given |-> @.given]]

(* Registry and Factory *)
FactoriesOf == [id : {driver, ""}, owner : Owners] \cup {None}
PackageInit(f) == /\ Register(f) \/ RegisterRefused(f)
                  /\ UNCHANGED <<driver, env, cfg, conn, store, calls>>
OpenLooksUp(q) == /\ Lookup(q, cfg[q].provider)
                  /\ UNCHANGED <<driver, env, cfg, conn, store, calls>>
OpenAnswers(q) ==
  \E o \in Opened(driver, Seen(q)) :
    /\ IF o.code = "ok" THEN OpenSucceeds(q) ELSE OpenFails(q)
    /\ conn' = IF o.code = "ok" THEN [conn EXCEPT ![q] = View(o.out, Bucket)] ELSE conn
    /\ UNCHANGED <<driver, env, cfg, store, calls>>

\* The environment is set up and torn down beside the callers.
SetEnv(prefix, var) ==
  /\ env' = (env \cup {<<prefix, var>>}) \ (IF <<prefix, var>> \in env THEN env ELSE {})
  /\ UNCHANGED <<registryVars, driver, cfg, conn, store, calls>>

(* Client *)
IsOpened(q) == conn[q] # NoClient
CloseClient(q) == /\ IsOpened(q)
                  /\ conn' = [conn EXCEPT ![q] = Close(@)]
                  /\ UNCHANGED <<registryVars, driver, env, cfg, store, calls>>

Named(name) == [Request EXCEPT !.name = name, !.bucket = name, !.key = 1]
BucketCall(q, name) ==
  /\ IsOpened(q) /\ calls < MaxBuckets
  /\ \E o \in CreateBucket(conn[q], store, Named(name))
              \cup DeleteBucket(conn[q], store, Named(name)) : store' = o.store
  /\ calls' = calls + 1
  /\ UNCHANGED <<registryVars, driver, env, cfg, conn>>

Next == \/ \E f \in FactoriesOf : PackageInit(f)
        \/ \E q \in Callers : \/ OpenLooksUp(q)
                              \/ asked[q] # None /\ OpenAnswers(q)
                              \/ CloseClient(q) \/ BucketCall(q, Bucket)
        \/ \E prefix \in {"OSC", "AWS"}, var \in {"id", "secret"} : SetEnv(prefix, var)

Spec == Init /\ [][Next]_vars
-----------------------------------------------------------------------------
Methods == {"GET", "PUT", "HEAD", "DELETE", "POST"}
Second == 2
SignRequest(expires, override, method, upload) ==
  [Named(Bucket) EXCEPT !.expires = expires, !.override = Second * override,
                        !.method = method, !.upload = upload]
SignRequests ==
  {SignRequest(life, override, method, upload) :
     life \in Lives, override \in Lives, method \in Methods, upload \in BOOLEAN}

\* A signed URL or grant is honoured no longer than it was asked for, counted
\* in whole seconds (request_signer.go:18-20), though every SDK turns a
\* duration into seconds, a deadline or a policy of its own.  An upload token
\* of Qiniu below a second is one of an hour; a form of Upyun that names its
\* deadline has that one.
LivesWithin(r, life, o) ==
  o.code = "ok" => r.expires > 0 /\ o.out.expires <= Max({Second, life})
GrantLifeBounded ==
  \A q \in Callers, r \in SignRequests : IsOpened(q) =>
    /\ \A o \in SignURL(conn[q], store, r) : LivesWithin(r, r.expires, o)
    /\ \A o \in IssueDirectGrant(conn[q], store, r) :
         \/ driver = "qiniu" /\ r.upload /\ r.expires < Second
         \/ LivesWithin(r, IF driver = "upyun" /\ r.override # 0
                           THEN r.override ELSE r.expires, o)

CallRequests == {Named(Bucket)} \cup
  {r \in SignRequests : r.expires \in {0, Second} /\ r.override = 0}

\* A call that answers "unsupported" names a capability the client does not
\* report as Supported (report.go:12-13, 23-24), for every credential and
\* driver option, before and after Close.  Upyun reports bucket.crud and grants
\* and refuses some, and Qiniu downloads need a domain.
UnsupportedIsReported ==
  \A q \in Callers, r \in CallRequests :
    IsOpened(q) /\ driver # "upyun" /\ (driver = "qiniu" => conn[q].signs) =>
      \A o \in UNION {CreateBucket(conn[q], store, r), DeleteBucket(conn[q], store, r),
                      StatBucket(conn[q], store, r), ListBuckets(conn[q], store, r),
                      GetObject(conn[q], store, r), ListUploads(conn[q], store, r),
                      SignURL(conn[q], store, r), IssueDirectGrant(conn[q], store, r)} :
        o.code = "unsupported" => o.cap \notin Supported(driver)
=============================================================================
