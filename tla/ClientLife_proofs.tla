-------------------------- MODULE ClientLife_proofs ---------------------------
(* The registry's register-once rule, for every set of providers, packages   *)
(* and callers, by itself and under the life of clients; and what a client's *)
(* grants and its report can be relied on for, driver by driver.             *)
EXTENDS ClientLife, TLAPS

-----------------------------------------------------------------------------
(* The registry *)

\* What the map holds for p, as the package that registered it knows it.
Entry(p) == [id |-> p, owner |-> factories[p]]

\* What the four variables hold.
RegistryTypeOK == /\ told \subseteq Factory
                  /\ asked \in [Callers -> Factory \cup {None}]
                  /\ served \in [Callers -> Factory \cup {None}]

\* The map holds what Register has said it holds, no more and no less; what an
\* Open took from it stays told, as nothing is ever unregistered.
ToldIsKept == told = {Entry(p) : p \in DOMAIN factories}

\* And so what Opens asked for and were served by is what was told.
TakenIsTold == \A q \in Callers : /\ asked[q] # None => asked[q] \in told
                                  /\ served[q] # None => served[q] \in told

\* The invariant of the registry.
RegistryInv == RegistryTypeOK /\ ToldIsKept /\ TakenIsTold

\* A fresh registry has told nobody and served nobody (NewRegistry,
\* registry.go:34-38).
LEMMA RegistryInitInv == RegistryInit => RegistryInv
  BY DEF RegistryInit, RegistryInv, RegistryTypeOK, ToldIsKept, TakenIsTold, Entry

\* Register adds an entry for an id that had none and leaves the others alone
\* (registry.go:62-72).
LEMMA RegisterKeeps ==
  ASSUME RegistryInv, NEW f \in Factory \cup {None}, Register(f)
  PROVE  RegistryInv'
<1>1. f \in Factory /\ f.id \notin DOMAIN factories
  BY DEF Register, RegisterCode
<1>2. f = [id |-> f.id, owner |-> f.owner]
  BY <1>1 DEF Factory
<1>3. DOMAIN factories' = DOMAIN factories \cup {f.id} /\ told' = told \cup {f}
  BY DEF Register
<1>4. Entry(f.id)' = f
  BY <1>2 DEF Register, Entry
<1>5. \A p \in DOMAIN factories : Entry(p)' = Entry(p)
  BY <1>1 DEF Register, Entry
<1>6. ToldIsKept'
  BY <1>3, <1>4, <1>5 DEF RegistryInv, ToldIsKept
<1>7. RegistryTypeOK' /\ TakenIsTold'
  BY <1>1 DEF Register, RegistryInv, RegistryTypeOK, TakenIsTold
<1> QED BY <1>6, <1>7 DEF RegistryInv

\* An Open changes neither the map nor what was told (registry.go:81-107).
LEMMA OpenKeeps ==
  ASSUME RegistryInv, NEW q \in Callers,
         \/ \E p \in Providers : Lookup(q, p)
         \/ OpenSucceeds(q)
         \/ OpenFails(q)
  PROVE  RegistryInv'
<1>1. CASE \E p \in Providers : Lookup(q, p)
  <2>1. PICK p \in Providers : Lookup(q, p)
    BY <1>1
  <2>2. p \in DOMAIN factories /\ asked' = [asked EXCEPT ![q] = Entry(p)]
    BY <2>1 DEF Lookup, OpenCode, Entry
  <2>3. Entry(p) \in told
    BY <2>2 DEF RegistryInv, ToldIsKept
  <2>4. UNCHANGED <<factories, told, served>>
    BY <2>1 DEF Lookup
  <2>5. RegistryTypeOK' /\ TakenIsTold'
    BY <2>2, <2>3, <2>4 DEF RegistryInv, RegistryTypeOK, TakenIsTold
  <2>6. ToldIsKept'
    BY <2>4 DEF RegistryInv, ToldIsKept, Entry
  <2> QED BY <2>5, <2>6 DEF RegistryInv
<1>2. CASE OpenSucceeds(q)
  BY <1>2 DEF OpenSucceeds, RegistryInv, RegistryTypeOK, ToldIsKept, TakenIsTold, Entry
<1>3. CASE OpenFails(q)
  BY <1>3 DEF OpenFails, RegistryInv, RegistryTypeOK, ToldIsKept, TakenIsTold, Entry
<1> QED BY <1>1, <1>2, <1>3

\* Every step of the registry keeps it.
LEMMA RegistryStep ==
  ASSUME RegistryInv, [RegistryNext]_registryVars
  PROVE  RegistryInv'
<1>1. CASE \E f \in Factory \cup {None} : Register(f)
  BY <1>1, RegisterKeeps
<1>2. CASE \E q \in Callers : \/ \E p \in Providers : Lookup(q, p)
                              \/ OpenSucceeds(q) \/ OpenFails(q)
  BY <1>2, OpenKeeps
<1>3. CASE UNCHANGED registryVars
  BY <1>3 DEF registryVars, RegistryInv, RegistryTypeOK, ToldIsKept, TakenIsTold, Entry
<1> QED BY <1>1, <1>2, <1>3 DEF RegistryNext, RegisterRefused

\* The invariant of the registry under every interleaving of Register and Open.
THEOREM RegistryInductive == RegistrySpec => []RegistryInv
BY RegistryInitInv, RegistryStep, PTL DEF RegistrySpec

\* One Factory per provider is told that it is the one, and every client of
\* that provider comes from it (registry.go:42-74), however many packages
\* bring a Factory and however their Register calls interleave with an Open.
THEOREM FirstServes == RegistrySpec => []FirstFactoryServes
<1>1. RegistryInv => FirstFactoryServes
  BY DEF RegistryInv, ToldIsKept, TakenIsTold, FirstFactoryServes, Entry
<1> QED BY <1>1, RegistryInductive, PTL

-----------------------------------------------------------------------------
(* The registry under the life of clients *)

\* Every step of a client's life is one of the registry's, or leaves it alone.
LEMMA LifeStepsRegistry ==
  ASSUME driver \in Drivers, RegistryInv, [Next]_vars
  PROVE  [RegistryNext]_registryVars
<1>1. ASSUME NEW f \in FactoriesOf, PackageInit(f)
      PROVE  RegistryNext
  <2>1. f \in Factory \cup {None}
    BY <1>1, LifeAssumption DEF FactoriesOf, Factory
  <2> QED BY <1>1, <2>1 DEF PackageInit, RegistryNext
<1>2. ASSUME NEW q \in Callers, OpenLooksUp(q)
      PROVE  RegistryNext
  <2> DEFINE p == cfg[q].provider
  <2>1. Lookup(q, p)
    BY <1>2 DEF OpenLooksUp
  <2>2. p # "" /\ p \in DOMAIN factories
    BY <2>1 DEF Lookup, OpenCode
  <2>3. Entry(p) \in Factory
    BY <2>2 DEF RegistryInv, RegistryTypeOK, ToldIsKept
  <2>4. p \in Providers
    BY <2>2, <2>3 DEF Entry, Factory
  <2> HIDE DEF p
  <2> QED BY <1>2, <2>1, <2>4 DEF RegistryNext
<1>3. ASSUME NEW q \in Callers, OpenAnswers(q)
      PROVE  RegistryNext
  BY <1>3 DEF OpenAnswers, RegistryNext
<1>4. ASSUME \/ \E q \in Callers : CloseClient(q) \/ BucketCall(q, Bucket)
             \/ \E prefix \in {"OSC", "AWS"}, var \in {"id", "secret"} : SetEnv(prefix, var)
             \/ UNCHANGED vars
      PROVE  UNCHANGED registryVars
  BY <1>4 DEF CloseClient, BucketCall, SetEnv, vars
<1> QED BY <1>1, <1>2, <1>3, <1>4 DEF Next

-----------------------------------------------------------------------------
(* The clients *)

\* What Open of a driver's Factory answers with is a client of that driver.
IsClientOf(d, client) == client.drv = d /\ "drv" \in DOMAIN client

\* Open of the AWS driver.
LEMMA AwsOpened ==
  ASSUME NEW k, NEW o \in Aws!Opened(k), o.code = "ok"
  PROVE  IsClientOf("aws", o.out)
<1>1. Aws!Validate(k) # "ok" => o.code # "ok"
  BY DEF Aws!Opened, Aws!Refuse, Aws!Error
<1>2. Aws!Validate(k) = "ok" => \/ o.code # "ok"
                              \/ IsClientOf("aws", o.out)
  BY DEF Aws!Opened, Aws!Ok, Aws!Refuse, Aws!Error, IsClientOf
<1> QED BY <1>1, <1>2

\* Open of the MinIO driver.
LEMMA MinioOpened ==
  ASSUME NEW k, NEW o \in Minio!Opened(k), o.code = "ok"
  PROVE  IsClientOf("minio", o.out)
<1>1. Minio!Validate(k) # "ok" => o.code # "ok"
  BY DEF Minio!Opened, Minio!Refuse, Minio!Error
<1>2. Minio!Validate(k) = "ok" => \/ o.code # "ok"
                              \/ IsClientOf("minio", o.out)
  BY DEF Minio!Opened, Minio!Ok, Minio!Refuse, Minio!Error, IsClientOf
<1> QED BY <1>1, <1>2

\* Open of the Alibaba driver.
LEMMA AlibabaOpened ==
  ASSUME NEW k, NEW o \in Alibaba!Opened(k), o.code = "ok"
  PROVE  IsClientOf("alibaba", o.out)
<1>1. Alibaba!Validate(k) # "ok" => o.code # "ok"
  BY DEF Alibaba!Opened, Alibaba!Refuse, Alibaba!Error
<1>2. Alibaba!Validate(k) = "ok" => \/ o.code # "ok"
                              \/ IsClientOf("alibaba", o.out)
  BY DEF Alibaba!Opened, Alibaba!Ok, Alibaba!Refuse, Alibaba!Error, IsClientOf
<1> QED BY <1>1, <1>2

\* Open of the Tencent driver.
LEMMA TencentOpened ==
  ASSUME NEW k, NEW o \in Tencent!Opened(k), o.code = "ok"
  PROVE  IsClientOf("tencent", o.out)
<1>1. Tencent!Validate(k) # "ok" => o.code # "ok"
  BY DEF Tencent!Opened, Tencent!Refuse, Tencent!Error
<1>2. Tencent!Validate(k) = "ok" => \/ o.code # "ok"
                              \/ IsClientOf("tencent", o.out)
  BY DEF Tencent!Opened, Tencent!Ok, Tencent!Refuse, Tencent!Error, IsClientOf
<1> QED BY <1>1, <1>2

\* Open of the Huawei driver.
LEMMA HuaweiOpened ==
  ASSUME NEW k, NEW o \in Huawei!Opened(k), o.code = "ok"
  PROVE  IsClientOf("huawei", o.out)
<1>1. Huawei!Validate(k) # "ok" => o.code # "ok"
  BY DEF Huawei!Opened, Huawei!Refuse, Huawei!Error
<1>2. Huawei!Validate(k) = "ok" => \/ o.code # "ok"
                              \/ IsClientOf("huawei", o.out)
  BY DEF Huawei!Opened, Huawei!Ok, Huawei!Refuse, Huawei!Error, IsClientOf
<1> QED BY <1>1, <1>2

\* Open of the Volcengine driver.
LEMMA VolcengineOpened ==
  ASSUME NEW k, NEW o \in Volcengine!Opened(k), o.code = "ok"
  PROVE  IsClientOf("volcengine", o.out)
<1>1. Volcengine!Validate(k) # "ok" => o.code # "ok"
  BY DEF Volcengine!Opened, Volcengine!Refuse, Volcengine!Error
<1>2. Volcengine!Validate(k) = "ok" => \/ o.code # "ok"
                              \/ IsClientOf("volcengine", o.out)
  BY DEF Volcengine!Opened, Volcengine!Ok, Volcengine!Refuse, Volcengine!Error, IsClientOf
<1> QED BY <1>1, <1>2

\* Open of the GCS driver.
LEMMA GcsOpened ==
  ASSUME NEW k, NEW o \in Gcs!Opened(k), o.code = "ok"
  PROVE  IsClientOf("gcs", o.out)
<1> DEFINE emulator == "EmulatorEndpoint" \in k.dc.fields /\ ~k.cred.given
           options == IF emulator THEN [ok |-> TRUE, signs |-> FALSE]
                      ELSE Gcs!BuildClientOptions(k.cred, k.dc.fields)
           project == "ProjectID" \in k.dc.fields
           client == [drv |-> "gcs", scheme |-> k.cred.scheme, signs |-> options.signs,
                      live |-> TRUE, project |-> project]
           opened == Gcs!Ok(Gcs!Nothing, client)
           bad == Gcs!Refuse(Gcs!Nothing, "invalid_argument")
           unknown == Gcs!Refuse(Gcs!Nothing, "unauthenticated")
<1>1. IsClientOf("gcs", opened.out)
  BY DEF Gcs!Ok, IsClientOf
<1>2. Gcs!Validate(k) # "ok" => o.code # "ok"
  BY DEF Gcs!Opened, Gcs!Refuse, Gcs!Error
<1>3. bad.code # "ok" /\ unknown.code # "ok"
  BY DEF Gcs!Refuse, Gcs!Error
<1>4. Gcs!Validate(k) = "ok" => o \in {bad} \/ o \in {unknown} \/ o \in {opened} \cup (IF emulator \/ k.cred.payload # "nil" THEN {} ELSE {bad})
  BY Zenon DEF Gcs!Opened
<1> HIDE DEF bad, unknown, opened
<1> QED BY <1>1, <1>2, <1>3, <1>4

\* Open of the Azure driver.
LEMMA AzureOpened ==
  ASSUME NEW k, NEW o \in Azure!Opened(k), o.code = "ok"
  PROVE  IsClientOf("azure", o.out)
<1> DEFINE bad == Azure!Refuse(Azure!Nothing, "invalid_argument")
<1>1. \A scheme, signs : /\ Azure!OpenedAs(scheme, signs).out.drv = "azure"
                         /\ "drv" \in DOMAIN Azure!OpenedAs(scheme, signs).out
  BY DEF Azure!OpenedAs, Azure!Ok
<1>2. bad.code # "ok" /\ Azure!Refuse(Azure!Nothing, "unauthenticated").code # "ok"
  BY DEF Azure!Refuse, Azure!Error
<1>3. Azure!Validate(k) # "ok" => o.code # "ok"
  BY DEF Azure!Opened, Azure!Refuse, Azure!Error
<1>4. \/ o = bad \/ o = Azure!Refuse(Azure!Nothing, "unauthenticated")
      \/ \E scheme, signs : o = Azure!OpenedAs(scheme, signs)
  <2> HIDE DEF bad
  <2>1. \/ o \in {Azure!Refuse(Azure!Nothing, "unauthenticated"), bad}
        \/ o \in {Azure!OpenedAs("shared_key", TRUE), Azure!Refuse(Azure!Nothing, "unauthenticated")}
        \/ o \in {Azure!OpenedAs("sas", FALSE)}
        \/ o \in {IF ok THEN Azure!OpenedAs("custom", TRUE) ELSE bad : ok \in Azure!ExtractTokenCredential(k.cred)}
    BY <1>3 DEF Azure!Opened, bad
  <2> QED BY <2>1
<1> QED BY <1>1, <1>2, <1>4 DEF IsClientOf

\* Open of the Qiniu driver.
LEMMA QiniuOpened ==
  ASSUME NEW k, NEW o \in Qiniu!Opened(k), o.code = "ok"
  PROVE  IsClientOf("qiniu", o.out)
<1> DEFINE region == k.region \/ "Region" \in k.dc.fields
           domain == "Domain" \in k.dc.fields
           client == [drv |-> "qiniu", scheme |-> k.cred.scheme, live |-> TRUE,
                      signs |-> domain, project |-> region]
           opened == Qiniu!Ok(Qiniu!Nothing, client)
           bad == Qiniu!Refuse(Qiniu!Nothing, "invalid_argument")
           unknown == Qiniu!Refuse(Qiniu!Nothing, "unauthenticated")
<1>2. Qiniu!Validate(k) # "ok" => o.code # "ok"
  BY DEF Qiniu!Opened, Qiniu!Refuse, Qiniu!Error
<1>3. bad.code # "ok" /\ unknown.code # "ok"
  BY DEF Qiniu!Refuse, Qiniu!Error
<1>4. Qiniu!Validate(k) = "ok" => o \in {bad} \/ o \in {unknown} \/ o \in {opened}
  BY Zenon DEF Qiniu!Opened
<1>1. IsClientOf("qiniu", opened.out)
  <2> HIDE DEF region, domain
  <2> QED BY DEF Qiniu!Ok, IsClientOf
<1> HIDE DEF bad, unknown, opened
<1> QED BY <1>1, <1>2, <1>3, <1>4

\* Open of the Upyun driver.
LEMMA UpyunOpened ==
  ASSUME NEW k, NEW o \in Upyun!Opened(k), o.code = "ok"
  PROVE  IsClientOf("upyun", o.out)
<1>1. Upyun!Validate(k) # "ok" => o.code # "ok"
  BY DEF Upyun!Opened, Upyun!Refuse, Upyun!Error
<1>2. Upyun!Validate(k) = "ok" => \/ o.code # "ok"
                              \/ IsClientOf("upyun", o.out)
  BY DEF Upyun!Opened, Upyun!Ok, Upyun!Refuse, Upyun!Error, IsClientOf
<1> QED BY <1>1, <1>2

\* A client that is closed is one of its driver still (Close of every driver).
LEMMA CloseKeeps ==
  ASSUME NEW d \in AllDrivers, NEW client, IsClientOf(d, client)
  PROVE  IsClientOf(d, Close(client))
<1>1. Close(client) \in {client, [client EXCEPT !.live = FALSE]}
  BY DEF Close, IsClientOf, AllDrivers, Aws!Close, Minio!Close, Alibaba!Close, Tencent!Close, Huawei!Close, Volcengine!Close, Gcs!Close, Azure!Close, Qiniu!Close, Upyun!Close
<1>2. IsClientOf(d, [client EXCEPT !.live = FALSE])
  BY DEF IsClientOf
<1> QED BY <1>1, <1>2

\* What Open answers with is a client of the driver whose Factory it asked.
LEMMA OpenedIsClient ==
  ASSUME NEW d \in AllDrivers, NEW k, NEW o \in Opened(d, k), o.code = "ok"
  PROVE  IsClientOf(d, o.out)
<1>1. CASE d = "aws"
  <2>1. o \in Aws!Opened(k)
    BY <1>1 DEF Opened
  <2> QED BY <1>1, <2>1, AwsOpened
<1>2. CASE d = "minio"
  <2>1. o \in Minio!Opened(k)
    BY <1>2 DEF Opened
  <2> QED BY <1>2, <2>1, MinioOpened
<1>3. CASE d = "alibaba"
  <2>1. o \in Alibaba!Opened(k)
    BY <1>3 DEF Opened
  <2> QED BY <1>3, <2>1, AlibabaOpened
<1>4. CASE d = "tencent"
  <2>1. o \in Tencent!Opened(k)
    BY <1>4 DEF Opened
  <2> QED BY <1>4, <2>1, TencentOpened
<1>5. CASE d = "huawei"
  <2>1. o \in Huawei!Opened(k)
    BY <1>5 DEF Opened
  <2> QED BY <1>5, <2>1, HuaweiOpened
<1>6. CASE d = "volcengine"
  <2>1. o \in Volcengine!Opened(k)
    BY <1>6 DEF Opened
  <2> QED BY <1>6, <2>1, VolcengineOpened
<1>7. CASE d = "gcs"
  <2>1. o \in Gcs!Opened(k)
    BY <1>7 DEF Opened
  <2> QED BY <1>7, <2>1, GcsOpened
<1>8. CASE d = "azure"
  <2>1. o \in Azure!Opened(k)
    BY <1>8 DEF Opened
  <2> QED BY <1>8, <2>1, AzureOpened
<1>9. CASE d = "qiniu"
  <2>1. o \in Qiniu!Opened(k)
    BY <1>9 DEF Opened
  <2> QED BY <1>9, <2>1, QiniuOpened
<1>10. CASE d = "upyun"
  <2>1. o \in Upyun!Opened(k)
    BY <1>10 DEF Opened
  <2> QED BY <1>10, <2>1, UpyunOpened
<1> QED BY <1>1, <1>2, <1>3, <1>4, <1>5, <1>6, <1>7, <1>8, <1>9, <1>10 DEF AllDrivers

\* Every client there is one of the driver of this process.
LifeInv == /\ driver \in Drivers
           /\ DOMAIN conn = Callers
           /\ \A q \in Callers : IsOpened(q) => IsClientOf(driver, conn[q])

\* Open, Close and the calls keep that.
LEMMA LifeStep ==
  ASSUME LifeInv, [Next]_vars
  PROVE  LifeInv'
<1>1. driver \in AllDrivers
  BY LifeAssumption DEF LifeInv
<1>2. ASSUME NEW q \in Callers, OpenAnswers(q)
      PROVE  LifeInv'
  <2>1. PICK o \in Opened(driver, Seen(q)) :
          conn' = IF o.code = "ok" THEN [conn EXCEPT ![q] = View(o.out, Bucket)] ELSE conn
    BY <1>2 DEF OpenAnswers
  <2>2. driver' = driver
    BY <1>2 DEF OpenAnswers
  <2>3. CASE o.code # "ok"
    BY <2>1, <2>2, <2>3 DEF LifeInv, IsOpened
  <2>4. CASE o.code = "ok"
    <3>1. IsClientOf(driver, o.out)
      BY <1>1, <2>4, OpenedIsClient
    <3>2. IsClientOf(driver, View(o.out, Bucket))
      BY <3>1 DEF IsClientOf, View
    <3>3. conn' = [conn EXCEPT ![q] = View(o.out, Bucket)]
      BY <2>1, <2>4
    <3> QED BY <2>2, <3>2, <3>3 DEF LifeInv, IsOpened
  <2> QED BY <2>3, <2>4
<1>3. ASSUME NEW q \in Callers, CloseClient(q)
      PROVE  LifeInv'
  <2>1. IsClientOf(driver, Close(conn[q]))
    BY <1>1, <1>3, CloseKeeps DEF LifeInv, CloseClient
  <2> QED BY <1>3, <2>1 DEF LifeInv, CloseClient, IsOpened
<1>4. ASSUME driver' = driver, conn' = conn
      PROVE  LifeInv'
  BY <1>4 DEF LifeInv, IsOpened
<1>5. ASSUME NEW f \in FactoriesOf, PackageInit(f)
      PROVE  LifeInv'
  BY <1>4, <1>5 DEF PackageInit
<1>6. ASSUME NEW q \in Callers, OpenLooksUp(q) \/ BucketCall(q, Bucket)
      PROVE  LifeInv'
  BY <1>4, <1>6 DEF OpenLooksUp, BucketCall
<1>7. ASSUME NEW prefix, NEW var, SetEnv(prefix, var)
      PROVE  LifeInv'
  BY <1>4, <1>7 DEF SetEnv
<1>8. CASE UNCHANGED vars
  BY <1>4, <1>8 DEF vars
<1> QED BY <1>2, <1>3, <1>5, <1>6, <1>7, <1>8 DEF Next

\* In every reachable state the clients are those of the one driver and the
\* registry holds what it told.
THEOREM LifeInductive == Spec => [](LifeInv /\ RegistryInv)
<1>1. Init => LifeInv /\ RegistryInv
  <2>1. Init => LifeInv
    BY DEF Init, LifeInv, IsOpened
  <2> QED BY <2>1, RegistryInitInv DEF Init
<1>2. LifeInv /\ RegistryInv /\ [Next]_vars => LifeInv' /\ RegistryInv'
  BY LifeStep, LifeStepsRegistry, RegistryStep DEF LifeInv
<1> QED BY <1>1, <1>2, PTL DEF Spec

\* The life of clients is one of the registry, whatever else happens in it:
\* packages register and callers open as registry.go:62-107 lets them.
THEOREM LifeImplementsRegistry == Spec => RegistrySpec
<1>1. Init => RegistryInit
  BY DEF Init
<1>2. LifeInv /\ RegistryInv /\ [Next]_vars => [RegistryNext]_registryVars
  BY LifeStepsRegistry DEF LifeInv
<1> QED BY <1>1, <1>2, LifeInductive, PTL DEF Spec, RegistrySpec

\* One Factory per provider is told that it is the one, and every client comes
\* from it (registry.go:42-74), while environments change and clients close.
THEOREM LifeFirstServes == Spec => []FirstFactoryServes
<1>1. RegistryInv => FirstFactoryServes
  BY DEF RegistryInv, ToldIsKept, TakenIsTold, FirstFactoryServes, Entry
<1> QED BY <1>1, LifeInductive, PTL

-----------------------------------------------------------------------------
(* Grants *)

\* The larger of a time and a second.
LEMMA LargerThanSecond ==
  ASSUME NEW e \in Int
  PROVE  Max({2, e}) = IF e >= 2 THEN e ELSE 2
<1>1. \E x \in {2, e} : \A y \in {2, e} : x >= y
  BY SMT
<1>2. Max({2, e}) \in {2, e} /\ \A y \in {2, e} : Max({2, e}) >= y
  BY <1>1, Zenon DEF Max
<1> QED BY <1>2

\* The whole seconds of a duration, and the larger of it and a second.
LEMMA WholeSeconds ==
  ASSUME NEW e \in Nat
  PROVE  /\ 2 * (e \div 2) \in Nat /\ 2 * (e \div 2) <= e
         /\ Max({2, e}) = IF e >= 2 THEN e ELSE 2
<1>1. Max({2, e}) = IF e >= 2 THEN e ELSE 2
  BY LargerThanSecond
<1> QED BY <1>1

\* What the AWS driver signs.
LEMMA AwsGrants ==
  ASSUME NEW client, NEW s, NEW r, r.expires \in Int,
         NEW o, o \in Aws!SignURL(client, s, r) \/ o \in Aws!IssueDirectGrant(client, s, r)
  PROVE  LivesWithin(r, r.expires, o)
<1> DEFINE signed == Aws!Ok(s, [method |-> r.method, expires |-> Aws!PresignLife(r.expires),
                                says |-> r.expires])
<1>1. signed.out.expires = 2 * (r.expires \div 2)
  BY DEF Aws!Ok, Aws!PresignLife
<1>2. \/ o \in {Aws!Refuse(s, "invalid_argument")}
      \/ o \in {Aws!Refuse(s, "internal")}
      \/ o \in {Aws!NewUnsupported(s, "signer.direct_grant")}
      \/ o \in {signed} /\ ~(r.expires <= 0)
  BY Zenon DEF Aws!SignURL, Aws!IssueDirectGrant
<1> HIDE DEF signed
<1>3. o.code # "ok" \/ (r.expires > 0 /\ o.out.expires = 2 * (r.expires \div 2))
  BY <1>1, <1>2 DEF Aws!Refuse, Aws!NewUnsupported, Aws!Error
<1> QED BY <1>3, WholeSeconds DEF LivesWithin, Second

\* What the MinIO driver signs.
LEMMA MinioGrants ==
  ASSUME NEW client, NEW s, NEW r, r.expires \in Int,
         NEW o, o \in Minio!SignURL(client, s, r) \/ o \in Minio!IssueDirectGrant(client, s, r)
  PROVE  LivesWithin(r, r.expires, o)
<1>1. o.code # "ok" \/ (r.expires > 0 /\ o.out.expires = 2 * (r.expires \div 2))
  BY DEF Minio!SignURL, Minio!IssueDirectGrant, Minio!Ok, Minio!Refuse, Minio!NewUnsupported,
         Minio!Error, Minio!PresignLife
<1> QED BY <1>1, WholeSeconds DEF LivesWithin, Second

\* What the Alibaba driver signs.
LEMMA AlibabaGrants ==
  ASSUME NEW client, NEW s, NEW r, r.expires \in Int,
         NEW o, o \in Alibaba!SignURL(client, s, r) \/ o \in Alibaba!IssueDirectGrant(client, s, r)
  PROVE  LivesWithin(r, r.expires, o)
<1>1. o.code # "ok" \/ (r.expires > 0 /\ o.out.expires = 2 * (r.expires \div 2))
  BY DEF Alibaba!SignURL, Alibaba!IssueDirectGrant, Alibaba!Ok, Alibaba!Refuse, Alibaba!NewUnsupported,
         Alibaba!Error, Alibaba!PresignLife
<1> QED BY <1>1, WholeSeconds DEF LivesWithin, Second

\* What the Tencent driver signs.
LEMMA TencentGrants ==
  ASSUME NEW client, NEW s, NEW r, r.expires \in Int,
         NEW o, o \in Tencent!SignURL(client, s, r) \/ o \in Tencent!IssueDirectGrant(client, s, r)
  PROVE  LivesWithin(r, r.expires, o)
<1> DEFINE signed == Tencent!Ok(s, [method |-> r.method, expires |-> Tencent!PresignLife(r.expires),
                                    says |-> r.expires])
<1>1. signed.out.expires = 2 * (r.expires \div 2)
  BY DEF Tencent!Ok, Tencent!PresignLife
<1>2. \/ o \in {Tencent!Refuse(s, "invalid_argument")}
      \/ o \in {Tencent!NewUnsupported(s, "signer.direct_grant")}
      \/ o \in {signed} /\ ~(r.expires <= 0)
  BY Zenon DEF Tencent!SignURL, Tencent!IssueDirectGrant, Tencent!BucketClient, Tencent!BucketURL
<1> HIDE DEF signed
<1>3. o.code # "ok" \/ (r.expires > 0 /\ o.out.expires = 2 * (r.expires \div 2))
  BY <1>1, <1>2 DEF Tencent!Refuse, Tencent!NewUnsupported, Tencent!Error
<1> QED BY <1>3, WholeSeconds DEF LivesWithin, Second

\* What the Huawei driver signs.
LEMMA HuaweiGrants ==
  ASSUME NEW client, NEW s, NEW r, r.expires \in Int,
         NEW o, o \in Huawei!SignURL(client, s, r) \/ o \in Huawei!IssueDirectGrant(client, s, r)
  PROVE  LivesWithin(r, r.expires, o)
<1> DEFINE life == 2 * (r.expires \div 2)
<1>1. o.code # "ok" \/ (r.expires > 0 /\ o.out.expires = Huawei!Max({2, Huawei!PresignLife(r.expires)}))
  BY DEF Huawei!SignURL, Huawei!IssueDirectGrant, Huawei!Ok, Huawei!Refuse, Huawei!NewUnsupported,
         Huawei!Error, Huawei!WithClient, Huawei!Panic
<1>2. Huawei!PresignLife(r.expires) = life
  BY DEF Huawei!PresignLife
<1>3. \A S : Huawei!Max(S) = Max(S)
  BY DEF Max, Huawei!Max
<1>a. CASE r.expires <= 0
  BY <1>1, <1>a DEF LivesWithin
<1> SUFFICES ASSUME r.expires > 0 PROVE LivesWithin(r, r.expires, o)
  BY <1>a
<1>4. life \in Nat /\ life <= r.expires
  BY WholeSeconds
<1>5. Max({2, life}) = IF life >= 2 THEN life ELSE 2
  <2> HIDE DEF life
  <2> QED BY <1>4, WholeSeconds
<1>6. Max({2, r.expires}) = IF r.expires >= 2 THEN r.expires ELSE 2
  BY WholeSeconds
<1> HIDE DEF life
<1> QED BY <1>1, <1>2, <1>3, <1>4, <1>5, <1>6 DEF LivesWithin, Second

\* What the Volcengine driver signs.
LEMMA VolcengineGrants ==
  ASSUME NEW client, NEW s, NEW r, r.expires \in Int,
         NEW o, o \in Volcengine!SignURL(client, s, r) \/ o \in Volcengine!IssueDirectGrant(client, s, r)
  PROVE  LivesWithin(r, r.expires, o)
<1> DEFINE life == 2 * (r.expires \div 2)
<1>1. o.code # "ok" \/ (r.expires > 0 /\ o.out.expires = Volcengine!Max({2, Volcengine!PresignLife(r.expires)}))
  BY DEF Volcengine!SignURL, Volcengine!IssueDirectGrant, Volcengine!Ok, Volcengine!Refuse, Volcengine!NewUnsupported,
         Volcengine!Error
<1>2. Volcengine!PresignLife(r.expires) = life
  BY DEF Volcengine!PresignLife
<1>3. \A S : Volcengine!Max(S) = Max(S)
  BY DEF Max, Volcengine!Max
<1>a. CASE r.expires <= 0
  BY <1>1, <1>a DEF LivesWithin
<1> SUFFICES ASSUME r.expires > 0 PROVE LivesWithin(r, r.expires, o)
  BY <1>a
<1>4. life \in Nat /\ life <= r.expires
  BY WholeSeconds
<1>5. Max({2, life}) = IF life >= 2 THEN life ELSE 2
  <2> HIDE DEF life
  <2> QED BY <1>4, WholeSeconds
<1>6. Max({2, r.expires}) = IF r.expires >= 2 THEN r.expires ELSE 2
  BY WholeSeconds
<1> HIDE DEF life
<1> QED BY <1>1, <1>2, <1>3, <1>4, <1>5, <1>6 DEF LivesWithin, Second

\* What the GCS driver signs.
LEMMA GcsGrants ==
  ASSUME NEW client, NEW s, NEW r, r.expires \in Int,
         NEW o, o \in Gcs!SignURL(client, s, r) \/ o \in Gcs!IssueDirectGrant(client, s, r)
  PROVE  LivesWithin(r, r.expires, o)
<1>1. o.code # "ok" \/ (r.expires > 0 /\ o.out.expires = r.expires)
  BY DEF Gcs!SignURL, Gcs!IssueDirectGrant, Gcs!Ok, Gcs!Refuse, Gcs!NewUnsupported, Gcs!Error
<1> QED BY <1>1, WholeSeconds DEF LivesWithin, Second

\* MapError of the Azure driver never says "ok".
LEMMA AzureNeverOk == \A s, e : Azure!MapError(s, e).code # "ok"
<1>1. /\ \A x : Azure!MapAzureErrorCode(x) # "ok"
      /\ \A x : Azure!MapHTTPStatus(x) # "ok"
      /\ \A x : Azure!MapContextErr(x) # "ok"
  BY DEF Azure!MapAzureErrorCode, Azure!MapHTTPStatus, Azure!MapContextErr, Azure!NoCode
<1> QED BY <1>1 DEF Azure!MapError, Azure!Error, Azure!Refuse

\* What is asked of the Azure service for a token comes back as it was sent.
LEMMA AzureSAS ==
  ASSUME NEW client, NEW s, NEW out, NEW o \in Azure!BuildSASURL(client, s, out)
  PROVE  o.code # "ok" \/ o.out = out
<1> DEFINE send(t) == Azure!Attempt(t, Azure!Done(t, out))
           sent == send(s) \cup UNION {send(a.store) : a \in Azure!SentAgain(send(s))}
<1>1. \/ o \in Azure!Ask(sent)
      \/ o = Azure!Ok(s, out)
      \/ \E code : o = Azure!Refuse(s, code) /\ code # "ok"
      \/ \E cap : o = Azure!NewUnsupported(s, cap)
  <2>1. \/ o \in Azure!Ask(sent)
        \/ o \in {Azure!Ok(s, out)}
        \/ o \in {Azure!Refuse(s, "unauthenticated")}
        \/ o \in {Azure!NewUnsupported(s, "signer.url_read")}
    BY DEF Azure!BuildSASURL, Azure!Tries
  <2> QED BY <2>1
<1>2. ASSUME NEW t, NEW a \in send(t)
      PROVE  a.sit = "ok" => a.out = out
  <2>1. Azure!Done(t, out).out = out
    BY DEF Azure!Done, Azure!Reply
  <2>2. \A st, f : f \in Faults => Azure!No(st, f).sit # "ok"
    BY ServiceAssumption DEF Azure!No, Azure!Reply, Refusals, Lost
  <2> QED BY <2>1, <2>2 DEF Azure!Attempt
<1>3. \A a \in sent : a.sit = "ok" => a.out = out
  <2>1. ASSUME NEW a \in sent
        PROVE  \E t : a \in send(t)
    <3> HIDE DEF send
    <3> QED OBVIOUS
  <2> HIDE DEF send, sent
  <2> QED BY <1>2, <2>1
<1> HIDE DEF sent
<1>4. ASSUME o \in Azure!Ask(sent)
      PROVE  o.code # "ok" \/ o.out = out
  <2>1. PICK a \in sent : o = Azure!Answer(a)
    BY <1>4 DEF Azure!Ask
  <2> QED BY <1>3, <2>1, AzureNeverOk DEF Azure!Answer, Azure!Ok
<1> QED BY <1>1, <1>4 DEF Azure!Ok, Azure!Refuse, Azure!NewUnsupported, Azure!Error

\* What the Azure driver signs.
LEMMA AzureGrants ==
  ASSUME NEW client, NEW s, NEW r, r.expires \in Int,
         NEW o, o \in Azure!SignURL(client, s, r) \/ o \in Azure!IssueDirectGrant(client, s, r)
  PROVE  LivesWithin(r, r.expires, o)
<1> DEFINE signed == [method |-> r.method, expires |-> r.expires, says |-> r.expires]
           granted == [method |-> IF r.upload THEN "PUT" ELSE "GET",
                       expires |-> r.expires, says |-> r.expires]
<1>1. \/ o = Azure!Refuse(s, "invalid_argument")
      \/ r.expires > 0 /\ o \in Azure!BuildSASURL(client, s, signed)
      \/ r.expires > 0 /\ o \in Azure!BuildSASURL(client, s, granted)
  BY DEF Azure!SignURL, Azure!IssueDirectGrant
<1>2. signed.expires = r.expires /\ granted.expires = r.expires
  OBVIOUS
<1> HIDE DEF signed, granted
<1>3. o.code # "ok" \/ (r.expires > 0 /\ o.out.expires = r.expires)
  BY <1>1, <1>2, AzureSAS DEF Azure!Refuse, Azure!Error
<1> QED BY <1>3, WholeSeconds DEF LivesWithin, Second

\* What the Qiniu driver signs; an upload token of less than a second is left
\* out.
LEMMA QiniuGrants ==
  ASSUME NEW client, NEW s, NEW r, r.expires \in Int,
         NEW o, \/ o \in Qiniu!SignURL(client, s, r)
                \/ /\ o \in Qiniu!IssueDirectGrant(client, s, r)
                   /\ ~(r.upload /\ r.expires < Second)
  PROVE  LivesWithin(r, r.expires, o)
<1>1. CASE o \in Qiniu!SignURL(client, s, r)
  <2>1. o.code # "ok" \/ (r.expires > 0 /\ o.out.expires = 2 * (r.expires \div 2))
    BY <1>1 DEF Qiniu!SignURL, Qiniu!Ok, Qiniu!Refuse, Qiniu!NewUnsupported, Qiniu!Error
  <2> QED BY <2>1, WholeSeconds DEF LivesWithin, Second
<1>2. CASE o \in Qiniu!IssueDirectGrant(client, s, r) /\ ~(r.upload /\ r.expires < Second)
  <2>1. \/ o.code # "ok"
        \/ r.expires > 0 /\ o.out.expires = 2 * (r.expires \div 2)
        \/ r.expires > 0 /\ r.upload /\ o.out.expires = Qiniu!PolicyLife(r.expires)
    BY <1>2 DEF Qiniu!IssueDirectGrant, Qiniu!Ok, Qiniu!Refuse, Qiniu!NewUnsupported, Qiniu!Error
  <2>2. ~(r.expires < 2) => Qiniu!PolicyLife(r.expires) = 2 * (r.expires \div 2)
    BY DEF Qiniu!PolicyLife
  <2> QED BY <1>2, <2>1, <2>2, WholeSeconds DEF LivesWithin, Second
<1> QED BY <1>1, <1>2

\* What the Upyun driver signs: a form may name a deadline of its own.
LEMMA UpyunGrants ==
  ASSUME NEW client, NEW s, NEW r, r.expires \in Int, r.override \in Int, NEW o
  PROVE  /\ o \in Upyun!SignURL(client, s, r) => LivesWithin(r, r.expires, o)
         /\ o \in Upyun!IssueDirectGrant(client, s, r) =>
              LivesWithin(r, IF r.override # 0 THEN r.override ELSE r.expires, o)
<1> DEFINE life == 2 * (r.expires \div 2)
           until == IF r.override # 0 THEN r.override ELSE life
           url == Upyun!Ok(s, [method |-> r.method, expires |-> life, says |-> life])
           form == Upyun!Ok(s, [method |-> "POST", expires |-> until, says |-> until])
<1>1. url.out.expires = life /\ form.out.expires = until
  BY DEF Upyun!Ok
<1>2. ASSUME o \in Upyun!SignURL(client, s, r)
      PROVE  LivesWithin(r, r.expires, o)
  <2>1. \/ o \in {Upyun!Refuse(s, "invalid_argument")}
        \/ o \in {Upyun!NewUnsupported(s, "signer.url_write")}
        \/ o \in {url} /\ ~(r.expires <= 0)
    BY <1>2, Zenon DEF Upyun!SignURL, Upyun!Within
  <2> HIDE DEF url
  <2>2. o.code # "ok" \/ (r.expires > 0 /\ o.out.expires = life)
    BY <1>1, <2>1 DEF Upyun!Refuse, Upyun!NewUnsupported, Upyun!Error
  <2> QED BY <2>2, WholeSeconds DEF LivesWithin, Second
<1>3. ASSUME o \in Upyun!IssueDirectGrant(client, s, r)
      PROVE  LivesWithin(r, IF r.override # 0 THEN r.override ELSE r.expires, o)
  <2>1. \/ o \in {Upyun!Refuse(s, "invalid_argument")}
        \/ o \in {Upyun!NewUnsupported(s, "signer.direct_grant")}
        \/ o \in {form} /\ ~(r.expires <= 0)
    BY <1>3, Zenon DEF Upyun!IssueDirectGrant, Upyun!IssueFormUpload, Upyun!Within
  <2> HIDE DEF form
  <2>2. o.code # "ok" \/ (r.expires > 0 /\ o.out.expires = until)
    BY <1>1, <2>1 DEF Upyun!Refuse, Upyun!NewUnsupported, Upyun!Error
  <2>3. CASE r.override # 0
    BY <2>2, <2>3, LargerThanSecond DEF LivesWithin, Second
  <2>4. CASE r.override = 0
    BY <2>2, <2>4, WholeSeconds DEF LivesWithin, Second
  <2> QED BY <2>3, <2>4
<1> QED BY <1>2, <1>3

\* A signed URL or grant is honoured no longer than it was asked for, counted
\* in whole seconds, by every driver (request_signer.go:18-20).
THEOREM LifeGrantsBounded == Spec => []GrantLifeBounded
<1>1. LifeInv => GrantLifeBounded
  <2> DEFINE granted(r, o) ==
               \/ driver = "qiniu" /\ r.upload /\ r.expires < Second
               \/ LivesWithin(r, IF driver = "upyun" /\ r.override # 0
                                 THEN r.override ELSE r.expires, o)
  <2> SUFFICES ASSUME LifeInv, NEW q \in Callers, NEW r \in SignRequests, IsOpened(q), NEW o
               PROVE  /\ o \in SignURL(conn[q], store, r) => LivesWithin(r, r.expires, o)
                      /\ o \in IssueDirectGrant(conn[q], store, r) => granted(r, o)
    BY Zenon DEF GrantLifeBounded
  <2> DEFINE client == conn[q]
  <2> SUFFICES /\ o \in SignURL(client, store, r) => LivesWithin(r, r.expires, o)
               /\ o \in IssueDirectGrant(client, store, r) => granted(r, o)
    OBVIOUS
  <2>1. r.expires \in Int /\ r.override \in Int
    <3>1. PICK life \in Lives, override \in Lives, method \in Methods, upload \in BOOLEAN :
            r = SignRequest(life, override, method, upload)
      BY DEF SignRequests
    <3>2. "expires" \in DOMAIN Named(Bucket) /\ "override" \in DOMAIN Named(Bucket)
      BY DEF Named, Request
    <3>3. r.expires = life /\ r.override = Second * override
      BY <3>1, <3>2 DEF SignRequest
    <3> QED BY <3>3, LifeAssumption DEF Second
  <2>2. driver \in AllDrivers /\ client.drv = driver
    BY LifeAssumption DEF LifeInv, IsClientOf
  <2> HIDE DEF client
  <2>4. CASE driver = "aws"
    <3>1. /\ SignURL(client, store, r) = Aws!SignURL(client, store, r)
          /\ IssueDirectGrant(client, store, r) = Aws!IssueDirectGrant(client, store, r)
      BY <2>2, <2>4 DEF SignURL, IssueDirectGrant
    <3> QED BY <2>1, <2>4, <3>1, AwsGrants
  <2>5. CASE driver = "minio"
    <3>1. /\ SignURL(client, store, r) = Minio!SignURL(client, store, r)
          /\ IssueDirectGrant(client, store, r) = Minio!IssueDirectGrant(client, store, r)
      BY <2>2, <2>5 DEF SignURL, IssueDirectGrant
    <3> QED BY <2>1, <2>5, <3>1, MinioGrants
  <2>6. CASE driver = "alibaba"
    <3>1. /\ SignURL(client, store, r) = Alibaba!SignURL(client, store, r)
          /\ IssueDirectGrant(client, store, r) = Alibaba!IssueDirectGrant(client, store, r)
      BY <2>2, <2>6 DEF SignURL, IssueDirectGrant
    <3> QED BY <2>1, <2>6, <3>1, AlibabaGrants
  <2>7. CASE driver = "tencent"
    <3>1. /\ SignURL(client, store, r) = Tencent!SignURL(client, store, r)
          /\ IssueDirectGrant(client, store, r) = Tencent!IssueDirectGrant(client, store, r)
      BY <2>2, <2>7 DEF SignURL, IssueDirectGrant
    <3> QED BY <2>1, <2>7, <3>1, TencentGrants
  <2>8. CASE driver = "huawei"
    <3>1. /\ SignURL(client, store, r) = Huawei!SignURL(client, store, r)
          /\ IssueDirectGrant(client, store, r) = Huawei!IssueDirectGrant(client, store, r)
      BY <2>2, <2>8 DEF SignURL, IssueDirectGrant
    <3> QED BY <2>1, <2>8, <3>1, HuaweiGrants
  <2>9. CASE driver = "volcengine"
    <3>1. /\ SignURL(client, store, r) = Volcengine!SignURL(client, store, r)
          /\ IssueDirectGrant(client, store, r) = Volcengine!IssueDirectGrant(client, store, r)
      BY <2>2, <2>9 DEF SignURL, IssueDirectGrant
    <3> QED BY <2>1, <2>9, <3>1, VolcengineGrants
  <2>10. CASE driver = "gcs"
    <3>1. /\ SignURL(client, store, r) = Gcs!SignURL(client, store, r)
          /\ IssueDirectGrant(client, store, r) = Gcs!IssueDirectGrant(client, store, r)
      BY <2>2, <2>10 DEF SignURL, IssueDirectGrant
    <3> QED BY <2>1, <2>10, <3>1, GcsGrants
  <2>11. CASE driver = "azure"
    <3>1. /\ SignURL(client, store, r) = Azure!SignURL(client, store, r)
          /\ IssueDirectGrant(client, store, r) = Azure!IssueDirectGrant(client, store, r)
      BY <2>2, <2>11 DEF SignURL, IssueDirectGrant
    <3> QED BY <2>1, <2>11, <3>1, AzureGrants
  <2>12. CASE driver = "qiniu"
    <3>1. /\ SignURL(client, store, r) = Qiniu!SignURL(client, store, r)
          /\ IssueDirectGrant(client, store, r) = Qiniu!IssueDirectGrant(client, store, r)
      BY <2>2, <2>12 DEF SignURL, IssueDirectGrant
    <3> QED BY <2>1, <2>12, <3>1, QiniuGrants
  <2>13. CASE driver = "upyun"
    <3>1. /\ SignURL(client, store, r) = Upyun!SignURL(client, store, r)
          /\ IssueDirectGrant(client, store, r) = Upyun!IssueDirectGrant(client, store, r)
      BY <2>2, <2>13 DEF SignURL, IssueDirectGrant
    <3> QED BY <2>1, <2>13, <3>1, UpyunGrants
  <2> QED BY <2>2, <2>4, <2>5, <2>6, <2>7, <2>8, <2>9, <2>10, <2>11, <2>12, <2>13 DEF AllDrivers
<1> QED BY <1>1, LifeInductive, PTL

-----------------------------------------------------------------------------
(* What is unsupported *)

\* Outcomes that name no capability.
Plain(outcomes) == \A o \in outcomes : o.cap = NoCap

\* Outcomes that are "unsupported" only for what the driver d does not report.
Reported(d, outcomes) ==
  \A o \in outcomes : o.code = "unsupported" => o.cap \notin Supported(d)

\* The calls of a client of the driver d are so.
CallsReported(d, c, s, r) ==
  /\ Reported(d, CreateBucket(c, s, r)) /\ Reported(d, DeleteBucket(c, s, r))
  /\ Reported(d, StatBucket(c, s, r)) /\ Reported(d, ListBuckets(c, s, r))
  /\ Reported(d, GetObject(c, s, r)) /\ Reported(d, ListUploads(c, s, r))
  /\ Reported(d, SignURL(c, s, r)) /\ Reported(d, IssueDirectGrant(c, s, r))

\* No driver reports the capability no error names.
LEMMA PlainIsReported ==
  ASSUME NEW d \in AllDrivers, NEW outcomes, Plain(outcomes)
  PROVE  Reported(d, outcomes)
<1>1. NoCap \notin Supported(d)
  <2>1. CASE d = "aws"
    BY <2>1 DEF Supported, NoCap, Aws!Supported
  <2>2. CASE d = "minio"
    BY <2>2 DEF Supported, NoCap, Minio!Supported
  <2>3. CASE d = "alibaba"
    BY <2>3 DEF Supported, NoCap, Alibaba!Supported
  <2>4. CASE d = "tencent"
    BY <2>4 DEF Supported, NoCap, Tencent!Supported
  <2>5. CASE d = "huawei"
    BY <2>5 DEF Supported, NoCap, Huawei!Supported
  <2>6. CASE d = "volcengine"
    BY <2>6 DEF Supported, NoCap, Volcengine!Supported
  <2>7. CASE d = "gcs"
    BY <2>7 DEF Supported, NoCap, Gcs!Supported
  <2>8. CASE d = "azure"
    BY <2>8 DEF Supported, NoCap, Azure!Supported
  <2>9. CASE d = "qiniu"
    BY <2>9 DEF Supported, NoCap, Qiniu!Supported
  <2>10. CASE d = "upyun"
    BY <2>10 DEF Supported, NoCap, Upyun!Supported
  <2> QED BY <2>1, <2>2, <2>3, <2>4, <2>5, <2>6, <2>7, <2>8, <2>9, <2>10 DEF AllDrivers
<1> QED BY <1>1 DEF Plain, Reported

\* What the AWS driver makes of an answer names no capability.
LEMMA AwsPlain ==
  ASSUME NEW s
  PROVE  /\ \A e : Aws!MapError(s, e).cap = NoCap
         /\ \A out : Aws!Ok(s, out).cap = NoCap
         /\ \A code : Aws!Refuse(s, code).cap = NoCap
BY DEF Aws!MapError, Aws!Ok, Aws!Refuse, Aws!Error, Aws!NoCap, NoCap

\* Nor do the outcomes of what it asks the service.
LEMMA AwsAsks ==
  ASSUME NEW answers, NEW s, NEW name
  PROVE  /\ Plain(Aws!Ask(s, name, answers))
         /\ Plain(Aws!AskHead(s, name, answers))
         /\ Plain(Aws!Rendered(answers, Aws!ServiceError))
BY AwsPlain DEF Plain, Aws!Ask, Aws!AskHead, Aws!Rendered

\* What the AWS driver does not support it does not report.
LEMMA AwsReports ==
  ASSUME NEW c, NEW s, NEW r, c.drv = "aws"
  PROVE  CallsReported("aws", c, s, r)
<1>1. /\ Supported("aws") = Aws!Supported /\ "aws" \in AllDrivers
      /\ \A outcomes : Plain(outcomes) => Reported("aws", outcomes)
  BY PlainIsReported DEF Supported, AllDrivers
<1>2. \A code : Plain({Aws!Refuse(s, code)})
  BY AwsPlain DEF Plain
<1>3. \A out : Plain({Aws!Ok(s, out)})
  BY AwsPlain DEF Plain
<1>4. \A cap : cap \notin Aws!Supported => Reported("aws", {Aws!NewUnsupported(s, cap)})
  BY <1>1 DEF Reported, Aws!NewUnsupported, Aws!Error
<1>6. Reported("aws", CreateBucket(c, s, r))
  <2>1. CreateBucket(c, s, r) = Aws!CreateBucket(c, s, r)
    BY DEF CreateBucket
  <2>2. Plain(Aws!CreateBucket(c, s, r))
    BY <1>2, <1>3, AwsAsks, Zenon DEF Aws!CreateBucket
  <2> QED BY <1>1, <2>1, <2>2
<1>7. Reported("aws", DeleteBucket(c, s, r))
  <2>1. DeleteBucket(c, s, r) = Aws!DeleteBucket(c, s, r)
    BY DEF DeleteBucket
  <2>2. Plain(Aws!DeleteBucket(c, s, r))
    BY <1>2, <1>3, AwsAsks, Zenon DEF Aws!DeleteBucket
  <2> QED BY <1>1, <2>1, <2>2
<1>8. Reported("aws", StatBucket(c, s, r))
  <2>1. StatBucket(c, s, r) = Aws!StatBucket(c, s, r)
    BY DEF StatBucket
  <2>2. Plain(Aws!StatBucket(c, s, r))
    BY <1>2, <1>3, AwsAsks, Zenon DEF Aws!StatBucket
  <2> QED BY <1>1, <2>1, <2>2
<1>9. Reported("aws", ListBuckets(c, s, r))
  <2>1. ListBuckets(c, s, r) = Aws!ListBuckets(c, s, r)
    BY DEF ListBuckets
  <2>2. Plain(Aws!ListBuckets(c, s, r))
    BY <1>2, <1>3, AwsAsks, Zenon DEF Aws!ListBuckets
  <2> QED BY <1>1, <2>1, <2>2
<1>10. Reported("aws", GetObject(c, s, r))
  <2>1. GetObject(c, s, r) = Aws!GetObject(c, s, r)
    BY DEF GetObject
  <2>2. Plain(Aws!GetObject(c, s, r))
    BY <1>2, <1>3, AwsAsks, Zenon DEF Aws!GetObject
  <2> QED BY <1>1, <2>1, <2>2
<1>11. Reported("aws", ListUploads(c, s, r))
  <2>1. ListUploads(c, s, r) = Aws!ListUploads(c, s, r)
    BY DEF ListUploads
  <2>2. ASSUME NEW o \in Aws!ListUploads(c, s, r)
        PROVE  o.cap = NoCap
    <3>1. \E answers : \E p \in Aws!Ask(s, r.bucket, answers) :
            \/ o = p
            \/ \E out : o = Aws!Ok(p.store, out)
      BY DEF Aws!ListUploads
    <3> QED BY <3>1, AwsPlain, AwsAsks DEF Plain
  <2> QED BY <1>1, <2>1, <2>2 DEF Plain
<1>12. Reported("aws", SignURL(c, s, r))
  <2>1. SignURL(c, s, r) = Aws!SignURL(c, s, r)
    BY DEF SignURL
  <2>2. Plain(Aws!SignURL(c, s, r))
    BY <1>2, <1>3, AwsAsks, Zenon DEF Aws!SignURL
  <2> QED BY <1>1, <2>1, <2>2
<1>13. Reported("aws", IssueDirectGrant(c, s, r))
  <2>1. IssueDirectGrant(c, s, r) = Aws!IssueDirectGrant(c, s, r)
    BY DEF IssueDirectGrant
  <2>2. "signer.direct_grant" \notin Aws!Supported
    BY DEF Aws!Supported
  <2> QED BY <1>4, <2>1, <2>2, Zenon DEF Aws!IssueDirectGrant
<1> QED BY <1>6, <1>7, <1>8, <1>9, <1>10, <1>11, <1>12, <1>13 DEF CallsReported

\* What the MinIO driver makes of an answer names no capability.
LEMMA MinioPlain ==
  ASSUME NEW s
  PROVE  /\ \A e : Minio!MapError(s, e).cap = NoCap
         /\ \A out : Minio!Ok(s, out).cap = NoCap
         /\ \A code : Minio!Refuse(s, code).cap = NoCap
BY DEF Minio!MapError, Minio!Ok, Minio!Refuse, Minio!Error, Minio!NoCap, NoCap

\* Nor do the outcomes of what it asks the service.
LEMMA MinioAsks ==
  ASSUME NEW answers
  PROVE  /\ Plain(Minio!Ask(answers))
         /\ Plain(Minio!AskHead(answers))
BY MinioPlain DEF Plain, Minio!Ask, Minio!AskHead, Minio!Rendered

\* What the MinIO driver does not support it does not report.
LEMMA MinioReports ==
  ASSUME NEW c, NEW s, NEW r, c.drv = "minio"
  PROVE  CallsReported("minio", c, s, r)
<1>1. /\ Supported("minio") = Minio!Supported /\ "minio" \in AllDrivers
      /\ \A outcomes : Plain(outcomes) => Reported("minio", outcomes)
  BY PlainIsReported DEF Supported, AllDrivers
<1>2. \A code : Plain({Minio!Refuse(s, code)})
  BY MinioPlain DEF Plain
<1>3. \A out : Plain({Minio!Ok(s, out)})
  BY MinioPlain DEF Plain
<1>4. \A cap : cap \notin Minio!Supported => Reported("minio", {Minio!NewUnsupported(s, cap)})
  BY <1>1 DEF Reported, Minio!NewUnsupported, Minio!Error
<1>6. Reported("minio", CreateBucket(c, s, r))
  <2>1. CreateBucket(c, s, r) = Minio!CreateBucket(c, s, r)
    BY DEF CreateBucket
  <2>2. Plain(Minio!CreateBucket(c, s, r))
    BY <1>2, <1>3, MinioAsks, Zenon DEF Minio!CreateBucket
  <2> QED BY <1>1, <2>1, <2>2
<1>7. Reported("minio", DeleteBucket(c, s, r))
  <2>1. DeleteBucket(c, s, r) = Minio!DeleteBucket(c, s, r)
    BY DEF DeleteBucket
  <2>2. Plain(Minio!DeleteBucket(c, s, r))
    BY <1>2, <1>3, MinioAsks, Zenon DEF Minio!DeleteBucket
  <2> QED BY <1>1, <2>1, <2>2
<1>8. Reported("minio", StatBucket(c, s, r))
  <2>1. StatBucket(c, s, r) = Minio!StatBucket(c, s, r)
    BY DEF StatBucket
  <2>2. Plain(Minio!StatBucket(c, s, r))
    BY <1>2, <1>3, MinioAsks, Zenon DEF Minio!StatBucket
  <2> QED BY <1>1, <2>1, <2>2
<1>9. Reported("minio", ListBuckets(c, s, r))
  <2>1. ListBuckets(c, s, r) = Minio!ListBuckets(c, s, r)
    BY DEF ListBuckets
  <2>2. Plain(Minio!ListBuckets(c, s, r))
    BY <1>2, <1>3, MinioAsks, Zenon DEF Minio!ListBuckets
  <2> QED BY <1>1, <2>1, <2>2
<1>10. Reported("minio", GetObject(c, s, r))
  <2>1. GetObject(c, s, r) = Minio!GetObject(c, s, r)
    BY DEF GetObject
  <2>2. Plain(Minio!GetObject(c, s, r))
    BY <1>2, <1>3, MinioAsks, Zenon DEF Minio!GetObject
  <2> QED BY <1>1, <2>1, <2>2
<1>11. Reported("minio", ListUploads(c, s, r))
  <2>1. ListUploads(c, s, r) = Minio!ListUploads(c, s, r)
    BY DEF ListUploads
  <2>2. ASSUME NEW o \in Minio!ListUploads(c, s, r)
        PROVE  o.cap = NoCap
    <3> DEFINE max == IF r.max <= 0 THEN 1000 ELSE r.max
               answers == Minio!SvcListUploads(s, Minio!PickBucket(c, r), r.token, 0, max)
    <3>1. \E p \in Minio!Ask(answers) :
            \/ o = p
            \/ \E out : o = Minio!Ok(p.store, out)
      <4>1. Minio!ListUploads(c, s, r) =
              {IF o1.code = "ok"
               THEN Minio!Ok(o1.store, [ids |-> o1.out.ids, token |-> o1.out.key,
                                        truncated |-> o1.out.key # 0])
               ELSE o1 : o1 \in Minio!Ask(answers)}
        BY DEF Minio!ListUploads
      <4> HIDE DEF answers
      <4> QED BY <4>1
    <3> HIDE DEF answers
    <3> QED BY <3>1, MinioPlain, MinioAsks DEF Plain
  <2> QED BY <1>1, <2>1, <2>2 DEF Plain
<1>12. Reported("minio", SignURL(c, s, r))
  <2>1. SignURL(c, s, r) = Minio!SignURL(c, s, r)
    BY DEF SignURL
  <2>2. Plain(Minio!SignURL(c, s, r))
    BY <1>2, <1>3, MinioAsks, Zenon DEF Minio!SignURL
  <2> QED BY <1>1, <2>1, <2>2
<1>13. Reported("minio", IssueDirectGrant(c, s, r))
  <2>1. IssueDirectGrant(c, s, r) = Minio!IssueDirectGrant(c, s, r)
    BY DEF IssueDirectGrant
  <2>2. "signer.direct_grant" \notin Minio!Supported
    BY DEF Minio!Supported
  <2> QED BY <1>4, <2>1, <2>2, Zenon DEF Minio!IssueDirectGrant
<1> QED BY <1>6, <1>7, <1>8, <1>9, <1>10, <1>11, <1>12, <1>13 DEF CallsReported

\* What the Alibaba driver makes of an answer names no capability.
LEMMA AlibabaPlain ==
  ASSUME NEW s
  PROVE  /\ \A e : Alibaba!MapError(s, e).cap = NoCap
         /\ \A out : Alibaba!Ok(s, out).cap = NoCap
         /\ \A code : Alibaba!Refuse(s, code).cap = NoCap
BY DEF Alibaba!MapError, Alibaba!Ok, Alibaba!Refuse, Alibaba!Error, Alibaba!NoCap, NoCap

\* Nor do the outcomes of what it asks the service.
LEMMA AlibabaAsks ==
  ASSUME NEW answers
  PROVE  Plain(Alibaba!Ask(answers))
BY AlibabaPlain DEF Plain, Alibaba!Ask, Alibaba!Answer

\* What the Alibaba driver does not support it does not report.
LEMMA AlibabaReports ==
  ASSUME NEW c, NEW s, NEW r, c.drv = "alibaba"
  PROVE  CallsReported("alibaba", c, s, r)
<1>1. /\ Supported("alibaba") = Alibaba!Supported /\ "alibaba" \in AllDrivers
      /\ \A outcomes : Plain(outcomes) => Reported("alibaba", outcomes)
  BY PlainIsReported DEF Supported, AllDrivers
<1>2. \A code : Plain({Alibaba!Refuse(s, code)})
  BY AlibabaPlain DEF Plain
<1>3. \A out : Plain({Alibaba!Ok(s, out)})
  BY AlibabaPlain DEF Plain
<1>4. \A cap : cap \notin Alibaba!Supported => Reported("alibaba", {Alibaba!NewUnsupported(s, cap)})
  BY <1>1 DEF Reported, Alibaba!NewUnsupported, Alibaba!Error
<1>6. Reported("alibaba", CreateBucket(c, s, r))
  <2>1. CreateBucket(c, s, r) = Alibaba!CreateBucket(c, s, r)
    BY DEF CreateBucket
  <2>2. Plain(Alibaba!CreateBucket(c, s, r))
    BY <1>2, <1>3, AlibabaAsks, Zenon DEF Alibaba!CreateBucket
  <2> QED BY <1>1, <2>1, <2>2
<1>7. Reported("alibaba", DeleteBucket(c, s, r))
  <2>1. DeleteBucket(c, s, r) = Alibaba!DeleteBucket(c, s, r)
    BY DEF DeleteBucket
  <2>2. Plain(Alibaba!DeleteBucket(c, s, r))
    BY <1>2, <1>3, AlibabaAsks, Zenon DEF Alibaba!DeleteBucket
  <2> QED BY <1>1, <2>1, <2>2
<1>8. Reported("alibaba", StatBucket(c, s, r))
  <2>1. StatBucket(c, s, r) = Alibaba!StatBucket(c, s, r)
    BY DEF StatBucket
  <2>2. Plain(Alibaba!StatBucket(c, s, r))
    BY <1>2, <1>3, AlibabaAsks, Zenon DEF Alibaba!StatBucket
  <2> QED BY <1>1, <2>1, <2>2
<1>9. Reported("alibaba", ListBuckets(c, s, r))
  <2>1. ListBuckets(c, s, r) = Alibaba!ListBuckets(c, s, r)
    BY DEF ListBuckets
  <2>2. Plain(Alibaba!ListBuckets(c, s, r))
    BY <1>2, <1>3, AlibabaAsks, Zenon DEF Alibaba!ListBuckets
  <2> QED BY <1>1, <2>1, <2>2
<1>10. Reported("alibaba", GetObject(c, s, r))
  <2>1. GetObject(c, s, r) = Alibaba!GetObject(c, s, r)
    BY DEF GetObject
  <2>2. Plain(Alibaba!GetObject(c, s, r))
    BY <1>2, <1>3, AlibabaAsks, Zenon DEF Alibaba!GetObject
  <2> QED BY <1>1, <2>1, <2>2
<1>11. Reported("alibaba", ListUploads(c, s, r))
  <2>1. ListUploads(c, s, r) = Alibaba!ListUploads(c, s, r)
    BY DEF ListUploads
  <2>2. ASSUME NEW o \in Alibaba!ListUploads(c, s, r)
        PROVE  o.cap = NoCap
    <3>1. \E answers : \E p \in Alibaba!Ask(answers) :
            \/ o = p
            \/ \E out : o = Alibaba!Ok(p.store, out)
      BY DEF Alibaba!ListUploads
    <3> QED BY <3>1, AlibabaPlain, AlibabaAsks DEF Plain
  <2> QED BY <1>1, <2>1, <2>2 DEF Plain
<1>12. Reported("alibaba", SignURL(c, s, r))
  <2>1. SignURL(c, s, r) = Alibaba!SignURL(c, s, r)
    BY DEF SignURL
  <2>2. Plain(Alibaba!SignURL(c, s, r))
    BY <1>2, <1>3, AlibabaAsks, Zenon DEF Alibaba!SignURL
  <2> QED BY <1>1, <2>1, <2>2
<1>13. Reported("alibaba", IssueDirectGrant(c, s, r))
  <2>1. IssueDirectGrant(c, s, r) = Alibaba!IssueDirectGrant(c, s, r)
    BY DEF IssueDirectGrant
  <2>2. "signer.direct_grant" \notin Alibaba!Supported
    BY DEF Alibaba!Supported
  <2> QED BY <1>4, <2>1, <2>2, Zenon DEF Alibaba!IssueDirectGrant
<1> QED BY <1>6, <1>7, <1>8, <1>9, <1>10, <1>11, <1>12, <1>13 DEF CallsReported

\* What the Tencent driver makes of an answer names no capability.
LEMMA TencentPlain ==
  ASSUME NEW s
  PROVE  /\ \A e : Tencent!MapError(s, e).cap = NoCap
         /\ \A out : Tencent!Ok(s, out).cap = NoCap
         /\ \A code : Tencent!Refuse(s, code).cap = NoCap
BY DEF Tencent!MapError, Tencent!Ok, Tencent!Refuse, Tencent!Error, Tencent!NoCap, NoCap

\* Nor do the outcomes of what it asks the service.
LEMMA TencentAsks ==
  ASSUME NEW answers
  PROVE  /\ Plain(Tencent!Ask(answers))
         /\ Plain({Tencent!HeadAnswer(a) : a \in answers})
BY TencentPlain DEF Plain, Tencent!Ask, Tencent!Answer, Tencent!HeadAnswer

\* What the Tencent driver does not support it does not report.
LEMMA TencentReports ==
  ASSUME NEW c, NEW s, NEW r, c.drv = "tencent"
  PROVE  CallsReported("tencent", c, s, r)
<1>1. /\ Supported("tencent") = Tencent!Supported /\ "tencent" \in AllDrivers
      /\ \A outcomes : Plain(outcomes) => Reported("tencent", outcomes)
  BY PlainIsReported DEF Supported, AllDrivers
<1>2. \A code : Plain({Tencent!Refuse(s, code)})
  BY TencentPlain DEF Plain
<1>3. \A out : Plain({Tencent!Ok(s, out)})
  BY TencentPlain DEF Plain
<1>4. \A cap : cap \notin Tencent!Supported => Reported("tencent", {Tencent!NewUnsupported(s, cap)})
  BY <1>1 DEF Reported, Tencent!NewUnsupported, Tencent!Error
<1>6. Reported("tencent", CreateBucket(c, s, r))
  <2>1. CreateBucket(c, s, r) = Tencent!CreateBucket(c, s, r)
    BY DEF CreateBucket
  <2>2. Plain(Tencent!CreateBucket(c, s, r))
    BY <1>2, <1>3, TencentAsks, Zenon DEF Tencent!CreateBucket, Tencent!BucketClient
  <2> QED BY <1>1, <2>1, <2>2
<1>7. Reported("tencent", DeleteBucket(c, s, r))
  <2>1. DeleteBucket(c, s, r) = Tencent!DeleteBucket(c, s, r)
    BY DEF DeleteBucket
  <2>2. Plain(Tencent!DeleteBucket(c, s, r))
    BY <1>2, <1>3, TencentAsks, Zenon DEF Tencent!DeleteBucket, Tencent!BucketClient
  <2> QED BY <1>1, <2>1, <2>2
<1>8. Reported("tencent", StatBucket(c, s, r))
  <2>1. StatBucket(c, s, r) = Tencent!StatBucket(c, s, r)
    BY DEF StatBucket
  <2>2. Plain(Tencent!StatBucket(c, s, r))
    BY <1>2, <1>3, TencentAsks, Zenon DEF Tencent!StatBucket, Tencent!BucketClient
  <2> QED BY <1>1, <2>1, <2>2
<1>9. Reported("tencent", ListBuckets(c, s, r))
  <2>1. ListBuckets(c, s, r) = Tencent!ListBuckets(c, s, r)
    BY DEF ListBuckets
  <2>2. Plain(Tencent!ListBuckets(c, s, r))
    BY <1>2, <1>3, TencentAsks, Zenon DEF Tencent!ListBuckets, Tencent!BucketClient
  <2> QED BY <1>1, <2>1, <2>2
<1>10. Reported("tencent", GetObject(c, s, r))
  <2>1. GetObject(c, s, r) = Tencent!GetObject(c, s, r)
    BY DEF GetObject
  <2>2. Plain(Tencent!GetObject(c, s, r))
    BY <1>2, <1>3, TencentAsks, Zenon DEF Tencent!GetObject, Tencent!BucketClient
  <2> QED BY <1>1, <2>1, <2>2
<1>11. Reported("tencent", ListUploads(c, s, r))
  <2>1. ListUploads(c, s, r) = Tencent!ListUploads(c, s, r)
    BY DEF ListUploads
  <2>2. ASSUME NEW o \in Tencent!ListUploads(c, s, r)
        PROVE  o.cap = NoCap
    <3>1. \/ o \in {Tencent!Refuse(s, Tencent!BucketURL(c, Tencent!PickBucket(c, r)))}
          \/ \E answers : \E p \in Tencent!Ask(answers) :
               \/ o = p
               \/ \E out : o = Tencent!Ok(p.store, out)
      BY DEF Tencent!ListUploads, Tencent!BucketClient
    <3> QED BY <3>1, TencentPlain, TencentAsks DEF Plain
  <2> QED BY <1>1, <2>1, <2>2 DEF Plain
<1>12. Reported("tencent", SignURL(c, s, r))
  <2>1. SignURL(c, s, r) = Tencent!SignURL(c, s, r)
    BY DEF SignURL
  <2>2. Plain(Tencent!SignURL(c, s, r))
    BY <1>2, <1>3, TencentAsks, Zenon DEF Tencent!SignURL, Tencent!BucketClient
  <2> QED BY <1>1, <2>1, <2>2
<1>13. Reported("tencent", IssueDirectGrant(c, s, r))
  <2>1. IssueDirectGrant(c, s, r) = Tencent!IssueDirectGrant(c, s, r)
    BY DEF IssueDirectGrant
  <2>2. "signer.direct_grant" \notin Tencent!Supported
    BY DEF Tencent!Supported
  <2> QED BY <1>4, <2>1, <2>2, Zenon DEF Tencent!IssueDirectGrant
<1> QED BY <1>6, <1>7, <1>8, <1>9, <1>10, <1>11, <1>12, <1>13 DEF CallsReported

\* What the Huawei driver makes of an answer names no capability.
LEMMA HuaweiPlain ==
  ASSUME NEW s
  PROVE  /\ \A e : Huawei!MapError(s, e).cap = NoCap
         /\ \A out : Huawei!Ok(s, out).cap = NoCap
         /\ \A code : Huawei!Refuse(s, code).cap = NoCap
         /\ Huawei!Panic(s).cap = NoCap
BY DEF Huawei!MapError, Huawei!Ok, Huawei!Refuse, Huawei!Error, Huawei!NoCap, NoCap, Huawei!Panic

\* Nor do the outcomes of what it asks the service.
LEMMA HuaweiAsks ==
  ASSUME NEW answers, NEW c, NEW s
  PROVE  /\ Plain(Huawei!Ask(c, s, answers))
         /\ Plain(Huawei!AskHead(c, s, answers))
BY HuaweiPlain DEF Plain, Huawei!Ask, Huawei!AskHead, Huawei!WithClient, Huawei!Answer, Huawei!HeadAnswer

\* What the Huawei driver does not support it does not report.
LEMMA HuaweiReports ==
  ASSUME NEW c, NEW s, NEW r, c.drv = "huawei"
  PROVE  CallsReported("huawei", c, s, r)
<1>1. /\ Supported("huawei") = Huawei!Supported /\ "huawei" \in AllDrivers
      /\ \A outcomes : Plain(outcomes) => Reported("huawei", outcomes)
  BY PlainIsReported DEF Supported, AllDrivers
<1>2. \A code : Plain({Huawei!Refuse(s, code)})
  BY HuaweiPlain DEF Plain
<1>3. \A out : Plain({Huawei!Ok(s, out)})
  BY HuaweiPlain DEF Plain
<1>4. \A cap : cap \notin Huawei!Supported => Reported("huawei", {Huawei!NewUnsupported(s, cap)})
  BY <1>1 DEF Reported, Huawei!NewUnsupported, Huawei!Error
<1>6. Reported("huawei", CreateBucket(c, s, r))
  <2>1. CreateBucket(c, s, r) = Huawei!CreateBucket(c, s, r)
    BY DEF CreateBucket
  <2>2. Plain(Huawei!CreateBucket(c, s, r))
    BY <1>2, <1>3, HuaweiAsks, Zenon DEF Huawei!CreateBucket
  <2> QED BY <1>1, <2>1, <2>2
<1>7. Reported("huawei", DeleteBucket(c, s, r))
  <2>1. DeleteBucket(c, s, r) = Huawei!DeleteBucket(c, s, r)
    BY DEF DeleteBucket
  <2>2. Plain(Huawei!DeleteBucket(c, s, r))
    BY <1>2, <1>3, HuaweiAsks, Zenon DEF Huawei!DeleteBucket
  <2> QED BY <1>1, <2>1, <2>2
<1>8. Reported("huawei", StatBucket(c, s, r))
  <2>1. StatBucket(c, s, r) = Huawei!StatBucket(c, s, r)
    BY DEF StatBucket
  <2>2. Plain(Huawei!StatBucket(c, s, r))
    BY <1>2, <1>3, HuaweiAsks, Zenon DEF Huawei!StatBucket
  <2> QED BY <1>1, <2>1, <2>2
<1>9. Reported("huawei", ListBuckets(c, s, r))
  <2>1. ListBuckets(c, s, r) = Huawei!ListBuckets(c, s, r)
    BY DEF ListBuckets
  <2>2. Plain(Huawei!ListBuckets(c, s, r))
    BY <1>2, <1>3, HuaweiAsks, Zenon DEF Huawei!ListBuckets
  <2> QED BY <1>1, <2>1, <2>2
<1>10. Reported("huawei", GetObject(c, s, r))
  <2>1. GetObject(c, s, r) = Huawei!GetObject(c, s, r)
    BY DEF GetObject
  <2>2. Plain(Huawei!GetObject(c, s, r))
    BY <1>2, <1>3, HuaweiAsks, Zenon DEF Huawei!GetObject
  <2> QED BY <1>1, <2>1, <2>2
<1>11. Reported("huawei", ListUploads(c, s, r))
  <2>1. ListUploads(c, s, r) = Huawei!ListUploads(c, s, r)
    BY DEF ListUploads
  <2>2. ASSUME NEW o \in Huawei!ListUploads(c, s, r)
        PROVE  o.cap = NoCap
    <3>1. \E answers : \E p \in Huawei!Ask(c, s, answers) :
            \/ o = p
            \/ \E out : o = Huawei!Ok(p.store, out)
      BY DEF Huawei!ListUploads
    <3> QED BY <3>1, HuaweiPlain, HuaweiAsks DEF Plain
  <2> QED BY <1>1, <2>1, <2>2 DEF Plain
<1>12. Reported("huawei", SignURL(c, s, r))
  <2>1. SignURL(c, s, r) = Huawei!SignURL(c, s, r)
    BY DEF SignURL
  <2>2. \A outcomes : Plain(outcomes) => Plain(Huawei!WithClient(c, s, outcomes))
    BY HuaweiPlain DEF Plain, Huawei!WithClient
  <2>3. Plain(Huawei!SignURL(c, s, r))
    BY <1>2, <1>3, <2>2, Zenon DEF Huawei!SignURL
  <2> QED BY <1>1, <2>1, <2>3
<1>13. Reported("huawei", IssueDirectGrant(c, s, r))
  <2>1. IssueDirectGrant(c, s, r) = Huawei!IssueDirectGrant(c, s, r)
    BY DEF IssueDirectGrant
  <2>2. "signer.direct_grant" \notin Huawei!Supported
    BY DEF Huawei!Supported
  <2> QED BY <1>4, <2>1, <2>2, Zenon DEF Huawei!IssueDirectGrant
<1> QED BY <1>6, <1>7, <1>8, <1>9, <1>10, <1>11, <1>12, <1>13 DEF CallsReported

\* What the Volcengine driver makes of an answer names no capability.
LEMMA VolcenginePlain ==
  ASSUME NEW s
  PROVE  /\ \A e : Volcengine!MapError(s, e).cap = NoCap
         /\ \A out : Volcengine!Ok(s, out).cap = NoCap
         /\ \A code : Volcengine!Refuse(s, code).cap = NoCap
BY DEF Volcengine!MapError, Volcengine!Ok, Volcengine!Refuse, Volcengine!Error, Volcengine!NoCap, NoCap

\* Nor do the outcomes of what it asks the service.
LEMMA VolcengineAsks ==
  ASSUME NEW answers
  PROVE  /\ Plain(Volcengine!Ask(answers))
         /\ Plain({Volcengine!HeadAnswer(a) : a \in answers})
BY VolcenginePlain DEF Plain, Volcengine!Ask, Volcengine!Answer, Volcengine!HeadAnswer

\* What the Volcengine driver does not support it does not report.
LEMMA VolcengineReports ==
  ASSUME NEW c, NEW s, NEW r, c.drv = "volcengine"
  PROVE  CallsReported("volcengine", c, s, r)
<1>1. /\ Supported("volcengine") = Volcengine!Supported /\ "volcengine" \in AllDrivers
      /\ \A outcomes : Plain(outcomes) => Reported("volcengine", outcomes)
  BY PlainIsReported DEF Supported, AllDrivers
<1>2. \A code : Plain({Volcengine!Refuse(s, code)})
  BY VolcenginePlain DEF Plain
<1>3. \A out : Plain({Volcengine!Ok(s, out)})
  BY VolcenginePlain DEF Plain
<1>4. \A cap : cap \notin Volcengine!Supported => Reported("volcengine", {Volcengine!NewUnsupported(s, cap)})
  BY <1>1 DEF Reported, Volcengine!NewUnsupported, Volcengine!Error
<1>6. Reported("volcengine", CreateBucket(c, s, r))
  <2>1. CreateBucket(c, s, r) = Volcengine!CreateBucket(c, s, r)
    BY DEF CreateBucket
  <2>2. Plain(Volcengine!CreateBucket(c, s, r))
    BY <1>2, <1>3, VolcengineAsks, Zenon DEF Volcengine!CreateBucket
  <2> QED BY <1>1, <2>1, <2>2
<1>7. Reported("volcengine", DeleteBucket(c, s, r))
  <2>1. DeleteBucket(c, s, r) = Volcengine!DeleteBucket(c, s, r)
    BY DEF DeleteBucket
  <2>2. Plain(Volcengine!DeleteBucket(c, s, r))
    BY <1>2, <1>3, VolcengineAsks, Zenon DEF Volcengine!DeleteBucket
  <2> QED BY <1>1, <2>1, <2>2
<1>8. Reported("volcengine", StatBucket(c, s, r))
  <2>1. StatBucket(c, s, r) = Volcengine!StatBucket(c, s, r)
    BY DEF StatBucket
  <2>2. Plain(Volcengine!StatBucket(c, s, r))
    BY <1>2, <1>3, VolcengineAsks, Zenon DEF Volcengine!StatBucket
  <2> QED BY <1>1, <2>1, <2>2
<1>9. Reported("volcengine", ListBuckets(c, s, r))
  <2>1. ListBuckets(c, s, r) = Volcengine!ListBuckets(c, s, r)
    BY DEF ListBuckets
  <2>2. Plain(Volcengine!ListBuckets(c, s, r))
    BY <1>2, <1>3, VolcengineAsks, Zenon DEF Volcengine!ListBuckets
  <2> QED BY <1>1, <2>1, <2>2
<1>10. Reported("volcengine", GetObject(c, s, r))
  <2>1. GetObject(c, s, r) = Volcengine!GetObject(c, s, r)
    BY DEF GetObject
  <2>2. Plain(Volcengine!GetObject(c, s, r))
    BY <1>2, <1>3, VolcengineAsks, Zenon DEF Volcengine!GetObject
  <2> QED BY <1>1, <2>1, <2>2
<1>11. Reported("volcengine", ListUploads(c, s, r))
  <2>1. ListUploads(c, s, r) = Volcengine!ListUploads(c, s, r)
    BY DEF ListUploads
  <2>2. ASSUME NEW o \in Volcengine!ListUploads(c, s, r)
        PROVE  o.cap = NoCap
    <3>1. \E answers : \E p \in Volcengine!Ask(answers) :
            \/ o = p
            \/ \E out : o = Volcengine!Ok(p.store, out)
      BY DEF Volcengine!ListUploads
    <3> QED BY <3>1, VolcenginePlain, VolcengineAsks DEF Plain
  <2> QED BY <1>1, <2>1, <2>2 DEF Plain
<1>12. Reported("volcengine", SignURL(c, s, r))
  <2>1. SignURL(c, s, r) = Volcengine!SignURL(c, s, r)
    BY DEF SignURL
  <2>2. Plain(Volcengine!SignURL(c, s, r))
    BY <1>2, <1>3, VolcengineAsks, Zenon DEF Volcengine!SignURL
  <2> QED BY <1>1, <2>1, <2>2
<1>13. Reported("volcengine", IssueDirectGrant(c, s, r))
  <2>1. IssueDirectGrant(c, s, r) = Volcengine!IssueDirectGrant(c, s, r)
    BY DEF IssueDirectGrant
  <2>2. "signer.direct_grant" \notin Volcengine!Supported
    BY DEF Volcengine!Supported
  <2> QED BY <1>4, <2>1, <2>2, Zenon DEF Volcengine!IssueDirectGrant
<1> QED BY <1>6, <1>7, <1>8, <1>9, <1>10, <1>11, <1>12, <1>13 DEF CallsReported

\* What the GCS driver makes of an answer names no capability.
LEMMA GcsPlain ==
  ASSUME NEW s
  PROVE  /\ \A e : Gcs!MapError(s, e).cap = NoCap
         /\ \A out : Gcs!Ok(s, out).cap = NoCap
         /\ \A code : Gcs!Refuse(s, code).cap = NoCap
BY DEF Gcs!MapError, Gcs!Ok, Gcs!Refuse, Gcs!Error, Gcs!NoCap, NoCap

\* Nor do the outcomes of what it asks the service.
LEMMA GcsAsks ==
  ASSUME NEW answers
  PROVE  Plain(Gcs!Ask(answers))
BY GcsPlain DEF Plain, Gcs!Ask, Gcs!Answer

\* What the GCS driver does not support it does not report.
LEMMA GcsReports ==
  ASSUME NEW c, NEW s, NEW r, c.drv = "gcs"
  PROVE  CallsReported("gcs", c, s, r)
<1>1. /\ Supported("gcs") = Gcs!Supported /\ "gcs" \in AllDrivers
      /\ \A outcomes : Plain(outcomes) => Reported("gcs", outcomes)
  BY PlainIsReported DEF Supported, AllDrivers
<1>2. \A code : Plain({Gcs!Refuse(s, code)})
  BY GcsPlain DEF Plain
<1>3. \A out : Plain({Gcs!Ok(s, out)})
  BY GcsPlain DEF Plain
<1>4. \A cap : cap \notin Gcs!Supported => Reported("gcs", {Gcs!NewUnsupported(s, cap)})
  BY <1>1 DEF Reported, Gcs!NewUnsupported, Gcs!Error
<1>6. Reported("gcs", CreateBucket(c, s, r))
  <2>1. CreateBucket(c, s, r) = Gcs!CreateBucket(c, s, r)
    BY DEF CreateBucket
  <2>2. Plain(Gcs!CreateBucket(c, s, r))
    BY <1>2, <1>3, GcsAsks, Zenon DEF Gcs!CreateBucket
  <2> QED BY <1>1, <2>1, <2>2
<1>7. Reported("gcs", DeleteBucket(c, s, r))
  <2>1. DeleteBucket(c, s, r) = Gcs!DeleteBucket(c, s, r)
    BY DEF DeleteBucket
  <2>2. Plain(Gcs!DeleteBucket(c, s, r))
    BY <1>2, <1>3, GcsAsks, Zenon DEF Gcs!DeleteBucket
  <2> QED BY <1>1, <2>1, <2>2
<1>8. Reported("gcs", StatBucket(c, s, r))
  <2>1. StatBucket(c, s, r) = Gcs!StatBucket(c, s, r)
    BY DEF StatBucket
  <2>2. Plain(Gcs!StatBucket(c, s, r))
    BY <1>2, <1>3, GcsAsks, Zenon DEF Gcs!StatBucket
  <2> QED BY <1>1, <2>1, <2>2
<1>9. Reported("gcs", ListBuckets(c, s, r))
  <2>1. ListBuckets(c, s, r) = Gcs!ListBuckets(c, s, r)
    BY DEF ListBuckets
  <2>2. Plain(Gcs!ListBuckets(c, s, r))
    BY <1>2, <1>3, GcsAsks, Zenon DEF Gcs!ListBuckets
  <2> QED BY <1>1, <2>1, <2>2
<1>10. Reported("gcs", GetObject(c, s, r))
  <2>1. GetObject(c, s, r) = Gcs!GetObject(c, s, r)
    BY DEF GetObject
  <2>2. Plain(Gcs!GetObject(c, s, r))
    BY <1>2, <1>3, GcsAsks, Zenon DEF Gcs!GetObject
  <2> QED BY <1>1, <2>1, <2>2
<1>11. Reported("gcs", ListUploads(c, s, r))
  <2>1. ListUploads(c, s, r) = Gcs!ListUploads(c, s, r)
    BY DEF ListUploads
  <2>2. Plain(Gcs!ListUploads(c, s, r))
    BY <1>2, <1>3, GcsAsks, Zenon DEF Gcs!ListUploads
  <2> QED BY <1>1, <2>1, <2>2
<1>12. Reported("gcs", SignURL(c, s, r))
  <2>1. SignURL(c, s, r) = Gcs!SignURL(c, s, r)
    BY DEF SignURL
  <2>2. /\ "signer.url_write" \notin Gcs!Supported
        /\ "signer.url_read" \notin Gcs!Supported
    BY DEF Gcs!Supported
  <2>3. Reported("gcs", Gcs!SignURL(c, s, r))
    BY <1>1, <1>2, <1>3, <1>4, <2>2, Zenon DEF Gcs!SignURL
  <2> QED BY <2>1, <2>3
<1>13. Reported("gcs", IssueDirectGrant(c, s, r))
  <2>1. IssueDirectGrant(c, s, r) = Gcs!IssueDirectGrant(c, s, r)
    BY DEF IssueDirectGrant
  <2>2. "signer.direct_grant" \notin Gcs!Supported
    BY DEF Gcs!Supported
  <2> QED BY <1>4, <2>1, <2>2, Zenon DEF Gcs!IssueDirectGrant
<1> QED BY <1>6, <1>7, <1>8, <1>9, <1>10, <1>11, <1>12, <1>13 DEF CallsReported

\* What the Azure driver makes of an answer names no capability.
LEMMA AzurePlain ==
  ASSUME NEW s
  PROVE  /\ \A e : Azure!MapError(s, e).cap = NoCap
         /\ \A out : Azure!Ok(s, out).cap = NoCap
         /\ \A code : Azure!Refuse(s, code).cap = NoCap
BY DEF Azure!MapError, Azure!Ok, Azure!Refuse, Azure!Error, Azure!NoCap, NoCap

\* Nor do the outcomes of what it asks the service.
LEMMA AzureAsks ==
  ASSUME NEW answers
  PROVE  Plain(Azure!Ask(answers))
BY AzurePlain DEF Plain, Azure!Ask, Azure!Answer

\* What the Azure driver does not support it does not report.
LEMMA AzureReports ==
  ASSUME NEW c, NEW s, NEW r, c.drv = "azure"
  PROVE  CallsReported("azure", c, s, r)
<1>1. /\ Supported("azure") = Azure!Supported /\ "azure" \in AllDrivers
      /\ \A outcomes : Plain(outcomes) => Reported("azure", outcomes)
  BY PlainIsReported DEF Supported, AllDrivers
<1>2. \A code : Plain({Azure!Refuse(s, code)})
  BY AzurePlain DEF Plain
<1>3. \A out : Plain({Azure!Ok(s, out)})
  BY AzurePlain DEF Plain
<1>4. \A cap : cap \notin Azure!Supported => Reported("azure", {Azure!NewUnsupported(s, cap)})
  BY <1>1 DEF Reported, Azure!NewUnsupported, Azure!Error
<1>5. \A answers : Plain(Azure!Ask(answers))
  BY AzureAsks
<1>6. Reported("azure", CreateBucket(c, s, r))
  <2>1. CreateBucket(c, s, r) = Azure!CreateBucket(c, s, r)
    BY DEF CreateBucket
  <2>2. Plain(Azure!CreateBucket(c, s, r))
    BY <1>2, <1>3, <1>5, Zenon DEF Azure!CreateBucket, Azure!Tries
  <2> QED BY <1>1, <2>1, <2>2
<1>7. Reported("azure", DeleteBucket(c, s, r))
  <2>1. DeleteBucket(c, s, r) = Azure!DeleteBucket(c, s, r)
    BY DEF DeleteBucket
  <2>2. Plain(Azure!DeleteBucket(c, s, r))
    BY <1>2, <1>3, <1>5, Zenon DEF Azure!DeleteBucket, Azure!Tries
  <2> QED BY <1>1, <2>1, <2>2
<1>8. Reported("azure", StatBucket(c, s, r))
  <2>1. StatBucket(c, s, r) = Azure!StatBucket(c, s, r)
    BY DEF StatBucket
  <2>2. Plain(Azure!StatBucket(c, s, r))
    BY <1>2, <1>3, <1>5, Zenon DEF Azure!StatBucket, Azure!Tries
  <2> QED BY <1>1, <2>1, <2>2
<1>9. Reported("azure", ListBuckets(c, s, r))
  <2>1. ListBuckets(c, s, r) = Azure!ListBuckets(c, s, r)
    BY DEF ListBuckets
  <2>2. Plain(Azure!ListBuckets(c, s, r))
    BY <1>2, <1>3, <1>5, Zenon DEF Azure!ListBuckets, Azure!Tries
  <2> QED BY <1>1, <2>1, <2>2
<1>10. Reported("azure", GetObject(c, s, r))
  <2>1. GetObject(c, s, r) = Azure!GetObject(c, s, r)
    BY DEF GetObject
  <2>2. Plain(Azure!GetObject(c, s, r))
    BY <1>2, <1>3, <1>5, Zenon DEF Azure!GetObject, Azure!Tries
  <2> QED BY <1>1, <2>1, <2>2
<1>11. Reported("azure", ListUploads(c, s, r))
  <2>1. ListUploads(c, s, r) = Azure!ListUploads(c, s, r)
    BY DEF ListUploads
  <2>2. Plain(Azure!ListUploads(c, s, r))
    BY AzurePlain DEF Plain, Azure!ListUploads
  <2> QED BY <1>1, <2>1, <2>2
<1>12. Reported("azure", SignURL(c, s, r))
  <2>1. SignURL(c, s, r) = Azure!SignURL(c, s, r)
    BY DEF SignURL
  <2>2. "signer.url_read" \notin Azure!Supported
    BY DEF Azure!Supported
  <2>3. \A out : Reported("azure", Azure!BuildSASURL(c, s, out))
    BY <1>1, <1>2, <1>3, <1>4, <1>5, <2>2, Zenon DEF Azure!BuildSASURL, Azure!Tries
  <2> QED BY <1>1, <1>2, <2>1, <2>3, Zenon DEF Azure!SignURL
<1>13. Reported("azure", IssueDirectGrant(c, s, r))
  <2>1. IssueDirectGrant(c, s, r) = Azure!IssueDirectGrant(c, s, r)
    BY DEF IssueDirectGrant
  <2>2. "signer.url_read" \notin Azure!Supported
    BY DEF Azure!Supported
  <2>3. \A out : Reported("azure", Azure!BuildSASURL(c, s, out))
    BY <1>1, <1>2, <1>3, <1>4, <1>5, <2>2, Zenon DEF Azure!BuildSASURL, Azure!Tries
  <2> QED BY <1>1, <1>2, <2>1, <2>3, Zenon DEF Azure!IssueDirectGrant
<1> QED BY <1>6, <1>7, <1>8, <1>9, <1>10, <1>11, <1>12, <1>13 DEF CallsReported

\* What the Qiniu driver makes of an answer names no capability.
LEMMA QiniuPlain ==
  ASSUME NEW s
  PROVE  /\ \A e : Qiniu!MapError(s, e).cap = NoCap
         /\ \A out : Qiniu!Ok(s, out).cap = NoCap
         /\ \A code : Qiniu!Refuse(s, code).cap = NoCap
BY DEF Qiniu!MapError, Qiniu!Ok, Qiniu!Refuse, Qiniu!Error, Qiniu!NoCap, NoCap

\* Nor do the outcomes of what it asks the service.
LEMMA QiniuAsks ==
  ASSUME NEW answers
  PROVE  /\ Plain(Qiniu!Ask(answers))
         /\ Plain(Qiniu!Management(answers))
BY QiniuPlain DEF Plain, Qiniu!Ask, Qiniu!Answer, Qiniu!Management

\* What the Qiniu driver does not support it does not report of a client with a domain.
LEMMA QiniuReports ==
  ASSUME NEW c, NEW s, NEW r, c.drv = "qiniu", c.signs
  PROVE  CallsReported("qiniu", c, s, r)
<1>1. /\ Supported("qiniu") = Qiniu!Supported /\ "qiniu" \in AllDrivers
      /\ \A outcomes : Plain(outcomes) => Reported("qiniu", outcomes)
  BY PlainIsReported DEF Supported, AllDrivers
<1>2. \A code : Plain({Qiniu!Refuse(s, code)})
  BY QiniuPlain DEF Plain
<1>3. \A out : Plain({Qiniu!Ok(s, out)})
  BY QiniuPlain DEF Plain
<1>4. \A cap : cap \notin Qiniu!Supported => Reported("qiniu", {Qiniu!NewUnsupported(s, cap)})
  BY <1>1 DEF Reported, Qiniu!NewUnsupported, Qiniu!Error
<1>6. Reported("qiniu", CreateBucket(c, s, r))
  <2>1. CreateBucket(c, s, r) = Qiniu!CreateBucket(c, s, r)
    BY DEF CreateBucket
  <2>2. Plain(Qiniu!CreateBucket(c, s, r))
    BY <1>2, <1>3, QiniuAsks, Zenon DEF Qiniu!CreateBucket
  <2> QED BY <1>1, <2>1, <2>2
<1>7. Reported("qiniu", DeleteBucket(c, s, r))
  <2>1. DeleteBucket(c, s, r) = Qiniu!DeleteBucket(c, s, r)
    BY DEF DeleteBucket
  <2>2. Plain(Qiniu!DeleteBucket(c, s, r))
    BY <1>2, <1>3, QiniuAsks, Zenon DEF Qiniu!DeleteBucket
  <2> QED BY <1>1, <2>1, <2>2
<1>8. Reported("qiniu", StatBucket(c, s, r))
  <2>1. StatBucket(c, s, r) = Qiniu!StatBucket(c, s, r)
    BY DEF StatBucket
  <2>2. Plain(Qiniu!StatBucket(c, s, r))
    BY <1>2, <1>3, QiniuAsks, Zenon DEF Qiniu!StatBucket
  <2> QED BY <1>1, <2>1, <2>2
<1>9. Reported("qiniu", ListBuckets(c, s, r))
  <2>1. ListBuckets(c, s, r) = Qiniu!ListBuckets(c, s, r)
    BY DEF ListBuckets
  <2>2. Plain(Qiniu!ListBuckets(c, s, r))
    BY <1>2, <1>3, QiniuAsks, Zenon DEF Qiniu!ListBuckets
  <2> QED BY <1>1, <2>1, <2>2
<1>10. Reported("qiniu", GetObject(c, s, r))
  <2>1. GetObject(c, s, r) = Qiniu!GetObject(c, s, r)
    BY DEF GetObject
  <2>2. Plain(Qiniu!GetObject(c, s, r))
    BY QiniuPlain DEF Plain, Qiniu!GetObject
  <2> QED BY <1>1, <2>1, <2>2
<1>11. Reported("qiniu", ListUploads(c, s, r))
  <2>1. ListUploads(c, s, r) = Qiniu!ListUploads(c, s, r)
    BY DEF ListUploads
  <2>2. Plain(Qiniu!ListUploads(c, s, r))
    BY QiniuPlain DEF Plain, Qiniu!ListUploads
  <2> QED BY <1>1, <2>1, <2>2
<1>12. Reported("qiniu", SignURL(c, s, r))
  <2>1. SignURL(c, s, r) = Qiniu!SignURL(c, s, r)
    BY DEF SignURL
  <2>2. "signer.url_write" \notin Qiniu!Supported
    BY DEF Qiniu!Supported
  <2>3. Reported("qiniu", Qiniu!SignURL(c, s, r))
    BY <1>1, <1>2, <1>3, <1>4, <2>2, Zenon DEF Qiniu!SignURL
  <2> QED BY <2>1, <2>3
<1>13. Reported("qiniu", IssueDirectGrant(c, s, r))
  <2>1. IssueDirectGrant(c, s, r) = Qiniu!IssueDirectGrant(c, s, r)
    BY DEF IssueDirectGrant
  <2>2. Plain(Qiniu!IssueDirectGrant(c, s, r))
    BY <1>2, <1>3, <1>2, Zenon DEF Qiniu!IssueDirectGrant
  <2> QED BY <1>1, <2>1, <2>2
<1> QED BY <1>6, <1>7, <1>8, <1>9, <1>10, <1>11, <1>12, <1>13 DEF CallsReported

\* A call that answers "unsupported" names a capability the client does not
\* report as Supported (report.go:12-13, 23-24), for every Config it was opened
\* from; Upyun, and a Qiniu client that has no domain, are left out.
THEOREM LifeUnsupportedIsReported == Spec => []UnsupportedIsReported
<1>1. LifeInv => UnsupportedIsReported
  <2> SUFFICES ASSUME LifeInv, NEW q \in Callers, NEW r \in CallRequests, IsOpened(q),
                      driver # "upyun", driver = "qiniu" => conn[q].signs
               PROVE  \A o \in UNION {CreateBucket(conn[q], store, r), DeleteBucket(conn[q], store, r),
                                      StatBucket(conn[q], store, r), ListBuckets(conn[q], store, r),
                                      GetObject(conn[q], store, r), ListUploads(conn[q], store, r),
                                      SignURL(conn[q], store, r), IssueDirectGrant(conn[q], store, r)} :
                        o.code = "unsupported" => o.cap \notin Supported(driver)
    BY Zenon DEF UnsupportedIsReported
  <2>1. driver \in AllDrivers \ {"upyun"} /\ conn[q].drv = driver
    BY LifeAssumption DEF LifeInv, IsClientOf
  <2>2. CallsReported(driver, conn[q], store, r)
    <3>1. CASE driver = "aws"
      BY <2>1, <3>1, AwsReports
    <3>2. CASE driver = "minio"
      BY <2>1, <3>2, MinioReports
    <3>3. CASE driver = "alibaba"
      BY <2>1, <3>3, AlibabaReports
    <3>4. CASE driver = "tencent"
      BY <2>1, <3>4, TencentReports
    <3>5. CASE driver = "huawei"
      BY <2>1, <3>5, HuaweiReports
    <3>6. CASE driver = "volcengine"
      BY <2>1, <3>6, VolcengineReports
    <3>7. CASE driver = "gcs"
      BY <2>1, <3>7, GcsReports
    <3>8. CASE driver = "azure"
      BY <2>1, <3>8, AzureReports
    <3>9. CASE driver = "qiniu"
      BY <2>1, <3>9, QiniuReports
    <3> QED BY <2>1, <3>1, <3>2, <3>3, <3>4, <3>5, <3>6, <3>7, <3>8, <3>9 DEF AllDrivers
  <2> QED BY <2>2, Zenon DEF CallsReported, Reported
<1> QED BY <1>1, LifeInductive, PTL
=============================================================================
