------------------------- MODULE ObjectCalls_proofs --------------------------
(* What the callers of ObjectCalls can rely on, for every set of drivers,    *)
(* writers, bounds and faults: each property is proved call by call from the *)
(* facts about the ten drivers and from an invariant of the states.          *)
EXTENDS ObjectCalls, Drivers_proofs

-----------------------------------------------------------------------------
(* The calls of a client are those of its driver. *)

\* Put goes to the driver of the client.
LEMMA PutDispatch ==
  ASSUME NEW cl, NEW s, NEW r
  PROVE  /\ cl.drv = "aws" => PutObject(cl, s, r) = Aws!PutObject(cl, s, r)
         /\ cl.drv = "minio" => PutObject(cl, s, r) = Minio!PutObject(cl, s, r)
         /\ cl.drv = "alibaba" => PutObject(cl, s, r) = Alibaba!PutObject(cl, s, r)
         /\ cl.drv = "tencent" => PutObject(cl, s, r) = Tencent!PutObject(cl, s, r)
         /\ cl.drv = "huawei" => PutObject(cl, s, r) = Huawei!PutObject(cl, s, r)
         /\ cl.drv = "volcengine" => PutObject(cl, s, r) = Volcengine!PutObject(cl, s, r)
         /\ cl.drv = "gcs" => PutObject(cl, s, r) = Gcs!PutObject(cl, s, r)
         /\ cl.drv = "azure" => PutObject(cl, s, r) = Azure!PutObject(cl, s, r)
         /\ cl.drv = "qiniu" => PutObject(cl, s, r) = Qiniu!PutObject(cl, s, r)
         /\ cl.drv = "upyun" => PutObject(cl, s, r) = Upyun!PutObject(cl, s, r)
BY DEF PutObject

\* Get goes to the driver of the client.
LEMMA GetDispatch ==
  ASSUME NEW cl, NEW s, NEW r
  PROVE  /\ cl.drv = "aws" => GetObject(cl, s, r) = Aws!GetObject(cl, s, r)
         /\ cl.drv = "minio" => GetObject(cl, s, r) = Minio!GetObject(cl, s, r)
         /\ cl.drv = "alibaba" => GetObject(cl, s, r) = Alibaba!GetObject(cl, s, r)
         /\ cl.drv = "tencent" => GetObject(cl, s, r) = Tencent!GetObject(cl, s, r)
         /\ cl.drv = "huawei" => GetObject(cl, s, r) = Huawei!GetObject(cl, s, r)
         /\ cl.drv = "volcengine" => GetObject(cl, s, r) = Volcengine!GetObject(cl, s, r)
         /\ cl.drv = "gcs" => GetObject(cl, s, r) = Gcs!GetObject(cl, s, r)
         /\ cl.drv = "azure" => GetObject(cl, s, r) = Azure!GetObject(cl, s, r)
         /\ cl.drv = "qiniu" => GetObject(cl, s, r) = Qiniu!GetObject(cl, s, r)
         /\ cl.drv = "upyun" => GetObject(cl, s, r) = Upyun!GetObject(cl, s, r)
BY DEF GetObject

\* Delete goes to the driver of the client.
LEMMA DeleteDispatch ==
  ASSUME NEW cl, NEW s, NEW r
  PROVE  /\ cl.drv = "aws" => DeleteObject(cl, s, r) = Aws!DeleteObject(cl, s, r)
         /\ cl.drv = "minio" => DeleteObject(cl, s, r) = Minio!DeleteObject(cl, s, r)
         /\ cl.drv = "alibaba" => DeleteObject(cl, s, r) = Alibaba!DeleteObject(cl, s, r)
         /\ cl.drv = "tencent" => DeleteObject(cl, s, r) = Tencent!DeleteObject(cl, s, r)
         /\ cl.drv = "huawei" => DeleteObject(cl, s, r) = Huawei!DeleteObject(cl, s, r)
         /\ cl.drv = "volcengine" => DeleteObject(cl, s, r) = Volcengine!DeleteObject(cl, s, r)
         /\ cl.drv = "gcs" => DeleteObject(cl, s, r) = Gcs!DeleteObject(cl, s, r)
         /\ cl.drv = "azure" => DeleteObject(cl, s, r) = Azure!DeleteObject(cl, s, r)
         /\ cl.drv = "qiniu" => DeleteObject(cl, s, r) = Qiniu!DeleteObject(cl, s, r)
         /\ cl.drv = "upyun" => DeleteObject(cl, s, r) = Upyun!DeleteObject(cl, s, r)
BY DEF DeleteObject

\* DeleteMany goes to the driver of the client.
LEMMA DeleteManyDispatch ==
  ASSUME NEW cl, NEW s, NEW r
  PROVE  /\ cl.drv = "aws" => DeleteMany(cl, s, r) = Aws!DeleteMany(cl, s, r)
         /\ cl.drv = "minio" => DeleteMany(cl, s, r) = Minio!DeleteMany(cl, s, r)
         /\ cl.drv = "alibaba" => DeleteMany(cl, s, r) = Alibaba!DeleteMany(cl, s, r)
         /\ cl.drv = "tencent" => DeleteMany(cl, s, r) = Tencent!DeleteMany(cl, s, r)
         /\ cl.drv = "huawei" => DeleteMany(cl, s, r) = Huawei!DeleteMany(cl, s, r)
         /\ cl.drv = "volcengine" => DeleteMany(cl, s, r) = Volcengine!DeleteMany(cl, s, r)
         /\ cl.drv = "gcs" => DeleteMany(cl, s, r) = Gcs!DeleteMany(cl, s, r)
         /\ cl.drv = "azure" => DeleteMany(cl, s, r) = Azure!DeleteMany(cl, s, r)
         /\ cl.drv = "qiniu" => DeleteMany(cl, s, r) = Qiniu!DeleteMany(cl, s, r)
         /\ cl.drv = "upyun" => DeleteMany(cl, s, r) = Upyun!DeleteMany(cl, s, r)
BY DEF DeleteMany

\* Copy goes to the driver of the client.
LEMMA CopyDispatch ==
  ASSUME NEW cl, NEW s, NEW r
  PROVE  /\ cl.drv = "aws" => CopyObject(cl, s, r) = Aws!CopyObject(cl, s, r)
         /\ cl.drv = "minio" => CopyObject(cl, s, r) = Minio!CopyObject(cl, s, r)
         /\ cl.drv = "alibaba" => CopyObject(cl, s, r) = Alibaba!CopyObject(cl, s, r)
         /\ cl.drv = "tencent" => CopyObject(cl, s, r) = Tencent!CopyObject(cl, s, r)
         /\ cl.drv = "huawei" => CopyObject(cl, s, r) = Huawei!CopyObject(cl, s, r)
         /\ cl.drv = "volcengine" => CopyObject(cl, s, r) = Volcengine!CopyObject(cl, s, r)
         /\ cl.drv = "gcs" => CopyObject(cl, s, r) = Gcs!CopyObject(cl, s, r)
         /\ cl.drv = "azure" => CopyObject(cl, s, r) = Azure!CopyObject(cl, s, r)
         /\ cl.drv = "qiniu" => CopyObject(cl, s, r) = Qiniu!CopyObject(cl, s, r)
         /\ cl.drv = "upyun" => CopyObject(cl, s, r) = Upyun!CopyObject(cl, s, r)
BY DEF CopyObject

\* A serving view names its bucket and its driver.
LEMMA ServingView ==
  ASSUME NEW d, NEW b, NEW r, r.bucket = b
  PROVE  Serving(d, b).drv = d /\ NamesView(Serving(d, b), r)
BY DEF Serving, View, NamesView

-----------------------------------------------------------------------------
(* What the calls of a client of any driver do *)

\* A put that was sent keeps the store's fields, does not refuse what it did,
\* and stores nothing of a body that fails.
LEMMA SentPutIsHonest ==
  ASSUME NEW s, NEW r, r.body.fails \in BOOLEAN, NEW match, NEW noneMatch \in BOOLEAN,
         NEW o, SendsPut(s, r, match, noneMatch, o)
  PROVE  SameFields(s, o.store) /\ Honest(s, o) /\ (r.body.fails => o.store = s)
<1>1. PICK meta : \E a \in SvcPut(s, <<r.bucket, r.key>>,
                                 ObjectOf(r.body.bytes, meta, r.ctype),
                                 r.body.fails, match, noneMatch) : Tells(a, o)
  BY DEF SendsPut
<1> DEFINE at == <<r.bucket, r.key>>  obj == ObjectOf(r.body.bytes, meta, r.ctype)
           fails == r.body.fails
<1>2. PICK a \in SvcPut(s, at, obj, fails, match, noneMatch) : Tells(a, o)
  BY <1>1
<1>3. fails \in BOOLEAN
  OBVIOUS
<1> HIDE DEF at, obj, fails
<1>4. SameFields(s, a.store)
  BY <1>2, SvcPutKeepsFields
<1>p. PutDoes(s, at, obj, fails, match, noneMatch, a)
  BY <1>2, <1>3, SvcPutDoes, Zenon
<1>5. a.store = s \/ (~fails /\ a.sit \in Lost \cup {"ok"})
  BY <1>p DEF PutDoes
<1>6. Honest(s, o) /\ (fails => o.store = s)
  BY <1>2, <1>5 DEF Tells, Honest, RefusalCodes
<1> QED BY <1>2, <1>4, <1>6 DEF Tells, fails

\* Without a body to fail, a declined put did nothing either.
PutIsHonest(cl, s, r, o) ==
  /\ SameFields(s, o.store)
  /\ cl.drv # "azure" => Honest(s, o)
  /\ r.body.fails /\ cl.drv # "gcs" => o.store = s

\* Put of any client keeps the store's fields; but for Azure its refusals are
\* the truth, and but for GCS a body that fails stores nothing.
LEMMA PutHonest ==
  ASSUME NEW cl, cl.drv \in AllDrivers, NEW s, NEW r, NamesView(cl, r),
         r.body.fails \in BOOLEAN, NEW o \in PutObject(cl, s, r)
  PROVE  PutIsHonest(cl, s, r, o)
<1>1. ASSUME Declines(o, s) PROVE PutIsHonest(cl, s, r, o)
  BY <1>1, DeclinesHonest DEF Declines, PutIsHonest
<1>2. ASSUME NEW match, NEW noneMatch \in BOOLEAN, SendsPut(s, r, match, noneMatch, o)
      PROVE  PutIsHonest(cl, s, r, o)
  BY <1>2, SentPutIsHonest DEF PutIsHonest
<1> DEFINE no == FALSE  star == r.noneMatch = "*"
<1>3. no \in BOOLEAN /\ star \in BOOLEAN
  OBVIOUS
<1>4. CASE cl.drv = "aws"
  <2>1. o \in Aws!PutObject(cl, s, r)
    BY <1>4, PutDispatch
  <2>2. Declines(o, s) \/ SendsPut(s, r, r.match, star, o)
    BY <2>1, AwsPut
  <2> HIDE DEF no, star
  <2> QED BY <1>1, <1>2, <1>3, <2>2
<1>5. CASE cl.drv = "minio"
  <2>1. o \in Minio!PutObject(cl, s, r)
    BY <1>5, PutDispatch
  <2>2. Declines(o, s) \/ SendsPut(s, r, r.match, star, o)
    BY <2>1, MinioPut
  <2> HIDE DEF no, star
  <2> QED BY <1>1, <1>2, <1>3, <2>2
<1>6. CASE cl.drv = "alibaba"
  <2>1. o \in Alibaba!PutObject(cl, s, r)
    BY <1>6, PutDispatch
  <2>2. Declines(o, s) \/ SendsPut(s, r, r.match, star, o)
    BY <2>1, AlibabaPut
  <2> HIDE DEF no, star
  <2> QED BY <1>1, <1>2, <1>3, <2>2
<1>7. CASE cl.drv = "tencent"
  <2>1. o \in Tencent!PutObject(cl, s, r)
    BY <1>7, PutDispatch
  <2>2. Declines(o, s) \/ SendsPut(s, r, r.match, star, o)
    BY <2>1, TencentPut
  <2> HIDE DEF no, star
  <2> QED BY <1>1, <1>2, <1>3, <2>2
<1>8. CASE cl.drv = "huawei"
  <2>1. o \in Huawei!PutObject(cl, s, r)
    BY <1>8, PutDispatch
  <2>2. Declines(o, s) \/ SendsPut(s, r, {}, no, o)
    BY <2>1, HuaweiPut
  <2> HIDE DEF no, star
  <2> QED BY <1>1, <1>2, <1>3, <2>2
<1>9. CASE cl.drv = "volcengine"
  <2>1. o \in Volcengine!PutObject(cl, s, r)
    BY <1>9, PutDispatch
  <2>2. Declines(o, s) \/ SendsPut(s, r, r.match, no, o)
    BY <2>1, VolcenginePut
  <2> HIDE DEF no, star
  <2> QED BY <1>1, <1>2, <1>3, <2>2
<1>10. CASE cl.drv = "gcs"
  <2>1. o \in Gcs!PutObject(cl, s, r)
    BY <1>10, PutDispatch
  <2>2. CASE Declines(o, s)
    BY <1>1, <2>2
  <2>3. CASE ~Declines(o, s)
    <3> DEFINE at == <<r.bucket, r.key>>
    <3>1. PICK obj : \E a \in SvcPut(s, at, obj, no, {}, star) :
                       \/ o.store = a.store /\ o.code = "internal"
                       \/ Tells(a, o)
      <4> HIDE DEF star
      <4>1. \E meta : \E a \in SvcPut(s, at, ObjectOf(r.body.bytes, meta, r.ctype),
                                    FALSE, {}, r.noneMatch = "*") :
              \/ r.body.fails /\ o.store = a.store /\ o.code = "internal"
              \/ ~r.body.fails /\ Tells(a, o)
        BY <2>1, <2>3, GcsPut
      <4> QED BY <4>1 DEF star
    <3>2. PICK a \in SvcPut(s, at, obj, no, {}, star) :
            \/ o.store = a.store /\ o.code = "internal"
            \/ Tells(a, o)
      BY <3>1
    <3> HIDE DEF at, no, star
    <3>3. SameFields(s, a.store)
      BY <3>2, SvcPutKeepsFields
    <3>p. PutDoes(s, at, obj, no, {}, star, a)
      BY <1>3, <3>2, SvcPutDoes, Zenon
    <3>4. a.store = s \/ a.sit \in Lost \cup {"ok"}
      BY <3>p DEF PutDoes
    <3> QED BY <1>10, <3>2, <3>3, <3>4 DEF Tells, Honest, RefusalCodes, PutIsHonest
  <2> QED BY <2>2, <2>3
<1>11. CASE cl.drv = "azure"
  <2>1. o \in Azure!PutObject(cl, s, r)
    BY <1>11, PutDispatch
  <2> QED BY <1>11, <2>1, AzurePut DEF Declines, PutIsHonest
<1>12. CASE cl.drv = "qiniu"
  <2>1. o \in Qiniu!PutObject(cl, s, r)
    BY <1>12, PutDispatch
  <2>2. Declines(o, s) \/ SendsPut(s, r, {}, no, o)
    BY <2>1, QiniuPut
  <2> HIDE DEF no, star
  <2> QED BY <1>1, <1>2, <1>3, <2>2
<1>13. CASE cl.drv = "upyun"
  <2>1. o \in Upyun!PutObject(cl, s, r)
    BY <1>13, PutDispatch
  <2>2. Declines(o, s) \/ SendsPut(s, r, r.match, star, o)
    BY <2>1, UpyunPut
  <2> HIDE DEF no, star
  <2> QED BY <1>1, <1>2, <1>3, <2>2
<1> QED BY <1>4, <1>5, <1>6, <1>7, <1>8, <1>9, <1>10, <1>11, <1>12, <1>13 DEF AllDrivers

\* The drivers that forward both preconditions send them, or decline.
LEMMA PutForwards ==
  ASSUME NEW cl, cl.drv \in ForwardsIfMatch \cap ForwardsIfNoneMatch, NEW s, NEW r, NamesView(cl, r),
         NEW o \in PutObject(cl, s, r)
  PROVE  Declines(o, s) \/ SendsPut(s, r, r.match, r.noneMatch = "*", o)
<1>1. CASE cl.drv = "aws"
  <2>1. o \in Aws!PutObject(cl, s, r)
    BY <1>1, PutDispatch
  <2> QED BY <1>1, <2>1, AwsPut
<1>2. CASE cl.drv = "minio"
  <2>1. o \in Minio!PutObject(cl, s, r)
    BY <1>2, PutDispatch
  <2> QED BY <1>2, <2>1, MinioPut
<1>3. CASE cl.drv = "alibaba"
  <2>1. o \in Alibaba!PutObject(cl, s, r)
    BY <1>3, PutDispatch
  <2> QED BY <1>3, <2>1, AlibabaPut
<1>4. CASE cl.drv = "tencent"
  <2>1. o \in Tencent!PutObject(cl, s, r)
    BY <1>4, PutDispatch
  <2> QED BY <1>4, <2>1, TencentPut
<1>5. CASE cl.drv = "upyun"
  <2>1. o \in Upyun!PutObject(cl, s, r)
    BY <1>5, PutDispatch
  <2> QED BY <1>5, <2>1, UpyunPut
<1> QED BY <1>1, <1>2, <1>3, <1>4, <1>5 DEF ForwardsIfMatch, ForwardsIfNoneMatch

\* A Get of any client that succeeds gives the range; MinIO leaves the range
\* out that is open from the start, and Huawei the one of the first byte.
LEMMA GetExact ==
  ASSUME NEW cl, cl.drv \in AllDrivers, NEW s, NEW r, NamesView(cl, r), AsksRange(r),
         r.whole => r.first = 0 /\ r.last = -1,
         cl.drv = "minio" => r.whole \/ r.first > 0 \/ r.last >= 0,
         cl.drv = "huawei" => r.first # 0 \/ r.last # 0,
         NEW o \in GetObject(cl, s, r)
  PROVE  ReadsRange(s, r, o)
<1>1. CASE cl.drv = "aws"
  <2>1. o \in Aws!GetObject(cl, s, r)
    BY <1>1, GetDispatch
  <2> QED BY <1>1, <2>1, AwsGet
<1>2. CASE cl.drv = "minio"
  <2>1. o \in Minio!GetObject(cl, s, r)
    BY <1>2, GetDispatch
  <2> QED BY <1>2, <2>1, MinioGet
<1>3. CASE cl.drv = "alibaba"
  <2>1. o \in Alibaba!GetObject(cl, s, r)
    BY <1>3, GetDispatch
  <2> QED BY <1>3, <2>1, AlibabaGet
<1>4. CASE cl.drv = "tencent"
  <2>1. o \in Tencent!GetObject(cl, s, r)
    BY <1>4, GetDispatch
  <2> QED BY <1>4, <2>1, TencentGet
<1>5. CASE cl.drv = "huawei"
  <2>1. o \in Huawei!GetObject(cl, s, r)
    BY <1>5, GetDispatch
  <2> QED BY <1>5, <2>1, HuaweiGet
<1>6. CASE cl.drv = "volcengine"
  <2>1. o \in Volcengine!GetObject(cl, s, r)
    BY <1>6, GetDispatch
  <2> QED BY <1>6, <2>1, VolcengineGet
<1>7. CASE cl.drv = "gcs"
  <2>1. o \in Gcs!GetObject(cl, s, r)
    BY <1>7, GetDispatch
  <2> QED BY <1>7, <2>1, GcsGet
<1>8. CASE cl.drv = "azure"
  <2>1. o \in Azure!GetObject(cl, s, r)
    BY <1>8, GetDispatch
  <2> QED BY <1>8, <2>1, AzureGet
<1>9. CASE cl.drv = "qiniu"
  <2>1. o \in Qiniu!GetObject(cl, s, r)
    BY <1>9, GetDispatch
  <2> QED BY <1>9, <2>1, QiniuGet
<1>10. CASE cl.drv = "upyun"
  <2>1. o \in Upyun!GetObject(cl, s, r)
    BY <1>10, GetDispatch
  <2> QED BY <1>10, <2>1, UpyunGet
<1> QED BY <1>1, <1>2, <1>3, <1>4, <1>5, <1>6, <1>7, <1>8, <1>9, <1>10 DEF AllDrivers

\* Delete of any client only removes, and but for Azure its refusals are
\* the truth.
LEMMA DeleteHonest ==
  ASSUME NEW cl, cl.drv \in AllDrivers, NEW s, NEW r, 
         NEW o \in DeleteObject(cl, s, r)
  PROVE  Shrinks(s, o.store) /\ (cl.drv # "azure" => Honest(s, o))
<1>1. CASE cl.drv = "aws"
  <2>1. o \in Aws!DeleteObject(cl, s, r)
    BY <1>1, DeleteDispatch
  <2> QED BY <1>1, <2>1, AwsDelete
<1>2. CASE cl.drv = "minio"
  <2>1. o \in Minio!DeleteObject(cl, s, r)
    BY <1>2, DeleteDispatch
  <2> QED BY <1>2, <2>1, MinioDelete
<1>3. CASE cl.drv = "alibaba"
  <2>1. o \in Alibaba!DeleteObject(cl, s, r)
    BY <1>3, DeleteDispatch
  <2> QED BY <1>3, <2>1, AlibabaDelete
<1>4. CASE cl.drv = "tencent"
  <2>1. o \in Tencent!DeleteObject(cl, s, r)
    BY <1>4, DeleteDispatch
  <2> QED BY <1>4, <2>1, TencentDelete
<1>5. CASE cl.drv = "huawei"
  <2>1. o \in Huawei!DeleteObject(cl, s, r)
    BY <1>5, DeleteDispatch
  <2> QED BY <1>5, <2>1, HuaweiDelete
<1>6. CASE cl.drv = "volcengine"
  <2>1. o \in Volcengine!DeleteObject(cl, s, r)
    BY <1>6, DeleteDispatch
  <2> QED BY <1>6, <2>1, VolcengineDelete
<1>7. CASE cl.drv = "gcs"
  <2>1. o \in Gcs!DeleteObject(cl, s, r)
    BY <1>7, DeleteDispatch
  <2> QED BY <1>7, <2>1, GcsDelete
<1>8. CASE cl.drv = "azure"
  <2>1. o \in Azure!DeleteObject(cl, s, r)
    BY <1>8, DeleteDispatch
  <2> QED BY <1>8, <2>1, AzureDelete
<1>9. CASE cl.drv = "qiniu"
  <2>1. o \in Qiniu!DeleteObject(cl, s, r)
    BY <1>9, DeleteDispatch
  <2> QED BY <1>9, <2>1, QiniuDelete
<1>10. CASE cl.drv = "upyun"
  <2>1. o \in Upyun!DeleteObject(cl, s, r)
    BY <1>10, DeleteDispatch
  <2> QED BY <1>10, <2>1, UpyunDelete
<1> QED BY <1>1, <1>2, <1>3, <1>4, <1>5, <1>6, <1>7, <1>8, <1>9, <1>10 DEF AllDrivers

\* DeleteMany of a key or two, by any client, removes them and accounts for
\* them.
LEMMA DeleteManyTells ==
  ASSUME NEW cl, cl.drv \in AllDrivers, NEW s, NEW r, NamesView(cl, r),
         ShortList(r.keys), HasBucket(s, r.bucket), NEW o \in DeleteMany(cl, s, r)
  PROVE  Shrinks(s, o.store) /\ Accounts(s, r.bucket, Range(r.keys), r.quiet, o)
<1>0. "objs" \in DOMAIN s
  BY DEF HasBucket
<1>1. CASE cl.drv = "aws"
  <2>1. o \in Aws!DeleteMany(cl, s, r)
    BY <1>1, DeleteManyDispatch
  <2> QED BY <1>0, <1>1, <2>1, AwsDeleteMany
<1>2. CASE cl.drv = "minio"
  <2>1. o \in Minio!DeleteMany(cl, s, r)
    BY <1>2, DeleteManyDispatch
  <2> QED BY <1>0, <1>2, <2>1, MinioDeleteMany
<1>3. CASE cl.drv = "alibaba"
  <2>1. o \in Alibaba!DeleteMany(cl, s, r)
    BY <1>3, DeleteManyDispatch
  <2> QED BY <1>0, <1>3, <2>1, AlibabaDeleteMany
<1>4. CASE cl.drv = "tencent"
  <2>1. o \in Tencent!DeleteMany(cl, s, r)
    BY <1>4, DeleteManyDispatch
  <2> QED BY <1>0, <1>4, <2>1, TencentDeleteMany
<1>5. CASE cl.drv = "huawei"
  <2>1. o \in Huawei!DeleteMany(cl, s, r)
    BY <1>5, DeleteManyDispatch
  <2> QED BY <1>0, <1>5, <2>1, HuaweiDeleteMany
<1>6. CASE cl.drv = "volcengine"
  <2>1. o \in Volcengine!DeleteMany(cl, s, r)
    BY <1>6, DeleteManyDispatch
  <2> QED BY <1>0, <1>6, <2>1, VolcengineDeleteMany
<1>7. CASE cl.drv = "gcs"
  <2>1. o \in Gcs!DeleteMany(cl, s, r)
    BY <1>7, DeleteManyDispatch
  <2> QED BY <1>7, <2>1, GcsDeleteMany
<1>8. CASE cl.drv = "azure"
  <2>1. o \in Azure!DeleteMany(cl, s, r)
    BY <1>8, DeleteManyDispatch
  <2> QED BY <1>8, <2>1, AzureDeleteMany
<1>9. CASE cl.drv = "qiniu"
  <2>1. o \in Qiniu!DeleteMany(cl, s, r)
    BY <1>9, DeleteManyDispatch
  <2> QED BY <1>0, <1>9, <2>1, QiniuDeleteMany
<1>10. CASE cl.drv = "upyun"
  <2>1. o \in Upyun!DeleteMany(cl, s, r)
    BY <1>10, DeleteManyDispatch
  <2> QED BY <1>10, <2>1, UpyunDeleteMany
<1> QED BY <1>1, <1>2, <1>3, <1>4, <1>5, <1>6, <1>7, <1>8, <1>9, <1>10 DEF AllDrivers

\* Copy of any client keeps the store's fields, and but for Azure its
\* refusals are the truth.
LEMMA CopyHonest ==
  ASSUME NEW cl, cl.drv \in AllDrivers, NEW s, NEW r, NamesView(cl, r), "objs" \in DOMAIN s,
         CopiesFrom(r), r.srcKey # r.key,
         NEW o \in CopyObject(cl, s, r)
  PROVE  SameFields(s, o.store) /\ (cl.drv # "azure" => Honest(s, o))
<1>1. CASE cl.drv = "aws"
  <2>1. o \in Aws!CopyObject(cl, s, r)
    BY <1>1, CopyDispatch
  <2> QED BY <1>1, <2>1, AwsCopy
<1>2. CASE cl.drv = "minio"
  <2>1. o \in Minio!CopyObject(cl, s, r)
    BY <1>2, CopyDispatch
  <2> QED BY <1>2, <2>1, MinioCopy
<1>3. CASE cl.drv = "alibaba"
  <2>1. o \in Alibaba!CopyObject(cl, s, r)
    BY <1>3, CopyDispatch
  <2> QED BY <1>3, <2>1, AlibabaCopy
<1>4. CASE cl.drv = "tencent"
  <2>1. o \in Tencent!CopyObject(cl, s, r)
    BY <1>4, CopyDispatch
  <2> QED BY <1>4, <2>1, TencentCopy
<1>5. CASE cl.drv = "huawei"
  <2>1. o \in Huawei!CopyObject(cl, s, r)
    BY <1>5, CopyDispatch
  <2> QED BY <1>5, <2>1, HuaweiCopy
<1>6. CASE cl.drv = "volcengine"
  <2>1. o \in Volcengine!CopyObject(cl, s, r)
    BY <1>6, CopyDispatch
  <2> QED BY <1>6, <2>1, VolcengineCopy
<1>7. CASE cl.drv = "gcs"
  <2>1. o \in Gcs!CopyObject(cl, s, r)
    BY <1>7, CopyDispatch
  <2> QED BY <1>7, <2>1, GcsCopy
<1>8. CASE cl.drv = "azure"
  <2>1. o \in Azure!CopyObject(cl, s, r)
    BY <1>8, CopyDispatch
  <2> QED BY <1>8, <2>1, AzureCopy
<1>9. CASE cl.drv = "qiniu"
  <2>1. o \in Qiniu!CopyObject(cl, s, r)
    BY <1>9, CopyDispatch
  <2> QED BY <1>9, <2>1, QiniuCopy
<1>10. CASE cl.drv = "upyun"
  <2>1. o \in Upyun!CopyObject(cl, s, r)
    BY <1>10, CopyDispatch
  <2> QED BY <1>10, <2>1, UpyunCopy
<1> QED BY <1>1, <1>2, <1>3, <1>4, <1>5, <1>6, <1>7, <1>8, <1>9, <1>10 DEF AllDrivers

\* Copy of the drivers that forward both preconditions of a Put touches
\* nothing but its destination.
LEMMA CopyAdds ==
  ASSUME NEW cl, cl.drv \in ForwardsIfMatch \cap ForwardsIfNoneMatch, NEW s, NEW r, NamesView(cl, r),
         NEW o \in CopyObject(cl, s, r)
  PROVE  Adds(s, <<r.bucket, r.key>>, o.store)
<1>1. CASE cl.drv = "aws"
  <2>1. o \in Aws!CopyObject(cl, s, r)
    BY <1>1, CopyDispatch
  <2> QED BY <1>1, <2>1, AwsCopy DEF Aws!At
<1>2. CASE cl.drv = "minio"
  <2>1. o \in Minio!CopyObject(cl, s, r)
    BY <1>2, CopyDispatch
  <2> QED BY <1>2, <2>1, MinioCopy
<1>3. CASE cl.drv = "alibaba"
  <2>1. o \in Alibaba!CopyObject(cl, s, r)
    BY <1>3, CopyDispatch
  <2> QED BY <1>3, <2>1, AlibabaCopy
<1>4. CASE cl.drv = "tencent"
  <2>1. o \in Tencent!CopyObject(cl, s, r)
    BY <1>4, CopyDispatch
  <2> QED BY <1>4, <2>1, TencentCopy
<1>5. CASE cl.drv = "upyun"
  <2>1. o \in Upyun!CopyObject(cl, s, r)
    BY <1>5, CopyDispatch
  <2> QED BY <1>5, <2>1, UpyunCopy DEF Upyun!At, NamesView
<1> QED BY <1>1, <1>2, <1>3, <1>4, <1>5 DEF ForwardsIfMatch, ForwardsIfNoneMatch

\* But for the drivers that need a directive or send neither, a copy has the
\* bytes and headers of its source, which but for GCS and Azure matched.
LEMMA CopyFaithful ==
  ASSUME NEW cl, cl.drv \in AllDrivers \ {"aws", "qiniu", "upyun"}, NEW s, NEW r, NamesView(cl, r), "objs" \in DOMAIN s,
         CopiesFrom(r), r.srcKey # r.key,
         NEW o \in CopyObject(cl, s, r)
  PROVE  CopiesSource(s, r, o) /\ (cl.drv \notin {"gcs", "azure"} => CopiesMatching(s, r, o))
<1>1. CASE cl.drv = "minio"
  <2>1. o \in Minio!CopyObject(cl, s, r)
    BY <1>1, CopyDispatch
  <2> QED BY <1>1, <2>1, MinioCopy
<1>2. CASE cl.drv = "alibaba"
  <2>1. o \in Alibaba!CopyObject(cl, s, r)
    BY <1>2, CopyDispatch
  <2> QED BY <1>2, <2>1, AlibabaCopy
<1>3. CASE cl.drv = "tencent"
  <2>1. o \in Tencent!CopyObject(cl, s, r)
    BY <1>3, CopyDispatch
  <2> QED BY <1>3, <2>1, TencentCopy
<1>4. CASE cl.drv = "huawei"
  <2>1. o \in Huawei!CopyObject(cl, s, r)
    BY <1>4, CopyDispatch
  <2> QED BY <1>4, <2>1, HuaweiCopy
<1>5. CASE cl.drv = "volcengine"
  <2>1. o \in Volcengine!CopyObject(cl, s, r)
    BY <1>5, CopyDispatch
  <2> QED BY <1>5, <2>1, VolcengineCopy
<1>6. CASE cl.drv = "gcs"
  <2>1. o \in Gcs!CopyObject(cl, s, r)
    BY <1>6, CopyDispatch
  <2> QED BY <1>6, <2>1, GcsCopy
<1>7. CASE cl.drv = "azure"
  <2>1. o \in Azure!CopyObject(cl, s, r)
    BY <1>7, CopyDispatch
  <2> QED BY <1>7, <2>1, AzureCopy
<1> QED BY <1>1, <1>2, <1>3, <1>4, <1>5, <1>6, <1>7 DEF AllDrivers

-----------------------------------------------------------------------------
(* The requests of the callers *)

\* A caller's request names the bucket, and the fields it sets are those of
\* the request.
LEMMA SaveFields ==
  ASSUME NEW w, NEW cut
  PROVE  /\ SaveRequest(w, cut).bucket = Bucket
         /\ SaveRequest(w, cut).key = 1
         /\ SaveRequest(w, cut).body.fails = cut
         /\ SaveRequest(w, cut).body.bytes =
              IF cut THEN SubSeq(seen[w].bytes \o Mark(w), 1,
                                 Len(seen[w].bytes \o Mark(w)) - 1)
              ELSE seen[w].bytes \o Mark(w)
         /\ SaveRequest(w, cut).match = IF seen[w].there THEN {seen[w].bytes} ELSE {}
         /\ SaveRequest(w, cut).noneMatch = IF seen[w].there THEN "" ELSE "*"
         /\ "bucket" \in DOMAIN SaveRequest(w, cut) /\ "body" \in DOMAIN SaveRequest(w, cut)
BY DEF SaveRequest, Req, Request

\* A precondition on a request leaves its bucket and its body.
LEMMA ConditionedFields ==
  ASSUME NEW q, NEW match, NEW none, "bucket" \in DOMAIN q, "body" \in DOMAIN q
  PROVE  /\ Conditioned(q, match, none).bucket = q.bucket
         /\ Conditioned(q, match, none).body = q.body
BY DEF Conditioned

\* A Save cuts its body or does not.
LEMMA SaveBody ==
  ASSUME NEW w, NEW cut
  PROVE  SaveRequest(w, cut).body.fails = cut
BY SaveFields, Zenon

\* A Save names the bucket.
LEMMA SaveNames ==
  ASSUME NEW w, NEW cut
  PROVE  SaveRequest(w, cut).bucket = Bucket
BY DEF SaveRequest, Req, Request

\* So does every Put that is tried.
LEMMA PutRequestFields ==
  ASSUME NEW put \in PutRequests
  PROVE  put.bucket = Bucket /\ put.body.fails \in BOOLEAN
<1>1. PICK q \in SaveRequests, match \in Tags, none \in Stars : put = Conditioned(q, match, none)
  BY DEF PutRequests
<1>2. PICK cut \in BOOLEAN : q = SaveRequest(1, cut)
  BY Zenon DEF SaveRequests
<1>3. "bucket" \in DOMAIN q /\ "body" \in DOMAIN q
  BY <1>2, SaveFields, Zenon
<1>4. q.bucket = Bucket
  BY <1>2, SaveNames, Zenon
<1>5. q.body.fails = cut
  BY <1>2, SaveBody, Zenon
<1>6. put.bucket = q.bucket /\ put.body = q.body
  BY <1>1, <1>3, ConditionedFields, Zenon
<1>7. put.body.fails = cut
  BY <1>5, <1>6, Zenon
<1> QED BY <1>4, <1>6, <1>7, Zenon

\* What the Copies that are tried ask for.
LEMMA CopyRequestFields ==
  ASSUME NEW meta, meta # "empty", NEW match
  PROVE  LET r == CopyRequest(meta, match)
         IN /\ r.bucket = Bucket /\ r.key = 2 /\ r.srcKey = 1
            /\ r.meta = meta /\ r.match = match /\ CopiesFrom(r)
BY DEF CopyRequest, Req, Request, CopiesFrom

\* What the Deletes that are tried ask for.
LEMMA DeleteRequestFields ==
  ASSUME NEW keys, NEW quiet
  PROVE  DeleteRequest(keys, quiet).bucket = Bucket /\ DeleteRequest(keys, quiet).keys = keys
BY DEF DeleteRequest, Req, Request

\* The Delete the system does is one of those.
LEMMA DeletesTried == DeleteRequest(<<2, 1>>, FALSE) \in DeleteRequests
<1>1. \A keys \in {<<1>>, <<2, 1>>} : \A quiet \in BOOLEAN :
        DeleteRequest(keys, quiet) \in DeleteRequests
  <2> TAKE keys \in {<<1>>, <<2, 1>>}
  <2> TAKE quiet \in BOOLEAN
  <2> QED BY DEF DeleteRequests
<1>2. <<2, 1>> \in {<<1>>, <<2, 1>>} /\ FALSE \in BOOLEAN
  OBVIOUS
<1> QED BY <1>1, <1>2, Zenon

\* What the ranged Gets name.
LEMMA RangeRequestNames ==
  ASSUME NEW first, NEW last
  PROVE  RangeRequest(first, last).bucket = Bucket /\ RangeRequest(first, last).key = 1
BY DEF RangeRequest, Req, Request

\* And the range they ask for.
LEMMA RangeRequestFields ==
  ASSUME NEW first, NEW last
  PROVE  /\ RangeRequest(first, last).whole = FALSE
         /\ RangeRequest(first, last).first = first /\ RangeRequest(first, last).last = last
BY DEF RangeRequest, Req, Request

\* A Get of the whole object is one of its open range from 0.
LEMMA WholeRequestFields ==
  /\ WholeRequest.bucket = Bucket /\ WholeRequest.key = 1 /\ WholeRequest.whole = TRUE
  /\ WholeRequest.first = 0 /\ WholeRequest.last = -1
BY DEF WholeRequest, Req, Request
-----------------------------------------------------------------------------
(* The states: a client of one of the drivers, a store with objects, and     *)
(* nothing but Puts into its bucket pending.                                 *)

\* The client is one that serves, the store keeps objects and has the bucket,
\* and what is on its way are Puts into the bucket.
Serves == /\ \E d \in Drivers : c = Serving(d, Bucket)
          /\ "objs" \in DOMAIN store
          /\ "buckets" \in DOMAIN store /\ Bucket \in store.buckets
          /\ \A r \in late : r.bucket = Bucket /\ r.body.fails \in BOOLEAN

\* In such a state the client is a view of Bucket.
LEMMA ServesView ==
  ASSUME Serves
  PROVE  c.drv \in AllDrivers /\ \A r : r.bucket = Bucket => NamesView(c, r)
<1>1. PICK d \in Drivers : c = Serving(d, Bucket)
  BY DEF Serves
<1>2. \A r : r.bucket = Bucket => c.drv = d /\ NamesView(c, r)
  BY <1>1, ServingView
<1>3. Req.bucket = Bucket
  BY DEF Req, Request
<1> QED BY <1>2, <1>3, CallsAssumption

\* What a Save does to the store, an object service's way.
LEMMA SaveKeepsFields ==
  ASSUME Serves, NEW w, NEW cut \in BOOLEAN, NEW o \in PutObject(c, store, SaveRequest(w, cut))
  PROVE  SameFields(store, o.store)
<1> DEFINE r == SaveRequest(w, cut)
<1>1. r.bucket = Bucket
  BY SaveNames
<1>2. r.body.fails = cut
  BY SaveBody, Zenon
<1> HIDE DEF r
<1>3. PutIsHonest(c, store, r, o)
  <2>1. o \in PutObject(c, store, r)
    BY DEF r
  <2>2. NamesView(c, r) /\ c.drv \in AllDrivers /\ r.body.fails \in BOOLEAN
    BY <1>1, <1>2, ServesView
  <2> QED BY <2>1, <2>2, PutHonest
<1> QED BY <1>3 DEF PutIsHonest

\* What a DeleteMany does in such a state.
LEMMA ServesAccounts ==
  ASSUME Serves, NEW r \in DeleteRequests, NEW o \in DeleteMany(c, store, r)
  PROVE  Shrinks(store, o.store) /\ Accounts(store, Bucket, Range(r.keys), r.quiet, o)
<1>1. PICK keys \in {<<1>>, <<2, 1>>}, quiet \in BOOLEAN : r = DeleteRequest(keys, quiet)
  BY DEF DeleteRequests
<1>2. r.bucket = Bucket /\ r.keys = keys
  BY <1>1, DeleteRequestFields
<1>3. ShortList(keys)
  <2>1. 2 # 1
    OBVIOUS
  <2> QED BY <1>1, <2>1 DEF ShortList
<1>4. HasBucket(store, Bucket)
  BY DEF Serves, HasBucket
<1> QED BY <1>2, <1>3, <1>4, ServesView, DeleteManyTells

\* Every step keeps the client, and what the store of a state has.
LEMMA ServesStep ==
  ASSUME Serves, [Next]_vars
  PROVE  Serves'
<1>1. ASSUME NEW w \in Writers, Load(w)
      PROVE  Serves'
  BY <1>1 DEF Load, Serves
<1>2. ASSUME NEW w \in Writers, NEW cut \in BOOLEAN, Save(w, cut)
      PROVE  Serves'
  <2>1. PICK o \in PutObject(c, store, SaveRequest(w, cut)) :
          store' = o.store /\ (late' = late \/ (~cut /\ late' = late \cup {SaveRequest(w, cut)}))
    BY <1>2 DEF Save
  <2>2. /\ "objs" \in DOMAIN store'
        /\ "buckets" \in DOMAIN store' /\ Bucket \in store'.buckets
    BY <2>1, SaveKeepsFields DEF Serves, SameFields
  <2>3. SaveRequest(w, cut).bucket = Bucket
    BY SaveNames
  <2>4. SaveRequest(w, cut).body.fails \in BOOLEAN
    BY SaveBody, Zenon
  <2>5. \A r \in late' : r.bucket = Bucket /\ r.body.fails \in BOOLEAN
    BY <2>1, <2>3, <2>4, Zenon DEF Serves
  <2> QED BY <1>2, <2>2, <2>5 DEF Serves, Save
<1>3. ASSUME NEW r \in late, LateArrives(r)
      PROVE  Serves'
  <2>1. PICK o \in PutObject(c, store, r) : store' = o.store
    BY <1>3 DEF LateArrives
  <2>2. PutIsHonest(c, store, r, o)
    BY <2>1, ServesView, PutHonest DEF Serves
  <2> QED BY <1>3, <2>1, <2>2 DEF PutIsHonest, SameFields, Serves, LateArrives
<1>4. CASE DeleteKeys(<<2, 1>>)
  <2>1. PICK o \in DeleteMany(c, store, DeleteRequest(<<2, 1>>, FALSE)) : store' = o.store
    BY <1>4 DEF DeleteKeys
  <2>2. Shrinks(store, o.store)
    <3> DEFINE no == FALSE  r == DeleteRequest(<<2, 1>>, no)
    <3>1. r \in DeleteRequests
      BY DeletesTried
    <3> HIDE DEF r
    <3> QED BY <2>1, <3>1, ServesAccounts DEF r
  <2> QED BY <1>4, <2>1, <2>2 DEF Shrinks, SameFields, Serves, DeleteKeys
<1>5. CASE CopyShared
  <2> DEFINE r == CopyRequest("m2", {})
  <2>1. PICK o \in CopyObject(c, store, r) : store' = o.store
    BY <1>5 DEF CopyShared
  <2>2. /\ r.bucket = Bucket /\ CopiesFrom(r)
        /\ r.srcKey # r.key
    BY CopyRequestFields
  <2> HIDE DEF r
  <2>3. SameFields(store, o.store)
    BY <2>1, <2>2, ServesView, CopyHonest DEF Serves
  <2> QED BY <1>5, <2>1, <2>3 DEF SameFields, Serves, CopyShared
<1>6. CASE UNCHANGED vars
  BY <1>6 DEF vars, Serves
<1> QED BY <1>1, <1>2, <1>3, <1>4, <1>5, <1>6 DEF Next

\* In every reachable state a driver under test serves the bucket.
THEOREM ServesAlways == Spec => []Serves
<1>1. Init => Serves
  <2> SUFFICES ASSUME Init PROVE Serves
    OBVIOUS
  <2>1. /\ "objs" \in DOMAIN store
        /\ "buckets" \in DOMAIN store /\ Bucket \in store.buckets
    BY DEF Init, NewStore
  <2> QED BY <2>1 DEF Init, Serves
<1> QED BY <1>1, ServesStep, PTL DEF Spec

-----------------------------------------------------------------------------
(* Refusals, ranges and copies *)

\* What is refused, by any driver but Azure, and what is cut short, by any
\* driver but GCS, has changed nothing (mapError of the drivers).
THEOREM SpecNothingHalfDone == Spec => []NothingHalfDone
<1>1. Serves => NothingHalfDone
  <2> SUFFICES ASSUME Serves PROVE NothingHalfDone
    OBVIOUS
  <2>1. \A o : Refused(o) => o.code \in RefusalCodes
    BY DEF Refused, RefusalCodes
  <2>2. ASSUME NEW r \in PutRequests, NEW o \in PutObject(c, store, r),
               (Refused(o) /\ c.drv # "azure") \/ (r.body.fails /\ c.drv # "gcs")
        PROVE  o.store = store
    <3>1. r.bucket = Bucket /\ r.body.fails \in BOOLEAN
      BY PutRequestFields
    <3>2. PutIsHonest(c, store, r, o)
      BY <2>2, <3>1, ServesView, PutHonest
    <3> QED BY <2>1, <2>2, <3>2 DEF PutIsHonest, Honest
  <2>3. ASSUME NEW r \in CopyRequests, NEW o \in CopyObject(c, store, r),
               Refused(o), c.drv # "azure"
        PROVE  o.store = store
    <3>1. PICK meta \in {"nil", "m2"}, match \in Tags : r = CopyRequest(meta, match)
      BY DEF CopyRequests
    <3>2. meta # "empty"
      OBVIOUS
    <3>3. r.bucket = Bucket /\ r.key = 2 /\ r.srcKey = 1 /\ CopiesFrom(r)
      BY <3>1, <3>2, CopyRequestFields
    <3>4. Honest(store, o)
      BY <2>3, <3>3, ServesView, CopyHonest DEF Serves
    <3> QED BY <2>1, <2>3, <3>4 DEF Honest
  <2>4. ASSUME NEW o \in DeleteObject(c, store, WholeRequest), Refused(o), c.drv # "azure"
        PROVE  o.store = store
    BY <2>1, <2>4, ServesView, DeleteHonest DEF Honest
  <2>5. \A r \in PutRequests : \A o \in PutObject(c, store, r) :
          (Refused(o) /\ c.drv # "azure") \/ (r.body.fails /\ c.drv # "gcs")
            => o.store = store
    BY <2>2
  <2> DEFINE copies == {CopyObject(c, store, r) : r \in CopyRequests}
             dels == DeleteObject(c, store, WholeRequest)
  <2>6. ASSUME NEW S \in copies, NEW o \in S, Refused(o) /\ c.drv # "azure"
        PROVE  o.store = store
    <3>1. PICK r \in CopyRequests : S = CopyObject(c, store, r)
      OBVIOUS
    <3> QED BY <2>3, <2>6, <3>1
  <2>7. \A o \in dels : Refused(o) /\ c.drv # "azure" => o.store = store
    BY <2>4
  <2>8. ASSUME NEW o \in dels \cup UNION copies, Refused(o) /\ c.drv # "azure"
        PROVE  o.store = store
    <3> HIDE DEF copies, dels
    <3>1. o \in dels \/ o \in UNION copies
      OBVIOUS
    <3>2. ASSUME o \in UNION copies
          PROVE  o.store = store
      <4>1. PICK S \in copies : o \in S
        BY <3>2
      <4> QED BY <2>6, <2>8, <4>1
    <3> QED BY <2>7, <2>8, <3>1, <3>2
  <2> QED BY <2>5, <2>8, Zenon DEF NothingHalfDone
<1> QED BY <1>1, ServesAlways, PTL

\* A Get that succeeds gives the bytes of the range it was asked for.
THEOREM SpecRangeIsExact == Spec => []RangeIsExact
<1>1. Serves => RangeIsExact
  <2> SUFFICES ASSUME Serves, NEW r \in RangeRequests, NEW o \in GetObject(c, store, r),
                      o.code = "ok", r.last = -1 \/ r.last >= r.first,
                      ~(c.drv = "minio" /\ ~r.whole /\ r.first = 0 /\ r.last = -1),
                      ~(c.drv = "huawei" /\ r.first = 0 /\ r.last = 0)
               PROVE  o.out.bytes = Wanted(r)
    BY DEF RangeIsExact
  <2>1. /\ r.bucket = Bucket /\ r.key = 1
        /\ r.first \in Nat /\ r.last \in Int /\ r.last >= -1
        /\ r.whole => r.first = 0 /\ r.last = -1
    <3>1. CASE r = WholeRequest
      <4>1. r.bucket = Bucket /\ r.key = 1
        BY <3>1, WholeRequestFields
      <4>2. r.first = 0
        BY <3>1, WholeRequestFields
      <4>3. r.last = -1
        BY <3>1, WholeRequestFields
      <4> QED BY <4>1, <4>2, <4>3
    <3> DEFINE F == 0..2  L == -1..3
    <3>2. r = WholeRequest \/ r \in {RangeRequest(f, l) : f \in F, l \in L}
      BY DEF RangeRequests
    <3>3. (\A f \in F : f \in Nat) /\ \A l \in L : l \in Int /\ l >= -1
      OBVIOUS
    <3> HIDE DEF F, L
    <3>4. CASE r \in {RangeRequest(f, l) : f \in F, l \in L}
      <4>1. PICK f \in F, l \in L : r = RangeRequest(f, l)
        BY <3>4
      <4> DEFINE q == RangeRequest(f, l)
      <4>2. q.bucket = Bucket /\ q.key = 1
        BY RangeRequestNames
      <4>3. q.first = f /\ q.last = l
        BY RangeRequestFields
      <4>4. ~q.whole
        BY RangeRequestFields
      <4> HIDE DEF q
      <4>5. r = q
        BY <4>1 DEF q
      <4> QED BY <3>3, <4>2, <4>3, <4>4, <4>5
    <3> QED BY <3>1, <3>2, <3>4
  <2>2. /\ AsksRange(r) /\ (c.drv = "minio" => r.whole \/ r.first > 0 \/ r.last >= 0)
        /\ c.drv = "huawei" => r.first # 0 \/ r.last # 0
    BY <2>1 DEF AsksRange
  <2>3. ReadsRange(store, r, o)
    BY <2>1, <2>2, ServesView, GetExact
  <2> QED BY <2>1, <2>3 DEF ReadsRange, Wanted, Bytes, Shared
<1> QED BY <1>1, ServesAlways, PTL

\* A copy has the bytes of the source it was conditioned on and the headers
\* the request asks for.
THEOREM SpecCopyIsFaithful == Spec => []CopyIsFaithful
<1>1. Serves => CopyIsFaithful
  <2> SUFFICES ASSUME Serves, NEW r \in CopyRequests, NEW o \in CopyObject(c, store, r),
                      o.code = "ok", c.drv \notin {"aws", "qiniu", "upyun"}
               PROVE  /\ o.store.objs[Copied].bytes = store.objs[Shared].bytes
                      /\ o.store.objs[Copied].meta =
                           IF r.meta = "nil" THEN store.objs[Shared].meta ELSE r.meta
                      /\ c.drv \notin {"gcs", "azure"} =>
                           r.match = {} \/ store.objs[Shared].bytes \in r.match
    BY DEF CopyIsFaithful
  <2>1. PICK meta \in {"nil", "m2"}, match \in Tags : r = CopyRequest(meta, match)
    BY DEF CopyRequests
  <2>2. meta # "empty"
    OBVIOUS
  <2>3. r.bucket = Bucket /\ r.key = 2 /\ r.srcKey = 1 /\ CopiesFrom(r)
    BY <2>1, <2>2, CopyRequestFields
  <2>4. CopiesSource(store, r, o) /\ (c.drv \notin {"gcs", "azure"} => CopiesMatching(store, r, o))
    BY <2>3, ServesView, CopyFaithful DEF Serves
  <2> QED BY <2>3, <2>4 DEF CopiesSource, CopiesMatching, Shared, Copied
<1> QED BY <1>1, ServesAlways, PTL

\* DeleteMany accounts for its keys: what is called deleted is gone, every key
\* is called deleted or failed, and what a refusal leaves was not touched.
THEOREM SpecDeleteManyAccounts == Spec => []DeleteManyAccounts
<1>1. Serves => DeleteManyAccounts
  <2> SUFFICES ASSUME Serves PROVE DeleteManyAccounts
    OBVIOUS
  <2>1. ASSUME NEW r \in DeleteRequests, NEW o \in DeleteMany(c, store, r)
        PROVE  /\ Accounts(store, Bucket, Range(r.keys), r.quiet, o)
               /\ Refused(o) => o.code \in RefusalCodes
    BY <2>1, ServesAccounts DEF Refused, RefusalCodes
  <2> QED BY <2>1 DEF DeleteManyAccounts, Accounts, Deleted, Gone, Stay
<1> QED BY <1>1, ServesAlways, PTL

-----------------------------------------------------------------------------
(* Acknowledged updates *)

\* A put by a driver that forwards both preconditions does nothing and does
\* not succeed, or the preconditions held and its bytes are in the object.
LEMMA PutWrites ==
  ASSUME NEW cl, cl.drv \in ForwardsIfMatch \cap ForwardsIfNoneMatch,
         NEW s, "objs" \in DOMAIN s, NEW r, NamesView(cl, r), r.body.fails \in BOOLEAN,
         NEW o \in PutObject(cl, s, r)
  PROVE  LET at == <<r.bucket, r.key>>
         IN \/ o.store = s /\ o.code # "ok"
            \/ /\ ~r.body.fails /\ ~Fails(s, at, r.match, r.noneMatch = "*")
               /\ Has(o.store, at) /\ o.store.objs[at].bytes = r.body.bytes
<1>1. CASE Declines(o, s)
  BY <1>1 DEF Declines
<1> DEFINE at == <<r.bucket, r.key>>  star == r.noneMatch = "*"  fails == r.body.fails
           match == r.match
<1>2. CASE SendsPut(s, r, r.match, star, o)
  <2>1. PICK meta : \E a \in SvcPut(s, at, ObjectOf(r.body.bytes, meta, r.ctype),
                                   fails, match, star) : Tells(a, o)
    BY <1>2 DEF SendsPut
  <2> DEFINE obj == ObjectOf(r.body.bytes, meta, r.ctype)
  <2>2. PICK a \in SvcPut(s, at, obj, fails, match, star) : Tells(a, o)
    BY <2>1
  <2>3. fails \in BOOLEAN /\ star \in BOOLEAN
    OBVIOUS
  <2>4. obj.bytes = r.body.bytes
    BY DEF ObjectOf
  <2> HIDE DEF at, star, fails, match, obj
  <2>5. PutDoes(s, at, obj, fails, match, star, a)
    BY <2>2, <2>3, SvcPutDoes
  <2>6. \/ o.store = s /\ o.code # "ok"
        \/ o.store = StoreObject(s, at, obj) /\ ~fails /\ ~Fails(s, at, match, star)
    BY <2>2, <2>5 DEF PutDoes, Tells
  <2>7. Has(StoreObject(s, at, obj), at) /\ StoreObject(s, at, obj).objs[at] = obj
    BY DEF Has, StoreObject, With
  <2> QED BY <2>4, <2>6, <2>7 DEF at, star, fails, match
<1> QED BY <1>1, <1>2, PutForwards

\* What the writers and the network know of the object: numbers, and of every
\* pending put that it adds to what it was conditioned on.
WritesBack(r) ==
  \/ r.body.fails
  \/ /\ r.body.bytes \in Seq(Int)
     /\ \/ r.noneMatch = "*"
        \/ \E b \in Seq(Int) : r.match = {b} /\ Range(b) \subseteq Range(r.body.bytes)

\* A driver that forwards both preconditions keeps what was acknowledged in the
\* object, and what is on its way keeps it there.
AckInv ==
  c.drv \in ForwardsIfMatch \cap ForwardsIfNoneMatch =>
    /\ Bytes(Shared) \in Seq(Int)
    /\ acked \subseteq Range(Bytes(Shared))
    /\ DOMAIN seen = Writers /\ \A w \in Writers : seen[w].bytes \in Seq(Int)
    /\ \A r \in late : r.key = 1 /\ WritesBack(r)

\* Nothing a writer puts takes an element away.
LEMMA NothingOverwritten ==
  ASSUME Serves, c.drv \in ForwardsIfMatch \cap ForwardsIfNoneMatch,
         NEW r, r.bucket = Bucket, r.key = 1, r.body.fails \in BOOLEAN, WritesBack(r),
         NEW o \in PutObject(c, store, r)
  PROVE  \/ o.store = store /\ o.code # "ok"
         \/ /\ Has(o.store, Shared) /\ o.store.objs[Shared].bytes = r.body.bytes
            /\ ~r.body.fails /\ r.body.bytes \in Seq(Int)
            /\ Range(Bytes(Shared)) \subseteq Range(r.body.bytes)
<1>1. <<r.bucket, r.key>> = Shared
  BY DEF Shared
<1>2. NamesView(c, r) /\ "objs" \in DOMAIN store
  BY ServesView DEF Serves
<1> SUFFICES ASSUME ~(o.store = store /\ o.code # "ok")
             PROVE  /\ Has(o.store, Shared) /\ o.store.objs[Shared].bytes = r.body.bytes
                    /\ ~r.body.fails /\ r.body.bytes \in Seq(Int)
                    /\ Range(Bytes(Shared)) \subseteq Range(r.body.bytes)
  OBVIOUS
<1>3. /\ ~r.body.fails /\ ~Fails(store, Shared, r.match, r.noneMatch = "*")
      /\ Has(o.store, Shared) /\ o.store.objs[Shared].bytes = r.body.bytes
  BY <1>1, <1>2, PutWrites
<1>4. CASE r.noneMatch = "*"
  <2>1. ~Has(store, Shared)
    BY <1>3, <1>4 DEF Fails
  <2> QED BY <1>3, <2>1 DEF WritesBack, Bytes, Range
<1>5. ASSUME NEW b \in Seq(Int), r.match = {b}, Range(b) \subseteq Range(r.body.bytes)
      PROVE  Range(Bytes(Shared)) \subseteq Range(r.body.bytes)
  <2>1. Bytes(Shared) = b
    BY <1>3, <1>5 DEF Fails, Etag, Bytes
  <2> QED BY <1>5, <2>1
<1> QED BY <1>3, <1>4, <1>5 DEF WritesBack

\* A writer's put adds its mark to what it saw.
LEMMA SaveWritesBack ==
  ASSUME NEW w \in Writers, NEW cut \in BOOLEAN, seen[w].bytes \in Seq(Int)
  PROVE  /\ WritesBack(SaveRequest(w, cut)) /\ SaveRequest(w, cut).key = 1
         /\ ~cut => w \in Range(SaveRequest(w, cut).body.bytes)
<1>1. w \in Int /\ 0 - w \in Int
  BY CallsAssumption
<1> DEFINE b == seen[w].bytes  marked == b \o <<w, 0 - w>>
<1>2. b \in Seq(Int) /\ marked \in Seq(Int)
  BY <1>1
<1>3. marked[Len(b) + 1] = w /\ Len(b) + 1 \in DOMAIN marked
  BY <1>1, <1>2
<1>4. \A i \in DOMAIN b : i \in DOMAIN marked /\ marked[i] = b[i]
  BY <1>1, <1>2
<1>5. w \in Range(marked) /\ Range(b) \subseteq Range(marked)
  BY <1>3, <1>4 DEF Range
<1> DEFINE r == SaveRequest(w, cut)
<1>6. r.key = 1 /\ r.match = (IF seen[w].there THEN {b} ELSE {})
  BY DEF SaveRequest, Req, Request
<1>7. r.noneMatch = (IF seen[w].there THEN "" ELSE "*")
  BY DEF SaveRequest, Req, Request
<1>8. r.body.fails = cut
  BY SaveBody, Zenon
<1>9. ~cut => r.body.bytes = marked
  BY SaveFields, Zenon DEF Mark
<1> HIDE DEF b, marked, r
<1>10. WritesBack(r)
  BY <1>2, <1>5, <1>6, <1>7, <1>8, <1>9 DEF WritesBack
<1> QED BY <1>5, <1>6, <1>9, <1>10 DEF r

\* A Get of the whole object that succeeds gives its bytes.
LEMMA LoadReads ==
  ASSUME Serves, Bytes(Shared) \in Seq(Int), NEW o \in GetObject(c, store, WholeRequest),
         o.code = "ok"
  PROVE  o.out.bytes \in Seq(Int)
<1>1. AsksRange(WholeRequest) /\ WholeRequest.whole
  BY WholeRequestFields DEF AsksRange
<1>2. ReadsRange(store, WholeRequest, o)
  BY <1>1, WholeRequestFields, ServesView, GetExact
<1>3. o.out.bytes = Slice(Bytes(Shared), 0, -1)
  BY <1>2, WholeRequestFields DEF ReadsRange, Bytes, Shared
<1>4. Slice(Bytes(Shared), 0, -1) = SubSeq(Bytes(Shared), 1, Len(Bytes(Shared)))
  BY DEF Slice
<1>5. \A q \in Seq(Int) : SubSeq(q, 1, Len(q)) \in Seq(Int)
  OBVIOUS
<1> QED BY <1>3, <1>4, <1>5

\* Every step keeps what the writers know.
LEMMA AckStep ==
  ASSUME Serves, AckInv, [Next]_vars
  PROVE  AckInv'
<1> SUFFICES ASSUME c'.drv \in ForwardsIfMatch \cap ForwardsIfNoneMatch
             PROVE  /\ Bytes(Shared)' \in Seq(Int)
                    /\ acked' \subseteq Range(Bytes(Shared)')
                    /\ DOMAIN seen' = Writers /\ \A w \in Writers : seen'[w].bytes \in Seq(Int)
                    /\ \A r \in late' : r.key = 1 /\ WritesBack(r)
  BY DEF AckInv, WritesBack, Shared
<1>1. c.drv \in ForwardsIfMatch \cap ForwardsIfNoneMatch
  BY DEF Next, Load, Save, LateArrives, DeleteKeys, CopyShared, vars
<1>2. /\ Bytes(Shared) \in Seq(Int)
      /\ acked \subseteq Range(Bytes(Shared))
      /\ DOMAIN seen = Writers /\ \A w \in Writers : seen[w].bytes \in Seq(Int)
      /\ \A r \in late : r.key = 1 /\ WritesBack(r)
  BY <1>1 DEF AckInv
<1>3. Bytes(Shared)' = IF Has(store', Shared) THEN store'.objs[Shared].bytes ELSE <<>>
  BY DEF Bytes, Shared, Has
<1>4. Unread.bytes \in Seq(Int) /\ <<>> \in Seq(Int)
  BY DEF Unread
<1>5. ASSUME NEW w \in Writers, Load(w)
      PROVE  /\ store' = store /\ acked' = acked /\ late' = late
             /\ DOMAIN seen' = Writers /\ \A v \in Writers : seen'[v].bytes \in Seq(Int)
  <2>1. PICK o \in GetObject(c, store, WholeRequest) :
          seen' = [seen EXCEPT ![w] = [got |-> TRUE, there |-> o.code = "ok",
                     bytes |-> IF o.code = "ok" THEN o.out.bytes ELSE <<>>]]
    BY <1>5 DEF Load
  <2> DEFINE got == [got |-> TRUE, there |-> o.code = "ok",
                     bytes |-> IF o.code = "ok" THEN o.out.bytes ELSE <<>>]
  <2>2. got.bytes \in Seq(Int)
    BY <1>2, <1>4, LoadReads
  <2>3. seen' = [seen EXCEPT ![w] = got]
    BY <2>1
  <2> HIDE DEF got
  <2> QED BY <1>2, <1>5, <2>2, <2>3 DEF Load
<1>6. ASSUME NEW r, r.bucket = Bucket, r.key = 1, r.body.fails \in BOOLEAN, WritesBack(r),
             NEW o \in PutObject(c, store, r), store' = o.store,
             NEW more, acked' = Kept(o.store, acked \cup more),
             o.code # "ok" => more = {}, ~r.body.fails => more \subseteq Range(r.body.bytes)
      PROVE  Bytes(Shared)' \in Seq(Int) /\ acked' \subseteq Range(Bytes(Shared)')
  <2>1. CASE o.store = store /\ o.code # "ok"
    <3>1. Bytes(Shared)' = Bytes(Shared) /\ acked' \subseteq acked
      BY <1>3, <1>6, <2>1 DEF Bytes, Kept
    <3> QED BY <1>2, <3>1
  <2>2. ASSUME Has(o.store, Shared), o.store.objs[Shared].bytes = r.body.bytes,
               ~r.body.fails, r.body.bytes \in Seq(Int),
               Range(Bytes(Shared)) \subseteq Range(r.body.bytes)
        PROVE  Bytes(Shared)' \in Seq(Int) /\ acked' \subseteq Range(Bytes(Shared)')
    <3>1. Bytes(Shared)' = r.body.bytes /\ acked' = acked \cup more
      BY <1>3, <1>6, <2>2 DEF Kept
    <3> QED BY <1>2, <1>6, <2>2, <3>1
  <2> QED BY <1>1, <1>6, <2>1, <2>2, NothingOverwritten
<1>7. ASSUME NEW w \in Writers, NEW cut \in BOOLEAN, Save(w, cut)
      PROVE  AckInv'
  <2> DEFINE r == SaveRequest(w, cut)
  <2>1. PICK o \in PutObject(c, store, r) :
          /\ store' = o.store
          /\ acked' = Kept(o.store, acked \cup IF o.code = "ok" THEN {w} ELSE {})
          /\ seen' = IF o.code = "ok" THEN seen ELSE [seen EXCEPT ![w] = Unread]
          /\ late' = late \/ (~cut /\ late' = late \cup {r})
    BY <1>7 DEF Save
  <2>2. r.bucket = Bucket
    BY SaveNames
  <2>3. r.body.fails = cut
    BY SaveBody, Zenon
  <2>4. WritesBack(r) /\ r.key = 1 /\ (~cut => w \in Range(r.body.bytes))
    BY <1>2, SaveWritesBack
  <2> HIDE DEF r
  <2> DEFINE more == IF o.code = "ok" THEN {w} ELSE {}
  <2>5. acked' = Kept(o.store, acked \cup more) /\ (o.code # "ok" => more = {})
    BY <2>1
  <2>6. ~r.body.fails => more \subseteq Range(r.body.bytes)
    BY <2>3, <2>4
  <2> HIDE DEF more
  <2>7. Bytes(Shared)' \in Seq(Int) /\ acked' \subseteq Range(Bytes(Shared)')
    BY <1>6, <2>1, <2>2, <2>3, <2>4, <2>5, <2>6
  <2>8. DOMAIN seen' = Writers /\ \A v \in Writers : seen'[v].bytes \in Seq(Int)
    BY <1>2, <1>4, <2>1
  <2>9. \A q \in late' : q.key = 1 /\ WritesBack(q)
    BY <1>2, <2>1, <2>4
  <2> QED BY <2>7, <2>8, <2>9 DEF AckInv, WritesBack, Shared
<1>8. ASSUME NEW r \in late, LateArrives(r)
      PROVE  AckInv'
  <2>1. PICK o \in PutObject(c, store, r) : store' = o.store
    BY <1>8 DEF LateArrives
  <2> DEFINE more == {}
  <2>2. acked' = Kept(o.store, acked \cup more) /\ seen' = seen /\ late' \subseteq late
    BY <1>8, <2>1 DEF LateArrives
  <2>3. /\ r.bucket = Bucket /\ r.key = 1 /\ r.body.fails \in BOOLEAN
        /\ WritesBack(r) /\ more = {} /\ more \subseteq Range(r.body.bytes)
    BY <1>2 DEF Serves
  <2> HIDE DEF more
  <2>4. Bytes(Shared)' \in Seq(Int) /\ acked' \subseteq Range(Bytes(Shared)')
    BY <1>6, <2>1, <2>2, <2>3
  <2> QED BY <1>2, <2>2, <2>4 DEF AckInv, WritesBack, Shared
<1>9. ASSUME seen' = seen, late' = late, acked' \subseteq acked,
             Has(store', Shared) => /\ Has(store, Shared)
                                    /\ store'.objs[Shared] = store.objs[Shared],
             ~Has(store', Shared) => acked' = {}
      PROVE  AckInv'
  <2>1. Bytes(Shared)' \in Seq(Int) /\ acked' \subseteq Range(Bytes(Shared)')
    <3>1. CASE Has(store', Shared)
      <4>1. Bytes(Shared)' = Bytes(Shared)
        BY <1>3, <1>9, <3>1 DEF Bytes
      <4> QED BY <1>2, <1>9, <4>1
    <3>2. CASE ~Has(store', Shared)
      BY <1>3, <1>4, <1>9, <3>2
    <3> QED BY <3>1, <3>2
  <2> QED BY <1>2, <1>9, <2>1 DEF AckInv, WritesBack, Shared
<1>10. ASSUME DeleteKeys(<<2, 1>>)
       PROVE  AckInv'
  <2>1. PICK o \in DeleteMany(c, store, DeleteRequest(<<2, 1>>, FALSE)) :
          store' = o.store /\ acked' = Kept(o.store, acked)
    BY <1>10 DEF DeleteKeys
  <2>2. Shrinks(store, o.store)
    <3> DEFINE no == FALSE  r == DeleteRequest(<<2, 1>>, no)
    <3>1. r \in DeleteRequests
      BY DeletesTried
    <3> HIDE DEF r
    <3> QED BY <2>1, <3>1, ServesAccounts DEF r
  <2>3. Has(store', Shared) => Has(store, Shared) /\ store'.objs[Shared] = store.objs[Shared]
    BY <2>1, <2>2 DEF Shrinks, Serves
  <2>4. acked' \subseteq acked /\ (~Has(store', Shared) => acked' = {})
    BY <2>1 DEF Kept
  <2>5. seen' = seen /\ late' = late
    BY <1>10 DEF DeleteKeys
  <2> QED BY <1>9, <2>3, <2>4, <2>5
<1>11. ASSUME CopyShared
       PROVE  AckInv'
  <2> DEFINE r == CopyRequest("m2", {})
  <2>1. PICK o \in CopyObject(c, store, r) : store' = o.store
    BY <1>11 DEF CopyShared
  <2>2. r.bucket = Bucket /\ r.key = 2
    BY CopyRequestFields
  <2> HIDE DEF r
  <2>3. Adds(store, <<r.bucket, r.key>>, o.store)
    BY <1>1, <2>2, ServesView, CopyAdds
  <2>4. Shared # <<r.bucket, r.key>>
    BY <2>2 DEF Shared
  <2>5. /\ Has(store', Shared) <=> Has(store, Shared)
        /\ Has(store, Shared) => store'.objs[Shared] = store.objs[Shared]
    BY <2>1, <2>3, <2>4 DEF Adds, Serves
  <2>6. seen' = seen /\ late' = late /\ acked' = acked
    BY <1>11 DEF CopyShared
  <2>7. ~Has(store', Shared) => acked' = {}
    BY <1>2, <2>5, <2>6 DEF Bytes, Range
  <2> QED BY <1>9, <2>5, <2>6, <2>7
<1>12. CASE UNCHANGED vars
  BY <1>2, <1>3, <1>12 DEF vars, Bytes
<1>13. ASSUME NEW w \in Writers, Load(w)
       PROVE  AckInv'
  <2>1. Bytes(Shared)' = Bytes(Shared)
    BY <1>3, <1>5, <1>13 DEF Bytes
  <2> QED BY <1>2, <1>5, <1>13, <2>1 DEF AckInv, WritesBack, Shared
<1>14. AckInv'
  BY <1>7, <1>8, <1>10, <1>11, <1>13, <1>12 DEF Next, AckInv, WritesBack, Shared
<1> QED BY <1>14 DEF AckInv, WritesBack, Shared

\* An acknowledged update is in the object until the object is deleted, when
\* the driver forwards If-Match and If-None-Match.
THEOREM SpecAckedUpdateNotLost == Spec => []AckedUpdateNotLost
<1>1. Init => AckInv
  <2> SUFFICES ASSUME Init PROVE AckInv
    OBVIOUS
  <2>1. PICK there \in SUBSET {Shared, Copied} :
          store = [NewStore({Bucket}) EXCEPT !.objs =
                    [at \in there |-> ObjectOf(<<>>, "m1", "none")]]
    BY DEF Init
  <2>2. store.objs = [at \in there |-> ObjectOf(<<>>, "m1", "none")]
    BY <2>1 DEF NewStore
  <2>3. Bytes(Shared) = <<>>
    BY <2>2 DEF Bytes, Has, ObjectOf
  <2>4. <<>> \in Seq(Int)
    OBVIOUS
  <2> QED BY <2>3, <2>4 DEF Init, AckInv, Unread
<1>2. AckInv => AckedUpdateNotLost
  BY DEF AckInv, AckedUpdateNotLost
<1> QED BY <1>1, <1>2, AckStep, ServesAlways, PTL DEF Spec
=============================================================================
