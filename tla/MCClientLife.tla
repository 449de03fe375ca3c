----------------------------- MODULE MCClientLife -----------------------------
(* One caller with every Config of one driver that is right or has one       *)
(* deviation; two packages that both bring the driver's Factory.             *)
EXTENDS ClientLife
MCKeys == {1}
MCProviders == Drivers \cup {Unknown}
MCLives == -1..5

Static(scheme, payload) == [kind |-> "static", cred |-> [scheme |-> scheme, payload |-> payload]]
Env == [kind |-> "env"]
Nil == [kind |-> "nil"]
\* The static credentials a driver takes.
Own(d) ==
  CASE d = "gcs" -> {Static("oauth2", "serviceAccount"), Static("oauth2", "nil"),
                     Static("hmac", "hmac")}
    [] d = "azure" -> {Static("shared_key", "sharedKey"), Static("sas", "sas"),
                       Static("custom", "token")}
    [] d = "qiniu" -> {Static("custom", "qiniu")}
    [] d = "upyun" -> {Static("custom", "operator")}
    [] OTHER -> {Static("hmac", "hmac")}
Fields(d) ==
  CASE d = "gcs" -> {{"ProjectID"}, {"ProjectID", "SignerKey"}}
    [] d = "azure" -> {{"StorageAccount"}}
    [] d = "qiniu" -> {{"Region"}, {"Region", "Domain"}}
    [] d = "upyun" -> {{"Bucket"}}
    [] OTHER -> {{}}

Config(d, chain, fields) ==
  [provider |-> d, region |-> TRUE, endpoint |-> "ok",
   cred |-> [given |-> TRUE, chain |-> chain],
   dc |-> [given |-> TRUE, typed |-> TRUE, fields |-> fields]]
MCConfigs(d) ==
  LET good == {Config(d, <<p>>, fields) : p \in Own(d), fields \in Fields(d)}
      one == CHOOSE g \in good : TRUE
  IN good \cup {Config(d, <<Nil, Env>>, one.dc.fields), Config(d, <<Nil>>, one.dc.fields),
                [one EXCEPT !.provider = Unknown], [one EXCEPT !.endpoint = "bad"],
                [one EXCEPT !.cred.given = FALSE], [one EXCEPT !.dc.typed = FALSE]}
=============================================================================
