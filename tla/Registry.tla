------------------------------ MODULE Registry ------------------------------
(* The in-process registry of pkg/uos/registry.go.  Register is one step     *)
(* under the lock; Open looks its factory up under the read lock and asks    *)
(* that factory after it has let go, while others register.                  *)
EXTENDS Functions

CONSTANTS Providers,   \* what a Config may name; "" is the empty id
          Owners,      \* packages that come with a Factory
          Callers,
          None

ASSUME RegistryAssumption == None \notin [id : Providers \cup {""}, owner : Owners]

VARIABLES factories,   \* provider -> the owner of its Factory
          told,        \* the Factories whose Register gave nil
          asked,       \* caller -> the Factory its Open is about to ask
          served       \* caller -> the Factory its client came from

registryVars == <<factories, told, asked, served>>

Factory == [id : Providers \cup {""}, owner : Owners]

RegistryInit == /\ factories = <<>> /\ told = {}
                /\ asked = [q \in Callers |-> None]
                /\ served = [q \in Callers |-> None]

\* MUTANT: the last Register wins.
RegisterOverwrites(f) ==
  IF f = None THEN "invalid_argument" ELSE IF f.id = "" THEN "invalid_argument" ELSE "ok"

\* What Register answers; nil stands for None.
RegisterCode(f) ==
  IF f = None THEN "invalid_argument"
  ELSE IF f.id = "" THEN "invalid_argument"
  ELSE IF f.id \in DOMAIN factories THEN "already_exists"
  ELSE "ok"

Register(f) ==
  /\ RegisterCode(f) = "ok"
  /\ factories' = [p \in DOMAIN factories \cup {f.id} |->
                     IF p = f.id THEN f.owner ELSE factories[p]]
  /\ told' = told \cup {f}
  /\ UNCHANGED <<asked, served>>
RegisterRefused(f) == RegisterCode(f) # "ok" /\ UNCHANGED registryVars

\* Open: the empty id and an unknown one are refused on the spot.
OpenCode(p) == IF p = "" \/ p \notin DOMAIN factories THEN "invalid_argument" ELSE "ok"
Lookup(q, p) ==
  /\ asked[q] = None /\ served[q] = None
  /\ OpenCode(p) = "ok"
  /\ asked' = [asked EXCEPT ![q] = [id |-> p, owner |-> factories[p]]]
  /\ UNCHANGED <<factories, told, served>>

\* The factory's own Validate and Open, then: a client, or an error.
OpenSucceeds(q) ==
  /\ asked[q] # None
  /\ served' = [served EXCEPT ![q] = asked[q]]
  /\ asked' = [asked EXCEPT ![q] = None]
  /\ UNCHANGED <<factories, told>>
OpenFails(q) ==
  /\ asked[q] # None
  /\ asked' = [asked EXCEPT ![q] = None]
  /\ UNCHANGED <<factories, told, served>>

RegistryNext ==
  \/ \E f \in Factory \cup {None} : Register(f) \/ RegisterRefused(f)
  \/ \E q \in Callers : \/ \E p \in Providers : Lookup(q, p)
                        \/ OpenSucceeds(q) \/ OpenFails(q)

RegistrySpec == RegistryInit /\ [][RegistryNext]_registryVars
-----------------------------------------------------------------------------
\* One Factory per provider is told that it is the one (registry.go:42-44), and
\* every client of that provider comes from it, whoever tries to register
\* while an Open is between its look-up and the Factory's answer.
FirstFactoryServes ==
  /\ \A f, g \in told : f.id = g.id => f = g
  /\ \A q \in Callers : /\ asked[q] # None => asked[q] \in told
                        /\ served[q] # None => served[q] \in told
=============================================================================
