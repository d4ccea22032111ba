-------------------------- MODULE EnvGroupsProofs --------------------------
(***************************************************************************)
(* Proofs about EnvGroups, for any applications, any number of requests at *)
(* a time, and whatever operations they ask for.                           *)
(***************************************************************************)
EXTENDS EnvGroups, TLAPS

-----------------------------------------------------------------------------
(* The invariant.                                                          *)

Writers == {"update", "convert", "delete"}

\* A greatest version, so that there is a latest one.
Bounded(f) == \E n \in {0} \cup DOMAIN f : \A m \in DOMAIN f : m <= n

\* What is written, edited and deleted tells the operation.
OpOf(c) ==
  /\ pc[c] \notin {"new", "ended"} => req[c].op \in Operations
  /\ pc[c] \in {"deleting", "deletingMaps"} <=> pc[c] \notin {"new", "ended"} /\ req[c].op = "delete"
  /\ pc[c] \in {"reading", "readMap", "creating", "created", "listing", "rolling", "patching",
                "patched", "converted"}
       <=> pc[c] \notin {"new", "ended"} /\ req[c].op \in {"update", "convert"}
  /\ pc[c] \in {"editing", "writing", "checking", "upgrading", "installing", "deploying", "uninstalling"} =>
       req[c].app \in App
  /\ pc[c] \notin {"new", "ended"} /\ req[c].op = "install" =>
       pc[c] \in {"installing", "editing", "writing", "deploying"}

\* A request that writes versions or deletes them is on its own until it has overlapped.
Alone == \A c \in InFlight : req[c].op \in Writers \ happened => InFlight = {c}

\* Whoever makes a version gives it a placeholder for the secret it then makes.
Matches(n, value) == maps[n].ref = n <=> value # NoValue

VersionOf(c) ==
  /\ pc[c] = "reading" => req[c].ref <= Latest(maps)
  /\ pc[c] \in {"readMap", "creating"} => req[c].ref < req[c].version
  /\ pc[c] = "created" => req[c].version \in Versions(maps) /\ Matches(req[c].version, req[c].value)
  /\ pc[c] = "deletingMaps" /\ req[c].version # 0 => Versions(secrets) = {}

SecretsInvariant ==
  "delete" \notin happened =>
    /\ Versions(secrets) \subseteq DOMAIN maps
    /\ \A n \in Versions(maps) : maps[n].ref <= n
    /\ \A n \in Versions(maps) \cap DOMAIN secrets : Matches(n, secrets[n])
    /\ \A c \in Change : VersionOf(c)

\* Whoever is still to write has not written.
Fresh(c) ==
  pc[c] \in {"new", "installing", "editing", "writing"} =>
    /\ \A n \in DOMAIN maps : maps[n].by # c
    /\ \A d \in Change : pc[d] = "writing" => req[d].by # c

\* Whoever makes a version carries the list over, and whoever edits it has the latest one, or
\* will find that it was written.
ListOf(c) ==
  /\ pc[c] \in {"readMap", "creating"} => req[c].apps = members /\ req[c].version = Latest(maps) + 1
  /\ pc[c] = "writing" => /\ req[c].version \in Versions(maps) /\ req[c].version = Latest(maps)
                          /\ Unwritten(c) => req[c].apps = maps[req[c].version].apps
  /\ pc[c] \in {"deleting", "deletingMaps"} /\ req[c].version = 0 => Versions(maps) = {}

MembersInvariant ==
  Writers \cap happened = {} =>
    /\ members = IF Versions(maps) = {} THEN {} ELSE maps[Latest(maps)].apps
    /\ \A c \in Change : ListOf(c)

\* Versions count from 1 in every request that makes one; a conversion sends no placeholder.
Makes(c) ==
  /\ pc[c] \in {"readMap", "creating", "created"} => req[c].version > 0
  /\ pc[c] \in {"patching", "patched"} => req[c].ref = NoRef

Types == TypeOK /\ Bounded(maps) /\ Bounded(secrets)

GroupInvariant ==
  /\ Types /\ Alone
  /\ \A c \in Change : OpOf(c) /\ Makes(c) /\ Fresh(c)
  /\ SecretsInvariant /\ MembersInvariant

-----------------------------------------------------------------------------
(* Facts about versions.                                                   *)

\* The latest version is the greatest one, or 0 if there is none.
LEMMA LatestFacts ==
  ASSUME NEW f, DOMAIN f \subseteq Nat, Bounded(f)
  PROVE  /\ Latest(f) \in {0} \cup DOMAIN f
         /\ Latest(f) \in Nat
         /\ \A m \in DOMAIN f : m <= Latest(f)
<1>1. PICK n \in {0} \cup DOMAIN f : \A m \in DOMAIN f : m <= n
  BY DEF Bounded
<1>2. Latest(f) \in {0} \cup DOMAIN f /\ \A m \in DOMAIN f : m <= Latest(f)
  BY <1>1 DEF Latest
<1> QED
  BY <1>2

LEMMA PutFacts ==
  ASSUME NEW f, DOMAIN f \subseteq Nat, Bounded(f), NEW n \in Nat, NEW v
  PROVE  /\ DOMAIN Put(f, n, v) = DOMAIN f \cup {n}
         /\ Put(f, n, v)[n] = v
         /\ \A m \in DOMAIN f \ {n} : Put(f, n, v)[m] = f[m]
         /\ Bounded(Put(f, n, v))
<1>1. DOMAIN Put(f, n, v) = DOMAIN f \cup {n}
  BY DEF Put
<1>2. PICK k \in {0} \cup DOMAIN f : \A m \in DOMAIN f : m <= k
  BY DEF Bounded
<1>3. Bounded(Put(f, n, v))
  <2>1. CASE n <= k
    BY <1>1, <1>2, <2>1 DEF Bounded
  <2>2. CASE ~(n <= k)
    BY <1>1, <1>2, <2>2 DEF Bounded
  <2> QED
    BY <2>1, <2>2
<1> QED
  BY <1>1, <1>3 DEF Put

LEMMA PutTypes ==
  ASSUME NEW f, NEW S, NEW n \in Nat, NEW v \in S,
         DOMAIN f \subseteq Nat, \A m \in DOMAIN f : f[m] \in S, Bounded(f)
  PROVE  LET g == Put(f, n, v)
         IN DOMAIN g \subseteq Nat /\ (\A m \in DOMAIN g : g[m] \in S) /\ Bounded(g)
<1> DEFINE g == Put(f, n, v)
<1>1. /\ DOMAIN g = DOMAIN f \cup {n} /\ g[n] = v
      /\ \A m \in DOMAIN f \ {n} : g[m] = f[m]
      /\ Bounded(g)
  BY PutFacts
<1> HIDE DEF g
<1>2. DOMAIN g \subseteq Nat /\ \A m \in DOMAIN g : g[m] \in S
  BY <1>1
<1> QED
  BY <1>1, <1>2 DEF g

\* Either form can be deleted without the other.
LEMMA WithoutFacts ==
  ASSUME NEW f, DOMAIN f \subseteq Nat, Bounded(f), NEW S, S = {0} \/ S = Versions(f)
  PROVE  /\ DOMAIN Without(f, S) = DOMAIN f \ S
         /\ \A m \in DOMAIN f \ S : Without(f, S)[m] = f[m]
         /\ Bounded(Without(f, S))
<1>1. DOMAIN Without(f, S) = DOMAIN f \ S
  BY DEF Without
<1>2. PICK k \in {0} \cup DOMAIN f : \A m \in DOMAIN f : m <= k
  BY DEF Bounded
<1>3. Bounded(Without(f, S))
  <2>1. CASE S = {0}
    BY <1>1, <1>2, <2>1 DEF Bounded
  <2>2. CASE S = Versions(f)
    BY <1>1, <2>2 DEF Bounded, Versions
  <2> QED
    BY <2>1, <2>2
<1> QED
  BY <1>1, <1>3 DEF Without

LEMMA WithoutTypes ==
  ASSUME NEW f, NEW T, NEW S, S = {0} \/ S = Versions(f),
         DOMAIN f \subseteq Nat, \A m \in DOMAIN f : f[m] \in T, Bounded(f)
  PROVE  LET g == Without(f, S)
         IN DOMAIN g \subseteq Nat /\ (\A m \in DOMAIN g : g[m] \in T) /\ Bounded(g)
<1> DEFINE g == Without(f, S)
<1>1. /\ DOMAIN g = DOMAIN f \ S
      /\ \A m \in DOMAIN f \ S : g[m] = f[m]
      /\ Bounded(g)
  BY WithoutFacts
<1> HIDE DEF g
<1>2. DOMAIN g \subseteq Nat /\ \A m \in DOMAIN g : g[m] \in T
  BY <1>1
<1> QED
  BY <1>1, <1>2 DEF g

LEMMA SameVersions ==
  ASSUME NEW f, NEW g, DOMAIN f = DOMAIN g
  PROVE  /\ Latest(f) = Latest(g)
         /\ Versions(f) = Versions(g)
         /\ Bounded(f) <=> Bounded(g)
  BY DEF Latest, Versions, Bounded

-----------------------------------------------------------------------------
(* Types.                                                                  *)

LEMMA BlankType == Blank \in Request
  BY DEF Blank, Request, Value, NoRef

LEMMA InitTypes == Init => Types
<1> SUFFICES ASSUME Init PROVE Types
  OBVIOUS
<1>1. DOMAIN << >> = {}
  OBVIOUS
<1>2. Bounded(maps) /\ Bounded(secrets)
  BY <1>1 DEF Init, Bounded
<1>3. /\ DOMAIN maps \subseteq Nat /\ \A n \in DOMAIN maps : maps[n] \in Map
      /\ DOMAIN secrets \subseteq Nat /\ \A n \in DOMAIN secrets : secrets[n] \in Value
  BY <1>1 DEF Init, Map, Value
<1>4. req \in [Change -> Request]
  BY BlankType DEF Init
<1> QED
  BY <1>2, <1>3, <1>4 DEF Init, Types, TypeOK, Chart, Place, Value

\* What the requests read has its type.
LEMMA ReadTypes ==
  ASSUME Types
  PROVE  /\ Latest(maps) \in Nat /\ Latest(secrets) \in Nat
         /\ Latest(maps) \in {0} \cup DOMAIN maps /\ Latest(secrets) \in {0} \cup DOMAIN secrets
         /\ \A n \in DOMAIN maps : n \in Nat /\ maps[n].ref \in Nat \cup {NoRef}
                                   /\ maps[n].apps \in SUBSET App /\ maps[n].by \in Change \cup {OldValue}
         /\ \A n \in DOMAIN maps : n <= Latest(maps)
         /\ \A n \in DOMAIN secrets : n \in Nat /\ secrets[n] \in Value /\ n <= Latest(secrets)
         /\ \A a \in App : charts[a].section \in Nat /\ charts[a].revision \in Nat
         /\ \A c \in Change : req[c] \in Request
<1>1. \A n \in DOMAIN maps : maps[n] \in Map
  BY DEF Types, TypeOK
<1>2. \A a \in App : charts[a] \in Chart
  BY DEF Types, TypeOK
<1> QED
  BY <1>1, <1>2, LatestFacts DEF Types, TypeOK, Map, Chart

LEMMA BeginsType ==
  ASSUME Types, \A c \in Change : OpOf(c), NEW c \in Change, NEW o \in Operations, Begins(c, o)
  PROVE  happened' \subseteq Operations \cup {"failure"}
<1>1. \A d \in InFlight : req[d].op \in Operations
  BY DEF InFlight, OpOf
<1> QED
  BY <1>1 DEF Begins, Types, TypeOK

\* The requests that write versions.
LEMMA WriteTypes ==
  ASSUME Types, \A c \in Change : OpOf(c), NEW c \in Change,
         \/ Update(c) \/ ReadMap(c) \/ ReadSecret(c) \/ CreateMap(c) \/ CreateSecret(c)
         \/ AlreadyExists(c)
  PROVE  Types'
<1>1. CASE Update(c)
  <2>1. PICK value \in {c, NoValue}, ref \in {NoRef} \cup {maps[n].ref : n \in Versions(maps)} :
          req' = [req EXCEPT ![c] = [Blank EXCEPT !.op = "update", !.value = value, !.ref = ref]]
    BY <1>1 DEF Update
  <2>2. [Blank EXCEPT !.op = "update", !.value = value, !.ref = ref] \in Request
    BY BlankType, ReadTypes DEF Request, Operations, Value, Versions
  <2>3. req' \in [Change -> Request]
    BY <2>1, <2>2 DEF Types, TypeOK
  <2> QED
    BY <1>1, <2>3, BeginsType DEF Update, At, Types, TypeOK, Place, Operations
<1>2. CASE ReadMap(c)
  <2> DEFINE latest == Latest(maps)
             apps == IF latest = 0 THEN {} ELSE maps[latest].apps
  <2>2. latest + 1 \in Nat /\ apps \in SUBSET App
    BY ReadTypes
  <2>3. req' = [req EXCEPT ![c].version = latest + 1, ![c].apps = apps]
    BY <1>2 DEF ReadMap
  <2> HIDE DEF latest, apps
  <2>4. [req[c] EXCEPT !.version = latest + 1, !.apps = apps] \in Request
    BY <2>2, ReadTypes, ZenonT(40) DEF Request
  <2>1. req' \in [Change -> Request]
    BY <2>3, <2>4 DEF Types, TypeOK
  <2> QED
    BY <1>2, <2>1 DEF ReadMap, At, Types, TypeOK, Place
<1>3. CASE ReadSecret(c)
  <2>1. req' \in [Change -> Request]
    BY <1>3, ReadTypes DEF ReadSecret, Types, TypeOK, Request
  <2> QED
    BY <1>3, <2>1 DEF ReadSecret, At, Types, TypeOK, Place
<1>4. CASE CreateMap(c)
  <2> DEFINE new == [ref |-> IF req[c].value # NoValue THEN req[c].version ELSE req[c].ref,
                     apps |-> req[c].apps, by |-> c]
  <2>1. new \in Map /\ req[c].version \in Nat /\ req[c].value \in Value
    BY ReadTypes DEF Map, Request
  <2>2. maps' = Put(maps, req[c].version, new)
    BY <1>4 DEF CreateMap
  <2> HIDE DEF new
  <2>3. DOMAIN maps' \subseteq Nat /\ (\A n \in DOMAIN maps' : maps'[n] \in Map) /\ Bounded(maps')
    BY <2>1, <2>2, PutTypes DEF Types, TypeOK
  <2> QED
    BY <1>4, <2>1, <2>3 DEF CreateMap, At, Types, TypeOK, Place
<1>5. CASE CreateSecret(c)
  <2>1. req[c].version \in Nat /\ req[c].value \in Value
    BY ReadTypes DEF Request
  <2>2. secrets' = Put(secrets, req[c].version, req[c].value)
    BY <1>5 DEF CreateSecret
  <2>3. DOMAIN secrets' \subseteq Nat /\ (\A n \in DOMAIN secrets' : secrets'[n] \in Value)
        /\ Bounded(secrets')
    BY <2>1, <2>2, PutTypes, ZenonT(40) DEF Types, TypeOK
  <2> QED
    BY <1>5, <2>3 DEF CreateSecret, At, Types, TypeOK, Place
<1>6. CASE AlreadyExists(c)
  BY <1>6 DEF AlreadyExists, Ends, At, Types, TypeOK, Place
<1> QED
  BY <1>1, <1>2, <1>3, <1>4, <1>5, <1>6

\* The rollout, and the conversion of the old form.
LEMMA RolloutTypes ==
  ASSUME Types, \A c \in Change : OpOf(c), NEW c \in Change,
         \/ ListReleases(c) \/ RolledOut(c)
         \/ \E a \in App : Rollout(c, a) \/ RolloutFails(c, a)
  PROVE  Types'
<1> USE DEF Types, TypeOK, Place
<1>1. CASE ListReleases(c)
  <2> DEFINE plan == [a \in App |-> IF a \in req[c].apps \cap Installed THEN charts[a].section ELSE -1]
  <2>1. plan \in [App -> Nat \cup {-1}]
    BY ReadTypes
  <2>2. req' = [req EXCEPT ![c].plan = plan]
    BY <1>1 DEF ListReleases
  <2> HIDE DEF plan
  <2>3. [req[c] EXCEPT !.plan = plan] \in Request
    BY <2>1, ReadTypes DEF Request
  <2>4. req' \in [Change -> Request]
    BY <2>2, <2>3
  <2> QED
    BY <1>1, <2>4 DEF ListReleases, At
<1>2. CASE RolledOut(c)
  BY <1>2 DEF RolledOut, Ends, At
<1>3. ASSUME NEW a \in App, Rollout(c, a) \/ RolloutFails(c, a)
      PROVE  Types'
  <2>1. req' = [req EXCEPT ![c].plan[a] = -1]
    BY <1>3 DEF Rollout, RolloutFails
  <2>2. [req[c] EXCEPT !.plan[a] = -1] \in Request
    <3>1. req[c] \in Request
      BY ReadTypes
    <3>2. [req[c].plan EXCEPT ![a] = -1] \in [App -> Nat \cup {-1}]
      BY <3>1 DEF Request
    <3> QED
      BY <3>1, <3>2, ZenonT(30) DEF Request
  <2>3. req' \in [Change -> Request]
    BY <2>1, <2>2
  <2>4. charts' \in [App -> Chart]
    <3>1. [section |-> IF req[c].plan[a] = 0 THEN 0 ELSE req[c].version,
           revision |-> charts[a].revision + 1] \in Chart
      BY ReadTypes DEF Chart, Request
    <3> QED
      BY <1>3, <3>1 DEF Rollout, RolloutFails
  <2> QED
    BY <1>3, <2>3, <2>4 DEF Rollout, RolloutFails
<1> QED
  BY <1>1, <1>2, <1>3

LEMMA ConversionTypes ==
  ASSUME Types, \A c \in Change : OpOf(c), NEW c \in Change,
         \/ PatchSecret(c) \/ PatchMap(c) \/ ReadOldForm(c) \/ DeleteOldMap(c) \/ OldFormGone(c)
  PROVE  Types'
<1>1. CASE PatchSecret(c)
  <2>1. [Blank EXCEPT !.op = "convert"] \in Request
    BY BlankType DEF Request, Operations
  <2>2. req' \in [Change -> Request]
    BY <1>1, <2>1 DEF PatchSecret, Types, TypeOK
  <2>3. DOMAIN secrets' = DOMAIN secrets /\ \A n \in DOMAIN secrets' : secrets'[n] \in Value
    BY <1>1 DEF PatchSecret, Types, TypeOK, Value
  <2>4. Bounded(secrets')
    BY <2>3, SameVersions DEF Types
  <2>5. happened' \subseteq Operations \cup {"failure"}
    BY <1>1, BeginsType DEF PatchSecret, Operations
  <2> QED
    BY <1>1, <2>2, <2>3, <2>4, <2>5 DEF PatchSecret, At, Types, TypeOK, Place
<1>2. CASE PatchMap(c)
  <2>1. DOMAIN maps' = DOMAIN maps /\ \A n \in DOMAIN maps' : maps'[n] \in Map
    <3>1. [maps[0] EXCEPT !.ref = 0, !.by = c] \in Map
      BY <1>2 DEF PatchMap, Types, TypeOK, Map
    <3> QED
      BY <1>2, <3>1 DEF PatchMap, Types, TypeOK
  <2>2. Bounded(maps')
    BY <2>1, SameVersions DEF Types
  <2> QED
    BY <1>2, <2>1, <2>2 DEF PatchMap, At, Types, TypeOK, Place
<1>3. CASE ReadOldForm(c)
  <2>1. [req[c] EXCEPT !.value = secrets[0]] \in Request
    BY <1>3, ReadTypes DEF ReadOldForm, Request
  <2>2. req' \in [Change -> Request]
    BY <1>3, <2>1 DEF ReadOldForm, Types, TypeOK
  <2> QED
    BY <1>3, <2>2 DEF ReadOldForm, At, Types, TypeOK, Place
<1>4. CASE DeleteOldMap(c)
  <2>1. DOMAIN maps' \subseteq Nat /\ (\A n \in DOMAIN maps' : maps'[n] \in Map) /\ Bounded(maps')
    BY <1>4, WithoutTypes DEF DeleteOldMap, Types, TypeOK
  <2> QED
    BY <1>4, <2>1 DEF DeleteOldMap, At, Types, TypeOK, Place
<1>5. CASE OldFormGone(c)
  BY <1>5 DEF OldFormGone, Ends, At, Types, TypeOK, Place
<1> QED
  BY <1>1, <1>2, <1>3, <1>4, <1>5

LEMMA DeletionTypes ==
  ASSUME Types, \A c \in Change : OpOf(c), NEW c \in Change,
         Delete(c) \/ DeleteSecrets(c) \/ DeleteMaps(c) \/ NotThere(c)
  PROVE  Types'
<1>1. CASE Delete(c)
  <2>1. [Blank EXCEPT !.op = "delete", !.version = Latest(maps)] \in Request
    BY BlankType, ReadTypes DEF Request, Operations
  <2>2. req' \in [Change -> Request]
    BY <1>1, <2>1 DEF Delete, Types, TypeOK
  <2>3. happened' \subseteq Operations \cup {"failure"}
    BY <1>1, BeginsType DEF Delete, Operations
  <2> QED
    BY <1>1, <2>2, <2>3 DEF Delete, At, Types, TypeOK, Place
<1>2. CASE DeleteSecrets(c)
  <2>1. DOMAIN secrets' \subseteq Nat /\ (\A n \in DOMAIN secrets' : secrets'[n] \in Value)
        /\ Bounded(secrets')
    BY <1>2, WithoutTypes DEF DeleteSecrets, Deleted, Types, TypeOK
  <2> QED
    BY <1>2, <2>1 DEF DeleteSecrets, At, Types, TypeOK, Place
<1>3. CASE DeleteMaps(c)
  <2>1. DOMAIN maps' \subseteq Nat /\ (\A n \in DOMAIN maps' : maps'[n] \in Map) /\ Bounded(maps')
    BY <1>3, WithoutTypes DEF DeleteMaps, Deleted, Types, TypeOK
  <2> QED
    BY <1>3, <2>1 DEF DeleteMaps, At, Types, TypeOK, Place, Value
<1>4. CASE NotThere(c)
  BY <1>4 DEF NotThere, Ends, At, Types, TypeOK, Place
<1> QED
  BY <1>1, <1>2, <1>3, <1>4

\* The requests of the dashboard.
LEMMA AsksTypes ==
  ASSUME Types, \A c \in Change : OpOf(c), NEW c \in Change, NEW a \in App,
         Attach(c, a) \/ Detach(c, a) \/ Install(c, a) \/ Uninstall(c, a) \/ Upgrade(c, a)
  PROVE  Types'
<1>1. PICK o \in Operations, view \in Nat, place \in Place :
        Begins(c, o) /\ Asks(c, o, a, view, place)
  BY ReadTypes DEF Attach, Detach, Install, Uninstall, Upgrade, Operations, Place
<1>2. [Blank EXCEPT !.op = o, !.app = a, !.view = view, !.revision = charts[a].revision] \in Request
  BY BlankType, ReadTypes DEF Request
<1>3. req' \in [Change -> Request]
  BY <1>1, <1>2 DEF Asks, Types, TypeOK
<1>4. charts' \in [App -> Chart]
  <2>1. [section |-> Latest(maps), revision |-> 1] \in Chart
    BY ReadTypes DEF Chart
  <2> QED
    BY <2>1 DEF Attach, Detach, Install, Uninstall, Upgrade, Types, TypeOK
<1>5. happened' \subseteq Operations \cup {"failure"}
  BY <1>1, BeginsType
<1> QED
  BY <1>1, <1>3, <1>4, <1>5 DEF Asks, At, Types, TypeOK

\* An install touches the release alone, and its request goes on to edit the list or is over.
LEMMA InstallFacts ==
  ASSUME Types, NEW c \in Change, InstallChart(c) \/ InstallFails(c)
  PROVE  /\ c \in InFlight /\ pc[c] \notin {"new", "ended"}
         /\ req[c].op = "install" /\ req[c].revision = 0
         /\ UNCHANGED <<maps, secrets, members, given>> /\ happened \subseteq happened'
         /\ req' = [req EXCEPT ![c].revision = 1] /\ req' \in [Change -> Request]
         /\ req'[c].op = "install" /\ req'[c].app = req[c].app /\ req'[c].view = req[c].view
         /\ req'[c].revision = 1 /\ req'[c].version = req[c].version /\ req'[c].ref = req[c].ref
         /\ req'[c].apps = req[c].apps /\ req'[c].by = req[c].by /\ req'[c].value = req[c].value
         /\ req'[c].plan = req[c].plan
         /\ pc' = [pc EXCEPT ![c] = pc'[c]] /\ pc' \in [Change -> Place]
         /\ \/ pc'[c] = pc[c] /\ pc[c] \notin {"installing", "deploying"}
            \/ pc[c] = "installing" /\ pc'[c] \in {"editing", "ended"}
            \/ pc[c] = "deploying" /\ pc'[c] = "ended"
<1>0. /\ pc \in [Change -> Place] /\ req \in [Change -> Request] /\ req[c] \in Request
  BY DEF Types, TypeOK
<1>1. /\ c \in InFlight /\ req[c].op = "install" /\ req[c].revision = 0
      /\ UNCHANGED <<maps, secrets, members, given>>
      /\ req' = [req EXCEPT ![c].revision = 1] /\ happened \subseteq happened'
  BY DEF InstallChart, InstallFails, Deploying
<1>2. [req[c] EXCEPT !.revision = 1] \in Request
  BY <1>0 DEF Request
<1>3. req' \in [Change -> Request] /\ req'[c] = [req[c] EXCEPT !.revision = 1]
  BY <1>0, <1>1, <1>2
<1>4. /\ req'[c].op = "install" /\ req'[c].app = req[c].app /\ req'[c].view = req[c].view
      /\ req'[c].revision = 1 /\ req'[c].version = req[c].version /\ req'[c].ref = req[c].ref
      /\ req'[c].apps = req[c].apps /\ req'[c].by = req[c].by /\ req'[c].value = req[c].value
      /\ req'[c].plan = req[c].plan
  BY <1>0, <1>1, <1>3 DEF Request
<1>5. PICK place \in Place :
        /\ pc' = [pc EXCEPT ![c] = place]
        /\ \/ place = pc[c] /\ pc[c] \notin {"installing", "deploying"}
           \/ pc[c] = "installing" /\ place \in {"editing", "ended"}
           \/ pc[c] = "deploying" /\ place = "ended"
  <2>1. CASE InstallChart(c)
    <3>1. CASE pc[c] = "installing"
      BY <2>1, <3>1 DEF InstallChart, At, Place
    <3>2. CASE pc[c] = "deploying"
      BY <2>1, <3>2 DEF InstallChart, At, Place
    <3>3. CASE pc[c] \notin {"installing", "deploying"}
      BY <1>0, <2>1, <3>3 DEF InstallChart, At
    <3> QED
      BY <3>1, <3>2, <3>3
  <2>2. CASE InstallFails(c)
    <3>1. CASE pc[c] \in {"installing", "deploying"}
      BY <2>2, <3>1 DEF InstallFails, At, Place
    <3>2. CASE pc[c] \notin {"installing", "deploying"}
      BY <1>0, <2>2, <3>2 DEF InstallFails, At
    <3> QED
      BY <3>1, <3>2
  <2> QED
    BY <2>1, <2>2
<1>6. pc'[c] = place /\ pc' \in [Change -> Place]
  BY <1>0, <1>5
<1> QED
  BY <1>1, <1>3, <1>4, <1>5, <1>6 DEF InFlight

LEMMA InstallTypes ==
  ASSUME Types, NEW c \in Change, InstallChart(c) \/ InstallFails(c)
  PROVE  Types'
<1>1. charts' \in [App -> Chart]
  <2>1. [section |-> req[c].view, revision |-> 1] \in Chart
    BY ReadTypes DEF Chart, Request
  <2> QED
    BY <2>1 DEF InstallChart, InstallFails, Types, TypeOK
<1>2. happened' \subseteq Operations \cup {"failure"}
  BY DEF InstallChart, InstallFails, Types, TypeOK
<1> QED
  BY <1>1, <1>2, InstallFacts DEF Types, TypeOK, Bounded

\* A call that fails ends the request, or it goes on as after any edit that failed.
LEMMA FailFacts ==
  ASSUME Types, NEW c \in Change, RequestFails(c)
  PROVE  /\ c \in InFlight /\ UNCHANGED <<maps, secrets, charts, req, members, given>>
         /\ happened' = happened \cup {"failure"}
         /\ pc' = [pc EXCEPT ![c] = pc'[c]] /\ pc' \in [Change -> Place]
         /\ \/ pc'[c] = "ended"
            \/ pc[c] \in {"editing", "writing"} /\ pc'[c] \in {"checking", "deploying"}
<1>1. After(c, FALSE) \in {"checking", "deploying", "ended"}
  BY DEF After
<1>2. PICK place \in {"ended", After(c, FALSE)} :
        /\ pc' = [pc EXCEPT ![c] = place]
        /\ place = "ended" \/ pc[c] \in {"editing", "writing"}
  BY DEF RequestFails, At
<1>3. pc'[c] = place /\ pc' \in [Change -> Place]
  BY <1>1, <1>2 DEF Types, TypeOK, Place
<1> QED
  BY <1>1, <1>2, <1>3 DEF RequestFails

LEMMA EditTypes ==
  ASSUME Types, \A c \in Change : OpOf(c), NEW c \in Change,
         \/ ReadMembers(c) \/ WriteMembers(c) \/ EditFails(c)
         \/ CheckRevision(c) \/ UpgradeChart(c) \/ UninstallChart(c) \/ RequestFails(c)
  PROVE  Types'
<1>0. \A e \in BOOLEAN : After(c, e) \in Place
  BY DEF After, Place
<1>1. CASE ReadMembers(c)
  <2> DEFINE latest == Latest(maps)
  <2>1. latest \in DOMAIN maps /\ latest \in Nat
    BY <1>1, ReadTypes DEF ReadMembers, Versions
  <2>2. req' = [req EXCEPT ![c].version = latest, ![c].apps = maps[latest].apps, ![c].by = maps[latest].by]
    BY <1>1 DEF ReadMembers
  <2> HIDE DEF latest
  <2>3. [req[c] EXCEPT !.version = latest, !.apps = maps[latest].apps, !.by = maps[latest].by] \in Request
    BY <2>1, ReadTypes, ZenonT(40) DEF Request
  <2>4. req' \in [Change -> Request]
    BY <2>2, <2>3 DEF Types, TypeOK
  <2> QED
    BY <1>1, <2>4 DEF ReadMembers, At, Types, TypeOK, Place
<1>2. CASE WriteMembers(c)
  <2> DEFINE v == req[c].version
             apps == Edited(c, req[c].apps)
             by == IF apps = req[c].apps THEN maps[v].by ELSE c
  <2>1. apps \in SUBSET App /\ Edited(c, members) \in SUBSET App
    BY <1>2, ReadTypes DEF WriteMembers, OpOf, Edited, Request, Types, TypeOK
  <2>2. v \in DOMAIN maps /\ [maps[v] EXCEPT !.apps = apps, !.by = by] \in Map
    BY <1>2, <2>1, ReadTypes DEF WriteMembers, Unwritten, Map, Types, TypeOK
  <2>3. maps' = [maps EXCEPT ![v].apps = apps, ![v].by = by] /\ members' = Edited(c, members)
    BY <1>2 DEF WriteMembers
  <2> HIDE DEF v, apps, by
  <2>4. DOMAIN maps' = DOMAIN maps /\ \A n \in DOMAIN maps' : maps'[n] \in Map
    BY <2>2, <2>3 DEF Types, TypeOK
  <2>5. Bounded(maps')
    BY <2>4, SameVersions DEF Types
  <2>6. pc' \in [Change -> Place]
    BY <1>0, <1>2 DEF WriteMembers, At, Types, TypeOK
  <2> QED
    BY <1>2, <2>1, <2>3, <2>4, <2>5, <2>6 DEF WriteMembers, Types, TypeOK
<1>3. CASE EditFails(c)
  BY <1>0, <1>3 DEF EditFails, At, Types, TypeOK
<1>4. CASE CheckRevision(c)
  BY <1>4 DEF CheckRevision, At, Types, TypeOK, Place
<1>5. CASE UpgradeChart(c)
  <2>1. ASSUME req[c].app \in Installed
        PROVE  [section |-> req[c].view, revision |-> charts[req[c].app].revision + 1] \in Chart
    BY <2>1, ReadTypes DEF Chart, Request, Installed
  <2>2. charts' \in [App -> Chart]
    BY <1>5, <2>1 DEF UpgradeChart, Installed, Types, TypeOK
  <2> QED
    BY <1>5, <2>2 DEF UpgradeChart, At, Types, TypeOK, Place
<1>6. CASE UninstallChart(c)
  <2>1. NotInstalled \in Chart
    BY DEF NotInstalled, Chart
  <2> QED
    BY <1>6, <2>1 DEF UninstallChart, At, Types, TypeOK, Place
<1>7. CASE RequestFails(c)
  BY <1>7, FailFacts DEF Types, TypeOK, Bounded, Operations
<1> QED
  BY <1>1, <1>2, <1>3, <1>4, <1>5, <1>6, <1>7

-----------------------------------------------------------------------------
(* What a step changes.                                                    *)

Reads(c) ==
  \/ Update(c) \/ ReadMap(c) \/ ReadSecret(c) \/ ListReleases(c) \/ ReadOldForm(c) \/ Delete(c)
  \/ ReadMembers(c) \/ CheckRevision(c) \/ UpgradeChart(c)
  \/ \E a \in App : \/ Rollout(c, a) \/ RolloutFails(c, a) \/ Attach(c, a) \/ Detach(c, a)
                    \/ Install(c, a) \/ Uninstall(c, a) \/ Upgrade(c, a)

GivesUp(c) ==
  \/ AlreadyExists(c) \/ RolledOut(c) \/ OldFormGone(c) \/ NotThere(c) \/ EditFails(c)
  \/ InstallChart(c) \/ InstallFails(c) \/ UninstallChart(c) \/ RequestFails(c)

Writes(c) ==
  \/ CreateMap(c) \/ CreateSecret(c) \/ PatchSecret(c) \/ PatchMap(c) \/ DeleteOldMap(c)
  \/ DeleteSecrets(c) \/ DeleteMaps(c) \/ WriteMembers(c)

LEMMA StepOfOne == Next => \E c \in Change : Reads(c) \/ GivesUp(c) \/ Writes(c)
  BY DEF Next, Reads, GivesUp, Writes

\* A step is of one request.
LEMMA OthersStay ==
  ASSUME Types, NEW c \in Change, Reads(c) \/ GivesUp(c) \/ Writes(c), NEW d \in Change \ {c}
  PROVE  pc'[d] = pc[d] /\ req'[d] = req[d]
<1>1. pc \in [Change -> Place] /\ req \in [Change -> Request]
  BY DEF Types, TypeOK
<1>2. CASE GivesUp(c)
  BY <1>1, <1>2 DEF GivesUp, AlreadyExists, RolledOut, OldFormGone, NotThere, EditFails,
                    UninstallChart, RequestFails, InstallChart,
                    InstallFails, Ends, At
<1>3. CASE Writes(c)
  BY <1>1, <1>3 DEF Writes, CreateMap, CreateSecret, PatchSecret, PatchMap, DeleteOldMap,
                    DeleteSecrets, DeleteMaps, WriteMembers, At
<1>4. CASE Reads(c)
  BY <1>1, <1>4 DEF Reads, Update, ReadMap, ReadSecret, ListReleases, ReadOldForm, Delete, ReadMembers,
                    CheckRevision, UpgradeChart, Rollout, RolloutFails, Attach, Detach, Install,
                    Uninstall, Upgrade, Asks, At
<1> QED
  BY <1>2, <1>3, <1>4

\* Reads and ends leave the configmaps and the secrets alone.
LEMMA ReadsKeep ==
  ASSUME NEW c \in Change, Reads(c) \/ GivesUp(c)
  PROVE  UNCHANGED <<maps, secrets, members>>
  BY DEF Reads, GivesUp, Update, ReadMap, ReadSecret, AlreadyExists, ListReleases, RolledOut, ReadOldForm,
         OldFormGone, Delete, NotThere, ReadMembers, EditFails, CheckRevision, UpgradeChart,
         UninstallChart, RequestFails, InstallChart,
         InstallFails, Rollout, RolloutFails, Attach, Detach, Install, Uninstall,
         Upgrade, Asks, Ends

\* A step says what it is about in the variables of its request.
LEMMA OpStep ==
  ASSUME Types, \A d \in Change : OpOf(d),
         NEW c \in Change, Reads(c) \/ GivesUp(c) \/ Writes(c)
  PROVE  OpOf(c)'
<1>0. /\ OpOf(c) /\ pc \in [Change -> Place]
      /\ req \in [Change -> Request] /\ req[c] \in Request /\ Blank \in Request
  BY BlankType DEF Types, TypeOK
<1>1. ASSUME pc'[c] = "ended"
      PROVE  OpOf(c)'
  BY <1>1 DEF OpOf
<1>2. CASE Update(c) \/ PatchSecret(c) \/ Delete(c)
  <2>1. CASE Update(c)
    <3>1. req'[c].op = "update" /\ pc'[c] = "reading"
      BY <1>0, <2>1 DEF Update, At, Blank
    <3> QED
      BY <3>1 DEF OpOf, Operations
  <2>2. CASE PatchSecret(c)
    <3>1. req'[c].op = "convert" /\ pc'[c] = "patching"
      BY <1>0, <2>2 DEF PatchSecret, At, Blank
    <3> QED
      BY <3>1 DEF OpOf, Operations
  <2>3. CASE Delete(c)
    <3>1. req'[c].op = "delete" /\ pc'[c] = "deleting"
      BY <1>0, <2>3 DEF Delete, At, Blank
    <3> QED
      BY <3>1 DEF OpOf, Operations
  <2> QED
    BY <1>2, <2>1, <2>2, <2>3
<1>3. CASE ReadMap(c) \/ ReadSecret(c) \/ ReadOldForm(c)
  <2>1. req'[c].op = req[c].op
    BY <1>0, <1>3 DEF ReadMap, ReadSecret, ReadOldForm, Request
  <2> QED
    BY <1>0, <1>3, <2>1 DEF ReadMap, ReadSecret, ReadOldForm, At, OpOf
<1>4. CASE CreateMap(c) \/ CreateSecret(c) \/ PatchMap(c) \/ DeleteSecrets(c) \/ CheckRevision(c)
  BY <1>0, <1>4 DEF CreateMap, CreateSecret, PatchMap, DeleteSecrets, CheckRevision, At, OpOf
<1>5. CASE ListReleases(c)
  <2>1. req'[c].op = req[c].op
    BY <1>0, <1>5 DEF ListReleases, Request
  <2> QED
    BY <1>0, <1>5, <2>1 DEF ListReleases, At, OpOf
<1>6. ASSUME NEW a \in App, Rollout(c, a) \/ RolloutFails(c, a)
      PROVE  OpOf(c)'
  <2>1. req'[c].op = req[c].op /\ req'[c].app = req[c].app /\ pc' = pc
    BY <1>0, <1>6 DEF Rollout, RolloutFails, Request
  <2> QED
    BY <1>0, <2>1 DEF OpOf
<1>7. ASSUME NEW a \in App,
             Attach(c, a) \/ Detach(c, a) \/ Install(c, a) \/ Uninstall(c, a) \/ Upgrade(c, a)
      PROVE  OpOf(c)'
  <2>1. ASSUME NEW o, NEW view, NEW place, Asks(c, o, a, view, place)
        PROVE  req'[c].op = o /\ req'[c].app = a /\ pc'[c] = place
    BY <1>0, <2>1 DEF Asks, At, Blank
  <2>2. /\ req'[c].op \in Operations \ Writers /\ req'[c].app = a
        /\ pc'[c] \in {"installing", "editing", "checking", "uninstalling"}
        /\ req'[c].op = "install" => pc'[c] \in {"installing", "editing"}
    BY <1>7, <2>1 DEF Attach, Detach, Install, Uninstall, Upgrade, Operations, Writers
  <2> QED
    BY <2>2 DEF OpOf, Writers
<1>8. CASE ReadMembers(c)
  <2>1. req'[c].op = req[c].op /\ req'[c].app = req[c].app /\ pc'[c] = "writing" /\ pc[c] = "editing"
    BY <1>0, <1>8 DEF ReadMembers, Request, At
  <2> QED
    BY <1>0, <2>1 DEF OpOf
<1>9. CASE WriteMembers(c) \/ EditFails(c)
  <2>1. /\ req' = req /\ pc[c] \in {"editing", "writing"}
        /\ pc'[c] \in {"checking", "deploying", "uninstalling", "ended"}
        /\ req[c].op = "install" => pc'[c] \in {"deploying", "ended"}
    BY <1>0, <1>9 DEF WriteMembers, EditFails, After, At
  <2> QED
    BY <1>0, <2>1 DEF OpOf
<1>10. CASE \/ AlreadyExists(c) \/ RolledOut(c) \/ DeleteOldMap(c) \/ OldFormGone(c) \/ DeleteMaps(c)
            \/ NotThere(c) \/ UpgradeChart(c) \/ UninstallChart(c)
  BY <1>0, <1>1, <1>10 DEF AlreadyExists, RolledOut, DeleteOldMap, OldFormGone, DeleteMaps, NotThere,
                    UpgradeChart, UninstallChart, Ends, At
<1>11. CASE RequestFails(c)
  <2>1. req[c].op = "install" => pc'[c] \in {"deploying", "ended"}
    BY <1>0, <1>11 DEF RequestFails, After, At
  <2> QED
    BY <1>0, <1>1, <1>11, <2>1, FailFacts DEF OpOf
<1>12. CASE InstallChart(c) \/ InstallFails(c)
  BY <1>0, <1>12, InstallFacts DEF OpOf
<1> QED
  BY <1>2, <1>3, <1>4, <1>5, <1>6, <1>7, <1>8, <1>9, <1>10, <1>11, <1>12 DEF Reads, GivesUp, Writes

LEMMA TypesStep ==
  ASSUME Types, \A d \in Change : OpOf(d), [Next]_vars
  PROVE  Types' /\ \A d \in Change : OpOf(d)'
<1>1. CASE UNCHANGED vars
  BY <1>1 DEF vars, Types, TypeOK, Bounded, OpOf
<1>2. CASE Next
  <2>1. PICK c \in Change : Reads(c) \/ GivesUp(c) \/ Writes(c)
    BY <1>2, StepOfOne
  <2>2. Types'
    BY <2>1, WriteTypes, RolloutTypes, ConversionTypes, DeletionTypes, AsksTypes, EditTypes,
       InstallTypes
       DEF Reads, GivesUp, Writes
  <2>3. \A d \in Change \ {c} : OpOf(d)'
    BY <2>1, OthersStay DEF OpOf
  <2> QED
    BY <2>1, <2>2, <2>3, OpStep
<1> QED
  BY <1>1, <1>2

\* An edit of the list changes nothing else.
LEMMA WriteMembersFacts ==
  ASSUME Types, NEW c \in Change, WriteMembers(c)
  PROVE  LET v == req[c].version
             apps == Edited(c, req[c].apps)
         IN /\ DOMAIN maps' = DOMAIN maps /\ v \in DOMAIN maps
            /\ \A n \in DOMAIN maps : maps'[n].ref = maps[n].ref
            /\ \A n \in DOMAIN maps \ {v} : maps'[n] = maps[n]
            /\ maps'[v].apps = apps
            /\ maps'[v].by = IF apps = req[c].apps THEN maps[v].by ELSE c
<1> DEFINE v == req[c].version
           apps == Edited(c, req[c].apps)
           by == IF apps = req[c].apps THEN maps[v].by ELSE c
<1>1. v \in DOMAIN maps /\ maps' = [maps EXCEPT ![v].apps = apps, ![v].by = by]
  BY DEF WriteMembers, Unwritten
<1>2. \A n \in DOMAIN maps : maps[n] \in Map
  BY DEF Types, TypeOK
<1> HIDE DEF v, apps, by
<1>3. /\ DOMAIN maps' = DOMAIN maps
      /\ \A n \in DOMAIN maps \ {v} : maps'[n] = maps[n]
  BY <1>1
<1>4. maps'[v].ref = maps[v].ref /\ maps'[v].apps = apps /\ maps'[v].by = by
  BY <1>1, <1>2 DEF Map
<1> QED
  BY <1>1, <1>3, <1>4 DEF v, apps, by

\* A version is never overwritten, and none goes without the others.
LEMMA VersionsStayStep ==
  ASSUME Types, [Next]_vars
  PROVE  /\ \A n \in Versions(maps) \cap DOMAIN maps' : maps'[n].ref = maps[n].ref
         /\ \A n \in Versions(secrets) \cap DOMAIN secrets' : secrets'[n] = secrets[n]
         /\ Versions(maps) \subseteq DOMAIN maps' \/ Versions(maps') = {}
         /\ Versions(secrets) \subseteq DOMAIN secrets' \/ Versions(secrets') = {}
<1> DEFINE Stay == /\ \A n \in Versions(maps) \cap DOMAIN maps' : maps'[n].ref = maps[n].ref
                   /\ \A n \in Versions(secrets) \cap DOMAIN secrets' : secrets'[n] = secrets[n]
                   /\ Versions(maps) \subseteq DOMAIN maps' \/ Versions(maps') = {}
                   /\ Versions(secrets) \subseteq DOMAIN secrets' \/ Versions(secrets') = {}
<1>1. CASE UNCHANGED <<maps, secrets>>
  BY <1>1 DEF Versions
<1>2. ASSUME NEW c \in Change, CreateMap(c)
      PROVE  Stay
  <2>1. /\ DOMAIN maps' = DOMAIN maps \cup {req[c].version}
        /\ \A n \in DOMAIN maps \ {req[c].version} : maps'[n] = maps[n]
    BY <1>2 DEF CreateMap, Put
  <2> QED
    BY <1>2, <2>1 DEF CreateMap, Versions
<1>3. ASSUME NEW c \in Change, CreateSecret(c)
      PROVE  Stay
  <2>1. /\ DOMAIN secrets' = DOMAIN secrets \cup {req[c].version}
        /\ \A n \in DOMAIN secrets \ {req[c].version} : secrets'[n] = secrets[n]
    BY <1>3 DEF CreateSecret, Put
  <2> QED
    BY <1>3, <2>1 DEF CreateSecret, Versions
<1>4. ASSUME NEW c \in Change, PatchSecret(c) \/ PatchMap(c)
      PROVE  Stay
  BY <1>4 DEF PatchSecret, PatchMap, Versions
<1>9. ASSUME NEW c \in Change, WriteMembers(c)
      PROVE  Stay
  <2>1. DOMAIN maps' = DOMAIN maps /\ \A n \in DOMAIN maps : maps'[n].ref = maps[n].ref
    BY <1>9, WriteMembersFacts
  <2> QED
    BY <1>9, <2>1 DEF WriteMembers, Versions
<1>5. ASSUME NEW c \in Change, DeleteOldMap(c)
      PROVE  Stay
  BY <1>5 DEF DeleteOldMap, Without, Versions
<1>6. ASSUME NEW c \in Change, DeleteSecrets(c)
      PROVE  Stay
  BY <1>6 DEF DeleteSecrets, Deleted, Without, Versions
<1>7. ASSUME NEW c \in Change, DeleteMaps(c)
      PROVE  Stay
  BY <1>7 DEF DeleteMaps, Deleted, Without, Versions
<1>8. ASSUME NEW c \in Change, Reads(c) \/ GivesUp(c)
      PROVE  Stay
  BY <1>1, <1>8, ReadsKeep
<1> HIDE DEF Stay
<1> QED
  BY <1>1, <1>2, <1>3, <1>4, <1>5, <1>6, <1>7, <1>8, <1>9, StepOfOne DEF Writes, vars, Stay

-----------------------------------------------------------------------------
(* Who is on his own.                                                      *)

Starts(c) ==
  \/ Update(c) \/ PatchSecret(c) \/ Delete(c)
  \/ \E a \in App : Attach(c, a) \/ Detach(c, a) \/ Install(c, a) \/ Uninstall(c, a) \/ Upgrade(c, a)

\* A step begins a request, or is of one under way.
LEMMA StepKinds ==
  ASSUME Types, NEW c \in Change, Reads(c) \/ GivesUp(c) \/ Writes(c)
  PROVE  /\ happened \subseteq happened'
         /\ \/ Begins(c, req'[c].op)
            \/ c \in InFlight /\ req'[c].op = req[c].op /\ pc'[c] # "new"
<1>0. /\ pc \in [Change -> Place] /\ req \in [Change -> Request] /\ req[c] \in Request
      /\ Blank \in Request
  BY BlankType DEF Types, TypeOK
<1>1. CASE Starts(c)
  <2>1. CASE Update(c)
    BY <1>0, <2>1, SMTT(30) DEF Update, Begins, Blank
  <2>2. CASE PatchSecret(c) \/ Delete(c)
    <3>1. CASE PatchSecret(c)
      <4>1. Begins(c, "convert") /\ req' = [req EXCEPT ![c] = [Blank EXCEPT !.op = "convert"]]
        BY <3>1 DEF PatchSecret
      <4>2. req'[c].op = "convert"
        BY <1>0, <4>1 DEF Blank
      <4> QED
        BY <4>1, <4>2 DEF Begins
    <3>2. CASE Delete(c)
      <4>1. /\ Begins(c, "delete")
            /\ req' = [req EXCEPT ![c] = [Blank EXCEPT !.op = "delete", !.version = Latest(maps)]]
        BY <3>2 DEF Delete
      <4>2. req'[c].op = "delete"
        BY <1>0, <4>1 DEF Blank
      <4> QED
        BY <4>1, <4>2 DEF Begins
    <3> QED
      BY <2>2, <3>1, <3>2
  <2>3. ASSUME NEW a \in App,
               Attach(c, a) \/ Detach(c, a) \/ Install(c, a) \/ Uninstall(c, a) \/ Upgrade(c, a)
        PROVE  happened \subseteq happened' /\ Begins(c, req'[c].op)
    <3>1. ASSUME NEW o, NEW view, NEW place, Asks(c, o, a, view, place)
          PROVE  req'[c].op = o
      BY <1>0, <3>1 DEF Asks, Blank
    <3> QED
      BY <2>3, <3>1 DEF Attach, Detach, Install, Uninstall, Upgrade, Begins
  <2> QED
    BY <1>1, <2>1, <2>2, <2>3 DEF Starts
<1>2. CASE ReadMap(c) \/ ReadSecret(c) \/ ListReleases(c) \/ ReadOldForm(c) \/ ReadMembers(c)
  BY <1>0, <1>2 DEF ReadMap, ReadSecret, ListReleases, ReadOldForm, ReadMembers, InFlight, At, Request
<1>6. CASE InstallChart(c) \/ InstallFails(c)
  BY <1>6, InstallFacts
<1>7. CASE RequestFails(c)
  BY <1>7, FailFacts DEF InFlight
<1>3. CASE /\ CheckRevision(c) \/ UpgradeChart(c) \/ GivesUp(c)
           /\ ~(InstallChart(c) \/ InstallFails(c) \/ RequestFails(c))
  BY <1>0, <1>3 DEF CheckRevision, UpgradeChart, GivesUp, AlreadyExists, RolledOut, OldFormGone,
                    NotThere, EditFails, UninstallChart, Ends, InFlight, At, After
<1>4. ASSUME NEW a \in App, Rollout(c, a) \/ RolloutFails(c, a)
      PROVE  happened \subseteq happened' /\ c \in InFlight /\ req'[c].op = req[c].op /\ pc'[c] # "new"
  BY <1>0, <1>4 DEF Rollout, RolloutFails, InFlight, Request
<1>5. CASE Writes(c) /\ ~PatchSecret(c)
  BY <1>0, <1>5 DEF Writes, CreateMap, CreateSecret, PatchMap, DeleteOldMap, DeleteSecrets, DeleteMaps,
                    WriteMembers, InFlight, At, After
<1> QED
  BY <1>1, <1>2, <1>3, <1>4, <1>5, <1>6, <1>7 DEF Reads, GivesUp, Writes, Starts

LEMMA AloneStep ==
  ASSUME Types, Alone, NEW c \in Change, Reads(c) \/ GivesUp(c) \/ Writes(c)
  PROVE  Alone'
<1>1. \A d \in Change \ {c} : pc'[d] = pc[d] /\ req'[d] = req[d]
  BY OthersStay
<1>2. CASE c \in InFlight /\ req'[c].op = req[c].op
  <2>1. InFlight' \subseteq InFlight
    BY <1>1, <1>2 DEF InFlight
  <2>2. \A d \in InFlight' : req'[d].op = req[d].op
    BY <1>1, <1>2 DEF InFlight
  <2> QED
    BY <2>1, <2>2, StepKinds DEF Alone
<1>3. CASE Begins(c, req'[c].op)
  <2>1. InFlight' \subseteq InFlight \cup {c}
    BY <1>1 DEF InFlight
  <2>2. CASE InFlight = {}
    BY <2>1, <2>2 DEF Alone
  <2>3. CASE InFlight # {}
    <3>2. req'[c].op \in happened' /\ \A d \in InFlight : req[d].op \in happened'
      BY <1>3, <2>3 DEF Begins
    <3>3. c \notin InFlight
      BY <1>3 DEF Begins, InFlight
    <3>4. InFlight \subseteq Change
      BY DEF InFlight
    <3>1. \A d \in InFlight' : req'[d].op \in happened'
      BY <1>1, <2>1, <3>2, <3>3, <3>4
    <3> QED
      BY <3>1 DEF Alone
  <2> QED
    BY <2>2, <2>3
<1> QED
  BY <1>2, <1>3, StepKinds

\* Nobody else is under way with one who writes or deletes versions.
LEMMA OthersWait ==
  ASSUME Alone, NEW c \in Change, NEW d \in Change \ {c}, OpOf(d), pc[d] \notin {"new", "ended"},
         pc[c] \notin {"new", "ended"}, req[d].op \in Writers
  PROVE  req[d].op \in happened
  BY DEF Alone, InFlight

-----------------------------------------------------------------------------
(* What the requests hold.                                                 *)

LEMMA MakesStep ==
  ASSUME Types, \A d \in Change : Makes(d), NEW c \in Change, Reads(c) \/ GivesUp(c) \/ Writes(c)
  PROVE  \A d \in Change : Makes(d)'
<1>0. /\ pc \in [Change -> Place] /\ req \in [Change -> Request] /\ req[c] \in Request
      /\ Blank \in Request /\ Makes(c)
  BY BlankType DEF Types, TypeOK
<1> SUFFICES Makes(c)'
  <2>1. \A d \in Change \ {c} : Makes(d)'
    BY OthersStay DEF Makes
  <2> QED
    BY <2>1
<1>2. CASE pc'[c] \notin {"readMap", "creating", "created", "patching", "patched"}
  BY <1>2 DEF Makes
<1>3. CASE ReadMap(c)
  <2>1. pc'[c] = "readMap" /\ req'[c].version = Latest(maps) + 1
    BY <1>0, <1>3 DEF ReadMap, At, Request
  <2> QED
    BY <2>1, ReadTypes DEF Makes
<1>4. CASE ReadSecret(c)
  <2>1. pc'[c] = "creating" /\ pc[c] = "readMap" /\ req'[c].version = req[c].version
    BY <1>0, <1>4 DEF ReadSecret, At, Request
  <2> QED
    BY <1>0, <2>1 DEF Makes
<1>5. CASE CreateMap(c) \/ PatchMap(c)
  BY <1>0, <1>5 DEF CreateMap, PatchMap, At, Makes
<1>6. CASE PatchSecret(c)
  <2>1. pc'[c] = "patching" /\ req'[c].ref = NoRef
    BY <1>0, <1>6 DEF PatchSecret, At, Blank
  <2> QED
    BY <2>1 DEF Makes
<1>8. CASE InstallChart(c) \/ InstallFails(c)
  BY <1>0, <1>8, InstallFacts DEF Makes
<1>9. CASE RequestFails(c)
  BY <1>9, FailFacts DEF Makes
<1>7. ASSUME ~(ReadMap(c) \/ ReadSecret(c) \/ CreateMap(c) \/ PatchMap(c) \/ PatchSecret(c)),
             ~(InstallChart(c) \/ InstallFails(c) \/ RequestFails(c))
      PROVE  pc'[c] \notin {"readMap", "creating", "created", "patching", "patched"}
  BY <1>0, <1>7 DEF Reads, GivesUp, Writes, Update, AlreadyExists, ListReleases, RolledOut, ReadOldForm,
         OldFormGone, Delete, NotThere, ReadMembers, EditFails, CheckRevision, UpgradeChart,
         UninstallChart, Rollout, RolloutFails, Attach, Detach, Install, Uninstall,
         Upgrade, Asks, Ends, CreateSecret, DeleteOldMap, DeleteSecrets, DeleteMaps, WriteMembers,
         At, After
<1> QED
  BY <1>2, <1>3, <1>4, <1>5, <1>6, <1>7, <1>8, <1>9

LEMMA FreshStep ==
  ASSUME Types, \A d \in Change : Fresh(d), NEW c \in Change, Reads(c) \/ GivesUp(c) \/ Writes(c)
  PROVE  \A d \in Change : Fresh(d)'
<1>0. pc \in [Change -> Place] /\ req \in [Change -> Request] /\ req[c] \in Request
  BY DEF Types, TypeOK
<1>1. \A d \in Change \ {c} : pc'[d] = pc[d] /\ req'[d] = req[d]
  BY OthersStay
<1>2. ASSUME NEW n \in DOMAIN maps'
      PROVE  \/ n \in DOMAIN maps /\ maps'[n].by = maps[n].by
             \/ maps'[n].by = c /\ pc'[c] \notin {"new", "installing", "editing", "writing"}
  <2>1. CASE UNCHANGED maps
    BY <2>1
  <2>2. CASE CreateMap(c)
    BY <1>0, <2>2 DEF CreateMap, Put, At
  <2>3. CASE PatchMap(c)
    BY <1>0, <2>3, ReadTypes DEF PatchMap, At, Types, TypeOK, Map
  <2>4. CASE DeleteOldMap(c) \/ DeleteMaps(c)
    BY <2>4 DEF DeleteOldMap, DeleteMaps, Without
  <2>5. CASE WriteMembers(c)
    <3>1. pc'[c] \notin {"new", "installing", "editing", "writing"}
      BY <1>0, <2>5 DEF WriteMembers, At, After
    <3> QED
      BY <2>5, <3>1, WriteMembersFacts
  <2> QED
    BY <2>1, <2>2, <2>3, <2>4, <2>5, ReadsKeep DEF Writes, CreateSecret, PatchSecret, DeleteSecrets
<1>6. CASE InstallChart(c) \/ InstallFails(c)
  BY <1>0, <1>1, <1>6, InstallFacts DEF Fresh
<1>7. CASE RequestFails(c)
  BY <1>0, <1>1, <1>7, FailFacts DEF Fresh
<1> SUFFICES ASSUME ~(InstallChart(c) \/ InstallFails(c) \/ RequestFails(c))
             PROVE  \A d \in Change : Fresh(d)'
  BY <1>6, <1>7
<1>3. ASSUME pc'[c] = "writing"
      PROVE  ReadMembers(c)
  BY <1>0, <1>3 DEF Reads, GivesUp, Writes, Update, ReadMap, ReadSecret, AlreadyExists, ListReleases,
         RolledOut, ReadOldForm,
         OldFormGone, Delete, NotThere, EditFails, CheckRevision, UpgradeChart,
         UninstallChart, Rollout, RolloutFails, Attach, Detach, Install, Uninstall,
         Upgrade, Asks, Ends, CreateMap, CreateSecret, PatchSecret, PatchMap, DeleteOldMap,
         DeleteSecrets, DeleteMaps, WriteMembers, At, After
<1>4. ASSUME ReadMembers(c)
      PROVE  \E n \in DOMAIN maps : req'[c].by = maps[n].by
  BY <1>0, <1>4, ReadTypes DEF ReadMembers, Request, Versions
<1>5. pc'[c] \in {"new", "installing", "editing", "writing"} => pc[c] \in {"new", "installing", "editing", "writing"}
  BY <1>0, <1>3, StepKinds DEF Reads, GivesUp, Writes, Update, ReadMap, ReadSecret, AlreadyExists,
         ListReleases, RolledOut, ReadOldForm,
         OldFormGone, Delete, NotThere, ReadMembers, EditFails, CheckRevision, UpgradeChart,
         UninstallChart, Rollout, RolloutFails, Attach, Detach, Install, Uninstall,
         Upgrade, Begins, Asks, Ends, CreateMap, CreateSecret, PatchSecret, PatchMap, DeleteOldMap,
         DeleteSecrets, DeleteMaps, WriteMembers, At, After
<1> QED
  BY <1>1, <1>2, <1>3, <1>4, <1>5 DEF Fresh

-----------------------------------------------------------------------------
(* Secrets.                                                                *)

LEMMA WiderVersions ==
  ASSUME NEW f, NEW g, DOMAIN f \subseteq Nat, Bounded(f), DOMAIN g \subseteq Nat, Bounded(g),
         Versions(f) \subseteq DOMAIN g
  PROVE  Latest(f) <= Latest(g)
<1>1. Latest(f) \in {0} \cup DOMAIN f /\ Latest(f) \in Nat
  BY LatestFacts
<1>2. Latest(g) \in Nat /\ \A m \in DOMAIN g : m <= Latest(g)
  BY LatestFacts
<1> QED
  BY <1>1, <1>2 DEF Versions

LEMMA LatestIs ==
  ASSUME NEW f, DOMAIN f \subseteq Nat, Bounded(f), NEW n \in DOMAIN f, \A m \in DOMAIN f : m <= n
  PROVE  Latest(f) = n
<1>1. Latest(f) \in {0} \cup DOMAIN f /\ Latest(f) \in Nat /\ n <= Latest(f)
  BY LatestFacts
<1> QED
  BY <1>1

\* What a request holds stays true of the others.
LEMMA OthersHold ==
  ASSUME Types, Types', \A d \in Change : OpOf(d), Alone, SecretsInvariant, "delete" \notin happened',
         NEW c \in Change, Reads(c) \/ GivesUp(c) \/ Writes(c), NEW d \in Change \ {c}, VersionOf(d),
         \/ UNCHANGED <<maps, secrets>>
         \/ CreateMap(c) \/ CreateSecret(c) \/ PatchSecret(c) \/ PatchMap(c) \/ DeleteOldMap(c)
         \/ WriteMembers(c)
  PROVE  VersionOf(d)'
<1>0. pc'[d] = pc[d] /\ req'[d] = req[d] /\ "delete" \notin happened
  BY OthersStay, StepKinds
<1>1. /\ Versions(maps) \subseteq DOMAIN maps'
      /\ \A n \in Versions(maps) : maps'[n].ref = maps[n].ref
      /\ Versions(maps) \subseteq Versions(maps')
  <2>1. CASE CreateMap(c)
    BY <2>1 DEF CreateMap, Put, Versions
  <2>2. CASE DeleteOldMap(c)
    BY <2>2 DEF DeleteOldMap, Without, Versions
  <2>3. CASE WriteMembers(c)
    BY <2>3, WriteMembersFacts DEF Versions
  <2>4. CASE PatchMap(c)
    BY <2>4 DEF PatchMap, Versions
  <2>5. CASE UNCHANGED maps
    BY <2>5 DEF Versions
  <2> QED
    BY <2>1, <2>2, <2>3, <2>4, <2>5 DEF CreateSecret, PatchSecret
<1>2. Latest(maps) <= Latest(maps')
  BY <1>1, WiderVersions DEF Types, TypeOK
<1>3. pc[d] = "deletingMaps" => Versions(secrets') = Versions(secrets)
  <2>1. CASE CreateSecret(c)
    <3>1. pc[c] \notin {"new", "ended"}
      BY <2>1 DEF CreateSecret
    <3>2. pc[d] = "deletingMaps" => req[d].op = "delete"
      BY DEF OpOf
    <3> QED
      BY <1>0, <3>1, <3>2, OthersWait DEF Writers
  <2>2. CASE PatchSecret(c)
    BY <2>2 DEF PatchSecret, Versions
  <2> QED
    BY <2>1, <2>2 DEF CreateMap, PatchMap, DeleteOldMap, WriteMembers
<1>4. Latest(maps) \in Nat /\ Latest(maps') \in Nat
  BY ReadTypes, LatestFacts DEF Types, TypeOK
<1>5. req[d].ref \in Nat \cup {NoRef}
  BY ReadTypes DEF Request
<1>6. pc[d] = "reading" => req'[d].ref <= Latest(maps')
  BY <1>0, <1>2, <1>4, <1>5 DEF VersionOf, NoRef
<1> QED
  BY <1>0, <1>1, <1>3, <1>6 DEF VersionOf, Matches

\* Those that only read.
LEMMA ReadsHold ==
  ASSUME Types, \A d \in Change : OpOf(d), \A d \in Change : Makes(d), SecretsInvariant,
         "delete" \notin happened, NEW c \in Change, Reads(c) \/ GivesUp(c)
  PROVE  VersionOf(c)'
<1>0. /\ pc \in [Change -> Place] /\ req \in [Change -> Request] /\ req[c] \in Request
      /\ Blank \in Request /\ VersionOf(c) /\ Makes(c)
  BY BlankType DEF Types, TypeOK, SecretsInvariant
<1>1. maps' = maps
  BY ReadsKeep
<1>2. CASE Update(c)
  <2>1. PICK value \in {c, NoValue}, ref \in {NoRef} \cup {maps[n].ref : n \in Versions(maps)} :
          req' = [req EXCEPT ![c] = [Blank EXCEPT !.op = "update", !.value = value, !.ref = ref]]
    BY <1>2 DEF Update
  <2>2. req'[c].ref = ref /\ pc'[c] = "reading"
    BY <1>0, <1>2, <2>1 DEF Update, At, Blank
  <2>3. \A n \in Versions(maps) : /\ n \in Nat /\ n <= Latest(maps) /\ maps[n].ref <= n
                                  /\ maps[n].ref \in Nat \cup {NoRef}
    BY ReadTypes DEF SecretsInvariant, Versions
  <2>4. ref <= Latest(maps)
    BY <2>3, ReadTypes DEF NoRef
  <2> QED
    BY <1>1, <2>2, <2>4 DEF VersionOf
<1>3. CASE ReadMap(c)
  <2>1. /\ pc[c] = "reading" /\ pc'[c] = "readMap" /\ req'[c].version = Latest(maps) + 1
        /\ req'[c].ref = req[c].ref
    BY <1>0, <1>3 DEF ReadMap, At, Request
  <2>2. Latest(maps) \in Nat /\ req[c].ref \in Nat \cup {NoRef} /\ req[c].ref <= Latest(maps)
    BY <1>0, <2>1, ReadTypes DEF VersionOf, Request
  <2> QED
    BY <2>1, <2>2 DEF VersionOf, NoRef
<1>4. CASE ReadSecret(c)
  <2>1. /\ pc[c] = "readMap" /\ pc'[c] = "creating" /\ req'[c].version = req[c].version
        /\ req'[c].ref = req[c].ref
    BY <1>0, <1>4 DEF ReadSecret, At, Request
  <2> QED
    BY <1>0, <2>1 DEF VersionOf
<1>5. CASE ReadOldForm(c)
  <2>1. /\ pc[c] = "patched" /\ pc'[c] = "reading" /\ req'[c].ref = req[c].ref
    BY <1>0, <1>5 DEF ReadOldForm, At, Request
  <2> QED
    BY <1>0, <1>1, <2>1, ReadTypes DEF VersionOf, Makes, NoRef
<1>7. CASE InstallChart(c) \/ InstallFails(c)
  <2>1. pc[c] \in {"installing", "editing", "writing", "deploying"}
    BY <1>7, InstallFacts DEF OpOf
  <2> QED
    BY <1>7, <2>1, InstallFacts DEF VersionOf
<1>8. CASE RequestFails(c)
  BY <1>8, FailFacts DEF VersionOf
<1>6. ASSUME ~(Update(c) \/ ReadMap(c) \/ ReadSecret(c) \/ ReadOldForm(c)),
             ~(InstallChart(c) \/ InstallFails(c) \/ RequestFails(c))
      PROVE  pc'[c] \notin {"reading", "readMap", "creating", "created", "deletingMaps"}
  BY <1>0, <1>6 DEF Reads, GivesUp, AlreadyExists, ListReleases, RolledOut, OldFormGone, Delete,
         NotThere, ReadMembers, EditFails, CheckRevision, UpgradeChart,
         UninstallChart, Rollout, RolloutFails, Attach, Detach, Install, Uninstall,
         Upgrade, Asks, Ends, At, After
<1> QED
  BY <1>2, <1>3, <1>4, <1>5, <1>6, <1>7, <1>8 DEF VersionOf

\* The versions, as each write leaves them.
PairedVersions ==
  /\ Versions(secrets) \subseteq DOMAIN maps
  /\ \A n \in Versions(maps) : maps[n].ref <= n
  /\ \A n \in Versions(maps) \cap DOMAIN secrets : Matches(n, secrets[n])

LEMMA CreationsPair ==
  ASSUME Types, \A d \in Change : Makes(d), SecretsInvariant, "delete" \notin happened,
         NEW c \in Change, CreateMap(c) \/ CreateSecret(c)
  PROVE  PairedVersions' /\ VersionOf(c)'
<1> DEFINE n == req[c].version
           v == req[c].value
<1>0. /\ pc \in [Change -> Place] /\ VersionOf(c) /\ n \in Nat \ {0} /\ PairedVersions
      /\ req[c].ref \in Nat \cup {NoRef}
  BY ReadTypes DEF Types, TypeOK, SecretsInvariant, PairedVersions, Request, CreateMap, CreateSecret, Makes
<1>1. CASE CreateMap(c)
  <2>1. /\ n \notin DOMAIN maps /\ DOMAIN maps' = DOMAIN maps \cup {n}
        /\ maps'[n].ref = IF v # NoValue THEN n ELSE req[c].ref
        /\ \A m \in DOMAIN maps : maps'[m] = maps[m]
        /\ secrets' = secrets /\ req' = req /\ pc'[c] = "created" /\ pc[c] = "creating"
    BY <1>0, <1>1 DEF CreateMap, Put, At
  <2>2. req[c].ref < n
    BY <1>0, <2>1 DEF VersionOf
  <2>3. n \notin DOMAIN secrets
    BY <1>0, <2>1 DEF PairedVersions, Versions
  <2>4. maps'[n].ref <= n /\ (maps'[n].ref = n <=> v # NoValue)
    BY <1>0, <2>1, <2>2 DEF NoRef
  <2> HIDE DEF n, v
  <2>5. PairedVersions'
    BY <1>0, <2>1, <2>3, <2>4 DEF PairedVersions, Versions, Matches
  <2>6. VersionOf(c)'
    BY <1>0, <2>1, <2>4 DEF VersionOf, Versions, Matches, n, v
  <2> QED
    BY <2>5, <2>6
<1>2. CASE CreateSecret(c)
  <2>1. /\ DOMAIN secrets' = DOMAIN secrets \cup {n} /\ secrets'[n] = v
        /\ \A m \in DOMAIN secrets \ {n} : secrets'[m] = secrets[m]
        /\ maps' = maps /\ pc[c] = "created" /\ pc'[c] \in {"listing", "converted"}
    BY <1>0, <1>2 DEF CreateSecret, Put, At
  <2>2. n \in Versions(maps) /\ Matches(n, v)
    BY <1>0, <2>1 DEF VersionOf
  <2> HIDE DEF n, v
  <2>3. PairedVersions'
    BY <1>0, <2>1, <2>2 DEF PairedVersions, Versions, Matches
  <2> QED
    BY <2>1, <2>3 DEF VersionOf
<1> QED
  BY <1>1, <1>2

LEMMA OtherWritesPair ==
  ASSUME Types, \A d \in Change : Makes(d), SecretsInvariant, "delete" \notin happened,
         NEW c \in Change, PatchSecret(c) \/ PatchMap(c) \/ DeleteOldMap(c) \/ WriteMembers(c)
  PROVE  PairedVersions' /\ VersionOf(c)'
<1>0. pc \in [Change -> Place] /\ PairedVersions
  BY DEF Types, TypeOK, SecretsInvariant, PairedVersions
<1>1. CASE PatchSecret(c)
  <2>1. maps' = maps /\ DOMAIN secrets' = DOMAIN secrets /\ pc'[c] = "patching"
        /\ \A m \in DOMAIN secrets \ {0} : secrets'[m] = secrets[m]
    BY <1>0, <1>1 DEF PatchSecret, At
  <2> QED
    BY <1>0, <2>1 DEF PairedVersions, Versions, Matches, VersionOf
<1>2. CASE PatchMap(c)
  <2>1. secrets' = secrets /\ DOMAIN maps' = DOMAIN maps /\ pc'[c] = "patched"
        /\ \A m \in DOMAIN maps \ {0} : maps'[m] = maps[m]
    BY <1>0, <1>2 DEF PatchMap, At
  <2> QED
    BY <1>0, <2>1 DEF PairedVersions, Versions, Matches, VersionOf
<1>3. CASE DeleteOldMap(c)
  <2>1. secrets' = secrets /\ DOMAIN maps' = DOMAIN maps \ {0} /\ pc'[c] = "ended"
        /\ \A m \in DOMAIN maps' : maps'[m] = maps[m]
    BY <1>0, <1>3 DEF DeleteOldMap, Without, At
  <2> QED
    BY <1>0, <2>1 DEF PairedVersions, Versions, Matches, VersionOf
<1>4. CASE WriteMembers(c)
  <2>1. secrets' = secrets /\ pc'[c] \in {"checking", "deploying", "uninstalling", "ended"}
    BY <1>0, <1>4 DEF WriteMembers, After, At
  <2>2. DOMAIN maps' = DOMAIN maps /\ \A m \in DOMAIN maps : maps'[m].ref = maps[m].ref
    BY <1>4, WriteMembersFacts
  <2> QED
    BY <1>0, <2>1, <2>2 DEF PairedVersions, Versions, Matches, VersionOf
<1> QED
  BY <1>1, <1>2, <1>3, <1>4

\* A delete that nothing overlaps is on its own.
LEMMA DeletionsPair ==
  ASSUME Types, \A d \in Change : OpOf(d), Alone, SecretsInvariant, "delete" \notin happened,
         NEW c \in Change, DeleteSecrets(c) \/ DeleteMaps(c)
  PROVE  PairedVersions' /\ \A d \in Change : VersionOf(d)'
<1>0. /\ pc \in [Change -> Place] /\ VersionOf(c) /\ PairedVersions
      /\ pc[c] \in {"deleting", "deletingMaps"} /\ req[c].op = "delete"
  BY DEF Types, TypeOK, SecretsInvariant, PairedVersions, OpOf, DeleteSecrets, DeleteMaps
<1>1. InFlight = {c}
  BY <1>0 DEF Alone, InFlight, Writers
<1>2. \A d \in Change \ {c} : pc'[d] \in {"new", "ended"}
  <2>1. \A d \in Change \ {c} : pc'[d] = pc[d]
    BY <1>0 DEF DeleteSecrets, DeleteMaps, At
  <2> QED
    BY <1>1, <2>1 DEF InFlight
<1>3. \A d \in Change \ {c} : VersionOf(d)'
  BY <1>2 DEF VersionOf
<1>4. CASE DeleteSecrets(c)
  <2>1. /\ maps' = maps /\ req' = req /\ pc'[c] = "deletingMaps"
        /\ DOMAIN secrets' = DOMAIN secrets \ Deleted(c, secrets)
        /\ \A m \in DOMAIN secrets' : secrets'[m] = secrets[m]
    BY <1>0, <1>4 DEF DeleteSecrets, Without, At
  <2>2. PairedVersions'
    BY <1>0, <2>1 DEF PairedVersions, Versions, Matches
  <2>3. req[c].version # 0 => Versions(secrets') = {}
    BY <2>1 DEF Deleted, Versions
  <2>4. VersionOf(c)'
    BY <2>1, <2>3 DEF VersionOf
  <2> QED
    BY <1>3, <2>2, <2>4
<1>5. CASE DeleteMaps(c)
  <2>1. /\ secrets' = secrets /\ pc'[c] = "ended" /\ pc[c] = "deletingMaps"
        /\ DOMAIN maps' = DOMAIN maps \ Deleted(c, maps)
        /\ \A m \in DOMAIN maps' : maps'[m] = maps[m]
    BY <1>0, <1>5 DEF DeleteMaps, Without, At
  <2>2. Versions(secrets) \subseteq DOMAIN maps'
    BY <1>0, <2>1 DEF VersionOf, Deleted, PairedVersions, Versions
  <2>3. PairedVersions'
    BY <1>0, <2>1, <2>2 DEF PairedVersions, Versions, Matches
  <2>4. VersionOf(c)'
    BY <2>1 DEF VersionOf
  <2> QED
    BY <1>3, <2>3, <2>4
<1> QED
  BY <1>4, <1>5

LEMMA SecretsStep ==
  ASSUME Types, Types', \A d \in Change : OpOf(d), \A d \in Change : Makes(d), Alone,
         SecretsInvariant, NEW c \in Change, Reads(c) \/ GivesUp(c) \/ Writes(c)
  PROVE  SecretsInvariant'
<1> SUFFICES ASSUME "delete" \notin happened'
             PROVE  PairedVersions' /\ \A d \in Change : VersionOf(d)'
  BY DEF SecretsInvariant, PairedVersions
<1>0. "delete" \notin happened /\ PairedVersions /\ \A d \in Change : VersionOf(d)
  <2>1. "delete" \notin happened
    BY StepKinds
  <2> QED
    BY <2>1 DEF SecretsInvariant, PairedVersions
<1>1. CASE DeleteSecrets(c) \/ DeleteMaps(c)
  BY <1>0, <1>1, DeletionsPair
<1>2. CASE Reads(c) \/ GivesUp(c)
  <2>1. UNCHANGED <<maps, secrets>>
    BY <1>2, ReadsKeep
  <2>2. PairedVersions'
    BY <1>0, <2>1 DEF PairedVersions, Versions, Matches
  <2>3. \A d \in Change \ {c} : VersionOf(d)'
    BY <1>0, <2>1, OthersHold
  <2> QED
    BY <1>0, <1>2, <2>2, <2>3, ReadsHold
<1>3. CASE Writes(c) /\ ~(DeleteSecrets(c) \/ DeleteMaps(c))
  <2>1. PairedVersions' /\ VersionOf(c)'
    BY <1>0, <1>3, CreationsPair, OtherWritesPair DEF Writes
  <2>2. \A d \in Change \ {c} : VersionOf(d)'
    BY <1>0, <1>3, OthersHold DEF Writes
  <2> QED
    BY <2>1, <2>2
<1> QED
  BY <1>1, <1>2, <1>3

-----------------------------------------------------------------------------
(* The list of applications.                                               *)

LatestMembers == members = IF Versions(maps) = {} THEN {} ELSE maps[Latest(maps)].apps

LEMMA LatestVersion ==
  ASSUME Types
  PROVE  /\ Latest(maps) = 0 <=> Versions(maps) = {}
         /\ Versions(maps) # {} => Latest(maps) \in Versions(maps)
<1>1. /\ Latest(maps) \in {0} \cup DOMAIN maps /\ Latest(maps) \in Nat
      /\ \A m \in DOMAIN maps : m \in Nat /\ m <= Latest(maps)
  BY ReadTypes
<1> QED
  BY <1>1 DEF Versions

\* Only a step of its own, or an edit, changes what a request has read of the list.
LEMMA OthersList ==
  ASSUME Types, NEW c \in Change, Reads(c) \/ GivesUp(c) \/ Writes(c), NEW d \in Change \ {c},
         ListOf(d), UNCHANGED <<maps, members>>
  PROVE  ListOf(d)'
  BY OthersStay DEF ListOf, Unwritten

\* Whoever writes versions is on his own, and leaves nobody with a list that is out of date.
LEMMA WritersAlone ==
  ASSUME Types, \A d \in Change : OpOf(d), Alone, Writers \cap happened = {},
         NEW c \in Change, Reads(c) \/ GivesUp(c) \/ Writes(c),
         pc[c] \notin {"new", "ended"}, req[c].op \in Writers
  PROVE  \A d \in Change \ {c} : ListOf(d)'
<1>1. InFlight = {c}
  BY DEF Alone, InFlight
<1>2. \A d \in Change \ {c} : pc'[d] \in {"new", "ended"}
  BY <1>1, OthersStay DEF InFlight
<1> QED
  BY <1>2 DEF ListOf

\* Those that only read.
LEMMA ReadsList ==
  ASSUME Types, \A d \in Change : OpOf(d), LatestMembers, NEW c \in Change, ListOf(c),
         Reads(c) \/ GivesUp(c)
  PROVE  ListOf(c)'
<1>0. /\ pc \in [Change -> Place] /\ req \in [Change -> Request] /\ req[c] \in Request
      /\ Blank \in Request
  BY BlankType DEF Types, TypeOK
<1>1. maps' = maps /\ members' = members
  BY ReadsKeep
<1>2. CASE ReadMap(c)
  <2>1. /\ pc'[c] = "readMap" /\ req'[c].version = Latest(maps) + 1
        /\ req'[c].apps = IF Latest(maps) = 0 THEN {} ELSE maps[Latest(maps)].apps
    BY <1>0, <1>2 DEF ReadMap, At, Request
  <2> QED
    BY <1>1, <2>1, LatestVersion DEF ListOf, LatestMembers
<1>3. CASE ReadSecret(c)
  <2>1. /\ pc[c] = "readMap" /\ pc'[c] = "creating" /\ req'[c].version = req[c].version
        /\ req'[c].apps = req[c].apps
    BY <1>0, <1>3 DEF ReadSecret, At, Request
  <2> QED
    BY <1>1, <2>1 DEF ListOf
<1>4. CASE ReadMembers(c)
  <2>1. /\ pc'[c] = "writing" /\ req'[c].version = Latest(maps) /\ Versions(maps) # {}
        /\ req'[c].apps = maps[Latest(maps)].apps
    BY <1>0, <1>4 DEF ReadMembers, At, Request
  <2> QED
    BY <1>1, <2>1, LatestVersion DEF ListOf
<1>5. CASE Delete(c)
  <2>1. pc'[c] = "deleting" /\ req'[c].version = Latest(maps)
    BY <1>0, <1>5 DEF Delete, At, Blank
  <2> QED
    BY <1>1, <2>1, LatestVersion DEF ListOf
<1>7. CASE InstallChart(c) \/ InstallFails(c)
  BY <1>0, <1>1, <1>7, InstallFacts DEF ListOf, Unwritten, OpOf
<1>8. CASE RequestFails(c)
  BY <1>8, FailFacts DEF ListOf
<1>6. ASSUME ~(ReadMap(c) \/ ReadSecret(c) \/ ReadMembers(c) \/ Delete(c)),
             ~(InstallChart(c) \/ InstallFails(c) \/ RequestFails(c))
      PROVE  pc'[c] \notin {"readMap", "creating", "writing", "deleting", "deletingMaps"}
  BY <1>0, <1>6 DEF Reads, GivesUp, Update, ReadOldForm, AlreadyExists, ListReleases, RolledOut,
         OldFormGone, NotThere, EditFails, CheckRevision, UpgradeChart,
         UninstallChart, Rollout, RolloutFails, Attach, Detach, Install, Uninstall,
         Upgrade, Asks, Ends, At, After
<1> QED
  BY <1>2, <1>3, <1>4, <1>5, <1>6, <1>7, <1>8 DEF ListOf

\* Those that write versions, and deletions.
LEMMA WritersList ==
  ASSUME Types, Types', LatestMembers, NEW c \in Change, ListOf(c), Makes(c),
         \/ CreateMap(c) \/ CreateSecret(c) \/ PatchMap(c) \/ DeleteOldMap(c)
         \/ DeleteSecrets(c) \/ DeleteMaps(c)
  PROVE  LatestMembers' /\ ListOf(c)'
<1>0. pc \in [Change -> Place] /\ req \in [Change -> Request] /\ req[c] \in Request
  BY DEF Types, TypeOK
<1>1. CASE CreateMap(c)
  <2> DEFINE n == req[c].version
  <2>1. /\ n \in Nat \ {0} /\ n = Latest(maps) + 1 /\ req[c].apps = members
        /\ DOMAIN maps' = DOMAIN maps \cup {n} /\ maps'[n].apps = req[c].apps
        /\ members' = members /\ pc'[c] = "created"
    BY <1>0, <1>1 DEF CreateMap, Put, At, ListOf, Makes, Request
  <2>2. \A m \in DOMAIN maps' : m <= n
    BY <2>1, ReadTypes
  <2>3. Latest(maps') = n
    BY <2>1, <2>2, LatestIs DEF Types, TypeOK
  <2>4. n \in Versions(maps')
    BY <2>1 DEF Versions
  <2> QED
    BY <2>1, <2>3, <2>4 DEF LatestMembers, ListOf
<1>2. CASE CreateSecret(c)
  BY <1>0, <1>2 DEF CreateSecret, At, LatestMembers, ListOf
<1>3. CASE PatchMap(c)
  <2>1. /\ DOMAIN maps' = DOMAIN maps /\ \A m \in DOMAIN maps \ {0} : maps'[m] = maps[m]
        /\ members' = members /\ pc'[c] = "patched"
    BY <1>0, <1>3 DEF PatchMap, At
  <2>2. Latest(maps') = Latest(maps) /\ Versions(maps') = Versions(maps)
    BY <2>1, SameVersions
  <2> QED
    BY <2>1, <2>2, LatestVersion DEF LatestMembers, ListOf, Versions
<1>4. CASE DeleteOldMap(c)
  <2>1. /\ DOMAIN maps' = DOMAIN maps \ {0} /\ \A m \in DOMAIN maps' : maps'[m] = maps[m]
        /\ members' = members /\ pc'[c] = "ended"
    BY <1>0, <1>4 DEF DeleteOldMap, Without, At
  <2>2. Versions(maps') = Versions(maps)
    BY <2>1 DEF Versions
  <2>3. ASSUME Versions(maps) # {}
        PROVE  Latest(maps') = Latest(maps) /\ Latest(maps) \in DOMAIN maps'
    <3>1. Latest(maps) \in DOMAIN maps' /\ \A m \in DOMAIN maps' : m <= Latest(maps)
      BY <2>1, <2>3, LatestVersion, ReadTypes DEF Versions
    <3> QED
      BY <3>1, LatestIs DEF Types, TypeOK
  <2> QED
    BY <2>1, <2>2, <2>3 DEF LatestMembers, ListOf
<1>5. CASE DeleteSecrets(c)
  BY <1>0, <1>5 DEF DeleteSecrets, At, LatestMembers, ListOf
<1>6. CASE DeleteMaps(c)
  <2>1. /\ DOMAIN maps' = DOMAIN maps \ Deleted(c, maps)
        /\ members' = {} /\ pc[c] = "deletingMaps" /\ pc'[c] = "ended"
    BY <1>0, <1>6 DEF DeleteMaps, Without, At
  <2>2. Versions(maps') = {}
    BY <2>1 DEF Deleted, Versions, ListOf
  <2> QED
    BY <2>1, <2>2 DEF LatestMembers, ListOf
<1> QED
  BY <1>1, <1>2, <1>3, <1>4, <1>5, <1>6

\* An edit starts from the list of the latest version, or finds that it was written.
LEMMA EditsList ==
  ASSUME Types, \A d \in Change : OpOf(d), Alone, \A d \in Change : Fresh(d), LatestMembers,
         \A d \in Change : ListOf(d), Writers \cap happened = {}, NEW c \in Change, WriteMembers(c)
  PROVE  LatestMembers' /\ \A d \in Change : ListOf(d)'
<1> DEFINE v == req[c].version
           apps == Edited(c, req[c].apps)
<1>0. pc \in [Change -> Place] /\ Writes(c)
  BY DEF Types, TypeOK, Writes
<1>1. /\ pc[c] = "writing" /\ v = Latest(maps) /\ v \in Versions(maps) /\ req[c].apps = members
      /\ members' = Edited(c, members) /\ pc'[c] \in {"checking", "deploying", "uninstalling", "ended"}
  BY <1>0 DEF WriteMembers, ListOf, LatestMembers, At, After
<1>2. /\ DOMAIN maps' = DOMAIN maps /\ maps'[v].apps = apps
      /\ \A n \in DOMAIN maps \ {v} : maps'[n] = maps[n]
      /\ maps'[v].by = IF apps = req[c].apps THEN maps[v].by ELSE c
  BY WriteMembersFacts
<1>3. Latest(maps') = Latest(maps) /\ Versions(maps') = Versions(maps)
  BY <1>2, SameVersions
<1>4. LatestMembers'
  BY <1>1, <1>2, <1>3 DEF LatestMembers
<1>5. ASSUME NEW d \in Change \ {c}
      PROVE  ListOf(d)'
  <2>0. pc'[d] = pc[d] /\ req'[d] = req[d] /\ ListOf(d)
    BY <1>0, OthersStay
  <2>1. pc[d] \notin {"readMap", "creating", "deleting", "deletingMaps"}
    <3>1. pc[d] \in {"readMap", "creating", "deleting", "deletingMaps"} => req[d].op \in Writers
      BY DEF OpOf, Writers
    <3>2. pc[d] \in {"readMap", "creating", "deleting", "deletingMaps"} => pc[d] \notin {"new", "ended"}
      OBVIOUS
    <3> QED
      BY <1>1, <3>1, <3>2, OthersWait
  <2>2. ASSUME pc[d] = "writing", req[d].version \in DOMAIN maps', maps'[req[d].version].by = req[d].by
        PROVE  req[d].apps = maps'[req[d].version].apps
    <3>1. req[d].version = v
      BY <1>1, <2>0, <2>2 DEF ListOf
    <3>2. req[d].by # c
      BY <1>1, <2>2 DEF Fresh
    <3>3. apps = req[c].apps /\ maps[v].by = req[d].by
      BY <1>2, <2>2, <3>1, <3>2
    <3>4. req[d].apps = maps[v].apps
      BY <1>1, <2>0, <2>2, <3>1, <3>3 DEF ListOf, Unwritten, Versions
    <3>5. req[c].apps = maps[v].apps
      BY <1>1 DEF LatestMembers
    <3> QED
      BY <1>2, <3>1, <3>3, <3>4, <3>5
  <2> HIDE DEF v, apps
  <2> QED
    BY <1>3, <2>0, <2>1, <2>2 DEF ListOf, Unwritten
<1>6. ListOf(c)'
  BY <1>1 DEF ListOf
<1> QED
  BY <1>4, <1>5, <1>6

LEMMA MembersStep ==
  ASSUME Types, Types', \A d \in Change : OpOf(d) /\ Makes(d) /\ Fresh(d), Alone, MembersInvariant,
         NEW c \in Change, Reads(c) \/ GivesUp(c) \/ Writes(c)
  PROVE  MembersInvariant'
<1> SUFFICES ASSUME Writers \cap happened' = {}
             PROVE  LatestMembers' /\ \A d \in Change : ListOf(d)'
  BY DEF MembersInvariant, LatestMembers
<1>0. Writers \cap happened = {} /\ LatestMembers /\ \A d \in Change : ListOf(d)
  <2>1. Writers \cap happened = {}
    BY StepKinds
  <2> QED
    BY <2>1 DEF MembersInvariant, LatestMembers
<1>1. CASE WriteMembers(c)
  BY <1>0, <1>1, EditsList
<1>2. CASE Reads(c) \/ GivesUp(c)
  <2>1. UNCHANGED <<maps, members>>
    BY <1>2, ReadsKeep
  <2>2. LatestMembers'
    BY <1>0, <2>1 DEF LatestMembers
  <2> QED
    BY <1>0, <1>2, <2>1, <2>2, OthersList, ReadsList
<1>3. CASE PatchSecret(c)
  <2>1. UNCHANGED <<maps, members>>
    BY <1>3 DEF PatchSecret
  <2>2. pc'[c] = "patching"
    BY <1>3 DEF PatchSecret, At, Types, TypeOK
  <2>3. LatestMembers' /\ ListOf(c)'
    BY <1>0, <2>1, <2>2 DEF LatestMembers, ListOf
  <2> QED
    BY <1>0, <2>1, <2>3, OthersList
<1>4. CASE Writes(c) /\ ~WriteMembers(c) /\ ~PatchSecret(c)
  <2>1. pc[c] \notin {"new", "ended"} /\ req[c].op \in Writers
    BY <1>4 DEF Writes, CreateMap, CreateSecret, PatchMap, DeleteOldMap, DeleteSecrets, DeleteMaps,
                OpOf, Writers
  <2>2. \A d \in Change \ {c} : ListOf(d)'
    BY <1>0, <1>4, <2>1, WritersAlone
  <2>3. LatestMembers' /\ ListOf(c)'
    BY <1>0, <1>4, WritersList DEF Writes
  <2> QED
    BY <2>2, <2>3
<1> QED
  BY <1>1, <1>2, <1>3, <1>4

-----------------------------------------------------------------------------
(* What has been read and made stays good while it is needed.              *)

\* The secret of a version that is being made is not there yet, and nobody else makes it.
SecretDue(c) ==
  pc[c] = "created" =>
    /\ req[c].version \notin DOMAIN secrets
    /\ \A d \in Change : pc[d] = "created" /\ req[d].version = req[c].version => d = c

DueInvariant == "delete" \notin happened => \A c \in Change : SecretDue(c)

\* Whoever converts the group goes on to delete its old form; whoever updates it has found
\* versions, unless it has no old form.
FormOf(c) ==
  /\ pc[c] \in {"reading", "readMap", "creating"} /\ req[c].op = "update" /\ 0 \in DOMAIN maps =>
       Versions(maps) # {}
  /\ pc[c] \in {"listing", "rolling"} => req[c].op = "update"
  /\ pc[c] \in {"patching", "patched", "converted"} => req[c].op = "convert"

Converts(c) == pc[c] \in {"created", "converted"} /\ req[c].op = "convert"

FormsInvariant ==
  {"delete", "failure"} \cap happened = {} =>
    /\ 0 \in DOMAIN maps /\ Versions(maps) # {} => \E c \in Change : Converts(c)
    /\ \A c \in Change : FormOf(c)

\* The variable has the value given last in the latest secret, and so it has in the request
\* that has made a version and is to make its secret.
ValueOf(c) ==
  /\ pc[c] \in {"reading", "readMap"} /\ req[c].ref # NoRef => Versions(maps) # {}
  /\ pc[c] = "creating" /\ req[c].ref # NoRef => req[c].value = given
  /\ pc[c] = "created" => /\ req[c].value = given
                          /\ req[c].version = Latest(maps)
                          /\ Versions(secrets) = Versions(maps) \ {req[c].version}
  /\ pc[c] = "deletingMaps" /\ req[c].version # 0 => Versions(secrets) = {}

\* No version is half made or half deleted.
Paired == \A c \in Change : pc[c] # "created" /\ (pc[c] = "deletingMaps" => req[c].version = 0)

PairsMatch ==
  /\ Versions(secrets) = Versions(maps)
  /\ Versions(maps) # {} => secrets[Latest(maps)] = given

ValueInvariant ==
  (Writers \cup {"failure"}) \cap happened = {} =>
    /\ \A c \in Change : ValueOf(c)
    /\ Paired => PairsMatch

\* The releases, but for some, are synced to the latest version, or to none.
SyncedBut(S) == \A a \in App \ S : charts[a].section = IF a \in members THEN Latest(maps) ELSE 0

\* Nothing that is not installed is in the group.
Absent == \A a \in App \ Installed : charts[a].section = 0 /\ a \notin members

\* What is left to do before all of them are.
SyncOf(c) ==
  /\ pc[c] \in {"reading", "readMap", "creating", "patching", "patched", "converted", "deleting",
                "deletingMaps"} =>
       SyncedBut({})
  /\ pc[c] \notin {"new", "ended"} /\ req[c].op \in {"convert", "delete"} => members = {} /\ SyncedBut({})
  /\ pc[c] \in {"created", "listing", "rolling"} =>
       /\ req[c].version = Latest(maps)
       /\ \A a \in App : charts[a].section # 0 <=> a \in members
  /\ pc[c] \in {"created", "listing"} => req[c].apps = members
  /\ pc[c] = "rolling" =>
       \A a \in App : IF req[c].plan[a] = -1 THEN a \in members => charts[a].section = Latest(maps)
                      ELSE a \in members /\ req[c].plan[a] # 0
  /\ pc[c] \in {"editing", "writing"} =>
       /\ Versions(maps) # {}
       /\ SyncedBut(IF req[c].op = "install" THEN {req[c].app} ELSE {})
       /\ req[c].op = "install" =>
            IF req[c].revision = 0 THEN req[c].app \notin Installed /\ req[c].view = Latest(maps)
            ELSE req[c].app \in Installed /\ charts[req[c].app].section = Latest(maps)
       /\ req[c].op = "attach" => req[c].view = Latest(maps) /\ req[c].app \in Installed
       /\ req[c].op = "detach" => req[c].view = 0
       /\ req[c].op \in {"install", "attach", "detach", "uninstall"}
  /\ pc[c] = "writing" => Unwritten(c)
  /\ (pc[c] \in {"editing", "writing"} /\ req[c].op \in {"attach", "detach"})
     \/ pc[c] \in {"checking", "upgrading"} =>
       charts[req[c].app].revision = req[c].revision /\ req[c].app \in Installed
  /\ pc[c] \in {"checking", "upgrading"} =>
       /\ SyncedBut({req[c].app})
       /\ req[c].view = IF req[c].app \in members THEN Latest(maps) ELSE 0
  /\ pc[c] = "uninstalling" => SyncedBut({req[c].app}) /\ req[c].app \notin members
  /\ pc[c] \in {"installing", "deploying"} =>
       /\ SyncedBut({req[c].app})
       /\ req[c].view = Latest(maps) /\ req[c].app \notin Installed
  /\ pc[c] = "installing" => Versions(maps) # {}
  /\ pc[c] = "deploying" =>
       /\ req[c].app \in members
       /\ \A a \in App \ Installed : charts[a].section = 0 /\ (a \in members => a = req[c].app)

SyncInvariant ==
  happened = {} =>
    /\ \A c, d \in InFlight : c = d
    /\ (\A c \in Change : pc[c] # "deploying") => Absent
    /\ InFlight = {} => SyncedBut({})
    /\ \A c \in Change : SyncOf(c)

\* A version that is being made is one that nobody has made.
LEMMA DueStep ==
  ASSUME Types, \A d \in Change : Makes(d), SecretsInvariant, DueInvariant,
         NEW c \in Change, Reads(c) \/ GivesUp(c) \/ Writes(c)
  PROVE  DueInvariant'
<1> SUFFICES ASSUME "delete" \notin happened', NEW e \in Change, pc'[e] = "created"
             PROVE  SecretDue(e)'
  BY DEF DueInvariant, SecretDue
<1>0. /\ pc \in [Change -> Place] /\ req \in [Change -> Request]
      /\ \A d \in Change \ {c} : pc'[d] = pc[d] /\ req'[d] = req[d]
      /\ "delete" \notin happened
  BY OthersStay, StepKinds DEF Types, TypeOK
<1>1. \A d \in Change : SecretDue(d) /\ VersionOf(d)
  BY <1>0 DEF DueInvariant, SecretsInvariant
<1>2. CASE CreateMap(c)
  <2>1. /\ pc[c] = "creating" /\ req[c].version \notin DOMAIN maps /\ req[c].version # 0
        /\ req' = req /\ secrets' = secrets
    BY <1>2, ReadTypes DEF CreateMap, Makes, Request
  <2>2. req[c].version \notin DOMAIN secrets
    BY <1>0, <2>1 DEF SecretsInvariant, Versions
  <2>3. \A d \in Change \ {c} : pc[d] = "created" => req[d].version # req[c].version
    BY <1>1, <2>1 DEF VersionOf, Versions
  <2> QED
    BY <1>0, <1>1, <2>1, <2>2, <2>3 DEF SecretDue
<1>4. CASE InstallChart(c) \/ InstallFails(c) \/ RequestFails(c)
  <2>1. UNCHANGED secrets /\ \A d \in Change : pc'[d] = "created" => pc[d] = "created"
    BY <1>0, <1>4, InstallFacts, FailFacts
  <2>2. \A d \in Change : req'[d].version = req[d].version
    BY <1>0, <1>4, InstallFacts, FailFacts
  <2> QED
    BY <1>1, <2>1, <2>2 DEF SecretDue
<1>3. CASE ~(CreateMap(c) \/ InstallChart(c) \/ InstallFails(c) \/ RequestFails(c))
  <2>1. pc'[c] # "created"
    BY <1>0, <1>3 DEF Reads, GivesUp, Writes, Update, ReadMap, ReadSecret, AlreadyExists, ListReleases,
         RolledOut, ReadOldForm, OldFormGone, Delete, NotThere, ReadMembers, EditFails, CheckRevision,
         UpgradeChart, UninstallChart, Rollout, RolloutFails, Attach, Detach, Install,
         Uninstall, Upgrade, Asks, Ends, CreateSecret, PatchSecret, PatchMap, DeleteOldMap,
         DeleteSecrets, DeleteMaps, WriteMembers, At, After
  <2>2. pc[e] = "created" /\ req'[e] = req[e] /\ e # c
    BY <1>0, <2>1
  <2>3. req[e].version \notin DOMAIN secrets'
    <3>1. CASE CreateSecret(c)
      <4>1. pc[c] = "created" /\ DOMAIN secrets' = DOMAIN secrets \cup {req[c].version}
        BY <3>1 DEF CreateSecret, Put
      <4> QED
        BY <1>1, <2>2, <4>1 DEF SecretDue
    <3>2. CASE ~CreateSecret(c)
      <4>1. DOMAIN secrets' \subseteq DOMAIN secrets
        BY <1>3, <3>2, ReadsKeep DEF Writes, PatchSecret, PatchMap, DeleteOldMap, DeleteSecrets, DeleteMaps,
                               WriteMembers, Without
      <4> QED
        BY <1>1, <2>2, <4>1 DEF SecretDue
    <3> QED
      BY <3>1, <3>2
  <2> QED
    BY <1>0, <1>1, <2>1, <2>2, <2>3 DEF SecretDue
<1> QED
  BY <1>2, <1>3, <1>4

\* Whoever works on versions while nobody overlaps is the only one under way.
LEMMA AloneAtWork ==
  ASSUME Types, \A d \in Change : OpOf(d), Alone, NEW c \in Change, Reads(c) \/ GivesUp(c) \/ Writes(c),
         pc[c] \notin {"new", "ended"}, req[c].op \in Writers \ happened
  PROVE  /\ \A d \in Change \ {c} : pc[d] \in {"new", "ended"}
         /\ \A d \in Change \ {c} : pc'[d] \in {"new", "ended"}
<1>1. InFlight = {c}
  BY DEF Alone, InFlight
<1>2. \A d \in Change \ {c} : pc[d] \in {"new", "ended"}
  BY <1>1 DEF InFlight
<1> QED
  BY <1>2, OthersStay

-----------------------------------------------------------------------------
(* The form of the group.                                                  *)

\* Whoever converts the group is only through when its old form is gone.
LEMMA ConvertsStep ==
  ASSUME Types, \A d \in Change : OpOf(d), DueInvariant, {"delete", "failure"} \cap happened' = {},
         NEW c \in Change, Reads(c) \/ GivesUp(c) \/ Writes(c), 0 \in DOMAIN maps',
         NEW d \in Change, Converts(d)
  PROVE  Converts(d)'
<1>0. /\ pc \in [Change -> Place] /\ req \in [Change -> Request] /\ req[c] \in Request
      /\ {"delete", "failure"} \cap happened = {} /\ SecretDue(d)
  BY StepKinds DEF Types, TypeOK, DueInvariant
<1>1. CASE d # c
  BY <1>1, OthersStay DEF Converts
<1>2. CASE d = c
  <2>1. ~RequestFails(c)
    BY DEF RequestFails
  <2>5. ~(InstallChart(c) \/ InstallFails(c))
    BY <1>2, InstallFacts DEF Converts
  <2>2. 0 \in DOMAIN maps \/ CreateMap(c)
    BY ReadsKeep DEF Writes, CreateSecret, PatchSecret, PatchMap, DeleteOldMap, DeleteSecrets,
           DeleteMaps, WriteMembers, Without
  <2>3. CASE pc[c] = "created"
    <3>1. CreateSecret(c)
      BY <1>0, <1>2, <2>1, <2>3, <2>5 DEF Reads, GivesUp, Writes, Update, ReadMap, ReadSecret, AlreadyExists,
         ListReleases, RolledOut, ReadOldForm, OldFormGone, Delete, NotThere, ReadMembers, EditFails,
         CheckRevision, UpgradeChart, UninstallChart, Rollout, RolloutFails, Attach, Detach, Install,
         Uninstall, Upgrade, Begins, CreateMap, PatchSecret, PatchMap, DeleteOldMap, DeleteSecrets,
         DeleteMaps, WriteMembers, SecretDue
    <3> QED
      BY <1>0, <1>2, <3>1 DEF CreateSecret, At, Converts
  <2>4. CASE pc[c] = "converted"
    <3>1. DeleteOldMap(c) \/ OldFormGone(c)
      BY <1>0, <1>2, <2>1, <2>4, <2>5 DEF Reads, GivesUp, Writes, Update, ReadMap, ReadSecret, AlreadyExists,
         ListReleases, RolledOut, ReadOldForm, Delete, NotThere, ReadMembers, EditFails,
         CheckRevision, UpgradeChart, UninstallChart, Rollout, RolloutFails, Attach, Detach, Install,
         Uninstall, Upgrade, Begins, CreateMap, CreateSecret, PatchSecret, PatchMap, DeleteSecrets,
         DeleteMaps, WriteMembers
    <3> QED
      BY <2>2, <2>4, <3>1 DEF DeleteOldMap, OldFormGone, CreateMap, Without
  <2> QED
    BY <1>2, <2>3, <2>4 DEF Converts
<1> QED
  BY <1>1, <1>2

\* Which versions there are, and whether there is an old form.
LEMMA FormsKept ==
  ASSUME Types, NEW c \in Change, Reads(c) \/ GivesUp(c) \/ Writes(c), Makes(c)
  PROVE  \/ CreateMap(c) /\ Versions(maps) \subseteq Versions(maps') /\ Versions(maps') # {}
            /\ (0 \in DOMAIN maps' <=> 0 \in DOMAIN maps)
         \/ ~CreateMap(c) /\ DeleteMaps(c) /\ DOMAIN maps' = DOMAIN maps \ Deleted(c, maps)
         \/ ~CreateMap(c) /\ Versions(maps') = Versions(maps)
            /\ (0 \in DOMAIN maps' => 0 \in DOMAIN maps)
<1>1. CASE CreateMap(c)
  <2>1. /\ DOMAIN maps' = DOMAIN maps \cup {req[c].version}
        /\ req[c].version \in Nat \ {0}
    BY <1>1, ReadTypes DEF CreateMap, Put, Makes, Request
  <2> QED
    BY <1>1, <2>1 DEF Versions
<1>2. CASE DeleteMaps(c)
  BY <1>2 DEF DeleteMaps, CreateMap, Without
<1>3. CASE DeleteOldMap(c)
  BY <1>3 DEF DeleteOldMap, CreateMap, Without, Versions
<1>4. CASE PatchMap(c)
  BY <1>4 DEF PatchMap, CreateMap, Versions
<1>5. CASE WriteMembers(c)
  BY <1>5, WriteMembersFacts DEF WriteMembers, CreateMap, Versions
<1>6. CASE Reads(c) \/ GivesUp(c) \/ CreateSecret(c) \/ PatchSecret(c) \/ DeleteSecrets(c)
  <2>1. maps' = maps
    BY <1>6, ReadsKeep DEF CreateSecret, PatchSecret, DeleteSecrets
  <2> QED
    BY <1>1, <2>1 DEF Versions
<1> QED
  BY <1>1, <1>2, <1>3, <1>4, <1>5, <1>6 DEF Writes

\* The request of a step.
LEMMA FormMoves ==
  ASSUME Types, \A d \in Change : OpOf(d), NEW c \in Change, Reads(c) \/ GivesUp(c) \/ Writes(c),
         FormOf(c), Versions(maps) # {} => Versions(maps') # {}, 0 \in DOMAIN maps' => 0 \in DOMAIN maps
  PROVE  FormOf(c)'
<1>0. /\ pc \in [Change -> Place] /\ req \in [Change -> Request] /\ req[c] \in Request
      /\ Blank \in Request
  BY BlankType DEF Types, TypeOK
<1>1. CASE Update(c)
  <2>1. req'[c].op = "update" /\ pc'[c] = "reading" /\ (0 \in DOMAIN maps => Versions(maps) # {})
    BY <1>0, <1>1 DEF Update, At, Blank
  <2> QED
    BY <2>1 DEF FormOf
<1>2. CASE PatchSecret(c)
  <2>1. req'[c].op = "convert" /\ pc'[c] = "patching"
    BY <1>0, <1>2 DEF PatchSecret, At, Blank
  <2> QED
    BY <2>1 DEF FormOf
<1>3. CASE ReadMap(c) \/ ReadSecret(c)
  <2>1. req'[c].op = req[c].op /\ pc[c] \in {"reading", "readMap"} /\ pc'[c] \in {"readMap", "creating"}
    BY <1>0, <1>3 DEF ReadMap, ReadSecret, At, Request
  <2> QED
    BY <2>1 DEF FormOf
<1>4. CASE ReadOldForm(c)
  <2>1. req'[c].op = req[c].op /\ pc[c] = "patched" /\ pc'[c] = "reading"
    BY <1>0, <1>4 DEF ReadOldForm, At, Request
  <2> QED
    BY <2>1 DEF FormOf
<1>5. CASE CreateSecret(c)
  <2>1. /\ req'[c].op = req[c].op /\ pc[c] = "created"
        /\ pc'[c] = IF req[c].op = "update" THEN "listing" ELSE "converted"
    BY <1>0, <1>5 DEF CreateSecret, At
  <2>2. req[c].op \in {"update", "convert"}
    BY <2>1 DEF OpOf
  <2> QED
    BY <2>1, <2>2 DEF FormOf
<1>6. CASE ListReleases(c)
  <2>1. req'[c].op = req[c].op /\ pc[c] = "listing" /\ pc'[c] = "rolling"
    BY <1>0, <1>6 DEF ListReleases, At, Request
  <2> QED
    BY <2>1 DEF FormOf
<1>7. ASSUME NEW a \in App, Rollout(c, a) \/ RolloutFails(c, a)
      PROVE  FormOf(c)'
  <2>1. req'[c].op = req[c].op /\ pc[c] = "rolling" /\ pc'[c] = "rolling"
    BY <1>0, <1>7 DEF Rollout, RolloutFails, Request
  <2> QED
    BY <2>1 DEF FormOf
<1>8. CASE PatchMap(c)
  BY <1>0, <1>8 DEF PatchMap, At, FormOf
<1>9. ASSUME ~\/ Update(c) \/ PatchSecret(c) \/ ReadMap(c) \/ ReadSecret(c) \/ ReadOldForm(c)
              \/ CreateSecret(c) \/ ListReleases(c) \/ PatchMap(c)
              \/ (\E a \in App : Rollout(c, a) \/ RolloutFails(c, a))
              \/ InstallChart(c) \/ InstallFails(c) \/ RequestFails(c)
      PROVE  pc'[c] \notin {"reading", "readMap", "creating", "listing", "rolling", "patching",
                            "patched", "converted"}
  BY <1>0, <1>9 DEF Reads, GivesUp, Writes, AlreadyExists, RolledOut, OldFormGone, Delete, NotThere,
     ReadMembers, EditFails, CheckRevision, UpgradeChart, UninstallChart, Attach, Detach, Install,
     Uninstall, Upgrade, Asks, Ends, CreateMap, DeleteOldMap, DeleteSecrets, DeleteMaps,
     WriteMembers, At, After
<1>10. CASE InstallChart(c) \/ InstallFails(c)
  <2>1. pc'[c] \in {"editing", "writing", "deploying", "ended"}
    BY <1>10, InstallFacts DEF OpOf
  <2> QED
    BY <2>1 DEF FormOf
<1>11. CASE RequestFails(c)
  BY <1>11, FailFacts DEF FormOf
<1> QED
  BY <1>1, <1>2, <1>3, <1>4, <1>5, <1>6, <1>7, <1>8, <1>9, <1>10, <1>11 DEF FormOf

LEMMA FormsStep ==
  ASSUME Types, \A d \in Change : OpOf(d) /\ Makes(d), Alone, DueInvariant, FormsInvariant,
         NEW c \in Change, Reads(c) \/ GivesUp(c) \/ Writes(c)
  PROVE  FormsInvariant'
<1> SUFFICES ASSUME {"delete", "failure"} \cap happened' = {}
             PROVE  /\ 0 \in DOMAIN maps' /\ Versions(maps') # {} => \E d \in Change : Converts(d)'
                    /\ \A d \in Change : FormOf(d)'
  BY DEF FormsInvariant
<1>0. /\ {"delete", "failure"} \cap happened = {}
      /\ 0 \in DOMAIN maps /\ Versions(maps) # {} => \E d \in Change : Converts(d)
      /\ \A d \in Change : FormOf(d)
      /\ pc \in [Change -> Place] /\ req \in [Change -> Request]
      /\ \A d \in Change \ {c} : pc'[d] = pc[d] /\ req'[d] = req[d]
  <2>1. {"delete", "failure"} \cap happened = {}
    BY StepKinds
  <2> QED
    BY <2>1, OthersStay DEF FormsInvariant, Types, TypeOK
<1>1. CASE DeleteMaps(c) /\ ~CreateMap(c) /\ DOMAIN maps' = DOMAIN maps \ Deleted(c, maps)
  <2>1. pc[c] = "deletingMaps" /\ pc'[c] = "ended" /\ req[c].op = "delete"
    BY <1>0, <1>1 DEF DeleteMaps, At, OpOf
  <2>2. \A d \in Change \ {c} : pc'[d] \in {"new", "ended"}
    BY <1>0, <2>1, AloneAtWork DEF Writers
  <2>3. ~(0 \in DOMAIN maps' /\ Versions(maps') # {})
    BY <1>1 DEF Deleted, Versions
  <2> QED
    BY <2>1, <2>2, <2>3 DEF FormOf
<1>2. CASE /\ CreateMap(c) /\ Versions(maps) \subseteq Versions(maps') /\ Versions(maps') # {}
           /\ (0 \in DOMAIN maps' <=> 0 \in DOMAIN maps)
  <2>1. \A d \in Change : FormOf(d)'
    <3>1. FormOf(c)'
      BY <1>0, <1>2, FormMoves
    <3> QED
      BY <1>0, <1>2, <3>1 DEF FormOf
  <2>2. ASSUME 0 \in DOMAIN maps'
        PROVE  \E d \in Change : Converts(d)'
    <3>1. pc[c] = "creating" /\ pc'[c] = "created" /\ req' = req /\ req[c].op \in {"update", "convert"}
      BY <1>0, <1>2 DEF CreateMap, At, OpOf
    <3>2. CASE req[c].op = "convert"
      BY <3>1, <3>2 DEF Converts
    <3>3. CASE req[c].op = "update"
      <4>1. PICK d \in Change : Converts(d)
        BY <1>0, <1>2, <2>2, <3>1, <3>3 DEF FormOf
      <4> QED
        BY <1>0, <2>2, <4>1, ConvertsStep
    <3> QED
      BY <3>1, <3>2, <3>3
  <2> QED
    BY <2>1, <2>2
<1>3. CASE /\ ~CreateMap(c) /\ Versions(maps') = Versions(maps)
           /\ (0 \in DOMAIN maps' => 0 \in DOMAIN maps)
  <2>1. \A d \in Change : FormOf(d)'
    <3>1. FormOf(c)'
      BY <1>0, <1>3, FormMoves
    <3> QED
      BY <1>0, <1>3, <3>1 DEF FormOf
  <2> QED
    BY <1>0, <1>3, <2>1, ConvertsStep
<1> QED
  BY <1>1, <1>2, <1>3, FormsKept

-----------------------------------------------------------------------------
(* The value of the variable.                                              *)

\* The latest version depends only on which versions there are.
LEMMA LatestOfVersions ==
  ASSUME NEW f, NEW g, DOMAIN f \subseteq Nat, Bounded(f), DOMAIN g \subseteq Nat, Bounded(g),
         Versions(f) = Versions(g)
  PROVE  Latest(f) = Latest(g)
<1>1. Latest(f) <= Latest(g) /\ Latest(g) <= Latest(f)
  BY WiderVersions DEF Versions
<1>2. Latest(f) \in Nat /\ Latest(g) \in Nat
  BY LatestFacts
<1> QED
  BY <1>1, <1>2

\* Whatever makes no version and deletes none leaves the variable alone.
Untouched ==
  /\ Versions(maps') = Versions(maps) /\ Latest(maps') = Latest(maps)
  /\ Versions(secrets') = Versions(secrets)
  /\ \A n \in Versions(secrets) : secrets'[n] = secrets[n]
  /\ given' = given

LEMMA ValueKept ==
  ASSUME Types, Types', NEW c \in Change, Reads(c) \/ GivesUp(c) \/ Writes(c)
  PROVE  \/ CreateMap(c) \/ CreateSecret(c) \/ (DeleteSecrets(c) /\ req[c].version # 0)
         \/ DeleteMaps(c)
         \/ Untouched
<1>0. /\ DOMAIN maps \subseteq Nat /\ DOMAIN maps' \subseteq Nat /\ Bounded(maps) /\ Bounded(maps')
  BY DEF Types, TypeOK
<1>1. CASE Reads(c) \/ GivesUp(c)
  <2>1. given' = given
    BY <1>1 DEF Reads, GivesUp, Update, ReadMap, ReadSecret, AlreadyExists, ListReleases, RolledOut,
       ReadOldForm, OldFormGone, Delete, NotThere, ReadMembers, EditFails, CheckRevision, UpgradeChart,
       UninstallChart, RequestFails, InstallChart,
       InstallFails, Rollout, RolloutFails, Attach, Detach, Install, Uninstall,
       Upgrade, Asks, Ends
  <2> QED
    BY <1>1, <2>1, ReadsKeep DEF Untouched
<1>2. CASE PatchSecret(c)
  BY <1>2 DEF PatchSecret, Untouched, Versions
<1>3. CASE PatchMap(c) \/ DeleteOldMap(c)
  <2>1. Versions(maps') = Versions(maps) /\ UNCHANGED <<secrets, given>>
    BY <1>3 DEF PatchMap, DeleteOldMap, Without, Versions
  <2>2. Latest(maps') = Latest(maps)
    BY <1>0, <2>1, LatestOfVersions
  <2> QED
    BY <2>1, <2>2 DEF Untouched
<1>4. CASE WriteMembers(c)
  <2>1. DOMAIN maps' = DOMAIN maps /\ UNCHANGED <<secrets, given>>
    BY <1>4, WriteMembersFacts DEF WriteMembers
  <2>2. Versions(maps') = Versions(maps) /\ Latest(maps') = Latest(maps)
    BY <2>1, SameVersions
  <2> QED
    BY <2>1, <2>2 DEF Untouched
<1>5. CASE DeleteSecrets(c) /\ req[c].version = 0
  BY <1>5 DEF DeleteSecrets, Deleted, Without, Versions, Untouched
<1> QED
  BY <1>1, <1>2, <1>3, <1>4, <1>5 DEF Writes

\* A step that leaves the variable alone: its request.
LEMMA ValueMoves ==
  ASSUME Types, \A d \in Change : OpOf(d) /\ Makes(d), Alone, DueInvariant, ValueInvariant,
         (Writers \cup {"failure"}) \cap happened' = {},
         NEW c \in Change, Reads(c) \/ GivesUp(c) \/ Writes(c), Untouched,
         ~(CreateMap(c) \/ CreateSecret(c) \/ DeleteMaps(c))
  PROVE  /\ ValueOf(c)'
         /\ pc[c] = "created" => pc'[c] = "created"
         /\ pc[c] = "deletingMaps" /\ req[c].version # 0 =>
              pc'[c] = "deletingMaps" /\ req'[c].version # 0
<1>0. /\ pc \in [Change -> Place] /\ req \in [Change -> Request] /\ req[c] \in Request
      /\ Blank \in Request /\ Makes(c)
      /\ (Writers \cup {"failure"}) \cap happened = {}
  BY BlankType, StepKinds DEF Types, TypeOK
<1>1. ValueOf(c) /\ SecretDue(c) /\ (Paired => PairsMatch)
  BY <1>0 DEF ValueInvariant, DueInvariant, Writers
<1>2. ~RequestFails(c)
  BY DEF RequestFails
<1>10. ASSUME InstallChart(c) \/ InstallFails(c)
       PROVE  /\ pc[c] \notin {"created", "deletingMaps"}
              /\ pc'[c] \in {"editing", "writing", "deploying", "ended"}
  BY <1>10, InstallFacts DEF OpOf
<1>11. ASSUME ~(InstallChart(c) \/ InstallFails(c))
       PROVE  /\ pc[c] # "created"
              /\ ~(pc[c] = "deletingMaps" /\ req[c].version # 0)
  BY <1>0, <1>1, <1>2, <1>11 DEF Reads, GivesUp, Writes, Update, ReadMap, ReadSecret, AlreadyExists,
     ListReleases, RolledOut, ReadOldForm, OldFormGone, Delete, NotThere, ReadMembers, EditFails,
     CheckRevision, UpgradeChart, UninstallChart, Rollout, RolloutFails, Attach, Detach, Install,
     Uninstall, Upgrade, Begins, PatchSecret, PatchMap, DeleteOldMap, DeleteSecrets, WriteMembers,
     SecretDue
<1>3. /\ pc[c] # "created"
      /\ ~(pc[c] = "deletingMaps" /\ req[c].version # 0)
  BY <1>10, <1>11
<1>4. CASE Update(c)
  <2>1. PICK value \in {c, NoValue}, ref \in {NoRef} \cup {maps[n].ref : n \in Versions(maps)} :
          req' = [req EXCEPT ![c] = [Blank EXCEPT !.op = "update", !.value = value, !.ref = ref]]
    BY <1>4 DEF Update
  <2>2. req'[c].ref = ref /\ pc'[c] = "reading"
    BY <1>0, <1>4, <2>1 DEF Update, At, Blank
  <2>3. ref # NoRef => Versions(maps) # {}
    OBVIOUS
  <2> QED
    BY <1>3, <2>2, <2>3 DEF ValueOf, Untouched
<1>5. CASE ReadMap(c)
  <2>1. pc[c] = "reading" /\ pc'[c] = "readMap" /\ req'[c].ref = req[c].ref
    BY <1>0, <1>5 DEF ReadMap, At, Request
  <2> QED
    BY <1>1, <1>3, <2>1 DEF ValueOf, Untouched
<1>6. CASE ReadSecret(c)
  <2>1. /\ pc[c] = "readMap" /\ pc'[c] = "creating" /\ req'[c].ref = req[c].ref
        /\ req[c].ref # NoRef /\ Latest(secrets) > 0 => req'[c].value = secrets[Latest(secrets)]
    BY <1>0, <1>6 DEF ReadSecret, At, Request
  <2>2. ASSUME req[c].ref # NoRef
        PROVE  req'[c].value = given
    <3>1. \A d \in Change \ {c} : pc[d] \in {"new", "ended"}
      <4>1. req[c].op \in Writers \ happened
        BY <1>0, <2>1 DEF OpOf, Writers
      <4> QED
        BY <2>1, <4>1, AloneAtWork
    <3>2. PairsMatch /\ Versions(maps) # {}
      BY <1>1, <2>1, <2>2, <3>1 DEF Paired, ValueOf
    <3>3. Latest(secrets) = Latest(maps)
      BY <3>2, LatestOfVersions DEF PairsMatch, Types, TypeOK
    <3>4. Latest(maps) > 0
      BY <3>2, LatestVersion, ReadTypes
    <3> QED
      BY <2>1, <2>2, <3>2, <3>3, <3>4 DEF PairsMatch
  <2> QED
    BY <2>1, <2>2 DEF ValueOf, Untouched
<1>7. CASE ReadOldForm(c)
  <2>1. pc[c] = "patched" /\ pc'[c] = "reading" /\ req'[c].ref = req[c].ref
    BY <1>0, <1>7 DEF ReadOldForm, At, Request
  <2> QED
    BY <1>0, <1>3, <2>1 DEF ValueOf, Makes
<1>8. CASE DeleteSecrets(c)
  <2>1. pc[c] = "deleting" /\ pc'[c] = "deletingMaps" /\ req' = req
        /\ secrets' = Without(secrets, Deleted(c, secrets))
    BY <1>0, <1>8 DEF DeleteSecrets, At
  <2>2. req[c].version # 0 => Versions(secrets') = {}
    BY <2>1 DEF Deleted, Without, Versions
  <2> QED
    BY <2>1, <2>2 DEF ValueOf
<1>9. ASSUME ~(Update(c) \/ ReadMap(c) \/ ReadSecret(c) \/ ReadOldForm(c) \/ DeleteSecrets(c)
               \/ InstallChart(c) \/ InstallFails(c))
      PROVE  pc'[c] \notin {"reading", "readMap", "creating", "created", "deletingMaps"}
  BY <1>0, <1>2, <1>9 DEF Reads, GivesUp, Writes, AlreadyExists, ListReleases, RolledOut,
     OldFormGone, Delete, NotThere, ReadMembers, EditFails, CheckRevision, UpgradeChart,
     UninstallChart, Rollout, RolloutFails, Attach, Detach, Install, Uninstall, Upgrade,
     Asks, Ends, PatchSecret, PatchMap, DeleteOldMap, WriteMembers, At, After
<1> QED
  BY <1>3, <1>4, <1>5, <1>6, <1>7, <1>8, <1>9, <1>10 DEF ValueOf

\* A version is made, or all of them are deleted, by one request with no other under way.
LEMMA ValueMade ==
  ASSUME Types, Types', \A d \in Change : OpOf(d) /\ Makes(d), Alone, DueInvariant, MembersInvariant,
         ValueInvariant, (Writers \cup {"failure"}) \cap happened' = {},
         NEW c \in Change, Reads(c) \/ GivesUp(c) \/ Writes(c),
         CreateMap(c) \/ CreateSecret(c) \/ (DeleteSecrets(c) /\ req[c].version # 0) \/ DeleteMaps(c)
  PROVE  ValueOf(c)' /\ (Paired' => PairsMatch')
<1>0. /\ pc \in [Change -> Place] /\ req \in [Change -> Request] /\ req[c] \in Request
      /\ Makes(c) /\ (Writers \cup {"failure"}) \cap happened = {}
  BY StepKinds DEF Types, TypeOK
<1>1. ValueOf(c) /\ ListOf(c) /\ (Paired => PairsMatch)
  BY <1>0 DEF ValueInvariant, MembersInvariant, Writers
<1>2. pc[c] \in {"creating", "created", "deleting", "deletingMaps"} /\ req[c].op \in Writers \ happened
  BY <1>0 DEF CreateMap, CreateSecret, DeleteSecrets, DeleteMaps, OpOf, Writers
<1>3. \A d \in Change \ {c} : pc[d] \in {"new", "ended"}
  BY <1>2, AloneAtWork
<1>4. CASE CreateMap(c)
  <2> DEFINE n == req[c].version
  <2>1. /\ n \in Nat \ {0} /\ n = Latest(maps) + 1
        /\ DOMAIN maps' = DOMAIN maps \cup {n} /\ req' = req /\ secrets' = secrets
        /\ pc[c] = "creating" /\ pc'[c] = "created"
        /\ given' = IF req[c].ref = NoRef THEN req[c].value ELSE given
        /\ n \notin DOMAIN maps
    BY <1>0, <1>1, <1>4 DEF CreateMap, Put, At, ListOf, Makes, Request
  <2>2. \A m \in DOMAIN maps' : m <= n
    BY <2>1, ReadTypes
  <2>3. Latest(maps') = n
    BY <2>1, <2>2, LatestIs DEF Types, TypeOK
  <2>4. req[c].value = given'
    BY <1>1, <2>1 DEF ValueOf
  <2>5. Versions(secrets) = Versions(maps)
    BY <1>1, <1>3, <2>1 DEF Paired, PairsMatch
  <2>6. Versions(secrets') = Versions(maps') \ {n}
    BY <2>1, <2>5 DEF Versions
  <2> HIDE DEF n
  <2>7. ~Paired'
    BY <2>1 DEF Paired
  <2> QED
    BY <2>1, <2>3, <2>4, <2>6, <2>7 DEF ValueOf, n
<1>5. CASE CreateSecret(c)
  <2> DEFINE n == req[c].version
  <2>1. /\ n \in Nat \ {0} /\ maps' = maps /\ given' = given
        /\ DOMAIN secrets' = DOMAIN secrets \cup {n} /\ secrets'[n] = req[c].value
        /\ pc[c] = "created" /\ pc'[c] \in {"listing", "converted"}
    BY <1>0, <1>5 DEF CreateSecret, Put, At, Makes, Request
  <2>2. /\ n = Latest(maps) /\ req[c].value = given
        /\ Versions(secrets) = Versions(maps) \ {n}
    BY <1>1, <2>1 DEF ValueOf
  <2>3. n \in Versions(maps)
    BY <2>1, <2>2, LatestVersion
  <2>4. PairsMatch'
    BY <2>1, <2>2, <2>3 DEF PairsMatch, Versions
  <2> QED
    BY <2>1, <2>4 DEF ValueOf
<1>6. CASE DeleteSecrets(c) /\ req[c].version # 0
  <2>1. /\ pc[c] = "deleting" /\ pc'[c] = "deletingMaps" /\ req' = req
        /\ Versions(secrets') = {}
    BY <1>0, <1>6 DEF DeleteSecrets, At, Deleted, Without, Versions
  <2> QED
    BY <1>6, <2>1 DEF ValueOf, Paired
<1>7. CASE DeleteMaps(c)
  <2>1. /\ pc[c] = "deletingMaps" /\ pc'[c] = "ended" /\ secrets' = secrets
        /\ DOMAIN maps' = DOMAIN maps \ Deleted(c, maps)
    BY <1>0, <1>7 DEF DeleteMaps, At, Without
  <2>2. Versions(maps') = {}
    BY <1>1, <2>1 DEF Deleted, Versions, ListOf
  <2>3. Versions(secrets) = {}
    <3>1. CASE req[c].version # 0
      BY <1>1, <2>1, <3>1 DEF ValueOf
    <3>2. CASE req[c].version = 0
      BY <1>1, <1>3, <2>1, <3>2 DEF Paired, PairsMatch, ListOf
    <3> QED
      BY <3>1, <3>2
  <2> QED
    BY <2>1, <2>2, <2>3 DEF ValueOf, PairsMatch
<1> QED
  BY <1>4, <1>5, <1>6, <1>7

LEMMA ValueStep ==
  ASSUME Types, Types', \A d \in Change : OpOf(d) /\ Makes(d), Alone, DueInvariant, MembersInvariant,
         ValueInvariant, NEW c \in Change, Reads(c) \/ GivesUp(c) \/ Writes(c)
  PROVE  ValueInvariant'
<1> SUFFICES ASSUME (Writers \cup {"failure"}) \cap happened' = {}
             PROVE  (\A d \in Change : ValueOf(d)') /\ (Paired' => PairsMatch')
  BY DEF ValueInvariant
<1>0. /\ (Writers \cup {"failure"}) \cap happened = {}
      /\ \A d \in Change \ {c} : pc'[d] = pc[d] /\ req'[d] = req[d]
  BY StepKinds, OthersStay
<1>1. (\A d \in Change : ValueOf(d)) /\ (Paired => PairsMatch)
  BY <1>0 DEF ValueInvariant
<1>2. CASE CreateMap(c) \/ CreateSecret(c) \/ (DeleteSecrets(c) /\ req[c].version # 0) \/ DeleteMaps(c)
  <2>1. pc[c] \notin {"new", "ended"} /\ req[c].op \in Writers \ happened
    BY <1>0, <1>2 DEF CreateMap, CreateSecret, DeleteSecrets, DeleteMaps, OpOf, Writers
  <2>2. \A d \in Change \ {c} : pc'[d] \in {"new", "ended"}
    BY <2>1, AloneAtWork
  <2>3. \A d \in Change \ {c} : ValueOf(d)'
    BY <2>2 DEF ValueOf
  <2> QED
    BY <1>2, <2>3, ValueMade
<1>3. CASE Untouched /\ ~(CreateMap(c) \/ CreateSecret(c) \/ DeleteMaps(c))
  <2>1. \A d \in Change \ {c} : ValueOf(d)'
    BY <1>0, <1>1, <1>3 DEF ValueOf, Untouched
  <2>2. /\ ValueOf(c)'
        /\ pc[c] = "created" => pc'[c] = "created"
        /\ pc[c] = "deletingMaps" /\ req[c].version # 0 =>
             pc'[c] = "deletingMaps" /\ req'[c].version # 0
    BY <1>3, ValueMoves
  <2>3. Paired' => Paired
    BY <1>0, <2>2 DEF Paired
  <2>4. PairsMatch => PairsMatch'
    <3>1. Versions(maps) # {} => Latest(maps) \in Versions(maps)
      BY LatestVersion
    <3> QED
      BY <1>3, <3>1 DEF PairsMatch, Untouched
  <2> QED
    BY <1>1, <2>1, <2>2, <2>3, <2>4
<1> QED
  BY <1>2, <1>3, ValueKept

-----------------------------------------------------------------------------
(* The releases and the list.                                              *)

\* While nothing overlaps, one request is under way at a time.
LEMMA OneUnderWay ==
  ASSUME Types, \A d, e \in InFlight : d = e, happened' = {},
         NEW c \in Change, Reads(c) \/ GivesUp(c) \/ Writes(c)
  PROVE  /\ happened = {}
         /\ \A d \in Change \ {c} : pc[d] \in {"new", "ended"} /\ pc'[d] \in {"new", "ended"}
         /\ pc[c] = "new" => InFlight = {}
         /\ pc'[c] = "ended" <=> InFlight' = {}
<1>1. happened = {} /\ \A d \in Change \ {c} : pc'[d] = pc[d]
  BY StepKinds, OthersStay
<1>2. ASSUME Begins(c, req'[c].op)
      PROVE  InFlight = {} /\ pc[c] = "new"
  BY <1>1, <1>2 DEF Begins
<1>3. c \in InFlight => \A d \in Change \ {c} : pc[d] \in {"new", "ended"}
  BY DEF InFlight
<1>4. \A d \in Change \ {c} : pc[d] \in {"new", "ended"} /\ pc'[d] \in {"new", "ended"}
  BY <1>1, <1>2, <1>3, StepKinds DEF InFlight
<1>5. pc'[c] # "new"
  <2>1. pc \in [Change -> Place]
    BY DEF Types, TypeOK
  <2>2. ASSUME Starts(c)
        PROVE  pc'[c] # "new"
    BY <2>1, <2>2 DEF Starts, Update, PatchSecret, Delete, Attach, Detach, Install, Uninstall, Upgrade,
       Asks, At
  <2>3. ASSUME ~Starts(c)
        PROVE  c \in InFlight
    BY <2>3, StepKinds, InstallFacts, FailFacts DEF Reads, GivesUp, Writes, Starts, ReadMap, ReadSecret, AlreadyExists,
       ListReleases, RolledOut, ReadOldForm, OldFormGone, NotThere, ReadMembers, EditFails,
       CheckRevision, UpgradeChart, UninstallChart, Rollout, RolloutFails, CreateMap,
       CreateSecret, PatchMap, DeleteOldMap, DeleteSecrets, DeleteMaps, WriteMembers, InFlight
  <2> QED
    BY <2>2, <2>3, StepKinds DEF Begins, InFlight
<1>6. pc[c] = "new" => InFlight = {}
  BY <1>2, StepKinds DEF InFlight
<1>7. pc'[c] = "ended" <=> InFlight' = {}
  BY <1>4, <1>5 DEF InFlight
<1> QED
  BY <1>1, <1>4, <1>6, <1>7

\* What holds of the request of a step is all there is to show.
Synced(c) ==
  /\ SyncOf(c) /\ (pc[c] # "deploying" => Absent)
  /\ pc[c] \in {"new", "ended"} => SyncedBut({})

\* What a step may rely on.
Ready(c) ==
  /\ Types /\ OpOf(c) /\ Makes(c) /\ SecretDue(c) /\ FormOf(c) /\ ListOf(c) /\ LatestMembers
  /\ Synced(c) /\ happened = {}

LEMMA ReadyFacts ==
  ASSUME NEW c \in Change, Ready(c)
  PROVE  /\ pc \in [Change -> Place] /\ req \in [Change -> Request] /\ req[c] \in Request
         /\ Blank \in Request /\ members \subseteq App
         /\ charts \in [App -> Chart] /\ \A a \in App : charts[a] \in Chart
         /\ Latest(maps) \in Nat /\ (Latest(maps) = 0 <=> Versions(maps) = {})
         /\ members # {} => Latest(maps) # 0
         /\ pc[c] # "deploying" => members \subseteq Installed
<1>1. /\ pc \in [Change -> Place] /\ req \in [Change -> Request] /\ req[c] \in Request
      /\ Blank \in Request /\ members \subseteq App
      /\ charts \in [App -> Chart] /\ \A a \in App : charts[a] \in Chart
  BY BlankType DEF Ready, Types, TypeOK
<1>2. Latest(maps) \in Nat /\ (Latest(maps) = 0 <=> Versions(maps) = {})
  BY LatestVersion, ReadTypes DEF Ready
<1>3. pc[c] # "deploying" => members \subseteq Installed
  BY <1>1 DEF Ready, Synced, Absent
<1> QED
  BY <1>1, <1>2, <1>3 DEF Ready, LatestMembers

\* Updates.
LEMMA UpdateSync ==
  ASSUME NEW c \in Change, Ready(c), Types',
         Update(c) \/ ReadMap(c) \/ ReadSecret(c) \/ CreateMap(c) \/ CreateSecret(c) \/ AlreadyExists(c)
  PROVE  Synced(c)'
<1>0. /\ pc \in [Change -> Place] /\ req \in [Change -> Request] /\ req[c] \in Request
      /\ Blank \in Request /\ members \subseteq App
      /\ \A a \in App : charts[a] \in Chart
      /\ Latest(maps) \in Nat /\ (members # {} => Latest(maps) # 0)
  BY ReadyFacts
<1>1. /\ charts' = charts /\ members' = members /\ Absent'
  <2>1. charts' = charts /\ members' = members /\ pc[c] # "deploying"
    BY DEF Update, Begins, ReadMap, ReadSecret, CreateMap, CreateSecret, AlreadyExists, Ends
  <2> QED
    BY <2>1 DEF Ready, Synced, Absent, Installed
<1>2. CASE Update(c)
  <2>1. PICK value \in {c, NoValue}, ref \in {NoRef} \cup {maps[n].ref : n \in Versions(maps)} :
          req' = [req EXCEPT ![c] = [Blank EXCEPT !.op = "update", !.value = value, !.ref = ref]]
    BY <1>2 DEF Update
  <2>2. /\ req'[c].op = "update" /\ pc[c] = "new" /\ pc'[c] = "reading" /\ maps' = maps
    BY <1>0, <1>2, <2>1 DEF Update, Begins, At, Blank
  <2>3. SyncedBut({})'
    BY <1>1, <2>2 DEF Ready, Synced, SyncedBut
  <2> QED
    BY <1>1, <2>2, <2>3 DEF Synced, SyncOf
<1>3. CASE ReadMap(c) \/ ReadSecret(c)
  <2>1. /\ pc[c] \in {"reading", "readMap"} /\ pc'[c] \in {"readMap", "creating"} /\ maps' = maps
        /\ req'[c].op = req[c].op
    BY <1>0, <1>3 DEF ReadMap, ReadSecret, At, Request
  <2>2. SyncedBut({})' /\ (req'[c].op \in {"convert", "delete"} => members' = {})
    BY <1>1, <2>1 DEF Ready, Synced, SyncOf, SyncedBut
  <2> QED
    BY <1>1, <2>1, <2>2 DEF Synced, SyncOf
<1>4. CASE CreateMap(c)
  <2> DEFINE n == req[c].version
  <2>1. /\ n \in Nat \ {0} /\ n = Latest(maps) + 1 /\ req[c].apps = members
        /\ DOMAIN maps' = DOMAIN maps \cup {n} /\ req' = req
        /\ pc[c] = "creating" /\ pc'[c] = "created"
    BY <1>0, <1>4 DEF CreateMap, Put, At, Ready, ListOf, Makes, Request
  <2>2. \A m \in DOMAIN maps' : m <= n
    BY <2>1, ReadTypes DEF Ready
  <2>3. Latest(maps') = n
    BY <2>1, <2>2, LatestIs DEF Types, TypeOK
  <2>4. SyncedBut({}) /\ (req[c].op \in {"convert", "delete"} => members = {})
    BY <2>1 DEF Ready, Synced, SyncOf
  <2>5. \A a \in App : charts[a].section # 0 <=> a \in members
    BY <1>0, <2>4 DEF SyncedBut
  <2>6. members = {} => SyncedBut({})'
    BY <1>1, <2>4 DEF SyncedBut
  <2> HIDE DEF n
  <2>7. Latest(maps') = req'[c].version /\ req'[c].apps = members'
    BY <1>1, <2>1, <2>3 DEF n
  <2> QED
    BY <1>1, <2>1, <2>4, <2>5, <2>6, <2>7 DEF Synced, SyncOf
<1>5. CASE CreateSecret(c)
  <2>1. /\ pc[c] = "created" /\ req' = req /\ maps' = maps
        /\ pc'[c] = IF req[c].op = "update" THEN "listing" ELSE "converted"
        /\ req[c].op \in {"update", "convert"}
    BY <1>0, <1>5 DEF CreateSecret, At, Ready, OpOf
  <2>2. req[c].op = "convert" => members' = {} /\ SyncedBut({})'
    BY <1>1, <2>1 DEF Ready, Synced, SyncOf, SyncedBut
  <2>3. /\ req'[c].version = Latest(maps') /\ req'[c].apps = members'
        /\ \A a \in App : charts'[a].section # 0 <=> a \in members'
    BY <1>1, <2>1 DEF Ready, Synced, SyncOf
  <2> QED
    BY <1>1, <2>1, <2>2, <2>3 DEF Synced, SyncOf
<1>6. CASE AlreadyExists(c)
  <2>1. pc[c] = "creating" /\ pc'[c] = "ended" /\ maps' = maps
    BY <1>0, <1>6 DEF AlreadyExists, Ends, At, Ready, SecretDue
  <2>2. SyncedBut({})'
    BY <1>1, <2>1 DEF Ready, Synced, SyncOf, SyncedBut
  <2> QED
    BY <1>1, <2>1, <2>2 DEF Synced, SyncOf
<1> QED
  BY <1>2, <1>3, <1>4, <1>5, <1>6

\* Their rollout: it reaches every release that is in the group.
LEMMA RolloutSync ==
  ASSUME NEW c \in Change, Ready(c), Types', happened' = {},
         \/ ListReleases(c) \/ RolledOut(c)
         \/ \E a \in App : Rollout(c, a) \/ RolloutFails(c, a)
  PROVE  Synced(c)'
<1>0. /\ pc \in [Change -> Place] /\ req \in [Change -> Request] /\ req[c] \in Request
      /\ members \subseteq App
      /\ charts \in [App -> Chart] /\ \A a \in App : charts[a] \in Chart
      /\ Latest(maps) \in Nat /\ (members # {} => Latest(maps) # 0)
  BY ReadyFacts
<1>1. maps' = maps /\ members' = members /\ pc[c] # "deploying"
  BY DEF ListReleases, RolledOut, Rollout, RolloutFails, Ends
<1>5. members \subseteq Installed
  BY <1>1, ReadyFacts
<1>2. CASE ListReleases(c)
  <2> DEFINE plan == [a \in App |-> IF a \in req[c].apps \cap Installed THEN charts[a].section ELSE -1]
  <2>1. /\ pc[c] = "listing" /\ pc'[c] = "rolling" /\ charts' = charts
        /\ req'[c].op = req[c].op /\ req'[c].version = req[c].version /\ req'[c].plan = plan
    BY <1>0, <1>2 DEF ListReleases, At, Request
  <2>2. /\ req[c].version = Latest(maps) /\ req[c].apps = members /\ req[c].op = "update"
        /\ \A a \in App : charts[a].section # 0 <=> a \in members
    BY <2>1 DEF Ready, Synced, SyncOf, FormOf
  <2>3. ASSUME NEW a \in App
        PROVE  IF req'[c].plan[a] = -1 THEN a \in members => charts[a].section = Latest(maps)
               ELSE a \in members /\ req'[c].plan[a] # 0
    <3>1. req'[c].plan[a] = IF a \in members THEN charts[a].section ELSE -1
      BY <1>0, <1>5, <2>1, <2>2
    <3>2. charts[a].section \in Nat
      BY <1>0 DEF Chart
    <3> QED
      BY <2>2, <3>1, <3>2
  <2> HIDE DEF plan
  <2>4. Absent'
    BY <2>1, <1>1 DEF Ready, Synced, Absent, Installed
  <2> QED
    BY <1>1, <2>1, <2>2, <2>3, <2>4 DEF Synced, SyncOf
<1>3. CASE RolledOut(c)
  <2>1. pc[c] = "rolling" /\ pc'[c] = "ended" /\ charts' = charts /\ \A a \in App : req[c].plan[a] = -1
    BY <1>0, <1>3 DEF RolledOut, Planned, Ends, At
  <2>2. SyncedBut({})'
    BY <1>1, <2>1 DEF Ready, Synced, SyncOf, SyncedBut
  <2>3. Absent'
    BY <2>1, <1>1 DEF Ready, Synced, Absent, Installed
  <2> QED
    BY <2>1, <2>2, <2>3 DEF Synced, SyncOf
<1>4. ASSUME NEW a \in App, Rollout(c, a) \/ RolloutFails(c, a)
      PROVE  Synced(c)'
  <2>0. Rollout(c, a)
    BY <1>4 DEF RolloutFails
  <2> DEFINE plan == [req[c].plan EXCEPT ![a] = -1]
  <2>1. /\ pc[c] = "rolling" /\ pc' = pc
        /\ req'[c].op = req[c].op /\ req'[c].version = req[c].version /\ req'[c].plan = plan
    BY <1>0, <2>0 DEF Rollout, Request
  <2>2. /\ req[c].version = Latest(maps) /\ req[c].op = "update"
        /\ \A b \in App : charts[b].section # 0 <=> b \in members
        /\ \A b \in App : IF req[c].plan[b] = -1 THEN b \in members => charts[b].section = Latest(maps)
                          ELSE b \in members /\ req[c].plan[b] # 0
    BY <2>1 DEF Ready, Synced, SyncOf, FormOf
  <2>3. a \in members /\ req[c].plan[a] # 0 /\ a \in Installed
    BY <1>0, <1>5, <2>0, <2>2 DEF Rollout, Planned
  <2>4. /\ charts'[a] = [section |-> Latest(maps), revision |-> charts[a].revision + 1]
        /\ \A b \in App \ {a} : charts'[b] = charts[b]
    BY <1>0, <2>0, <2>2, <2>3 DEF Rollout
  <2>5. req'[c].plan[a] = -1 /\ \A b \in App \ {a} : req'[c].plan[b] = req[c].plan[b]
    BY <1>0, <2>1 DEF Request
  <2> HIDE DEF plan
  <2>6. Absent'
    <3>1. Installed \subseteq Installed'
      BY <1>0, <2>4 DEF Installed, Chart
    <3> QED
      BY <1>1, <2>3, <2>4, <3>1 DEF Ready, Synced, Absent
  <2>7. /\ req'[c].version = Latest(maps') /\ req'[c].op = "update" /\ pc'[c] = "rolling"
        /\ \A b \in App : charts'[b].section # 0 <=> b \in members'
        /\ \A b \in App : IF req'[c].plan[b] = -1 THEN b \in members' => charts'[b].section = Latest(maps')
                          ELSE b \in members' /\ req'[c].plan[b] # 0
    BY <1>0, <1>1, <2>1, <2>2, <2>3, <2>4, <2>5
  <2> QED
    BY <2>6, <2>7 DEF Synced, SyncOf
<1> QED
  BY <1>2, <1>3, <1>4

\* Conversions and deletions: no application is in the group.
LEMMA EmptySync ==
  ASSUME NEW c \in Change, Ready(c), Types',
         \/ PatchSecret(c) \/ PatchMap(c) \/ ReadOldForm(c) \/ DeleteOldMap(c) \/ OldFormGone(c)
         \/ Delete(c) \/ DeleteSecrets(c) \/ DeleteMaps(c) \/ NotThere(c)
  PROVE  Synced(c)'
<1>0. /\ pc \in [Change -> Place] /\ req \in [Change -> Request] /\ req[c] \in Request
      /\ Blank \in Request
  BY ReadyFacts
<1>1. charts' = charts
  BY DEF PatchSecret, PatchMap, ReadOldForm, DeleteOldMap, OldFormGone, Delete, DeleteSecrets, DeleteMaps,
         NotThere, Ends
<1>2. members = {} /\ SyncedBut({})
  <2>1. CASE PatchSecret(c)
    BY <2>1 DEF PatchSecret, Begins, Ready, Synced, LatestMembers
  <2>2. CASE Delete(c)
    BY <2>2 DEF Delete, Begins, Ready, Synced, LatestMembers
  <2>3. CASE PatchMap(c) \/ ReadOldForm(c) \/ DeleteOldMap(c) \/ OldFormGone(c) \/ DeleteSecrets(c)
             \/ DeleteMaps(c) \/ NotThere(c)
    <3>1. pc[c] \in {"patching", "patched", "converted", "deleting", "deletingMaps"}
          /\ req[c].op \in {"convert", "delete"}
      BY <2>3 DEF PatchMap, ReadOldForm, DeleteOldMap, OldFormGone, DeleteSecrets, DeleteMaps, NotThere,
                  Ready, OpOf, FormOf
    <3> QED
      BY <3>1 DEF Ready, Synced, SyncOf
  <2> QED
    BY <2>1, <2>2, <2>3
<1>3. members' = {}
  BY <1>2 DEF PatchSecret, PatchMap, ReadOldForm, DeleteOldMap, OldFormGone, Delete, DeleteSecrets,
              DeleteMaps, NotThere, Ends
<1>6. pc[c] # "deploying"
  BY DEF PatchSecret, PatchMap, ReadOldForm, DeleteOldMap, OldFormGone, Delete, DeleteSecrets, DeleteMaps,
         NotThere, Begins
<1>4. SyncedBut({})' /\ Absent'
  BY <1>1, <1>2, <1>3, <1>6 DEF SyncedBut, Ready, Synced, Absent, Installed
<1>5. pc'[c] \in {"patching", "patched", "reading", "deleting", "deletingMaps", "ended"}
  BY <1>0 DEF PatchSecret, PatchMap, ReadOldForm, DeleteOldMap, OldFormGone, Delete, DeleteSecrets,
              DeleteMaps, NotThere, Ends, At
<1> QED
  BY <1>3, <1>4, <1>5 DEF Synced, SyncOf

\* The requests of the dashboard begin.
LEMMA AsksSync ==
  ASSUME NEW c \in Change, Ready(c), Types', happened' = {}, NEW a \in App,
         Attach(c, a) \/ Detach(c, a) \/ Install(c, a) \/ Uninstall(c, a) \/ Upgrade(c, a)
  PROVE  Synced(c)'
<1>0. /\ pc \in [Change -> Place] /\ req \in [Change -> Request] /\ Blank \in Request
      /\ charts \in [App -> Chart] /\ \A b \in App : charts[b] \in Chart
      /\ Latest(maps) \in Nat /\ (Latest(maps) = 0 <=> Versions(maps) = {})
      /\ (members # {} => Latest(maps) # 0)
  BY ReadyFacts
<1>1. maps' = maps /\ members' = members
  BY DEF Attach, Detach, Install, Uninstall, Upgrade, Asks
<1>2. pc[c] = "new" /\ SyncedBut({}) /\ Absent
  BY DEF Attach, Detach, Install, Uninstall, Upgrade, Begins, Ready, Synced
<1>3. ASSUME NEW o, NEW view, NEW place, Asks(c, o, a, view, place)
      PROVE  /\ req'[c].op = o /\ req'[c].app = a /\ req'[c].view = view
             /\ req'[c].revision = charts[a].revision /\ pc'[c] = place
  BY <1>0, <1>3 DEF Asks, At, Blank, Request
<1>4. charts[a].section = IF a \in members THEN Latest(maps) ELSE 0
  BY <1>2 DEF SyncedBut
<1>5. ASSUME charts' = charts
      PROVE  SyncedBut({})' /\ SyncedBut({a})' /\ Absent' /\ Installed' = Installed
  BY <1>1, <1>2, <1>5 DEF SyncedBut, Absent, Installed
<1>6. CASE Attach(c, a)
  <2>1. /\ req'[c].op = "attach" /\ req'[c].app = a /\ req'[c].view = Latest(maps)
        /\ req'[c].revision = charts[a].revision /\ pc'[c] = "editing" /\ charts' = charts
        /\ a \in Installed /\ Versions(maps) # {}
    BY <1>3, <1>6 DEF Attach
  <2> QED
    BY <1>1, <1>5, <2>1 DEF Synced, SyncOf
<1>7. CASE Detach(c, a)
  <2>1. /\ req'[c].op = "detach" /\ req'[c].app = a /\ req'[c].view = 0
        /\ req'[c].revision = charts[a].revision /\ pc'[c] = "editing" /\ charts' = charts
        /\ a \in Installed /\ Versions(maps) # {}
    BY <1>0, <1>3, <1>4, <1>7 DEF Detach
  <2> QED
    BY <1>1, <1>5, <2>1 DEF Synced, SyncOf
<1>8. CASE Install(c, a)
  <2>1. PICK place \in {"installing", "editing"} : Asks(c, "install", a, Latest(maps), place)
    BY <1>8 DEF Install
  <2>2. a \notin Installed /\ Versions(maps) # {} /\ charts' = charts
    BY <1>8 DEF Install
  <2>3. charts[a].revision = 0
    BY <1>0, <2>2 DEF Installed, Chart
  <2>4. /\ req'[c].op = "install" /\ req'[c].app = a /\ req'[c].view = Latest(maps)
        /\ req'[c].revision = 0 /\ pc'[c] = place
    BY <1>3, <2>1, <2>3
  <2> QED
    BY <1>1, <1>5, <2>2, <2>4 DEF Synced, SyncOf
<1>9. CASE Uninstall(c, a)
  <2>1. /\ req'[c].op = "uninstall" /\ req'[c].app = a /\ charts' = charts
        /\ pc'[c] = IF charts[a].section = 0 THEN "uninstalling" ELSE "editing"
    BY <1>3, <1>9 DEF Uninstall
  <2>2. charts[a].section = 0 => a \notin members
    BY <1>0, <1>4
  <2>3. charts[a].section # 0 => Versions(maps) # {}
    BY <1>0, <1>4
  <2> QED
    BY <1>1, <1>5, <2>1, <2>2, <2>3 DEF Synced, SyncOf
<1>10. CASE Upgrade(c, a)
  <2>1. /\ req'[c].op = "upgrade" /\ req'[c].app = a /\ req'[c].view = charts[a].section
        /\ req'[c].revision = charts[a].revision /\ pc'[c] = "checking" /\ charts' = charts
        /\ a \in Installed
    BY <1>3, <1>10 DEF Upgrade
  <2> QED
    BY <1>1, <1>4, <1>5, <2>1 DEF Synced, SyncOf
<1> QED
  BY <1>6, <1>7, <1>8, <1>9, <1>10

\* Their edits of the list.
LEMMA EditSync ==
  ASSUME NEW c \in Change, Ready(c), Types', ReadMembers(c) \/ WriteMembers(c) \/ EditFails(c)
  PROVE  Synced(c)'
<1>0. /\ pc \in [Change -> Place] /\ req \in [Change -> Request] /\ req[c] \in Request
      /\ Latest(maps) \in Nat /\ (Latest(maps) = 0 <=> Versions(maps) = {})
  BY ReadyFacts
<1> DEFINE a == req[c].app
<1>1. /\ pc[c] \in {"editing", "writing"} /\ a \in App /\ charts' = charts
      /\ req[c].op \in {"install", "attach", "detach", "uninstall"} /\ Versions(maps) # {}
      /\ SyncedBut(IF req[c].op = "install" THEN {a} ELSE {}) /\ SyncOf(c) /\ Absent
  BY DEF ReadMembers, WriteMembers, EditFails, Ready, OpOf, Synced, SyncOf
<1>2. CASE ReadMembers(c)
  <2>1. /\ maps' = maps /\ members' = members /\ pc[c] = "editing" /\ pc'[c] = "writing"
        /\ req'[c].op = req[c].op /\ req'[c].app = a /\ req'[c].view = req[c].view
        /\ req'[c].revision = req[c].revision /\ req'[c].version = Latest(maps)
        /\ req'[c].by = maps[Latest(maps)].by
    BY <1>0, <1>2 DEF ReadMembers, At, Request
  <2>2. Latest(maps) \in DOMAIN maps
    BY <1>1, LatestVersion DEF Ready, Versions
  <2>3. Unwritten(c)'
    BY <2>1, <2>2 DEF Unwritten
  <2>4. SyncedBut(IF req[c].op = "install" THEN {a} ELSE {})' /\ Absent' /\ Installed' = Installed
    BY <1>1, <2>1 DEF SyncedBut, Absent, Installed
  <2> QED
    BY <1>1, <2>1, <2>3, <2>4 DEF Synced, SyncOf
<1>3. CASE EditFails(c)
  BY <1>1, <1>3 DEF EditFails, SyncOf
<1>4. CASE WriteMembers(c)
  <2>1. /\ pc[c] = "writing" /\ req' = req /\ members' = Edited(c, members)
        /\ pc'[c] = After(c, TRUE) /\ DOMAIN maps' = DOMAIN maps
    BY <1>0, <1>4, WriteMembersFacts DEF WriteMembers, At, Ready
  <2>2. Latest(maps') = Latest(maps) /\ Versions(maps') = Versions(maps)
    BY <2>1, SameVersions
  <2>3. /\ \A b \in App \ {a} : b \in members' <=> b \in members
        /\ a \in members' <=> req[c].op \in {"attach", "install"}
    BY <1>1, <2>1 DEF Edited
  <2>4. SyncedBut({a})'
    BY <1>1, <2>1, <2>2, <2>3 DEF SyncedBut
  <2>5. Installed' = Installed
    BY <1>1 DEF Installed
  <2>9. a \in Installed => Absent'
    BY <1>1, <2>3, <2>5 DEF Absent
  <2>6. CASE req[c].op \in {"attach", "detach"}
    <3>1. pc'[c] = "checking"
      BY <2>1, <2>6 DEF After, Deploying
    <3>2. /\ req[c].view = IF a \in members' THEN Latest(maps') ELSE 0
          /\ charts'[a].revision = req[c].revision /\ a \in Installed'
      BY <1>1, <2>1, <2>2, <2>3, <2>5, <2>6 DEF SyncOf
    <3> QED
      BY <2>1, <2>4, <2>5, <2>6, <2>9, <3>1, <3>2 DEF Synced, SyncOf
  <2>7. CASE req[c].op = "uninstall"
    <3>1. pc'[c] = "uninstalling"
      BY <2>1, <2>7 DEF After, Deploying
    <3>2. Absent'
      BY <1>1, <2>3, <2>5, <2>7 DEF Absent
    <3> QED
      BY <2>1, <2>3, <2>4, <2>7, <3>1, <3>2 DEF Synced, SyncOf
  <2>8. CASE req[c].op = "install"
    <3>1. CASE req[c].revision = 0
      <4>1. pc'[c] = "deploying"
        BY <1>1, <2>1, <2>8, <3>1 DEF After, Deploying, InFlight
      <4>2. req[c].view = Latest(maps') /\ a \notin Installed' /\ a \in members'
        BY <1>1, <2>2, <2>3, <2>5, <2>8, <3>1 DEF SyncOf
      <4>3. \A b \in App \ Installed : charts[b].section = 0 /\ (b \in members' => b = a)
        BY <1>1, <2>3 DEF Absent
      <4> QED
        BY <1>1, <2>1, <2>4, <2>5, <2>8, <4>1, <4>2, <4>3 DEF Synced, SyncOf
    <3>2. CASE req[c].revision # 0
      <4>1. pc'[c] = "ended"
        BY <2>1, <2>8, <3>2 DEF After, Deploying
      <4>2. charts'[a].section = Latest(maps') /\ a \in members' /\ a \in Installed
        BY <1>1, <2>1, <2>2, <2>3, <2>8, <3>2 DEF SyncOf
      <4>3. SyncedBut({})'
        BY <2>1, <2>4, <4>2 DEF SyncedBut
      <4> QED
        BY <2>9, <4>1, <4>2, <4>3 DEF Synced, SyncOf
    <3> QED
      BY <3>1, <3>2
  <2> QED
    BY <1>1, <2>6, <2>7, <2>8
<1> QED
  BY <1>2, <1>3, <1>4

\* Their upgrades and removals of the release.
LEMMA ChartSync ==
  ASSUME NEW c \in Change, Ready(c), Types', CheckRevision(c) \/ UpgradeChart(c) \/ UninstallChart(c)
  PROVE  Synced(c)'
<1>0. /\ pc \in [Change -> Place] /\ req \in [Change -> Request] /\ req[c] \in Request
      /\ charts \in [App -> Chart] /\ \A b \in App : charts[b] \in Chart
  BY ReadyFacts
<1> DEFINE a == req[c].app
<1>1. /\ pc[c] \in {"checking", "upgrading", "uninstalling"} /\ a \in App
      /\ maps' = maps /\ members' = members /\ req' = req
      /\ SyncOf(c) /\ SyncedBut({a}) /\ Absent
      /\ req[c].op \notin {"convert", "delete"}
  BY DEF CheckRevision, UpgradeChart, UninstallChart, Ready, OpOf, Synced, SyncOf
<1>2. CASE CheckRevision(c)
  <2>1. pc[c] = "checking" /\ pc'[c] = "upgrading" /\ charts' = charts
    BY <1>0, <1>1, <1>2 DEF CheckRevision, At, SyncOf
  <2>2. SyncedBut({a})' /\ Absent' /\ Installed' = Installed
    BY <1>1, <2>1 DEF SyncedBut, Absent, Installed
  <2> QED
    BY <1>1, <2>1, <2>2 DEF Synced, SyncOf
<1>3. CASE UpgradeChart(c)
  <2>1. /\ pc[c] = "upgrading" /\ pc'[c] = "ended" /\ a \in Installed
        /\ req[c].view = IF a \in members THEN Latest(maps) ELSE 0
    BY <1>0, <1>1, <1>3 DEF UpgradeChart, At, SyncOf
  <2>2. /\ charts'[a] = [section |-> req[c].view, revision |-> charts[a].revision + 1]
        /\ \A b \in App \ {a} : charts'[b] = charts[b]
    BY <1>0, <1>1, <1>3, <2>1 DEF UpgradeChart
  <2>3. SyncedBut({})'
    BY <1>1, <2>1, <2>2 DEF SyncedBut
  <2>4. Installed \subseteq Installed'
    BY <1>0, <2>2 DEF Installed, Chart
  <2>5. Absent'
    BY <1>1, <2>1, <2>2, <2>4 DEF Absent
  <2> QED
    BY <2>1, <2>3, <2>5 DEF Synced, SyncOf
<1>4. CASE UninstallChart(c)
  <2>1. pc[c] = "uninstalling" /\ pc'[c] = "ended" /\ a \notin members
    BY <1>0, <1>1, <1>4 DEF UninstallChart, At, SyncOf
  <2>2. charts'[a].section = 0 /\ \A b \in App \ {a} : charts'[b] = charts[b]
    BY <1>0, <1>1, <1>4 DEF UninstallChart, NotInstalled
  <2>3. SyncedBut({})'
    BY <1>1, <2>1, <2>2 DEF SyncedBut
  <2>4. Absent'
    BY <1>1, <2>1, <2>2 DEF Absent, Installed
  <2> QED
    BY <2>1, <2>3, <2>4 DEF Synced, SyncOf
<1> QED
  BY <1>2, <1>3, <1>4

\* An install that returns: the release is synced to the version the client had loaded.
LEMMA InstallSync ==
  ASSUME NEW c \in Change, Ready(c), Types', happened' = {}, InstallChart(c) \/ InstallFails(c)
  PROVE  Synced(c)'
<1>0. /\ pc \in [Change -> Place] /\ req \in [Change -> Request] /\ req[c] \in Request
      /\ charts \in [App -> Chart] /\ \A b \in App : charts[b] \in Chart
  BY ReadyFacts
<1> DEFINE a == req[c].app
<1>1. /\ pc[c] \in {"installing", "editing", "writing", "deploying"} /\ a \in App
      /\ req[c].op = "install" /\ req[c].revision = 0
      /\ maps' = maps /\ members' = members
      /\ req'[c].op = "install" /\ req'[c].app = a /\ req'[c].revision = 1
      /\ req'[c].version = req[c].version /\ req'[c].by = req[c].by
  BY InstallFacts DEF Ready, OpOf
<1>2. a \notin Installed /\ SyncOf(c) /\ SyncedBut({a}) /\ req[c].view = Latest(maps)
  BY <1>1 DEF Ready, Synced, SyncOf
<1>3. InstallChart(c)
  BY <1>2 DEF InstallFails
<1>4. /\ charts'[a] = [section |-> Latest(maps), revision |-> 1]
      /\ \A b \in App \ {a} : charts'[b] = charts[b]
  BY <1>0, <1>1, <1>2, <1>3 DEF InstallChart
<1>5. a \in Installed' /\ Installed \subseteq Installed'
  BY <1>1, <1>4 DEF Installed
<1>6. \A b \in App \ Installed : b # a => charts[b].section = 0 /\ b \notin members
  BY <1>1, <1>2 DEF Ready, Synced, SyncOf, Absent
<1>7. Absent' /\ SyncedBut({a})' /\ charts'[a].section = Latest(maps')
  BY <1>1, <1>2, <1>4, <1>5, <1>6 DEF Absent, SyncedBut
<1>8. CASE pc[c] \in {"installing", "editing", "writing"}
  <2>1. pc'[c] = IF pc[c] = "installing" THEN "editing" ELSE pc[c]
    BY <1>0, <1>3, <1>8 DEF InstallChart, At
  <2>2. Versions(maps) # {} /\ (pc[c] = "writing" => Unwritten(c)')
    BY <1>1, <1>2, <1>8 DEF SyncOf, Unwritten
  <2> QED
    BY <1>1, <1>5, <1>7, <1>8, <2>1, <2>2 DEF Synced, SyncOf
<1>9. CASE pc[c] = "deploying"
  <2>1. pc'[c] = "ended"
    BY <1>0, <1>3, <1>9 DEF InstallChart, At
  <2>2. SyncedBut({})'
    BY <1>1, <1>2, <1>7, <1>9 DEF SyncedBut, SyncOf
  <2> QED
    BY <1>7, <2>1, <2>2 DEF Synced, SyncOf
<1> QED
  BY <1>1, <1>8, <1>9

LEMMA SyncStep ==
  ASSUME GroupInvariant, Types', DueInvariant, FormsInvariant, SyncInvariant,
         NEW c \in Change, Reads(c) \/ GivesUp(c) \/ Writes(c)
  PROVE  SyncInvariant'
<1> SUFFICES ASSUME happened' = {}
             PROVE  /\ (\A d, e \in InFlight : d = e)'
                    /\ (\A d \in Change : pc'[d] # "deploying") => Absent'
                    /\ InFlight' = {} => SyncedBut({})'
                    /\ \A d \in Change : SyncOf(d)'
  BY DEF SyncInvariant
<1>1. happened = {}
  BY StepKinds DEF GroupInvariant
<1>2. /\ \A d, e \in InFlight : d = e
      /\ ((\A d \in Change : pc[d] # "deploying") => Absent) /\ SyncOf(c)
      /\ (InFlight = {} => SyncedBut({}))
  BY <1>1 DEF SyncInvariant
<1>3. /\ \A d \in Change \ {c} : pc[d] \in {"new", "ended"} /\ pc'[d] \in {"new", "ended"}
      /\ pc[c] = "new" => InFlight = {}
      /\ pc'[c] = "ended" <=> InFlight' = {}
  BY <1>2, OneUnderWay DEF GroupInvariant
<1>4. Ready(c)
  <2>1. pc[c] \in {"new", "ended"} => SyncedBut({})
    BY <1>2, <1>3 DEF InFlight
  <2>2. pc[c] # "deploying" => Absent
    BY <1>2, <1>3
  <2> QED
    BY <1>1, <1>2, <2>1, <2>2 DEF Ready, Synced, GroupInvariant, DueInvariant, FormsInvariant, MembersInvariant,
                            LatestMembers
<1>5. ~RequestFails(c)
  BY DEF RequestFails
<1>6. Synced(c)'
  BY <1>4, <1>5, UpdateSync, RolloutSync, EmptySync, AsksSync, EditSync, ChartSync,
     InstallSync
     DEF Reads, GivesUp, Writes
<1>7. \A d \in Change \ {c} : SyncOf(d)'
  BY <1>3 DEF SyncOf
<1>8. (\A d, e \in InFlight : d = e)'
  BY <1>3 DEF InFlight
<1> QED
  BY <1>3, <1>6, <1>7, <1>8 DEF Synced

-----------------------------------------------------------------------------
(* The theorems.                                                           *)

LEMMA InitInvariant == Init => GroupInvariant
<1> SUFFICES ASSUME Init PROVE GroupInvariant
  OBVIOUS
<1>0. Types
  BY InitTypes
<1>1. \A c \in Change : pc[c] = "new"
  BY DEF Init
<1>2. /\ InFlight = {} /\ happened = {} /\ members = {}
      /\ DOMAIN maps \subseteq {0} /\ DOMAIN secrets \subseteq {0}
      /\ \A n \in DOMAIN maps : maps[n].by = OldValue
  BY <1>1 DEF Init, InFlight
<1>3. Versions(maps) = {} /\ Versions(secrets) = {}
  BY <1>2 DEF Versions
<1>4. Alone /\ \A c \in Change : OpOf(c) /\ Makes(c) /\ Fresh(c)
  BY <1>1, <1>2, ValueAssumption DEF Alone, OpOf, Makes, Fresh
<1>5. SecretsInvariant
  BY <1>1, <1>3 DEF SecretsInvariant, VersionOf
<1>6. MembersInvariant
  BY <1>1, <1>2, <1>3 DEF MembersInvariant, ListOf
<1> QED
  BY <1>0, <1>4, <1>5, <1>6 DEF GroupInvariant

LEMMA NextInvariant == GroupInvariant /\ [Next]_vars => GroupInvariant'
<1> SUFFICES ASSUME GroupInvariant, [Next]_vars PROVE GroupInvariant'
  OBVIOUS
<1>0. Types' /\ \A d \in Change : OpOf(d)'
  BY TypesStep DEF GroupInvariant
<1>1. CASE UNCHANGED vars
  <2>1. Alone' /\ \A d \in Change : Makes(d)' /\ Fresh(d)'
    BY <1>1 DEF GroupInvariant, vars, Alone, InFlight, Makes, Fresh
  <2>2. SecretsInvariant'
    BY <1>1 DEF GroupInvariant, vars, SecretsInvariant, VersionOf, Versions, Matches, Latest
  <2>3. MembersInvariant'
    BY <1>1 DEF GroupInvariant, vars, MembersInvariant, ListOf, Unwritten, Versions, Latest
  <2> QED
    BY <1>0, <2>1, <2>2, <2>3 DEF GroupInvariant
<1>2. CASE Next
  <2>1. PICK c \in Change : Reads(c) \/ GivesUp(c) \/ Writes(c)
    BY <1>2, StepOfOne
  <2>2. Alone' /\ \A d \in Change : Makes(d)' /\ Fresh(d)'
    BY <2>1, AloneStep, MakesStep, FreshStep DEF GroupInvariant
  <2>3. SecretsInvariant' /\ MembersInvariant'
    BY <1>0, <2>1, SecretsStep, MembersStep DEF GroupInvariant
  <2> QED
    BY <1>0, <2>2, <2>3 DEF GroupInvariant
<1> QED
  BY <1>1, <1>2

\* The invariant holds: the group's types, and what its requests hold.
THEOREM GroupInvariantHolds == Spec => []GroupInvariant
BY InitInvariant, NextInvariant, PTL DEF Spec

\* Every variable keeps its type (create_env_group.go, useChart.ts and what they call).
THEOREM GroupTypeCorrect == Spec => []TypeOK
<1>1. GroupInvariant => TypeOK
  BY DEF GroupInvariant, Types
<1> QED
  BY <1>1, GroupInvariantHolds, PTL

\* No version is changed once it is made and none goes without the others, however many
\* requests overlap or fail (CreateVersionedConfigMap, CreateLinkedVersionedSecret).
THEOREM VersionsAreKept == Spec => VersionsStay
<1>1. GroupInvariant /\ [Next]_vars =>
        [/\ \A n \in Versions(maps) \cap DOMAIN maps' : maps'[n].ref = maps[n].ref
         /\ \A n \in Versions(secrets) \cap DOMAIN secrets' : secrets'[n] = secrets[n]
         /\ Versions(maps) \subseteq DOMAIN maps' \/ Versions(maps') = {}
         /\ Versions(secrets) \subseteq DOMAIN secrets' \/ Versions(secrets') = {}]_vars
  BY VersionsStayStep DEF GroupInvariant
<1> QED
  BY <1>1, GroupInvariantHolds, PTL DEF Spec, VersionsStay

\* A configmap has a placeholder exactly for the secret of its version, as long as no delete
\* overlaps with another request (CreateEnvGroup).
THEOREM SecretsMatch == Spec => []SecretMatchesMap
<1>1. GroupInvariant => SecretMatchesMap
  BY DEF GroupInvariant, SecretsInvariant, SecretMatchesMap, Matches
<1> QED
  BY <1>1, GroupInvariantHolds, PTL

\* No edit of the list of applications is lost, however many overlap or fail, as long as
\* versions are written or deleted by one request at a time (AddApplicationToVersionedConfigMap).
THEOREM MembersAreKept == Spec => []MembersKept
<1>1. GroupInvariant => MembersKept
  BY DEF GroupInvariant, MembersInvariant, MembersKept, Writers
<1> QED
  BY <1>1, GroupInvariantHolds, PTL

\* What is made is due, in one form, with its value and synced, as long as what would break
\* it has not happened.
KeptInvariant == DueInvariant /\ FormsInvariant /\ ValueInvariant /\ SyncInvariant

LEMMA InitKept == Init => KeptInvariant
<1> SUFFICES ASSUME Init PROVE KeptInvariant
  OBVIOUS
<1>1. /\ \A c \in Change : pc[c] = "new"
      /\ members = {} /\ InFlight = {}
      /\ DOMAIN maps \subseteq {0} /\ DOMAIN secrets \subseteq {0}
  BY DEF Init, InFlight
<1>2. Versions(maps) = {} /\ Versions(secrets) = {}
  BY <1>1 DEF Versions
<1>3. \A a \in App : charts[a].section = 0
  BY DEF Init
<1>4. DueInvariant /\ FormsInvariant
  BY <1>1, <1>2 DEF DueInvariant, SecretDue, FormsInvariant, FormOf
<1>5. ValueInvariant
  BY <1>1, <1>2 DEF ValueInvariant, ValueOf, PairsMatch
<1>6. SyncInvariant
  BY <1>1, <1>3 DEF SyncInvariant, SyncOf, Absent, SyncedBut
<1> QED
  BY <1>4, <1>5, <1>6 DEF KeptInvariant

LEMMA NextKept == GroupInvariant /\ GroupInvariant' /\ KeptInvariant /\ [Next]_vars => KeptInvariant'
<1> SUFFICES ASSUME GroupInvariant, GroupInvariant', KeptInvariant, [Next]_vars PROVE KeptInvariant'
  OBVIOUS
<1>0. /\ Types /\ Types' /\ Alone /\ SecretsInvariant /\ MembersInvariant
      /\ \A d \in Change : OpOf(d) /\ Makes(d)
      /\ DueInvariant /\ FormsInvariant /\ ValueInvariant /\ SyncInvariant
  BY DEF GroupInvariant, KeptInvariant
<1>1. CASE UNCHANGED vars
  <2>0. /\ UNCHANGED <<maps, secrets, charts, pc, req, members, given, happened>>
        /\ InFlight' = InFlight /\ Installed' = Installed
        /\ Latest(maps') = Latest(maps)
    BY <1>1 DEF vars, InFlight, Installed
  <2>1. DueInvariant' /\ FormsInvariant'
    BY <1>0, <2>0 DEF DueInvariant, SecretDue, FormsInvariant, FormOf, Converts, Versions
  <2>2. ValueInvariant'
    BY <1>0, <2>0 DEF ValueInvariant, ValueOf, Paired, PairsMatch, Versions
  <2>3. SyncInvariant'
    <3>1. Absent' = Absent /\ \A S : SyncedBut(S)' = SyncedBut(S)
      BY <2>0 DEF Absent, SyncedBut
    <3>2. \A d \in Change : SyncOf(d)' = SyncOf(d)
      BY <2>0, <3>1 DEF SyncOf, Unwritten, Versions, SyncedBut
    <3> QED
      BY <1>0, <2>0, <3>1, <3>2 DEF SyncInvariant, SyncedBut
  <2> QED
    BY <2>1, <2>2, <2>3 DEF KeptInvariant
<1>2. CASE Next
  <2>1. PICK c \in Change : Reads(c) \/ GivesUp(c) \/ Writes(c)
    BY <1>2, StepOfOne
  <2>2. DueInvariant' /\ FormsInvariant' /\ ValueInvariant'
    BY <1>0, <2>1, DueStep, FormsStep, ValueStep
  <2>3. SyncInvariant'
    BY <1>0, <2>1, SyncStep
  <2> QED
    BY <2>2, <2>3 DEF KeptInvariant
<1> QED
  BY <1>1, <1>2

\* The invariant holds: what the requests have read and made stays good while it is needed.
THEOREM KeptInvariantHolds == Spec => []KeptInvariant
BY InitKept, NextKept, GroupInvariantHolds, PTL DEF Spec

\* The variable keeps the value it was given last, as long as no two requests that write
\* versions overlap and no call fails, whatever edits of the list overlap with them
\* (CreateEnvGroup and the secret that the latest version is read from).
THEOREM SecretIsKept == Spec => []SecretKept
<1>1. GroupInvariant /\ KeptInvariant => SecretKept
  <2> SUFFICES ASSUME Types, ValueInvariant, (Writers \cup {"failure"}) \cap happened = {},
                      Latest(maps) \in Versions(secrets)
               PROVE  secrets[Latest(maps)] = given
    BY DEF GroupInvariant, KeptInvariant, SecretKept, Writers
  <2>1. (\A c \in Change : ValueOf(c)) /\ (Paired => PairsMatch)
    BY DEF ValueInvariant
  <2>2. Paired
    BY <2>1 DEF ValueOf, Paired
  <2> QED
    BY <2>1, <2>2 DEF PairsMatch
<1> QED
  BY <1>1, GroupInvariantHolds, KeptInvariantHolds, PTL

\* When nothing is under way the group has its old form or versions and not both, however
\* many conversions and updates have overlapped, unless a call has failed or a delete overlapped
\* with another request (ConvertV1ToV2EnvGroup).
THEOREM FormIsOne == Spec => []OneForm
<1>1. KeptInvariant => OneForm
  <2> SUFFICES ASSUME FormsInvariant, Quiet, {"delete", "failure"} \cap happened = {},
                      0 \in DOMAIN maps, Versions(maps) # {}
               PROVE  FALSE
    BY DEF KeptInvariant, OneForm
  <2>1. PICK c \in Change : Converts(c)
    BY DEF FormsInvariant
  <2> QED
    BY <2>1 DEF Converts, Quiet, InFlight
<1> QED
  BY <1>1, KeptInvariantHolds, PTL

\* When nothing is under way, after requests of which no two overlapped and no call failed, each
\* release with a section for the group is listed in its latest version and synced to it, and
\* nothing else is listed (rolloutApplications, useChart.ts).
THEOREM ReleasesAreSynced == Spec => []SyncedToLatest
<1>1. GroupInvariant /\ KeptInvariant => SyncedToLatest
  <2> SUFFICES ASSUME MembersInvariant, SyncInvariant, Quiet, happened = {}, NEW a \in App
               PROVE  charts[a].section =
                        IF Versions(maps) # {} /\ a \in maps[Latest(maps)].apps THEN Latest(maps) ELSE 0
    BY DEF GroupInvariant, KeptInvariant, SyncedToLatest
  <2>1. charts[a].section = IF a \in members THEN Latest(maps) ELSE 0
    BY DEF SyncInvariant, Quiet, SyncedBut
  <2>2. members = IF Versions(maps) = {} THEN {} ELSE maps[Latest(maps)].apps
    BY DEF MembersInvariant
  <2> QED
    BY <2>1, <2>2
<1> QED
  BY <1>1, GroupInvariantHolds, KeptInvariantHolds, PTL
=============================================================================
