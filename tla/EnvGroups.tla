----------------------------- MODULE EnvGroups -----------------------------
(***************************************************************************)
(* One environment group: the versioned configmaps and secrets that keep   *)
(* it in a namespace (internal/kubernetes/envgroup), the charts that are    *)
(* synced to it, the handlers that make, edit and delete its versions      *)
(* (api/server/handlers/namespace, api/server/handlers/v1/env_group), and  *)
(* the calls the dashboard makes one after the other to attach an          *)
(* application to it or detach one (hooks/useChart.ts), or two at a time   *)
(* to launch an add-on (LaunchFlow.tsx).                                   *)
(*                                                                         *)
(* The group has one secret variable; the others are written as a client   *)
(* sends them. A configmap holds a placeholder for it, which names the     *)
(* version of the secret it is in. Version 0 is the group in its old form, *)
(* a configmap and a secret without versions.                              *)
(***************************************************************************)
EXTENDS Integers, FiniteSets

CONSTANTS
  App,          \* names of applications
  Change,       \* the requests that clients make
  Operation,    \* what they may ask for, of Operations
  OldValue,     \* the value of the variable in the old form of the group
  NoValue,      \* no value: the variable is not there
  MaxInFlight,  \* bound: the requests under way at a time
  MayFail       \* whether a call may return an error

Operations == {"update", "convert", "delete", "attach", "detach", "install", "uninstall", "upgrade"}

ASSUME ValueAssumption == OldValue \notin Change /\ NoValue \notin Change \cup {OldValue}
ASSUME OperationAssumption == Operation \subseteq Operations
ASSUME FlightAssumption == MaxInFlight \in Nat \ {0} /\ MayFail \in BOOLEAN

VARIABLES
  maps,      \* the configmaps there are, by version
  secrets,   \* the secrets there are, by version: the value of the variable in each
  charts,    \* the release of each application
  pc, req,   \* of each request: where it is, and its local variables
  members,   \* the applications added to the group and not removed since (history)
  given,     \* the value the requests have given the variable (history)
  happened   \* what has disturbed the group so far (history)

vars == <<maps, secrets, charts, pc, req, members, given, happened>>

Value == Change \cup {OldValue, NoValue}
NoRef == -1

\* A configmap: the version its placeholder names, if it has one, the applications in its
\* annotation, and the request that has written it last (its resourceVersion).
Map == [ref : Nat \cup {NoRef}, apps : SUBSET App, by : Change \cup {OldValue}]

\* A release: the version in its section for the group, 0 if it has no such section, and
\* its Helm revision, 0 if it is not installed.
Chart == [section : Nat, revision : Nat]
NotInstalled == [section |-> 0, revision |-> 0]

\* The local variables of a request: what it asks for and for which application, what the
\* client had read (a section or version, a revision, a placeholder), the version it reads
\* or makes, the applications and writer read with it, the value it stores, and the
\* sections of the releases it still has to upgrade, -1 for one it need not.
Request == [op : Operations \cup {"none"}, app : App \cup {NoValue}, view : Nat, revision : Nat,
            ref : Nat \cup {NoRef}, version : Nat, apps : SUBSET App,
            by : Change \cup {OldValue}, value : Value, plan : [App -> Nat \cup {-1}]]

Blank == [op |-> "none", app |-> NoValue, view |-> 0, revision |-> 0, ref |-> NoRef,
          version |-> 0, apps |-> {}, by |-> OldValue, value |-> NoValue,
          plan |-> [a \in App |-> -1]]

\* There is no group, or one in its old form; applications may be installed.
Init ==
  /\ \/ maps = << >> /\ secrets = << >>
     \/ /\ maps = [n \in {0} |-> [ref |-> 0, apps |-> {}, by |-> OldValue]]
        /\ secrets = [n \in {0} |-> OldValue]
  /\ \E apps \in SUBSET App :
       charts = [a \in App |-> [section |-> 0, revision |-> IF a \in apps THEN 1 ELSE 0]]
  /\ pc = [c \in Change |-> "new"] /\ req = [c \in Change |-> Blank]
  /\ members = {} /\ given = NoValue /\ happened = {}

Put(f, n, v) == [m \in DOMAIN f \cup {n} |-> IF m = n THEN v ELSE f[m]]
Without(f, S) == [m \in DOMAIN f \ S |-> f[m]]

Versions(f) == DOMAIN f \ {0}

\* GetLatestVersionedConfigMap, GetLatestVersionedSecret: 0 when there is none.
Latest(f) == CHOOSE n \in {0} \cup DOMAIN f : \A m \in DOMAIN f : m <= n

Installed == {a \in App : charts[a].revision > 0}
InFlight == {c \in Change : pc[c] \notin {"new", "ended"}}

\* A client makes a request. What overlaps is noted, by what it asks for.
Begins(c, op) ==
  /\ pc[c] = "new" /\ op \in Operation
  /\ Cardinality(InFlight) < MaxInFlight
  /\ happened' = happened \cup (IF InFlight = {} THEN {} ELSE {op} \cup {req[d].op : d \in InFlight})

At(c, place) == pc' = [pc EXCEPT ![c] = place]

\* An error ends the request.
Ends(c) == At(c, "ended") /\ UNCHANGED <<maps, secrets, charts, req, members, given, happened>>

-----------------------------------------------------------------------------
(* Faulty variants of definitions below, no part of the system: each is    *)
(* what a plausible mistake would make of one, put in its place to see     *)
(* that a property fails.                                                  *)

\* The value is read from the secret that the placeholder names.
ReadSecretNamed(c) ==
  /\ pc[c] = "readMap"
  /\ req' = IF req[c].ref \in DOMAIN secrets
            THEN [req EXCEPT ![c].value = secrets[req[c].ref]] ELSE req
  /\ At(c, "creating")
  /\ UNCHANGED <<maps, secrets, charts, members, given, happened>>

\* A configmap of the same version is overwritten.
CreateMapOver(c) ==
  /\ pc[c] = "creating"
  /\ maps' = Put(maps, req[c].version,
                 [ref |-> IF req[c].value # NoValue THEN req[c].version ELSE req[c].ref,
                  apps |-> req[c].apps, by |-> c])
  /\ given' = IF req[c].ref = NoRef THEN req[c].value ELSE given
  /\ At(c, "created")
  /\ UNCHANGED <<secrets, charts, req, members, happened>>

\* A placeholder is renamed to the new version, also when the latest secret had no value.
CreateMapRenamed(c) ==
  /\ pc[c] = "creating" /\ req[c].version \notin DOMAIN maps
  /\ maps' = Put(maps, req[c].version,
                 [ref |-> IF req[c].value # NoValue \/ req[c].ref # NoRef THEN req[c].version
                          ELSE NoRef,
                  apps |-> req[c].apps, by |-> c])
  /\ given' = IF req[c].ref = NoRef THEN req[c].value ELSE given
  /\ At(c, "created")
  /\ UNCHANGED <<secrets, charts, req, members, happened>>

\* A release is upgraded to the configuration listed, as it is.
RolloutListed(c, a) ==
  /\ pc[c] = "rolling" /\ req[c].plan[a] # -1
  /\ charts' = IF a \notin Installed THEN charts
               ELSE [charts EXCEPT ![a] = [section |-> req[c].plan[a], revision |-> @.revision + 1]]
  /\ req' = [req EXCEPT ![c].plan[a] = -1]
  /\ UNCHANGED <<maps, secrets, pc, members, given, happened>>

\* A conversion deletes the old secret and keeps the old configmap.
DeleteOldSecret(c) ==
  /\ pc[c] = "converted" /\ 0 \in DOMAIN maps
  /\ secrets' = Without(secrets, {0})
  /\ At(c, "ended")
  /\ UNCHANGED <<maps, charts, req, members, given, happened>>

\* A configmap is updated whoever has written it since.
StillThere(c) == req[c].version \in DOMAIN maps

-----------------------------------------------------------------------------
(* CreateEnvGroup, and the handler that rolls its result out.              *)

\* The client sends a value for the variable, the placeholder it has read in some version,
\* or neither. A group that has only its old form is refused.
Update(c) ==
  /\ Begins(c, "update")
  /\ 0 \in DOMAIN maps => Versions(maps) # {}
  /\ \E value \in {c, NoValue}, ref \in {NoRef} \cup {maps[n].ref : n \in Versions(maps)} :
       /\ value = c => ref = NoRef
       /\ req' = [req EXCEPT ![c] = [Blank EXCEPT !.op = "update", !.value = value, !.ref = ref]]
  /\ At(c, "reading")
  /\ UNCHANGED <<maps, secrets, charts, members, given>>

\* The next version, and the applications of the latest one.
ReadMap(c) ==
  /\ pc[c] = "reading"
  /\ LET latest == Latest(maps) IN
       req' = [req EXCEPT ![c].version = latest + 1,
                          ![c].apps = IF latest = 0 THEN {} ELSE maps[latest].apps]
  /\ At(c, "readMap")
  /\ UNCHANGED <<maps, secrets, charts, members, given, happened>>

\* Whoever sends a placeholder gets the value that the latest secret has.
ReadSecret(c) ==
  /\ pc[c] = "readMap"
  /\ req' = IF req[c].ref # NoRef /\ Latest(secrets) > 0
            THEN [req EXCEPT ![c].value = secrets[Latest(secrets)]] ELSE req
  /\ At(c, "creating")
  /\ UNCHANGED <<maps, secrets, charts, members, given, happened>>

\* CreateVersionedConfigMap: a placeholder for the new secret if it gets a value, and the
\* one the client has sent if it does not.
CreateMap(c) ==
  /\ pc[c] = "creating" /\ req[c].version \notin DOMAIN maps
  /\ maps' = Put(maps, req[c].version,
                 [ref |-> IF req[c].value # NoValue THEN req[c].version ELSE req[c].ref,
                  apps |-> req[c].apps, by |-> c])
  /\ given' = IF req[c].ref = NoRef THEN req[c].value ELSE given
  /\ At(c, "created")
  /\ UNCHANGED <<secrets, charts, req, members, happened>>

\* CreateLinkedVersionedSecret.
CreateSecret(c) ==
  /\ pc[c] = "created" /\ req[c].version \notin DOMAIN secrets
  /\ secrets' = Put(secrets, req[c].version, req[c].value)
  /\ At(c, IF req[c].op = "update" THEN "listing" ELSE "converted")
  /\ UNCHANGED <<maps, charts, req, members, given, happened>>

\* Neither overwrites one that there is.
AlreadyExists(c) ==
  /\ \/ pc[c] = "creating" /\ req[c].version \in DOMAIN maps
     \/ pc[c] = "created" /\ req[c].version \in DOMAIN secrets
  /\ Ends(c)

\* GetSyncedReleases: the releases, with their configuration, of the applications.
ListReleases(c) ==
  /\ pc[c] = "listing"
  /\ req' = [req EXCEPT ![c].plan = [a \in App |-> IF a \in req[c].apps \cap Installed
                                                   THEN charts[a].section ELSE -1]]
  /\ At(c, "rolling")
  /\ UNCHANGED <<maps, secrets, charts, members, given, happened>>

Planned(c) == {a \in App : req[c].plan[a] # -1}

\* rolloutApplications, getNewConfig: an upgrade to the configuration listed, its section
\* for the group, if it has one, set to the new version. No release, no upgrade.
Rollout(c, a) ==
  /\ pc[c] = "rolling" /\ a \in Planned(c)
  /\ charts' = IF a \notin Installed THEN charts
               ELSE [charts EXCEPT ![a] = [section |-> IF req[c].plan[a] = 0 THEN 0 ELSE req[c].version,
                                           revision |-> @.revision + 1]]
  /\ req' = [req EXCEPT ![c].plan[a] = -1]
  /\ UNCHANGED <<maps, secrets, pc, members, given, happened>>

RolloutFails(c, a) ==
  /\ MayFail /\ pc[c] = "rolling" /\ a \in Planned(c)
  /\ req' = [req EXCEPT ![c].plan[a] = -1]
  /\ happened' = happened \cup {"failure"}
  /\ UNCHANGED <<maps, secrets, charts, pc, members, given>>

RolledOut(c) == pc[c] = "rolling" /\ Planned(c) = {} /\ Ends(c)

-----------------------------------------------------------------------------
(* UpdateConfigMapHandler: it patches a group that has its old form, and   *)
(* makes it one with versions (ConvertV1ToV2EnvGroup).                     *)

PatchSecret(c) ==
  /\ Begins(c, "convert")
  /\ Versions(maps) = {} /\ 0 \in DOMAIN secrets
  /\ secrets' = [secrets EXCEPT ![0] = c]
  /\ req' = [req EXCEPT ![c] = [Blank EXCEPT !.op = "convert"]]
  /\ At(c, "patching")
  /\ UNCHANGED <<maps, charts, members, given>>

PatchMap(c) ==
  /\ pc[c] = "patching" /\ 0 \in DOMAIN maps
  /\ maps' = [maps EXCEPT ![0].ref = 0, ![0].by = c]
  /\ At(c, "patched")
  /\ UNCHANGED <<secrets, charts, req, members, given, happened>>

ReadOldForm(c) ==
  /\ pc[c] = "patched" /\ {0} \subseteq DOMAIN maps \cap DOMAIN secrets
  /\ req' = [req EXCEPT ![c].value = secrets[0]]
  /\ At(c, "reading")
  /\ UNCHANGED <<maps, secrets, charts, members, given, happened>>

\* The old configmap is deleted at the end, the old secret is kept.
DeleteOldMap(c) ==
  /\ pc[c] = "converted" /\ 0 \in DOMAIN maps
  /\ maps' = Without(maps, {0})
  /\ At(c, "ended")
  /\ UNCHANGED <<secrets, charts, req, members, given, happened>>

OldFormGone(c) ==
  /\ \/ pc[c] \in {"patching", "converted"} /\ 0 \notin DOMAIN maps
     \/ pc[c] = "patched" /\ ~({0} \subseteq DOMAIN maps \cap DOMAIN secrets)
  /\ Ends(c)

-----------------------------------------------------------------------------
(* DeleteEnvGroupHandler: first the secrets, then the configmaps.          *)

\* A group that has applications is refused.
Delete(c) ==
  /\ Begins(c, "delete")
  /\ DOMAIN maps # {} /\ maps[Latest(maps)].apps = {}
  /\ req' = [req EXCEPT ![c] = [Blank EXCEPT !.op = "delete", !.version = Latest(maps)]]
  /\ At(c, "deleting")
  /\ UNCHANGED <<maps, secrets, charts, members, given>>

\* What it deletes: all versions, or the old form.
Deleted(c, f) == IF req[c].version = 0 THEN {0} ELSE Versions(f)

DeleteSecrets(c) ==
  /\ pc[c] = "deleting" /\ (req[c].version = 0 => 0 \in DOMAIN secrets)
  /\ secrets' = Without(secrets, Deleted(c, secrets))
  /\ At(c, "deletingMaps")
  /\ UNCHANGED <<maps, charts, req, members, given, happened>>

DeleteMaps(c) ==
  /\ pc[c] = "deletingMaps" /\ (req[c].version = 0 => 0 \in DOMAIN maps)
  /\ maps' = Without(maps, Deleted(c, maps))
  /\ members' = {} /\ given' = NoValue
  /\ At(c, "ended")
  /\ UNCHANGED <<secrets, charts, req, happened>>

\* An old form that is not there is an error.
NotThere(c) ==
  /\ req[c].version = 0
  /\ \/ pc[c] = "deleting" /\ 0 \notin DOMAIN secrets
     \/ pc[c] = "deletingMaps" /\ 0 \notin DOMAIN maps
  /\ Ends(c)

-----------------------------------------------------------------------------
(* The dashboard: applications are attached, detached, installed with the  *)
(* group, uninstalled, and upgraded for other reasons.                     *)

\* The client has loaded the release and the latest version of the group.
Asks(c, op, a, view, place) ==
  /\ req' = [req EXCEPT ![c] = [Blank EXCEPT !.op = op, !.app = a, !.view = view,
                                             !.revision = charts[a].revision]]
  /\ At(c, place)
  /\ UNCHANGED <<maps, secrets, members, given>>

Attach(c, a) ==
  /\ Begins(c, "attach") /\ a \in Installed /\ charts[a].section = 0 /\ Versions(maps) # {}
  /\ Asks(c, "attach", a, Latest(maps), "editing") /\ UNCHANGED charts

Detach(c, a) ==
  /\ Begins(c, "detach") /\ a \in Installed /\ charts[a].section # 0
  /\ Asks(c, "detach", a, 0, "editing") /\ UNCHANGED charts

\* A release with a section for the group: CreateReleaseHandler installs it before it adds it
\* to the group, while for an add-on the dashboard calls for both and awaits neither.
Install(c, a) ==
  /\ Begins(c, "install") /\ a \notin Installed /\ Versions(maps) # {}
  /\ \/ Asks(c, "install", a, Latest(maps), "installing")
     \/ Asks(c, "install", a, Latest(maps), "editing")
  /\ UNCHANGED charts

\* A request whose install has not returned: there was no revision, and it knows of none yet.
Deploying(c) == c \in InFlight /\ req[c].op = "install" /\ req[c].revision = 0

InstallChart(c) ==
  /\ Deploying(c) /\ req[c].app \notin Installed
  /\ charts' = [charts EXCEPT ![req[c].app] = [section |-> req[c].view, revision |-> 1]]
  /\ req' = [req EXCEPT ![c].revision = 1]
  /\ At(c, CASE pc[c] = "installing" -> "editing" [] pc[c] = "deploying" -> "ended" [] OTHER -> pc[c])
  /\ UNCHANGED <<maps, secrets, members, given, happened>>

\* A release of that name is refused. The add-on is added to the group all the same.
InstallFails(c) ==
  /\ Deploying(c) /\ (req[c].app \in Installed \/ MayFail)
  /\ req' = [req EXCEPT ![c].revision = 1]
  /\ At(c, IF pc[c] \in {"installing", "deploying"} THEN "ended" ELSE pc[c])
  /\ happened' = IF req[c].app \in Installed THEN happened ELSE happened \cup {"failure"}
  /\ UNCHANGED <<maps, secrets, charts, members, given>>

Uninstall(c, a) ==
  /\ Begins(c, "uninstall") /\ a \in Installed
  /\ Asks(c, "uninstall", a, 0, IF charts[a].section = 0 THEN "uninstalling" ELSE "editing")
  /\ UNCHANGED charts

Upgrade(c, a) ==
  /\ Begins(c, "upgrade") /\ a \in Installed
  /\ Asks(c, "upgrade", a, charts[a].section, "checking") /\ UNCHANGED charts

\* AddEnvGroupAppHandler, RemoveEnvGroupAppHandler: the latest configmap is read ...
ReadMembers(c) ==
  /\ pc[c] = "editing" /\ Versions(maps) # {}
  /\ LET latest == Latest(maps) IN
       req' = [req EXCEPT ![c].version = latest, ![c].apps = maps[latest].apps,
                          ![c].by = maps[latest].by]
  /\ At(c, "writing")
  /\ UNCHANGED <<maps, secrets, charts, members, given, happened>>

\* What the dashboard does next, whether or not the edit was a success.
After(c, edited) ==
  CASE req[c].op \in {"attach", "detach"} -> "checking"
    [] req[c].op = "uninstall" /\ edited -> "uninstalling"
    [] Deploying(c) -> "deploying"
    [] OTHER -> "ended"

Edited(c, apps) == IF req[c].op \in {"attach", "install"} THEN apps \cup {req[c].app}
                   ELSE apps \ {req[c].app}

\* It has not been written since it was read.
Unwritten(c) == req[c].version \in DOMAIN maps /\ maps[req[c].version].by = req[c].by

\* ... and its annotation updated, unless the configmap was written meanwhile.
WriteMembers(c) ==
  /\ pc[c] = "writing" /\ Unwritten(c)
  /\ LET apps == Edited(c, req[c].apps) IN
       maps' = [maps EXCEPT ![req[c].version].apps = apps,
                            ![req[c].version].by = IF apps = req[c].apps THEN @ ELSE c]
  /\ members' = Edited(c, members)
  /\ At(c, After(c, TRUE))
  /\ UNCHANGED <<secrets, charts, req, given, happened>>

EditFails(c) ==
  /\ \/ pc[c] = "editing" /\ Versions(maps) = {}
     \/ pc[c] = "writing" /\ ~Unwritten(c)
  /\ At(c, After(c, FALSE))
  /\ UNCHANGED <<maps, secrets, charts, req, members, given, happened>>

\* UpgradeReleaseHandler: the revision has to be the latest one when it is checked ...
CheckRevision(c) ==
  /\ pc[c] = "checking"
  /\ At(c, IF charts[req[c].app].revision = req[c].revision THEN "upgrading" ELSE "ended")
  /\ UNCHANGED <<maps, secrets, charts, req, members, given, happened>>

\* ... and the release is upgraded to the configuration that the client has sent.
UpgradeChart(c) ==
  /\ pc[c] = "upgrading"
  /\ charts' = IF req[c].app \notin Installed THEN charts
               ELSE [charts EXCEPT ![req[c].app] = [section |-> req[c].view, revision |-> @.revision + 1]]
  /\ At(c, "ended")
  /\ UNCHANGED <<maps, secrets, req, members, given, happened>>

UninstallChart(c) ==
  /\ pc[c] = "uninstalling"
  /\ charts' = [charts EXCEPT ![req[c].app] = NotInstalled]
  /\ At(c, "ended")
  /\ UNCHANGED <<maps, secrets, req, members, given, happened>>

-----------------------------------------------------------------------------

\* A call returns an error, or the client goes away.
RequestFails(c) ==
  /\ MayFail /\ c \in InFlight
  /\ \/ At(c, "ended")
     \/ pc[c] \in {"editing", "writing"} /\ At(c, After(c, FALSE))
  /\ happened' = happened \cup {"failure"}
  /\ UNCHANGED <<maps, secrets, charts, req, members, given>>

Next ==
  \E c \in Change :
    \/ Update(c) \/ ReadMap(c) \/ ReadSecret(c) \/ CreateMap(c) \/ CreateSecret(c)
    \/ AlreadyExists(c) \/ ListReleases(c) \/ RolledOut(c)
    \/ PatchSecret(c) \/ PatchMap(c) \/ ReadOldForm(c) \/ DeleteOldMap(c) \/ OldFormGone(c)
    \/ Delete(c) \/ DeleteSecrets(c) \/ DeleteMaps(c) \/ NotThere(c)
    \/ ReadMembers(c) \/ WriteMembers(c) \/ EditFails(c)
    \/ InstallChart(c) \/ InstallFails(c)
    \/ CheckRevision(c) \/ UpgradeChart(c) \/ UninstallChart(c) \/ RequestFails(c)
    \/ \E a \in App : \/ Rollout(c, a) \/ RolloutFails(c, a) \/ Attach(c, a) \/ Detach(c, a)
                      \/ Install(c, a) \/ Uninstall(c, a) \/ Upgrade(c, a)

Spec == Init /\ [][Next]_vars

-----------------------------------------------------------------------------
(* Properties.                                                             *)

Place == {"new", "reading", "readMap", "creating", "created", "listing", "rolling", "patching",
          "patched", "converted", "deleting", "deletingMaps", "editing", "writing", "checking",
          "upgrading", "installing", "deploying", "uninstalling", "ended"}

\* Every variable has its type.
TypeOK ==
  /\ DOMAIN maps \subseteq Nat /\ \A n \in DOMAIN maps : maps[n] \in Map
  /\ DOMAIN secrets \subseteq Nat /\ \A n \in DOMAIN secrets : secrets[n] \in Value
  /\ charts \in [App -> Chart]
  /\ pc \in [Change -> Place] /\ req \in [Change -> Request]
  /\ members \subseteq App /\ given \in Value
  /\ happened \subseteq Operations \cup {"failure"}

Quiet == InFlight = {}

\* A version is never changed once it is made, and none goes without the others: a release
\* stays synced to the version it was given, and two updates that read the same latest
\* version do not both make the next one (CreateVersionedConfigMap, CreateLinkedVersionedSecret,
\* DeleteEnvGroup).
VersionsStay ==
  [][/\ \A n \in Versions(maps) \cap DOMAIN maps' : maps'[n].ref = maps[n].ref
     /\ \A n \in Versions(secrets) \cap DOMAIN secrets' : secrets'[n] = secrets[n]
     /\ Versions(maps) \subseteq DOMAIN maps' \/ Versions(maps') = {}
     /\ Versions(secrets) \subseteq DOMAIN secrets' \/ Versions(secrets') = {}]_vars

\* The configmap and the secret of a version come from one update, however updates overlap:
\* the one has a placeholder for the other exactly if the variable is in it. Only a group that
\* is deleted while it is written to may get them from two (CreateEnvGroup).
SecretMatchesMap ==
  "delete" \notin happened =>
    \A n \in Versions(maps) \cap DOMAIN secrets : maps[n].ref = n <=> secrets[n] # NoValue

\* The variable has the value it was given last: an update that sends its placeholder back
\* brings the value into the new secret (CreateEnvGroup), and so does a conversion.
SecretKept ==
  {"update", "convert", "delete", "failure"} \cap happened = {} /\ Latest(maps) \in Versions(secrets) =>
    secrets[Latest(maps)] = given

\* No application that was added to the group is lost, and none that was removed comes back,
\* however the requests that edit the list overlap: the configmap they update is the one they
\* have read (AddApplicationToVersionedConfigMap). A new version carries the list over.
MembersKept ==
  {"update", "convert", "delete"} \cap happened = {} /\ Versions(maps) # {} =>
    maps[Latest(maps)].apps = members

\* What the latest version lists are the releases with a section for the group, all of them
\* synced to it, when nothing has overlapped and no call has failed (rolloutApplications and
\* the order of the calls in useChart.ts).
SyncedToLatest ==
  Quiet /\ happened = {} =>
    \A a \in App : charts[a].section =
      IF Versions(maps) # {} /\ a \in maps[Latest(maps)].apps THEN Latest(maps) ELSE 0

\* When nothing is under way, the group has its old form or versions and not both, however
\* conversions and updates overlap, unless a call has failed (ConvertV1ToV2EnvGroup). Only a
\* delete in the midst of a conversion and an update may leave both.
OneForm ==
  Quiet /\ {"delete", "failure"} \cap happened = {} => 0 \notin DOMAIN maps \/ Versions(maps) = {}
=============================================================================
