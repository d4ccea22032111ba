--------------------------- MODULE StackRevisions ---------------------------
(***************************************************************************)
(* One stack: its revisions in the database, the Helm releases of its      *)
(* applications and its environment group in the cluster, the handlers     *)
(* that change it (api/server/handlers/stack), and the hooks that append a *)
(* revision after one of its releases or its environment group was changed *)
(* on its own (internal/stacks/hooks.go).                                  *)
(*                                                                         *)
(* A handler copies the latest revision, changes the copy, appends it with *)
(* the next number, does its work in the cluster, and saves the outcome in *)
(* the row it has appended. Nothing is held meanwhile. What an application *)
(* is made of is named by the change that deployed it: a change upgrades   *)
(* or installs an application at most once.                                *)
(***************************************************************************)
EXTENDS Integers, Sequences, FiniteSets

CONSTANTS
  App,          \* names of applications
  Linked,       \* those that are linked to the environment group
  Group,        \* the environment group
  NoContent,    \* what an application that is not installed is made of
  Change,       \* the requests made of the stack
  Operation,    \* the requests that clients make, of Operations
  MaxInFlight,  \* bound: the requests handled at a time
  MayFail       \* whether a call of a handler may return an error

Operations == {"create", "add", "remove", "source", "rollback", "addGroup", "removeGroup",
               "upgrade", "group", "rename", "delete"}

ASSUME NameAssumption == Linked \subseteq App /\ Group \notin App /\ NoContent \notin Change
ASSUME OperationAssumption == Operation \subseteq Operations
ASSUME FlightAssumption == MaxInFlight \in Nat \ {0} /\ MayFail \in BOOLEAN

VARIABLES
  stack,        \* "none", "exists" or "deleted"
  rows,         \* the rows of its revisions, in the order of their ids
  history,      \* the Helm revisions of each application: what each is made of
  envVersion,   \* the latest version of the environment group, 0 if there is none
  linked,       \* the applications whose release row names a resource of the stack
  pc, kind,     \* of each request: where its handler is, and what it does
  seen,         \* a number it has read: of the latest revision, a release or a group version
  mine,         \* the revision it has read, and then the one it appends and saves
  row,          \* the row it has appended
  todo,         \* the applications, and perhaps Group, it still has to deal with
  failed,       \* whether it has met an error
  copy,         \* the rows a rename has read
  happened      \* what has disturbed the stack so far (a history variable)

cluster  == <<history, envVersion>>
handlers == <<seen, mine, row, todo, failed, copy>>
vars == <<stack, rows, history, envVersion, linked, pc, kind, seen, mine, row, todo,
          failed, copy, happened>>

Content == Change \cup {NoContent}
Status == {"deploying", "deployed", "failed"}

\* A revision. Its number, its status, the Helm revision of each application (0 for one
\* that it does not have) and the version of the group (0 for none); and for the
\* properties what each application ran when it was saved as deployed and, for a
\* rollback, the row it was copied from.
Revision == [number : Nat, status : Status, apps : [App -> Nat], env : Nat,
             ran : [App -> Content], from : Nat]

Blank == [number |-> 0, status |-> "deploying", apps |-> [a \in App |-> 0], env |-> 0,
          ran |-> [a \in App |-> NoContent], from |-> 0]

Init ==
  /\ stack = "none" /\ rows = << >>
  /\ history = [a \in App |-> << >>] /\ envVersion = 0 /\ linked = {}
  /\ pc = [c \in Change |-> "new"] /\ kind = [c \in Change |-> "none"]
  /\ seen = [c \in Change |-> 0] /\ mine = [c \in Change |-> Blank]
  /\ row = [c \in Change |-> 0] /\ todo = [c \in Change |-> {}]
  /\ failed = [c \in Change |-> FALSE] /\ copy = [c \in Change |-> << >>]
  /\ happened = {}

Numbers == {rows[i].number : i \in DOMAIN rows}

\* stack.Revisions[0]: the revisions are read in descending order of their numbers.
IsLatest(n) == n \in Numbers /\ \A m \in Numbers : m <= n

\* ReadStackRevisionByNumber: of several rows with a number, the one with the least id.
IsRowOf(i, n) ==
  rows[i].number = n /\ \A j \in DOMAIN rows : rows[j].number = n => i <= j

Installed == {a \in App : history[a] # << >>}
Running == [a \in App |-> IF a \in Installed THEN history[a][Len(history[a])] ELSE NoContent]
AppsOf(rev) == {a \in App : rev.apps[a] # 0}

InFlight == {c \in Change : pc[c] \notin {"new", "ended"}}

\* A request is made. What disturbs the stack is noted.
Begins(c, disturbance) ==
  /\ pc[c] = "new"
  /\ Cardinality(InFlight) < MaxInFlight
  /\ happened' = happened \cup disturbance \cup (IF InFlight = {} THEN {} ELSE {"overlap"})

Note(disturbance) == happened' = happened \cup disturbance

At(c, place) == pc' = [pc EXCEPT ![c] = place]

-----------------------------------------------------------------------------
(* Faulty variants of definitions below, no part of the system: each is    *)
(* what a plausible mistake would make of one, put in its place to see     *)
(* that a property fails.                                                  *)

\* A new revision is numbered by how many there are and by the one it was copied from.
AppendsCountedTwice(c, k, rev, work) ==
  /\ stack = "exists"
  /\ rows' = Append(rows, [rev EXCEPT !.number = @ + Len(rows)])
  /\ mine' = [mine EXCEPT ![c] = [rev EXCEPT !.number = @ + Len(rows)]]
  /\ row' = [row EXCEPT ![c] = Len(rows) + 1]
  /\ kind' = [kind EXCEPT ![c] = k]
  /\ todo' = [todo EXCEPT ![c] = work]
  /\ At(c, "working")
  /\ UNCHANGED <<stack, cluster, linked, seen, failed, copy, happened>>

\* A source update leaves the Helm revisions as they were.
UpdateTagUncounted(c, a) ==
  /\ pc[c] = "working" /\ kind[c] = "source" /\ a \in todo[c]
  /\ todo' = [todo EXCEPT ![c] = @ \ {a}]
  /\ history' = IF a \in Installed THEN [history EXCEPT ![a] = Append(@, c)] ELSE history
  /\ failed' = [failed EXCEPT ![c] = @ \/ a \notin Installed]
  /\ UNCHANGED <<stack, rows, envVersion, linked, pc, kind, seen, mine, row, copy, happened>>

\* The outcome is saved in the latest row.
SaveInLatestRow(c) ==
  /\ pc[c] = "working" /\ kind[c] \notin {"delete", "group"} /\ todo[c] = {}
  /\ LET status == IF failed[c] THEN "failed" ELSE "deployed" IN
       rows' = [rows EXCEPT ![Len(rows)] = [mine[c] EXCEPT !.status = status, !.ran = Running]]
  /\ At(c, IF kind[c] \in {"create", "add"} THEN "linking" ELSE "ended")
  /\ UNCHANGED <<stack, cluster, linked, kind, handlers, happened>>

\* The outcome is saved only when it is a success.
SaveSuccessOnly(c) ==
  /\ pc[c] = "working" /\ kind[c] \notin {"delete", "group"} /\ todo[c] = {}
  /\ rows' = IF failed[c] THEN rows
             ELSE [rows EXCEPT ![row[c]] = [mine[c] EXCEPT !.status = "deployed", !.ran = Running]]
  /\ At(c, IF kind[c] \in {"create", "add"} THEN "linking" ELSE "ended")
  /\ UNCHANGED <<stack, cluster, linked, kind, handlers, happened>>

\* Deleting the stack leaves its environment group.
DeleteApplicationsOnly(c) ==
  /\ pc[c] = "arrived" /\ "delete" \in Operation /\ stack = "exists"
  /\ \E i \in DOMAIN rows : IsRowOf(i, seen[c]) /\ mine' = [mine EXCEPT ![c] = rows[i]]
  /\ kind' = [kind EXCEPT ![c] = "delete"]
  /\ todo' = [todo EXCEPT ![c] = AppsOf(mine'[c])]
  /\ At(c, "working")
  /\ UNCHANGED <<stack, rows, cluster, linked, seen, row, failed, copy, happened>>

\* The hook of a release copies the Helm revisions as they are.
HelmHookCopies(c) == mine[c].apps

-----------------------------------------------------------------------------
(* A new stack, and the two reads every handler of the stack begins with.  *)

\* StackCreateHandler up to CreateStack: the stack and its first revision.
CreateStack(c) ==
  /\ "create" \in Operation /\ stack = "none"
  /\ Begins(c, {})
  /\ \E apps \in SUBSET App, env \in 0..1 :
       LET first == [Blank EXCEPT !.number = 1, !.env = env,
                                  !.apps = [a \in App |-> IF a \in apps THEN 1 ELSE 0]]
       IN /\ rows' = Append(rows, first)
          /\ mine' = [mine EXCEPT ![c] = first]
          /\ todo' = [todo EXCEPT ![c] = apps \cup (IF env = 1 THEN {Group} ELSE {})]
  /\ stack' = "exists"
  /\ row' = [row EXCEPT ![c] = Len(rows) + 1]
  /\ kind' = [kind EXCEPT ![c] = "create"]
  /\ At(c, "working")
  /\ UNCHANGED <<cluster, linked, seen, failed, copy>>

\* The middleware reads the stack.
LoadStack(c) ==
  /\ stack = "exists"
  /\ Begins(c, {})
  /\ \E n \in Numbers : IsLatest(n) /\ seen' = [seen EXCEPT ![c] = n]
  /\ At(c, "arrived")
  /\ UNCHANGED <<stack, rows, cluster, linked, kind, mine, row, todo, failed, copy>>

\* The handler reads the revision with the number of the latest one.
ReadLatest(c) ==
  /\ pc[c] = "arrived"
  /\ \E i \in DOMAIN rows : IsRowOf(i, seen[c]) /\ mine' = [mine EXCEPT ![c] = rows[i]]
  /\ At(c, "read")
  /\ UNCHANGED <<stack, rows, cluster, linked, kind, seen, row, todo, failed, copy, happened>>

\* A rollback reads its target instead, and of the latest one only the number.
ReadTarget(c) ==
  /\ pc[c] = "arrived" /\ "rollback" \in Operation
  /\ \E n \in Numbers, i \in DOMAIN rows :
       /\ IsRowOf(i, n)
       /\ mine' = [mine EXCEPT ![c] = [rows[i] EXCEPT !.number = seen[c], !.from = i]]
  /\ kind' = [kind EXCEPT ![c] = "rollback"]
  /\ At(c, "read")
  /\ Note({"rollback"})
  /\ UNCHANGED <<stack, rows, cluster, linked, seen, row, todo, failed, copy>>

-----------------------------------------------------------------------------
(* The handlers of the stack: the revision each of them appends.           *)

\* AppendNewRevision: no constraint keeps two rows from having a number.
Appends(c, k, rev, work) ==
  /\ stack = "exists"
  /\ rows' = Append(rows, [rev EXCEPT !.number = @ + 1])
  /\ mine' = [mine EXCEPT ![c] = [rev EXCEPT !.number = @ + 1]]
  /\ row' = [row EXCEPT ![c] = Len(rows) + 1]
  /\ kind' = [kind EXCEPT ![c] = k]
  /\ todo' = [todo EXCEPT ![c] = work]
  /\ At(c, "working")
  /\ UNCHANGED <<stack, cluster, linked, seen, failed, copy, happened>>

\* What was copied from another row says nothing yet of what this revision runs.
Copied(c, status) == [mine[c] EXCEPT !.status = status,
                                     !.from = IF kind[c] = "rollback" THEN @ ELSE 0,
                                     !.ran = [a \in App |-> NoContent]]

\* Whether c may be a request of kind k: it has read the latest revision.
Requests(c, k) == pc[c] = "read" /\ kind[c] = "none" /\ k \in Operation

\* An application the revision has already is refused.
AddApplication(c) ==
  /\ Requests(c, "add")
  /\ \E a \in App \ AppsOf(mine[c]) :
       Appends(c, "add", [Copied(c, "deploying") EXCEPT !.apps[a] = 1], {a})

RemoveApplication(c) ==
  /\ Requests(c, "remove")
  /\ \E a \in App : Appends(c, "remove", [Copied(c, "deploying") EXCEPT !.apps[a] = 0], {a})

PutSourceConfig(c) ==
  /\ Requests(c, "source")
  /\ Appends(c, "source", Copied(c, "deploying"), AppsOf(mine[c]))

RollbackStack(c) ==
  /\ pc[c] = "read" /\ kind[c] = "rollback"
  /\ Appends(c, "rollback", Copied(c, "deploying"), AppsOf(mine[c]))

\* The version of a new group is taken to be the first one.
AddEnvGroup(c) ==
  /\ Requests(c, "addGroup") /\ mine[c].env = 0
  /\ Appends(c, "addGroup", [Copied(c, "deployed") EXCEPT !.env = 1], {Group})

RemoveEnvGroup(c) ==
  /\ Requests(c, "removeGroup") /\ mine[c].env # 0
  /\ Appends(c, "removeGroup", [Copied(c, "deploying") EXCEPT !.env = 0], {Group})

\* StackDeleteHandler appends nothing: it uninstalls what the latest revision lists.
DeleteResources(c) ==
  /\ pc[c] = "arrived" /\ "delete" \in Operation /\ stack = "exists"
  /\ \E i \in DOMAIN rows : IsRowOf(i, seen[c]) /\ mine' = [mine EXCEPT ![c] = rows[i]]
  /\ kind' = [kind EXCEPT ![c] = "delete"]
  /\ todo' = [todo EXCEPT ![c] = AppsOf(mine'[c]) \cup (IF mine'[c].env = 0 THEN {} ELSE {Group})]
  /\ At(c, "working")
  /\ UNCHANGED <<stack, rows, cluster, linked, seen, row, failed, copy, happened>>

\* AppendNewRevision, ReadStackByID: a deleted stack is not found.
StackGone(c) ==
  /\ stack = "deleted"
  /\ \/ pc[c] \in {"read", "arrived", "upgraded"}
     \/ pc[c] = "working" /\ kind[c] = "add"
  /\ At(c, "ended")
  /\ UNCHANGED <<stack, rows, cluster, linked, kind, handlers, happened>>

-----------------------------------------------------------------------------
(* Their work in the cluster.                                              *)

\* What c has to do next is a; the error it may meet is added up with others.
Works(c, kinds, a) ==
  /\ pc[c] = "working" /\ kind[c] \in kinds /\ a \in todo[c]
  /\ todo' = [todo EXCEPT ![c] = @ \ {a}]

Errs(c, condition) == failed' = [failed EXCEPT ![c] = @ \/ condition]

\* applyAppResource: Helm does not install a release that exists.
Install(c, a) ==
  /\ Works(c, {"create", "add"}, a)
  /\ Group \notin todo[c]
  /\ history' = IF a \in Installed THEN history ELSE [history EXCEPT ![a] = <<c>>]
  /\ Errs(c, a \in Installed)
  /\ UNCHANGED <<stack, rows, envVersion, linked, pc, kind, seen, mine, row, copy, happened>>

\* deleteAppResource: the history goes with the release.
Uninstall(c, a) ==
  /\ Works(c, {"remove", "delete"}, a)
  /\ history' = [history EXCEPT ![a] = << >>]
  /\ Errs(c, a \notin Installed)
  /\ Note({"remove"})
  /\ UNCHANGED <<stack, rows, envVersion, linked, pc, kind, seen, mine, row, copy>>

\* updateAppResourceTag: the Helm revision is counted, not read back.
UpdateTag(c, a) ==
  /\ Works(c, {"source"}, a)
  /\ history' = IF a \in Installed THEN [history EXCEPT ![a] = Append(@, c)] ELSE history
  /\ mine' = [mine EXCEPT ![c].apps[a] = @ + 1]
  /\ Errs(c, a \notin Installed)
  /\ UNCHANGED <<stack, rows, envVersion, linked, pc, kind, seen, row, copy, happened>>

\* rollbackAppResource: Helm makes a new revision of what an older one is made of.
RollbackApp(c, a) ==
  /\ Works(c, {"rollback"}, a)
  /\ LET version == mine[c].apps[a]
         exists == version \in DOMAIN history[a]
     IN /\ history' = IF exists THEN [history EXCEPT ![a] = Append(@, history[a][version])]
                      ELSE history
        /\ Errs(c, ~exists)
  /\ UNCHANGED <<stack, rows, envVersion, linked, pc, kind, seen, mine, row, copy, happened>>

\* CreateEnvGroup adds a version to a group that exists.
ApplyGroup(c) ==
  /\ Works(c, {"create", "addGroup"}, Group)
  /\ envVersion' = envVersion + 1
  /\ UNCHANGED <<stack, rows, history, linked, pc, kind, seen, mine, row, failed, copy, happened>>

\* DeleteEnvGroup; a delete uninstalls the applications first.
DeleteGroup(c) ==
  /\ Works(c, {"removeGroup", "delete"}, Group)
  /\ todo[c] = {Group}
  /\ envVersion' = 0
  /\ UNCHANGED <<stack, rows, history, linked, pc, kind, seen, mine, row, failed, copy, happened>>

\* A call of Helm returns an error, which may have made a failed revision.
HelmFails(c, a) ==
  /\ MayFail
  /\ Works(c, Operations, a)
  /\ kind[c] = "create" => Group \notin todo[c]
  /\ \/ UNCHANGED history
     \/ /\ kind[c] \in {"source", "rollback", "group"} /\ a \in Installed
        /\ history' = [history EXCEPT ![a] = Append(@, c)]
     \/ /\ kind[c] \in {"create", "add"} /\ a \notin Installed
        /\ history' = [history EXCEPT ![a] = <<c>>]
  /\ mine' = IF kind[c] = "source" THEN [mine EXCEPT ![c].apps[a] = @ + 1] ELSE mine
  /\ Errs(c, TRUE)
  /\ Note({"failure"})
  /\ UNCHANGED <<stack, rows, envVersion, linked, pc, kind, seen, row, copy>>

\* One for the group does. Without its group a new stack gets no applications.
GroupFails(c) ==
  /\ MayFail
  /\ pc[c] = "working" /\ Group \in todo[c]
  /\ kind[c] = "delete" => todo[c] = {Group}
  /\ todo' = [todo EXCEPT ![c] = {}]
  /\ Errs(c, TRUE)
  /\ Note({"failure"})
  /\ UNCHANGED <<stack, rows, cluster, linked, pc, kind, seen, mine, row, copy>>

\* UpdateStackRevision: the outcome, and the resources as counted, in the row of c.
Save(c) ==
  /\ pc[c] = "working" /\ kind[c] \notin {"delete", "group"} /\ todo[c] = {}
  /\ LET status == IF failed[c] THEN "failed" ELSE "deployed" IN
       rows' = [rows EXCEPT ![row[c]] = [mine[c] EXCEPT !.status = status, !.ran = Running]]
  /\ At(c, IF kind[c] \in {"create", "add"} THEN "linking" ELSE "ended")
  /\ UNCHANGED <<stack, cluster, linked, kind, handlers, happened>>

\* CreateAppReleaseFromHelmRelease for each application that c has installed.
LinkReleases(c) ==
  /\ pc[c] = "linking"
  /\ linked' = linked \cup {a \in AppsOf(mine[c]) : c \in {history[a][i] : i \in DOMAIN history[a]}}
  /\ At(c, "ended")
  /\ UNCHANGED <<stack, rows, cluster, kind, handlers, happened>>

DropStack(c) ==
  /\ pc[c] = "working" /\ kind[c] = "delete" /\ todo[c] = {}
  /\ stack' = "deleted"
  /\ At(c, "ended")
  /\ UNCHANGED <<rows, cluster, linked, kind, handlers, happened>>

-----------------------------------------------------------------------------
(* Changes of a release or of the group, and the hooks they end with.      *)

\* UpgradeReleaseHandler: the hook is told the version that Helm has given.
UpgradeRelease(c) ==
  /\ "upgrade" \in Operation
  /\ Begins(c, {})
  /\ \E a \in Installed :
       /\ history' = [history EXCEPT ![a] = Append(@, c)]
       /\ seen' = [seen EXCEPT ![c] = Len(history[a]) + 1]
       /\ todo' = [todo EXCEPT ![c] = {a}]
       /\ At(c, IF a \in linked THEN "upgraded" ELSE "ended")
  /\ kind' = [kind EXCEPT ![c] = "upgrade"]
  /\ UNCHANGED <<stack, rows, envVersion, linked, mine, row, failed, copy>>

\* CreateEnvGroupHandler: a new version of the group, which is then rolled out.
UpdateGroup(c) ==
  /\ "group" \in Operation /\ envVersion > 0
  /\ Begins(c, {})
  /\ envVersion' = envVersion + 1
  /\ seen' = [seen EXCEPT ![c] = envVersion + 1]
  /\ todo' = [todo EXCEPT ![c] = Linked \cap Installed]
  /\ kind' = [kind EXCEPT ![c] = "group"]
  /\ At(c, "working")
  /\ UNCHANGED <<stack, rows, history, linked, mine, row, failed, copy>>

\* rolloutApplications upgrades the linked applications.
RolloutApp(c, a) ==
  /\ Works(c, {"group"}, a)
  /\ history' = IF a \in Installed THEN [history EXCEPT ![a] = Append(@, c)] ELSE history
  /\ Errs(c, a \notin Installed)
  /\ UNCHANGED <<stack, rows, envVersion, linked, pc, kind, seen, mine, row, copy, happened>>

\* The hook is left out when an upgrade failed, or when no revision has had the group.
RolledOut(c) ==
  /\ pc[c] = "working" /\ kind[c] = "group" /\ todo[c] = {}
  /\ At(c, IF ~failed[c] /\ \E i \in DOMAIN rows : rows[i].env # 0 THEN "upgraded" ELSE "ended")
  /\ UNCHANGED <<stack, rows, cluster, linked, kind, handlers, happened>>

\* ReadStackByID: of several latest revisions the database returns any one.
HookReads(c) ==
  /\ pc[c] = "upgraded" /\ stack = "exists"
  /\ \E i \in DOMAIN rows : IsLatest(rows[i].number) /\ mine' = [mine EXCEPT ![c] = rows[i]]
  /\ At(c, "hook")
  /\ UNCHANGED <<stack, rows, cluster, linked, kind, seen, row, todo, failed, copy, happened>>

\* UpdateHelmRevision: the Helm revision of the application that was upgraded.
HelmHookApps(c) ==
  [a \in App |-> IF a \in todo[c] /\ mine[c].apps[a] # 0 THEN seen[c] ELSE mine[c].apps[a]]

\* UpdateEnvGroupVersion: one more for each application that is linked to the group ...
GroupHookApps(c) ==
  [a \in App |-> IF a \in Linked /\ mine[c].apps[a] # 0 THEN mine[c].apps[a] + 1
                 ELSE mine[c].apps[a]]

\* ... and the version of the group, if the latest revision has it.
GroupHookVersion(c) == IF mine[c].env # 0 THEN seen[c] ELSE 0

\* The hook appends a copy of what it has read.
HookAppends(c, apps, env) ==
  /\ pc[c] = "hook"
  /\ rows' = IF stack = "exists"
             THEN Append(rows, [mine[c] EXCEPT !.number = @ + 1, !.status = "deployed", !.env = env,
                                               !.apps = apps, !.ran = Running, !.from = 0])
             ELSE rows
  /\ At(c, "ended")
  /\ UNCHANGED <<stack, cluster, linked, kind, handlers, happened>>

HelmHookAppends(c) == kind[c] = "upgrade" /\ HookAppends(c, HelmHookApps(c), mine[c].env)
GroupHookAppends(c) == kind[c] = "group" /\ HookAppends(c, GroupHookApps(c), GroupHookVersion(c))

-----------------------------------------------------------------------------
(* Renaming the stack, and errors.                                         *)

\* StackUpdateStackHandler reads the stack with its revisions ...
RenameReads(c) ==
  /\ pc[c] = "arrived" /\ "rename" \in Operation /\ stack = "exists"
  /\ copy' = [copy EXCEPT ![c] = rows]
  /\ kind' = [kind EXCEPT ![c] = "rename"]
  /\ At(c, "renaming")
  /\ Note({"rename"})
  /\ UNCHANGED <<stack, rows, cluster, linked, seen, mine, row, todo, failed>>

\* ... and saves all of it: FullSaveAssociations writes the revisions as they were read.
RenameSaves(c) ==
  /\ pc[c] = "renaming"
  /\ rows' = [i \in DOMAIN rows |-> IF i \in DOMAIN copy[c] THEN copy[c][i] ELSE rows[i]]
  /\ At(c, "ended")
  /\ UNCHANGED <<stack, cluster, linked, kind, handlers, happened>>

\* A database call, or one for an agent, returns an error, and so does the handler.
HandlerFails(c) ==
  /\ MayFail /\ c \in InFlight
  /\ At(c, "ended")
  /\ Note({"failure"})
  /\ UNCHANGED <<stack, rows, cluster, linked, kind, handlers>>

Next ==
  \E c \in Change :
    \/ CreateStack(c) \/ LoadStack(c) \/ ReadLatest(c) \/ ReadTarget(c)
    \/ AddApplication(c) \/ RemoveApplication(c) \/ PutSourceConfig(c) \/ RollbackStack(c)
    \/ AddEnvGroup(c) \/ RemoveEnvGroup(c) \/ DeleteResources(c) \/ StackGone(c)
    \/ ApplyGroup(c) \/ DeleteGroup(c) \/ Save(c) \/ LinkReleases(c) \/ DropStack(c)
    \/ UpgradeRelease(c) \/ UpdateGroup(c) \/ RolledOut(c) \/ HookReads(c)
    \/ HelmHookAppends(c) \/ GroupHookAppends(c)
    \/ RenameReads(c) \/ RenameSaves(c) \/ GroupFails(c) \/ HandlerFails(c)
    \/ \E a \in App : \/ Install(c, a) \/ Uninstall(c, a) \/ UpdateTag(c, a)
                      \/ RollbackApp(c, a) \/ RolloutApp(c, a) \/ HelmFails(c, a)

Spec == Init /\ [][Next]_vars

-----------------------------------------------------------------------------
(* Properties.                                                             *)

Place == {"new", "arrived", "read", "working", "linking", "upgraded", "hook", "renaming", "ended"}
Disturbance == {"overlap", "rollback", "failure", "rename", "remove"}

\* Every variable has its type.
TypeOK ==
  /\ stack \in {"none", "exists", "deleted"}
  /\ rows \in Seq(Revision)
  /\ history \in [App -> Seq(Change)] /\ envVersion \in Nat /\ linked \subseteq App
  /\ pc \in [Change -> Place] /\ kind \in [Change -> Operations \cup {"none"}]
  /\ seen \in [Change -> Nat] /\ mine \in [Change -> Revision] /\ row \in [Change -> Nat]
  /\ todo \in [Change -> SUBSET (App \cup {Group})] /\ failed \in [Change -> BOOLEAN]
  /\ copy \in [Change -> Seq(Revision)]
  /\ happened \subseteq Disturbance

\* Every revision but the first continues one that was appended before it, whatever
\* overlaps or fails: there is no gap in the numbers (reading the latest revision,
\* AppendNewRevision).
NumbersWithoutGap ==
  \A i \in DOMAIN rows :
    rows[i].number = 1 \/ \E j \in 1..(i - 1) : rows[j].number = rows[i].number - 1

\* As long as no two requests overlap, the numbers are those in the order of the rows, so
\* that a rollback to a number means one revision (ReadStackRevisionByNumber).
NumbersUnique == "overlap" \notin happened => \A i \in DOMAIN rows : rows[i].number = i

\* A revision is never dropped, renumbered, or given or deprived of an application, also
\* not by requests that overlap: whoever saves one saves what it has appended or read
\* (UpdateStackRevision, UpdateStack).
RevisionsStay ==
  [][\A i \in DOMAIN rows :
       /\ i \in DOMAIN rows'
       /\ rows'[i].number = rows[i].number
       /\ \A a \in App : rows'[i].apps[a] = 0 <=> rows[i].apps[a] = 0]_vars

Quiet == InFlight = {}

\* When nothing is under way, the latest revision lists the applications that are
\* installed, each with its current Helm revision, and the current version of the group:
\* the counting of Helm revisions in update_source_put.go and hooks.go is right as long as
\* there is no overlap, no rollback and no error.
LatestIsWhatRuns ==
  Quiet /\ stack = "exists" /\ happened \cap {"overlap", "rollback", "failure"} = {} =>
    \A i \in DOMAIN rows : IsLatest(rows[i].number) =>
      /\ \A a \in App : rows[i].apps[a] = Len(history[a])
      /\ rows[i].env = envVersion

\* The Helm revisions that a deployed revision lists are made of what ran when it was
\* deployed, so that a rollback to it brings that back. A removed application starts its
\* Helm history again, so that those before it are left out.
RecordsWhatRan ==
  happened \cap {"overlap", "rollback", "failure", "remove"} = {} =>
    \A i \in DOMAIN rows : \A a \in AppsOf(rows[i]) :
      rows[i].status = "deployed" /\ rows[i].ran[a] # NoContent =>
        /\ rows[i].apps[a] <= Len(history[a])
        /\ history[a][rows[i].apps[a]] = rows[i].ran[a]

\* A rollback that is saved as deployed runs what its target ran.
Restored(i) ==
  \A a \in AppsOf(rows[i]) : rows[i].ran[a] = rows[rows[i].from].ran[a]

\* rollback.go, of a rollback that was a success: "The stack was rolled back to version %d".
RollbackRestores ==
  happened \cap {"overlap", "failure", "remove"} = {} =>
    \A i \in DOMAIN rows : rows[i].from # 0 /\ rows[i].status = "deployed" => Restored(i)

\* A revision is "deploying" only as long as its handler runs, even if handlers overlap:
\* each saves the outcome in the row it has appended. An error that ends a handler, and a
\* rename, which saves revisions as it read them, are what leaves one so.
DeployingIsUnderWay ==
  stack = "exists" /\ happened \cap {"failure", "rename"} = {} =>
    \A i \in DOMAIN rows : rows[i].status = "deploying" =>
      \E c \in Change : row[c] = i /\ pc[c] = "working"

\* Nothing of a deleted stack stays in the cluster: the latest revision lists all of it.
\* After a rollback it may not: an application that the target did not have keeps running.
DeletedLeavesNothing ==
  stack = "deleted" /\ happened \cap {"overlap", "rollback", "failure"} = {} =>
    Installed = {} /\ envVersion = 0
=============================================================================
