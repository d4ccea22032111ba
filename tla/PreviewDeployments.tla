------------------------- MODULE PreviewDeployments -------------------------
(***************************************************************************)
(* The preview environment of one pull request: its deployment rows and    *)
(* its namespace, the webhook that follows the pull request                *)
(* (api/server/handlers/webhook), the handlers of the dashboard            *)
(* (api/server/handlers/environment), and the workflow runs whose          *)
(* "porter apply" calls other handlers back (cli/cmd/apply.go).            *)
(*                                                                         *)
(* A handler is admitted in one step, which is where it reads the row and  *)
(* checks it and the pull request, and then does the steps of its plan one *)
(* after the other. It saves the row it has read as a whole. A run does    *)
(* one handler at a time; GitHub has one run of a pull request in progress *)
(* and at most one waiting (the concurrency group of the workflow file).   *)
(***************************************************************************)
EXTENDS Integers, Sequences, FiniteSets

CONSTANTS
  Call,         \* webhook deliveries and requests of the dashboard
  Run,          \* workflow runs
  Operation,    \* what the calls may be, of Operations
  NoRun,        \* the commit of a row that no run has given one
  MaxInFlight,  \* bound: the calls and the run under way at a time
  MayFail       \* whether a call to the database, the cluster or GitHub may fail

Events == {"opened", "synchronize", "closed", "edited"}
Requests == {"enable", "reenable", "trigger", "delete", "deleteEnvironment"}
Operations == Events \cup Requests

ASSUME OperationAssumption == Operation \subseteq Operations
ASSUME RunAssumption == NoRun \notin Run /\ Call \cap Run = {}
ASSUME BoundAssumption == MaxInFlight \in Nat \ {0} /\ MayFail \in BOOLEAN

VARIABLES
  open,        \* whether the pull request is open
  due,         \* which of "opened" and "closed" GitHub has yet to deliver
  env,         \* whether there is an environment of the repository
  rows,        \* its deployments of this pull request, by id
  namespace,   \* whether the namespace is there
  op,          \* of each call, and of the latest handler of each run: what it is
  plan,        \* the steps it still has to do
  mine,        \* the row as it has read it
  stage,       \* of each run: what it does next
  torn,        \* the pull request was closed, and torn down undisturbed (history)
  happened     \* what has disturbed the handlers so far (history)

vars == <<open, due, env, rows, namespace, op, plan, mine, stage, torn, happened>>

Process == Call \cup Run
Status == {"creating", "created", "updating", "inactive", "failed"}
Commit == Run \cup {NoRun}
Row == [status : Status, commit : Commit]
NoRow == [id |-> 0, status |-> "creating", commit |-> NoRun]

\* What a handler does once it is admitted.
Plan ==
  [ opened            |-> <<"insert", "makeNamespace", "dispatch">>,
    enable            |-> <<"dispatch", "insert", "makeNamespace">>,
    reenable          |-> <<"saveCreating", "makeNamespace", "dispatch">>,
    trigger           |-> <<"dispatch", "saveUpdating">>,
    synchronize       |-> <<"dispatch">>,
    edited            |-> <<"saveEdited">>,
    closed            |-> <<"cancel", "dropNamespace", "saveInactive">>,
    delete            |-> <<"dropNamespace", "saveInactive">>,
    deleteEnvironment |-> <<"dropNamespace", "dropEnvironment">>,
    create            |-> <<"insert", "makeNamespace">>,
    update            |-> <<"saveCommit">>,
    finalize          |-> <<"saveCreated", "comment">>,
    errors            |-> <<"saveFailed", "comment">>,
    status            |-> <<"saveFailed">> ]

-----------------------------------------------------------------------------
(* Faulty variants of Saved, no part of the system: each is what a         *)
(* plausible mistake would make of it, put in its place to see that a      *)
(* property fails. There are more of them below.                           *)

\* The commit of a run is not saved.
SavedStatusOnly(p, step) ==
  LET row == [status |-> mine[p].status, commit |-> mine[p].commit] IN
    CASE step = "saveCreating" -> [row EXCEPT !.status = "creating"]
      [] step = "saveUpdating" -> [row EXCEPT !.status = "updating"]
      [] step = "saveInactive" -> [row EXCEPT !.status = "inactive"]
      [] step = "saveCreated"  -> [row EXCEPT !.status = "created"]
      [] step = "saveFailed"   -> [row EXCEPT !.status = "failed"]
      [] OTHER -> row

-----------------------------------------------------------------------------

\* What each saving step makes of the row as it was read.
Saved(p, step) ==
  LET row == [status |-> mine[p].status, commit |-> mine[p].commit] IN
    CASE step = "saveCreating" -> [row EXCEPT !.status = "creating"]
      [] step = "saveUpdating" -> [row EXCEPT !.status = "updating"]
      [] step = "saveInactive" -> [row EXCEPT !.status = "inactive"]
      [] step = "saveCreated"  -> [row EXCEPT !.status = "created"]
      [] step = "saveFailed"   -> [row EXCEPT !.status = "failed"]
      [] step = "saveCommit"   -> [row EXCEPT !.commit = p]
      [] OTHER -> row

Savings == {"saveCreating", "saveUpdating", "saveInactive", "saveCreated", "saveFailed",
            "saveCommit", "saveEdited"}

InFlight == {c \in Call : plan[c] # << >>}
InProgress == {r \in Run : stage[r] \notin {"none", "queued", "ended"} \/ plan[r] # << >>}
MoreFit == Cardinality(InFlight \cup InProgress) < MaxInFlight
Queued == {r \in Run : stage[r] = "queued"}

\* The stages in which a run is about to call a handler.
InApply == {"create", "update", "finalize", "errors", "status"}

Init ==
  /\ open = TRUE /\ env = TRUE /\ rows = << >> /\ namespace = FALSE
  /\ due \in {{}, {"opened"}}     \* the event counts only in an environment of mode "auto"
  /\ op = [p \in Process |-> "none"] /\ plan = [p \in Process |-> << >>]
  /\ mine = [p \in Process |-> NoRow]
  /\ stage = [r \in Run |-> "none"]
  /\ torn = FALSE /\ happened = {}

rowsAndCluster == <<env, rows, namespace>>

\* ReadDeploymentByGitDetails, ReadDeployment: the oldest row of a pull request, the latest
\* row of a namespace.
Oldest == 1
Latest == Len(rows)

\* What an operation may disturb another one by.
KindOf(o) ==
  CASE o \in {"opened", "enable"} -> "creation"
    [] o \in {"delete", "closed", "deleteEnvironment"} -> "deletion"
    [] o \in {"reenable", "trigger", "edited"} -> "save"
    [] OTHER -> "other"

\* What begins notes whatever is under way, what makes a row that there is one already, and a
\* run that its deployment is inactive.
Notes(what) ==
  happened' = happened \cup
    (LET others == {KindOf(op[c]) : c \in InFlight} \cup (IF InProgress = {} THEN {} ELSE {"other"})
     IN IF others = {} THEN {} ELSE {KindOf(what)} \cup others)
    \cup (IF what \in {"opened", "enable"} /\ rows # << >> THEN {"again"} ELSE {})
    \cup (IF what = "run" /\ rows # << >> /\ rows[Latest].status = "inactive" THEN {"late"} ELSE {})

\* The handler is over, with its local variables.
Over(p) ==
  /\ plan' = [plan EXCEPT ![p] = << >>]
  /\ mine' = [mine EXCEPT ![p] = NoRow]
  /\ op' = [op EXCEPT ![p] = "ended"]

\* p does its next step.
Does(p, step) ==
  /\ plan[p] # << >> /\ Head(plan[p]) = step
  /\ IF Len(plan[p]) = 1 THEN Over(p)
     ELSE /\ plan' = [plan EXCEPT ![p] = Tail(@)]
          /\ mine' = [mine EXCEPT ![p].status = Saved(p, step).status, ![p].commit = Saved(p, step).commit]
          /\ UNCHANGED op

ReadRow(i) == [id |-> i, status |-> rows[i].status, commit |-> rows[i].commit]

-----------------------------------------------------------------------------
(* GitHub.                                                                 *)

github == <<open, due, torn>>
processes == <<op, plan, mine, stage>>

Close ==
  /\ open /\ open' = FALSE /\ due' = due \cup {"closed"}
  /\ UNCHANGED <<torn, rowsAndCluster, processes, happened>>

\* The webhook has nothing to do for "reopened".
Reopen ==
  /\ ~open /\ open' = TRUE /\ torn' = FALSE
  /\ UNCHANGED <<due, rowsAndCluster, processes, happened>>

\* One run of the pull request at a time.
StartRun(r) ==
  /\ stage[r] = "queued" /\ InProgress = {} /\ MoreFit
  /\ stage' = [stage EXCEPT ![r] = "get"]
  /\ Notes("run")
  /\ UNCHANGED <<github, rowsAndCluster, op, plan, mine>>

\* A run is cancelled, by the webhook or by a user, or dies; a handler that it has called
\* goes on.
StopRun(r) ==
  /\ r \in InProgress /\ plan[r] = << >>
  /\ stage' = [stage EXCEPT ![r] = "ended"]
  /\ UNCHANGED <<github, rowsAndCluster, op, plan, mine, happened>>

-----------------------------------------------------------------------------
(* The calls, as they are admitted or refused.                             *)

Begins(c, o) == op[c] = "none" /\ o \in Operation /\ MoreFit

GoesOn(r, next) ==
  /\ stage' = [stage EXCEPT ![r] = next]
  /\ UNCHANGED <<github, rowsAndCluster, op, plan, mine, happened>>

At(r, s) == stage[r] = s /\ plan[r] = << >>

\* A handler of p is admitted with the row i, 0 for none, and has the steps to do.
Starts(p, o, i, steps) ==
  /\ op' = [op EXCEPT ![p] = o]
  /\ plan' = [plan EXCEPT ![p] = steps]
  /\ mine' = [mine EXCEPT ![p] = IF i = 0 THEN NoRow ELSE ReadRow(i)]

-----------------------------------------------------------------------------
(* Faulty variants of definitions below.                                   *)

\* A deployment is reenabled without its namespace.
AdmitNoNamespace(c, o, i) ==
  /\ Starts(c, o, i, IF o = "reenable" THEN <<"saveCreating", "dispatch">> ELSE Plan[o])
  /\ UNCHANGED <<open, torn, rowsAndCluster, stage>>

\* The namespace of a deployment is made before its row.
CallsNamespaceFirst(r, o, next) ==
  /\ Starts(r, o, IF o = "create" THEN 0 ELSE Latest,
            IF o = "create" THEN <<"makeNamespace", "insert">> ELSE Plan[o])
  /\ stage' = [stage EXCEPT ![r] = next]
  /\ UNCHANGED <<github, rowsAndCluster, happened>>

-----------------------------------------------------------------------------
(* The calls, as they are admitted or refused.                             *)

Admit(c, o, i) == Starts(c, o, i, Plan[o]) /\ UNCHANGED <<open, torn, rowsAndCluster, stage>>

-----------------------------------------------------------------------------
(* Faulty variants of the two calls that follow them.                      *)

\* A deployment is reenabled whether or not its pull request is open.
ReenableClosed(c, i) ==
  /\ Begins(c, "reenable") /\ env /\ rows[i].status = "inactive"
  /\ Admit(c, "reenable", i) /\ Notes("reenable") /\ UNCHANGED due

\* A run is triggered for an inactive deployment.
TriggerInactive(c, i) ==
  /\ Begins(c, "trigger") /\ env /\ open
  /\ InProgress \cup Queued = {} /\ \E r \in Run : stage[r] # "none"
  /\ Admit(c, "trigger", i) /\ Notes("trigger") /\ UNCHANGED due

-----------------------------------------------------------------------------

\* processPullRequestEvent acts on "opened", and on the other events of a deployment that is
\* not inactive; the rest it drops.
Concerns(e) == env /\ (e = "opened" \/ (rows # << >> /\ rows[Oldest].status # "inactive"))

Webhook(c, e) ==
  /\ Begins(c, e) /\ (e \in {"opened", "closed"} => e \in due) /\ due' = due \ {e}
  /\ \/ Concerns(e) /\ Admit(c, e, IF e = "opened" THEN 0 ELSE Oldest) /\ Notes(e)
     \/ /\ ~Concerns(e) /\ op' = [op EXCEPT ![c] = "ended"]
        /\ UNCHANGED <<open, torn, rowsAndCluster, plan, mine, stage, happened>>

Enable(c) ==
  /\ Begins(c, "enable") /\ env /\ open
  /\ Admit(c, "enable", 0) /\ Notes("enable") /\ UNCHANGED due

Reenable(c, i) ==
  /\ Begins(c, "reenable") /\ env /\ open /\ rows[i].status = "inactive"
  /\ Admit(c, "reenable", i) /\ Notes("reenable") /\ UNCHANGED due

\* There have been runs, and none is under way.
Trigger(c, i) ==
  /\ Begins(c, "trigger") /\ env /\ open /\ rows[i].status # "inactive"
  /\ InProgress \cup Queued = {} /\ \E r \in Run : stage[r] # "none"
  /\ Admit(c, "trigger", i) /\ Notes("trigger") /\ UNCHANGED due

Delete(c, i) ==
  /\ Begins(c, "delete")
  /\ Admit(c, "delete", i) /\ Notes("delete") /\ UNCHANGED due

DeleteEnvironment(c) ==
  /\ Begins(c, "deleteEnvironment") /\ env
  /\ Admit(c, "deleteEnvironment", 0) /\ Notes("deleteEnvironment") /\ UNCHANGED due

-----------------------------------------------------------------------------
(* "porter apply" in a run, and the handlers that it calls (DeploymentHook). *)

\* The run calls a handler, which is admitted with the latest row, and goes on to the stage.
Calls(r, o, next) ==
  /\ Starts(r, o, IF o = "create" THEN 0 ELSE Latest, Plan[o])
  /\ stage' = [stage EXCEPT ![r] = next]
  /\ UNCHANGED <<github, rowsAndCluster, happened>>

\* PreApply: there is a deployment of the namespace, or one has to be created.
GetDeployment(r) == At(r, "get") /\ GoesOn(r, IF env /\ rows # << >> THEN "update" ELSE "create")

\* What the handler that a run is about to call asks for: all of them that there is an
\* environment, all but finalize_deployment.go that the pull request is open, and
\* update_deployment_status.go that the deployment is not inactive. OnConsolidatedErrors and
\* OnError look for the deployment first.
Admits(r) ==
  /\ env
  /\ stage[r] # "finalize" => open
  /\ stage[r] \in {"errors", "status"} => rows # << >>
  /\ stage[r] = "status" => rows[Latest].status # "inactive"

CreateDeployment(r) == At(r, "create") /\ Admits(r) /\ Calls(r, "create", "apply")
UpdateDeployment(r) == At(r, "update") /\ Admits(r) /\ Calls(r, "update", "apply")

\* The resources are applied; in a namespace that is not there that is an error.
Apply(r) ==
  /\ At(r, "apply")
  /\ \/ namespace /\ GoesOn(r, "finalize")
     \/ \E next \in {"errors", "status"} : GoesOn(r, next)

\* PostApply, OnConsolidatedErrors, OnError.
FinalizeDeployment(r) == At(r, "finalize") /\ Admits(r) /\ Calls(r, "finalize", "ended")
FinalizeWithErrors(r) == At(r, "errors") /\ Admits(r) /\ Calls(r, "errors", "ended")
UpdateStatus(r) == At(r, "status") /\ Admits(r) /\ Calls(r, "status", "ended")

\* After an error the hook's OnError reports the status, or the run just ends.
AfterError(r) == IF stage[r] \in {"errors", "status"} \/ op[r] \in {"errors", "status"}
                 THEN {"ended"} ELSE {"status", "ended"}

Refused(r) ==
  /\ stage[r] \in InApply /\ plan[r] = << >> /\ ~Admits(r)
  /\ \E next \in AfterError(r) : GoesOn(r, next)

-----------------------------------------------------------------------------
(* The steps of the handlers.                                              *)

\* CreateDeployment of the repository.
Insert(p) ==
  /\ Does(p, "insert")
  /\ rows' = Append(rows, [status |-> "creating", commit |-> IF p \in Run THEN p ELSE NoRun])
  /\ UNCHANGED <<github, env, namespace, stage, happened>>

MakeNamespace(p) ==
  /\ Does(p, "makeNamespace")
  /\ namespace' = TRUE
  /\ UNCHANGED <<github, env, rows, stage, happened>>

\* The environment's namespaces are those of its deployments.
DropNamespace(c) ==
  /\ Does(c, "dropNamespace")
  /\ namespace' = (namespace /\ op[c] = "deleteEnvironment" /\ rows = << >>)
  /\ UNCHANGED <<github, env, rows, stage, happened>>

\* UpdateDeployment of the repository. The row of a deployment that is deleted is saved only
\* if its environment is still there.
Save(p, step) ==
  /\ Does(p, step) /\ (op[p] = "delete" => env)
  /\ rows' = [rows EXCEPT ![mine[p].id] = Saved(p, step)]
  /\ torn' = (torn \/ (/\ op[p] = "closed" /\ ~open
                       /\ {"deletion", "again"} \cap happened = {} /\ Len(rows) = 1))
  /\ UNCHANGED <<open, due, env, namespace, stage, happened>>

\* A run waiting is replaced by the one dispatched.
Dispatch(c) ==
  /\ Does(c, "dispatch")
  /\ \E r \in Run :
       /\ stage[r] = "none"
       /\ stage' = [s \in Run |-> IF s = r THEN "queued" ELSE IF s \in Queued THEN "ended" ELSE stage[s]]
  /\ UNCHANGED <<github, rowsAndCluster, happened>>

\* The runs waiting are cancelled, and those in progress are asked to stop (see StopRun).
Cancel(c) ==
  /\ Does(c, "cancel")
  /\ stage' = [r \in Run |-> IF r \in Queued THEN "ended" ELSE stage[r]]
  /\ UNCHANGED <<github, rowsAndCluster, happened>>

\* createOrUpdateComment: the row is saved once more with the id of a new comment.
Comment(r) ==
  /\ Does(r, "comment") /\ (op[r] = "finalize" => open)
  /\ \/ rows' = [rows EXCEPT ![mine[r].id] = Saved(r, "comment")]
     \/ UNCHANGED rows
  /\ UNCHANGED <<github, env, namespace, stage, happened>>

DropEnvironment(c) ==
  /\ Does(c, "dropEnvironment")
  /\ env' = FALSE
  /\ UNCHANGED <<github, rows, namespace, stage, happened>>

-----------------------------------------------------------------------------
(* Calls that fail.                                                        *)

Fails == MayFail /\ happened' = happened \cup {"failure"}

CallFails(c) ==
  /\ c \in InFlight /\ Fails
  /\ Over(c)
  /\ UNCHANGED <<github, rowsAndCluster, stage>>

\* Errors that the handler does not return: of a namespace when the environment is deleted,
\* of a cancellation, and of the status that is saved with the errors of a run.
Passes(p) ==
  /\ Fails
  /\ \/ op[p] = "deleteEnvironment" /\ Does(p, "dropNamespace")
     \/ Does(p, "cancel")
     \/ op[p] = "errors" /\ Does(p, "saveFailed")
  /\ UNCHANGED <<github, rowsAndCluster, stage>>

RunFails(r) ==
  /\ r \in InProgress /\ (plan[r] # << >> \/ stage[r] \in InApply) /\ Fails
  /\ Over(r)
  /\ \E next \in AfterError(r) : stage' = [stage EXCEPT ![r] = next]
  /\ UNCHANGED <<github, rowsAndCluster>>

\* The handler stops half way: the environment has gone, or the pull request was closed.
Stops(p) ==
  /\ plan[p] # << >>
  /\ \/ op[p] = "delete" /\ Head(plan[p]) = "saveInactive" /\ ~env
     \/ op[p] = "finalize" /\ Head(plan[p]) = "comment" /\ ~open
  /\ Over(p)
  /\ \/ UNCHANGED stage
     \/ p \in Run /\ stage' = [stage EXCEPT ![p] = "status"]
  /\ UNCHANGED <<github, rowsAndCluster, happened>>

Next ==
  \/ Close \/ Reopen
  \/ \E c \in Call :
       \/ \E e \in Events : Webhook(c, e)
       \/ Enable(c) \/ DeleteEnvironment(c) \/ DropNamespace(c) \/ Dispatch(c) \/ Cancel(c)
       \/ DropEnvironment(c) \/ CallFails(c)
       \/ \E i \in DOMAIN rows : Reenable(c, i) \/ Trigger(c, i) \/ Delete(c, i)
  \/ \E r \in Run :
       \/ StartRun(r) \/ StopRun(r) \/ GetDeployment(r) \/ CreateDeployment(r)
       \/ UpdateDeployment(r) \/ Apply(r) \/ FinalizeDeployment(r) \/ FinalizeWithErrors(r)
       \/ UpdateStatus(r) \/ Refused(r) \/ Comment(r) \/ RunFails(r)
  \/ \E p \in Process :
       \/ Insert(p) \/ MakeNamespace(p) \/ Passes(p) \/ Stops(p)
       \/ \E step \in Savings : Save(p, step)

Spec == Init /\ [][Next]_vars

-----------------------------------------------------------------------------
(* Properties.                                                             *)

Quiet == InFlight \cup InProgress = {}
Active == {i \in DOMAIN rows : rows[i].status # "inactive"}
Disturbed(kinds) == kinds \cap happened # {}

\* Every variable has its type; no plan holds steps of two handlers.
TypeOK ==
  /\ open \in BOOLEAN /\ due \subseteq {"opened", "closed"} /\ env \in BOOLEAN
  /\ rows \in Seq(Row) /\ namespace \in BOOLEAN
  /\ op \in [Process -> {"none", "ended"} \cup DOMAIN Plan]
  /\ \A p \in Process : plan[p] # << >> =>
       \E n \in 1..3 : plan[p] = SubSeq(Plan[op[p]], n, Len(Plan[op[p]]))
  /\ mine \in [Process -> [id : 0..Len(rows), status : Status, commit : Commit]]
  /\ stage \in [Run -> {"none", "queued", "get", "apply", "ended"} \cup InApply]
  /\ torn \in BOOLEAN /\ happened \subseteq {"creation", "deletion", "save", "other", "again", "late", "failure"}

\* Once a pull request was closed and its deployment deleted, with nothing else under way,
\* nothing brings the deployment or its namespace back until the pull request is reopened:
\* every handler that would looks at the pull request or the row first.
ClosedStaysTornDown == torn /\ ~Disturbed({"again"}) => Active = {} /\ ~namespace

\* A namespace always has an active deployment through which it can be deleted, whichever call
\* fails: the row comes before the namespace, and goes after it.
NamespaceIsOwned ==
  namespace /\ env /\ ~Disturbed({"deletion", "save"}) => Active # {}

\* When nothing is under way, and no call has failed or overlapped with a deletion, the
\* deployment is active exactly as long as there is its namespace.
ActiveHasNamespace ==
  Quiet /\ env /\ Len(rows) = 1 /\ ~Disturbed({"deletion", "late", "failure"}) =>
    (Active # {} <=> namespace)

\* The commit that the comment says "has been successfully deployed" is that of the run.
CommentNamesCommit ==
  ~Disturbed({"creation", "deletion", "save"}) =>
    \A r \in Run : op[r] = "finalize" /\ plan[r] = <<"comment">> => mine[r].commit = r

Revived == {i \in DOMAIN rows : rows[i].status = "inactive" /\ rows'[i].status # "inactive"}

\* An inactive deployment only becomes active by way of "creating", unless a run that was
\* dispatched before it became inactive finalizes it, or something overlaps.
OnlyReenableRevives == [][\A i \in Revived : rows'[i].status = "creating" \/ happened # {}]_vars
=============================================================================
