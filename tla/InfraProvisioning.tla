-------------------------- MODULE InfraProvisioning --------------------------
(***************************************************************************)
(* One infrastructure and the operations on it: the infra handlers of the  *)
(* API server, the apply and destroy handlers of the provisioner service,  *)
(* the Kubernetes job each of them spawns, and the handlers that job calls *)
(* back when it has run terraform.                                         *)
(*                                                                         *)
(* A request r makes at most one operation, so that r also names that      *)
(* operation, its job and its callback:                                    *)
(*                                                                         *)
(*   handler[r]     where the API handler of r is, and from "added" on the *)
(*                  provisioner handler it is waiting for                  *)
(*   operation[r]   the Status column of the operation of r                *)
(*   job[r]         where its job is: in terraform, or in one of the steps *)
(*                  of the callback handler that it is waiting for         *)
(*                                                                         *)
(* Every database or stream write is a step of its own, since none of the  *)
(* handlers runs in a transaction. Of the infra row only Status is kept:   *)
(* all the handlers set it before they save the row, whatever they read.   *)
(***************************************************************************)
EXTENDS Integers, Sequences, FiniteSets

CONSTANTS
  Request,     \* the requests that clients make of this infra
  Resource,    \* what the infra is: a cluster, a database or a registry
  Hazard       \* what the environment may do, of the members of Hazards

Hazards ==
  { "overlap",     \* a request is made while another one is being handled
    "impatient",   \* a request is made while the job of another is not over
    "slowSave",    \* a job reports before the handler that spawned it has saved the infra
    "failure",     \* a database, stream, Kubernetes or HTTP call returns an error
    "podDeath" }   \* a pod is killed before it reports or before it exits

ASSUME ResourceAssumption == Resource \in {"cluster", "database", "registry"}
ASSUME HazardAssumption == Hazard \subseteq Hazards

CreateKind == {"create", "retry_create", "update"}     \* terraform apply
DeleteKind == {"delete", "retry_delete"}               \* terraform destroy
Kind == CreateKind \cup DeleteKind

HandlerState == {"idle", "checking", "marking", "calling", "added", "announced",
                 "spawned", "answered"}
OperationState == {"none", "starting", "completed", "errored"}
JobState == {"none", "terraform", "saveOperation", "pushOperation", "pushGlobal",
             "saveInfra", "find", "write", "saveAgain", "reported", "exited", "failed"}
InfraStatus == {"none", "creating", "updating", "destroying", "deleting",
                "created", "deleted", "errored"}

BackoffLimit == 1    \* of the job: a failed pod is replaced once

VARIABLES
  handler, kind,       \* of each request
  infraStatus,         \* infra.Status, "none" before there is a row
  operations,          \* the operations of the infra, in the order of their ids
  operation,           \* the Status of each
  job, attempt, succeeded,   \* of each job; the pods it has had; what terraform did
  found,               \* the resource row a callback handler has read, 0 if none
  rows, nextRow,       \* the cluster, database or registry rows of this infra
  operationStream,     \* the status messages on the stream of each operation
  globalStream         \* the messages on the global stream

vars == <<handler, kind, infraStatus, operations, operation, job, attempt,
          succeeded, found, rows, nextRow, operationStream, globalStream>>

requestVars  == <<handler, kind>>
jobVars      == <<job, attempt, succeeded, found>>
rowVars      == <<rows, nextRow>>
streamVars   == <<operationStream, globalStream>>

Init ==
  /\ handler = [r \in Request |-> "idle"]
  /\ kind = [r \in Request |-> "create"]
  /\ infraStatus = "none"
  /\ operations = << >>
  /\ operation = [r \in Request |-> "none"]
  /\ job = [r \in Request |-> "none"]
  /\ attempt = [r \in Request |-> 0]
  /\ succeeded = [r \in Request |-> FALSE]
  /\ found = [r \in Request |-> 0]
  /\ rows = {}
  /\ nextRow = 1
  /\ operationStream = [r \in Request |-> << >>]
  /\ globalStream = << >>

\* GetLatestOperation: the operation with the greatest id.
Latest == operations[Len(operations)]

HandlerOver(r) == handler[r] \in {"idle", "answered"}
JobOver(r) == job[r] \in {"none", "exited"} \/ (job[r] = "failed" /\ attempt[r] > BackoffLimit)

\* Whether the environment lets a client make a request now.
MayRequest ==
  /\ "overlap" \in Hazard \/ \A r \in Request : HandlerOver(r)
  /\ "impatient" \in Hazard \/ \A r \in Request : JobOver(r)

-----------------------------------------------------------------------------
(* Faulty variants of definitions below, no part of the system: each is    *)
(* what a plausible mistake would make of one, put in its place to see     *)
(* that a property fails.                                                  *)

\* The status of the latest operation is not looked at.
AcceptedUnchecked(r) == operations # << >>

\* A job that has ended is always taken to have created something.
StatusWhenOverCreated(r) == IF ~succeeded[r] THEN "errored" ELSE "created"

\* report_error saves the infra and forgets the operation.
SaveInfraOnly(r) ==
  /\ job[r] = "saveInfra"
  /\ infraStatus' = IF ~succeeded[r] THEN "errored"
                    ELSE IF kind[r] \in CreateKind THEN "created" ELSE "deleted"
  /\ job' = [job EXCEPT ![r] = IF succeeded[r] THEN "find" ELSE "pushOperation"]
  /\ UNCHANGED <<requestVars, operations, operation, attempt, succeeded, found,
                 rowVars, streamVars>>

\* report_error does not tell the global stream.
PushOperationOnly(r) ==
  /\ job[r] = "pushOperation"
  /\ operationStream' = [operationStream EXCEPT ![r] = Append(@, "OPERATION_COMPLETED")]
  /\ job' = [job EXCEPT ![r] = IF succeeded[r] THEN "pushGlobal" ELSE "reported"]
  /\ UNCHANGED <<requestVars, infraStatus, operations, operation, attempt, succeeded,
                 found, rowVars, globalStream>>

\* delete_resource leaves the row of the resource in place.
WriteRowKeeps(r) ==
  /\ job[r] = "write"
  /\ rows' = IF kind[r] \in CreateKind /\ found[r] = 0 THEN rows \cup {nextRow} ELSE rows
  /\ nextRow' = nextRow + 1
  /\ job' = [job EXCEPT ![r] = "reported"]
  /\ UNCHANGED <<requestVars, infraStatus, operations, operation, attempt, succeeded,
                 found, streamVars>>

-----------------------------------------------------------------------------
(* The API server.                                                         *)

\* POST infras: the row is created with status "creating", apply is called.
CreateInfra(r) ==
  /\ MayRequest
  /\ handler[r] = "idle"
  /\ infraStatus = "none"
  /\ infraStatus' = "creating"
  /\ handler' = [handler EXCEPT ![r] = "calling"]
  /\ kind' = [kind EXCEPT ![r] = "create"]
  /\ UNCHANGED <<operations, operation, jobVars, rowVars, streamVars>>

\* An update, retry_create, delete or retry_delete request of an existing infra.
Receive(r, k) ==
  /\ MayRequest
  /\ handler[r] = "idle"
  /\ infraStatus # "none"
  /\ k # "create"
  /\ handler' = [handler EXCEPT ![r] = "checking"]
  /\ kind' = [kind EXCEPT ![r] = k]
  /\ UNCHANGED <<infraStatus, operations, operation, jobVars, rowVars, streamVars>>

Accepted(r) == operations # << >> /\ operation[Latest] # "starting"

\* The latest operation is read; the request is refused when there is none or
\* when it is "starting".
CheckLatest(r) ==
  /\ handler[r] = "checking"
  /\ handler' = [handler EXCEPT ![r] =
                   IF ~Accepted(r) THEN "answered"
                   ELSE IF kind[r] = "delete" THEN "marking" ELSE "calling"]
  /\ UNCHANGED <<kind, infraStatus, operations, operation, jobVars, rowVars, streamVars>>

\* Only the delete handler saves the infra before it calls the provisioner.
MarkDestroying(r) ==
  /\ handler[r] = "marking"
  /\ infraStatus' = "destroying"
  /\ handler' = [handler EXCEPT ![r] = "calling"]
  /\ UNCHANGED <<kind, operations, operation, jobVars, rowVars, streamVars>>

-----------------------------------------------------------------------------
(* The apply and destroy handlers of the provisioner.                      *)

AddOperation(r) ==
  /\ handler[r] = "calling"
  /\ operations' = Append(operations, r)
  /\ operation' = [operation EXCEPT ![r] = "starting"]
  /\ handler' = [handler EXCEPT ![r] = IF kind[r] \in CreateKind THEN "added" ELSE "announced"]
  /\ UNCHANGED <<kind, infraStatus, jobVars, rowVars, streamVars>>

\* Only apply pushes a first message to the stream of the operation.
PushStarted(r) ==
  /\ handler[r] = "added"
  /\ operationStream' = [operationStream EXCEPT ![r] = Append(@, "OPERATION_STARTED")]
  /\ handler' = [handler EXCEPT ![r] = "announced"]
  /\ UNCHANGED <<kind, infraStatus, operations, operation, jobVars, rowVars, globalStream>>

\* Provision creates the Kubernetes job.
Spawn(r) ==
  /\ handler[r] = "announced"
  /\ job' = [job EXCEPT ![r] = "terraform"]
  /\ attempt' = [attempt EXCEPT ![r] = 1]
  /\ handler' = [handler EXCEPT ![r] = "spawned"]
  /\ UNCHANGED <<kind, infraStatus, operations, operation, succeeded, found, rowVars, streamVars>>

StatusWhileRunning(k) ==
  CASE k \in {"create", "retry_create"} -> "creating"
    [] k = "update" -> "updating"
    [] k \in DeleteKind -> "deleting"

\* The infra is saved after the job was created; both servers answer.
SaveStatus(r) ==
  /\ handler[r] = "spawned"
  /\ infraStatus' = StatusWhileRunning(kind[r])
  /\ handler' = [handler EXCEPT ![r] = "answered"]
  /\ UNCHANGED <<kind, operations, operation, jobVars, rowVars, streamVars>>

\* The next call of a handler fails: it answers 500 and undoes nothing. That the
\* provisioner restarts has the same effect.
HandlerFails(r) ==
  /\ "failure" \in Hazard
  /\ ~HandlerOver(r)
  /\ handler' = [handler EXCEPT ![r] = "answered"]
  /\ UNCHANGED <<kind, infraStatus, operations, operation, jobVars, rowVars, streamVars>>

-----------------------------------------------------------------------------
(* The job and the callback handlers create_resource, delete_resource and  *)
(* report_error. The pod waits for the answer to its one callback.         *)

Goto(r, step) == job' = [job EXCEPT ![r] = step]

\* Terraform ends and the pod reports: what it did, or an error.
Report(r, ok) ==
  /\ job[r] = "terraform"
  /\ "slowSave" \in Hazard \/ handler[r] # "spawned"
  /\ succeeded' = [succeeded EXCEPT ![r] = ok]
  /\ Goto(r, IF ok THEN "saveOperation" ELSE "saveInfra")
  /\ UNCHANGED <<requestVars, infraStatus, operations, operation, attempt, found,
                 rowVars, streamVars>>

SaveOperation(r) ==
  /\ job[r] = "saveOperation"
  /\ operation' = [operation EXCEPT ![r] = IF succeeded[r] THEN "completed" ELSE "errored"]
  /\ Goto(r, "pushOperation")
  /\ UNCHANGED <<requestVars, infraStatus, operations, attempt, succeeded, found,
                 rowVars, streamVars>>

\* SendOperationCompleted
PushOperation(r) ==
  /\ job[r] = "pushOperation"
  /\ operationStream' = [operationStream EXCEPT ![r] = Append(@, "OPERATION_COMPLETED")]
  /\ Goto(r, "pushGlobal")
  /\ UNCHANGED <<requestVars, infraStatus, operations, operation, attempt, succeeded,
                 found, rowVars, globalStream>>

GlobalStatus(r) ==
  IF ~succeeded[r] THEN "error" ELSE IF kind[r] \in CreateKind THEN "created" ELSE "destroyed"

\* PushToGlobalStream, the last step of report_error.
PushGlobal(r) ==
  /\ job[r] = "pushGlobal"
  /\ globalStream' = Append(globalStream, [operation |-> r, status |-> GlobalStatus(r)])
  /\ Goto(r, IF succeeded[r] THEN "saveInfra" ELSE "reported")
  /\ UNCHANGED <<requestVars, infraStatus, operations, operation, attempt, succeeded,
                 found, rowVars, operationStream>>

StatusWhenOver(r) ==
  IF ~succeeded[r] THEN "errored" ELSE IF kind[r] \in CreateKind THEN "created" ELSE "deleted"

\* The first step of report_error, the fourth of the other two.
SaveInfra(r) ==
  /\ job[r] = "saveInfra"
  /\ infraStatus' = StatusWhenOver(r)
  /\ Goto(r, IF succeeded[r] THEN "find" ELSE "saveOperation")
  /\ UNCHANGED <<requestVars, operations, operation, attempt, succeeded, found,
                 rowVars, streamVars>>

\* Whether a row is looked for before one is created.
LooksUpRow(r) == kind[r] \in DeleteKind \/ Resource # "registry"

\* Read...ByInfraID returns the first row of the infra. A resource that is to be
\* deleted and does not exist is an error: the handler answers 500, the pod fails.
FindRow(r) ==
  /\ job[r] = "find"
  /\ \/ /\ LooksUpRow(r)
        /\ \E i \in rows : (\A k \in rows : i <= k) /\ found' = [found EXCEPT ![r] = i]
        /\ Goto(r, "write")
     \/ /\ ~LooksUpRow(r) \/ rows = {}
        /\ found' = [found EXCEPT ![r] = 0]
        /\ Goto(r, IF kind[r] \in DeleteKind THEN "failed" ELSE "write")
  /\ UNCHANGED <<requestVars, infraStatus, operations, operation, attempt, succeeded,
                 rowVars, streamVars>>

\* The row is deleted, updated or, if none was found, created. A database is then
\* referred to from the infra, which is saved once more.
WriteRow(r) ==
  /\ job[r] = "write"
  /\ rows' = IF kind[r] \in DeleteKind THEN rows \ {found[r]}
             ELSE IF found[r] = 0 THEN rows \cup {nextRow} ELSE rows \cup {found[r]}
  /\ nextRow' = IF kind[r] \in CreateKind /\ found[r] = 0 THEN nextRow + 1 ELSE nextRow
  /\ Goto(r, IF kind[r] \in CreateKind /\ Resource = "database" THEN "saveAgain" ELSE "reported")
  /\ UNCHANGED <<requestVars, infraStatus, operations, operation, attempt, succeeded,
                 found, streamVars>>

SaveInfraAgain(r) ==
  /\ job[r] = "saveAgain"
  /\ infraStatus' = StatusWhenOver(r)
  /\ Goto(r, "reported")
  /\ UNCHANGED <<requestVars, operations, operation, attempt, succeeded, found,
                 rowVars, streamVars>>

Reporting(r) == job[r] \in {"saveOperation", "pushOperation", "pushGlobal", "saveInfra",
                            "find", "write", "saveAgain"}

\* The next call of a callback handler fails: it answers 500 and the pod fails.
ReportFails(r) ==
  /\ "failure" \in Hazard
  /\ Reporting(r)
  /\ Goto(r, "failed")
  /\ UNCHANGED <<requestVars, infraStatus, operations, operation, attempt, succeeded,
                 found, rowVars, streamVars>>

PodExits(r) ==
  /\ job[r] = "reported"
  /\ Goto(r, "exited")
  /\ UNCHANGED <<requestVars, infraStatus, operations, operation, attempt, succeeded,
                 found, rowVars, streamVars>>

\* The pod is evicted or killed, or its token has expired so that it is not heard.
PodDies(r) ==
  /\ "podDeath" \in Hazard
  /\ job[r] \in {"terraform", "reported"}
  /\ Goto(r, "failed")
  /\ UNCHANGED <<requestVars, infraStatus, operations, operation, attempt, succeeded,
                 found, rowVars, streamVars>>

\* The job controller replaces a failed pod: the same operation is run again.
RestartPod(r) ==
  /\ job[r] = "failed"
  /\ attempt[r] <= BackoffLimit
  /\ attempt' = [attempt EXCEPT ![r] = @ + 1]
  /\ Goto(r, "terraform")
  /\ UNCHANGED <<requestVars, infraStatus, operations, operation, succeeded, found,
                 rowVars, streamVars>>

\* Nothing is left to do but new requests.
Settled == \A r \in Request : HandlerOver(r) /\ JobOver(r)

Rest == Settled /\ UNCHANGED vars

HandlerStep(r) ==
  \/ CheckLatest(r) \/ MarkDestroying(r) \/ AddOperation(r) \/ PushStarted(r)
  \/ Spawn(r) \/ SaveStatus(r)

JobStep(r) ==
  \/ SaveOperation(r) \/ PushOperation(r) \/ PushGlobal(r) \/ SaveInfra(r)
  \/ FindRow(r) \/ WriteRow(r) \/ SaveInfraAgain(r) \/ PodExits(r) \/ RestartPod(r)

Next ==
  \/ \E r \in Request :
       \/ CreateInfra(r)
       \/ \E k \in Kind : Receive(r, k)
       \/ HandlerStep(r) \/ HandlerFails(r)
       \/ \E ok \in BOOLEAN : Report(r, ok)
       \/ JobStep(r) \/ ReportFails(r) \/ PodDies(r)
  \/ Rest

Spec == Init /\ [][Next]_vars

\* A handler that has started goes on to its end, terraform ends, and the job
\* controller does its work. No fairness on requests, failures and deaths.
Fairness ==
  \A r \in Request : /\ WF_vars(HandlerStep(r))
                     /\ WF_vars(\E ok \in BOOLEAN : Report(r, ok))
                     /\ WF_vars(JobStep(r))

FairSpec == Spec /\ Fairness
-----------------------------------------------------------------------------
(* Properties.                                                             *)

TypeOK ==
  /\ handler \in [Request -> HandlerState]
  /\ kind \in [Request -> Kind]
  /\ infraStatus \in InfraStatus
  /\ operations \in Seq(Request)
  /\ operation \in [Request -> OperationState]
  /\ job \in [Request -> JobState]
  /\ attempt \in [Request -> 0..BackoffLimit + 1]
  /\ succeeded \in [Request -> BOOLEAN]
  /\ found \in [Request -> Nat]
  /\ rows \subseteq Nat
  /\ nextRow \in Nat
  /\ operationStream \in [Request -> Seq({"OPERATION_STARTED", "OPERATION_COMPLETED"})]
  /\ globalStream \in Seq([operation : Request, status : {"created", "destroyed", "error"}])

\* update.go, retry_create.go, delete.go, retry_delete.go: "if the last operation
\* is in a "starting" state, block apply". No two operations are in that state,
\* and it is only ever the latest one that is.
OneOperationInProgress ==
  \A i \in 1..Len(operations) : operation[operations[i]] = "starting" => i = Len(operations)

\* An operation that has ended is never "starting" again, whatever pods are replaced
\* and whatever handlers write late.
OperationsStayOver ==
  [][\A r \in Request : operation[r] \in {"completed", "errored"} =>
                          operation'[r] \in {"completed", "errored"}]_vars

\* The global stream, from which state and logs are cleaned up, hears of an operation
\* only after its row says that it has ended: get_logs then reads the stored logs.
CleanedUpOnlyWhenOver ==
  \A i \in 1..Len(globalStream) : operation[globalStream[i].operation] \in {"completed", "errored"}

\* The program counters of a request, of its operation and of its job agree.
StepsInOrder ==
  /\ \A r \in Request : handler[r] \in {"idle", "checking", "marking", "calling"} => operation[r] = "none"
  /\ \A r \in Request : handler[r] \in {"added", "announced", "spawned"} => operation[r] # "none"
  /\ \A r \in Request : job[r] # "none" => operation[r] # "none"
  /\ \A r \in Request : job[r] \in {"pushOperation", "pushGlobal"} =>
                         operation[r] \in {"completed", "errored"}
  /\ \A r \in Request : handler[r] # "idle" => infraStatus # "none"
  /\ infraStatus = "none" => operations = << >>

\* The inductive invariant, whatever the hazards.
InfraInvariant == TypeOK /\ StepsInOrder /\ CleanedUpOnlyWhenOver

\* Its strengthening when requests do not overlap: one handler at a time, and while
\* it is on its way to add an operation the latest one is not "starting".
OneAtATime ==
  /\ \A r, q \in Request : (~HandlerOver(r) /\ ~HandlerOver(q)) => r = q
  /\ \A r \in Request : handler[r] \in {"marking", "calling"} =>
        \A i \in 1..Len(operations) : operation[operations[i]] # "starting"
  /\ \A r \in Request : operation[r] # "none" => \E i \in 1..Len(operations) : operations[i] = r
  /\ \A i \in 1..Len(operations) : operation[operations[i]] # "none"
  /\ OneOperationInProgress

\* When nothing is going on and the latest operation has ended, the status of the
\* infra is the one that the end of that operation calls for.
InfraShowsLatestOperation ==
  (Settled /\ operations # << >> /\ operation[Latest] # "starting") =>
    infraStatus = IF operation[Latest] = "errored" THEN "errored"
                  ELSE IF kind[Latest] \in CreateKind THEN "created" ELSE "deleted"

\* When nothing is going on and the infra is "deleted", its cluster, database or
\* registry is no longer listed; when it is "created", it is, and only once:
\* create_resource.go, "if the cluster already exists, update the cluster but don't
\* add it again". (A registry is added again by every update.)
RowsFollowStatus ==
  Settled => /\ infraStatus = "deleted" => rows = {}
             /\ infraStatus = "created" =>
                  rows # {} /\ (Resource = "registry" \/ Cardinality(rows) = 1)

\* The refusal goes on "Please try again when latest operation has completed": an
\* operation that is "starting" does end.
OperationsEnd ==
  \A r \in Request : operation[r] = "starting" ~> operation[r] # "starting"

\* An operation that has ended is announced on the global stream, without which its
\* state and logs are never stored nor its streams removed.
EndsAreAnnounced ==
  \A r \in Request : operation[r] \in {"completed", "errored"} ~>
                       \E i \in 1..Len(globalStream) : globalStream[i].operation = r
=============================================================================
