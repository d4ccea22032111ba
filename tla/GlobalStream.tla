---------------------------- MODULE GlobalStream ----------------------------
(***************************************************************************)
(* What becomes of the state and log streams of the operations on an       *)
(* infrastructure: the pods that push to them through StoreLog, the        *)
(* messages on the global stream that tell of their ends, and the one      *)
(* GlobalStreamListener that moves their contents to storage and removes   *)
(* them. The steps of an operation outside of the streams are those of     *)
(* InfraProvisioning.                                                      *)
(*                                                                         *)
(* A Redis stream is what was pushed to it less what was removed. Entries  *)
(* are only ever removed all at once, by the deletion of the key, so that  *)
(* the stream k of operation o holds the entries removed[k][o] + 1 to      *)
(* Len(pushed[k][o]), under ids in this order.                             *)
(***************************************************************************)
EXTENDS Integers, Sequences, FiniteSets

CONSTANTS
  LastOperation,   \* operations are numbered from 1 in the order they are made
  Resource,        \* the terraform resources of the infra
  Kept,            \* the statuses that an update may give a resource, but "deleted"
  ReadCount,       \* the Count of an XRead
  MaxLines,        \* bound: the lines a pod logs
  MaxFaults,       \* bound: the crashes, failing calls and replaced pods
  Hazard           \* what the environment may do, of the members of Hazards

Hazards ==
  { "fault",      \* the provisioner restarts, or a call of the listener fails
    "restart" }   \* a pod is replaced, after its report even

ASSUME OperationAssumption == LastOperation \in Nat
ASSUME CountAssumption == ReadCount \in Nat \ {0} /\ MaxLines \in Nat /\ MaxFaults \in Nat
ASSUME ResourceAssumption == "none" \notin Resource /\ {"absent", "none"} \cap Kept = {}
ASSUME HazardAssumption == Hazard \subseteq Hazards

Operation == 1..LastOperation
Stream == {"state", "logs"}
Status == Kept \cup {"deleted"}
State == [Resource -> Kept \cup {"absent"}]
Update == [resource : Resource, status : Status]
\* OPERATION_STARTED or OPERATION_COMPLETED, and every log line: says nothing of a resource.
Mark == [resource |-> "none", status |-> "none"]

PodState == {"none", "running", "pushing", "saved", "told", "announced"}
ListenerStep == {"idle", "load", "length", "read", "write", "delete", "dead"}

VARIABLES
  pod, pods,       \* of each operation: what its pod is at, how many it has had
  pushed, removed, \* of the streams of each operation, see above
  globalStream,    \* the operations whose messages the group has not been given
  batch,           \* the listener: the messages it has been given and not done with
  step, doing,     \* what it does next, to which stream of the first of them
  length, processed, lastID,   \* the local variables of the reading loop
  draft, lines,    \* the new state and the buffer of log lines
  currentState,    \* current_state.json: the status of each resource
  logsFile,        \* the lines in the logs file of each operation
  faults           \* the crashes, failing calls and replaced pods so far

podVars == <<pod, pods>>
cursor == <<length, processed, lastID, draft, lines>>
storage == <<currentState, logsFile>>
listener == <<batch, step, doing, cursor>>

vars == <<podVars, pushed, removed, globalStream, listener, storage, faults>>

Init ==
  /\ pod = [o \in Operation |-> "none"]
  /\ pods = [o \in Operation |-> 0]
  /\ pushed = [k \in Stream |-> [o \in Operation |-> << >>]]
  /\ removed = [k \in Stream |-> [o \in Operation |-> 0]]
  /\ globalStream = << >>
  /\ batch = << >>
  /\ step = "idle" /\ doing = "state"
  /\ length = 0 /\ processed = 0 /\ lastID = 0
  /\ draft = [r \in Resource |-> "absent"]
  /\ lines = {}
  /\ currentState = [r \in Resource |-> "absent"]
  /\ logsFile = [o \in Operation |-> {}]
  /\ faults = 0

XLen(k, o) == Len(pushed[k][o]) - removed[k][o]
Push(k, o, e) == pushed' = [pushed EXCEPT ![k][o] = Append(@, e)]

-----------------------------------------------------------------------------
(* Faulty variants of definitions below, no part of the system: each is    *)
(* what a plausible mistake would make of one, put in its place to see     *)
(* that a property fails.                                                  *)

\* The listener deals with the first of the messages it is given only.
XReadGroupFirst ==
  /\ step = "idle"
  /\ globalStream # << >>
  /\ batch' = <<Head(globalStream)>>
  /\ globalStream' = << >>
  /\ step' = "load" /\ doing' = "state"
  /\ UNCHANGED <<podVars, pushed, removed, cursor, storage, faults>>

\* The new state is made from nothing.
LoadNothing ==
  /\ step = "load"
  /\ draft' = [r \in Resource |-> "absent"]
  /\ step' = "length"
  /\ UNCHANGED <<podVars, pushed, removed, globalStream, batch, doing, length,
                 processed, lastID, lines, storage, faults>>

\* The log stream is removed together with the state stream.
DeleteBoth ==
  /\ step = "delete"
  /\ removed' = [k \in Stream |-> [removed[k] EXCEPT ![Head(batch)] = Len(pushed[k][Head(batch)])]]
  /\ \/ /\ doing = "state"
        /\ doing' = "logs" /\ step' = "length"
        /\ UNCHANGED batch
     \/ /\ doing = "logs"
        /\ batch' = Tail(batch)
        /\ step' = IF Len(batch) = 1 THEN "idle" ELSE "load"
        /\ doing' = "state"
  /\ UNCHANGED <<podVars, pushed, globalStream, cursor, storage, faults>>

-----------------------------------------------------------------------------
(* The operations.                                                         *)

\* A pod starts once the operation before is over and announced; apply has pushed a
\* first message to the state stream, destroy none.
Start(o) ==
  /\ pod[o] = "none"
  /\ o > 1 => pod[o - 1] = "announced"
  /\ pod' = [pod EXCEPT ![o] = "running"]
  /\ pods' = [pods EXCEPT ![o] = 1]
  /\ Push("state", o, Mark) \/ UNCHANGED pushed
  /\ UNCHANGED <<removed, globalStream, listener, storage, faults>>

\* StoreLog pushes each line it receives to the log stream ...
StoreLine(o) ==
  /\ pod[o] = "running"
  /\ Len(pushed["logs"][o]) < MaxLines * pods[o]
  /\ Push("logs", o, Mark)
  /\ pod' = [pod EXCEPT ![o] = "pushing"]
  /\ UNCHANGED <<pods, removed, globalStream, listener, storage, faults>>

\* ... and then to the state stream what it says of a resource, if anything.
StoreUpdate(o) ==
  /\ pod[o] = "pushing"
  /\ \/ \E e \in Update : Push("state", o, e)
     \/ UNCHANGED pushed
  /\ pod' = [pod EXCEPT ![o] = "running"]
  /\ UNCHANGED <<pods, removed, globalStream, listener, storage, faults>>

\* The pod has sent all its lines and reports: the operation is saved,
SaveOperation(o) ==
  /\ pod[o] = "running"
  /\ pod' = [pod EXCEPT ![o] = "saved"]
  /\ UNCHANGED <<pods, pushed, removed, globalStream, listener, storage, faults>>

\* its state stream
SendOperationCompleted(o) ==
  /\ pod[o] = "saved"
  /\ Push("state", o, Mark)
  /\ pod' = [pod EXCEPT ![o] = "told"]
  /\ UNCHANGED <<pods, removed, globalStream, listener, storage, faults>>

\* and the global stream are told.
PushToGlobalStream(o) ==
  /\ pod[o] = "told"
  /\ globalStream' = Append(globalStream, o)
  /\ pod' = [pod EXCEPT ![o] = "announced"]
  /\ UNCHANGED <<pods, pushed, removed, listener, storage, faults>>

\* The callback of the pod has failed, or it was killed: it is replaced once.
Restart(o) ==
  /\ "restart" \in Hazard /\ faults < MaxFaults
  /\ pod[o] # "none"
  /\ pods[o] = 1
  /\ pod' = [pod EXCEPT ![o] = "running"]
  /\ pods' = [pods EXCEPT ![o] = 2]
  /\ faults' = faults + 1
  /\ UNCHANGED <<pushed, removed, globalStream, listener, storage>>

-----------------------------------------------------------------------------
(* GlobalStreamListener, and cleanupOperation for each message it is given.*)

This == Head(batch)

\* XReadGroup gives it every message that the group has not been given. Nothing
\* acknowledges them, and nothing reads again what was not.
XReadGroup ==
  /\ step = "idle"
  /\ globalStream # << >>
  /\ batch' = globalStream
  /\ globalStream' = << >>
  /\ step' = "load" /\ doing' = "state"
  /\ UNCHANGED <<podVars, pushed, removed, cursor, storage, faults>>

\* The local variables of pushNewStateToStorage and pushLogsToStorage are gone.
Forget ==
  /\ length' = 0 /\ processed' = 0 /\ lastID' = 0
  /\ draft' = [r \in Resource |-> "absent"]
  /\ lines' = {}

NextMessage ==
  /\ batch' = Tail(batch)
  /\ step' = IF Len(batch) = 1 THEN "idle" ELSE "load"
  /\ doing' = "state"

\* pushNewStateToStorage reads the state of the last operation that was cleaned up.
Load ==
  /\ step = "load"
  /\ draft' = currentState
  /\ step' = "length"
  /\ UNCHANGED <<podVars, pushed, removed, globalStream, batch, doing, length,
                 processed, lastID, lines, storage, faults>>

\* Both pushNewStateToStorage and pushLogsToStorage ask once how long the stream is
ReadLength ==
  /\ step = "length"
  /\ length' = XLen(doing, This)
  /\ processed' = 0 /\ lastID' = 0
  /\ lines' = {}
  /\ step' = IF length' = 0 THEN "write" ELSE "read"
  /\ UNCHANGED <<podVars, pushed, removed, globalStream, batch, doing, draft,
                 storage, faults>>

\* What the entries es make of a state: the last one of a resource decides.
After(state, es) ==
  {new \in State : \A r \in Resource :
     LET of == {i \in DOMAIN es : es[i].resource = r}
     IN  \/ of = {} /\ new[r] = state[r]
         \/ \E i \in of : /\ \A j \in of : j <= i
                          /\ new[r] = IF es[i].status = "deleted" THEN "absent" ELSE es[i].status}

\* and read it, ReadCount entries at a time, until so many have been processed. An
\* XRead that finds no entry blocks until there is one.
Read ==
  LET es    == pushed[doing][This]
      first == IF lastID < removed[doing][This] THEN removed[doing][This] ELSE lastID
      upto  == IF first + ReadCount < Len(es) THEN first + ReadCount ELSE Len(es)
  IN  /\ step = "read"
      /\ first < upto
      /\ processed' = processed + (upto - first)
      /\ lastID' = upto
      /\ draft' \in IF doing = "state" THEN After(draft, SubSeq(es, first + 1, upto)) ELSE {draft}
      /\ lines' = IF doing = "logs" THEN lines \cup (first + 1)..upto ELSE lines
      /\ step' = IF processed' = length THEN "write" ELSE "read"
      /\ UNCHANGED <<podVars, pushed, removed, globalStream, batch, doing, length,
                     storage, faults>>

\* WriteFile replaces the file.
Write ==
  /\ step = "write"
  /\ currentState' = IF doing = "state" THEN draft ELSE currentState
  /\ logsFile' = IF doing = "logs" THEN [logsFile EXCEPT ![This] = lines] ELSE logsFile
  /\ step' = "delete"
  /\ UNCHANGED <<podVars, pushed, removed, globalStream, batch, doing, cursor, faults>>

\* The stream is removed. The logs come after the state, unless there was no state
\* stream to remove.
Delete ==
  /\ step = "delete"
  /\ removed' = [removed EXCEPT ![doing][This] = Len(pushed[doing][This])]
  /\ \/ /\ doing = "state" /\ XLen(doing, This) > 0
        /\ doing' = "logs" /\ step' = "length"
        /\ UNCHANGED batch
     \/ /\ doing = "logs" \/ XLen(doing, This) = 0
        /\ NextMessage
  /\ Forget
  /\ UNCHANGED <<podVars, pushed, globalStream, storage, faults>>

\* A call for the first message fails: an alert is sent, the next one is dealt with.
CleanupFails ==
  /\ "fault" \in Hazard /\ faults < MaxFaults
  /\ step \notin {"idle", "dead"}
  /\ NextMessage
  /\ Forget
  /\ faults' = faults + 1
  /\ UNCHANGED <<podVars, pushed, removed, globalStream, storage>>

\* XReadGroup fails: the listener sends the error to a channel that nobody reads.
XReadGroupFails ==
  /\ "fault" \in Hazard /\ faults < MaxFaults
  /\ step = "idle"
  /\ step' = "dead"
  /\ faults' = faults + 1
  /\ UNCHANGED <<podVars, pushed, removed, globalStream, batch, doing, cursor, storage>>

\* The provisioner crashes and a new one starts its listener.
Crash ==
  /\ "fault" \in Hazard /\ faults < MaxFaults
  /\ step' = "idle" /\ doing' = "state"
  /\ batch' = << >>
  /\ Forget
  /\ faults' = faults + 1
  /\ UNCHANGED <<podVars, pushed, removed, globalStream, storage>>

ListenerMoves == XReadGroup \/ Load \/ ReadLength \/ Read \/ Write \/ Delete

Next ==
  \/ \E o \in Operation :
       \/ Start(o) \/ StoreLine(o) \/ StoreUpdate(o) \/ SaveOperation(o)
       \/ SendOperationCompleted(o) \/ PushToGlobalStream(o) \/ Restart(o)
  \/ ListenerMoves
  \/ CleanupFails \/ XReadGroupFails \/ Crash

Spec == Init /\ [][Next]_vars

\* The listener is one goroutine whose calls return, the blocking ones excepted.
FairSpec == Spec /\ WF_vars(ListenerMoves)
-----------------------------------------------------------------------------
(* Properties.                                                             *)

TypeOK ==
  /\ pod \in [Operation -> PodState]
  /\ pods \in [Operation -> 0..2]
  /\ pushed \in [Stream -> [Operation -> Seq(Update \cup {Mark})]]
  /\ removed \in [Stream -> [Operation -> Nat]]
  /\ globalStream \in Seq(Operation)
  /\ batch \in Seq(Operation)
  /\ step \in ListenerStep /\ doing \in Stream
  /\ length \in Nat /\ processed \in Nat /\ lastID \in Nat
  /\ draft \in State
  /\ lines \subseteq Nat
  /\ currentState \in State
  /\ logsFile \in [Operation -> SUBSET Nat]
  /\ faults \in 0..MaxFaults

\* pushLogsToStorage before cleanupLogStream: whenever the listener stops or fails,
\* each log line of an operation is on its stream or in its file. (Not if a second pod
\* logs to the streams that are being removed, or reports an operation once more.)
LogsKept ==
  \A o \in Operation : pods[o] <= 1 =>
     \A i \in 1..Len(pushed["logs"][o]) : i > removed["logs"][o] \/ i \in logsFile[o]

Of(o, r) == {i \in 1..Len(pushed["state"][o]) : pushed["state"][o][i].resource = r}

\* pushNewStateToStorage before cleanupStateStream: when the state stream of the last
\* operation that said anything of a resource is removed, current_state.json says of
\* the resource what was said last.
StateKept ==
  (\A o \in Operation : pods[o] <= 1) =>
    \A o \in Operation, r \in Resource :
      (/\ removed["state"][o] > 0
       /\ \A q \in Operation : q > o => Of(q, r) = {}) =>
        \A i \in Of(o, r) : (\A j \in Of(o, r) : j <= i) =>
          currentState[r] = IF pushed["state"][o][i].status = "deleted" THEN "absent"
                            ELSE pushed["state"][o][i].status

\* An operation that is announced has its state and its logs stored and its streams
\* removed, unless a call fails, the provisioner restarts or a second pod comes.
AnnouncedIsCleanedUp ==
  \A o \in Operation : pod[o] = "announced" ~>
     \/ \A k \in Stream : XLen(k, o) = 0
     \/ faults > 0

\* global.go says to "push all updates to create the new state": the listener, which
\* has no one to take its place, gets through the messages it is given.
ListenerGetsThrough == step # "idle" ~> step = "idle"
=============================================================================
