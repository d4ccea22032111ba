----------------------- MODULE InfraProvisioningProofs -----------------------
(***************************************************************************)
(* InfraInvariant is inductive whatever the environment does; OneAtATime   *)
(* is inductive when requests of an infra do not overlap; PatientInvariant *)
(* and RowsInvariant, when nothing but pods may die. All hold for any      *)
(* number of requests.                                                     *)
(***************************************************************************)
EXTENDS InfraProvisioning, SequenceTheorems, FiniteSetTheorems, TLAPS

USE ResourceAssumption, HazardAssumption
    DEF CreateKind, DeleteKind, Kind, HandlerState, OperationState, JobState,
        InfraStatus, BackoffLimit, requestVars, jobVars, rowVars, streamVars, Goto

\* What appending to a sequence does.
LEMMA Appending ==
  ASSUME NEW S, NEW s \in Seq(S), NEW e \in S
  PROVE  /\ Append(s, e) \in Seq(S)
         /\ Len(s) \in Nat
         /\ Len(Append(s, e)) = Len(s) + 1
         /\ \A i \in 1..Len(s) : Append(s, e)[i] = s[i]
         /\ Append(s, e)[Len(s) + 1] = e
  BY AppendProperties, LenProperties

\* InfraInvariant holds before the infra is created.
LEMMA InfraInit == Init => InfraInvariant
  BY EmptySeq DEF Init, InfraInvariant, TypeOK, StepsInOrder, CleanedUpOnlyWhenOver

-----------------------------------------------------------------------------
(* Each step preserves InfraInvariant.                                     *)

LEMMA CreateInfraStep ==
  ASSUME InfraInvariant, NEW r \in Request, CreateInfra(r)
  PROVE  InfraInvariant'
<1> USE DEF InfraInvariant, CreateInfra
<1>2. TypeOK'
  BY DEF TypeOK
<1>3. StepsInOrder'
  BY DEF StepsInOrder, TypeOK
<1>4. CleanedUpOnlyWhenOver'
  BY DEF CleanedUpOnlyWhenOver, StepsInOrder, TypeOK
<1> QED BY <1>2, <1>3, <1>4

LEMMA ReceiveStep ==
  ASSUME InfraInvariant, NEW r \in Request, NEW k \in Kind, Receive(r, k)
  PROVE  InfraInvariant'
<1> USE DEF InfraInvariant, Receive
<1>2. TypeOK'
  BY DEF TypeOK
<1>3. StepsInOrder'
  BY DEF StepsInOrder, TypeOK
<1>4. CleanedUpOnlyWhenOver'
  BY DEF CleanedUpOnlyWhenOver, StepsInOrder, TypeOK
<1> QED BY <1>2, <1>3, <1>4

LEMMA CheckLatestStep ==
  ASSUME InfraInvariant, NEW r \in Request, CheckLatest(r)
  PROVE  InfraInvariant'
<1> USE DEF InfraInvariant, CheckLatest
<1>2. TypeOK'
  BY DEF TypeOK
<1>3. StepsInOrder'
  BY DEF StepsInOrder, TypeOK
<1>4. CleanedUpOnlyWhenOver'
  BY DEF CleanedUpOnlyWhenOver, StepsInOrder, TypeOK
<1> QED BY <1>2, <1>3, <1>4

LEMMA MarkDestroyingStep ==
  ASSUME InfraInvariant, NEW r \in Request, MarkDestroying(r)
  PROVE  InfraInvariant'
<1> USE DEF InfraInvariant, MarkDestroying
<1>2. TypeOK'
  BY DEF TypeOK
<1>3. StepsInOrder'
  BY DEF StepsInOrder, TypeOK
<1>4. CleanedUpOnlyWhenOver'
  BY DEF CleanedUpOnlyWhenOver, StepsInOrder, TypeOK
<1> QED BY <1>2, <1>3, <1>4

LEMMA AddOperationStep ==
  ASSUME InfraInvariant, NEW r \in Request, AddOperation(r)
  PROVE  InfraInvariant'
<1> USE DEF InfraInvariant, AddOperation
<1>1. operations' \in Seq(Request)
  BY Appending DEF TypeOK
<1>2. TypeOK'
  BY <1>1 DEF TypeOK
<1>3. StepsInOrder'
  BY <1>1 DEF StepsInOrder, TypeOK
<1>4. CleanedUpOnlyWhenOver'
  BY <1>1, SMTT(30) DEF CleanedUpOnlyWhenOver, StepsInOrder, TypeOK
<1> QED BY <1>2, <1>3, <1>4

LEMMA PushStartedStep ==
  ASSUME InfraInvariant, NEW r \in Request, PushStarted(r)
  PROVE  InfraInvariant'
<1> USE DEF InfraInvariant, PushStarted
<1>1. operationStream' \in [Request -> Seq({"OPERATION_STARTED", "OPERATION_COMPLETED"})]
  BY Appending DEF TypeOK
<1>2. TypeOK'
  BY <1>1 DEF TypeOK
<1>3. StepsInOrder'
  BY <1>1 DEF StepsInOrder, TypeOK
<1>4. CleanedUpOnlyWhenOver'
  BY <1>1 DEF CleanedUpOnlyWhenOver, StepsInOrder, TypeOK
<1> QED BY <1>2, <1>3, <1>4

LEMMA SpawnStep ==
  ASSUME InfraInvariant, NEW r \in Request, Spawn(r)
  PROVE  InfraInvariant'
<1> USE DEF InfraInvariant, Spawn
<1>2. TypeOK'
  BY DEF TypeOK
<1>3. StepsInOrder'
  BY DEF StepsInOrder, TypeOK
<1>4. CleanedUpOnlyWhenOver'
  BY DEF CleanedUpOnlyWhenOver, StepsInOrder, TypeOK
<1> QED BY <1>2, <1>3, <1>4

LEMMA SaveStatusStep ==
  ASSUME InfraInvariant, NEW r \in Request, SaveStatus(r)
  PROVE  InfraInvariant'
<1> USE DEF InfraInvariant, SaveStatus, StatusWhileRunning
<1>2. TypeOK'
  BY DEF TypeOK
<1>3. StepsInOrder'
  BY DEF StepsInOrder, TypeOK
<1>4. CleanedUpOnlyWhenOver'
  BY DEF CleanedUpOnlyWhenOver, StepsInOrder, TypeOK
<1> QED BY <1>2, <1>3, <1>4

LEMMA HandlerFailsStep ==
  ASSUME InfraInvariant, NEW r \in Request, HandlerFails(r)
  PROVE  InfraInvariant'
<1> USE DEF InfraInvariant, HandlerFails, HandlerOver
<1>2. TypeOK'
  BY DEF TypeOK
<1>3. StepsInOrder'
  BY DEF StepsInOrder, TypeOK
<1>4. CleanedUpOnlyWhenOver'
  BY DEF CleanedUpOnlyWhenOver, StepsInOrder, TypeOK
<1> QED BY <1>2, <1>3, <1>4

LEMMA ReportStep ==
  ASSUME InfraInvariant, NEW r \in Request, NEW ok \in BOOLEAN, Report(r, ok)
  PROVE  InfraInvariant'
<1> USE DEF InfraInvariant, Report
<1>2. TypeOK'
  BY DEF TypeOK
<1>3. StepsInOrder'
  BY DEF StepsInOrder, TypeOK
<1>4. CleanedUpOnlyWhenOver'
  BY DEF CleanedUpOnlyWhenOver, StepsInOrder, TypeOK
<1> QED BY <1>2, <1>3, <1>4

LEMMA SaveOperationStep ==
  ASSUME InfraInvariant, NEW r \in Request, SaveOperation(r)
  PROVE  InfraInvariant'
<1> USE DEF InfraInvariant, SaveOperation
<1>2. TypeOK'
  BY DEF TypeOK
<1>3. StepsInOrder'
  BY DEF StepsInOrder, TypeOK
<1>4. CleanedUpOnlyWhenOver'
  BY DEF CleanedUpOnlyWhenOver, StepsInOrder, TypeOK
<1> QED BY <1>2, <1>3, <1>4

LEMMA PushOperationStep ==
  ASSUME InfraInvariant, NEW r \in Request, PushOperation(r)
  PROVE  InfraInvariant'
<1> USE DEF InfraInvariant, PushOperation
<1>1. operationStream' \in [Request -> Seq({"OPERATION_STARTED", "OPERATION_COMPLETED"})]
  BY Appending DEF TypeOK
<1>2. TypeOK'
  BY <1>1 DEF TypeOK
<1>3. StepsInOrder'
  BY <1>1 DEF StepsInOrder, TypeOK
<1>4. CleanedUpOnlyWhenOver'
  BY <1>1 DEF CleanedUpOnlyWhenOver, StepsInOrder, TypeOK
<1> QED BY <1>2, <1>3, <1>4

LEMMA PushGlobalStep ==
  ASSUME InfraInvariant, NEW r \in Request, PushGlobal(r)
  PROVE  InfraInvariant'
<1> USE DEF InfraInvariant, PushGlobal
<1> DEFINE Message == [operation : Request, status : {"created", "destroyed", "error"}]
<1>1. /\ globalStream \in Seq(Message) /\ globalStream' \in Seq(Message)
      /\ Len(globalStream) \in Nat
      /\ Len(globalStream') = Len(globalStream) + 1
      /\ \A i \in 1..Len(globalStream) : globalStream'[i] = globalStream[i]
      /\ globalStream'[Len(globalStream) + 1].operation = r
  BY Appending DEF TypeOK, GlobalStatus
<1>2. TypeOK'
  BY <1>1 DEF TypeOK
<1>3. StepsInOrder'
  BY <1>1 DEF StepsInOrder, TypeOK
<1>4. CleanedUpOnlyWhenOver'
  <2>1. operation[r] \in {"completed", "errored"} /\ operation' = operation
    BY DEF StepsInOrder
  <2>2. ASSUME NEW i \in 1..Len(globalStream')
        PROVE  operation[globalStream'[i].operation] \in {"completed", "errored"}
    <3>1. CASE i = Len(globalStream) + 1
      BY <1>1, <2>1, <3>1
    <3>2. CASE i \in 1..Len(globalStream)
      BY <1>1, <3>2, Zenon DEF CleanedUpOnlyWhenOver
    <3> QED BY <1>1, <3>1, <3>2, <2>2
  <2> QED BY <2>1, <2>2 DEF CleanedUpOnlyWhenOver
<1> QED BY <1>2, <1>3, <1>4

LEMMA SaveInfraStep ==
  ASSUME InfraInvariant, NEW r \in Request, SaveInfra(r)
  PROVE  InfraInvariant'
<1> USE DEF InfraInvariant, SaveInfra, StatusWhenOver
<1>2. TypeOK'
  BY DEF TypeOK
<1>3. StepsInOrder'
  BY DEF StepsInOrder, TypeOK
<1>4. CleanedUpOnlyWhenOver'
  BY DEF CleanedUpOnlyWhenOver, StepsInOrder, TypeOK
<1> QED BY <1>2, <1>3, <1>4

LEMMA FindRowStep ==
  ASSUME InfraInvariant, NEW r \in Request, FindRow(r)
  PROVE  InfraInvariant'
<1> USE DEF InfraInvariant, FindRow
<1>1. /\ job' \in [Request -> JobState]
      /\ found' \in [Request -> Nat]
  <2>1. CASE \E i \in rows : found' = [found EXCEPT ![r] = i] /\ Goto(r, "write")
    BY <2>1 DEF TypeOK
  <2>2. CASE /\ found' = [found EXCEPT ![r] = 0]
             /\ \/ Goto(r, "failed")
                \/ Goto(r, "write")
    BY <2>2 DEF TypeOK
  <2> QED BY <2>1, <2>2
<1>2. TypeOK'
  BY <1>1 DEF TypeOK
<1>3. StepsInOrder'
  BY <1>1 DEF StepsInOrder, TypeOK
<1>4. CleanedUpOnlyWhenOver'
  BY <1>1 DEF CleanedUpOnlyWhenOver, StepsInOrder, TypeOK
<1> QED BY <1>2, <1>3, <1>4

LEMMA WriteRowStep ==
  ASSUME InfraInvariant, NEW r \in Request, WriteRow(r)
  PROVE  InfraInvariant'
<1> USE DEF InfraInvariant, WriteRow
<1>1. /\ rows' \subseteq Nat
      /\ nextRow' \in Nat
      /\ job' \in [Request -> JobState]
  <2>1. found[r] \in Nat /\ nextRow + 1 \in Nat
    BY DEF TypeOK
  <2>2. rows' \subseteq rows \cup {nextRow, found[r]}
    BY Zenon DEF WriteRow
  <2>3. rows' \subseteq Nat
    BY <2>1, <2>2 DEF TypeOK
  <2>4. nextRow' \in Nat
    BY <2>1 DEF TypeOK
  <2>5. job' \in [Request -> JobState]
    BY DEF TypeOK
  <2> QED BY <2>3, <2>4, <2>5
<1>2. TypeOK'
  BY <1>1 DEF TypeOK
<1>3. StepsInOrder'
  BY <1>1 DEF StepsInOrder, TypeOK
<1>4. CleanedUpOnlyWhenOver'
  BY <1>1 DEF CleanedUpOnlyWhenOver, StepsInOrder, TypeOK
<1> QED BY <1>2, <1>3, <1>4

LEMMA SaveInfraAgainStep ==
  ASSUME InfraInvariant, NEW r \in Request, SaveInfraAgain(r)
  PROVE  InfraInvariant'
<1> USE DEF InfraInvariant, SaveInfraAgain, StatusWhenOver
<1>2. TypeOK'
  BY DEF TypeOK
<1>3. StepsInOrder'
  BY DEF StepsInOrder, TypeOK
<1>4. CleanedUpOnlyWhenOver'
  BY DEF CleanedUpOnlyWhenOver, StepsInOrder, TypeOK
<1> QED BY <1>2, <1>3, <1>4

LEMMA ReportFailsStep ==
  ASSUME InfraInvariant, NEW r \in Request, ReportFails(r)
  PROVE  InfraInvariant'
<1> USE DEF InfraInvariant, ReportFails, Reporting
<1>2. TypeOK'
  BY DEF TypeOK
<1>3. StepsInOrder'
  BY DEF StepsInOrder, TypeOK
<1>4. CleanedUpOnlyWhenOver'
  BY DEF CleanedUpOnlyWhenOver, StepsInOrder, TypeOK
<1> QED BY <1>2, <1>3, <1>4

LEMMA PodExitsStep ==
  ASSUME InfraInvariant, NEW r \in Request, PodExits(r)
  PROVE  InfraInvariant'
<1> USE DEF InfraInvariant, PodExits
<1>2. TypeOK'
  BY DEF TypeOK
<1>3. StepsInOrder'
  BY DEF StepsInOrder, TypeOK
<1>4. CleanedUpOnlyWhenOver'
  BY DEF CleanedUpOnlyWhenOver, StepsInOrder, TypeOK
<1> QED BY <1>2, <1>3, <1>4

LEMMA PodDiesStep ==
  ASSUME InfraInvariant, NEW r \in Request, PodDies(r)
  PROVE  InfraInvariant'
<1> USE DEF InfraInvariant, PodDies
<1>2. TypeOK'
  BY DEF TypeOK
<1>3. StepsInOrder'
  BY DEF StepsInOrder, TypeOK
<1>4. CleanedUpOnlyWhenOver'
  BY DEF CleanedUpOnlyWhenOver, StepsInOrder, TypeOK
<1> QED BY <1>2, <1>3, <1>4

LEMMA RestartPodStep ==
  ASSUME InfraInvariant, NEW r \in Request, RestartPod(r)
  PROVE  InfraInvariant'
<1> USE DEF InfraInvariant, RestartPod
<1>1. attempt' \in [Request -> 0..2]
  <2>1. attempt[r] \in 0..2 /\ attempt[r] + 1 \in 0..2
    BY DEF TypeOK
  <2> QED BY <2>1 DEF TypeOK
<1>2. TypeOK'
  BY <1>1 DEF TypeOK
<1>3. StepsInOrder'
  BY <1>1 DEF StepsInOrder, TypeOK
<1>4. CleanedUpOnlyWhenOver'
  BY <1>1 DEF CleanedUpOnlyWhenOver, StepsInOrder, TypeOK
<1> QED BY <1>2, <1>3, <1>4

LEMMA InfraStutters ==
  ASSUME InfraInvariant, UNCHANGED vars
  PROVE  InfraInvariant'
  BY DEF vars, InfraInvariant, TypeOK, StepsInOrder, CleanedUpOnlyWhenOver

\* InfraInvariant is an invariant of the system under all of the hazards.
THEOREM InfraInvariantHolds == Spec => []InfraInvariant
<1>1. InfraInvariant /\ [Next]_vars => InfraInvariant'
  BY CreateInfraStep, ReceiveStep, CheckLatestStep, MarkDestroyingStep, AddOperationStep,
     PushStartedStep, SpawnStep, SaveStatusStep, HandlerFailsStep, ReportStep,
     SaveOperationStep, PushOperationStep, PushGlobalStep, SaveInfraStep, FindRowStep,
     WriteRowStep, SaveInfraAgainStep, ReportFailsStep, PodExitsStep, PodDiesStep,
     RestartPodStep, InfraStutters
     DEF Next, HandlerStep, JobStep, Rest
<1> QED BY InfraInit, <1>1, PTL DEF Spec

\* Every variable keeps its type.
THEOREM TypeCorrect == Spec => []TypeOK
  BY InfraInvariantHolds, PTL DEF InfraInvariant

\* No state or log is cleaned up, and no reader sent to the stored logs, before the
\* row of the operation says that it has ended.
THEOREM CleanUpAfterEnd == Spec => []CleanedUpOnlyWhenOver
  BY InfraInvariantHolds, PTL DEF InfraInvariant

\* An operation that has ended is never "starting" again.
THEOREM EndedOperationsStayOver == Spec => OperationsStayOver
<1>1. InfraInvariant /\ [Next]_vars =>
        [\A r \in Request : operation[r] \in {"completed", "errored"} =>
                            operation'[r] \in {"completed", "errored"}]_vars
  <2> SUFFICES ASSUME InfraInvariant, Next,
                      NEW q \in Request, operation[q] \in {"completed", "errored"}
               PROVE  operation'[q] \in {"completed", "errored"}
    OBVIOUS
  <2>1. ASSUME NEW r \in Request, AddOperation(r)
        PROVE  operation'[q] \in {"completed", "errored"}
    BY <2>1 DEF AddOperation, InfraInvariant, TypeOK, StepsInOrder
  <2>2. ASSUME NEW r \in Request, SaveOperation(r)
        PROVE  operation'[q] \in {"completed", "errored"}
    BY <2>2 DEF SaveOperation, InfraInvariant, TypeOK
  <2>3. CASE UNCHANGED operation
    BY <2>3
  <2> QED BY <2>1, <2>2, <2>3
      DEF Next, HandlerStep, JobStep, Rest, vars, CreateInfra, Receive, CheckLatest,
          MarkDestroying, PushStarted, Spawn, SaveStatus, HandlerFails, Report,
          PushOperation, PushGlobal, SaveInfra, FindRow, WriteRow, SaveInfraAgain,
          ReportFails, PodExits, PodDies, RestartPod
<1> QED BY InfraInvariantHolds, <1>1, PTL DEF Spec, OperationsStayOver

-----------------------------------------------------------------------------
(* Requests that do not overlap.                                           *)

LEMMA OneAtATimeInit == Init => OneAtATime
  BY EmptySeq DEF Init, OneAtATime, OneOperationInProgress, HandlerOver

\* A request that is allowed to start finds every handler over.
LEMMA StartsAlone ==
  ASSUME "overlap" \notin Hazard, InfraInvariant, OneAtATime, NEW r \in Request,
         CreateInfra(r) \/ \E k \in Kind : Receive(r, k)
  PROVE  OneAtATime'
<1>1. \A q \in Request : HandlerOver(q)
  BY DEF CreateInfra, Receive, MayRequest
<1>2. \A q \in Request : ~(handler'[q] \in {"idle", "answered"}) => q = r
  BY <1>1 DEF CreateInfra, Receive, InfraInvariant, TypeOK, HandlerOver
<1>3. UNCHANGED <<operations, operation>>
  BY DEF CreateInfra, Receive
<1>4. ASSUME NEW q \in Request, handler'[q] \in {"marking", "calling"}
      PROVE  \A i \in 1..Len(operations) : operation[operations[i]] # "starting"
  <2>1. q = r /\ handler'[r] = "calling"
    BY <1>2, <1>4 DEF CreateInfra, Receive, InfraInvariant, TypeOK
  <2>2. CreateInfra(r)
    BY <2>1 DEF Receive, InfraInvariant, TypeOK
  <2>3. operations = << >>
    BY <2>2 DEF CreateInfra, InfraInvariant, StepsInOrder
  <2> QED BY <2>3, EmptySeq
<1> QED BY <1>2, <1>3, <1>4 DEF OneAtATime, OneOperationInProgress, HandlerOver

\* Only the one handler that is not over is on its way to add an operation.
LEMMA CheckLatestAlone ==
  ASSUME InfraInvariant, OneAtATime, NEW r \in Request, CheckLatest(r)
  PROVE  OneAtATime'
<1>1. UNCHANGED <<operations, operation>> /\ Len(operations) \in Nat
  BY LenProperties DEF CheckLatest, InfraInvariant, TypeOK
<1>2. \A q \in Request : ~HandlerOver(q)' => ~HandlerOver(q)
  BY DEF CheckLatest, HandlerOver, InfraInvariant, TypeOK
<1>3. ASSUME NEW q \in Request, handler'[q] \in {"marking", "calling"}
      PROVE  \A i \in 1..Len(operations) : operation[operations[i]] # "starting"
  <2>1. ~HandlerOver(r) /\ ~HandlerOver(q)
    BY <1>2, <1>3 DEF CheckLatest, HandlerOver
  <2>2. q = r
    BY <2>1 DEF OneAtATime
  <2>3. Accepted(r)
    BY <1>3, <2>2 DEF CheckLatest, InfraInvariant, TypeOK
  <2> QED BY <1>1, <2>3 DEF Accepted, Latest, OneAtATime, OneOperationInProgress
<1> QED BY <1>1, <1>2, <1>3 DEF OneAtATime, OneOperationInProgress

LEMMA AddOperationAlone ==
  ASSUME InfraInvariant, OneAtATime, NEW r \in Request, AddOperation(r)
  PROVE  OneAtATime'
<1>1. /\ Len(operations) \in Nat
      /\ Len(operations') = Len(operations) + 1
      /\ \A i \in 1..Len(operations) : operations'[i] = operations[i]
      /\ operations'[Len(operations) + 1] = r
      /\ \A i \in 1..Len(operations) : operations[i] \in Request
  BY Appending, ElementOfSeq DEF AddOperation, InfraInvariant, TypeOK
<1>2. /\ operation[r] = "none"
      /\ operation'[r] = "starting"
      /\ \A q \in Request : q # r => operation'[q] = operation[q]
  BY DEF AddOperation, InfraInvariant, TypeOK, StepsInOrder
<1>3. \A i \in 1..Len(operations) :
         /\ operations[i] # r
         /\ operation'[operations'[i]] = operation[operations[i]]
         /\ operation[operations[i]] # "starting"
         /\ operation[operations[i]] # "none"
  BY <1>1, <1>2 DEF OneAtATime, AddOperation
<1>4. \A i \in 1..Len(operations') : i \in 1..Len(operations) \/ i = Len(operations) + 1
  BY <1>1
<1>5. \A q \in Request : ~HandlerOver(q)' => q = r
  BY DEF AddOperation, HandlerOver, InfraInvariant, TypeOK, OneAtATime
<1>6. \A q \in Request : handler'[q] \notin {"marking", "calling"}
  BY <1>5 DEF AddOperation, HandlerOver, InfraInvariant, TypeOK
<1>7. OneOperationInProgress'
  BY <1>1, <1>3, <1>4 DEF OneOperationInProgress
<1>8. \A i \in 1..Len(operations') : operation'[operations'[i]] # "none"
  BY <1>1, <1>2, <1>3, <1>4
<1>9. ASSUME NEW q \in Request, operation'[q] # "none"
      PROVE  \E i \in 1..Len(operations') : operations'[i] = q
  <2>1. CASE q = r
    BY <1>1, <2>1
  <2>2. CASE q # r
    <3>1. PICK i \in 1..Len(operations) : operations[i] = q
      BY <1>2, <1>9, <2>2 DEF OneAtATime
    <3> QED BY <1>1, <3>1
  <2> QED BY <2>1, <2>2
<1> QED BY <1>5, <1>6, <1>7, <1>8, <1>9 DEF OneAtATime

\* A step of a handler that adds no operation and moves to none that does.
LEMMA HandlerGoesOn ==
  ASSUME InfraInvariant, OneAtATime, NEW r \in Request,
         \/ MarkDestroying(r) \/ PushStarted(r) \/ Spawn(r)
         \/ SaveStatus(r) \/ HandlerFails(r)
  PROVE  OneAtATime'
<1>1. UNCHANGED <<operations, operation>>
  BY DEF MarkDestroying, PushStarted, Spawn, SaveStatus, HandlerFails
<1>2. \A q \in Request : ~HandlerOver(q)' => ~HandlerOver(q)
  BY DEF MarkDestroying, PushStarted, Spawn, SaveStatus, HandlerFails, HandlerOver,
         InfraInvariant, TypeOK
<1>3. \A q \in Request : handler'[q] \in {"marking", "calling"} =>
                           handler[q] \in {"marking", "calling"}
  BY DEF MarkDestroying, PushStarted, Spawn, SaveStatus, HandlerFails, HandlerOver,
         InfraInvariant, TypeOK
<1> QED BY <1>1, <1>2, <1>3 DEF OneAtATime, OneOperationInProgress

LEMMA SaveOperationAlone ==
  ASSUME InfraInvariant, OneAtATime, NEW r \in Request, SaveOperation(r)
  PROVE  OneAtATime'
<1>1. UNCHANGED <<handler, operations>>
  BY DEF SaveOperation
<1>2. operation[r] # "none" /\ operation'[r] \in {"completed", "errored"}
  BY DEF SaveOperation, InfraInvariant, TypeOK, StepsInOrder
<1>3. \A q \in Request : q # r => operation'[q] = operation[q]
  BY DEF SaveOperation, InfraInvariant, TypeOK
<1>4. \A i \in 1..Len(operations) : operations[i] \in Request
  BY ElementOfSeq DEF InfraInvariant, TypeOK
<1> QED BY <1>1, <1>2, <1>3, <1>4 DEF OneAtATime, OneOperationInProgress, HandlerOver

LEMMA OtherStepsAlone ==
  ASSUME OneAtATime, UNCHANGED <<handler, operations, operation>>
  PROVE  OneAtATime'
  BY DEF OneAtATime, OneOperationInProgress, HandlerOver

LEMMA OneAtATimeStep ==
  ASSUME "overlap" \notin Hazard, InfraInvariant, OneAtATime, [Next]_vars
  PROVE  OneAtATime'
<1>1. CASE \E r \in Request : CreateInfra(r) \/ \E k \in Kind : Receive(r, k)
  BY <1>1, StartsAlone
<1>2. CASE \E r \in Request : HandlerStep(r) \/ HandlerFails(r)
  BY <1>2, CheckLatestAlone, AddOperationAlone, HandlerGoesOn DEF HandlerStep
<1>3. CASE \E r \in Request : SaveOperation(r)
  BY <1>3, SaveOperationAlone
<1>4. CASE UNCHANGED <<handler, operations, operation>>
  BY <1>4, OtherStepsAlone
<1>5. ASSUME NEW r \in Request,
             \/ \E ok \in BOOLEAN : Report(r, ok)
             \/ JobStep(r) \/ ReportFails(r) \/ PodDies(r)
      PROVE  SaveOperation(r) \/ UNCHANGED <<handler, operations, operation>>
  BY <1>5 DEF JobStep, Report, PushOperation, PushGlobal, SaveInfra, FindRow, WriteRow,
              SaveInfraAgain, ReportFails, PodExits, PodDies, RestartPod
<1> QED BY <1>1, <1>2, <1>3, <1>4, <1>5 DEF Next, Rest, vars

\* Unless requests of an infra overlap, at most one of its operations is "starting",
\* the latest one: what the check of the latest operation in the handlers relies on.
THEOREM OneOperationUnlessOverlap ==
  ASSUME "overlap" \notin Hazard
  PROVE  Spec => []OneOperationInProgress
<1>1. InfraInvariant /\ OneAtATime /\ [Next]_vars => OneAtATime'
  BY OneAtATimeStep
<1>2. OneAtATime => OneOperationInProgress
  BY DEF OneAtATime
<1> QED BY OneAtATimeInit, InfraInvariantHolds, <1>1, <1>2, PTL DEF Spec
-----------------------------------------------------------------------------
(* Patient clients: the status of the infra.                               *)

\* The environment that runs of infra_patient have: only pods may die.
Patient == Hazard \subseteq {"podDeath"}

Busy(r) == ~(HandlerOver(r) /\ JobOver(r))

\* What the end of the operation of r, as its row has it, calls for.
CalledFor(r) ==
  IF operation[r] = "errored" THEN "errored" ELSE IF kind[r] \in CreateKind THEN "created" ELSE "deleted"

\* How far the job of r may be while its handler is where it is.
HandlerMeetsJob(r) ==
  /\ handler[r] \notin {"spawned", "answered"} => job[r] = "none"
  /\ handler[r] \in {"added", "announced", "spawned"} => operation[r] = "starting"
  /\ handler[r] = "spawned" => job[r] \in {"terraform", "failed"}
  /\ job[r] = "none" => operation[r] \in {"none", "starting"}
  /\ Busy(r) /\ operation[r] # "none" => operations # << >> /\ Latest = r

\* What a callback handler has saved when it is where it is.
SavedBy(r) ==
  /\ job[r] \in {"saveOperation", "pushOperation", "pushGlobal"} /\ ~succeeded[r] =>
       infraStatus = "errored"
  /\ job[r] \in {"pushOperation", "pushGlobal", "reported"} =>
       operation[r] = IF succeeded[r] THEN "completed" ELSE "errored"
  /\ job[r] = "saveInfra" /\ succeeded[r] => operation[r] = "completed"
  /\ job[r] \in {"find", "write", "saveAgain"} => succeeded[r] /\ operation[r] = "completed"
  /\ job[r] \in {"find", "write", "saveAgain", "reported"} => infraStatus = CalledFor(r)

\* Between two callbacks the infra has the status that the latest operation calls for, until
\* a handler saves it for another one.
LatestIsShown ==
  /\ operations # << >> /\ handler[Latest] = "answered" /\ operation[Latest] # "starting"
  /\ job[Latest] \in {"terraform", "failed", "exited"}
  /\ \A r \in Request : handler[r] # "calling"
  => infraStatus = CalledFor(Latest)

PatientInvariant ==
  Patient =>
    /\ \A r, q \in Request : Busy(r) /\ Busy(q) => r = q
    /\ \A r \in Request : HandlerMeetsJob(r) /\ SavedBy(r)
    /\ LatestIsShown

\* The latest operation is one of a request that has made one.
LEMMA LatestFacts ==
  ASSUME InfraInvariant, OneAtATime, operations # << >>
  PROVE  Latest \in Request /\ operation[Latest] # "none"
<1>1. Len(operations) \in 1..Len(operations)
  BY EmptySeq, LenProperties DEF InfraInvariant, TypeOK
<1> QED
  BY <1>1, ElementOfSeq DEF InfraInvariant, TypeOK, OneAtATime, Latest

\* Nobody is busy but one, whose operation is the latest one.
LEMMA BusyAlone ==
  ASSUME InfraInvariant, PatientInvariant, Patient, NEW r \in Request, Busy(r)
  PROVE  /\ \A q \in Request : q # r => HandlerOver(q) /\ JobOver(q)
         /\ \A q \in Request : HandlerMeetsJob(q) /\ SavedBy(q)
         /\ ~JobOver(r) => /\ handler[r] \in {"spawned", "answered"}
                           /\ operation[r] # "none" /\ operations # << >> /\ Latest = r
<1>1. \A q \in Request : HandlerMeetsJob(q) /\ SavedBy(q)
  BY DEF PatientInvariant
<1>2. \A q \in Request : q # r => ~Busy(q)
  BY DEF PatientInvariant
<1>3. ~JobOver(r) => job[r] # "none" /\ operation[r] # "none"
  BY DEF JobOver, InfraInvariant, StepsInOrder
<1>4. handler[r] \in HandlerState
  BY DEF InfraInvariant, TypeOK
<1> QED
  BY <1>1, <1>2, <1>3, <1>4 DEF Busy, HandlerMeetsJob

\* A step of a job keeps the invariant when what it saves fits where it goes.
LEMMA JobMoves ==
  ASSUME InfraInvariant, PatientInvariant, Patient, NEW r \in Request, ~JobOver(r),
         UNCHANGED <<handler, kind, operations>>,
         \A q \in Request \ {r} : /\ job'[q] = job[q] /\ attempt'[q] = attempt[q]
                                  /\ operation'[q] = operation[q],
         job'[r] # "none", operation'[r] # "none",
         handler[r] = "spawned" => job'[r] \in {"terraform", "failed"} /\ operation'[r] = "starting",
         SavedBy(r)',
         job'[r] \in {"terraform", "failed", "exited"} /\ operation'[r] # "starting" =>
           infraStatus' = CalledFor(r)'
  PROVE  PatientInvariant'
<1>1. /\ \A q \in Request : q # r => HandlerOver(q) /\ JobOver(q)
      /\ \A q \in Request : HandlerMeetsJob(q)
      /\ handler[r] \in {"spawned", "answered"} /\ operations # << >> /\ Latest = r
  BY BusyAlone DEF Busy
<1>2. \A q \in Request : q # r => /\ HandlerOver(q)' /\ JobOver(q)'
                                  /\ job'[q] \in {"none", "exited", "failed"}
  BY <1>1 DEF HandlerOver, JobOver
<1>3. \A q \in Request : Busy(q)' => q = r
  BY <1>2 DEF Busy
<1>4. Latest' = r /\ operations' # << >>
  BY <1>1 DEF Latest
<1>5. ASSUME NEW q \in Request
      PROVE  HandlerMeetsJob(q)'
  <2>1. CASE q = r
    BY <1>1, <1>4, <2>1 DEF HandlerMeetsJob
  <2>2. CASE q # r
    <3>1. /\ handler'[q] = handler[q] /\ job'[q] = job[q] /\ operation'[q] = operation[q] /\ ~Busy(q)'
      BY <1>3, <2>2
    <3> QED
      BY <1>1, <3>1 DEF HandlerMeetsJob
  <2> QED
    BY <2>1, <2>2
<1>6. ASSUME NEW q \in Request
      PROVE  SavedBy(q)'
  <2>1. CASE q # r
    BY <1>2, <2>1 DEF SavedBy
  <2> QED
    BY <2>1
<1>7. LatestIsShown'
  BY <1>4 DEF LatestIsShown
<1> QED
  BY <1>3, <1>5, <1>6, <1>7 DEF PatientInvariant

\* So does a step of a handler, until its job has begun to report.
LEMMA HandlerMoves ==
  ASSUME InfraInvariant, PatientInvariant, Patient, NEW r \in Request,
         \A q \in Request \ {r} : /\ HandlerOver(q) /\ JobOver(q)
                                  /\ handler'[q] = handler[q] /\ operation'[q] = operation[q]
                                  /\ job'[q] = job[q] /\ attempt'[q] = attempt[q],
         job'[r] \in {"none", "terraform", "failed"}, HandlerMeetsJob(r)', LatestIsShown'
  PROVE  PatientInvariant'
<1>1. \A q \in Request : HandlerMeetsJob(q)
  BY DEF PatientInvariant
<1>2. \A q \in Request : q # r => HandlerOver(q)' /\ JobOver(q)' /\ ~Busy(q)'
  BY DEF HandlerOver, JobOver, Busy
<1>3. \A q \in Request : HandlerMeetsJob(q)'
  BY <1>1, <1>2 DEF HandlerMeetsJob
<1>4. \A q \in Request : job'[q] \in {"none", "exited", "failed", "terraform"}
  BY DEF JobOver
<1>5. \A q \in Request : SavedBy(q)'
  BY <1>4 DEF SavedBy
<1> QED
  BY <1>2, <1>3, <1>5 DEF PatientInvariant

\* A request that a patient client makes finds all handlers and jobs over.
LEMMA PatientStarts ==
  ASSUME InfraInvariant, OneAtATime, PatientInvariant, Patient, NEW r \in Request,
         CreateInfra(r) \/ \E k \in Kind : Receive(r, k)
  PROVE  PatientInvariant'
<1>1. \A q \in Request : HandlerOver(q) /\ JobOver(q)
  BY DEF CreateInfra, Receive, MayRequest, Patient
<1>2. /\ handler[r] = "idle" /\ job[r] = "none" /\ operation[r] = "none"
      /\ handler'[r] \in {"checking", "calling"}
      /\ \A q \in Request \ {r} : handler'[q] = handler[q] /\ kind'[q] = kind[q]
      /\ UNCHANGED <<operations, operation, jobVars>>
  BY DEF CreateInfra, Receive, PatientInvariant, HandlerMeetsJob, InfraInvariant, TypeOK, StepsInOrder
<1>3. HandlerMeetsJob(r)'
  BY <1>2 DEF HandlerMeetsJob
<1>4. LatestIsShown'
  <2>1. CASE CreateInfra(r)
    BY <2>1, <1>2 DEF CreateInfra, InfraInvariant, StepsInOrder, LatestIsShown
  <2>2. CASE \E k \in Kind : Receive(r, k)
    <3>1. infraStatus' = infraStatus
      BY <2>2 DEF Receive
    <3>2. operations # << >> => Latest \in Request \ {r}
      BY <1>2, LatestFacts
    <3> QED
      BY <1>1, <1>2, <3>1, <3>2 DEF LatestIsShown, PatientInvariant, Latest, CalledFor, HandlerOver
  <2> QED
    BY <2>1, <2>2
<1> QED
  BY <1>1, <1>2, <1>3, <1>4, HandlerMoves

\* The handlers, from the check of the latest operation to the answer.
LEMMA PatientHandlers ==
  ASSUME InfraInvariant, OneAtATime, PatientInvariant, Patient, NEW r \in Request, HandlerStep(r)
  PROVE  PatientInvariant'
<1>0. handler \in [Request -> HandlerState] /\ job \in [Request -> JobState]
      /\ operation \in [Request -> OperationState] /\ attempt \in [Request -> 0..2]
  BY DEF InfraInvariant, TypeOK
<1>1. handler[r] \notin {"idle", "answered"}
  BY DEF HandlerStep, CheckLatest, MarkDestroying, AddOperation, PushStarted, Spawn, SaveStatus
<1>2. /\ \A q \in Request \ {r} : HandlerOver(q) /\ JobOver(q)
      /\ HandlerMeetsJob(r) /\ Busy(r)
  BY <1>1, BusyAlone DEF Busy, HandlerOver
<1>3. \A q \in Request \ {r} : /\ handler'[q] = handler[q] /\ operation'[q] = operation[q]
                               /\ job'[q] = job[q] /\ attempt'[q] = attempt[q]
  BY <1>0 DEF HandlerStep, CheckLatest, MarkDestroying, AddOperation, PushStarted, Spawn, SaveStatus
<1>4. CASE CheckLatest(r)
  <2>1. /\ handler'[r] \in {"answered", "marking", "calling"} /\ job[r] = "none" /\ operation[r] = "none"
        /\ UNCHANGED <<operations, operation, job, kind, infraStatus>>
    BY <1>0, <1>2, <1>4 DEF CheckLatest, HandlerMeetsJob, InfraInvariant, StepsInOrder
  <2>2. operations # << >> => Latest \in Request \ {r}
    BY <2>1, LatestFacts
  <2>3. LatestIsShown'
    BY <1>2, <1>3, <1>4, <2>1, <2>2 DEF LatestIsShown, PatientInvariant, Latest, CalledFor,
                                        HandlerOver, CheckLatest
  <2> QED
    BY <1>2, <1>3, <2>1, <2>3, HandlerMoves DEF HandlerMeetsJob
<1>5. CASE MarkDestroying(r)
  <2>1. handler'[r] = "calling" /\ job'[r] = "none" /\ operation'[r] = "none"
    BY <1>0, <1>2, <1>5 DEF MarkDestroying, HandlerMeetsJob, InfraInvariant, StepsInOrder
  <2> QED
    BY <1>2, <1>3, <2>1, HandlerMoves DEF HandlerMeetsJob, LatestIsShown
<1>6. CASE AddOperation(r)
  <2>1. handler'[r] \in {"added", "announced"} /\ job'[r] = "none" /\ operation'[r] = "starting"
    BY <1>0, <1>2, <1>6 DEF AddOperation, HandlerMeetsJob
  <2>2. operations' # << >> /\ Latest' = r
    <3>1. /\ operations' = Append(operations, r) /\ Len(operations') = Len(operations) + 1
          /\ Len(operations) \in Nat /\ operations'[Len(operations) + 1] = r
      BY <1>6, Appending DEF AddOperation, InfraInvariant, TypeOK
    <3>2. Len(<< >>) = 0
      BY EmptySeq
    <3> QED
      BY <3>1, <3>2 DEF Latest
  <2> QED
    BY <1>2, <1>3, <2>1, <2>2, HandlerMoves DEF HandlerMeetsJob, LatestIsShown
<1>7. CASE PushStarted(r) \/ Spawn(r) \/ SaveStatus(r)
  <2>1. operations # << >> /\ Latest = r /\ operation[r] = "starting"
    BY <1>2, <1>7 DEF PushStarted, Spawn, SaveStatus, HandlerMeetsJob
  <2>2. operations' # << >> /\ Latest' = r /\ operation'[r] = "starting"
    BY <1>7, <2>1 DEF PushStarted, Spawn, SaveStatus, Latest
  <2>3. \/ handler'[r] = "announced" /\ job'[r] = "none"
        \/ handler'[r] \in {"spawned", "answered"} /\ job'[r] \in {"terraform", "failed"}
    BY <1>0, <1>2, <1>7 DEF PushStarted, Spawn, SaveStatus, HandlerMeetsJob
  <2> QED
    BY <1>2, <1>3, <2>2, <2>3, HandlerMoves DEF HandlerMeetsJob, LatestIsShown
<1> QED
  BY <1>4, <1>5, <1>6, <1>7 DEF HandlerStep

\* The jobs, from their report to their end, and pods that die and are replaced.
LEMMA PatientJobs ==
  ASSUME InfraInvariant, PatientInvariant, Patient, NEW r \in Request,
         (\E ok \in BOOLEAN : Report(r, ok)) \/ JobStep(r) \/ PodDies(r)
  PROVE  PatientInvariant'
<1>0. /\ handler \in [Request -> HandlerState] /\ job \in [Request -> JobState]
      /\ operation \in [Request -> OperationState] /\ attempt \in [Request -> 0..2]
      /\ succeeded \in [Request -> BOOLEAN] /\ kind \in [Request -> Kind]
  BY DEF InfraInvariant, TypeOK
<1>1. ~JobOver(r)
  BY <1>0 DEF JobOver, JobStep, Report, SaveOperation, PushOperation, PushGlobal, SaveInfra, FindRow,
         WriteRow, SaveInfraAgain, PodExits, PodDies, RestartPod
<1>2. /\ HandlerMeetsJob(r) /\ SavedBy(r)
      /\ handler[r] \in {"spawned", "answered"} /\ operation[r] # "none"
      /\ operations # << >> /\ Latest = r
      /\ \A q \in Request \ {r} : HandlerOver(q)
  BY <1>1, BusyAlone DEF Busy
<1>3. /\ UNCHANGED <<handler, kind, operations>>
      /\ \A q \in Request \ {r} : /\ job'[q] = job[q] /\ attempt'[q] = attempt[q]
                                  /\ operation'[q] = operation[q]
  BY <1>0 DEF JobStep, Report, SaveOperation, PushOperation, PushGlobal, SaveInfra, FindRow,
              WriteRow, SaveInfraAgain, PodExits, PodDies, RestartPod
<1>4. job'[r] # "none" /\ operation'[r] # "none"
  BY <1>0, <1>2 DEF JobStep, Report, SaveOperation, PushOperation, PushGlobal, SaveInfra, FindRow,
              WriteRow, SaveInfraAgain, PodExits, PodDies, RestartPod
<1>5. handler[r] = "spawned" => job'[r] \in {"terraform", "failed"} /\ operation'[r] = "starting"
  BY <1>0, <1>2 DEF HandlerMeetsJob, Patient, JobStep, Report, SaveOperation, PushOperation, PushGlobal,
              SaveInfra, FindRow, WriteRow, SaveInfraAgain, PodExits, PodDies, RestartPod
\* The status that the latest operation calls for is the infra's as long as no callback of it
\* is under way.
<1>6. job[r] \in {"terraform", "failed"} /\ handler[r] = "answered" /\ operation[r] # "starting" =>
        infraStatus = CalledFor(r)
  BY <1>2 DEF PatientInvariant, LatestIsShown, HandlerOver
<1> DEFINE Fits == /\ SavedBy(r)'
                   /\ job'[r] \in {"terraform", "failed", "exited"} /\ operation'[r] # "starting" =>
                        infraStatus' = CalledFor(r)'
<1>7. CASE \E ok \in BOOLEAN : Report(r, ok)
  <2>1. job'[r] \in {"saveOperation", "saveInfra"} /\ (job'[r] = "saveInfra" <=> ~succeeded'[r])
    BY <1>0, <1>7 DEF Report
  <2>2. Fits
    BY <2>1 DEF SavedBy
  <2> QED
    BY <1>1, <1>3, <1>4, <1>5, <2>2, JobMoves
<1>8. CASE SaveOperation(r)
  <2>1. /\ job[r] = "saveOperation" /\ job'[r] = "pushOperation"
        /\ operation'[r] = IF succeeded[r] THEN "completed" ELSE "errored"
        /\ UNCHANGED <<succeeded, infraStatus>>
    BY <1>0, <1>8 DEF SaveOperation
  <2>2. Fits
    BY <1>2, <2>1 DEF SavedBy
  <2> QED
    BY <1>1, <1>3, <1>4, <1>5, <2>2, JobMoves
<1>9. CASE PushOperation(r) \/ PushGlobal(r)
  <2>1. /\ job[r] \in {"pushOperation", "pushGlobal"} /\ UNCHANGED <<succeeded, infraStatus, operation>>
        /\ \/ job'[r] = "pushGlobal"
           \/ job'[r] = IF succeeded[r] THEN "saveInfra" ELSE "reported"
    BY <1>0, <1>9 DEF PushOperation, PushGlobal
  <2>2. Fits
    BY <1>2, <1>3, <2>1 DEF SavedBy, CalledFor
  <2> QED
    BY <1>1, <1>3, <1>4, <1>5, <2>2, JobMoves
<1>10. CASE SaveInfra(r)
  <2>1. /\ job[r] = "saveInfra" /\ infraStatus' = StatusWhenOver(r)
        /\ job'[r] = IF succeeded[r] THEN "find" ELSE "saveOperation"
        /\ UNCHANGED <<succeeded, operation>>
    BY <1>0, <1>10 DEF SaveInfra
  <2>2. Fits
    BY <1>2, <1>3, <2>1 DEF SavedBy, CalledFor, StatusWhenOver
  <2> QED
    BY <1>1, <1>3, <1>4, <1>5, <2>2, JobMoves
<1>11. CASE FindRow(r) \/ WriteRow(r) \/ SaveInfraAgain(r)
  <2>1. /\ job[r] \in {"find", "write", "saveAgain"} /\ UNCHANGED <<succeeded, operation>>
        /\ infraStatus' = infraStatus \/ infraStatus' = StatusWhenOver(r)
        /\ job'[r] \in {"write", "failed", "saveAgain", "reported"}
    BY <1>0, <1>11 DEF FindRow, WriteRow, SaveInfraAgain
  <2>2. infraStatus' = CalledFor(r)' /\ operation[r] = "completed" /\ succeeded[r]
    BY <1>2, <1>3, <2>1 DEF SavedBy, CalledFor, StatusWhenOver
  <2>3. Fits
    BY <2>1, <2>2 DEF SavedBy
  <2> QED
    BY <1>1, <1>3, <1>4, <1>5, <2>3, JobMoves
<1>12. CASE PodExits(r) \/ PodDies(r) \/ RestartPod(r)
  <2>1. /\ job[r] \in {"terraform", "reported", "failed"} /\ job'[r] \in {"exited", "failed", "terraform"}
        /\ UNCHANGED <<succeeded, operation, infraStatus>>
    BY <1>0, <1>12 DEF PodExits, PodDies, RestartPod
  <2>2. operation[r] # "starting" => infraStatus = CalledFor(r)
    BY <1>2, <1>6, <2>1 DEF SavedBy, HandlerMeetsJob
  <2>3. Fits
    BY <1>3, <2>1, <2>2 DEF SavedBy, CalledFor
  <2> QED
    BY <1>1, <1>3, <1>4, <1>5, <2>3, JobMoves
<1> QED
  BY <1>7, <1>8, <1>9, <1>10, <1>11, <1>12 DEF JobStep

LEMMA PatientStep ==
  InfraInvariant /\ (Patient => OneAtATime) /\ PatientInvariant /\ [Next]_vars => PatientInvariant'
<1> SUFFICES ASSUME InfraInvariant, OneAtATime, PatientInvariant, Patient, [Next]_vars
             PROVE  PatientInvariant'
  BY DEF PatientInvariant
<1>1. CASE UNCHANGED vars
  BY <1>1 DEF vars, PatientInvariant, HandlerMeetsJob, SavedBy, LatestIsShown, CalledFor, Busy,
              HandlerOver, JobOver, Latest
<1>2. \A r \in Request : ~HandlerFails(r) /\ ~ReportFails(r)
  BY DEF HandlerFails, ReportFails, Patient
<1> QED
  BY <1>1, <1>2, PatientStarts, PatientHandlers, PatientJobs DEF Next, Rest

LEMMA PatientInit == Init => PatientInvariant
  BY DEF Init, PatientInvariant, Busy, HandlerOver, JobOver, HandlerMeetsJob, SavedBy, LatestIsShown

\* With patient clients, whatever pods die and are replaced: one request at a time is handled or
\* has a job, and what is saved of the infra and of its latest operation fits how far it is.
THEOREM PatientInvariantHolds == Spec => []((Patient => OneAtATime) /\ PatientInvariant)
<1>1. Patient => "overlap" \notin Hazard
  BY DEF Patient
<1>2. Init => (Patient => OneAtATime)
  BY OneAtATimeInit
<1>3. InfraInvariant /\ (Patient => OneAtATime) /\ [Next]_vars => (Patient => OneAtATime)'
  BY <1>1, OneAtATimeStep DEF Patient
<1> QED
  BY <1>2, <1>3, PatientInit, PatientStep, InfraInvariantHolds, PTL DEF Spec

\* Once its latest operation has ended and nothing is going on, the infra is "created", "deleted"
\* or "errored" as that operation calls for, however often pods died and were replaced: when a
\* pod is replaced after it reported, terraform runs again and the same handlers report again.
THEOREM LatestOperationIsShown ==
  ASSUME Hazard \subseteq {"podDeath"}
  PROVE  Spec => []InfraShowsLatestOperation
<1>1. InfraInvariant /\ OneAtATime /\ PatientInvariant => InfraShowsLatestOperation
  <2> SUFFICES ASSUME InfraInvariant, OneAtATime, PatientInvariant, Settled, operations # << >>,
                      operation[Latest] # "starting"
               PROVE  infraStatus = CalledFor(Latest)
    BY DEF InfraShowsLatestOperation, CalledFor
  <2>1. Latest \in Request /\ operation[Latest] \notin {"none", "starting"}
    BY LatestFacts
  <2>2. handler[Latest] = "answered" /\ \A r \in Request : handler[r] # "calling"
    BY <2>1 DEF Settled, HandlerOver, InfraInvariant, StepsInOrder
  <2>3. job[Latest] \in {"failed", "exited"}
    BY <2>1 DEF Settled, JobOver, PatientInvariant, HandlerMeetsJob, Patient
  <2> QED
    BY <2>1, <2>2, <2>3 DEF PatientInvariant, LatestIsShown, Patient
<1> QED
  BY <1>1, InfraInvariantHolds, PatientInvariantHolds, PTL DEF Patient

-----------------------------------------------------------------------------
(* Patient clients: the row of the cluster or database.                    *)

\* There is at most one row; whoever writes it has found it; and the status tells whether there
\* is one, except between saving the status and writing the row.
RowsInvariant ==
  Patient /\ Resource # "registry" =>
    /\ \A i, k \in rows : i = k
    /\ 0 \notin rows /\ nextRow # 0
    /\ \A r \in Request :
         /\ job[r] = "write" => rows = IF found[r] = 0 THEN {} ELSE {found[r]}
         /\ job[r] = "write" /\ kind[r] \in DeleteKind => found[r] # 0
         /\ job[r] = "saveAgain" => kind[r] \in CreateKind /\ rows # {}
    /\ (\A r \in Request : job[r] \notin {"find", "write"}) =>
         /\ infraStatus = "deleted" => rows = {}
         /\ infraStatus = "created" => rows # {}

\* Steps that have nothing to do with rows.
LEMMA RowsStay ==
  ASSUME RowsInvariant, UNCHANGED <<found, rows, nextRow>>,
         \A r \in Request : job'[r] \in {"find", "write", "saveAgain"} =>
                              job'[r] = job[r] /\ kind'[r] = kind[r],
         \A r \in Request : job[r] = "find" \/ job[r] = "write" => job'[r] = job[r],
         infraStatus' \in {"deleted", "created"} => infraStatus' = infraStatus
  PROVE  RowsInvariant'
  BY DEF RowsInvariant, Patient

\* The callback handlers that save the status and look up, write and refer to the row.
LEMMA RowsWritten ==
  ASSUME InfraInvariant, PatientInvariant, RowsInvariant, Patient, Resource # "registry",
         NEW r \in Request, SaveInfra(r) \/ FindRow(r) \/ WriteRow(r) \/ SaveInfraAgain(r)
  PROVE  RowsInvariant'
<1>0. /\ job \in [Request -> JobState] /\ succeeded \in [Request -> BOOLEAN] /\ kind \in [Request -> Kind]
      /\ found \in [Request -> Nat] /\ rows \subseteq Nat /\ nextRow \in Nat
  BY DEF InfraInvariant, TypeOK
<1>1. ~JobOver(r)
  BY DEF JobOver, SaveInfra, FindRow, WriteRow, SaveInfraAgain
<1>2. /\ SavedBy(r) /\ \A q \in Request : q # r => job[q] \in {"none", "exited", "failed"}
  BY <1>1, BusyAlone DEF Busy, JobOver
<1>3. /\ \A i, k \in rows : i = k
      /\ 0 \notin rows /\ nextRow # 0
      /\ job[r] = "write" => rows = IF found[r] = 0 THEN {} ELSE {found[r]}
      /\ job[r] = "write" /\ kind[r] \in DeleteKind => found[r] # 0
      /\ job[r] = "saveAgain" => kind[r] \in CreateKind /\ rows # {}
  BY DEF RowsInvariant
<1>4. kind' = kind /\ succeeded' = succeeded /\ \A q \in Request : q # r => job'[q] = job[q]
  BY <1>0 DEF SaveInfra, FindRow, WriteRow, SaveInfraAgain
<1> DEFINE Sound == /\ \A i, k \in rows' : i = k
                    /\ 0 \notin rows' /\ nextRow' # 0
                    /\ job'[r] = "write" => rows' = IF found'[r] = 0 THEN {} ELSE {found'[r]}
                    /\ job'[r] = "write" /\ kind[r] \in DeleteKind => found'[r] # 0
                    /\ job'[r] = "saveAgain" => kind[r] \in CreateKind /\ rows' # {}
                    /\ job'[r] \notin {"find", "write"} =>
                         /\ infraStatus' = "deleted" => rows' = {}
                         /\ infraStatus' = "created" => rows' # {}
<1>5. Sound => RowsInvariant'
  BY <1>2, <1>4 DEF RowsInvariant
<1>6. CASE SaveInfra(r)
  <2>1. /\ infraStatus' = StatusWhenOver(r) /\ job'[r] = IF succeeded[r] THEN "find" ELSE "saveOperation"
        /\ UNCHANGED <<found, rows, nextRow>>
    BY <1>0, <1>6 DEF SaveInfra
  <2> QED
    BY <1>3, <1>5, <2>1 DEF StatusWhenOver
<1>7. CASE FindRow(r)
  <2>1. /\ infraStatus = StatusWhenOver(r) /\ infraStatus' = infraStatus /\ UNCHANGED <<rows, nextRow>>
    BY <1>2, <1>7 DEF FindRow, SavedBy, CalledFor, StatusWhenOver
  <2>2. \/ \E i \in rows : found'[r] = i /\ job'[r] = "write"
        \/ rows = {} /\ found'[r] = 0 /\ kind[r] \in CreateKind /\ job'[r] = "write"
        \/ rows = {} /\ kind[r] \in DeleteKind /\ job'[r] = "failed"
    BY <1>0, <1>7 DEF FindRow, LooksUpRow
  <2> QED
    BY <1>2, <1>3, <1>5, <1>7, <2>1, <2>2 DEF StatusWhenOver, SavedBy, FindRow
<1>8. CASE WriteRow(r)
  <2>1. /\ job[r] = "write" /\ infraStatus = StatusWhenOver(r) /\ infraStatus' = infraStatus
        /\ succeeded[r]
    BY <1>2, <1>8 DEF WriteRow, SavedBy, CalledFor, StatusWhenOver
  <2>2. CASE kind[r] \in DeleteKind
    <3>1. rows' = {} /\ nextRow' = nextRow /\ job'[r] = "reported"
      BY <1>0, <1>3, <1>8, <2>1, <2>2 DEF WriteRow
    <3> QED
      BY <1>3, <1>5, <2>1, <2>2, <3>1 DEF StatusWhenOver
  <2>3. CASE kind[r] \in CreateKind
    <3>1. /\ rows' = IF found[r] = 0 THEN {nextRow} ELSE {found[r]}
          /\ nextRow' \in {nextRow, nextRow + 1} /\ job'[r] \in {"saveAgain", "reported"}
      BY <1>0, <1>3, <1>8, <2>1, <2>3 DEF WriteRow
    <3>2. nextRow' # 0
      BY <1>0, <1>3, <3>1
    <3> QED
      BY <1>3, <1>5, <2>1, <2>3, <3>1, <3>2 DEF StatusWhenOver
  <2> QED
    BY <1>0, <2>2, <2>3
<1>9. CASE SaveInfraAgain(r)
  <2>1. /\ job[r] = "saveAgain" /\ infraStatus' = StatusWhenOver(r) /\ job'[r] = "reported"
        /\ UNCHANGED <<found, rows, nextRow>> /\ succeeded[r]
    BY <1>0, <1>2, <1>9 DEF SaveInfraAgain, SavedBy
  <2> QED
    BY <1>3, <1>5, <2>1 DEF StatusWhenOver
<1> QED
  BY <1>6, <1>7, <1>8, <1>9

LEMMA RowsStep ==
  InfraInvariant /\ PatientInvariant /\ RowsInvariant /\ [Next]_vars => RowsInvariant'
<1> SUFFICES ASSUME InfraInvariant, PatientInvariant, RowsInvariant, [Next]_vars,
                    Patient, Resource # "registry"
             PROVE  RowsInvariant'
  BY DEF RowsInvariant, Patient
<1>0. /\ job \in [Request -> JobState] /\ kind \in [Request -> Kind] /\ succeeded \in [Request -> BOOLEAN]
  BY DEF InfraInvariant, TypeOK
<1>1. CASE UNCHANGED vars
  BY <1>1, RowsStay DEF vars
<1>2. ASSUME NEW r \in Request, CreateInfra(r) \/ \E k \in Kind : Receive(r, k)
      PROVE  RowsInvariant'
  <2>1. job[r] = "none"
    BY <1>2 DEF CreateInfra, Receive, PatientInvariant, HandlerMeetsJob
  <2>2. /\ UNCHANGED <<job, found, rows, nextRow>> /\ \A q \in Request : q # r => kind'[q] = kind[q]
        /\ infraStatus' \in {"creating", infraStatus}
    BY <1>0, <1>2 DEF CreateInfra, Receive
  <2> QED
    BY <2>1, <2>2, RowsStay
<1>3. ASSUME NEW r \in Request, HandlerStep(r)
      PROVE  RowsInvariant'
  <2>1. handler[r] \notin {"spawned", "answered"} \/ job[r] \in {"terraform", "failed"}
    BY <1>3 DEF HandlerStep, CheckLatest, MarkDestroying, AddOperation, PushStarted, Spawn, SaveStatus,
                PatientInvariant, HandlerMeetsJob
  <2>2. job[r] \in {"none", "terraform", "failed"}
    BY <2>1 DEF PatientInvariant, HandlerMeetsJob
  <2>3. /\ UNCHANGED <<kind, found, rows, nextRow>> /\ \A q \in Request : q # r => job'[q] = job[q]
        /\ job'[r] \in {job[r], "terraform"}
        /\ infraStatus' \in {"destroying", "creating", "updating", "deleting", infraStatus}
    BY <1>0, <1>3 DEF HandlerStep, CheckLatest, MarkDestroying, AddOperation, PushStarted, Spawn,
                      SaveStatus, StatusWhileRunning
  <2> QED
    BY <2>2, <2>3, RowsStay
<1>4. ASSUME NEW r \in Request,
             \/ \E ok \in BOOLEAN : Report(r, ok)
             \/ SaveOperation(r) \/ PushOperation(r) \/ PushGlobal(r) \/ PodExits(r) \/ PodDies(r) \/ RestartPod(r)
      PROVE  RowsInvariant'
  <2>1. /\ UNCHANGED <<kind, infraStatus, found, rows, nextRow>>
        /\ \A q \in Request : q # r => job'[q] = job[q]
        /\ job[r] \notin {"find", "write"} /\ job'[r] \notin {"find", "write", "saveAgain"}
    BY <1>0, <1>4 DEF Report, SaveOperation, PushOperation, PushGlobal, PodExits, PodDies, RestartPod
  <2> QED
    BY <2>1, RowsStay
<1>5. ASSUME NEW r \in Request, SaveInfra(r) \/ FindRow(r) \/ WriteRow(r) \/ SaveInfraAgain(r)
      PROVE  RowsInvariant'
  BY <1>5, RowsWritten
<1>6. \A r \in Request : ~HandlerFails(r) /\ ~ReportFails(r)
  BY DEF HandlerFails, ReportFails, Patient
<1> QED
  BY <1>1, <1>2, <1>3, <1>4, <1>5, <1>6 DEF Next, JobStep, Rest

\* Once nothing is going on, an infra that is "deleted" has no cluster or database listed and one
\* that is "created" has exactly one, with patient clients and whatever pods die and are
\* replaced. Not so for a registry, to which each update adds a row.
THEOREM RowsDoFollowStatus ==
  ASSUME Hazard \subseteq {"podDeath"}, Resource # "registry"
  PROVE  Spec => []RowsFollowStatus
<1>1. Init => RowsInvariant
  BY DEF Init, RowsInvariant
<1>2. InfraInvariant /\ PatientInvariant /\ RowsInvariant /\ [Next]_vars => RowsInvariant'
  BY RowsStep
<1>3. RowsInvariant => RowsFollowStatus
  <2> SUFFICES ASSUME RowsInvariant, Settled
               PROVE  /\ infraStatus = "deleted" => rows = {}
                      /\ infraStatus = "created" => rows # {} /\ Cardinality(rows) = 1
    BY DEF RowsFollowStatus
  <2>1. /\ infraStatus = "deleted" => rows = {}
        /\ infraStatus = "created" => rows # {}
        /\ \A i, k \in rows : i = k
    BY DEF Settled, JobOver, RowsInvariant, Patient
  <2>2. ASSUME NEW i \in rows
        PROVE  Cardinality(rows) = 1
    <3>1. rows = {i}
      BY <2>1
    <3> QED
      BY <3>1, FS_Singleton
  <2> QED
    BY <2>1, <2>2
<1> QED
  BY <1>1, <1>2, <1>3, InfraInvariantHolds, PatientInvariantHolds, PTL DEF Spec
=============================================================================
