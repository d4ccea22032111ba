-------------------------- MODULE WorkerPoolProofs --------------------------
(***************************************************************************)
(* PoolInvariant is inductive; the properties of the worker pool that      *)
(* follow from it hold for every number of jobs and workers and every size *)
(* of the queue. With RunningInvariant, that exactly the workers that run  *)
(* have a job each, every step of the pool is one of JobLifecycle or none. *)
(***************************************************************************)
EXTENDS WorkerPool, SequenceTheorems, FiniteSetTheorems, TLAPS

USE NoJobAssumption, MaxWorkersAssumption, MaxQueueAssumption, UUIDMayFailAssumption
    DEF Worker, RequestState, DispatcherState, HandoffState, WorkerState, MainState

\* The facts about a buffered channel that receiving from it and sending to it
\* rest on.
LEMMA Receiving ==
  ASSUME NEW S, NEW s \in Seq(S), s # << >>
  PROVE  /\ Head(s) = s[1] /\ s[1] \in S
         /\ Len(s) \in Nat /\ Len(s) >= 1
         /\ Tail(s) \in Seq(S)
         /\ Len(Tail(s)) = Len(s) - 1
         /\ \A i \in 1..Len(Tail(s)) : Tail(s)[i] = s[i + 1]
  BY HeadTailProperties, EmptySeq, LenProperties

LEMMA Sending ==
  ASSUME NEW S, NEW s \in Seq(S), NEW e \in S
  PROVE  /\ Append(s, e) \in Seq(S)
         /\ Len(s) \in Nat
         /\ Len(Append(s, e)) = Len(s) + 1
         /\ \A i \in 1..Len(s) : Append(s, e)[i] = s[i]
         /\ Append(s, e)[Len(s) + 1] = e
  BY AppendProperties, LenProperties

\* PoolInvariant holds before main() has started the dispatcher.
LEMMA PoolInit == Init => PoolInvariant
  BY DEF Init, PoolInvariant, TypeOK, StartedInOrder, JobInOnePlace, OneTokenPerWorker

-----------------------------------------------------------------------------
(* Each step of the pool preserves PoolInvariant.                          *)

LEMMA RequestStep ==
  ASSUME PoolInvariant, NEW j \in Job, Request(j)
  PROVE  PoolInvariant'
  BY DEF Request, PoolInvariant, TypeOK, StartedInOrder, JobInOnePlace, OneTokenPerWorker

LEMMA EnqueueStep ==
  ASSUME PoolInvariant, NEW j \in Job, Enqueue(j)
  PROVE  PoolInvariant'
<1> USE DEF PoolInvariant, Enqueue
<1>1. /\ jobQueue' \in Seq(Job)
      /\ Len(jobQueue) \in Nat
      /\ Len(jobQueue') = Len(jobQueue) + 1
      /\ \A i \in 1..Len(jobQueue) : jobQueue'[i] = jobQueue[i]
      /\ jobQueue'[Len(jobQueue) + 1] = j
  BY Sending DEF TypeOK
<1>2. TypeOK'
  BY <1>1 DEF TypeOK
<1>3. StartedInOrder'
  BY <1>1 DEF StartedInOrder, TypeOK
<1>4. JobInOnePlace'
  BY <1>1 DEF JobInOnePlace, TypeOK
<1>5. OneTokenPerWorker'
  BY <1>1 DEF OneTokenPerWorker, TypeOK
<1> QED BY <1>2, <1>3, <1>4, <1>5

LEMMA StartWorkerStep ==
  ASSUME PoolInvariant, StartWorker
  PROVE  PoolInvariant'
  BY DEF StartWorker, PoolInvariant, TypeOK, StartedInOrder, JobInOnePlace, OneTokenPerWorker

LEMMA UUIDFailsStep ==
  ASSUME PoolInvariant, UUIDFails
  PROVE  PoolInvariant'
  BY DEF UUIDFails, PoolInvariant, TypeOK, StartedInOrder, JobInOnePlace, OneTokenPerWorker

LEMMA DispatchStep ==
  ASSUME PoolInvariant, Dispatch
  PROVE  PoolInvariant'
<1> USE DEF PoolInvariant, Dispatch
<1>1. /\ Head(jobQueue) = jobQueue[1] /\ jobQueue[1] \in Job
      /\ Len(jobQueue) \in Nat /\ Len(jobQueue) >= 1
      /\ jobQueue' \in Seq(Job)
      /\ Len(jobQueue') = Len(jobQueue) - 1
      /\ \A i \in 1..Len(jobQueue') : jobQueue'[i] = jobQueue[i + 1]
  BY Receiving DEF TypeOK
<1>2. TypeOK'
  BY <1>1 DEF TypeOK, JobInOnePlace
<1>3. StartedInOrder'
  BY <1>1 DEF StartedInOrder, TypeOK
<1>4. JobInOnePlace'
  <2>1. \A i, k \in 1..Len(jobQueue') : jobQueue'[i] = jobQueue'[k] => i = k
    BY <1>1 DEF JobInOnePlace
  <2>2. \A i \in 1..Len(jobQueue') : jobQueue'[i] # jobQueue[1]
    BY <1>1 DEF JobInOnePlace
  <2>3. \A i \in 1..Len(jobQueue') : /\ request[jobQueue'[i]] = "created"
                                    /\ handoff'[jobQueue'[i]] = "none"
    BY <1>1, <2>2 DEF JobInOnePlace, TypeOK
  <2>4. ASSUME NEW j \in Job, request[j] = "created", handoff'[j] = "none"
        PROVE  \E i \in 1..Len(jobQueue') : jobQueue'[i] = j
    <3>1. PICK i \in 1..Len(jobQueue) : jobQueue[i] = j
      BY <2>4, <1>1 DEF JobInOnePlace, TypeOK
    <3>2. i # 1
      BY <2>4, <3>1, <1>1 DEF TypeOK
    <3> QED BY <3>1, <3>2, <1>1
  <2>5. \A j \in Job : /\ handoff'[j] # "none" => request[j] = "created"
                      /\ runs[j] = IF handoff'[j] = "done" THEN 1 ELSE 0
    BY <1>1 DEF JobInOnePlace, TypeOK
  <2> QED BY <2>1, <2>3, <2>4, <2>5 DEF JobInOnePlace
<1>5. OneTokenPerWorker'
  BY <1>1 DEF OneTokenPerWorker, TypeOK
<1> QED BY <1>2, <1>3, <1>4, <1>5

LEMMA ExitStep ==
  ASSUME PoolInvariant, Exit
  PROVE  PoolInvariant'
  BY DEF Exit, PoolInvariant, TypeOK, StartedInOrder, JobInOnePlace, OneTokenPerWorker

LEMMA StopWorkerStep ==
  ASSUME PoolInvariant, StopWorker
  PROVE  PoolInvariant'
<1> USE DEF PoolInvariant, StopWorker
<1>2. TypeOK'
  BY DEF TypeOK
<1>3. StartedInOrder'
  BY DEF StartedInOrder, TypeOK
<1>4. JobInOnePlace'
  BY DEF JobInOnePlace, TypeOK
<1>5. OneTokenPerWorker'
  BY DEF OneTokenPerWorker, TypeOK
<1> QED BY <1>2, <1>3, <1>4, <1>5

LEMMA TakeWorkerStep ==
  ASSUME PoolInvariant, NEW j \in Job, TakeWorker(j)
  PROVE  PoolInvariant'
<1> USE DEF PoolInvariant, TakeWorker
<1>1. /\ Head(pool) = pool[1] /\ pool[1] \in Worker
      /\ Len(pool) \in Nat /\ Len(pool) >= 1
      /\ pool' \in Seq(Worker)
      /\ Len(pool') = Len(pool) - 1
      /\ \A i \in 1..Len(pool') : pool'[i] = pool[i + 1]
  BY Receiving DEF TypeOK
<1>2. TypeOK'
  BY <1>1 DEF TypeOK
<1>3. StartedInOrder'
  BY <1>1 DEF StartedInOrder, TypeOK
<1>4. JobInOnePlace'
  BY <1>1 DEF JobInOnePlace, TypeOK
<1>5. OneTokenPerWorker'
  BY <1>1 DEF OneTokenPerWorker, TypeOK
<1> QED BY <1>2, <1>3, <1>4, <1>5

LEMMA DeliverStep ==
  ASSUME PoolInvariant, NEW j \in Job, Deliver(j)
  PROVE  PoolInvariant'
<1> USE DEF PoolInvariant, Deliver
<1>2. TypeOK'
  BY DEF TypeOK
<1>3. StartedInOrder'
  BY DEF StartedInOrder, TypeOK
<1>4. JobInOnePlace'
  BY DEF JobInOnePlace, TypeOK
<1>5. OneTokenPerWorker'
  BY DEF OneTokenPerWorker, TypeOK
<1> QED BY <1>2, <1>3, <1>4, <1>5

LEMMA RegisterStep ==
  ASSUME PoolInvariant, NEW w \in Worker, Register(w)
  PROVE  PoolInvariant'
<1> USE DEF PoolInvariant, Register
<1>1. /\ pool' \in Seq(Worker)
      /\ Len(pool) \in Nat
      /\ Len(pool') = Len(pool) + 1
      /\ \A i \in 1..Len(pool) : pool'[i] = pool[i]
      /\ pool'[Len(pool) + 1] = w
  BY Sending DEF TypeOK
<1>2. TypeOK'
  BY <1>1 DEF TypeOK
<1>3. StartedInOrder'
  BY <1>1 DEF StartedInOrder, TypeOK
<1>4. JobInOnePlace'
  BY <1>1 DEF JobInOnePlace, TypeOK
<1>5. OneTokenPerWorker'
  <2>1. \A i \in 1..Len(pool) : pool[i] # w
    BY DEF OneTokenPerWorker
  <2>2. \A i, k \in 1..Len(pool') : pool'[i] = pool'[k] => i = k
    BY <1>1, <2>1 DEF OneTokenPerWorker
  <2>3. \A i \in 1..Len(pool') :
           /\ worker'[pool'[i]] \in {"selecting", "quit"}
           /\ \A j \in Job : handoff[j] = "sending" => target[j] # pool'[i]
    <3>1. \A i \in 1..Len(pool) :
             /\ worker'[pool'[i]] \in {"selecting", "quit"}
             /\ \A j \in Job : handoff[j] = "sending" => target[j] # pool'[i]
      BY <1>1 DEF OneTokenPerWorker, TypeOK
    <3>2. \A j \in Job : handoff[j] = "sending" => target[j] # w
      BY DEF OneTokenPerWorker
    <3>3. worker'[w] = "selecting"
      BY DEF TypeOK
    <3> QED BY <1>1, <3>1, <3>2, <3>3
  <2>4. \A j \in Job : handoff[j] = "sending" =>
           worker'[target[j]] \in {"selecting", "quit"}
    BY DEF OneTokenPerWorker, TypeOK
  <2> QED BY <2>2, <2>3, <2>4 DEF OneTokenPerWorker
<1> QED BY <1>2, <1>3, <1>4, <1>5

LEMMA FinishJobStep ==
  ASSUME PoolInvariant, NEW w \in Worker, FinishJob(w)
  PROVE  PoolInvariant'
<1> USE DEF PoolInvariant, FinishJob
<1>2. TypeOK'
  BY DEF TypeOK
<1>3. StartedInOrder'
  BY DEF StartedInOrder, TypeOK
<1>4. JobInOnePlace'
  BY DEF JobInOnePlace, TypeOK
<1>5. OneTokenPerWorker'
  BY DEF OneTokenPerWorker, TypeOK
<1> QED BY <1>2, <1>3, <1>4, <1>5

LEMMA SignalStep ==
  ASSUME PoolInvariant, Signal
  PROVE  PoolInvariant'
  BY DEF Signal, PoolInvariant, TypeOK, StartedInOrder, JobInOnePlace, OneTokenPerWorker

LEMMA ShutdownCompletesStep ==
  ASSUME PoolInvariant, ShutdownCompletes
  PROVE  PoolInvariant'
  BY DEF ShutdownCompletes, PoolInvariant, TypeOK, StartedInOrder, JobInOnePlace, OneTokenPerWorker

LEMMA ShutdownTimesOutStep ==
  ASSUME PoolInvariant, ShutdownTimesOut
  PROVE  PoolInvariant'
  BY DEF ShutdownTimesOut, PoolInvariant, TypeOK, StartedInOrder, JobInOnePlace, OneTokenPerWorker

LEMMA MainReturnsStep ==
  ASSUME PoolInvariant, MainReturns
  PROVE  PoolInvariant'
  BY DEF MainReturns, PoolInvariant, TypeOK, StartedInOrder, JobInOnePlace, OneTokenPerWorker

LEMMA PoolStutters ==
  ASSUME PoolInvariant, UNCHANGED vars
  PROVE  PoolInvariant'
  BY DEF vars, PoolInvariant, TypeOK, StartedInOrder, JobInOnePlace, OneTokenPerWorker

\* PoolInvariant is an invariant of the pool.
THEOREM PoolInvariantHolds == Spec => []PoolInvariant
<1>1. PoolInvariant /\ [Next]_vars => PoolInvariant'
  BY RequestStep, EnqueueStep, StartWorkerStep, UUIDFailsStep, DispatchStep, ExitStep,
     StopWorkerStep, TakeWorkerStep, DeliverStep, RegisterStep, FinishJobStep, SignalStep,
     ShutdownCompletesStep, ShutdownTimesOutStep, MainReturnsStep, PoolStutters
     DEF Next, Dead
<1> QED BY PoolInit, <1>1, PTL DEF Spec
-----------------------------------------------------------------------------
(* What follows from PoolInvariant.                                        *)

\* Every variable keeps the type that TypeOK gives it.
THEOREM TypeCorrect == Spec => []TypeOK
  BY PoolInvariantHolds, PTL DEF PoolInvariant

\* An accepted job is neither lost before it is handed off nor run twice,
\* however handlers, dispatcher, hand-offs, workers and shutdown interleave.
THEOREM JobNeverLostNorRunTwice == Spec => []JobInOnePlace
  BY PoolInvariantHolds, PTL DEF PoolInvariant

\* The JobChannel of a worker is never in two places.
THEOREM TokenNeverDuplicated == Spec => []OneTokenPerWorker
  BY PoolInvariantHolds, PTL DEF PoolInvariant

\* The capacity of the pool is enough for every worker to put itself back: the
\* JobChannels in it belong to distinct workers, none of them the registering
\* one, so that one more would need more workers than there are.
LEMMA RoomInPool == PoolInvariant => PoolNeverBlocks
<1> SUFFICES ASSUME PoolInvariant, NEW w \in Worker, worker[w] = "registering",
                    Len(pool) >= MaxWorkers
             PROVE  FALSE
  BY LenProperties DEF PoolNeverBlocks, PoolInvariant, TypeOK
<1>1. pool \in Seq(Worker) /\ Len(pool) \in Nat
  BY LenProperties DEF PoolInvariant, TypeOK
<1> DEFINE Slots == 1..MaxWorkers
           Others == Worker \ {w}
           f == [i \in Slots |-> pool[i]]
<1>2. \A i \in Slots : pool[i] \in Others
  <2>1. \A i \in Slots : i \in 1..Len(pool)
    BY <1>1
  <2>2. \A i \in 1..Len(pool) : pool[i] \in Worker /\ pool[i] # w
    BY <1>1, ElementOfSeq DEF PoolInvariant, OneTokenPerWorker
  <2> QED BY <2>1, <2>2
<1>3. f \in [Slots -> Others]
  BY <1>2
<1>4. /\ IsFiniteSet(Slots)
      /\ Cardinality(Slots) = MaxWorkers
  BY FS_Interval
<1>5. /\ IsFiniteSet(Others)
      /\ Cardinality(Others) < Cardinality(Slots)
  <2>1. IsFiniteSet(Worker) /\ Cardinality(Worker) = MaxWorkers /\ w \in Worker
    BY <1>4
  <2>2. /\ IsFiniteSet(Others)
        /\ Cardinality(Others) = Cardinality(Worker) - 1
    BY <2>1, FS_RemoveElement
  <2> QED BY <2>1, <2>2, <1>4
<1> HIDE DEF Slots, Others, f
<1>6. PICK i, k \in Slots : i # k /\ f[i] = f[k]
  BY <1>3, <1>4, <1>5, FS_PigeonHole
<1>7. i \in 1..Len(pool) /\ k \in 1..Len(pool) /\ pool[i] = pool[k]
  BY <1>1, <1>6 DEF Slots, f
<1> QED BY <1>6, <1>7 DEF PoolInvariant, OneTokenPerWorker

\* No worker that has finished a job is ever stuck on the pool.
THEOREM WorkersNeverStuck == Spec => []PoolNeverBlocks
  BY PoolInvariantHolds, RoomInPool, PTL
-----------------------------------------------------------------------------
(* The pool implements JobLifecycle.                                       *)

\* Only a worker that is running has a job, one that was handed over, and no other has it.
RunningInvariant ==
  /\ \A w \in Worker : worker[w] = "running" <=> running[w] # NoJob
  /\ \A w \in Worker : running[w] # NoJob => handoff[running[w]] = "done"
  /\ \A v, w \in Worker : running[v] # NoJob /\ running[v] = running[w] => v = w

LEMMA RunningKept ==
  ASSUME PoolInvariant, RunningInvariant, [Next]_vars
  PROVE  RunningInvariant'
<1> USE DEF PoolInvariant, TypeOK
<1>1. ASSUME NEW j \in Job, Deliver(j)
      PROVE  RunningInvariant'
  <2>1. /\ target[j] \in Worker /\ running[target[j]] = NoJob /\ handoff[j] = "sending"
        /\ \A w \in Worker : running[w] # j
    BY <1>1 DEF Deliver, RunningInvariant
  <2>2. /\ running'[target[j]] = j /\ worker'[target[j]] = "running"
        /\ handoff'[j] = "done"
        /\ \A w \in Worker \ {target[j]} : running'[w] = running[w] /\ worker'[w] = worker[w]
        /\ \A k \in Job \ {j} : handoff'[k] = handoff[k]
    BY <1>1, <2>1 DEF Deliver
  <2>3. \A w \in Worker : running[w] # NoJob => running[w] \in Job \ {j}
    BY <2>1
  <2>4. ASSUME NEW w \in Worker
        PROVE  /\ running'[w] # NoJob => handoff'[running'[w]] = "done"
               /\ worker'[w] = "running" <=> running'[w] # NoJob
    <3>1. CASE w = target[j]
      BY <2>2, <3>1
    <3>2. CASE w # target[j]
      <4>1. running'[w] = running[w] /\ worker'[w] = worker[w]
        BY <2>2, <3>2
      <4> QED
        BY <2>2, <2>3, <4>1 DEF RunningInvariant
    <3> QED
      BY <3>1, <3>2
  <2>5. \A v, w \in Worker : running'[v] # NoJob /\ running'[v] = running'[w] => v = w
    BY <2>1, <2>2 DEF RunningInvariant
  <2> QED
    BY <2>4, <2>5 DEF RunningInvariant
<1>2. ASSUME NEW w \in Worker, FinishJob(w)
      PROVE  RunningInvariant'
  BY <1>2 DEF FinishJob, RunningInvariant
<1>3. ASSUME NEW w \in Worker, Register(w)
      PROVE  RunningInvariant'
  BY <1>3 DEF Register, RunningInvariant
<1>4. CASE StartWorker
  <2>1. worker[created + 1] = "unborn"
    BY <1>4 DEF StartWorker, StartedInOrder
  <2> QED
    BY <1>4, <2>1 DEF StartWorker, RunningInvariant
<1>5. CASE StopWorker
  BY <1>5 DEF StopWorker, RunningInvariant
<1>6. ASSUME NEW j \in Job, TakeWorker(j)
      PROVE  RunningInvariant'
  BY <1>6 DEF TakeWorker, RunningInvariant
<1>7. CASE Dispatch
  <2>1. jobQueue[1] = Head(jobQueue) /\ 1 \in 1..Len(jobQueue)
    BY <1>7, Receiving DEF Dispatch
  <2>2. handoff[Head(jobQueue)] = "none"
    BY <2>1 DEF JobInOnePlace
  <2> QED
    BY <1>7, <2>2 DEF Dispatch, RunningInvariant
<1>8. CASE UNCHANGED <<handoff, worker, running>>
  BY <1>8 DEF RunningInvariant
<1> QED
  BY <1>1, <1>2, <1>3, <1>4, <1>5, <1>6, <1>7, <1>8
  DEF Next, Request, Enqueue, UUIDFails, Exit, Signal, ShutdownCompletes, ShutdownTimesOut,
      MainReturns, Dead, vars

Busy == {k \in Job : jobStatus[k] = "running"}

\* A worker that has no job leaves one of MaxWorkers free.
LEMMA WorkersFree ==
  ASSUME PoolInvariant, RunningInvariant, NEW v \in Worker, running[v] = NoJob
  PROVE  Cardinality(Busy) < MaxWorkers
<1> DEFINE Others == {w \in Worker : running[w] # NoJob}
           R == {running[w] : w \in Others}
<1>1. IsFiniteSet(Worker) /\ Cardinality(Worker) = MaxWorkers /\ v \in Worker
  BY FS_Interval
<1>2. IsFiniteSet(Worker \ {v}) /\ Cardinality(Worker \ {v}) = Cardinality(Worker) - 1
  BY <1>1, FS_RemoveElement
<1>3. IsFiniteSet(Others) /\ Cardinality(Others) <= MaxWorkers - 1 /\ Cardinality(Others) \in Nat
  <2>1. Others \subseteq Worker \ {v}
    OBVIOUS
  <2> HIDE DEF Others
  <2>2. IsFiniteSet(Others) /\ Cardinality(Others) <= Cardinality(Worker \ {v})
    BY <1>2, <2>1, FS_Subset
  <2>3. Cardinality(Others) \in Nat
    BY <2>2, FS_CardinalityType
  <2> QED
    BY <1>1, <1>2, <2>2, <2>3
<1>4. IsFiniteSet(R) /\ Cardinality(R) <= Cardinality(Others)
  <2> DEFINE f == [w \in Others |-> running[w]]
  <2>1. f \in Surjection(Others, R)
    BY DEF Surjection
  <2> HIDE DEF f, Others, R
  <2> QED
    BY <1>3, <2>1, FS_Surjection
<1>5. Busy \subseteq R
  BY DEF Busy, jobStatus
<1> HIDE DEF Others, R
<1>6. Cardinality(Busy) <= Cardinality(R) /\ Cardinality(Busy) \in Nat /\ Cardinality(R) \in Nat
  BY <1>4, <1>5, FS_Subset, FS_CardinalityType
<1> QED
  BY <1>3, <1>4, <1>6

\* The abstract specification counts as the pool does.
LEMMA SameCardinality == \A S : Lifecycle!Cardinality(S) = Cardinality(S)
BY DEF Lifecycle!Cardinality, Cardinality

\* The status of one job changes.
LEMMA OneStatus ==
  ASSUME NEW j \in Job, \A k \in Job \ {j} : jobStatus'[k] = jobStatus[k]
  PROVE  jobStatus' = [jobStatus EXCEPT ![j] = jobStatus'[j]]
<1>1. jobStatus = [k \in Job |-> jobStatus[k]]
  BY DEF jobStatus
<1>2. jobStatus' = [k \in Job |-> jobStatus'[k]]
  BY DEF jobStatus
<1> QED
  BY <1>1, <1>2

LEMMA LifecycleInit == Init => Lifecycle!Init
BY DEF Init, Lifecycle!Init, jobStatus, Alive

\* The status that a job has and whether the process is there, from what they are made of.
LEMMA LifecycleStutters ==
  ASSUME jobStatus' = jobStatus, Alive' = Alive
  PROVE  UNCHANGED Lifecycle!vars
BY DEF Lifecycle!vars

\* Every step of the pool is one of a job's life, or the end of the process, or shows nothing.
LEMMA LifecycleStep ==
  ASSUME PoolInvariant, RunningInvariant, [Next]_vars
  PROVE  [Lifecycle!Next]_Lifecycle!vars
<1> USE DEF PoolInvariant, TypeOK
<1>1. ASSUME NEW j \in Job, Enqueue(j)
      PROVE  Lifecycle!Accept(j)
  <2>1. Alive /\ Alive' /\ jobStatus[j] = "new"
    BY <1>1 DEF Enqueue, Alive, jobStatus
  <2>2. runs[j] = 0
    BY <1>1 DEF Enqueue, JobInOnePlace
  <2>3. jobStatus' = [jobStatus EXCEPT ![j] = "accepted"]
    BY <1>1, <2>2 DEF Enqueue, jobStatus
  <2> QED
    BY <2>1, <2>3 DEF Lifecycle!Accept, Lifecycle!Move
<1>2. ASSUME NEW j \in Job, Deliver(j)
      PROVE  Lifecycle!Start(j)
  <2>1. /\ Alive /\ Alive' /\ request[j] = "created" /\ runs[j] = 0
        /\ target[j] \in Worker /\ running[target[j]] = NoJob
    BY <1>2 DEF Deliver, Alive, JobInOnePlace, RunningInvariant
  <2>2. jobStatus[j] = "accepted"
    BY <2>1 DEF jobStatus
  <2>3. runs'[j] = 1 /\ running'[target[j]] = j
    BY <1>2, <2>1 DEF Deliver
  <2>4. jobStatus'[j] = "running"
    BY <1>2, <2>1, <2>3 DEF Deliver, jobStatus
  <2>5. \A k \in Job \ {j} : jobStatus'[k] = jobStatus[k]
    <3>1. \A k \in Job \ {j} : runs'[k] = runs[k] /\ request'[k] = request[k]
      BY <1>2 DEF Deliver
    <3>2. \A k \in Job \ {j} : (\E w \in Worker : running'[w] = k) <=> (\E w \in Worker : running[w] = k)
      BY <1>2, <2>1 DEF Deliver
    <3> QED
      BY <3>1, <3>2 DEF jobStatus
  <2>6. jobStatus' = [jobStatus EXCEPT ![j] = "running"]
    BY <2>4, <2>5, OneStatus
  <2>7. Cardinality({k \in Job : jobStatus[k] = "running"}) < MaxWorkers
    BY <2>1, WorkersFree DEF Busy
  <2> QED
    BY <2>1, <2>2, <2>6, <2>7, SameCardinality DEF Lifecycle!Start, Lifecycle!Move
<1>3. ASSUME NEW w \in Worker, FinishJob(w)
      PROVE  Lifecycle!Finish(running[w])
  <2>1. PICK j \in Job : j = running[w] /\ worker[w] = "running"
    BY <1>3 DEF FinishJob, RunningInvariant
  <2>2. /\ Alive /\ Alive' /\ request[j] = "created" /\ runs[j] = 1
        /\ \A v \in Worker : running[v] = j => v = w
    BY <1>3, <2>1 DEF FinishJob, Alive, JobInOnePlace, RunningInvariant
  <2>3. jobStatus[j] = "running"
    BY <2>1, <2>2 DEF jobStatus
  <2>4. /\ running'[w] = NoJob /\ \A v \in Worker \ {w} : running'[v] = running[v]
        /\ runs' = runs /\ request' = request
    BY <1>3 DEF FinishJob
  <2>5. \A v \in Worker : running'[v] # j
    BY <2>2, <2>4
  <2>6. jobStatus'[j] = "done"
    BY <2>2, <2>4, <2>5 DEF jobStatus
  <2>7. \A k \in Job \ {j} : jobStatus'[k] = jobStatus[k]
    <3>1. \A k \in Job \ {j}, v \in Worker : running'[v] = k <=> running[v] = k
      BY <2>1, <2>4
    <3> QED
      BY <2>4, <3>1 DEF jobStatus
  <2>8. jobStatus' = [jobStatus EXCEPT ![j] = "done"]
    BY <2>6, <2>7, OneStatus
  <2> QED
    BY <2>1, <2>2, <2>3, <2>8 DEF Lifecycle!Finish, Lifecycle!Move
<1>4. CASE ShutdownTimesOut \/ MainReturns
  <2>1. Alive /\ ~Alive' /\ jobStatus' = jobStatus
    BY <1>4 DEF ShutdownTimesOut, MainReturns, Alive, jobStatus
  <2> QED
    BY <2>1 DEF Lifecycle!Next, Lifecycle!End
<1>5. CASE UNCHANGED <<runs, running>> /\ (UNCHANGED request \/ \E j \in Job : Request(j)) /\ Alive' = Alive
  <2>1. \A j \in Job : request'[j] = "created" <=> request[j] = "created"
    BY <1>5 DEF Request
  <2>2. jobStatus' = jobStatus
    BY <1>5, <2>1 DEF jobStatus
  <2> QED
    BY <1>5, <2>2, LifecycleStutters
<1> QED
  <2>1. CASE UNCHANGED vars
    BY <1>5, <2>1 DEF vars, Alive
  <2>2. CASE \E j \in Job : Request(j) \/ TakeWorker(j)
    BY <1>5, <2>2 DEF Request, TakeWorker, Alive
  <2>3. CASE \/ \E w \in Worker : Register(w)
             \/ StartWorker \/ UUIDFails \/ Dispatch \/ Exit \/ StopWorker
             \/ Signal \/ ShutdownCompletes \/ Dead
    BY <1>5, <2>3 DEF Register, StartWorker, UUIDFails, Dispatch, Exit, StopWorker, Signal,
                      ShutdownCompletes, Dead, vars, Alive
  <2>4. CASE \E j \in Job : Enqueue(j) \/ Deliver(j)
    BY <1>1, <1>2, <2>4 DEF Lifecycle!Next
  <2>5. CASE \E w \in Worker : FinishJob(w)
    <3>1. PICK w \in Worker : FinishJob(w)
      BY <2>5
    <3>2. running[w] \in Job
      BY <3>1 DEF FinishJob, RunningInvariant
    <3> QED
      BY <1>3, <3>1, <3>2 DEF Lifecycle!Next
  <2> QED
    BY <1>4, <2>1, <2>2, <2>3, <2>4, <2>5 DEF Next

\* The pool keeps the promise of JobLifecycle: of any number of jobs each is accepted, started
\* and finished in this order and once, at most MaxWorkers are running, and none goes on when
\* the process is gone.
THEOREM PoolImplementsLifecycle == Spec => ImplementsLifecycle
<1>1. Init => RunningInvariant
  BY DEF Init, RunningInvariant
<1>2. PoolInvariant /\ RunningInvariant /\ [Next]_vars => RunningInvariant'
  BY RunningKept
<1>3. Init => Lifecycle!Init
  BY LifecycleInit
<1>4. PoolInvariant /\ RunningInvariant /\ [Next]_vars => [Lifecycle!Next]_Lifecycle!vars
  BY LifecycleStep
<1> QED
  BY <1>1, <1>2, <1>3, <1>4, PoolInvariantHolds, PTL
  DEF Spec, ImplementsLifecycle, Lifecycle!Spec
=============================================================================
