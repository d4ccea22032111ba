----------------------------- MODULE WorkerPool -----------------------------
(***************************************************************************)
(* The background worker pool: the HTTP enqueue handlers and main() of     *)
(* workers/main.go, the dispatcher and the workers of internal/worker.     *)
(* Every goroutine is a program counter; every channel operation is one    *)
(* action, an unbuffered one a joint step of its sender and its receiver.  *)
(*                                                                         *)
(*   handler of job j   request[j]                                         *)
(*   dispatcher         dispatcher, created, stopped                       *)
(*   hand-off of job j  handoff[j], target[j]  (dispatcher.go:56)          *)
(*   worker w           worker[w], running[w]                              *)
(*   main()             main                                               *)
(***************************************************************************)
EXTENDS Integers, Sequences, FiniteSets

CONSTANTS Job,           \* the jobs that requests carry, each enqueued once
          NoJob,         \* what an idle worker runs
          MaxWorkers,    \* MAX_WORKERS
          MaxQueue,      \* MAX_QUEUE, the buffer of jobQueue
          UUIDMayFail    \* whether uuid.NewUUID may return an error

ASSUME NoJobAssumption == NoJob \notin Job
ASSUME MaxWorkersAssumption == MaxWorkers \in Nat \ {0}
ASSUME MaxQueueAssumption == MaxQueue \in Nat \ {0}
ASSUME UUIDMayFailAssumption == UUIDMayFail \in BOOLEAN

Worker == 1..MaxWorkers    \* in the order of the slice `workers`

VARIABLES
  request,      \* what the POST handler that carries a job is doing
  jobQueue,     \* the buffered channel of jobs
  dispatcher,   \* where the goroutine of Run is
  created,      \* how many workers it has started
  stopped,      \* how many of its Stop calls have returned
  handoff,      \* where the hand-off goroutine of a job is
  target,       \* the worker whose JobChannel it received from the pool, or 0
  pool,         \* the buffered channel d.WorkerPool of JobChannels
  worker,       \* where the goroutine of a worker is
  running,      \* the job a worker is running
  runs,         \* how many times Run was called on a job (history)
  main          \* where main() is

vars == <<request, jobQueue, dispatcher, created, stopped, handoff, target,
          pool, worker, running, runs, main>>

RequestState    == {"none", "sending", "created"}
DispatcherState == {"creating", "selecting", "stopping", "returned"}
HandoffState    == {"none", "receiving", "sending", "done"}
WorkerState     == {"unborn", "registering", "selecting", "running", "quit"}
MainState       == {"serving", "shuttingDown", "exiting", "returning", "dead"}

Init ==
  /\ request = [j \in Job |-> "none"]
  /\ jobQueue = << >>
  /\ dispatcher = "creating"
  /\ created = 0
  /\ stopped = 0
  /\ handoff = [j \in Job |-> "none"]
  /\ target = [j \in Job |-> 0]
  /\ pool = << >>
  /\ worker = [w \in Worker |-> "unborn"]
  /\ running = [w \in Worker |-> NoJob]
  /\ runs = [j \in Job |-> 0]
  /\ main = "serving"

Alive == main # "dead"
-----------------------------------------------------------------------------
(* Faulty variants of the actions below. They are no part of the system:   *)
(* each is what a plausible mistake would make of an action, and is put in *)
(* its place to see that a property fails.                                 *)

\* The hand-off looks at the first worker of the pool without removing it.
TakeWorkerPeeks(j) ==
  /\ Alive
  /\ handoff[j] = "receiving"
  /\ pool # << >>
  /\ target' = [target EXCEPT ![j] = Head(pool)]
  /\ handoff' = [handoff EXCEPT ![j] = "sending"]
  /\ UNCHANGED <<request, jobQueue, dispatcher, created, stopped, pool,
                 worker, running, runs, main>>

\* The job is dropped when no worker is free.
DispatchDrops ==
  /\ Alive
  /\ dispatcher = "selecting"
  /\ jobQueue # << >>
  /\ handoff' = [handoff EXCEPT ![Head(jobQueue)] =
                    IF pool = << >> THEN "none" ELSE "receiving"]
  /\ jobQueue' = Tail(jobQueue)
  /\ UNCHANGED <<request, dispatcher, created, stopped, target, pool, worker,
                 running, runs, main>>

\* A job that failed is handed off once more.
FinishJobRetries(w) ==
  /\ Alive
  /\ worker[w] = "running"
  /\ worker' = [worker EXCEPT ![w] = "registering"]
  /\ running' = [running EXCEPT ![w] = NoJob]
  /\ handoff' = [handoff EXCEPT ![running[w]] = "receiving"]
  /\ UNCHANGED <<request, jobQueue, dispatcher, created, stopped, target, pool,
                 runs, main>>

\* The dispatcher is told to stop before the server is shut down.
SignalStopsDispatcher ==
  /\ main = "serving"
  /\ dispatcher = "selecting"
  /\ main' = "shuttingDown"
  /\ dispatcher' = "stopping"
  /\ UNCHANGED <<request, jobQueue, created, stopped, handoff, target, pool,
                 worker, running, runs>>
-----------------------------------------------------------------------------
(* The HTTP handler of POST /enqueue/{id}.                                 *)

\* A request arrives and getJob makes its job; the server accepts no request
\* once Shutdown has been called.
Request(j) ==
  /\ main = "serving"
  /\ request[j] = "none"
  /\ request' = [request EXCEPT ![j] = "sending"]
  /\ UNCHANGED <<jobQueue, dispatcher, created, stopped, handoff, target,
                 pool, worker, running, runs, main>>

\* jobQueue <- job, which blocks while the buffer is full, and the 201.
Enqueue(j) ==
  /\ Alive
  /\ request[j] = "sending"
  /\ Len(jobQueue) < MaxQueue
  /\ jobQueue' = Append(jobQueue, j)
  /\ request' = [request EXCEPT ![j] = "created"]
  /\ UNCHANGED <<dispatcher, created, stopped, handoff, target, pool, worker,
                 running, runs, main>>
-----------------------------------------------------------------------------
(* The goroutine of Dispatcher.Run.                                        *)

\* One turn of the loop that makes and starts the workers.
StartWorker ==
  /\ Alive
  /\ dispatcher = "creating"
  /\ created < MaxWorkers
  /\ created' = created + 1
  /\ worker' = [worker EXCEPT ![created'] = "registering"]
  /\ dispatcher' = IF created' = MaxWorkers THEN "selecting" ELSE "creating"
  /\ UNCHANGED <<request, jobQueue, stopped, handoff, target, pool, running,
                 runs, main>>

\* NewUUID fails: the goroutine returns, the workers made so far live on.
UUIDFails ==
  /\ Alive
  /\ UUIDMayFail
  /\ dispatcher = "creating"
  /\ dispatcher' = "returned"
  /\ UNCHANGED <<request, jobQueue, created, stopped, handoff, target, pool,
                 worker, running, runs, main>>

\* case job := <-jobQueue: spawn the hand-off goroutine of the job.
Dispatch ==
  /\ Alive
  /\ dispatcher = "selecting"
  /\ jobQueue # << >>
  /\ handoff' = [handoff EXCEPT ![Head(jobQueue)] = "receiving"]
  /\ jobQueue' = Tail(jobQueue)
  /\ UNCHANGED <<request, dispatcher, created, stopped, target, pool, worker,
                 running, runs, main>>

\* case <-d.exitChan, a rendezvous with main() in d.Exit().
Exit ==
  /\ main = "exiting"
  /\ dispatcher = "selecting"
  /\ dispatcher' = "stopping"
  /\ main' = "returning"
  /\ UNCHANGED <<request, jobQueue, created, stopped, handoff, target, pool,
                 worker, running, runs>>

\* w.Stop() of the next worker, a rendezvous with that worker's select.
StopWorker ==
  /\ Alive
  /\ dispatcher = "stopping"
  /\ stopped < created
  /\ worker[stopped + 1] = "selecting"
  /\ worker' = [worker EXCEPT ![stopped + 1] = "quit"]
  /\ stopped' = stopped + 1
  /\ dispatcher' = IF stopped' = created THEN "returned" ELSE "stopping"
  /\ UNCHANGED <<request, jobQueue, created, handoff, target, pool, running,
                 runs, main>>
-----------------------------------------------------------------------------
(* The hand-off goroutines and the workers.                                *)

\* workerJobChan := <-d.WorkerPool
TakeWorker(j) ==
  /\ Alive
  /\ handoff[j] = "receiving"
  /\ pool # << >>
  /\ target' = [target EXCEPT ![j] = Head(pool)]
  /\ pool' = Tail(pool)
  /\ handoff' = [handoff EXCEPT ![j] = "sending"]
  /\ UNCHANGED <<request, jobQueue, dispatcher, created, stopped, worker,
                 running, runs, main>>

\* workerJobChan <- job, received by the select of the worker, which calls Run.
Deliver(j) ==
  /\ Alive
  /\ handoff[j] = "sending"
  /\ worker[target[j]] = "selecting"
  /\ handoff' = [handoff EXCEPT ![j] = "done"]
  /\ worker' = [worker EXCEPT ![target[j]] = "running"]
  /\ running' = [running EXCEPT ![target[j]] = j]
  /\ runs' = [runs EXCEPT ![j] = @ + 1]
  /\ UNCHANGED <<request, jobQueue, dispatcher, created, stopped, target,
                 pool, main>>

\* w.WorkerPool <- w.JobChannel, which blocks while the pool is full.
Register(w) ==
  /\ Alive
  /\ worker[w] = "registering"
  /\ Len(pool) < MaxWorkers
  /\ pool' = Append(pool, w)
  /\ worker' = [worker EXCEPT ![w] = "selecting"]
  /\ UNCHANGED <<request, jobQueue, dispatcher, created, stopped, handoff,
                 target, running, runs, main>>

\* job.Run() returns, with an error that is only logged or without one.
FinishJob(w) ==
  /\ Alive
  /\ worker[w] = "running"
  /\ worker' = [worker EXCEPT ![w] = "registering"]
  /\ running' = [running EXCEPT ![w] = NoJob]
  /\ UNCHANGED <<request, jobQueue, dispatcher, created, stopped, handoff,
                 target, pool, runs, main>>
-----------------------------------------------------------------------------
(* main() and its signal goroutine.                                        *)

Signal ==
  /\ main = "serving"
  /\ main' = "shuttingDown"
  /\ UNCHANGED <<request, jobQueue, dispatcher, created, stopped, handoff,
                 target, pool, worker, running, runs>>

\* server.Shutdown returns once no handler is active; serverStopCtx().
ShutdownCompletes ==
  /\ main = "shuttingDown"
  /\ \A j \in Job : request[j] # "sending"
  /\ main' = "exiting"
  /\ UNCHANGED <<request, jobQueue, dispatcher, created, stopped, handoff,
                 target, pool, worker, running, runs>>

\* The 30 s of shutdownCtx pass: log.Fatal.
ShutdownTimesOut ==
  /\ main = "shuttingDown"
  /\ main' = "dead"
  /\ UNCHANGED <<request, jobQueue, dispatcher, created, stopped, handoff,
                 target, pool, worker, running, runs>>

\* main returns, which ends every goroutine of the process.
MainReturns ==
  /\ main = "returning"
  /\ main' = "dead"
  /\ UNCHANGED <<request, jobQueue, dispatcher, created, stopped, handoff,
                 target, pool, worker, running, runs>>

\* A process that has ended stays so.
Dead == main = "dead" /\ UNCHANGED vars

Next ==
  \/ \E j \in Job : Request(j) \/ Enqueue(j) \/ TakeWorker(j) \/ Deliver(j)
  \/ \E w \in Worker : Register(w) \/ FinishJob(w)
  \/ StartWorker \/ UUIDFails \/ Dispatch \/ Exit \/ StopWorker
  \/ Signal \/ ShutdownCompletes \/ ShutdownTimesOut \/ MainReturns \/ Dead

Spec == Init /\ [][Next]_vars

\* A goroutine that stays able to run does run, and a job's Run returns. No
\* fairness on Request, Signal, UUIDFails and ShutdownTimesOut: they may never be.
Fairness ==
  /\ \A j \in Job : WF_vars(Enqueue(j)) /\ WF_vars(TakeWorker(j)) /\ WF_vars(Deliver(j))
  /\ \A w \in Worker : WF_vars(Register(w)) /\ WF_vars(FinishJob(w))
  /\ WF_vars(StartWorker) /\ WF_vars(Dispatch) /\ WF_vars(Exit) /\ WF_vars(StopWorker)
  /\ WF_vars(ShutdownCompletes) /\ WF_vars(MainReturns)

FairSpec == Spec /\ Fairness
-----------------------------------------------------------------------------
(* Properties.                                                             *)

TypeOK ==
  /\ request \in [Job -> RequestState]
  /\ jobQueue \in Seq(Job)
  /\ dispatcher \in DispatcherState
  /\ created \in 0..MaxWorkers
  /\ stopped \in 0..created
  /\ handoff \in [Job -> HandoffState]
  /\ target \in [Job -> Worker \cup {0}]
  /\ \A j \in Job : handoff[j] \in {"sending", "done"} <=> target[j] # 0
  /\ pool \in Seq(Worker)
  /\ worker \in [Worker -> WorkerState]
  /\ running \in [Worker -> Job \cup {NoJob}]
  /\ runs \in [Job -> Nat]
  /\ main \in MainState

\* A job that a handler answered 201 for is in exactly one place: in the buffer,
\* with the one hand-off goroutine spawned for it, or run, and run only once.
\* (The buffered channel, the goroutine per job and the select of the worker.)
JobInOnePlace ==
  /\ \A i, k \in 1..Len(jobQueue) : jobQueue[i] = jobQueue[k] => i = k
  /\ \A i \in 1..Len(jobQueue) : /\ request[jobQueue[i]] = "created"
                                 /\ handoff[jobQueue[i]] = "none"
  /\ \A j \in Job : request[j] = "created" =>
        \/ handoff[j] # "none"
        \/ \E i \in 1..Len(jobQueue) : jobQueue[i] = j
  /\ \A j \in Job : /\ handoff[j] # "none" => request[j] = "created"
                    /\ runs[j] = IF handoff[j] = "done" THEN 1 ELSE 0

\* The JobChannel of a worker is in the pool, or in the hands of a hand-off
\* goroutine, at most once altogether, and not at all while the worker is
\* neither listening on it nor gone.
OneTokenPerWorker ==
  /\ \A i, k \in 1..Len(pool) : pool[i] = pool[k] => i = k
  /\ \A j, l \in Job :
        (handoff[j] = "sending" /\ handoff[l] = "sending" /\ target[j] = target[l]) => j = l
  /\ \A i \in 1..Len(pool) :
        /\ worker[pool[i]] \in {"selecting", "quit"}
        /\ \A j \in Job : handoff[j] = "sending" => target[j] # pool[i]
  /\ \A j \in Job : handoff[j] = "sending" =>
        worker[target[j]] \in {"selecting", "quit"}

\* The workers started so far are an initial segment of the slice.
StartedInOrder ==
  /\ \A w \in Worker : worker[w] = "unborn" <=> w > created
  /\ dispatcher = "creating" => created < MaxWorkers

\* The inductive invariant of the pool.
PoolInvariant == TypeOK /\ StartedInOrder /\ JobInOnePlace /\ OneTokenPerWorker

\* A worker that has finished a job never blocks on putting itself back in the
\* pool: the capacity maxWorkers that NewDispatcher gives it is enough.
PoolNeverBlocks ==
  \A w \in Worker : worker[w] = "registering" => Len(pool) < MaxWorkers

\* NewUUID failed before every worker had been created: the dispatcher has given up,
\* main does not know (the FIXME of dispatcher.go), and nothing below is promised.
DispatcherGaveUp == dispatcher = "returned" /\ created < MaxWorkers

\* Unless the process is told to stop, a job that a handler answered 201 for is
\* run in the end.
AcceptedJobRuns ==
  \A j \in Job : request[j] = "created" ~>
                    (runs[j] = 1 \/ main # "serving" \/ DispatcherGaveUp)

\* A shutdown ends the process whatever jobs are queued, handed off or running:
\* no handler stays blocked on jobQueue and d.Exit() finds the dispatcher.
ShutdownEnds == main = "shuttingDown" ~> (main = "dead" \/ DispatcherGaveUp)
-----------------------------------------------------------------------------
(* What the pool promises of each job, see JobLifecycle.                   *)

jobStatus ==
  [j \in Job |-> IF request[j] # "created" THEN "new"
                 ELSE IF runs[j] = 0 THEN "accepted"
                 ELSE IF \E w \in Worker : running[w] = j THEN "running"
                 ELSE "done"]

Lifecycle == INSTANCE JobLifecycle WITH status <- jobStatus, up <- Alive

ImplementsLifecycle == Lifecycle!Spec
=============================================================================
