--------------------------- MODULE OperationStream ---------------------------
(***************************************************************************)
(* A client that watches the logs or the state of an operation: the        *)
(* websocket handler of the API server (InfraStreamLogHandler or           *)
(* InfraStreamStateHandler), the gRPC call it makes of the provisioner     *)
(* (GetLog or GetStateUpdate) and the goroutines of StreamOperationLogs or *)
(* StreamStateUpdate, which read the Redis stream of the operation.        *)
(*                                                                         *)
(* On both sides a few goroutines share an unbuffered channel of errors.   *)
(* Each sends to it before it ends, another closes it when all have ended, *)
(* and the function itself receives from it until it is closed, cancelling *)
(* everything each time. A send and the receive it meets are one step.     *)
(***************************************************************************)
EXTENDS Integers

CONSTANTS
  Kind,          \* what is watched: "logs" or "state"
  MaxEntries,    \* bound: the entries pushed to the stream
  RedisMayFail   \* whether a call of Redis may return an error

ASSUME KindAssumption == Kind \in {"logs", "state"}
ASSUME BoundAssumption == MaxEntries \in Nat /\ RedisMayFail \in BOOLEAN

Worker == {"watcher", "pinger", "reader"}    \* the goroutines in the provisioner
Relay == {"socket", "receiver"}              \* those in the API server

VARIABLES
  entries, gone,   \* the stream: the entries pushed to it, whether it has been removed
  completed,       \* whether the operation was "completed" when the call was made
  call,            \* the gRPC call: "called", "running" or "returned"
  worker,          \* each goroutine: "running", "reading" (in XRead), "sending" or "done"
  closed,          \* the channel of errors has been closed
  failedCount,     \* of the pinger
  lastID, sent,    \* of the reader: the last entry it has read, and sent to the client
  redisCanceled,   \* redisCtx is done
  ctxDone,         \* the context of the call is done, in the provisioner
  relay,           \* each goroutine: "running", "sending", "sendingOn" or "done"
  relayClosed,     \* their channel has been closed
  handler,         \* the websocket handler: "running" or "returned"
  canceled,        \* it has cancelled the call
  connected,       \* the websocket is open
  shown            \* the last entry that was written to it

stream == <<entries, gone, completed>>
provisionerVars == <<call, worker, closed, failedCount, lastID, sent, redisCanceled>>
apiVars == <<relay, relayClosed, handler, canceled, connected, shown>>
vars == <<stream, provisionerVars, ctxDone, apiVars>>

Init ==
  /\ entries = 0 /\ gone = FALSE
  /\ completed \in BOOLEAN
  /\ call = "called"
  /\ worker = [g \in Worker |-> "running"]
  /\ closed = FALSE
  /\ failedCount = 0 /\ lastID = 0 /\ sent = 0
  /\ redisCanceled = FALSE /\ ctxDone = FALSE
  /\ relay = [g \in Relay |-> "running"]
  /\ relayClosed = FALSE
  /\ handler = "running" /\ canceled = FALSE
  /\ connected = TRUE /\ shown = 0

StreamExists == entries > 0 /\ ~gone

-----------------------------------------------------------------------------
(* Faulty variants of definitions below, no part of the system: each is    *)
(* what a plausible mistake would make of one, put in its place to see     *)
(* that a property fails.                                                  *)

\* XRead is given the context of the call.
ReadCanceledByClient == ctxDone

\* The reader reads only once.
XReadOnce ==
  /\ worker["reader"] = "reading" /\ ~redisCanceled
  /\ lastID = 0 /\ StreamExists
  /\ lastID' = entries
  /\ worker' = [worker EXCEPT !["reader"] = "running"]
  /\ UNCHANGED <<stream, call, closed, failedCount, sent, redisCanceled, ctxDone, apiVars>>

\* The WaitGroup counts two of the three goroutines.
CloseErrorsAfterTwo ==
  /\ call = "running" /\ ~closed
  /\ \E g \in Worker : \A h \in Worker \ {g} : worker[h] = "done"
  /\ closed' = TRUE
  /\ UNCHANGED <<stream, call, worker, failedCount, lastID, sent, redisCanceled, ctxDone, apiVars>>

\* The handler forgets to cancel the call.
RelayErrorOnly(g) ==
  /\ relay[g] \in {"sending", "sendingOn"} /\ ~relayClosed
  /\ relay' = [relay EXCEPT ![g] = IF relay[g] = "sendingOn" THEN "running" ELSE "done"]
  /\ connected' = FALSE
  /\ UNCHANGED <<stream, provisionerVars, ctxDone, relayClosed, handler, canceled, shown>>

-----------------------------------------------------------------------------
(* The operation, the cleanup of its streams, the client and the network.  *)

PushEntry ==
  /\ ~gone /\ entries < MaxEntries
  /\ entries' = entries + 1
  /\ UNCHANGED <<gone, completed, provisionerVars, ctxDone, apiVars>>

RemoveStream ==
  /\ StreamExists
  /\ gone' = TRUE
  /\ UNCHANGED <<entries, completed, provisionerVars, ctxDone, apiVars>>

ClientLeaves ==
  /\ connected
  /\ connected' = FALSE
  /\ UNCHANGED <<stream, provisionerVars, ctxDone, relay, relayClosed, handler, canceled, shown>>

\* A call that was cancelled by its client, or has returned, has its context done.
ContextEnds ==
  /\ canceled \/ call = "returned"
  /\ ~ctxDone
  /\ ctxDone' = TRUE
  /\ UNCHANGED <<stream, provisionerVars, apiVars>>

-----------------------------------------------------------------------------
(* GetLog, GetStateUpdate and the goroutines they start.                   *)

\* GetLog returns at once when the operation is "completed".
StartCall ==
  /\ call = "called"
  /\ call' = IF Kind = "logs" /\ completed THEN "returned" ELSE "running"
  /\ UNCHANGED <<stream, worker, closed, failedCount, lastID, sent, redisCanceled,
                 ctxDone, apiVars>>

Becomes(g, state) == worker' = [worker EXCEPT ![g] = state]

\* The first goroutine waits for either context to be done.
Watch ==
  /\ call = "running" /\ worker["watcher"] = "running"
  /\ ctxDone \/ redisCanceled
  /\ Becomes("watcher", "sending")
  /\ UNCHANGED <<stream, call, closed, failedCount, lastID, sent, redisCanceled,
                 ctxDone, apiVars>>

\* The second asks every five seconds whether the stream is there.
Ping ==
  /\ call = "running" /\ worker["pinger"] = "running"
  /\ \E failed \in BOOLEAN :
       /\ failed => RedisMayFail
       /\ failedCount' = IF failed \/ ~StreamExists THEN failedCount + 1 ELSE 0
  /\ IF failedCount' >= 2 THEN Becomes("pinger", "sending") ELSE UNCHANGED worker
  /\ UNCHANGED <<stream, call, closed, lastID, sent, redisCanceled, ctxDone, apiVars>>

\* The third goroutine, at the head of its loop: it ends when redisCtx is done, and
\* else is blocked in XRead until there is an entry it has not read.
CheckRedisCtx ==
  /\ call = "running" /\ worker["reader"] = "running"
  /\ sent = lastID
  /\ Becomes("reader", IF redisCanceled THEN "sending" ELSE "reading")
  /\ UNCHANGED <<stream, call, closed, failedCount, lastID, sent, redisCanceled,
                 ctxDone, apiVars>>

\* What the reader passes to XRead: StreamStateUpdate gives it the context of the
\* call, StreamOperationLogs the one that it cancels itself.
ReadCanceled == IF Kind = "logs" THEN redisCanceled ELSE ctxDone

\* XRead returns all the entries there are.
XRead ==
  /\ worker["reader"] = "reading" /\ ~ReadCanceled
  /\ ~gone /\ lastID < entries
  /\ lastID' = entries
  /\ Becomes("reader", "running")
  /\ UNCHANGED <<stream, call, closed, failedCount, sent, redisCanceled, ctxDone, apiVars>>

XReadCanceled ==
  /\ worker["reader"] = "reading" /\ ReadCanceled
  /\ Becomes("reader", "sending")
  /\ UNCHANGED <<stream, call, closed, failedCount, lastID, sent, redisCanceled,
                 ctxDone, apiVars>>

XReadFails ==
  /\ worker["reader"] = "reading" /\ RedisMayFail
  /\ Becomes("reader", "sending")
  /\ UNCHANGED <<stream, call, closed, failedCount, lastID, sent, redisCanceled,
                 ctxDone, apiVars>>

\* It sends them to the client, which fails when the call is cancelled.
SendEntry ==
  /\ call = "running" /\ worker["reader"] = "running"
  /\ sent < lastID
  /\ IF ctxDone THEN Becomes("reader", "sending") /\ UNCHANGED sent
                ELSE sent' = sent + 1 /\ UNCHANGED worker
  /\ UNCHANGED <<stream, call, closed, failedCount, lastID, redisCanceled, ctxDone, apiVars>>

\* An error, or nil, is received: redisCtx is cancelled, the goroutine ends.
ReceiveError(g) ==
  /\ worker[g] = "sending" /\ ~closed
  /\ redisCanceled' = TRUE
  /\ Becomes(g, "done")
  /\ UNCHANGED <<stream, call, closed, failedCount, lastID, sent, ctxDone, apiVars>>

CloseErrors ==
  /\ call = "running" /\ ~closed
  /\ \A g \in Worker : worker[g] = "done"
  /\ closed' = TRUE
  /\ UNCHANGED <<stream, call, worker, failedCount, lastID, sent, redisCanceled, ctxDone, apiVars>>

ReturnCall ==
  /\ call = "running" /\ closed
  /\ call' = "returned"
  /\ UNCHANGED <<stream, worker, closed, failedCount, lastID, sent, redisCanceled, ctxDone, apiVars>>

-----------------------------------------------------------------------------
(* The websocket handler of the API server.                                *)

RelayBecomes(g, state) == relay' = [relay EXCEPT ![g] = state]

\* ReadMessage fails once the websocket is closed, by either side.
SocketCloses ==
  /\ relay["socket"] = "running"
  /\ ~connected
  /\ RelayBecomes("socket", "sending")
  /\ UNCHANGED <<stream, provisionerVars, ctxDone, relayClosed, handler, canceled, connected, shown>>

\* Recv returns an entry, which is written to the websocket. When that fails the log
\* handler returns and the state handler goes on; it need not fail when the client
\* has left.
RelayEntry ==
  /\ relay["receiver"] = "running"
  /\ ~canceled /\ shown < sent
  /\ shown' = shown + 1
  /\ \/ UNCHANGED relay
     \/ ~connected /\ RelayBecomes("receiver", IF Kind = "logs" THEN "sending" ELSE "sendingOn")
  /\ UNCHANGED <<stream, provisionerVars, ctxDone, relayClosed, handler, canceled, connected>>

\* Recv returns an error: the call was cancelled, or it has returned.
RecvFails ==
  /\ relay["receiver"] = "running"
  /\ canceled \/ (call = "returned" /\ shown = sent)
  /\ RelayBecomes("receiver", "sending")
  /\ UNCHANGED <<stream, provisionerVars, ctxDone, relayClosed, handler, canceled, connected, shown>>

\* The handler closes both ends and cancels the call.
RelayError(g) ==
  /\ relay[g] \in {"sending", "sendingOn"} /\ ~relayClosed
  /\ RelayBecomes(g, IF relay[g] = "sendingOn" THEN "running" ELSE "done")
  /\ canceled' = TRUE /\ connected' = FALSE
  /\ UNCHANGED <<stream, provisionerVars, ctxDone, relayClosed, handler, shown>>

CloseRelay ==
  /\ ~relayClosed
  /\ \A g \in Relay : relay[g] = "done"
  /\ relayClosed' = TRUE
  /\ UNCHANGED <<stream, provisionerVars, ctxDone, relay, handler, canceled, connected, shown>>

HandlerReturns ==
  /\ relayClosed /\ handler = "running"
  /\ handler' = "returned"
  /\ canceled' = TRUE    \* defer cancel()
  /\ UNCHANGED <<stream, provisionerVars, ctxDone, relay, relayClosed, connected, shown>>

Over == handler = "returned" /\ call = "returned" /\ ctxDone /\ UNCHANGED vars

ReaderStep == CheckRedisCtx \/ XRead \/ XReadCanceled \/ SendEntry
ReceiverStep == RelayEntry \/ RecvFails

Next ==
  \/ PushEntry \/ RemoveStream \/ ClientLeaves \/ ContextEnds
  \/ StartCall \/ Watch \/ Ping \/ ReaderStep \/ XReadFails
  \/ \E g \in Worker : ReceiveError(g)
  \/ CloseErrors \/ ReturnCall
  \/ SocketCloses \/ ReceiverStep
  \/ \E g \in Relay : RelayError(g)
  \/ CloseRelay \/ HandlerReturns
  \/ Over

Spec == Init /\ [][Next]_vars

\* Every goroutine that stays able to run does run, and a cancellation gets through.
\* No fairness on the operation, the removal of its stream, the client and failures.
Fairness ==
  /\ WF_vars(ContextEnds) /\ WF_vars(StartCall)
  /\ WF_vars(Watch) /\ WF_vars(Ping) /\ WF_vars(ReaderStep)
  /\ \A g \in Worker : WF_vars(ReceiveError(g))
  /\ WF_vars(CloseErrors) /\ WF_vars(ReturnCall)
  /\ WF_vars(SocketCloses) /\ WF_vars(ReceiverStep)
  /\ \A g \in Relay : WF_vars(RelayError(g))
  /\ WF_vars(CloseRelay) /\ WF_vars(HandlerReturns)

FairSpec == Spec /\ Fairness
-----------------------------------------------------------------------------
(* Properties.                                                             *)

TypeOK ==
  /\ entries \in 0..MaxEntries /\ gone \in BOOLEAN /\ completed \in BOOLEAN
  /\ call \in {"called", "running", "returned"}
  /\ worker \in [Worker -> {"running", "reading", "sending", "done"}]
  /\ closed \in BOOLEAN /\ redisCanceled \in BOOLEAN /\ ctxDone \in BOOLEAN
  /\ failedCount \in 0..2
  /\ lastID \in 0..entries /\ sent \in 0..lastID /\ shown \in 0..sent
  /\ relay \in [Relay -> {"running", "sending", "sendingOn", "done"}]
  /\ relayClosed \in BOOLEAN /\ handler \in {"running", "returned"}
  /\ canceled \in BOOLEAN /\ connected \in BOOLEAN

\* A goroutine that sends to a channel that has been closed panics and takes the
\* server with it. The WaitGroup is there to prevent it.
NeverSendsOnClosed ==
  /\ closed => \A g \in Worker : worker[g] # "sending"
  /\ relayClosed => \A g \in Relay : relay[g] \notin {"sending", "sendingOn"}

\* When a function has returned none of its goroutines is left.
NothingLeftRunning ==
  /\ handler = "returned" => \A g \in Relay : relay[g] = "done"
  /\ (call = "returned" /\ closed) => \A g \in Worker : worker[g] = "done"

\* Once the client has left, the handler returns: ReadMessage fails, and cancel()
\* unblocks Recv.
HandlerEnds == ~connected ~> handler = "returned"

\* The pinger checks "that the stream still exists -- it may have been cleaned up
\* automatically": once it has been, the call returns, and the handler with it.
CallEnds == gone ~> (call = "returned" /\ handler = "returned")

\* What the operation pushes is shown to the client as long as its handler runs,
\* unless the reader has ended before it had read so far: when an XRead fails, the
\* pinger keeps the call open for as long as the stream exists, and nothing is sent.
EntriesAreShown ==
  \A n \in 1..MaxEntries :
    entries >= n ~> \/ shown >= n \/ handler = "returned"
                    \/ worker["reader"] \in {"sending", "done"} /\ sent < n
=============================================================================
