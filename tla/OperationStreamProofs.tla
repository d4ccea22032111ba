------------------------ MODULE OperationStreamProofs ------------------------
(***************************************************************************)
(* Proofs about OperationStream, for every kind of stream, any number of   *)
(* entries, and whether or not Redis fails.                                *)
(*                                                                         *)
(* Both safety properties rest on the same fact of the two channels of     *)
(* errors: one that has been closed has no goroutine left that could send  *)
(* to it. It is inductive with the type invariant, because a goroutine     *)
(* that is done does not start again.                                      *)
(***************************************************************************)
EXTENDS OperationStream, TLAPS

ChannelInvariant ==
  /\ closed => \A g \in Worker : worker[g] = "done"
  /\ relayClosed => \A g \in Relay : relay[g] = "done"
  /\ handler = "returned" => relayClosed

-----------------------------------------------------------------------------
(* The actions by the side they are taken on.                              *)

OutsideStep == PushEntry \/ RemoveStream \/ ClientLeaves \/ ContextEnds \/ Over
CallStep == StartCall \/ CloseErrors \/ ReturnCall
WorkerStep ==
  \/ Watch \/ Ping
  \/ CheckRedisCtx \/ XRead \/ XReadCanceled \/ XReadFails \/ SendEntry
  \/ \E g \in Worker : ReceiveError(g)
RelayStep ==
  \/ SocketCloses \/ RelayEntry \/ RecvFails
  \/ \E g \in Relay : RelayError(g)
  \/ CloseRelay \/ HandlerReturns

\* Every step is one of these.
LEMMA StepCases == Next <=> (OutsideStep \/ CallStep \/ WorkerStep \/ RelayStep)
  BY DEF Next, OutsideStep, CallStep, WorkerStep, RelayStep, ReaderStep, ReceiverStep

\* The type invariant in parts: the goroutines of either side, the flags, the counters
\* and the two handlers.
WorkerType == worker \in [Worker -> {"running", "reading", "sending", "done"}]
RelayType == relay \in [Relay -> {"running", "sending", "sendingOn", "done"}]
FlagType ==
  /\ gone \in BOOLEAN /\ completed \in BOOLEAN
  /\ closed \in BOOLEAN /\ redisCanceled \in BOOLEAN /\ ctxDone \in BOOLEAN
  /\ relayClosed \in BOOLEAN /\ canceled \in BOOLEAN /\ connected \in BOOLEAN
CounterType ==
  /\ entries \in 0..MaxEntries /\ failedCount \in 0..2
  /\ lastID \in 0..entries /\ sent \in 0..lastID /\ shown \in 0..sent
HandlerType ==
  /\ call \in {"called", "running", "returned"}
  /\ handler \in {"running", "returned"}

\* What keeps the count of failed pings at its limit: the pinger that reached it ends.
PingerGivesUp == worker["pinger"] = "running" => failedCount < 2

LEMMA TypeParts ==
  TypeOK <=> WorkerType /\ RelayType /\ FlagType /\ CounterType /\ HandlerType
  BY DEF TypeOK, WorkerType, RelayType, FlagType, CounterType, HandlerType

\* The variables keep their types.
LEMMA TypeIsInductive ==
  TypeOK /\ PingerGivesUp /\ [Next]_vars => TypeOK' /\ PingerGivesUp'
<1> SUFFICES ASSUME WorkerType, RelayType, FlagType, CounterType, HandlerType,
                    PingerGivesUp, [Next]_vars
             PROVE  /\ WorkerType' /\ RelayType' /\ FlagType' /\ CounterType' /\ HandlerType'
                    /\ PingerGivesUp'
  BY TypeParts DEF TypeOK, WorkerType, RelayType, FlagType, CounterType, HandlerType
<1>1. CASE OutsideStep
  <2> USE <1>1 DEF OutsideStep, PushEntry, RemoveStream, ClientLeaves, ContextEnds, Over, vars, stream,
              provisionerVars, apiVars
  <2>1. WorkerType'
    BY DEF WorkerType
  <2>2. RelayType'
    BY DEF RelayType
  <2>3. FlagType'
    BY DEF FlagType
  <2>4. CounterType'
    BY BoundAssumption DEF CounterType
  <2>5. HandlerType'
    BY DEF HandlerType
  <2>6. PingerGivesUp'
    BY DEF PingerGivesUp, CounterType, WorkerType, Worker
  <2> QED
    BY ONLY <2>1, <2>2, <2>3, <2>4, <2>5, <2>6
<1>2. CASE CallStep
  <2> USE <1>2 DEF CallStep, StartCall, CloseErrors, ReturnCall, stream, apiVars
  <2>1. WorkerType'
    BY DEF WorkerType
  <2>2. RelayType'
    BY DEF RelayType
  <2>3. FlagType'
    BY DEF FlagType
  <2>4. CounterType'
    BY BoundAssumption DEF CounterType
  <2>5. HandlerType'
    BY DEF HandlerType
  <2>6. PingerGivesUp'
    BY DEF PingerGivesUp, CounterType, WorkerType, Worker
  <2> QED
    BY ONLY <2>1, <2>2, <2>3, <2>4, <2>5, <2>6
<1>3. CASE WorkerStep
  <2> USE <1>3 DEF WorkerStep, Watch, Ping, CheckRedisCtx, XRead, XReadCanceled,
              XReadFails, SendEntry, ReceiveError, Becomes, stream, apiVars
  <2>1. WorkerType'
    BY DEF WorkerType
  <2>2. RelayType'
    BY DEF RelayType
  <2>3. FlagType'
    BY DEF FlagType
  <2>4. CounterType'
    <3>1. CASE Ping
      BY <3>1 DEF CounterType, PingerGivesUp
    <3>2. CASE ~Ping
      BY <3>2 DEF CounterType
    <3> QED
      BY ONLY <3>1, <3>2
  <2>5. HandlerType'
    BY DEF HandlerType
  <2>6. PingerGivesUp'
    BY DEF PingerGivesUp, CounterType, WorkerType, Worker
  <2> QED
    BY ONLY <2>1, <2>2, <2>3, <2>4, <2>5, <2>6
<1>4. CASE RelayStep
  <2> USE <1>4 DEF RelayStep, SocketCloses, RelayEntry, RecvFails, RelayError, CloseRelay, HandlerReturns,
              RelayBecomes, stream, provisionerVars
  <2>1. WorkerType'
    BY DEF WorkerType
  <2>2. RelayType'
    BY DEF RelayType
  <2>3. FlagType'
    BY DEF FlagType
  <2>4. CounterType'
    BY BoundAssumption DEF CounterType
  <2>5. HandlerType'
    BY DEF HandlerType
  <2>6. PingerGivesUp'
    BY DEF PingerGivesUp, CounterType, WorkerType, Worker
  <2> QED
    BY ONLY <2>1, <2>2, <2>3, <2>4, <2>5, <2>6
<1>5. CASE UNCHANGED vars
  BY <1>5 DEF vars, stream, provisionerVars, apiVars, WorkerType, RelayType, FlagType,
              CounterType, HandlerType, PingerGivesUp
<1> QED
  BY <1>1, <1>2, <1>3, <1>4, <1>5, StepCases

\* The invariant of the channels is preserved by every step.
LEMMA ChannelInvariantIsInductive ==
  TypeOK /\ ChannelInvariant /\ [Next]_vars => ChannelInvariant'
<1> SUFFICES ASSUME TypeOK, ChannelInvariant, [Next]_vars PROVE ChannelInvariant'
  OBVIOUS
<1> USE DEF ChannelInvariant
<1>1. CASE OutsideStep
  BY <1>1 DEF OutsideStep, PushEntry, RemoveStream, ClientLeaves, ContextEnds, Over,
              vars, provisionerVars, apiVars
<1>2. CASE CallStep
  BY <1>2 DEF CallStep, StartCall, CloseErrors, ReturnCall, apiVars
<1>3. CASE WorkerStep
  <2>1. UNCHANGED <<closed, apiVars>>
    BY <1>3 DEF WorkerStep, Watch, Ping, CheckRedisCtx, XRead, XReadCanceled, XReadFails,
                SendEntry, ReceiveError
  <2>2. ~closed
    \* whoever takes the step is not done
    BY <1>3 DEF WorkerStep, Watch, Ping, CheckRedisCtx, XRead, XReadCanceled, XReadFails,
                SendEntry, ReceiveError, Worker
  <2> QED
    BY <2>1, <2>2 DEF apiVars
<1>4. CASE RelayStep
  <2>1. UNCHANGED <<closed, worker>>
    BY <1>4 DEF RelayStep, SocketCloses, RelayEntry, RecvFails, RelayError, CloseRelay,
                HandlerReturns, provisionerVars
  <2>2. CASE CloseRelay \/ HandlerReturns
    BY <2>1, <2>2 DEF CloseRelay, HandlerReturns
  <2>3. CASE ~(CloseRelay \/ HandlerReturns)
    <3>1. UNCHANGED <<relayClosed, handler>>
      BY <2>3, <1>4 DEF RelayStep, SocketCloses, RelayEntry, RecvFails, RelayError
    <3>2. ~relayClosed
      BY <2>3, <1>4 DEF RelayStep, SocketCloses, RelayEntry, RecvFails, RelayError, Relay
    <3> QED
      BY <2>1, <3>1, <3>2
  <2> QED
    BY <2>2, <2>3
<1>5. CASE UNCHANGED vars
  BY <1>5 DEF vars, provisionerVars, apiVars
<1> QED
  BY <1>1, <1>2, <1>3, <1>4, <1>5, StepCases

-----------------------------------------------------------------------------

\* The two handlers and their goroutines keep to their states, the client is shown
\* no entry that was not sent, and sent none that was not pushed.
THEOREM TypeCorrect == Spec => []TypeOK
<1>1. Init => TypeOK /\ PingerGivesUp
  <2> SUFFICES ASSUME Init PROVE TypeOK /\ PingerGivesUp
    OBVIOUS
  <2>1. WorkerType /\ RelayType /\ FlagType
    BY DEF Init, WorkerType, RelayType, FlagType
  <2>2. CounterType /\ HandlerType /\ PingerGivesUp
    BY BoundAssumption DEF Init, CounterType, HandlerType, PingerGivesUp
  <2> QED
    BY <2>1, <2>2, TypeParts
<1> QED
  BY <1>1, TypeIsInductive, PTL DEF Spec

LEMMA ChannelInvariantHolds == Spec => []ChannelInvariant
<1>1. Init => ChannelInvariant
  BY SMT DEF Init, ChannelInvariant
<1> QED
  BY <1>1, TypeCorrect, ChannelInvariantIsInductive, PTL DEF Spec

\* No goroutine of StreamOperationLogs, of StreamStateUpdate or of the websocket
\* handlers ever sends to a channel that has been closed.
THEOREM SendsAreSafe == Spec => []NeverSendsOnClosed
<1>1. ChannelInvariant => NeverSendsOnClosed
  BY DEF ChannelInvariant, NeverSendsOnClosed
<1> QED
  BY <1>1, ChannelInvariantHolds, PTL

\* When one of these functions has returned, it has left no goroutine behind.
THEOREM GoroutinesEnd == Spec => []NothingLeftRunning
<1>1. ChannelInvariant => NothingLeftRunning
  BY DEF ChannelInvariant, NothingLeftRunning
<1> QED
  BY <1>1, ChannelInvariantHolds, PTL
=============================================================================
