------------------------- MODULE GlobalStreamProofs -------------------------
(***************************************************************************)
(* Proofs about GlobalStream, for any number of operations, resources and  *)
(* lines, any Count of XRead, any number of faults and any hazards.        *)
(*                                                                         *)
(* The logs of an operation are kept because its streams are dealt with    *)
(* only after it has said its last word (QueueInvariant: whatever is in    *)
(* the batch or on the global stream has been reported, and no more than   *)
(* once unless its pod was replaced), so that the stream does not grow     *)
(* while it is read, and because the file is complete when the stream is   *)
(* removed (ReadingInvariant).                                             *)
(*                                                                         *)
(* What was said last of a resource is kept because, as long as every      *)
(* operation has one pod and says all it has to say before the next one    *)
(* starts, what is queued and what has been removed are in the order of    *)
(* the operations, and the state that is being put together reflects       *)
(* exactly the part of the stream that has been read (StateInvariant).     *)
(***************************************************************************)
EXTENDS GlobalStream, SequenceTheorems, TLAPS

Entry == Update \cup {Mark}
LogLength(o) == Len(pushed["logs"][o])

\* The operation has been announced, or has a second pod.
Reported(o) == pods[o] = 2 \/ pod[o] = "announced"

QueueInvariant ==
  /\ \A o \in Operation : pod[o] = "none" => pods[o] = 0
  /\ \A i \in 1..Len(batch) : Reported(batch[i])
  /\ \A i \in 1..Len(globalStream) : Reported(globalStream[i])
  /\ \A i, j \in 1..Len(batch) :
       i # j /\ batch[i] = batch[j] => pods[batch[i]] = 2
  /\ \A i, j \in 1..Len(globalStream) :
       i # j /\ globalStream[i] = globalStream[j] => pods[globalStream[i]] = 2
  /\ \A i \in 1..Len(batch), j \in 1..Len(globalStream) :
       batch[i] = globalStream[j] => pods[batch[i]] = 2
  /\ step \in {"idle", "dead"} <=> batch = << >>

\* Nothing has been removed yet of what is not reported or has not been dealt with.
NothingRemoved ==
  /\ \A o \in Operation : ~Reported(o) => removed["logs"][o] = 0
  /\ \A i \in 1..Len(batch) : pods[batch[i]] # 2 => removed["logs"][batch[i]] = 0
  /\ \A i \in 1..Len(globalStream) :
       pods[globalStream[i]] # 2 => removed["logs"][globalStream[i]] = 0

\* What pushLogsToStorage has read, is to write and has written.
ReadSoFar(o) ==
  /\ step = "read" => /\ length = LogLength(o) /\ processed = lastID /\ lastID <= length
                      /\ lines = 1..lastID
  /\ step = "write" => lines = 1..LogLength(o)
  /\ step = "delete" => logsFile[o] = 1..LogLength(o)

ReadingInvariant ==
  \A o \in Operation :
    (batch # << >> /\ o = Head(batch) /\ doing = "logs" /\ pods[o] # 2) => ReadSoFar(o)

-----------------------------------------------------------------------------
(* Sequences.                                                              *)

LEMMA AppendFacts ==
  ASSUME NEW S, NEW s \in Seq(S), NEW e \in S
  PROVE  /\ Append(s, e) \in Seq(S)
         /\ Len(Append(s, e)) = Len(s) + 1
         /\ \A i \in 1..Len(s) : Append(s, e)[i] = s[i]
         /\ Append(s, e)[Len(s) + 1] = e
  OBVIOUS

LEMMA TailFacts ==
  ASSUME NEW S, NEW s \in Seq(S), s # << >>
  PROVE  /\ Head(s) \in S /\ Head(s) = s[1]
         /\ Tail(s) \in Seq(S)
         /\ Len(s) \in Nat \ {0}
         /\ Len(Tail(s)) = Len(s) - 1
         /\ \A i \in 1..Len(Tail(s)) : i + 1 \in 1..Len(s) /\ Tail(s)[i] = s[i + 1]
         /\ Len(s) = 1 <=> Tail(s) = << >>
<1>1. Len(s) \in Nat \ {0}
  BY EmptySeq
<1>2. Head(s) \in S /\ Head(s) = s[1] /\ Tail(s) \in Seq(S) /\ Len(Tail(s)) = Len(s) - 1
  BY HeadTailProperties
<1>3. \A i \in 1..Len(Tail(s)) : i + 1 \in 1..Len(s) /\ Tail(s)[i] = s[i + 1]
  BY <1>1, <1>2, HeadTailProperties
<1>4. Len(s) = 1 <=> Tail(s) = << >>
  <2>1. Tail(s) = << >> => Len(Tail(s)) = 0
    BY EmptySeq
  <2>2. Tail(s) # << >> => Len(Tail(s)) # 0
    BY <1>2, EmptySeq
  <2> QED
    BY <1>1, <1>2, <2>1, <2>2
<1> QED
  BY <1>1, <1>2, <1>3, <1>4

-----------------------------------------------------------------------------
(* The type invariant, in parts.                                           *)

PodType ==
  pod \in [Operation -> PodState] /\ pods \in [Operation -> 0..2] /\ faults \in 0..MaxFaults
PushedType == pushed \in [Stream -> [Operation -> Seq(Entry)]]
RemovedType == removed \in [Stream -> [Operation -> Nat]]
QueueType ==
  /\ globalStream \in Seq(Operation) /\ batch \in Seq(Operation)
  /\ step \in ListenerStep /\ doing \in Stream
CursorType ==
  /\ length \in Nat /\ processed \in Nat /\ lastID \in Nat
  /\ draft \in State /\ lines \subseteq Nat
StorageType == currentState \in State /\ logsFile \in [Operation -> SUBSET Nat]

LEMMA TypeParts ==
  TypeOK <=> /\ PodType /\ PushedType /\ RemovedType
             /\ QueueType /\ CursorType /\ StorageType
  BY DEF TypeOK, Entry, PodType, PushedType, RemovedType, QueueType, CursorType, StorageType

\* No entry is removed that was not pushed.
RemovedWasPushed ==
  \A k \in Stream, o \in Operation : removed[k][o] <= Len(pushed[k][o])

PodStep(o) ==
  \/ Start(o) \/ StoreLine(o) \/ StoreUpdate(o) \/ SaveOperation(o)
  \/ SendOperationCompleted(o) \/ PushToGlobalStream(o) \/ Restart(o)

FaultStep == CleanupFails \/ XReadGroupFails \/ Crash

\* A push appends one entry to one stream.
LEMMA PushFacts ==
  ASSUME PushedType, NEW k \in Stream, NEW o \in Operation, NEW e \in Entry, Push(k, o, e)
  PROVE  /\ PushedType'
         /\ \A j \in Stream, q \in Operation :
              Len(pushed'[j][q]) = IF j = k /\ q = o THEN Len(pushed[j][q]) + 1
                                                    ELSE Len(pushed[j][q])
<1>1. pushed' = [pushed EXCEPT ![k] = [pushed[k] EXCEPT ![o] = Append(pushed[k][o], e)]]
  BY DEF Push
<1>2. pushed[k][o] \in Seq(Entry)
  BY DEF PushedType
<1>3. Append(pushed[k][o], e) \in Seq(Entry) /\ Len(Append(pushed[k][o], e)) = Len(pushed[k][o]) + 1
  BY <1>2, AppendFacts
<1>4. [pushed[k] EXCEPT ![o] = Append(pushed[k][o], e)] \in [Operation -> Seq(Entry)]
  BY <1>3 DEF PushedType
<1>5. PushedType'
  BY <1>1, <1>4 DEF PushedType
<1>6. ASSUME NEW j \in Stream, NEW q \in Operation
      PROVE  Len(pushed'[j][q]) = IF j = k /\ q = o THEN Len(pushed[j][q]) + 1
                                                    ELSE Len(pushed[j][q])
  BY <1>1, <1>3, <1>6 DEF PushedType
<1> QED
  BY <1>5, <1>6

\* Lengths that do not shrink keep what was removed below them.
LEMMA GrowthKeepsRemoved ==
  ASSUME PushedType, RemovedType, RemovedWasPushed, UNCHANGED removed,
         \A j \in Stream, q \in Operation : \/ Len(pushed'[j][q]) = Len(pushed[j][q])
                                           \/ Len(pushed'[j][q]) = Len(pushed[j][q]) + 1
  PROVE  RemovedWasPushed'
<1>1. \A j \in Stream, q \in Operation : Len(pushed[j][q]) \in Nat /\ removed[j][q] \in Nat
  BY LenProperties DEF PushedType, RemovedType
<1> QED
  BY <1>1 DEF RemovedWasPushed

\* What the steps of an operation do to the variables of the others' proofs.
LEMMA PodStepFacts ==
  ASSUME TypeOK, RemovedWasPushed, \A q \in Operation : pod[q] = "none" => pods[q] = 0,
         NEW o \in Operation, PodStep(o)
  PROVE  /\ PodType' /\ PushedType' /\ RemovedWasPushed'
         /\ UNCHANGED <<removed, listener, storage>>
         /\ \A q \in Operation : pod'[q] = "none" => pods'[q] = 0
         /\ \A q \in Operation : pods[q] = 2 => pods'[q] = 2
         /\ \A q \in Operation : Reported(q) => Reported(q)'
         /\ \A q \in Operation : \/ LogLength(q)' = LogLength(q)
                                 \/ pod[q] = "running" /\ LogLength(q)' = LogLength(q) + 1
         /\ \/ globalStream' = globalStream
            \/ /\ globalStream' = Append(globalStream, o)
               /\ pod[o] = "told" /\ pod'[o] = "announced"
<1> USE DEF PodType
<1>1. PodType /\ PushedType /\ RemovedType
  BY TypeParts
<1>2. Mark \in Entry /\ Update \subseteq Entry /\ "state" \in Stream /\ "logs" \in Stream
  BY DEF Entry, Stream
<1>3. UNCHANGED <<pushed, removed>> =>
        /\ PushedType' /\ RemovedWasPushed'
        /\ \A q \in Operation : LogLength(q)' = LogLength(q)
  BY <1>1 DEF PushedType, LogLength, RemovedWasPushed
<1>4. CASE Start(o)
  <2>1. PushedType' /\ RemovedWasPushed' /\ \A q \in Operation : LogLength(q)' = LogLength(q)
    BY <1>1, <1>2, <1>3, <1>4, PushFacts, GrowthKeepsRemoved DEF Start, LogLength
  <2> QED
    BY <2>1, <1>1, <1>4 DEF Start, listener, storage, Reported, PodState
<1>5. CASE StoreLine(o)
  <2>1. /\ PushedType' /\ RemovedWasPushed'
        /\ \A q \in Operation : LogLength(q)' = IF q = o THEN LogLength(q) + 1 ELSE LogLength(q)
    BY <1>1, <1>2, <1>5, PushFacts, GrowthKeepsRemoved DEF StoreLine, LogLength
  <2> QED
    BY <2>1, <1>1, <1>5 DEF StoreLine, listener, storage, Reported, PodState
<1>6. CASE StoreUpdate(o)
  <2>1. PushedType' /\ RemovedWasPushed' /\ \A q \in Operation : LogLength(q)' = LogLength(q)
    BY <1>1, <1>2, <1>3, <1>6, PushFacts, GrowthKeepsRemoved DEF StoreUpdate, LogLength
  <2> QED
    BY <2>1, <1>1, <1>6 DEF StoreUpdate, listener, storage, Reported, PodState
<1>7. CASE SaveOperation(o)
  BY <1>1, <1>3, <1>7 DEF SaveOperation, listener, storage, Reported, PodState
<1>8. CASE SendOperationCompleted(o)
  <2>1. PushedType' /\ RemovedWasPushed' /\ \A q \in Operation : LogLength(q)' = LogLength(q)
    BY <1>1, <1>2, <1>8, PushFacts, GrowthKeepsRemoved DEF SendOperationCompleted, LogLength
  <2> QED
    BY <2>1, <1>1, <1>8 DEF SendOperationCompleted, listener, storage, Reported, PodState
<1>9. CASE PushToGlobalStream(o)
  BY <1>1, <1>3, <1>9 DEF PushToGlobalStream, listener, storage, Reported, PodState
<1>10. CASE Restart(o)
  BY <1>1, <1>3, <1>10, CountAssumption DEF Restart, listener, storage, Reported, PodState
<1> QED
  BY <1>4, <1>5, <1>6, <1>7, <1>8, <1>9, <1>10 DEF PodStep

\* Going on to the next message keeps the types of the queue, and Forget the cursor's.
LEMMA NextMessageFacts ==
  ASSUME QueueType, NextMessage, batch # << >>
  PROVE  /\ batch' \in Seq(Operation) /\ step' \in {"idle", "load"} /\ doing' \in Stream
         /\ batch' = Tail(batch)
         /\ step' = "idle" <=> batch' = << >>
  BY TailFacts DEF QueueType, NextMessage, Stream

LEMMA ForgetFacts == Forget => CursorType' /\ lines' = {}
  BY DEF Forget, CursorType, State

\* What has been processed and read stays a number.
LEMMA ReadFacts ==
  ASSUME PushedType, RemovedType, CursorType, This \in Operation, doing \in Stream, Read
  PROVE  /\ CursorType'
         /\ step' = IF processed' = length THEN "write" ELSE "read"
         /\ length' = length
         /\ (removed[doing][This] = 0 /\ processed = lastID) =>
              /\ processed' = lastID'
              /\ lastID < lastID' /\ lastID' <= Len(pushed[doing][This])
              /\ doing = "logs" => lines' = lines \cup (lastID + 1)..lastID'
              /\ doing = "state" => draft' \in After(draft, SubSeq(pushed[doing][This], lastID + 1, lastID'))
<1> DEFINE es    == pushed[doing][This]
           first == IF lastID < removed[doing][This] THEN removed[doing][This] ELSE lastID
           upto  == IF first + ReadCount < Len(es) THEN first + ReadCount ELSE Len(es)
<1>1. es \in Seq(Entry) /\ Len(es) \in Nat
  BY LenProperties DEF PushedType
<1>2. first \in Nat /\ lastID <= first /\ (removed[doing][This] = 0 => first = lastID)
  BY DEF RemovedType, CursorType
<1>3. upto \in Nat /\ upto <= Len(es)
  BY <1>1, <1>2, CountAssumption
<1>4. /\ first < upto
      /\ processed' = processed + (upto - first) /\ lastID' = upto
      /\ draft' \in IF doing = "state" THEN After(draft, SubSeq(es, first + 1, upto)) ELSE {draft}
      /\ lines' = IF doing = "logs" THEN lines \cup (first + 1)..upto ELSE lines
      /\ step' = IF processed' = length THEN "write" ELSE "read"
      /\ length' = length
  BY DEF Read
<1> HIDE DEF es, first, upto
<1>5. draft' \in State
  BY <1>4 DEF After, CursorType
<1>6. lines' \subseteq Nat
  BY <1>2, <1>3, <1>4 DEF CursorType
<1>7. processed' \in Nat /\ lastID' \in Nat /\ length' \in Nat
  BY <1>2, <1>3, <1>4 DEF CursorType
<1>8. step' = (IF processed' = length THEN "write" ELSE "read") /\ length' = length
  BY <1>4
<1>9. ASSUME removed[doing][This] = 0, processed = lastID
      PROVE  /\ processed' = lastID' /\ lastID < lastID' /\ lastID' <= Len(es)
             /\ doing = "logs" => lines' = lines \cup (lastID + 1)..lastID'
             /\ doing = "state" => draft' \in After(draft, SubSeq(es, lastID + 1, lastID'))
  BY <1>1, <1>2, <1>3, <1>4, <1>9 DEF CursorType
<1> QED
  BY <1>5, <1>6, <1>7, <1>8, <1>9 DEF CursorType, es

\* The variables keep their types, on the step of the listener too.
LEMMA TypeIsInductive ==
  TypeOK /\ RemovedWasPushed /\ QueueInvariant /\ [Next]_vars => TypeOK' /\ RemovedWasPushed'
<1> SUFFICES ASSUME PodType, PushedType, RemovedType, QueueType, CursorType, StorageType,
                    TypeOK, RemovedWasPushed, QueueInvariant, [Next]_vars
             PROVE  /\ PodType' /\ PushedType' /\ RemovedType' /\ RemovedWasPushed'
                    /\ QueueType' /\ CursorType' /\ StorageType'
  <2>1. TypeOK' <=> (PodType /\ PushedType /\ RemovedType /\ QueueType /\ CursorType /\ StorageType)'
    BY DEF TypeOK, Entry, PodType, PushedType, RemovedType, QueueType, CursorType, StorageType
  <2> QED
    BY <2>1, TypeParts
<1>1. ASSUME step \notin {"idle", "dead"} PROVE batch # << >> /\ This \in Operation
  BY <1>1, TailFacts DEF QueueInvariant, QueueType, This
<1>2. ASSUME NEW o \in Operation, PodStep(o)
      PROVE  /\ PodType' /\ PushedType' /\ RemovedType' /\ RemovedWasPushed'
             /\ QueueType' /\ CursorType' /\ StorageType'
  <2>1. PodType' /\ PushedType' /\ RemovedWasPushed'
    BY <1>2, PodStepFacts DEF QueueInvariant
  <2>2. /\ UNCHANGED <<removed, listener, storage>>
        /\ globalStream' = globalStream \/ globalStream' = Append(globalStream, o)
    BY <1>2, PodStepFacts DEF QueueInvariant
  <2>3. globalStream' \in Seq(Operation)
    BY <1>2, <2>2, AppendFacts DEF QueueType
  <2> QED
    BY <2>1, <2>2, <2>3 DEF listener, cursor, storage, RemovedType, QueueType, CursorType, StorageType
<1>3. CASE XReadGroup
  BY <1>3, EmptySeq DEF XReadGroup, podVars, cursor, storage, PodType, PushedType, RemovedType,
                QueueType, CursorType, StorageType, ListenerStep, Stream, RemovedWasPushed
<1>4. CASE Load
  BY <1>4 DEF Load, podVars, storage, PodType, PushedType, RemovedType,
              QueueType, CursorType, StorageType, ListenerStep, RemovedWasPushed
<1>5. CASE ReadLength
  <2>1. UNCHANGED <<podVars, pushed, removed, globalStream, batch, doing, draft, storage, faults>>
    BY <1>5 DEF ReadLength
  <2>2. step' \in {"read", "write"}
    BY <1>5 DEF ReadLength
  <2>3. length' \in Nat /\ processed' = 0 /\ lastID' = 0 /\ lines' = {}
    <3>1. /\ This \in Operation /\ doing \in Stream
          /\ Len(pushed[doing][This]) \in Nat /\ removed[doing][This] \in Nat
      BY <1>1, <1>5, LenProperties DEF ReadLength, QueueType, PushedType, RemovedType
    <3> QED
      BY <3>1, <1>5 DEF ReadLength, XLen, RemovedWasPushed
  <2> QED
    BY <2>1, <2>2, <2>3 DEF podVars, storage, PodType, PushedType, RemovedType,
              QueueType, CursorType, StorageType, ListenerStep, RemovedWasPushed
<1>6. CASE Read
  <2>1. CursorType' /\ step' \in {"read", "write"}
    BY <1>1, <1>6, ReadFacts DEF Read, QueueType
  <2> QED
    BY <2>1, <1>6 DEF Read, podVars, storage, PodType, PushedType, RemovedType,
                      QueueType, StorageType, ListenerStep, RemovedWasPushed
<1>7. CASE Write
  <2>1. This \in Operation
    BY <1>1, <1>7 DEF Write
  <2>2. StorageType'
    BY <2>1, <1>7 DEF Write, StorageType, CursorType
  <2> QED
    BY <2>2, <1>7 DEF Write, podVars, cursor, PodType, PushedType, RemovedType,
                      QueueType, CursorType, ListenerStep, RemovedWasPushed
<1>8. CASE Delete
  <2>1. This \in Operation /\ batch # << >> /\ doing \in Stream
    BY <1>1, <1>8 DEF Delete, QueueType
  <2>2. RemovedType' /\ RemovedWasPushed'
    <3>1. Len(pushed[doing][This]) \in Nat
      BY <2>1, LenProperties DEF PushedType
    <3>2. removed' = [removed EXCEPT ![doing] = [removed[doing] EXCEPT ![This] = Len(pushed[doing][This])]]
      BY <1>8 DEF Delete
    <3>3. [removed[doing] EXCEPT ![This] = Len(pushed[doing][This])] \in [Operation -> Nat]
      BY <2>1, <3>1 DEF RemovedType
    <3>4. RemovedType'
      BY <2>1, <3>2, <3>3 DEF RemovedType
    <3>5. UNCHANGED pushed
      BY <1>8 DEF Delete
    <3> QED
      BY <2>1, <3>1, <3>2, <3>4, <3>5 DEF RemovedType, RemovedWasPushed
  <2>3. CursorType'
    BY <1>8, ForgetFacts DEF Delete
  <2>4. QueueType'
    <3>1. CASE NextMessage
      BY <2>1, <3>1, <1>8, NextMessageFacts DEF Delete, QueueType, ListenerStep
    <3>2. CASE ~NextMessage
      BY <3>2, <1>8 DEF Delete, QueueType, ListenerStep, Stream
    <3> QED
      BY <3>1, <3>2
  <2> QED
    BY <2>2, <2>3, <2>4, <1>8 DEF Delete, podVars, storage, PodType, PushedType, StorageType
<1>9. CASE FaultStep
  <2>1. PodType' /\ PushedType' /\ RemovedType' /\ RemovedWasPushed' /\ StorageType'
    BY <1>9, CountAssumption DEF FaultStep, CleanupFails, XReadGroupFails, Crash, podVars,
          storage, PodType, PushedType, RemovedType, StorageType, RemovedWasPushed
  <2>2. CursorType'
    BY <1>9, ForgetFacts DEF FaultStep, CleanupFails, XReadGroupFails, Crash, cursor, CursorType
  <2>3. QueueType'
    <3>1. CASE CleanupFails
      BY <1>1, <3>1, NextMessageFacts DEF CleanupFails, QueueType, ListenerStep
    <3>2. CASE XReadGroupFails \/ Crash
      BY <3>2, EmptySeq DEF XReadGroupFails, Crash, QueueType, ListenerStep, Stream
    <3> QED
      BY <3>1, <3>2, <1>9 DEF FaultStep
  <2> QED
    BY <2>1, <2>2, <2>3
<1>10. CASE UNCHANGED vars
  BY <1>10 DEF vars, podVars, listener, cursor, storage, PodType, PushedType, RemovedType,
               QueueType, CursorType, StorageType, RemovedWasPushed
<1> QED
  BY <1>2, <1>3, <1>4, <1>5, <1>6, <1>7, <1>8, <1>9, <1>10
     DEF Next, PodStep, ListenerMoves, FaultStep

-----------------------------------------------------------------------------
(* The queue.                                                              *)

\* What is dropped from the front of the batch leaves the rest as it was.
LEMMA DroppingKeepsQueue ==
  ASSUME QueueType, QueueInvariant, batch # << >>, batch' = Tail(batch),
         UNCHANGED <<podVars, globalStream>>,
         step' \in {"idle", "dead"} <=> batch' = << >>
  PROVE  QueueInvariant'
<1>1. /\ Len(batch) \in Nat \ {0}
      /\ Len(batch') = Len(batch) - 1
      /\ \A i \in 1..Len(batch') : i + 1 \in 1..Len(batch) /\ batch'[i] = batch[i + 1]
  BY TailFacts DEF QueueType
<1>2. UNCHANGED <<pod, pods, globalStream>>
  BY DEF podVars
<1>3. (\A i \in 1..Len(batch) : Reported(batch[i]))'
  BY <1>1, <1>2 DEF QueueInvariant, Reported
<1>4. \A i, j \in 1..Len(batch') : i # j /\ batch'[i] = batch'[j] => pods'[batch'[i]] = 2
  <2> SUFFICES ASSUME NEW i \in 1..Len(batch'), NEW j \in 1..Len(batch'),
                      i # j, batch'[i] = batch'[j]
               PROVE  pods'[batch'[i]] = 2
    OBVIOUS
  <2>1. i + 1 # j + 1 /\ batch[i + 1] = batch[j + 1]
    BY <1>1
  <2> QED
    BY <1>1, <1>2, <2>1 DEF QueueInvariant
<1>5. \A i \in 1..Len(batch'), j \in 1..Len(globalStream) :
        batch'[i] = globalStream[j] => pods'[batch'[i]] = 2
  BY <1>1, <1>2 DEF QueueInvariant
<1> QED
  BY <1>2, <1>3, <1>4, <1>5 DEF QueueInvariant, Reported

LEMMA QueueInvariantIsInductive ==
  TypeOK /\ RemovedWasPushed /\ QueueInvariant /\ [Next]_vars => QueueInvariant'
<1> SUFFICES ASSUME TypeOK, QueueType, PodType, RemovedWasPushed, QueueInvariant, [Next]_vars
             PROVE  QueueInvariant'
  BY TypeParts
<1>0. Len(batch) \in Nat /\ Len(globalStream) \in Nat
  BY LenProperties DEF QueueType
<1>1. ASSUME NEW o \in Operation, PodStep(o) PROVE QueueInvariant'
  <2>1. /\ UNCHANGED <<batch, step>>
        /\ \A q \in Operation : pod'[q] = "none" => pods'[q] = 0
        /\ \A q \in Operation : pods[q] = 2 => pods'[q] = 2
        /\ \A q \in Operation : Reported(q) => Reported(q)'
        /\ \/ globalStream' = globalStream
           \/ globalStream' = Append(globalStream, o) /\ pod[o] = "told" /\ pod'[o] = "announced"
    BY <1>1, PodStepFacts DEF QueueInvariant, listener
  <2>2. /\ \A i \in 1..Len(batch) : batch[i] \in Operation
        /\ \A i \in 1..Len(globalStream) : globalStream[i] \in Operation
    BY LenProperties DEF QueueType
  <2>3. CASE globalStream' = globalStream
    BY <2>1, <2>2, <2>3 DEF QueueInvariant
  <2>4. CASE globalStream' = Append(globalStream, o) /\ pod[o] = "told" /\ pod'[o] = "announced"
    <3>1. /\ Len(globalStream') = Len(globalStream) + 1
          /\ \A i \in 1..Len(globalStream) : globalStream'[i] = globalStream[i]
          /\ globalStream'[Len(globalStream) + 1] = o
      BY <2>4, AppendFacts DEF QueueType
    <3>2. Reported(o)'
      BY <2>4 DEF Reported
    \* it was not reported before, or has a second pod
    <3>3. /\ \A i \in 1..Len(batch) : batch[i] = o => pods[o] = 2
          /\ \A i \in 1..Len(globalStream) : globalStream[i] = o => pods[o] = 2
      BY <2>4 DEF QueueInvariant, Reported
    <3>4. (\A i \in 1..Len(globalStream) : Reported(globalStream[i]))'
      <4> SUFFICES ASSUME NEW i \in 1..Len(globalStream') PROVE Reported(globalStream[i])'
        OBVIOUS
      <4>1. CASE i = Len(globalStream) + 1
        BY <3>1, <3>2, <4>1 DEF Reported
      <4>2. CASE i \in 1..Len(globalStream)
        BY <2>1, <2>2, <3>1, <4>2 DEF QueueInvariant, Reported
      <4> QED
        BY <1>0, <3>1, <4>1, <4>2
    <3>5. \A i, j \in 1..Len(globalStream') :
            i # j /\ globalStream'[i] = globalStream'[j] => pods'[globalStream'[i]] = 2
      <4> SUFFICES ASSUME NEW i \in 1..Len(globalStream'), NEW j \in 1..Len(globalStream'),
                          i # j, globalStream'[i] = globalStream'[j]
                   PROVE  pods'[globalStream'[i]] = 2
        OBVIOUS
      <4>1. CASE i \in 1..Len(globalStream) /\ j \in 1..Len(globalStream)
        BY <2>1, <2>2, <3>1, <4>1 DEF QueueInvariant
      <4>2. CASE i = Len(globalStream) + 1 /\ j \in 1..Len(globalStream)
        BY <2>1, <3>1, <3>3, <4>2
      <4>3. CASE j = Len(globalStream) + 1 /\ i \in 1..Len(globalStream)
        BY <2>1, <3>1, <3>3, <4>3
      <4> QED
        BY <1>0, <3>1, <4>1, <4>2, <4>3
    <3>6. \A i \in 1..Len(batch), j \in 1..Len(globalStream') :
            batch[i] = globalStream'[j] => pods'[batch[i]] = 2
      <4> SUFFICES ASSUME NEW i \in 1..Len(batch), NEW j \in 1..Len(globalStream'),
                          batch[i] = globalStream'[j]
                   PROVE  pods'[batch[i]] = 2
        OBVIOUS
      <4>1. CASE j = Len(globalStream) + 1
        BY <2>1, <3>1, <3>3, <4>1
      <4>2. CASE j \in 1..Len(globalStream)
        BY <2>1, <2>2, <3>1, <4>2 DEF QueueInvariant
      <4> QED
        BY <1>0, <3>1, <4>1, <4>2
    <3> QED
      BY <2>1, <2>2, <3>4, <3>5, <3>6 DEF QueueInvariant
  <2> QED
    BY <2>1, <2>3, <2>4
<1>2. CASE XReadGroup
  <2>1. globalStream' = << >> /\ Len(globalStream') = 0 /\ batch' = globalStream
    BY <1>2, EmptySeq DEF XReadGroup
  <2> QED
    BY <1>2, <2>1 DEF XReadGroup, QueueInvariant, Reported, podVars
<1>3. CASE Load \/ ReadLength \/ Read \/ Write
  <2>1. UNCHANGED <<pod, pods, batch, globalStream>>
    BY <1>3 DEF Load, ReadLength, Read, Write, podVars
  <2>2. step \notin {"idle", "dead"} /\ step' \notin {"idle", "dead"}
    BY <1>3 DEF Load, ReadLength, Read, Write
  <2> QED
    BY <2>1, <2>2 DEF QueueInvariant, Reported
<1>4. CASE Delete \/ CleanupFails
  <2>1. batch # << >> /\ UNCHANGED <<podVars, globalStream>>
    BY <1>4 DEF Delete, CleanupFails, QueueInvariant
  <2>2. CASE NextMessage
    BY <2>1, <2>2, NextMessageFacts, DroppingKeepsQueue
  <2>3. CASE ~NextMessage
    <3>1. UNCHANGED batch /\ step = "delete" /\ step' = "length"
      BY <2>3, <1>4 DEF Delete, CleanupFails
    <3> QED
      BY <2>1, <3>1 DEF QueueInvariant, Reported, podVars
  <2> QED
    BY <2>2, <2>3
<1>5. CASE XReadGroupFails
  BY <1>5 DEF XReadGroupFails, QueueInvariant, Reported, podVars
<1>6. CASE Crash
  <2>1. batch' = << >> /\ Len(batch') = 0
    BY <1>6, EmptySeq DEF Crash
  <2> QED
    BY <2>1, <1>6 DEF Crash, QueueInvariant, Reported, podVars
<1>7. CASE UNCHANGED vars
  BY <1>7 DEF vars, podVars, listener, QueueInvariant, Reported
<1> QED
  BY <1>1, <1>2, <1>3, <1>4, <1>5, <1>6, <1>7 DEF Next, PodStep, ListenerMoves

-----------------------------------------------------------------------------
(* The logs.                                                               *)

LEMMA NothingRemovedIsInductive ==
  TypeOK /\ RemovedWasPushed /\ QueueInvariant /\ NothingRemoved /\ [Next]_vars => NothingRemoved'
<1> SUFFICES ASSUME TypeOK, QueueType, PodType, RemovedType, RemovedWasPushed,
                    QueueInvariant, NothingRemoved, [Next]_vars
             PROVE  NothingRemoved'
  BY TypeParts
<1>0. /\ Len(batch) \in Nat /\ Len(globalStream) \in Nat
      /\ \A i \in 1..Len(batch) : batch[i] \in Operation
      /\ \A i \in 1..Len(globalStream) : globalStream[i] \in Operation
  BY LenProperties DEF QueueType
<1>1. ASSUME NEW o \in Operation, PodStep(o) PROVE NothingRemoved'
  <2>1. /\ UNCHANGED <<batch, removed>>
        /\ \A q \in Operation : pods[q] = 2 => pods'[q] = 2
        /\ \A q \in Operation : Reported(q) => Reported(q)'
        /\ \/ globalStream' = globalStream
           \/ globalStream' = Append(globalStream, o) /\ pod[o] = "told" /\ pod'[o] = "announced"
    BY <1>1, PodStepFacts DEF QueueInvariant, listener
  <2>2. \A i \in 1..Len(globalStream') :
          pods'[globalStream'[i]] # 2 => removed["logs"][globalStream'[i]] = 0
    <3>1. CASE globalStream' = globalStream
      BY <1>0, <2>1, <3>1 DEF NothingRemoved
    <3>2. CASE globalStream' = Append(globalStream, o) /\ pod[o] = "told"
      <4>1. /\ Len(globalStream') = Len(globalStream) + 1
            /\ \A i \in 1..Len(globalStream) : globalStream'[i] = globalStream[i]
            /\ globalStream'[Len(globalStream) + 1] = o
        BY <3>2, AppendFacts DEF QueueType
      <4>2. pods'[o] # 2 => removed["logs"][o] = 0
        BY <2>1, <3>2 DEF NothingRemoved, Reported
      <4> SUFFICES ASSUME NEW i \in 1..Len(globalStream'), pods'[globalStream'[i]] # 2
                   PROVE  removed["logs"][globalStream'[i]] = 0
        OBVIOUS
      <4>3. CASE i = Len(globalStream) + 1
        BY <4>1, <4>2, <4>3
      <4>4. CASE i \in 1..Len(globalStream)
        BY <1>0, <2>1, <4>1, <4>4 DEF NothingRemoved
      <4> QED
        BY <1>0, <4>1, <4>3, <4>4
    <3> QED
      BY <2>1, <3>1, <3>2
  <2> QED
    BY <1>0, <2>1, <2>2 DEF NothingRemoved
<1>2. CASE XReadGroup
  <2>1. Len(globalStream') = 0
    BY <1>2, EmptySeq DEF XReadGroup
  <2> QED
    BY <2>1, <1>2 DEF XReadGroup, NothingRemoved, Reported, podVars
<1>3. CASE Load \/ ReadLength \/ Read \/ Write \/ XReadGroupFails \/ UNCHANGED vars
  <2>1. UNCHANGED <<pod, pods, removed, batch, globalStream>>
    BY <1>3 DEF Load, ReadLength, Read, Write, XReadGroupFails, vars, podVars, listener
  <2> QED
    BY <2>1 DEF NothingRemoved, Reported
<1>4. CASE Crash
  <2>1. Len(batch') = 0
    BY <1>4, EmptySeq DEF Crash
  <2> QED
    BY <2>1, <1>4 DEF Crash, NothingRemoved, Reported, podVars
<1>5. CASE Delete \/ CleanupFails
  <2>1. /\ batch # << >> /\ UNCHANGED <<pod, pods, globalStream>>
        /\ This \in Operation /\ This = batch[1]
        /\ Len(batch) \in Nat \ {0}
    BY <1>5, TailFacts DEF Delete, CleanupFails, QueueInvariant, QueueType, podVars, This
  <2>2. \A i \in 1..Len(batch') : batch' = Tail(batch) =>
          i + 1 \in 1..Len(batch) /\ i + 1 # 1 /\ batch'[i] = batch[i + 1]
    BY <1>0, <2>1, TailFacts DEF QueueType
  <2>3. CASE UNCHANGED <<removed>> \/ (doing = "state" /\ removed'["logs"] = removed["logs"])
    <3>1. batch' = Tail(batch) \/ batch' = batch
      BY <1>5 DEF Delete, CleanupFails, NextMessage
    <3> QED
      BY <2>1, <2>2, <2>3, <3>1 DEF NothingRemoved, Reported
  <2>4. CASE Delete /\ doing = "logs"
    <3>1. /\ batch' = Tail(batch)
          /\ \A q \in Operation \ {This} : removed'["logs"][q] = removed["logs"][q]
      BY <2>1, <2>4 DEF Delete, NextMessage, RemovedType, Stream
    <3>2. Reported(This)
      BY <2>1 DEF QueueInvariant
    <3>3. \A q \in Operation : ~Reported(q)' => removed'["logs"][q] = 0
      BY <2>1, <3>1, <3>2 DEF NothingRemoved, Reported
    <3>4. \A i \in 1..Len(batch') : pods'[batch'[i]] # 2 => removed'["logs"][batch'[i]] = 0
      <4> SUFFICES ASSUME NEW i \in 1..Len(batch'), pods[batch[i + 1]] # 2
                   PROVE  removed'["logs"][batch[i + 1]] = 0
        BY <2>1, <2>2, <3>1
      <4>1. batch[i + 1] # This /\ i + 1 \in 1..Len(batch)
        BY <2>1, <2>2, <3>1 DEF QueueInvariant
      <4> QED
        BY <1>0, <3>1, <4>1 DEF NothingRemoved
    <3>5. \A i \in 1..Len(globalStream) :
            pods[globalStream[i]] # 2 => removed'["logs"][globalStream[i]] = 0
      <4> SUFFICES ASSUME NEW i \in 1..Len(globalStream), pods[globalStream[i]] # 2
                   PROVE  removed'["logs"][globalStream[i]] = 0
        OBVIOUS
      <4>1. globalStream[i] # This
        BY <2>1 DEF QueueInvariant
      <4> QED
        BY <1>0, <3>1, <4>1 DEF NothingRemoved
    <3> QED
      BY <2>1, <3>3, <3>4, <3>5 DEF NothingRemoved
  <2>5. CASE Delete /\ doing = "state"
    <3>1. removed'["logs"] = removed["logs"]
      BY <2>5 DEF Delete, RemovedType, Stream
    <3> QED
      BY <2>3, <2>5, <3>1
  <2>6. CASE CleanupFails
    BY <2>3, <2>6 DEF CleanupFails
  <2> QED
    BY <1>5, <2>4, <2>5, <2>6 DEF QueueType, Stream
<1> QED
  BY <1>1, <1>2, <1>3, <1>4, <1>5 DEF Next, PodStep, ListenerMoves

\* The stream that is read does not grow: its operation has nothing more to say.
LEMMA ReportedLogsAreFinal ==
  ASSUME TypeOK, RemovedWasPushed, QueueInvariant, NEW o \in Operation, PodStep(o),
         NEW q \in Operation, Reported(q), pods'[q] # 2
  PROVE  LogLength(q)' = LogLength(q)
  BY PodStepFacts DEF QueueInvariant, Reported

LEMMA ReadingInvariantIsInductive ==
  TypeOK /\ RemovedWasPushed /\ QueueInvariant /\ NothingRemoved /\ ReadingInvariant /\ [Next]_vars
    => ReadingInvariant'
<1> SUFFICES ASSUME TypeOK, PushedType, RemovedType, QueueType, CursorType, StorageType,
                    RemovedWasPushed, QueueInvariant, NothingRemoved, ReadingInvariant,
                    [Next]_vars, NEW o \in Operation,
                    batch' # << >>, o = Head(batch'), doing' = "logs", pods'[o] # 2
             PROVE  ReadSoFar(o)'
  BY TypeParts DEF ReadingInvariant
<1>1. LogLength(o) \in Nat
  BY LenProperties DEF PushedType, LogLength, Stream
<1>2. ASSUME batch' = batch
      PROVE  Reported(o) /\ (pods[o] # 2 => removed["logs"][o] = 0)
  <2>1. o = batch[1] /\ 1 \in 1..Len(batch)
    BY <1>2, TailFacts DEF QueueType
  <2> QED
    BY <2>1 DEF QueueInvariant, NothingRemoved
<1>3. ASSUME NEW q \in Operation, PodStep(q) PROVE ReadSoFar(o)'
  <2>1. UNCHANGED <<listener, storage>> /\ (pods[o] = 2 => pods'[o] = 2)
    BY <1>3, PodStepFacts DEF QueueInvariant
  <2>2. LogLength(o)' = LogLength(o)
    BY <1>2, <1>3, <2>1, ReportedLogsAreFinal DEF listener
  <2>3. ReadSoFar(o)
    BY <2>1 DEF listener, ReadingInvariant
  <2> QED
    BY <2>1, <2>2, <2>3 DEF ReadSoFar, listener, cursor, storage
<1>4. CASE XReadGroup \/ Load \/ FaultStep
  \* not one of the steps that ReadSoFar speaks of is next
  BY <1>4 DEF XReadGroup, Load, FaultStep, CleanupFails, XReadGroupFails, Crash, NextMessage,
              ReadSoFar
<1>5. CASE ReadLength
  <2>1. /\ batch' = batch /\ o = This /\ doing = "logs" /\ UNCHANGED <<pod, pods, pushed>>
        /\ length' = XLen(doing, This) /\ processed' = 0 /\ lastID' = 0 /\ lines' = {}
        /\ step' = IF length' = 0 THEN "write" ELSE "read"
    BY <1>5 DEF ReadLength, podVars, This
  <2>2. length' = LogLength(o) /\ LogLength(o)' = LogLength(o)
    BY <1>1, <1>2, <2>1 DEF XLen, LogLength
  <2>3. 1..0 = {}
    OBVIOUS
  <2> QED
    BY <1>1, <2>1, <2>2, <2>3 DEF ReadSoFar
<1>6. CASE Read
  <2>1. /\ batch' = batch /\ batch # << >> /\ o = This /\ doing = "logs"
        /\ UNCHANGED <<pod, pods, pushed>> /\ step = "read"
    BY <1>6 DEF Read, podVars, This
  <2>2. ReadSoFar(o)
    BY <2>1 DEF ReadingInvariant, This
  <2>3. /\ length = LogLength(o) /\ processed = lastID /\ lines = 1..lastID
        /\ removed["logs"][o] = 0
    BY <1>2, <2>1, <2>2 DEF ReadSoFar
  <2>4. /\ processed' = lastID' /\ lastID < lastID' /\ lastID' <= LogLength(o)
        /\ lines' = lines \cup (lastID + 1)..lastID'
        /\ lastID \in Nat /\ lastID' \in Nat
        /\ length' = length /\ step' = IF processed' = length THEN "write" ELSE "read"
    BY <1>6, <2>1, <2>3, ReadFacts DEF LogLength, QueueType, CursorType
  <2>5. lines' = 1..lastID'
    BY <2>3, <2>4
  <2>6. LogLength(o)' = LogLength(o)
    BY <2>1 DEF LogLength
  <2> QED
    BY <2>3, <2>4, <2>5, <2>6 DEF ReadSoFar
<1>7. CASE Write
  <2>1. /\ batch' = batch /\ batch # << >> /\ o = This /\ doing = "logs"
        /\ UNCHANGED <<pods, pushed>> /\ step = "write" /\ step' = "delete"
        /\ logsFile' = [logsFile EXCEPT ![o] = lines]
    BY <1>7 DEF Write, podVars, This
  <2>2. lines = 1..LogLength(o)
    BY <2>1 DEF ReadingInvariant, ReadSoFar, This
  <2> QED
    BY <2>1, <2>2 DEF ReadSoFar, StorageType, LogLength
<1>8. CASE Delete
  BY <1>8 DEF Delete, NextMessage, ReadSoFar
<1>9. CASE UNCHANGED vars
  BY <1>9 DEF vars, podVars, listener, cursor, storage, ReadingInvariant, ReadSoFar, LogLength
<1> QED
  BY <1>3, <1>4, <1>5, <1>6, <1>7, <1>8, <1>9 DEF Next, PodStep, ListenerMoves, FaultStep

LEMMA LogsKeptIsInductive ==
  TypeOK /\ RemovedWasPushed /\ QueueInvariant /\ NothingRemoved /\ ReadingInvariant
  /\ LogsKept /\ [Next]_vars => LogsKept'
<1> SUFFICES ASSUME TypeOK, PodType, PodType', PushedType, RemovedType, QueueType, StorageType,
                    RemovedWasPushed, QueueInvariant, NothingRemoved, ReadingInvariant,
                    LogsKept, [Next]_vars,
                    NEW q \in Operation, pods'[q] <= 1, NEW i \in 1..LogLength(q)'
             PROVE  i > removed'["logs"][q] \/ i \in logsFile'[q]
  <2>1. TypeOK /\ RemovedWasPushed /\ QueueInvariant /\ [Next]_vars => PodType'
    BY TypeIsInductive DEF TypeOK, PodType
  <2> QED
    BY <2>1, TypeParts DEF LogsKept, LogLength
<1>1. LogLength(q) \in Nat /\ removed["logs"][q] \in Nat /\ pods'[q] # 2
  BY LenProperties DEF PushedType, RemovedType, LogLength, Stream, PodType
<1>2. ASSUME pods[q] # 2, i \in 1..LogLength(q)
      PROVE  i > removed["logs"][q] \/ i \in logsFile[q]
  BY <1>2 DEF LogsKept, LogLength, PodType
<1>3. ASSUME NEW o \in Operation, PodStep(o) PROVE i > removed'["logs"][q] \/ i \in logsFile'[q]
  <2>1. /\ UNCHANGED <<removed, logsFile>> /\ pods[q] # 2
        /\ \/ LogLength(q)' = LogLength(q)
           \/ pod[q] = "running" /\ LogLength(q)' = LogLength(q) + 1
    BY <1>1, <1>3, PodStepFacts DEF QueueInvariant, storage
  <2>2. CASE i \in 1..LogLength(q)
    BY <1>2, <2>1, <2>2
  <2>3. CASE i \notin 1..LogLength(q)
    <3>1. removed["logs"][q] = 0
      BY <1>1, <2>1, <2>3 DEF NothingRemoved, Reported
    <3> QED
      BY <1>1, <2>1, <3>1
  <2> QED
    BY <2>2, <2>3
<1>4. ASSUME UNCHANGED <<pods, pushed>>
      PROVE  pods[q] # 2 /\ i \in 1..LogLength(q) /\ (i > removed["logs"][q] \/ i \in logsFile[q])
  BY <1>1, <1>2, <1>4 DEF LogLength
<1>5. CASE XReadGroup \/ Load \/ ReadLength \/ Read \/ FaultStep \/ UNCHANGED vars
  <2>1. UNCHANGED <<pods, pushed, removed, logsFile>>
    BY <1>5 DEF XReadGroup, Load, ReadLength, Read, FaultStep, CleanupFails, XReadGroupFails,
                Crash, vars, podVars, storage
  <2> QED
    BY <1>4, <2>1
<1>6. CASE Write
  <2>1. UNCHANGED <<pods, pushed, removed>> /\ batch # << >> /\ This = batch[1]
        /\ 1 \in 1..Len(batch) /\ This \in Operation
    BY <1>6, TailFacts DEF Write, podVars, QueueInvariant, QueueType, This
  <2>2. CASE q = This
    \* nothing has been removed that could have been in the file only
    BY <1>4, <2>1, <2>2 DEF NothingRemoved
  <2>3. CASE q # This
    BY <1>4, <1>6, <2>1, <2>3 DEF Write, StorageType
  <2> QED
    BY <2>2, <2>3
<1>7. CASE Delete
  <2>1. UNCHANGED <<pods, pushed, logsFile>> /\ batch # << >> /\ This \in Operation
        /\ step = "delete"
    BY <1>7, TailFacts DEF Delete, podVars, storage, QueueInvariant, QueueType, This
  <2>2. CASE q = This /\ doing = "logs"
    BY <1>4, <2>1, <2>2 DEF ReadingInvariant, ReadSoFar, This
  <2>3. CASE ~(q = This /\ doing = "logs")
    <3>1. removed'["logs"][q] = removed["logs"][q]
      BY <1>7, <2>1, <2>3 DEF Delete, RemovedType, QueueType, Stream
    <3> QED
      BY <1>4, <2>1, <3>1
  <2> QED
    BY <2>2, <2>3
<1> QED
  BY <1>3, <1>5, <1>6, <1>7 DEF Next, PodStep, ListenerMoves, FaultStep

-----------------------------------------------------------------------------
(* The state.                                                              *)

Single == \A o \in Operation : pods[o] <= 1

\* Operations follow one another: so do their messages, and the state streams are removed in
\* this order.
InOrder ==
  /\ \A o, q \in Operation : q < o /\ pod[o] # "none" => pod[q] = "announced"
  /\ \A i, j \in 1..Len(batch) : i < j => batch[i] < batch[j]
  /\ \A i, j \in 1..Len(globalStream) : i < j => globalStream[i] < globalStream[j]
  /\ \A i \in 1..Len(batch), j \in 1..Len(globalStream) : batch[i] < globalStream[j]
  /\ \A o \in Operation : removed["state"][o] > 0 =>
       /\ pod[o] = "announced"
       /\ \A i \in 1..Len(batch) : o < batch[i] \/ (doing = "logs" /\ i = 1 /\ o = batch[1])
       /\ \A j \in 1..Len(globalStream) : o < globalStream[j]

\* What an entry says of its resource.
Said(e) == IF e.status = "deleted" THEN "absent" ELSE e.status

\* Of the entries from one to another, the last that says something of the resource r.
IsLast(es, from, to, r, i) ==
  i \in from..to /\ es[i].resource = r /\ \A j \in from..to : es[j].resource = r => j <= i

\* The state s has what the first n entries of es said last of each resource.
Reflects(s, es, n) == \A r \in Resource : \A i : IsLast(es, 1, n, r, i) => s[r] = Said(es[i])

\* The state s has what was said last of each resource, as far as that has been removed.
KeptIn(s) ==
  \A o \in Operation, r \in Resource :
    removed["state"][o] > 0 /\ (\A q \in Operation : q > o => Of(q, r) = {}) =>
      \A i \in Of(o, r) : (\A j \in Of(o, r) : j <= i) => s[r] = Said(pushed["state"][o][i])

\* What pushNewStateToStorage has read, is to write and has written.
DraftOf(o) ==
  LET es == pushed["state"][o] IN
  /\ step \in {"length", "read", "write"} => KeptIn(draft)
  /\ step = "read" => length = Len(es) /\ processed = lastID /\ lastID <= length /\ Reflects(draft, es, lastID)
  /\ step = "write" => Reflects(draft, es, Len(es))
  /\ step = "delete" => Reflects(currentState, es, Len(es))

StateInvariant ==
  Single =>
    /\ InOrder
    /\ batch # << >> /\ doing = "state" => DraftOf(Head(batch))
    /\ KeptIn(currentState)

LEMMA SingleBefore ==
  ASSUME TypeOK, RemovedWasPushed, QueueInvariant, [Next]_vars, Single'
  PROVE  Single
<1>1. \A q \in Operation : pods[q] = 2 => pods'[q] = 2
  <2>1. ASSUME NEW o \in Operation, PodStep(o)
        PROVE  \A q \in Operation : pods[q] = 2 => pods'[q] = 2
    BY <2>1, PodStepFacts DEF QueueInvariant
  <2>2. CASE UNCHANGED podVars
    BY <2>2 DEF podVars
  <2> QED
    BY <2>1, <2>2 DEF Next, PodStep, ListenerMoves, XReadGroup, Load, ReadLength, Read, Write, Delete,
                      CleanupFails, XReadGroupFails, Crash, vars
<1> QED
  BY <1>1, TypeParts DEF Single, PodType

\* What an operation pushes to its state stream comes before it is announced.
LEMMA SinglePodStep ==
  ASSUME TypeOK, RemovedWasPushed, QueueInvariant, InOrder, Single', NEW o \in Operation, PodStep(o)
  PROVE  /\ \A q \in Operation : pod[q] = "announced" =>
              pod'[q] = "announced" /\ pushed'["state"][q] = pushed["state"][q]
         /\ \A q \in Operation : \A r : Of(q, r) \subseteq Of(q, r)'
         /\ \A p, q \in Operation : p < q /\ pod'[q] # "none" => pod'[p] = "announced"
<1>1. /\ PodType /\ PushedType /\ PushedType' /\ Mark \in Entry /\ Update \subseteq Entry
      /\ "state" \in Stream /\ "logs" \in Stream
  BY TypeParts, PodStepFacts DEF Entry, Stream, QueueInvariant
<1>2. ASSUME NEW k \in Stream, NEW e \in Entry, Push(k, o, e)
      PROVE  /\ \A q \in Operation \ {o} : pushed'["state"][q] = pushed["state"][q]
             /\ \A q \in Operation : \A r : Of(q, r) \subseteq Of(q, r)'
  <2>1. \A q \in Operation : pushed'["state"][q] = IF k = "state" /\ q = o THEN Append(pushed["state"][o], e)
                                                   ELSE pushed["state"][q]
    BY <1>1, <1>2 DEF Push, PushedType
  <2>2. /\ Len(Append(pushed["state"][o], e)) = Len(pushed["state"][o]) + 1
        /\ Len(pushed["state"][o]) \in Nat
        /\ \A i \in 1..Len(pushed["state"][o]) : Append(pushed["state"][o], e)[i] = pushed["state"][o][i]
    BY <1>1, AppendFacts, LenProperties DEF PushedType
  <2>3. ASSUME NEW q \in Operation, NEW r, NEW i \in Of(q, r)
        PROVE  i \in Of(q, r)'
    <3>1. i \in 1..Len(pushed["state"][q]) /\ pushed["state"][q][i].resource = r
      BY <2>3 DEF Of
    <3>2. i \in 1..Len(pushed'["state"][q]) /\ pushed'["state"][q][i] = pushed["state"][q][i]
      <4>1. CASE k = "state" /\ q = o
        <5>1. pushed'["state"][q] = Append(pushed["state"][o], e)
          BY <2>1, <4>1
        <5> QED
          BY <2>2, <3>1, <4>1, <5>1
      <4>2. CASE ~(k = "state" /\ q = o)
        BY <2>1, <3>1, <4>2
      <4> QED
        BY <4>1, <4>2
    <3> QED
      BY <3>1, <3>2 DEF Of
  <2> QED
    BY <2>1, <2>3
<1>3. ASSUME UNCHANGED pushed
      PROVE  /\ \A q \in Operation : pushed'["state"][q] = pushed["state"][q]
             /\ \A q \in Operation : \A r : Of(q, r) \subseteq Of(q, r)'
  BY <1>3 DEF Of
<1>4. CASE Start(o)
  <2>1. /\ pod[o] = "none" /\ pod' = [pod EXCEPT ![o] = "running"]
        /\ \A q \in Operation : q < o => pod[q] = "announced"
    <3>1. ASSUME NEW q \in Operation, q < o
          PROVE  pod[q] = "announced"
      <4>1. o > 1 /\ o - 1 \in Operation /\ pod[o - 1] = "announced"
        BY <1>4, <3>1, OperationAssumption DEF Start, Operation
      <4>2. q = o - 1 \/ q < o - 1
        BY <3>1, OperationAssumption DEF Operation
      <4> QED
        BY <4>1, <4>2 DEF InOrder
    <3> QED
      BY <1>4, <3>1 DEF Start
  <2>2. \A q \in Operation : pod[q] = "announced" => q # o /\ pod'[q] = "announced"
    BY <1>1, <2>1 DEF PodType
  <2>3. \A p, q \in Operation : p < q /\ pod'[q] # "none" => pod'[p] = "announced"
    <3>1. ASSUME NEW p \in Operation, NEW q \in Operation, p < q, pod'[q] # "none"
          PROVE  pod[p] = "announced"
      BY <1>1, <2>1, <3>1 DEF PodType, InOrder
    <3> QED
      BY <2>2, <3>1
  <2> QED
    BY <1>1, <1>2, <1>3, <1>4, <2>2, <2>3 DEF Start
<1>5. ASSUME NEW place \in PodState, pod' = [pod EXCEPT ![o] = place], place # "none",
             pod[o] \notin {"none", "announced"}
      PROVE  /\ \A q \in Operation : pod[q] = "announced" => q # o /\ pod'[q] = "announced"
             /\ \A p, q \in Operation : p < q /\ pod'[q] # "none" => pod'[p] = "announced"
  <2>1. \A q \in Operation : pod[q] = "announced" => q # o /\ pod'[q] = "announced"
    BY <1>1, <1>5 DEF PodType
  <2>2. \A p, q \in Operation : p < q /\ pod'[q] # "none" => pod[p] = "announced"
    BY <1>1, <1>5 DEF PodType, InOrder
  <2> QED
    BY <2>1, <2>2
<1>6. CASE StoreLine(o)
  BY <1>1, <1>2, <1>5, <1>6 DEF StoreLine, PodState
<1>7. CASE StoreUpdate(o)
  <2>1. /\ pod[o] = "pushing" /\ pod' = [pod EXCEPT ![o] = "running"]
        /\ UNCHANGED pushed \/ \E e \in Entry : Push("state", o, e)
    BY <1>1, <1>7 DEF StoreUpdate
  <2> QED
    BY <1>1, <1>2, <1>3, <1>5, <2>1 DEF PodState
<1>8. CASE SaveOperation(o) \/ PushToGlobalStream(o)
  <2>1. /\ UNCHANGED pushed /\ pod[o] \in {"running", "told"}
        /\ \E place \in {"saved", "announced"} : pod' = [pod EXCEPT ![o] = place]
    BY <1>8 DEF SaveOperation, PushToGlobalStream
  <2> QED
    BY <1>3, <1>5, <2>1 DEF PodState
<1>9. CASE SendOperationCompleted(o)
  BY <1>1, <1>2, <1>5, <1>9 DEF SendOperationCompleted, PodState
<1>10. CASE Restart(o)
  <2>1. pods'[o] = 2
    BY <1>1, <1>10 DEF Restart, PodType
  <2> QED
    BY <2>1 DEF Single
<1> QED
  BY <1>4, <1>6, <1>7, <1>8, <1>9, <1>10 DEF PodStep

LEMMA InOrderKept ==
  ASSUME TypeOK, RemovedWasPushed, QueueInvariant, InOrder, Single', [Next]_vars
  PROVE  InOrder'
<1>1. /\ QueueType /\ PodType /\ RemovedType /\ PushedType /\ Single
      /\ Len(batch) \in Nat /\ Len(globalStream) \in Nat
      /\ \A i \in 1..Len(batch) : batch[i] \in Operation /\ pod[batch[i]] = "announced"
      /\ \A i \in 1..Len(globalStream) : globalStream[i] \in Operation /\ pod[globalStream[i]] = "announced"
  <2>1. QueueType /\ PodType /\ RemovedType /\ PushedType /\ Single
    BY TypeParts, SingleBefore
  <2>2. \A q \in Operation : Reported(q) => pod[q] = "announced"
    BY <2>1 DEF Reported, Single, PodType
  <2>3. /\ Len(batch) \in Nat /\ Len(globalStream) \in Nat
        /\ \A i \in 1..Len(batch) : batch[i] \in Operation
        /\ \A i \in 1..Len(globalStream) : globalStream[i] \in Operation
    BY <2>1, LenProperties DEF QueueType
  <2> QED
    BY <2>1, <2>2, <2>3 DEF QueueInvariant
<1>2. Operation \subseteq Int
  BY OperationAssumption DEF Operation
<1>3. ASSUME NEW o \in Operation, PodStep(o) PROVE InOrder'
  <2>1. /\ UNCHANGED <<removed, listener>>
        /\ \/ globalStream' = globalStream
           \/ globalStream' = Append(globalStream, o) /\ pod[o] = "told" /\ pod'[o] = "announced"
        /\ \A q \in Operation : pod[q] = "announced" => pod'[q] = "announced"
        /\ \A p, q \in Operation : p < q /\ pod'[q] # "none" => pod'[p] = "announced"
    BY <1>3, PodStepFacts, SinglePodStep DEF QueueInvariant
  <2>2. CASE globalStream' = globalStream
    BY <2>1, <2>2 DEF InOrder, listener
  <2>3. CASE globalStream' = Append(globalStream, o) /\ pod[o] = "told"
    <3>1. /\ Len(globalStream') = Len(globalStream) + 1
          /\ \A i \in 1..Len(globalStream) : globalStream'[i] = globalStream[i]
          /\ globalStream'[Len(globalStream) + 1] = o
      BY <1>1, <2>3, AppendFacts DEF QueueType
    <3>2. \A q \in Operation : pod[q] = "announced" => q < o
      BY <1>2, <2>3 DEF InOrder
    <3>3. /\ \A i \in 1..Len(batch) : batch[i] < o
          /\ \A i \in 1..Len(globalStream) : globalStream[i] < o
      BY <1>1, <3>2
    <3>4. \A i, j \in 1..Len(globalStream') : i < j => globalStream'[i] < globalStream'[j]
      BY <1>1, <3>1, <3>3 DEF InOrder
    <3>5. \A i \in 1..Len(batch), j \in 1..Len(globalStream') : batch[i] < globalStream'[j]
      BY <1>1, <3>1, <3>3 DEF InOrder
    <3>6. \A q \in Operation : removed["state"][q] > 0 => \A j \in 1..Len(globalStream') : q < globalStream'[j]
      BY <1>1, <3>1, <3>2 DEF InOrder
    <3> QED
      BY <2>1, <3>4, <3>5, <3>6 DEF InOrder, listener
  <2> QED
    BY <2>1, <2>2, <2>3
<1>4. CASE XReadGroup
  <2>1. /\ batch = << >> /\ Len(batch) = 0 /\ batch' = globalStream /\ globalStream' = << >>
        /\ Len(globalStream') = 0 /\ UNCHANGED <<pod, removed>>
    BY <1>4, EmptySeq DEF XReadGroup, QueueInvariant, podVars
  <2> QED
    BY <2>1 DEF InOrder
<1>5. CASE Load \/ ReadLength \/ Read \/ Write \/ XReadGroupFails \/ UNCHANGED vars
  <2>1. UNCHANGED <<pod, removed, batch, globalStream, doing>>
    BY <1>5 DEF Load, ReadLength, Read, Write, XReadGroupFails, vars, podVars, listener
  <2> QED
    BY <2>1 DEF InOrder
<1>6. CASE Crash
  <2>1. Len(batch') = 0 /\ UNCHANGED <<pod, removed, globalStream>>
    BY <1>6, EmptySeq DEF Crash, podVars
  <2> QED
    BY <2>1 DEF InOrder
<1>7. CASE Delete \/ CleanupFails
  <2>1. /\ batch # << >> /\ UNCHANGED <<pod, globalStream>> /\ This = batch[1] /\ 1 \in 1..Len(batch)
        /\ This \in Operation /\ doing \in {"state", "logs"}
    BY <1>1, <1>7, TailFacts DEF Delete, CleanupFails, QueueInvariant, QueueType, podVars, This, Stream
  <2>2. ASSUME batch' = Tail(batch), 
               \A q \in Operation : removed'["state"][q] > 0 => removed["state"][q] > 0
        PROVE  InOrder'
    <3>1. /\ Len(batch') \in Nat
          /\ \A i \in 1..Len(batch') : i + 1 \in 1..Len(batch) /\ batch'[i] = batch[i + 1] /\ batch[1] < batch[i + 1]
      <4>1. Tail(batch) \in Seq(Operation)
            /\ \A i \in 1..Len(Tail(batch)) : i + 1 \in 1..Len(batch) /\ Tail(batch)[i] = batch[i + 1]
        BY <1>1, <2>1, TailFacts DEF QueueType
      <4> QED
        BY <2>1, <2>2, <4>1, LenProperties DEF InOrder
    <3>2. \A i, j \in 1..Len(batch') : i < j => batch'[i] < batch'[j]
      <4>1. \A i, j \in 1..Len(batch') : i < j => i + 1 < j + 1
        BY <3>1
      <4> QED
        BY <3>1, <4>1 DEF InOrder
    <3>3. \A i \in 1..Len(batch'), j \in 1..Len(globalStream) : batch'[i] < globalStream[j]
      BY <3>1 DEF InOrder
    <3>4. \A q \in Operation : removed'["state"][q] > 0 =>
            /\ pod[q] = "announced" /\ \A j \in 1..Len(globalStream) : q < globalStream[j]
            /\ \A i \in 1..Len(batch') : q < batch'[i]
      <4>1. ASSUME NEW q \in Operation, removed'["state"][q] > 0, NEW i \in 1..Len(batch')
            PROVE  q < batch'[i]
        BY <2>2, <3>1, <4>1 DEF InOrder
      <4> QED
        BY <2>2, <4>1 DEF InOrder
    <3> QED
      BY <2>1, <3>2, <3>3, <3>4 DEF InOrder
  <2>3. CASE CleanupFails
    BY <2>2, <2>3 DEF CleanupFails, NextMessage
  <2>4. CASE Delete
    <3>1. /\ \A q \in Operation : removed'["state"][q] =
               IF doing = "state" /\ q = This THEN Len(pushed["state"][This]) ELSE removed["state"][q]
          /\ Len(pushed["state"][This]) \in Nat /\ \A q \in Operation : removed["state"][q] \in Nat
      BY <1>1, <2>1, <2>4, LenProperties DEF Delete, RemovedType, PushedType, Stream
    <3>2. CASE NextMessage /\ doing = "logs"
      BY <2>2, <3>1, <3>2 DEF NextMessage
    <3>3. CASE NextMessage /\ doing = "state" /\ XLen(doing, This) = 0
      BY <2>2, <3>1, <3>3 DEF NextMessage, XLen
    <3>4. CASE doing = "state" /\ doing' = "logs" /\ UNCHANGED batch
      <4>1. \A q \in Operation : removed["state"][q] > 0 => \A i \in 1..Len(batch) : q < batch[i]
        BY <3>4 DEF InOrder
      <4>2. pod[This] = "announced" /\ \A i \in 1..Len(batch) : i = 1 \/ This < batch[i]
        BY <1>1, <2>1 DEF InOrder
      <4>3. \A j \in 1..Len(globalStream) : This < globalStream[j]
        BY <2>1 DEF InOrder
      <4> QED
        BY <2>1, <3>1, <3>4, <4>1, <4>2, <4>3 DEF InOrder
    <3> QED
      BY <2>1, <2>4, <3>2, <3>3, <3>4 DEF Delete
  <2> QED
    BY <1>7, <2>3, <2>4
<1> QED
  BY <1>3, <1>4, <1>5, <1>6, <1>7 DEF Next, PodStep, ListenerMoves

\* What the last of some entries say decides; of the other resources nothing changes.
LEMMA AfterFacts ==
  ASSUME NEW es \in Seq(Entry), NEW first \in Nat, NEW upto \in Nat, first < upto, upto <= Len(es),
         NEW old, NEW new \in After(old, SubSeq(es, first + 1, upto)), NEW r \in Resource
  PROVE  /\ (\A i \in (first + 1)..upto : es[i].resource # r) => new[r] = old[r]
         /\ \A i \in (first + 1)..upto : IsLast(es, first + 1, upto, r, i) => new[r] = Said(es[i])
<1> DEFINE part == SubSeq(es, first + 1, upto)
           of == {i \in DOMAIN part : part[i].resource = r}
<1>1. DOMAIN part = 1..(upto - first) /\ \A i \in 1..(upto - first) : part[i] = es[first + i]
  <2>1. \A i \in (first + 1)..upto : es[i] \in Entry
    BY ElementOfSeq
  <2>2. /\ SubSeq(es, first + 1, upto) \in Seq(Entry)
        /\ Len(SubSeq(es, first + 1, upto)) = upto - first
        /\ \A i \in 1..(upto - first) : SubSeq(es, first + 1, upto)[i] = es[first + i]
    BY <2>1, SubSeqProperties
  <2> QED
    BY <2>2, LenProperties
<1>2. \/ of = {} /\ new[r] = old[r]
      \/ \E i \in of : (\A j \in of : j <= i) /\ new[r] = Said(part[i])
  BY DEF After, Said
<1> HIDE DEF part
<1>3. \A i \in (first + 1)..upto : i - first \in DOMAIN part /\ part[i - first] = es[i]
  <2> TAKE i \in (first + 1)..upto
  <2>1. i - first \in 1..(upto - first) /\ first + (i - first) = i
    OBVIOUS
  <2> QED
    BY <1>1, <2>1
<1>4. ASSUME \A i \in (first + 1)..upto : es[i].resource # r
      PROVE  new[r] = old[r]
  <2>1. \A i \in DOMAIN part : first + i \in (first + 1)..upto
    BY <1>1
  <2>2. of = {}
    BY <1>1, <1>4, <2>1
  <2> QED
    BY <1>2, <2>2
<1>5. ASSUME NEW i \in (first + 1)..upto, IsLast(es, first + 1, upto, r, i)
      PROVE  new[r] = Said(es[i])
  <2>1. i - first \in of /\ i \in Int
    BY <1>3, <1>5 DEF IsLast
  <2>2. PICK k \in of : (\A j \in of : j <= k) /\ new[r] = Said(part[k])
    BY <1>2, <2>1
  <2>3. first + k \in (first + 1)..upto /\ es[first + k].resource = r /\ k \in Int /\ part[k] = es[first + k]
    BY <1>1, <2>2
  <2>4. i - first <= k /\ first + k <= i
    BY <1>5, <2>1, <2>2, <2>3 DEF IsLast
  <2>5. first + k = i
    BY <2>1, <2>3, <2>4
  <2> QED
    BY <2>2, <2>3, <2>5
<1> QED
  BY <1>4, <1>5

\* The last entry of a part that names a resource decides what it has afterwards.
LEMMA AfterLast ==
  ASSUME NEW es \in Seq(Entry), NEW first \in Nat, NEW upto \in Nat, first < upto, upto <= Len(es),
         NEW old, NEW new \in After(old, SubSeq(es, first + 1, upto)), NEW r \in Resource,
         NEW i \in (first + 1)..upto, IsLast(es, first + 1, upto, r, i)
  PROVE  new[r] = Said(es[i])
<1>1. \A k \in (first + 1)..upto : IsLast(es, first + 1, upto, r, k) => new[r] = Said(es[k])
  BY AfterFacts
<1> QED
  BY <1>1

\* The part of the stream that is read next adds what it says.
LEMMA ReadReflects ==
  ASSUME NEW es \in Seq(Entry), NEW first \in Nat, NEW upto \in Nat, first < upto, upto <= Len(es),
         NEW old, NEW new \in After(old, SubSeq(es, first + 1, upto)), Reflects(old, es, first)
  PROVE  /\ Reflects(new, es, upto)
         /\ \A r \in Resource : (\A i \in (first + 1)..upto : es[i].resource # r) => new[r] = old[r]
<1>a. \A r \in Resource : (\A i \in (first + 1)..upto : es[i].resource # r) => new[r] = old[r]
  BY AfterFacts
<1>b. ASSUME NEW r \in Resource, NEW i \in (first + 1)..upto, IsLast(es, first + 1, upto, r, i)
      PROVE  new[r] = Said(es[i])
  BY <1>b, AfterLast
<1> SUFFICES ASSUME NEW r \in Resource, NEW i, IsLast(es, 1, upto, r, i)
             PROVE  new[r] = Said(es[i])
  BY <1>a DEF Reflects
<1>0. i \in 1..upto /\ es[i].resource = r /\ \A j \in 1..upto : es[j].resource = r => j <= i
  BY DEF IsLast
<1>1. CASE i > first
  <2>1. i \in (first + 1)..upto /\ (first + 1)..upto \subseteq 1..upto
    BY <1>0, <1>1
  <2>2. IsLast(es, first + 1, upto, r, i)
    BY <1>0, <2>1 DEF IsLast
  <2> QED
    BY <2>1, <2>2, <1>b
<1>2. CASE i <= first
  <2>1. i \in 1..first /\ 1..first \subseteq 1..upto /\ (first + 1)..upto \subseteq 1..upto
    BY <1>0, <1>2
  <2>2. \A j \in (first + 1)..upto : es[j].resource # r
    BY <1>0, <1>2, <2>1
  <2>3. new[r] = old[r]
    BY <2>2, <1>a
  <2>4. IsLast(es, 1, first, r, i)
    BY <1>0, <2>1 DEF IsLast
  <2> QED
    BY <2>3, <2>4 DEF Reflects
<1> QED
  BY <1>0, <1>1, <1>2

LEMMA StateInvariantIsInductive ==
  TypeOK /\ RemovedWasPushed /\ QueueInvariant /\ StateInvariant /\ [Next]_vars => StateInvariant'
<1> SUFFICES ASSUME TypeOK, RemovedWasPushed, QueueInvariant, StateInvariant, [Next]_vars, Single'
             PROVE  StateInvariant'
  BY DEF StateInvariant
<1>1. /\ Single /\ InOrder /\ InOrder' /\ KeptIn(currentState)
      /\ batch # << >> /\ doing = "state" => DraftOf(This)
  BY SingleBefore, InOrderKept DEF StateInvariant, This
<1>2. /\ PushedType /\ RemovedType /\ QueueType /\ CursorType /\ PodType /\ Operation \subseteq Int
      /\ \A q \in Operation : Len(pushed["state"][q]) \in Nat /\ pushed["state"][q] \in Seq(Entry)
      /\ \A q \in Operation : removed["state"][q] \in Nat
  <2>1. PushedType /\ RemovedType /\ QueueType /\ CursorType /\ PodType
    BY TypeParts
  <2>2. "state" \in Stream /\ Operation \subseteq Int
    BY OperationAssumption DEF Stream, Operation
  <2>3. \A q \in Operation : pushed["state"][q] \in Seq(Entry) /\ removed["state"][q] \in Nat
    BY <2>1, <2>2 DEF PushedType, RemovedType
  <2> QED
    BY <2>1, <2>2, <2>3, LenProperties
<1>3. ASSUME batch # << >>
      PROVE  /\ This \in Operation /\ pod[This] = "announced" /\ 1 \in 1..Len(batch) /\ This = batch[1]
             /\ doing = "state" => /\ removed["state"][This] = 0
                                   /\ \A q \in Operation : removed["state"][q] > 0 => q < This
  <2>1. This \in Operation /\ 1 \in 1..Len(batch) /\ This = batch[1]
    BY <1>2, <1>3, TailFacts DEF QueueType, This
  <2>2. Reported(This)
    BY <2>1 DEF QueueInvariant
  <2>3. doing = "state" => \A q \in Operation : removed["state"][q] > 0 => q < This
    BY <1>1, <2>1 DEF InOrder
  <2> QED
    BY <1>1, <1>2, <2>1, <2>2, <2>3 DEF Reported, Single, PodType
<1>4. ASSUME UNCHANGED <<pushed, removed, currentState>>,
             step' \in {"idle", "load", "dead"} \/ doing' = "logs"
      PROVE  StateInvariant'
  <2>1. KeptIn(currentState)'
    BY <1>1, <1>4 DEF KeptIn, Of
  <2> QED
    BY <1>1, <1>4, <2>1 DEF StateInvariant, DraftOf
<1>5. ASSUME NEW o \in Operation, PodStep(o) PROVE StateInvariant'
  <2>1. /\ UNCHANGED <<removed, batch, step, doing, length, processed, lastID, draft, currentState>>
        /\ \A q \in Operation : pod[q] = "announced" => pushed'["state"][q] = pushed["state"][q]
        /\ \A q \in Operation : \A r : Of(q, r) \subseteq Of(q, r)'
    BY <1>1, <1>5, PodStepFacts, SinglePodStep DEF QueueInvariant, listener, cursor, storage
  <2>2. \A q \in Operation : removed["state"][q] > 0 => pushed'["state"][q] = pushed["state"][q]
    BY <1>1, <2>1 DEF InOrder
  <2>3. \A q \in Operation, r \in Resource : removed["state"][q] > 0 => Of(q, r)' = Of(q, r)
    BY <2>2 DEF Of
  <2>4. KeptIn(currentState)' /\ (KeptIn(draft) => KeptIn(draft)')
    <3>1. \A q \in Operation, r \in Resource :
            (\A p \in Operation : p > q => Of(p, r)' = {}) => (\A p \in Operation : p > q => Of(p, r) = {})
      BY <2>1
    <3> QED
      BY <1>1, <2>1, <2>2, <2>3, <3>1 DEF KeptIn
  <2>5. batch # << >> /\ doing = "state" => DraftOf(This)'
    <3>1. batch # << >> => pushed'["state"][This] = pushed["state"][This] /\ This' = This
      BY <1>3, <2>1 DEF This
    <3> QED
      BY <1>1, <2>1, <2>4, <3>1 DEF DraftOf, Reflects
  <2> QED
    BY <1>1, <2>1, <2>4, <2>5 DEF StateInvariant, This
<1>6. CASE XReadGroup \/ CleanupFails \/ XReadGroupFails \/ Crash
  BY <1>4, <1>6 DEF XReadGroup, CleanupFails, XReadGroupFails, Crash, storage, NextMessage
<1>7. CASE Load \/ ReadLength \/ Read \/ Write
  <2>1. /\ batch # << >> /\ UNCHANGED <<pushed, removed, batch, doing>> /\ This' = This
    BY <1>7 DEF Load, ReadLength, Read, Write, QueueInvariant, This
  <2>2. CASE doing = "logs"
    <3>1. UNCHANGED currentState
      BY <1>7, <2>2 DEF Load, ReadLength, Read, Write, storage
    <3> QED
      BY <1>4, <2>1, <2>2, <3>1
  <2>3. CASE doing = "state"
    <3> DEFINE es == pushed["state"][This]
    <3>1. /\ DraftOf(This) /\ es \in Seq(Entry) /\ Len(es) \in Nat /\ removed["state"][This] = 0
          /\ This \in Operation
      BY <1>1, <1>2, <1>3, <2>1, <2>3
    <3>2. ASSUME DraftOf(This)', currentState' = currentState
          PROVE  StateInvariant'
      <4>1. KeptIn(currentState)'
        BY <1>1, <2>1, <3>2 DEF KeptIn, Of
      <4> QED
        BY <1>1, <2>1, <3>2, <4>1 DEF StateInvariant, This
    <3>3. CASE Load
      <4>1. draft' = currentState /\ step' = "length" /\ currentState' = currentState
        BY <3>3 DEF Load, storage
      <4>2. KeptIn(draft)'
        BY <1>1, <2>1, <4>1 DEF KeptIn, Of
      <4> QED
        BY <2>1, <3>2, <4>1, <4>2 DEF DraftOf
    <3>4. CASE ReadLength
      <4>1. /\ step = "length" /\ length' = Len(es) /\ processed' = 0 /\ lastID' = 0
            /\ step' = IF length' = 0 THEN "write" ELSE "read"
            /\ draft' = draft /\ currentState' = currentState
        BY <2>3, <3>1, <3>4 DEF ReadLength, XLen, storage
      <4>2. KeptIn(draft)'
        BY <2>1, <3>1, <4>1 DEF DraftOf, KeptIn, Of
      <4>3. Reflects(draft', es, 0)
        BY DEF Reflects, IsLast
      <4> QED
        BY <2>1, <3>1, <3>2, <4>1, <4>2, <4>3 DEF DraftOf, Reflects
    <3>5. CASE Read
      <4>1. /\ step = "read" /\ length = Len(es) /\ processed = lastID /\ lastID \in Nat
            /\ Reflects(draft, es, lastID) /\ KeptIn(draft)
        BY <1>2, <3>1, <3>5 DEF Read, DraftOf, CursorType
      <4>2. /\ processed' = lastID' /\ lastID < lastID' /\ lastID' <= Len(es) /\ lastID' \in Nat
            /\ length' = length /\ step' = IF processed' = length THEN "write" ELSE "read"
            /\ draft' \in After(draft, SubSeq(es, lastID + 1, lastID'))
            /\ currentState' = currentState
        BY <1>2, <2>3, <3>1, <3>5, <4>1, ReadFacts DEF QueueType, CursorType, Read, storage
      <4>3. Reflects(draft', es, lastID')
        BY <3>1, <4>1, <4>2, ReadReflects
      <4>4. ASSUME NEW o \in Operation, NEW r \in Resource, removed["state"][o] > 0,
                   \A q \in Operation : q > o => Of(q, r) = {}
            PROVE  draft'[r] = draft[r]
        <5>1. Of(This, r) = {}
          BY <1>2, <1>3, <2>1, <2>3, <3>1, <4>4
        <5>2. \A i \in (lastID + 1)..lastID' : es[i].resource # r
          BY <3>1, <4>1, <4>2, <5>1 DEF Of
        <5> QED
          BY <3>1, <4>1, <4>2, <5>2, ReadReflects
      <4>5. KeptIn(draft)'
        BY <2>1, <4>1, <4>4 DEF KeptIn, Of
      <4> QED
        BY <2>1, <3>1, <3>2, <4>1, <4>2, <4>3, <4>5 DEF DraftOf, Reflects
    <3>6. CASE Write
      <4>1. /\ step = "write" /\ currentState' = draft /\ step' = "delete"
            /\ Reflects(draft, es, Len(es)) /\ KeptIn(draft)
        BY <2>3, <3>1, <3>6 DEF Write, DraftOf
      <4>2. KeptIn(currentState)'
        BY <2>1, <4>1 DEF KeptIn, Of
      <4>3. DraftOf(This)'
        BY <2>1, <4>1 DEF DraftOf, Reflects
      <4> QED
        BY <1>1, <2>1, <4>2, <4>3 DEF StateInvariant, This
    <3> QED
      BY <1>7, <3>3, <3>4, <3>5, <3>6
  <2> QED
    BY <1>2, <2>2, <2>3 DEF QueueType, Stream
<1>8. CASE Delete
  <2>1. /\ batch # << >> /\ step = "delete" /\ UNCHANGED <<pushed, currentState>>
        /\ step' \in {"idle", "load"} \/ doing' = "logs"
    BY <1>8 DEF Delete, NextMessage, storage, QueueInvariant
  <2>2. /\ This \in Operation
        /\ \A q \in Operation : removed'["state"][q] =
             IF doing = "state" /\ q = This THEN Len(pushed["state"][This]) ELSE removed["state"][q]
    BY <1>2, <1>3, <1>8, <2>1 DEF Delete, RemovedType, QueueType, Stream
  <2>3. ASSUME NEW o \in Operation, NEW r \in Resource, removed'["state"][o] > 0,
               \A q \in Operation : q > o => Of(q, r) = {},
               NEW i \in Of(o, r), \A j \in Of(o, r) : j <= i
        PROVE  currentState[r] = Said(pushed["state"][o][i])
    <3>1. CASE doing = "state" /\ o = This
      <4>1. Reflects(currentState, pushed["state"][This], Len(pushed["state"][This]))
        BY <1>1, <2>1, <3>1 DEF DraftOf
      <4> QED
        BY <2>3, <3>1, <4>1 DEF Reflects, IsLast, Of
    <3>2. CASE ~(doing = "state" /\ o = This)
      BY <1>1, <2>2, <2>3, <3>2 DEF KeptIn
    <3> QED
      BY <3>1, <3>2
  <2>4. KeptIn(currentState)'
    BY <2>1, <2>3 DEF KeptIn, Of
  <2> QED
    BY <1>1, <2>1, <2>4 DEF StateInvariant, DraftOf
<1>9. CASE UNCHANGED vars
  BY <1>1, <1>9, SMTT(30) DEF vars, podVars, listener, cursor, storage, StateInvariant, DraftOf, KeptIn, Of, Reflects
<1> QED
  BY <1>5, <1>6, <1>7, <1>8, <1>9 DEF Next, PodStep, ListenerMoves

-----------------------------------------------------------------------------
(* The theorems.                                                           *)

StreamInvariant ==
  TypeOK /\ RemovedWasPushed /\ QueueInvariant /\ NothingRemoved /\ ReadingInvariant /\ LogsKept
  /\ StateInvariant

LEMMA StreamInvariantHolds == Spec => []StreamInvariant
<1>1. Init => StreamInvariant
  <2> SUFFICES ASSUME Init PROVE StreamInvariant
    OBVIOUS
  <2>1. /\ << >> \in Seq(Operation) /\ << >> \in Seq(Entry) /\ Len(<< >>) = 0
    BY EmptySeq
  <2>2. PodType /\ RemovedType /\ StorageType
    BY CountAssumption DEF Init, PodType, RemovedType, StorageType, PodState, State
  <2>3. PushedType /\ QueueType /\ CursorType
    BY <2>1 DEF Init, PushedType, QueueType, CursorType, ListenerStep, Stream, State
  <2>4. RemovedWasPushed /\ LogsKept
    BY <2>1 DEF Init, RemovedWasPushed, LogsKept, Stream
  <2>5. QueueInvariant /\ NothingRemoved /\ ReadingInvariant
    BY <2>1 DEF Init, QueueInvariant, NothingRemoved, ReadingInvariant, Stream
  <2>6. StateInvariant
    BY <2>1 DEF Init, StateInvariant, InOrder, KeptIn, Stream
  <2> QED
    BY <2>2, <2>3, <2>4, <2>5, <2>6, TypeParts DEF StreamInvariant
<1>2. StreamInvariant /\ [Next]_vars => StreamInvariant'
  BY TypeIsInductive, QueueInvariantIsInductive, NothingRemovedIsInductive,
     ReadingInvariantIsInductive, LogsKeptIsInductive, StateInvariantIsInductive DEF StreamInvariant
<1> QED
  BY <1>1, <1>2, PTL DEF Spec

\* The streams, files and messages are of their types, and the reading loops have
\* processed and read a number of entries, whatever was removed under them.
THEOREM TypeCorrect == Spec => []TypeOK
  BY StreamInvariantHolds, PTL DEF StreamInvariant

\* Whenever the listener or one of its calls stops, each log line of an operation whose
\* pod was not replaced is still on its stream or in its logs file.
THEOREM LogsAreKept == Spec => []LogsKept
  BY StreamInvariantHolds, PTL DEF StreamInvariant

\* When the state stream of an operation is removed, current_state.json has what was said last of
\* each resource that no later operation has said anything of: whatever operations were cleaned
\* up, or were not, before and after it, however many XReads its stream took, and whichever call
\* of the listener failed or crash came between the file and the deletion. No pod was replaced.
THEOREM StateIsKept == Spec => []StateKept
<1>1. StreamInvariant => StateKept
  BY DEF StreamInvariant, StateInvariant, Single, KeptIn, StateKept, Said
<1> QED
  BY <1>1, StreamInvariantHolds, PTL
=============================================================================
