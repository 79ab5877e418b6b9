---- MODULE EgressRecorderProofs ----
(***************************************************************************)
(* Proofs about EgressRecorder, for every number of connections, every     *)
(* semaphore and channel size, and any number of requests and attempts.    *)
(***************************************************************************)
EXTENDS EgressRecorder, FiniteSetTheorems, TLAPS

\* The part of SlotsHeld that is not in the types.
SlotsTaken == sem = Cardinality(Running)

TypeInv == TypeOK /\ SlotsTaken

LEMMA RunningFinite == IsFiniteSet(Running)
  BY FS_Subset, EgressAssumption DEF Running

LEMMA TypeInit == Init => TypeInv
<1> SUFFICES ASSUME Init PROVE TypeInv
  OBVIOUS
<1>1. Running = {}
  BY DEF Init, Running
<1>2. Cardinality({}) = 0
  BY FS_EmptySet
<1>3. ProcessType
  BY DEF Init, ProcessType
<1>4. RequestType
  BY EgressAssumption DEF Init, RequestType
<1>5. WorkerType
  BY DEF Init, WorkerType, Appending, Swapping
<1>6. ChannelType
  BY EgressAssumption DEF Init, ChannelType
<1> QED
  BY <1>1, <1>2, <1>3, <1>4, <1>5, <1>6 DEF TypeInv, TypeOK, SlotsTaken, Init

\* The steps that leave the executions alone.
LEMMA SlotsKept ==
    ASSUME TypeInv, UNCHANGED sem, Running' = Running
    PROVE  SlotsTaken'
  BY DEF TypeInv, SlotsTaken

\* A step of a handler changes neither the process nor the worker.
LEMMA HandlerFrame ==
    ASSUME TypeOK, NEW h \in Handlers, Accept(h) \/ HandlerStep(h)
    PROVE  ProcessType' /\ WorkerType' /\ UNCHANGED <<sink, main, drained, stop, worker>>
<1>1. UNCHANGED <<processVars, workerVars>>
  BY DEF Accept, HandlerStep, Reject, Execute, Attempt, RecordEgress, Finish
<1> QED
  BY <1>1 DEF processVars, workerVars, TypeOK, ProcessType, WorkerType

\* A step of the worker changes neither the process nor the handlers.
LEMMA WorkerFrame ==
    ASSUME TypeOK, WorkerStep
    PROVE  ProcessType' /\ RequestType' /\ UNCHANGED <<sink, main, drained, stop, pc, sem>>
<1>1. UNCHANGED <<processVars, requestVars>>
  BY DEF WorkerStep, Take, Flush, Receive, ObserveStop, FlushDone, Appended, AppendFails, Swap
<1> QED
  BY <1>1 DEF processVars, requestVars, TypeOK, ProcessType, RequestType

\* A step of main changes neither the handlers nor the worker nor the counters.
LEMMA MainFrame ==
    ASSUME TypeOK, Signal \/ ServeFails \/ DrainStep
    PROVE  /\ RequestType' /\ WorkerType' /\ ChannelType'
           /\ UNCHANGED <<sink, pc, sem, worker, ch, appended, failed, reported, dropped, recorded>>
<1>1. UNCHANGED <<sink, requestVars, workerVars, ch, dropped, recorded>>
  BY DEF Signal, ServeFails, DrainStep, HttpDrained, DrainDeadlineExceeded, DrainReturns,
         DrainTimesOut
<1> QED
  BY <1>1 DEF requestVars, workerVars, TypeOK, RequestType, WorkerType, ChannelType

LEMMA TypeStep == TypeInv /\ [Next]_vars => TypeInv'
<1> SUFFICES ASSUME TypeInv, [Next]_vars PROVE TypeInv'
  OBVIOUS
<1> USE EgressAssumption
<1>a. TypeOK /\ SlotsTaken /\ ProcessType /\ RequestType /\ WorkerType /\ ChannelType
  BY DEF TypeInv, TypeOK
<1>1. ASSUME NEW h \in Handlers, Accept(h) \/ Reject(h) \/ Attempt(h) \/ RecordEgress(h)
      PROVE  TypeInv'
  <2>1. RequestType'
    BY <1>1, <1>a DEF Accept, Reject, Attempt, RecordEgress, RequestType
  <2>2. ChannelType'
    BY <1>1, <1>a DEF Accept, Reject, Attempt, RecordEgress, Offer, ChannelType
  <2>3. Running' = Running
    BY <1>1, <1>a DEF Accept, Reject, Attempt, RecordEgress, Idle, Running, RequestType
  <2>4. UNCHANGED sem
    BY <1>1 DEF Accept, Reject, Attempt, RecordEgress
  <2> QED
    BY <1>1, <1>a, <2>1, <2>2, <2>3, <2>4, SlotsKept, HandlerFrame DEF TypeInv, TypeOK, HandlerStep
<1>2. ASSUME NEW h \in Handlers, Execute(h) PROVE TypeInv'
  <2>1. Running' = Running \cup {h} /\ h \notin Running
    BY <1>2, <1>a DEF Execute, Running, RequestType
  <2>2. Cardinality(Running') = Cardinality(Running) + 1
    BY <2>1, RunningFinite, FS_AddElement
  <2>3. RequestType'
    <3>1. PICK n \in 0..MaxSteps : left' = [left EXCEPT ![h] = n]
      BY <1>2 DEF Execute
    <3> QED
      BY <1>2, <1>a, <3>1 DEF Execute, RequestType
  <2>4. ChannelType'
    BY <1>2, <1>a DEF Execute, ChannelType
  <2>5. SlotsTaken'
    BY <1>2, <1>a, <2>2 DEF SlotsTaken, Execute
  <2> QED
    BY <1>2, <1>a, <2>3, <2>4, <2>5, HandlerFrame DEF TypeInv, TypeOK, HandlerStep
<1>3. ASSUME NEW h \in Handlers, Finish(h) PROVE TypeInv'
  <2>1. Running' = Running \ {h} /\ h \in Running
    BY <1>3, <1>a DEF Finish, Running, RequestType
  <2>2. Cardinality(Running') = Cardinality(Running) - 1 /\ Cardinality(Running') \in Nat
    BY <2>1, RunningFinite, FS_RemoveElement, FS_CardinalityType, FS_Subset
  <2>3. sem' = sem - 1 /\ sem' = Cardinality(Running')
    BY <1>3, <1>a, <2>2 DEF Finish, SlotsTaken
  <2>4. RequestType'
    BY <1>3, <1>a, <2>2, <2>3 DEF Finish, RequestType
  <2>5. ChannelType'
    BY <1>3, <1>a DEF Finish, ChannelType
  <2> QED
    BY <1>3, <1>a, <2>3, <2>4, <2>5, HandlerFrame DEF TypeInv, TypeOK, SlotsTaken, HandlerStep
<1>4. CASE WorkerStep
  <2>1. WorkerType'
    <3>1. CASE Take \/ Flush \/ ObserveStop \/ FlushDone
      BY <3>1, <1>a DEF Take, Flush, Receive, ObserveStop, FlushDone, WorkerType, Appending, Swapping
    <3>2. CASE Appended \/ AppendFails
      <4>1. worker' \in Swapping /\ UNCHANGED reported
        BY <3>2 DEF Appended, AppendFails, Appending, Swapping, AfterAppend
      <4>2. appended' \in Nat /\ failed' \in Nat
        BY <3>2, <1>a DEF Appended, AppendFails, WorkerType
      <4> QED
        BY <4>1, <4>2, <1>a DEF WorkerType
    <3>3. CASE Swap
      <4>1. reported \in Nat /\ dropped \in Nat /\ reported' = reported + dropped
        BY <3>3, <1>a DEF Swap, WorkerType, ChannelType
      <4>2. reported' \in Nat
        BY <4>1
      <4> QED
        BY <3>3, <4>2, <1>a DEF Swap, WorkerType, Appending, Swapping, AfterSwap
    <3> QED
      BY <1>4, <3>1, <3>2, <3>3 DEF WorkerStep
  <2>2. ChannelType'
    <3>1. CASE Take \/ Flush
      <4>1. ch > 0 /\ ch' = ch - 1 /\ UNCHANGED <<dropped, recorded>>
        BY <3>1 DEF Take, Flush, Receive
      <4> QED
        BY <4>1, <1>a DEF ChannelType
    <3>2. CASE ObserveStop \/ FlushDone \/ Appended \/ AppendFails \/ Swap
      BY <3>2, <1>a DEF ObserveStop, FlushDone, Appended, AppendFails, Swap, ChannelType
    <3> QED
      BY <1>4, <3>1, <3>2 DEF WorkerStep
  <2>3. Running' = Running
    BY <1>4, <1>a, WorkerFrame DEF Running
  <2> QED
    BY <1>4, <1>a, <2>1, <2>2, <2>3, SlotsKept, WorkerFrame DEF TypeInv, TypeOK
<1>5. CASE Signal \/ ServeFails \/ DrainStep
  <2>1. ProcessType'
    BY <1>5, <1>a DEF Signal, ServeFails, DrainStep, HttpDrained, DrainDeadlineExceeded, EnterDrain,
                      DrainReturns, DrainTimesOut, ProcessType
  <2>2. Running' = Running
    BY <1>5, <1>a, MainFrame DEF Running
  <2> QED
    BY <1>5, <1>a, <2>1, <2>2, SlotsKept, MainFrame DEF TypeInv, TypeOK
<1>6. CASE UNCHANGED vars
  BY <1>6, <1>a DEF vars, processVars, requestVars, workerVars, TypeInv, TypeOK, ProcessType,
                    RequestType, WorkerType, ChannelType, SlotsTaken, Running
<1> QED
  BY <1>1, <1>2, <1>3, <1>4, <1>5, <1>6 DEF Next, HandlerStep

\* Every variable keeps its type; in particular no more than MaxConc executions
\* ever run at once and the channel never exceeds its buffer.
THEOREM EgressTypeCorrect == Spec => []TypeOK
<1>1. TypeInv => TypeOK
  BY DEF TypeInv
<1> QED
  BY TypeInit, TypeStep, <1>1, PTL DEF Spec

\* The semaphore counts the executions in progress, so no slot is ever leaked, and
\* there are never more of them than slots (execute's deferred release).
THEOREM SlotsHeldHolds == Spec => []SlotsHeld
<1>1. TypeInv => SlotsHeld
  BY EgressAssumption DEF TypeInv, TypeOK, RequestType, SlotsTaken, SlotsHeld
<1> QED
  BY TypeInit, TypeStep, <1>1, PTL DEF Spec

----------------------------------------------------------------------------
(* Accounting                                                              *)

LEMMA AccountingStep == TypeInv /\ EventsAccounted /\ [Next]_vars => EventsAccounted'
<1> SUFFICES ASSUME TypeInv, EventsAccounted, [Next]_vars, sink' PROVE EventsAccounted'
  BY DEF EventsAccounted
<1>a. TypeOK /\ ChannelType /\ WorkerType
  BY DEF TypeInv, TypeOK
<1>b. sink
  <2>1. UNCHANGED sink
    BY <1>a, HandlerFrame, WorkerFrame, MainFrame DEF Next, vars, processVars
  <2> QED
    BY <2>1
<1>c. recorded = ch + InHand + appended + failed + dropped + reported
  BY <1>b DEF EventsAccounted
<1>d. /\ ch \in Nat /\ appended \in Nat /\ failed \in Nat /\ dropped \in Nat /\ reported \in Nat
      /\ recorded \in Nat
  BY <1>a, EgressAssumption DEF ChannelType, WorkerType
<1>1. ASSUME NEW h \in Handlers, RecordEgress(h) PROVE EventsAccounted'
  <2>1. /\ recorded' = recorded + 1 /\ UNCHANGED <<appended, failed, reported>> /\ InHand' = InHand
        /\ InHand \in Nat
        /\ Offer
    BY <1>1, <1>b DEF RecordEgress, workerVars, InHand
  <2>2. \/ ch' = ch + 1 /\ dropped' = dropped
        \/ ch' = ch /\ dropped' = dropped + 1
    BY <2>1 DEF Offer
  <2>3. recorded' = ch' + InHand' + appended' + failed' + dropped' + reported'
    BY <1>c, <1>d, <2>1, <2>2
  <2> QED
    BY <2>3 DEF EventsAccounted
<1>2. CASE Take \/ Flush
  <2>1. InHand = 0 /\ InHand' = 1
    BY <1>2 DEF Take, Flush, Receive, InHand, Appending
  <2>2. /\ ch > 0 /\ ch' = ch - 1
        /\ UNCHANGED <<appended, failed, reported, dropped, recorded>>
    BY <1>2 DEF Take, Flush, Receive
  <2>3. recorded' = ch' + InHand' + appended' + failed' + dropped' + reported'
    BY <1>c, <1>d, <2>1, <2>2
  <2> QED
    BY <2>3 DEF EventsAccounted
<1>3. CASE Appended \/ AppendFails
  <2>1. InHand = 1 /\ InHand' = 0
    BY <1>3 DEF Appended, AppendFails, InHand, Appending, AfterAppend
  <2>2. /\ UNCHANGED <<ch, reported, dropped, recorded>>
        /\ \/ appended' = appended + 1 /\ failed' = failed
           \/ appended' = appended /\ failed' = failed + 1
    BY <1>3 DEF Appended, AppendFails
  <2>3. recorded' = ch' + InHand' + appended' + failed' + dropped' + reported'
    BY <1>c, <1>d, <2>1, <2>2
  <2> QED
    BY <2>3 DEF EventsAccounted
<1>4. CASE Swap
  <2>1. InHand = 0 /\ InHand' = 0
    BY <1>4 DEF Swap, InHand, Appending, Swapping, AfterSwap
  <2>2. /\ UNCHANGED <<ch, appended, failed, recorded>>
        /\ dropped' = 0 /\ reported' = reported + dropped
    BY <1>4 DEF Swap
  <2>3. recorded' = ch' + InHand' + appended' + failed' + dropped' + reported'
    BY <1>c, <1>d, <2>1, <2>2
  <2> QED
    BY <2>3 DEF EventsAccounted
<1>5. ASSUME UNCHANGED <<ch, InHand, appended, failed, dropped, reported, recorded>>
      PROVE  EventsAccounted'
  BY <1>5, <1>c DEF EventsAccounted
<1>6. CASE ObserveStop \/ FlushDone
  BY <1>5, <1>6 DEF ObserveStop, FlushDone, InHand, Appending
<1>7. ASSUME NEW h \in Handlers, Accept(h) \/ Reject(h) \/ Execute(h) \/ Attempt(h) \/ Finish(h)
      PROVE  EventsAccounted'
  BY <1>5, <1>7 DEF Accept, Reject, Execute, Attempt, Finish, workerVars, InHand
<1>8. CASE Signal \/ ServeFails \/ DrainStep
  BY <1>5, <1>8, <1>a, MainFrame DEF InHand
<1>9. CASE UNCHANGED vars
  BY <1>5, <1>9 DEF vars, workerVars, InHand
<1> QED
  BY <1>1, <1>2, <1>3, <1>4, <1>6, <1>7, <1>8, <1>9 DEF Next, HandlerStep, WorkerStep

\* Every event recorded is buffered, in the worker's hands, in the ledger, failed
\* or counted as dropped, whatever the interleaving of senders and worker.
THEOREM EventsAccountedHolds == Spec => []EventsAccounted
<1>1. Init => EventsAccounted
  BY DEF Init, EventsAccounted, InHand, Appending
<1> QED
  BY TypeInit, TypeStep, <1>1, AccountingStep, PTL DEF Spec

----------------------------------------------------------------------------
(* The flush                                                               *)

\* An unlogged drop has an event behind it whose append will log it: a drop
\* happens when the channel is full, and the worker reads the counter after each
\* event it takes out.
DropHasCarrier ==
    dropped > 0 => ch > 0 \/ worker \in Appending \cup Swapping

\* The worker stops only once Drain closed stop, and Drain follows Run.
StopOrder ==
    /\ main \in {"serving", "shutdown"} => ~stop
    /\ sink /\ worker = "exited" => stop
    /\ sink /\ worker \in {"flush", "append flush", "swap flush"} => stop

\* A drained server is quiet for good.
QuietWhenDrained ==
    drained => main \notin {"serving", "shutdown"} /\ \A h \in Handlers : Idle(h)

FlushInv == DropHasCarrier /\ StopOrder /\ QuietWhenDrained /\ FlushIsComplete

LEMMA FlushInit == Init => FlushInv
  BY DEF Init, FlushInv, DropHasCarrier, StopOrder, QuietWhenDrained, FlushIsComplete

LEMMA FlushStep == TypeInv /\ FlushInv /\ [Next]_vars => FlushInv'
<1> SUFFICES ASSUME TypeInv, FlushInv, [Next]_vars PROVE FlushInv'
  OBVIOUS
<1> USE EgressAssumption
<1>a. TypeOK /\ ChannelType /\ WorkerType /\ ProcessType
  BY DEF TypeInv, TypeOK
<1>b. DropHasCarrier /\ StopOrder /\ QuietWhenDrained /\ FlushIsComplete
  BY DEF FlushInv
<1>1. ASSUME NEW h \in Handlers, Accept(h) \/ HandlerStep(h) PROVE FlushInv'
  <2>1. UNCHANGED <<sink, main, drained, stop, worker>>
    BY <1>1, <1>a, HandlerFrame
  <2>2. ~drained
    BY <1>1, <1>b DEF Accept, HandlerStep, Reject, Execute, Attempt, RecordEgress, Finish,
                      QuietWhenDrained, Idle
  <2>3. DropHasCarrier'
    <3>1. CASE RecordEgress(h)
      <4>1. Offer \/ UNCHANGED <<ch, dropped>>
        BY <3>1 DEF RecordEgress
      <4>2. CASE Offer
        <5>1. ch' > 0
          BY <4>2, <1>a DEF Offer, ChannelType
        <5> QED
          BY <5>1 DEF DropHasCarrier
      <4>3. CASE UNCHANGED <<ch, dropped>>
        BY <4>3, <2>1, <1>b DEF DropHasCarrier
      <4> QED
        BY <4>1, <4>2, <4>3
    <3>2. CASE Accept(h) \/ Reject(h) \/ Execute(h) \/ Attempt(h) \/ Finish(h)
      BY <3>2, <2>1, <1>b DEF Accept, Reject, Execute, Attempt, Finish, DropHasCarrier
    <3> QED
      BY <1>1, <3>1, <3>2 DEF HandlerStep
  <2>4. StopOrder'
    BY <2>1, <1>b DEF StopOrder
  <2>5. QuietWhenDrained' /\ FlushIsComplete'
    BY <2>1, <2>2 DEF QuietWhenDrained, FlushIsComplete
  <2> QED
    BY <2>3, <2>4, <2>5 DEF FlushInv
<1>2. CASE WorkerStep
  <2>1. UNCHANGED <<sink, main, drained, stop, pc>>
    BY <1>2, <1>a, WorkerFrame
  <2>2. QuietWhenDrained'
    BY <2>1, <1>b DEF QuietWhenDrained, Idle
  <2>3. CASE Take \/ Flush
    <3>1. worker' \in Appending /\ worker' # "exited"
      BY <2>3 DEF Take, Flush, Receive, Appending
    <3>2. worker' = "append flush" => worker = "flush"
      BY <2>3 DEF Take, Flush, Receive
    <3>3. worker' \notin {"flush", "swap flush"}
      BY <2>3 DEF Take, Flush, Receive
    <3> QED
      BY <3>1, <3>2, <3>3, <2>1, <2>2, <1>b
      DEF FlushInv, DropHasCarrier, StopOrder, FlushIsComplete
  <2>4. CASE ObserveStop
    <3>1. UNCHANGED <<ch, dropped>> /\ worker' = "flush" /\ worker = "select" /\ stop
      BY <2>4 DEF ObserveStop
    <3> QED
      BY <3>1, <2>1, <2>2, <1>b
      DEF FlushInv, DropHasCarrier, StopOrder, FlushIsComplete, Appending, Swapping
  <2>5. CASE FlushDone
    <3>1. UNCHANGED <<ch, dropped>> /\ worker' = "exited" /\ worker = "flush" /\ ch = 0
      BY <2>5 DEF FlushDone
    <3>2. dropped = 0
      BY <3>1, <1>a, <1>b DEF DropHasCarrier, Appending, Swapping, ChannelType
    <3> QED
      BY <3>1, <3>2, <2>1, <2>2, <1>b DEF FlushInv, DropHasCarrier, StopOrder, FlushIsComplete
  <2>6. CASE Appended \/ AppendFails
    <3>1. /\ worker' \in Swapping /\ worker' # "exited"
          /\ worker' = "swap flush" => worker = "append flush"
          /\ worker' \notin {"flush", "append flush"}
      BY <2>6 DEF Appended, AppendFails, Appending, Swapping, AfterAppend
    <3> QED
      BY <3>1, <2>1, <2>2, <1>b DEF FlushInv, DropHasCarrier, StopOrder, FlushIsComplete
  <2>7. CASE Swap
    <3>1. /\ dropped' = 0 /\ worker' # "exited"
          /\ worker' = "flush" => worker = "swap flush"
          /\ worker' \notin {"append flush", "swap flush"}
      BY <2>7 DEF Swap, Swapping, AfterSwap
    <3>2. DropHasCarrier'
      <4>1. dropped' = 0
        BY <3>1
      <4>2. dropped' \in Nat => ~(dropped' > 0)
        BY <4>1
      <4> QED
        BY <4>1, <4>2 DEF DropHasCarrier
    <3>3. StopOrder' /\ FlushIsComplete'
      BY <3>1, <2>1, <1>b DEF StopOrder, FlushIsComplete
    <3> QED
      BY <3>2, <3>3, <2>2 DEF FlushInv
  <2> QED
    BY <1>2, <2>3, <2>4, <2>5, <2>6, <2>7 DEF WorkerStep
<1>3. CASE Signal \/ ServeFails \/ DrainStep
  <2>1. UNCHANGED <<sink, pc, worker, ch, dropped>>
    BY <1>3, <1>a, MainFrame
  <2>2. DropHasCarrier'
    BY <2>1, <1>b DEF DropHasCarrier
  <2>3. CASE Signal
    <3>1. main = "serving" /\ main' = "shutdown" /\ UNCHANGED <<drained, stop>>
      BY <2>3 DEF Signal
    <3>2. StopOrder'
      BY <2>1, <3>1, <1>b DEF StopOrder
    <3>3. ~drained /\ ~drained'
      BY <3>1, <1>b DEF QuietWhenDrained
    <3> QED
      BY <2>2, <3>2, <3>3 DEF FlushInv, QuietWhenDrained, FlushIsComplete
  <2>4. CASE ServeFails \/ DrainDeadlineExceeded
    <3>1. main \in {"serving", "shutdown"} /\ EnterDrain /\ UNCHANGED drained
      BY <2>4 DEF ServeFails, DrainDeadlineExceeded
    <3>2. ~drained /\ ~drained'
      BY <3>1, <1>b DEF QuietWhenDrained
    <3>3. StopOrder'
      BY <2>1, <3>1, <1>b DEF EnterDrain, StopOrder
    <3> QED
      BY <2>2, <3>2, <3>3 DEF FlushInv, QuietWhenDrained, FlushIsComplete
  <2>5. CASE HttpDrained
    <3>1. main = "shutdown" /\ EnterDrain /\ \A h \in Handlers : Idle(h)
      BY <2>5 DEF HttpDrained
    <3>2. StopOrder'
      BY <2>1, <3>1, <1>b DEF EnterDrain, StopOrder
    <3>3. QuietWhenDrained'
      BY <2>1, <3>1 DEF EnterDrain, QuietWhenDrained, Idle
    <3>4. FlushIsComplete'
      BY <2>1, <3>1, <1>b DEF StopOrder, FlushIsComplete
    <3> QED
      BY <2>2, <3>2, <3>3, <3>4 DEF FlushInv
  <2>6. CASE DrainReturns \/ DrainTimesOut
    <3>1. main = "drain" /\ main' = "exited" /\ UNCHANGED <<drained, stop>>
      BY <2>6 DEF DrainReturns, DrainTimesOut
    <3> QED
      BY <2>1, <2>2, <3>1, <1>b DEF FlushInv, StopOrder, QuietWhenDrained, FlushIsComplete, Idle
  <2> QED
    BY <1>3, <2>3, <2>4, <2>5, <2>6 DEF DrainStep
<1>4. CASE UNCHANGED vars
  BY <1>4, <1>b DEF vars, processVars, requestVars, workerVars, FlushInv, DropHasCarrier, StopOrder,
                    QuietWhenDrained, FlushIsComplete, Idle
<1> QED
  BY <1>1, <1>2, <1>3, <1>4 DEF Next

\* A shutdown that drained HTTP and let the worker finish leaves no event in the
\* channel and no drop unlogged.
THEOREM FlushIsCompleteHolds == Spec => []FlushIsComplete
<1>1. FlushInv => FlushIsComplete
  BY DEF FlushInv
<1> QED
  BY TypeInit, TypeStep, FlushInit, FlushStep, <1>1, PTL DEF Spec
====
