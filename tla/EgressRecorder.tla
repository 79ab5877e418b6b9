---- MODULE EgressRecorder ----
(***************************************************************************)
(* The execute-runner process (cmd/execute-runner/main.go) with its egress *)
(* recorder: /execute handlers bounded by a semaphore, a bounded channel   *)
(* of audit events that never blocks them, one worker that writes the      *)
(* events to the ledger, and the shutdown that drains HTTP first           *)
(* (internal/httpx/httpx.go) and the channel second.                       *)
(*                                                                         *)
(* Events are interchangeable here, so the channel, the ledger and the     *)
(* losses are counters.  An execution is seen from outside: it makes up to *)
(* MaxSteps outbound attempts, records each, and returns or panics.        *)
(***************************************************************************)
EXTENDS Naturals, FiniteSets

CONSTANTS
    Handlers,     \* connections that may carry a /execute request
    MaxConc,      \* slots of the semaphore
    Capacity,     \* buffer of the channel
    MaxSteps,     \* outbound attempts of one execution
    MaxRequests   \* bound: requests accepted

ASSUME EgressAssumption ==
    /\ IsFiniteSet(Handlers)
    /\ MaxConc \in Nat \ {0}
    /\ Capacity \in Nat \ {0}
    /\ MaxSteps \in Nat
    /\ MaxRequests \in Nat

VARIABLES
    sink,      \* an audit table is configured
    main,      \* where main() is
    drained,   \* Shutdown returned because no request was left
    pc,        \* where handler h is
    left,      \* outbound attempts handler h may still make
    sem,       \* slots taken
    ch,        \* events buffered in the channel
    worker,    \* where the worker is
    stop,      \* the stop channel is closed
    dropped,   \* the dropped counter
    recorded,  \* calls of RecordEgress
    appended,  \* events the ledger confirmed
    failed,    \* events whose append returned an error
    reported,  \* drops that were logged
    accepted   \* requests so far

processVars == <<sink, main, drained, stop>>
requestVars == <<pc, left, sem, accepted>>
workerVars  == <<worker, appended, failed, reported>>
vars == <<processVars, requestVars, workerVars, ch, dropped, recorded>>

Alive   == main # "exited"
Running == {h \in Handlers : pc[h] \in {"run", "record"}}
Idle(h) == pc[h] = "idle"

Init ==
    /\ sink \in BOOLEAN
    /\ main = "serving"
    /\ drained = FALSE
    /\ pc = [h \in Handlers |-> "idle"]
    /\ left = [h \in Handlers |-> 0]
    /\ sem = 0
    /\ ch = 0
    /\ worker = IF sink THEN "select" ELSE "exited"
    /\ stop = FALSE
    /\ dropped = 0
    /\ recorded = 0
    /\ appended = 0
    /\ failed = 0
    /\ reported = 0
    /\ accepted = 0

----------------------------------------------------------------------------
(* Handlers                                                                *)

\* The server hands a request to a handler, which reads and decodes the body.
Accept(h) ==
    /\ main = "serving"
    /\ Idle(h)
    /\ accepted < MaxRequests
    /\ accepted' = accepted + 1
    /\ pc' = [pc EXCEPT ![h] = "decode"]
    /\ UNCHANGED <<processVars, left, sem, workerVars, ch, dropped, recorded>>

\* 400 for a bad body (or 401 before it), 429 when no slot is free.
Reject(h) ==
    /\ Alive
    /\ pc[h] = "decode"
    /\ pc' = [pc EXCEPT ![h] = "idle"]
    /\ UNCHANGED <<processVars, left, sem, accepted, workerVars, ch, dropped, recorded>>

Execute(h) ==
    /\ Alive
    /\ pc[h] = "decode"
    /\ sem < MaxConc
    /\ sem' = sem + 1
    /\ \E n \in 0..MaxSteps : left' = [left EXCEPT ![h] = n]
    /\ pc' = [pc EXCEPT ![h] = "run"]
    /\ UNCHANGED <<processVars, accepted, workerVars, ch, dropped, recorded>>

\* An outbound attempt ended, with a response or an error.
Attempt(h) ==
    /\ Alive
    /\ pc[h] = "run"
    /\ left[h] > 0
    /\ left' = [left EXCEPT ![h] = @ - 1]
    /\ pc' = [pc EXCEPT ![h] = "record"]
    /\ UNCHANGED <<processVars, sem, accepted, workerVars, ch, dropped, recorded>>

\* Mutation: a send that waits for room.
OfferBlocking ==
    /\ ch < Capacity
    /\ ch' = ch + 1
    /\ UNCHANGED dropped

\* Mutation: an event that does not fit is not counted.
OfferUncounted ==
    /\ ch' = IF ch < Capacity THEN ch + 1 ELSE ch
    /\ UNCHANGED dropped

\* The non-blocking send of RecordEgress.
Offer ==
    IF ch < Capacity
      THEN ch' = ch + 1 /\ UNCHANGED dropped
      ELSE dropped' = dropped + 1 /\ UNCHANGED ch

RecordEgress(h) ==
    /\ Alive
    /\ pc[h] = "record"
    /\ recorded' = recorded + 1
    /\ IF sink THEN Offer ELSE UNCHANGED <<ch, dropped>>
    /\ pc' = [pc EXCEPT ![h] = "run"]
    /\ UNCHANGED <<processVars, left, sem, accepted, workerVars>>

\* Mutation: the slot is released by hand at the end, which a panic skips.
FinishUndeferred(h) ==
    /\ Alive
    /\ pc[h] = "run"
    /\ pc' = [pc EXCEPT ![h] = "idle"]
    /\ left' = [left EXCEPT ![h] = 0]
    /\ sem' \in {sem - 1, sem}
    /\ UNCHANGED <<processVars, accepted, workerVars, ch, dropped, recorded>>

\* Run returned, with a result or an error, or panicked: the deferred functions
\* recover and release the slot.
Finish(h) ==
    /\ Alive
    /\ pc[h] = "run"
    /\ pc' = [pc EXCEPT ![h] = "idle"]
    /\ left' = [left EXCEPT ![h] = 0]
    /\ sem' = sem - 1
    /\ UNCHANGED <<processVars, accepted, workerVars, ch, dropped, recorded>>

----------------------------------------------------------------------------
(* The worker                                                              *)

\* Either select of the worker receives an event.
Receive(from, to) ==
    /\ Alive
    /\ worker = from
    /\ ch > 0
    /\ ch' = ch - 1
    /\ worker' = to
    /\ UNCHANGED <<processVars, requestVars, appended, failed, reported, dropped, recorded>>

Take  == Receive("select", "append")
Flush == Receive("flush", "append flush")

\* Mutation: the worker exits on stop without flushing.
ObserveStopAndExit ==
    /\ Alive
    /\ worker = "select"
    /\ stop
    /\ worker' = "exited"
    /\ UNCHANGED <<processVars, requestVars, appended, failed, reported, ch, dropped, recorded>>

ObserveStop ==
    /\ Alive
    /\ worker = "select"
    /\ stop
    /\ worker' = "flush"
    /\ UNCHANGED <<processVars, requestVars, appended, failed, reported, ch, dropped, recorded>>

FlushDone ==
    /\ Alive
    /\ worker = "flush"
    /\ ch = 0
    /\ worker' = "exited"
    /\ UNCHANGED <<processVars, requestVars, appended, failed, reported, ch, dropped, recorded>>

\* Where the worker goes from the append, and from the counter.
Appending == {"append", "append flush"}
Swapping  == {"swap", "swap flush"}
AfterAppend(l) == IF l = "append" THEN "swap" ELSE "swap flush"
AfterSwap(l)   == IF l = "swap" THEN "select" ELSE "flush"

Appended ==
    /\ Alive
    /\ worker \in Appending
    /\ appended' = appended + 1
    /\ worker' = AfterAppend(worker)
    /\ UNCHANGED <<processVars, requestVars, failed, reported, ch, dropped, recorded>>

\* Mutation: an error returns from append before the dropped counter is read.
AppendFailsEarly ==
    /\ Alive
    /\ worker \in Appending
    /\ failed' = failed + 1
    /\ worker' = AfterSwap(AfterAppend(worker))
    /\ UNCHANGED <<processVars, requestVars, appended, reported, ch, dropped, recorded>>

\* The append failed or ran into its timeout: the event is only in stdout.
AppendFails ==
    /\ Alive
    /\ worker \in Appending
    /\ failed' = failed + 1
    /\ worker' = AfterAppend(worker)
    /\ UNCHANGED <<processVars, requestVars, appended, reported, ch, dropped, recorded>>

\* dropped.Swap(0), and the log of what it returned.
Swap ==
    /\ Alive
    /\ worker \in Swapping
    /\ dropped' = 0
    /\ reported' = reported + dropped
    /\ worker' = AfterSwap(worker)
    /\ UNCHANGED <<processVars, requestVars, appended, failed, ch, recorded>>

----------------------------------------------------------------------------
(* main                                                                    *)

\* SIGTERM: Shutdown stops accepting and waits for the requests.
Signal ==
    /\ main = "serving"
    /\ main' = "shutdown"
    /\ UNCHANGED <<sink, drained, stop, requestVars, workerVars, ch, dropped, recorded>>

\* Run returns and Drain closes stop; with no sink Drain returns at once.
EnterDrain ==
    /\ main' = IF sink THEN "drain" ELSE "exited"
    /\ stop' = sink

HttpDrained ==
    /\ main = "shutdown"
    /\ \A h \in Handlers : Idle(h)
    /\ drained' = TRUE
    /\ EnterDrain
    /\ UNCHANGED <<sink, requestVars, workerVars, ch, dropped, recorded>>

\* Shutdown's deadline passed with requests in flight; Run logs it and returns nil.
DrainDeadlineExceeded ==
    /\ main = "shutdown"
    /\ \E h \in Handlers : ~Idle(h)
    /\ EnterDrain
    /\ UNCHANGED <<sink, drained, requestVars, workerVars, ch, dropped, recorded>>

\* ListenAndServe failed: Run returns the error without a Shutdown.
ServeFails ==
    /\ main = "serving"
    /\ EnterDrain
    /\ UNCHANGED <<sink, drained, requestVars, workerVars, ch, dropped, recorded>>

DrainReturns ==
    /\ main = "drain"
    /\ worker = "exited"
    /\ main' = "exited"
    /\ UNCHANGED <<sink, drained, stop, requestVars, workerVars, ch, dropped, recorded>>

\* Mutation: Drain has no timeout.
DrainNeverTimesOut == FALSE /\ UNCHANGED vars

DrainTimesOut ==
    /\ main = "drain"
    /\ worker # "exited"
    /\ main' = "exited"
    /\ UNCHANGED <<sink, drained, stop, requestVars, workerVars, ch, dropped, recorded>>

HandlerStep(h) ==
    Reject(h) \/ Execute(h) \/ Attempt(h) \/ RecordEgress(h) \/ Finish(h)
WorkerStep == Take \/ Flush \/ ObserveStop \/ FlushDone \/ Appended \/ AppendFails \/ Swap
DrainStep  == HttpDrained \/ DrainDeadlineExceeded \/ DrainReturns \/ DrainTimesOut

Next ==
    \/ \E h \in Handlers : Accept(h) \/ HandlerStep(h)
    \/ WorkerStep
    \/ Signal \/ ServeFails
    \/ DrainStep

Spec == Init /\ [][Next]_vars

\* Reading a body, an execution and main's waits all end by a timeout.  Nothing
\* is assumed of the ledger: its worker may stand still.
FairSpec ==
    /\ Spec
    /\ \A h \in Handlers : WF_vars(HandlerStep(h))
    /\ WF_vars(DrainStep)

----------------------------------------------------------------------------
(* Properties                                                              *)

\* Every variable has its type.
ProcessType ==
    /\ sink \in BOOLEAN /\ drained \in BOOLEAN /\ stop \in BOOLEAN
    /\ main \in {"serving", "shutdown", "drain", "exited"}
RequestType ==
    /\ pc \in [Handlers -> {"idle", "decode", "run", "record"}]
    /\ left \in [Handlers -> 0..MaxSteps]
    /\ sem \in 0..MaxConc
    /\ accepted \in 0..MaxRequests
WorkerType ==
    /\ worker \in {"select", "flush", "exited"} \cup Appending \cup Swapping
    /\ appended \in Nat /\ failed \in Nat /\ reported \in Nat
ChannelType == ch \in 0..Capacity /\ dropped \in Nat /\ recorded \in Nat
TypeOK == ProcessType /\ RequestType /\ WorkerType /\ ChannelType

\* A slot is taken for each execution in progress and for nothing else: none is
\* leaked by an error, a timeout or a panic, and there are never more executions
\* than slots ("slot-release ... refactor-proof", main.go:111-126).
SlotsHeld == sem = Cardinality(Running) /\ sem <= MaxConc

\* No event is lost without a trace and none is counted twice, at any moment of
\* the race between the senders, the worker and the counter's Swap: each is in
\* the channel, in the worker's hands, in the ledger, reported as failed, or
\* counted as dropped (RecordEgress and append, main.go:167-198).
InHand == IF worker \in Appending THEN 1 ELSE 0
EventsAccounted ==
    sink => recorded = ch + InHand + appended + failed + dropped + reported

\* When HTTP was drained and the worker is done, nothing is left: no event is in
\* the channel and no drop has gone unlogged ("drops with a logged count",
\* main.go:147-148; the flush, main.go:206-214).
FlushIsComplete ==
    drained /\ sink /\ worker = "exited" => ch = 0 /\ dropped = 0

\* A request ends whatever the ledger does: a full channel or a ledger that hangs
\* never holds an execution (RecordEgress "never blocks", main.go:180).
RequestsEnd == \A h \in Handlers : ~Idle(h) ~> (Idle(h) \/ ~Alive)

\* Once a shutdown began the process exits, even if the ledger hangs (the
\* timeouts of Shutdown and Drain, main.go:222-232).
ShutdownEnds == main \in {"shutdown", "drain"} ~> ~Alive

\* A drop is logged sooner or later, also when every append fails, provided the
\* ledger answers: its client has a timeout of its own (append, main.go:189-198).
DropsGetReported ==
    WF_vars(WorkerStep) => (dropped > 0 ~> (dropped = 0 \/ ~Alive))
====
