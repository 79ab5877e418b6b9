---- MODULE ExecuteEngineProofs ----
(***************************************************************************)
(* Proofs of the safety properties of ExecuteEngine.  The invariant ties   *)
(* the position i of the execution to what was answered, recorded and sent *)
(* so far: before the end everything up to i - 1 succeeded, the m-th event *)
(* is that of the m-th request, and each finished fetch has made at most   *)
(* maxRedirects round trips.                                               *)
(***************************************************************************)
EXTENDS ExecuteEngine, TLAPS

Fetching == {"prepare", "dial", "wait", "body"}
Accepted == pc # "called" /\ answer # "invalid"

\* Where the execution stands, and which requests have a response.
Position ==
    /\ pc # "returned" => answer = "none"
    /\ pc = "called" => bound = {}
    /\ Accepted => Valid(fs)
    /\ i > 1 => i \in DOMAIN fs.requests
    /\ pc \in Fetching => i \in DOMAIN fs.requests /\ bound = 1..(i - 1)
    /\ pc = "map" \/ answer = "data" => bound = DOMAIN fs.requests
    /\ 1..(i - 1) \subseteq bound

\* The events are those of the requests 1, 2, ... in this order.
Ledger ==
    /\ ~Accepted => events = <<>>
    /\ \A m \in DOMAIN events : events[m].request = m
    /\ pc \in {"prepare", "dial", "wait"} => Len(events) = i - 1
    /\ pc = "body" => Len(events) = i
    /\ pc = "map" => Len(events) = Len(fs.requests)
    /\ Len(events) <= i
    /\ Len(events) <= Len(fs.requests)
    /\ \A m \in DOMAIN events : events[m].outcome = "error" =>
          pc = "returned" /\ m = i
    /\ \A m \in DOMAIN events : events[m].outcome = "allowed" =>
          \E n \in DOMAIN sent : sent[n].request = m

\* What was sent belongs to requests up to the current one.
Contacts ==
    /\ ~Accepted => sent = <<>>
    /\ pc \in {"dial", "wait"} => CheckURLHost(host, fs.domains)
    /\ \A n \in DOMAIN sent :
          /\ sent[n].request \in 1..i
          /\ CheckURLHost(sent[n].host, fs.domains)
          /\ \/ sent[n].request <= Len(events)
             \/ sent[n].request = i /\ pc \in {"dial", "wait"}
    /\ pc = "wait" => \E n \in DOMAIN sent : sent[n].request = i

\* How much was sent.
Volume ==
    /\ pc = "prepare" => Len(sent) <= (i - 1) * maxRedirects
    /\ pc \in {"dial", "wait", "body"} => Len(sent) <= (i - 1) * maxRedirects + hops
    /\ pc = "dial" => hops < maxRedirects
    /\ Len(sent) <= Len(fs.requests) * maxRedirects

IInv == TypeOK /\ Position /\ Ledger /\ Contacts /\ Volume /\ PipelineResolves

----------------------------------------------------------------------------
(* Facts about the data                                                    *)

\* A definition's requests form a sequence, of the length its mode asks for.
LEMMA DefinitionShape ==
    ASSUME TypeOK
    PROVE  /\ fs \in Definitions
           /\ fs.requests \in Seq(Requests)
           /\ Len(fs.requests) \in Nat
           /\ DOMAIN fs.requests = 1..Len(fs.requests)
           /\ fs.mode = "single" => Len(fs.requests) = 1
           /\ fs.mode = "compute" => Len(fs.requests) = 0
           /\ fs.mode \in {"steps", "single", "compute"}
<1>1. fs \in Definitions
  BY EngineAssumption DEF TypeOK
<1>2. fs.requests \in Seq(Requests) /\ fs.mode \in {"steps", "single", "compute"}
  BY <1>1 DEF Definitions
<1>3. QED
  BY <1>1, <1>2, EngineAssumption DEF TypeOK

\* Products of limits grow with either factor.
LEMMA ProductMonotone ==
    ASSUME NEW m \in Nat, NEW p \in Nat, NEW q \in Nat, p <= q
    PROVE  p * m <= q * m
OBVIOUS

\* The round trips of one more fetch.
LEMMA ProductStep ==
    ASSUME NEW m \in Nat, NEW p \in Nat \ {0}
    PROVE  (p - 1) * m + m = p * m /\ (p - 1) * m \in Nat /\ p * m \in Nat
OBVIOUS

\* Before Run there is nothing sent, recorded or bound.
LEMMA InitInvariant == Init => IInv
<1> SUFFICES ASSUME Init PROVE IInv
  OBVIOUS
<1>1. TypeOK
  BY EngineAssumption DEF Init, TypeOK, Failures
<1>2. Len(fs.requests) \in Nat
  BY <1>1, DefinitionShape
<1>3. Len(fs.requests) * maxRedirects \in Nat
  BY <1>2, EngineAssumption
<1>4. QED
  BY <1>1, <1>2, <1>3, EngineAssumption
     DEF Init, IInv, Position, Ledger, Contacts, Volume, PipelineResolves, Accepted, Fetching

----------------------------------------------------------------------------
(* Sequences that grow                                                     *)

\* What an event adds to the ledger.
LEMMA Recorded ==
    ASSUME TypeOK, i \in DOMAIN fs.requests, NEW outcome \in {"allowed", "error"}
    PROVE  LET new == Append(events, Event(outcome)) IN
           /\ new \in Seq([request : Nat, host : Hosts \cup {NoHost},
                          outcome : {"allowed", "error"}])
           /\ Len(new) = Len(events) + 1
           /\ DOMAIN new = 1..(Len(events) + 1)
           /\ \A m \in 1..Len(events) : new[m] = events[m]
           /\ new[Len(events) + 1].request = i
           /\ new[Len(events) + 1].outcome = outcome
           /\ Len(events) \in Nat
           /\ DOMAIN events = 1..Len(events)
<1>1. fs.requests[i] \in Requests
  BY DefinitionShape
<1>2. Event(outcome) \in [request : Nat, host : Hosts \cup {NoHost},
                          outcome : {"allowed", "error"}]
  BY <1>1 DEF TypeOK, Event, Request, Requests
<1>3. QED
  BY <1>2 DEF TypeOK, Event

\* What a round trip adds to the requests sent.
LEMMA Sent ==
    ASSUME TypeOK
    PROVE  LET new == Append(sent, [request |-> i, host |-> host]) IN
           /\ new \in Seq([request : Nat, host : Hosts \cup {NoHost}])
           /\ Len(new) = Len(sent) + 1
           /\ DOMAIN new = 1..(Len(sent) + 1)
           /\ \A n \in 1..Len(sent) : new[n] = sent[n]
           /\ new[Len(sent) + 1] = [request |-> i, host |-> host]
           /\ Len(sent) \in Nat
           /\ DOMAIN sent = 1..Len(sent)
BY DEF TypeOK

\* Before the answer arrived, an error may be recorded and end the execution.
LEMMA DoFailsLedger ==
    ASSUME IInv, pc \in {"dial", "wait"}, DoFails, UNCHANGED <<fs, i, sent, bound, inputs>>
    PROVE  Ledger' /\ events' \in Seq([request : Nat, host : Hosts \cup {NoHost},
                                        outcome : {"allowed", "error"}])
<1>1. i \in DOMAIN fs.requests /\ Len(events) = i - 1 /\ Accepted /\ i \in Nat
  BY DEF IInv, TypeOK, Position, Ledger, Accepted, Fetching
<1>2. i <= Len(fs.requests)
  BY <1>1, DefinitionShape DEF IInv
<1>3. events' = Append(events, Event("error")) /\ pc' = "returned" /\ answer' = "transport"
  BY DEF DoFails, Return
<1>4. QED
  BY <1>1, <1>2, <1>3, Recorded DEF IInv, Ledger, Accepted

----------------------------------------------------------------------------
(* Steps                                                                   *)

\* Validation: an accepted definition starts with its first request, or with its result.
LEMMA RunStep == IInv /\ Run => IInv'
<1> SUFFICES ASSUME IInv, Run PROVE IInv'
  OBVIOUS
<1> USE DEF IInv, network, Request
<1>0. /\ fs.requests \in Seq(Requests) /\ Len(fs.requests) \in Nat
      /\ DOMAIN fs.requests = 1..Len(fs.requests)
      /\ maxRedirects \in Nat \ {0}
  BY DefinitionShape, EngineAssumption
<1>1. TypeOK'
  BY DEF TypeOK, Failures, Run, Return
<1>2. Position'
  <2>1. CASE Valid(fs) /\ fs.requests = <<>>
    BY <2>1 DEF Position, Fetching, Run
  <2>2. CASE Valid(fs) /\ fs.requests # <<>>
    <3>1. i = 1 /\ bound = {} /\ Len(fs.requests) > 0
      BY <1>0, <2>2 DEF TypeOK, Position, Run
    <3>2. QED
      BY <2>2, <3>1 DEF Position, Run
  <2>3. CASE ~Valid(fs)
    BY <2>3 DEF Position, Accepted, Fetching, Run, Return
  <2>4. QED
    BY <2>1, <2>2, <2>3
<1>3. Ledger'
  BY DEF TypeOK, Ledger, Position, Accepted, Run, Return
<1>4. Contacts'
  BY DEF Contacts, Accepted, Run, Return
<1>5. Volume'
  <2>1. sent = <<>> /\ i = 1
    BY DEF TypeOK, Position, Contacts, Accepted, Run
  <2>2. Len(sent) = 0 /\ (i - 1) * maxRedirects = 0
    BY <1>0, <2>1
  <2>3. QED
    BY <2>2 DEF Volume, Run, Return
<1>6. PipelineResolves'
  BY DEF PipelineResolves, Run, Return
<1>7. QED
  BY <1>1, <1>2, <1>3, <1>4, <1>5, <1>6

\* A request that cannot be rendered. In an accepted pipeline it is no missing step.
LEMMA PrepareFailsStep == IInv /\ PrepareFails => IInv'
<1> SUFFICES ASSUME IInv, PrepareFails PROVE IInv'
  OBVIOUS
<1> USE DEF IInv, network, Request
<1>1. TypeOK'
  BY DEF TypeOK, Failures, PrepareFails, Return
<1>2. Position'
  BY DEF Position, Accepted, Fetching, PrepareFails, Return
<1>3. Ledger'
  BY DEF Ledger, Accepted, PrepareFails, Return
<1>4. Contacts'
  BY DEF Contacts, Accepted, PrepareFails, Return
<1>5. Volume'
  BY DEF Volume, PrepareFails, Return
<1>6. PipelineResolves'
  <2>1. SUFFICES ASSUME fs.mode = "steps", answer' = "unknown step" PROVE FALSE
    BY DEF PipelineResolves, PrepareFails
  <2>2. PICK ref \in PlaceholdersOf(Request) : ref[1] = "step" /\ ~Rendered(ref)
    BY <2>1 DEF PrepareFails, Return, Unrendered
  <2>3. i \in DOMAIN fs.requests /\ bound = 1..(i - 1) /\ ValidateSteps(fs)
    BY <2>1 DEF PrepareFails, Position, Accepted, Fetching, Valid
  <2>4. ref[2] \in PriorIds(fs, i)
    BY <2>2, <2>3 DEF ValidateSteps, StepValid, Resolves, PlaceholdersOf
  <2>5. Rendered(ref)
    BY <2>1, <2>2, <2>3, <2>4 DEF Rendered, BoundIds, PriorIds
  <2>6. QED
    BY <2>2, <2>5
<1>7. QED
  BY <1>1, <1>2, <1>3, <1>4, <1>5, <1>6

\* The first host of a fetch has just been checked.
LEMMA PrepareStep == IInv /\ Prepare => IInv'
<1> SUFFICES ASSUME IInv, Prepare PROVE IInv'
  OBVIOUS
<1> USE DEF IInv, network, Request
<1>0. /\ fs.requests \in Seq(Requests) /\ Len(fs.requests) \in Nat
      /\ DOMAIN fs.requests = 1..Len(fs.requests)
      /\ maxRedirects \in Nat \ {0}
  BY DefinitionShape, EngineAssumption
<1>1. TypeOK'
  <2>1. Request \in Requests
    BY <1>0 DEF Prepare, Position, Fetching
  <2>2. QED
    BY <1>0, <2>1 DEF TypeOK, Prepare, Requests
<1>2. Position'
  BY DEF Position, Accepted, Fetching, Prepare
<1>3. Ledger'
  BY DEF Ledger, Accepted, Prepare
<1>4. Contacts'
  BY DEF Contacts, Accepted, Prepare
<1>5. Volume'
  BY <1>0 DEF Volume, Position, Fetching, Prepare
<1>6. PipelineResolves'
  BY DEF PipelineResolves, Prepare
<1>7. QED
  BY <1>1, <1>2, <1>3, <1>4, <1>5, <1>6

\* No connection: an event of outcome "error" ends the execution.
LEMMA DialFailsStep == IInv /\ DialFails => IInv'
<1> SUFFICES ASSUME IInv, DialFails PROVE IInv'
  OBVIOUS
<1> USE DEF IInv, network, Request
<1>1. TypeOK'
  <2>1. events' \in Seq([request : Nat, host : Hosts \cup {NoHost},
                          outcome : {"allowed", "error"}])
    BY DoFailsLedger DEF DialFails
  <2>2. QED
    BY <2>1 DEF TypeOK, Failures, DialFails, DoFails, Return
<1>2. Position'
  BY DEF Position, Accepted, Fetching, DialFails, DoFails, Return
<1>3. Ledger'
  BY DoFailsLedger DEF DialFails
<1>4. Contacts'
  BY DEF Contacts, Ledger, Accepted, DialFails, DoFails, Return
<1>5. Volume'
  BY DEF Volume, DialFails, DoFails, Return
<1>6. PipelineResolves'
  BY DEF PipelineResolves, DialFails, DoFails, Return
<1>7. QED
  BY <1>1, <1>2, <1>3, <1>4, <1>5, <1>6

\* One more request of the current fetch, to a host that was checked.
LEMMA RoundTripStep == IInv /\ RoundTrip => IInv'
<1> SUFFICES ASSUME IInv, RoundTrip PROVE IInv'
  OBVIOUS
<1> USE DEF IInv, network, Request
<1>0. /\ fs.requests \in Seq(Requests) /\ Len(fs.requests) \in Nat
      /\ DOMAIN fs.requests = 1..Len(fs.requests)
      /\ maxRedirects \in Nat \ {0}
  BY DefinitionShape, EngineAssumption
<1>1. TypeOK'
  BY <1>0 DEF TypeOK, Volume, RoundTrip
<1>2. Position'
  BY DEF Position, Accepted, Fetching, RoundTrip
<1>3. Ledger'
  <2>1. UNCHANGED <<fs, i, events, answer>> /\ pc = "dial" /\ pc' = "wait"
    BY DEF RoundTrip
  <2>2. ASSUME NEW m \in DOMAIN events, events[m].outcome = "allowed"
        PROVE  \E n \in DOMAIN sent' : sent'[n].request = m
    <3>1. PICK n \in DOMAIN sent : sent[n].request = m
      BY <2>2 DEF Ledger
    <3>2. n \in DOMAIN sent' /\ sent'[n] = sent[n]
      BY DEF RoundTrip
    <3>3. QED
      BY <3>1, <3>2
  <2>3. QED
    BY <2>1, <2>2 DEF Ledger, Accepted
<1>4. Contacts'
  BY <1>0 DEF TypeOK, Contacts, Position, Ledger, Accepted, Fetching, RoundTrip
<1>5. Volume'
  <2>1. i \in 1..Len(fs.requests)
    BY <1>0 DEF Position, Fetching, RoundTrip
  <2>2. (i - 1) * maxRedirects + maxRedirects = i * maxRedirects
    BY <1>0, <2>1, ProductStep
  <2>3. i * maxRedirects <= Len(fs.requests) * maxRedirects
    <3>1. i \in Nat /\ i <= Len(fs.requests) /\ maxRedirects \in Nat
      BY <1>0, <2>1
    <3>2. QED
      BY <1>0, <3>1, ProductMonotone, Zenon
  <2>4. Len(sent') = Len(sent) + 1 /\ Len(sent) \in Nat
    BY DEF RoundTrip
  <2>5. (i - 1) * maxRedirects \in Nat /\ Len(fs.requests) * maxRedirects \in Nat
    BY <1>0, <2>1, ProductStep
  <2>6. Len(sent) <= (i - 1) * maxRedirects + hops /\ hops < maxRedirects /\ hops \in Nat
    BY DEF TypeOK, Volume, RoundTrip
  <2>7. hops' = hops + 1 /\ pc' = "wait" /\ UNCHANGED <<fs, i>>
    BY DEF RoundTrip
  <2>8. Len(sent') <= (i - 1) * maxRedirects + hops'
    BY <2>4, <2>5, <2>6, <2>7
  <2>9. Len(sent') <= Len(fs.requests) * maxRedirects
    BY <1>0, <2>2, <2>3, <2>4, <2>5, <2>6
  <2>10. QED
    BY <2>7, <2>8, <2>9 DEF Volume
<1>6. PipelineResolves'
  BY DEF PipelineResolves, RoundTrip
<1>7. QED
  BY <1>1, <1>2, <1>3, <1>4, <1>5, <1>6

\* The timeout, before the answer and inside the body.
LEMMA TimesOutStep == IInv /\ TimesOut => IInv'
<1> SUFFICES ASSUME IInv, TimesOut PROVE IInv'
  OBVIOUS
<1> USE DEF IInv, network, Request
<1>1. TypeOK'
  <2>1. CASE pc \in {"dial", "wait"} /\ DoFails
    <3>1. events' \in Seq([request : Nat, host : Hosts \cup {NoHost},
                            outcome : {"allowed", "error"}])
      BY <2>1, DoFailsLedger DEF TimesOut
    <3>2. QED
      BY <3>1 DEF TypeOK, Failures, TimesOut, DoFails, Return
  <2>2. CASE pc = "body" /\ Return("response") /\ UNCHANGED events
    BY <2>2 DEF TypeOK, Failures, TimesOut, Return
  <2>3. QED
    BY <2>1, <2>2 DEF TimesOut
<1>2. Position'
  BY DEF Position, Accepted, Fetching, TimesOut, DoFails, Return
<1>3. Ledger'
  <2>1. CASE pc \in {"dial", "wait"} /\ DoFails
    BY <2>1, DoFailsLedger DEF TimesOut
  <2>2. CASE pc = "body" /\ Return("response") /\ UNCHANGED events
    BY <2>2 DEF Ledger, Accepted, TimesOut, Return
  <2>3. QED
    BY <2>1, <2>2 DEF TimesOut
<1>4. Contacts'
  BY DEF Contacts, Ledger, Accepted, TimesOut, DoFails, Return
<1>5. Volume'
  BY DEF Volume, TimesOut, DoFails, Return
<1>6. PipelineResolves'
  BY DEF PipelineResolves, TimesOut, DoFails, Return
<1>7. QED
  BY <1>1, <1>2, <1>3, <1>4, <1>5, <1>6

\* The result, once each request was answered.
LEMMA MapResultStep == IInv /\ MapResult => IInv'
<1> SUFFICES ASSUME IInv, MapResult PROVE IInv'
  OBVIOUS
<1> USE DEF IInv, network, Request
<1>1. TypeOK'
  BY DEF TypeOK, Failures, MapResult, Return
<1>2. Position'
  BY DEF Position, Accepted, Fetching, MapResult, Return
<1>3. Ledger'
  BY DEF Ledger, Accepted, MapResult, Return
<1>4. Contacts'
  BY DEF Contacts, Accepted, MapResult, Return
<1>5. Volume'
  BY DEF Volume, MapResult, Return
<1>6. PipelineResolves'
  BY DEF PipelineResolves, Position, MapResult
<1>7. QED
  BY <1>1, <1>2, <1>3, <1>4, <1>5, <1>6

\* A connection that broke: as DialFails, with a request sent.
LEMMA LostStep == IInv /\ Lost => IInv'
<1> SUFFICES ASSUME IInv, Lost PROVE IInv'
  OBVIOUS
<1> USE DEF IInv, network, Request
<1>1. TypeOK'
  <2>1. events' \in Seq([request : Nat, host : Hosts \cup {NoHost},
                          outcome : {"allowed", "error"}])
    BY DoFailsLedger DEF Lost
  <2>2. QED
    BY <2>1 DEF TypeOK, Failures, Lost, DoFails, Return
<1>2. Position'
  BY DEF Position, Accepted, Fetching, Lost, DoFails, Return
<1>3. Ledger'
  BY DoFailsLedger DEF Lost
<1>4. Contacts'
  BY DEF Contacts, Ledger, Accepted, Lost, DoFails, Return
<1>5. Volume'
  BY DEF Volume, Lost, DoFails, Return
<1>6. PipelineResolves'
  BY DEF PipelineResolves, Lost, DoFails, Return
<1>7. QED
  BY <1>1, <1>2, <1>3, <1>4, <1>5, <1>6

\* A redirect is followed to a listed host, within the limit, or ends the fetch.
LEMMA RedirectedStep == IInv /\ Redirected => IInv'
<1> SUFFICES ASSUME IInv, Redirected PROVE IInv'
  OBVIOUS
<1> USE DEF IInv, network, Request
<1>1. TypeOK'
  <2>1. CASE DoFails /\ UNCHANGED host
    <3>1. events' \in Seq([request : Nat, host : Hosts \cup {NoHost},
                            outcome : {"allowed", "error"}])
      BY <2>1, DoFailsLedger DEF Redirected
    <3>2. QED
      BY <3>1 DEF TypeOK, Failures, Redirected, DoFails, Return
  <2>2. CASE pc' = "dial" /\ UNCHANGED <<events, answer>> /\ host' \in Hosts \cup {NoHost}
    BY <2>2 DEF TypeOK, Redirected
  <2>3. QED
    BY <2>1, <2>2 DEF Redirected
<1>2. Position'
  BY DEF Position, Accepted, Fetching, Redirected, DoFails, Return
<1>3. Ledger'
  <2>1. CASE DoFails
    BY <2>1, DoFailsLedger DEF Redirected
  <2>2. CASE pc' = "dial" /\ UNCHANGED <<events, answer>>
    BY <2>2 DEF Ledger, Accepted, Redirected
  <2>3. QED
    BY <2>1, <2>2 DEF Redirected
<1>4. Contacts'
  BY DEF Contacts, Ledger, Accepted, Redirected, CheckRedirect, DoFails, Return
<1>5. Volume'
  BY DEF Volume, Redirected, CheckRedirect, DoFails, Return
<1>6. PipelineResolves'
  BY DEF PipelineResolves, Redirected, DoFails, Return
<1>7. QED
  BY <1>1, <1>2, <1>3, <1>4, <1>5, <1>6

\* The answer is recorded before the body is read.
LEMMA RespondsStep == IInv /\ Responds => IInv'
<1> SUFFICES ASSUME IInv, Responds PROVE IInv'
  OBVIOUS
<1> USE DEF IInv, network, Request
<1>0. /\ fs.requests \in Seq(Requests) /\ Len(fs.requests) \in Nat
      /\ DOMAIN fs.requests = 1..Len(fs.requests)
      /\ maxRedirects \in Nat \ {0}
  BY DefinitionShape, EngineAssumption
<1>1. TypeOK'
  <2>1. i \in DOMAIN fs.requests
    BY DEF Responds, Position, Fetching
  <2>2. QED
    BY <2>1, Recorded DEF TypeOK, Responds
<1>2. Position'
  BY DEF Position, Accepted, Fetching, Responds
<1>3. Ledger'
  <2>1. i \in DOMAIN fs.requests /\ Len(events) = i - 1 /\ Accepted /\ i \in Nat
    BY DEF Responds, Position, Ledger, Accepted, Fetching
  <2>2. i <= Len(fs.requests)
    BY <1>0, <2>1
  <2>3. \E n \in DOMAIN sent : sent[n].request = i
    BY DEF Responds, Contacts
  <2>4. events' = Append(events, Event("allowed")) /\ UNCHANGED <<fs, i, sent, answer>>
    BY DEF Responds
  <2>5. QED
    BY <2>1, <2>3, Recorded DEF Ledger, Accepted, Responds
<1>4. Contacts'
  BY DEF Contacts, Ledger, Accepted, Responds
<1>5. Volume'
  BY DEF Volume, Responds
<1>6. PipelineResolves'
  BY DEF PipelineResolves, Responds
<1>7. QED
  BY <1>1, <1>2, <1>3, <1>4, <1>5, <1>6

\* A body that is refused ends the execution.
LEMMA BodyFailsStep == IInv /\ BodyFails => IInv'
<1> SUFFICES ASSUME IInv, BodyFails PROVE IInv'
  OBVIOUS
<1> USE DEF IInv, network, Request
<1>1. TypeOK'
  BY DEF TypeOK, Failures, BodyFails, Return
<1>2. Position'
  BY DEF Position, Accepted, Fetching, BodyFails, Return
<1>3. Ledger'
  BY DEF Ledger, Accepted, BodyFails, Return
<1>4. Contacts'
  BY DEF Contacts, Accepted, BodyFails, Return
<1>5. Volume'
  BY DEF Volume, BodyFails, Return
<1>6. PipelineResolves'
  BY DEF PipelineResolves, BodyFails, Return
<1>7. QED
  BY <1>1, <1>2, <1>3, <1>4, <1>5, <1>6

\* The response is bound, and the next request follows.
LEMMA ParsedStep == IInv /\ Parsed => IInv'
<1> SUFFICES ASSUME IInv, Parsed PROVE IInv'
  OBVIOUS
<1> USE DEF IInv, network, Request
<1>0. /\ fs.requests \in Seq(Requests) /\ Len(fs.requests) \in Nat
      /\ DOMAIN fs.requests = 1..Len(fs.requests)
      /\ maxRedirects \in Nat \ {0}
  BY DefinitionShape, EngineAssumption
<1>1. TypeOK'
  BY DEF TypeOK, Parsed
<1>2. Position'
  BY DEF Position, Accepted, Fetching, Parsed
<1>3. Ledger'
  BY DEF Ledger, Accepted, Parsed
<1>4. Contacts'
  BY DEF Contacts, Ledger, Accepted, Parsed
<1>5. Volume'
  BY <1>0 DEF TypeOK, Volume, Position, Fetching, Parsed
<1>6. PipelineResolves'
  BY DEF PipelineResolves, Position, Parsed
<1>7. QED
  BY <1>1, <1>2, <1>3, <1>4, <1>5, <1>6

\* A step that changes nothing.
LEMMA StutterStep == IInv /\ UNCHANGED vars => IInv'
<1> SUFFICES ASSUME IInv, UNCHANGED vars PROVE IInv'
  OBVIOUS
<1>1. UNCHANGED <<fs, inputs, pc, i, host, hops, bound, sent, events, answer>>
  BY DEF vars
<1>2. TypeOK' /\ Position' /\ PipelineResolves'
  BY <1>1 DEF IInv, TypeOK, Position, PipelineResolves, Accepted
<1>3. Ledger' /\ Contacts' /\ Volume'
  BY <1>1 DEF IInv, Ledger, Contacts, Volume, Accepted
<1>4. QED
  BY <1>2, <1>3 DEF IInv

\* The invariant of every execution.
LEMMA Inductive == Spec => []IInv
<1>1. IInv /\ [Next]_vars => IInv'
  BY RunStep, PrepareFailsStep, PrepareStep, RoundTripStep, TimesOutStep,
     MapResultStep, DialFailsStep, LostStep, RedirectedStep, RespondsStep,
     BodyFailsStep, ParsedStep, StutterStep
     DEF Next, EngineStep, ServerStep
<1>2. QED
  BY InitInvariant, <1>1, PTL DEF Spec

----------------------------------------------------------------------------
(* Theorems                                                                *)

\* Every variable keeps its type, for any definitions and allowlists.
THEOREM EngineTypeCorrect == Spec => []TypeOK
<1>1. IInv => TypeOK
  BY DEF IInv
<1>2. QED
  BY Inductive, <1>1, PTL

\* Whatever definitions are submitted and wherever servers redirect, no host
\* outside of the definition's allowlist gets a request.
THEOREM ContactsAllowlistedHolds == Spec => []ContactsAllowlisted
<1>1. IInv => ContactsAllowlisted
  BY DEF IInv, Contacts, ContactsAllowlisted
<1>2. QED
  BY Inductive, <1>1, PTL

\* The ledger has one event for each request that reached a server, in order,
\* as soon as client.Do has returned.
THEOREM LedgerCompleteHolds == Spec => []LedgerComplete
<1>1. ASSUME IInv PROVE LedgerComplete
  <2>1. ASSUME NEW n \in DOMAIN sent, ~(sent[n].request = i /\ pc \in {"dial", "wait"})
        PROVE  \E m \in DOMAIN events : events[m].request = sent[n].request
    <3>1. sent[n].request \in 1..i /\ sent[n].request <= Len(events)
      BY <1>1, <2>1 DEF IInv, Contacts
    <3>2. sent[n].request \in DOMAIN events
      BY <1>1, <3>1 DEF IInv, TypeOK
    <3>3. QED
      BY <1>1, <3>2 DEF IInv, Ledger
  <2>2. ASSUME NEW m \in DOMAIN events
        PROVE  /\ \A k \in 1..(m - 1) : events[k].request < events[m].request
               /\ events[m].outcome = "allowed" =>
                     \E n \in DOMAIN sent : sent[n].request = events[m].request
    <3>1. DOMAIN events = 1..Len(events) /\ Len(events) \in Nat
      BY <1>1 DEF IInv, TypeOK
    <3>2. QED
      BY <1>1, <2>2, <3>1 DEF IInv, Ledger
  <2>3. QED
    BY <2>1, <2>2 DEF LedgerComplete
<1>2. QED
  BY Inductive, <1>1, PTL

\* Nothing is sent or recorded after a failure, and data is returned only when
\* each request of the definition was answered.
THEOREM StopsAtFailureHolds == Spec => []StopsAtFailure
<1>1. ASSUME IInv PROVE StopsAtFailure
  <2>1. i \in Nat /\ Len(events) \in Nat /\ DOMAIN events = 1..Len(events)
    BY <1>1 DEF IInv, TypeOK
  <2>2. ASSUME NEW m \in DOMAIN events, events[m].outcome = "error"
        PROVE  /\ m = Len(events)
               /\ \A n \in DOMAIN sent : sent[n].request <= events[m].request
    <3>1. m = i /\ events[m].request = m /\ Len(events) <= i
      BY <1>1, <2>2 DEF IInv, Ledger
    <3>2. \A n \in DOMAIN sent : sent[n].request \in 1..i
      BY <1>1 DEF IInv, Contacts
    <3>3. m = Len(events)
      BY <2>1, <2>2, <3>1
    <3>4. QED
      BY <2>1, <3>1, <3>2, <3>3
  <2>3. ASSUME NEW n \in DOMAIN sent PROVE 1..(sent[n].request - 1) \subseteq bound
    BY <1>1, <2>1, <2>3 DEF IInv, Contacts, Position
  <2>4. QED
    BY <1>1, <2>2, <2>3 DEF IInv, Position, StopsAtFailure
<1>2. QED
  BY Inductive, <1>1, PTL

\* In an accepted pipeline of any length and any placeholders, the response a
\* step refers to has arrived when the step is rendered.
THEOREM PipelineResolvesHolds == Spec => []PipelineResolves
<1>1. IInv => PipelineResolves
  BY DEF IInv
<1>2. QED
  BY Inductive, <1>1, PTL

\* One execution makes at most MaxSteps * maxRedirects requests and records at
\* most MaxSteps events: the bound that EgressRecorder assumes of a handler.
THEOREM EgressBoundedHolds == Spec => []EgressBounded
<1>1. ASSUME IInv PROVE EgressBounded
  <2> DEFINE fetches == IF fs.mode = "steps" THEN MaxSteps ELSE 1
  <2>0. /\ fetches \in Nat /\ maxRedirects \in Nat /\ Len(fs.requests) \in Nat
        /\ Len(sent) \in Nat /\ Len(events) \in Nat
    BY <1>1, EngineAssumption, DefinitionShape DEF IInv, TypeOK
  <2>1. CASE ~Accepted
    <3>1. Len(sent) = 0 /\ Len(events) = 0
      BY <1>1, <2>1 DEF IInv, Ledger, Contacts
    <3>2. fetches * maxRedirects \in Nat
      BY <2>0
    <3>3. QED
      BY <2>0, <3>1, <3>2 DEF EgressBounded
  <2>2. CASE Accepted
    <3>1. Len(fs.requests) <= fetches
      <4>1. fs.mode = "steps" => Len(fs.requests) <= MaxSteps
        BY <1>1, <2>2 DEF IInv, Position, Valid, ValidateSteps
      <4>2. TypeOK
        BY <1>1 DEF IInv
      <4>3. fs.mode # "steps" => Len(fs.requests) \in {0, 1}
        BY <4>2, DefinitionShape, Zenon
      <4>4. CASE fs.mode = "steps"
        BY <4>1, <4>4
      <4>5. CASE fs.mode # "steps"
        <5>1. fetches = 1
          BY <4>5
        <5>2. QED
          BY <4>3, <4>5, <5>1
      <4>6. QED
        BY <4>4, <4>5
    <3>2. Len(fs.requests) * maxRedirects <= fetches * maxRedirects
      BY <2>0, <3>1, ProductMonotone, Zenon
    <3>3. Len(fs.requests) * maxRedirects \in Nat /\ fetches * maxRedirects \in Nat
      BY <2>0
    <3>4. Len(sent) <= Len(fs.requests) * maxRedirects /\ Len(events) <= Len(fs.requests)
      BY <1>1 DEF IInv, Ledger, Volume
    <3>5. QED
      BY <2>0, <3>1, <3>2, <3>3, <3>4 DEF EgressBounded
  <2>3. QED
    BY <2>1, <2>2
<1>2. QED
  BY Inductive, <1>1, PTL
====
