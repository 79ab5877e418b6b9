---- MODULE ExecuteEngine ----
(***************************************************************************)
(* One execution of a field shortcut by the interpreter                    *)
(* (internal/execrt/engine.go), preceded by the validation it starts with  *)
(* (internal/shortcut/dsl.go, steps.go, expr.go).  The engine checks the   *)
(* definition, performs its requests in order, binds each response to the  *)
(* id of its step, and maps the last one to result columns.  The servers,  *)
(* the network and the client's timeout answer each request.               *)
(*                                                                         *)
(* A definition is its mode, the declared inputs, the allowlist and, per   *)
(* request, the host and the placeholders: a pair <<"in", key>> for {key}, *)
(* <<"step", id>> for {id.path}.  In a single request "refs" are those in  *)
(* the URL, in bodyJson and in values that are exactly one placeholder,    *)
(* "loose" those inside longer header and body values.                     *)
(***************************************************************************)
EXTENDS Naturals, Sequences

CONSTANTS
    Shortcuts,     \* definitions a caller may submit
    Hosts,         \* host names, of requests and of the allowlist
    NoHost,        \* the host of a URL that has none, or does not parse
    UnderDomain,   \* pairs <<h, d>>: h is d, or ends in "." followed by d
    Keys,          \* input names
    Ids,           \* step ids
    MaxSteps,      \* steps of a pipeline (3 in the code)
    maxRedirects   \* see CheckRedirect (3 in the code)

Refs     == ({"in"} \X Keys) \cup ({"step"} \X Ids)
Requests == [id : Ids, host : Hosts \cup {NoHost}, web : BOOLEAN,
             refs : SUBSET Refs, loose : SUBSET Refs]
Definitions ==
    [mode : {"steps", "single", "compute"}, form : SUBSET Keys,
     domains : SUBSET Hosts, requests : Seq(Requests),
     template : SUBSET Refs, exprs : BOOLEAN]

\* Requests are those of the mode: Steps is not empty, Execute is one request.
ASSUME EngineAssumption ==
    /\ UnderDomain \subseteq Hosts \X Hosts
    /\ MaxSteps \in Nat
    /\ maxRedirects \in Nat \ {0}
    /\ Shortcuts \subseteq Definitions
    /\ \A s \in Shortcuts :
          /\ s.mode = "steps"   => Len(s.requests) > 0
          /\ s.mode = "single"  => Len(s.requests) = 1
          /\ s.mode = "compute" => Len(s.requests) = 0

VARIABLES
    fs,       \* the definition
    inputs,   \* the inputs the caller supplied
    pc,       \* where the execution is
    i,        \* the current request, from 1
    host,     \* the host of the next round trip of the current fetch
    hops,     \* round trips of the current fetch so far
    bound,    \* requests with a parsed response
    sent,     \* round trips that reached a server: request and host
    events,   \* the events handed to the egress recorder
    answer    \* what Run returned

network == <<host, hops, sent>>
vars == <<fs, inputs, pc, i, host, hops, bound, sent, events, answer>>

Failures == {"invalid", "unknown step", "unknown input", "bad url",
             "transport", "response", "result"}

Request == fs.requests[i]

----------------------------------------------------------------------------
(* Validation                                                              *)

CheckURLHost(h, domains) == \E d \in domains : <<h, d>> \in UnderDomain

PriorIds(s, n) == {s.requests[m].id : m \in 1..(n - 1)}

\* Mutation: a step is added to "prior" before its own placeholders are checked.
ResolvesSelf(s, ref, n) ==
    \/ ref[1] = "in" /\ ref[2] \in s.form
    \/ ref[1] = "step" /\ ref[2] \in PriorIds(s, n + 1)

\* An input, or a step before the n-th.
Resolves(s, ref, n) ==
    \/ ref[1] = "in" /\ ref[2] \in s.form
    \/ ref[1] = "step" /\ ref[2] \in PriorIds(s, n)

\* A bare {key} must be declared; {id.path} does not match the pattern.
BareRefsDeclared(s, refs) ==
    \A ref \in refs : ref[1] = "in" => ref[2] \in s.form

StepValid(s, n) ==
    /\ s.requests[n].id \notin PriorIds(s, n)
    /\ CheckURLHost(s.requests[n].host, s.domains)
    /\ \A ref \in s.requests[n].refs \cup s.requests[n].loose : Resolves(s, ref, n)

\* Mutation: the length of the pipeline is not checked.
ValidateStepsUncapped(s) == \A n \in DOMAIN s.requests : StepValid(s, n)

ValidateSteps(s) ==
    /\ Len(s.requests) <= MaxSteps
    /\ \A n \in DOMAIN s.requests : StepValid(s, n)

ValidateSingle(s) ==
    /\ CheckURLHost(s.requests[1].host, s.domains)
    /\ BareRefsDeclared(s, s.requests[1].refs)

Valid(s) ==
    /\ BareRefsDeclared(s, s.template)
    /\ s.mode = "steps"  => ValidateSteps(s)
    /\ s.mode = "single" => ValidateSingle(s)

----------------------------------------------------------------------------
(* The execution                                                           *)

\* Run is called with any definition and any inputs: what a caller sends need
\* not match the form.
Init ==
    /\ fs \in Shortcuts
    /\ inputs \in SUBSET Keys
    /\ pc = "called"
    /\ i = 1
    /\ host = NoHost
    /\ hops = 0
    /\ bound = {}
    /\ sent = <<>>
    /\ events = <<>>
    /\ answer = "none"

Return(result) == pc' = "returned" /\ answer' = result

Run ==
    /\ pc = "called"
    /\ IF Valid(fs)
          THEN /\ pc' = IF fs.requests = <<>> THEN "map" ELSE "prepare"
               /\ UNCHANGED answer
          ELSE Return("invalid")
    /\ UNCHANGED <<fs, inputs, i, network, bound, events>>

\* render: an input must be supplied, a step must have answered.
BoundIds == {fs.requests[n].id : n \in bound}
Rendered(ref) ==
    IF ref[1] = "in" THEN ref[2] \in inputs
                     ELSE fs.mode = "steps" /\ ref[2] \in BoundIds

PlaceholdersOf(request) == request.refs \cup request.loose
Unrendered(kind) == \E ref \in PlaceholdersOf(Request) : ref[1] = kind /\ ~Rendered(ref)

\* URL, headers and body are rendered, the URL is checked again and its scheme
\* for the first time: an early return leaves no event.
PrepareFails ==
    /\ pc = "prepare"
    /\ \/ Unrendered("step") /\ Return("unknown step")
       \/ Unrendered("in") /\ Return("unknown input")
       \* the values made the URL unparsable, the host is not listed, or the
       \* scheme is not http(s)
       \/ /\ \/ Request.refs # {}
             \/ ~CheckURLHost(Request.host, fs.domains)
             \/ ~Request.web
          /\ Return("bad url")
    /\ UNCHANGED <<fs, inputs, i, network, bound, events>>

Prepare ==
    /\ pc = "prepare"
    /\ \A ref \in PlaceholdersOf(Request) : Rendered(ref)
    /\ Request.web
    /\ CheckURLHost(Request.host, fs.domains)
    /\ pc' = "dial"
    /\ host' = Request.host
    /\ hops' = 0
    /\ UNCHANGED <<fs, inputs, i, bound, sent, events, answer>>

Event(outcome) == [request |-> i, host |-> Request.host, outcome |-> outcome]

\* Mutation: a request that failed is tried again.
DoFailsAndRetries ==
    /\ events' = Append(events, Event("error"))
    /\ pc' = "dial"
    /\ UNCHANGED answer

\* client.Do returned an error: it is recorded, and ends the execution.
DoFails ==
    /\ events' = Append(events, Event("error"))
    /\ Return("transport")

\* No connection: refused, a private address, an unsupported scheme after a
\* redirect, or a header value the transport rejects.
DialFails ==
    /\ pc = "dial"
    /\ DoFails
    /\ UNCHANGED <<fs, inputs, i, network, bound>>

RoundTrip ==
    /\ pc = "dial"
    /\ sent' = Append(sent, [request |-> i, host |-> host])
    /\ hops' = hops + 1
    /\ pc' = "wait"
    /\ UNCHANGED <<fs, inputs, i, host, bound, events, answer>>

\* The connection broke before a status line.
Lost ==
    /\ pc = "wait"
    /\ DoFails
    /\ UNCHANGED <<fs, inputs, i, network, bound>>

\* Mutation: a redirect is only counted.
CheckRedirectCount(h) == hops < maxRedirects

\* "via" holds the round trips made, the first one too.
CheckRedirect(h) == hops < maxRedirects /\ CheckURLHost(h, fs.domains)

Redirected ==
    /\ pc = "wait"
    /\ \E h \in Hosts \cup {NoHost} :
          IF CheckRedirect(h)
             THEN /\ pc' = "dial"
                  /\ host' = h
                  /\ UNCHANGED <<events, answer>>
             ELSE DoFails /\ UNCHANGED host
    /\ UNCHANGED <<fs, inputs, i, hops, bound, sent>>

\* Mutation: the event waits for the body.
RespondsUnrecorded ==
    /\ pc = "wait"
    /\ pc' = "body"
    /\ UNCHANGED <<fs, inputs, i, network, bound, events, answer>>

\* Status line and headers arrived, of any status.
Responds ==
    /\ pc = "wait"
    /\ events' = Append(events, Event("allowed"))
    /\ pc' = "body"
    /\ UNCHANGED <<fs, inputs, i, network, bound, answer>>

\* The body broke off, the status is 400 or more, or the body is not JSON within
\* the size limit.
BodyFails ==
    /\ pc = "body"
    /\ Return("response")
    /\ UNCHANGED <<fs, inputs, i, network, bound, events>>

\* Mutation: the deadline ends with the headers.
TimesOutUntilHeaders ==
    /\ pc \in {"dial", "wait"}
    /\ DoFails
    /\ UNCHANGED <<fs, inputs, i, network, bound>>

\* client.Timeout covers a fetch from its first dial to the end of its body.
TimesOut ==
    /\ \/ pc \in {"dial", "wait"} /\ DoFails
       \/ pc = "body" /\ Return("response") /\ UNCHANGED events
    /\ UNCHANGED <<fs, inputs, i, network, bound>>

Parsed ==
    /\ pc = "body"
    /\ bound' = bound \cup {i}
    /\ IF i < Len(fs.requests)
          THEN i' = i + 1 /\ pc' = "prepare"
          ELSE i' = i /\ pc' = "map"
    /\ UNCHANGED <<fs, inputs, network, events, answer>>

\* A template is rendered without step responses; an expression reads a
\* missing value as null, and may fail in other ways.
MapResult ==
    /\ pc = "map"
    /\ \/ /\ \E ref \in fs.template : ref[1] = "step"
          /\ Return("unknown step")
       \/ /\ \E ref \in fs.template : ref[1] = "in" /\ ref[2] \notin inputs
          /\ Return("unknown input")
       \/ fs.exprs /\ Return("result")
       \/ /\ \A ref \in fs.template : ref[1] = "in" /\ ref[2] \in inputs
          /\ Return("data")
    /\ UNCHANGED <<fs, inputs, i, network, bound, events>>

\* What the engine does by itself.
EngineStep ==
    Run \/ PrepareFails \/ Prepare \/ RoundTrip \/ TimesOut \/ MapResult

\* What the network and the servers may do, at any time or never.
ServerStep == DialFails \/ Lost \/ Redirected \/ Responds \/ BodyFails \/ Parsed

Next == EngineStep \/ ServerStep

Spec == Init /\ [][Next]_vars /\ WF_vars(EngineStep)

----------------------------------------------------------------------------
(* Properties                                                              *)

\* Every variable has its type.
TypeOK ==
    /\ fs \in Shortcuts
    /\ inputs \subseteq Keys
    /\ pc \in {"called", "prepare", "dial", "wait", "body", "map", "returned"}
    /\ i \in Nat \ {0}
    /\ host \in Hosts \cup {NoHost}
    /\ hops \in 0..maxRedirects
    /\ bound \subseteq 1..i
    /\ sent \in Seq([request : Nat, host : Hosts \cup {NoHost}])
    /\ events \in Seq([request : Nat, host : Hosts \cup {NoHost},
                       outcome : {"allowed", "error"}])
    /\ answer \in Failures \cup {"none", "data"}

\* "Domains are carried per-request via context" (engine.go:139-142): every host
\* that gets a request, as the first of a fetch or by a redirect, is on the
\* allowlist of the definition that was run.
ContactsAllowlisted ==
    \A n \in DOMAIN sent : CheckURLHost(sent[n].host, fs.domains)

\* "The request left the runtime (data egressed) regardless of the status code"
\* (engine.go:323): once its fetch is over, each request that reached a server
\* has one event, in the order of the requests, and an event says "allowed"
\* only of a request that did.
LedgerComplete ==
    /\ \A n \in DOMAIN sent :
          \/ \E m \in DOMAIN events : events[m].request = sent[n].request
          \/ sent[n].request = i /\ pc \in {"dial", "wait"}
    /\ \A m \in DOMAIN events :
          /\ \A k \in 1..(m - 1) : events[k].request < events[m].request
          /\ events[m].outcome = "allowed" =>
                \E n \in DOMAIN sent : sent[n].request = events[m].request

\* A pipeline is not transactional, but nothing follows a failure: no request
\* and no event after an event of outcome "error", no request after a failed
\* body, and data is returned only when each request was answered.
StopsAtFailure ==
    /\ \A m \in DOMAIN events : events[m].outcome = "error" =>
          /\ m = Len(events)
          /\ \A n \in DOMAIN sent : sent[n].request <= events[m].request
    /\ \A n \in DOMAIN sent : 1..(sent[n].request - 1) \subseteq bound
    /\ answer = "data" => bound = DOMAIN fs.requests

\* A step uses "inputs and prior steps only" (engine.go:377): in a pipeline
\* that was accepted, the placeholder of a step never misses a response.  Only a
\* result template, which validation lets name a step, can, after the requests.
PipelineResolves ==
    fs.mode = "steps" /\ answer = "unknown step" => bound = DOMAIN fs.requests

\* "bound the multi-step pipeline" (dsl.go:199), "caps redirect hops"
\* (engine.go:165): an execution makes at most MaxSteps * maxRedirects requests
\* and records at most MaxSteps events, of one fetch for a single request.
EgressBounded ==
    LET fetches == IF fs.mode = "steps" THEN MaxSteps ELSE 1
    IN  /\ Len(sent) <= fetches * maxRedirects
        /\ Len(events) <= fetches

\* Servers need not answer: every execution returns, by the client's timeout.
RunReturns == <>(pc = "returned")
====
