---- MODULE Generation ----
(***************************************************************************)
(* A generate request on its way through the api (handleGenerate,          *)
(* proxyGenerator: internal/api/server.go) to the generator service        *)
(* (cmd/generator/main.go) and its conversation with the language model    *)
(* (internal/generator): the model is forced to call one tool; what it     *)
(* emits is decoded, validated and, for field shortcuts, compiled; a       *)
(* problem is sent back as the tool's answer for another round.            *)
(*                                                                         *)
(* The api counts admissions with the token bucket of RateLimiter, whose   *)
(* clock is the clock here.  The generator's loop has a clock of its own:  *)
(* context.Background() with a timeout, not the context of the request, so *)
(* it goes on when the api has stopped waiting.  The api's client gives up *)
(* before the server's WriteTimeout (60 s < 90 s), so an answer that is    *)
(* written too late is one nobody waits for.                               *)
(***************************************************************************)
EXTENDS RateLimiter, FiniteSets

CONSTANTS
    MaxRequests,  \* bound: admitted calls of POST /api/generate and the shortcut endpoints
    Asked,        \* what they ask for, some of Tracks
    Settings,     \* how the generator may be set up: sets of "ai", "verify"
    CallIds,      \* ids of tool calls
    maxRepairs,   \* maxRepairRounds, shortcutMaxRepairs (2 in the code)
    CallTimeout,  \* the model client's timeout (45 s)
    ApiTimeout,   \* the api client's timeout (60 s)
    LoopTimeout   \* the context of the loop (120 s)

ASSUME GenerationAssumption ==
    /\ Asked \subseteq {"nl", "wordy nl", "long nl", "template", "field", "action"}
    /\ Settings \subseteq SUBSET {"ai", "verify"}
    /\ MaxRequests \in Nat /\ maxRepairs \in Nat
    /\ CallTimeout \in Nat \ {0} /\ ApiTimeout \in Nat \ {0} /\ LoopTimeout \in Nat \ {0}

VARIABLES
    settings,  \* how the generator is set up
    track,     \* what q asks for
    pc,        \* where the generator is with q
    round,     \* the round of q's loop
    conv,      \* q's conversation after the prompt
    begun,     \* when q was admitted and its loop began
    asked,     \* when the pending call to the model began
    result,    \* what the generator made of q, until the api has read it
    answer,    \* the status the api answered q with
    spent      \* when each call to the model began

genVars  == <<settings, track, pc, round, conv, begun, asked, result, spent>>
allVars  == <<vars, genVars, answer>>

\* Calls are numbered as they arrive.
Requests == 1..MaxRequests

\* A definition from a prompt whose first line can be a name and its slug an id,
\* from one whose slug is longer than an id may be, from one whose first line is
\* longer than a name may be, or from a template's parameters; a field shortcut;
\* an action.
Tracks   == {"nl", "wordy nl", "long nl", "template", "field", "action"}
NL       == {"nl", "wordy nl", "long nl"}
Statuses == {"waiting", "200", "422", "500", "502", "503"}
\* "invalid" is a definition that Validate refuses.
Results  == {"none", "valid", "invalid", "failed", "disabled"}

Messages == [role : {"assistant"}, calls : SUBSET CallIds] \cup [role : {"tool"}, call : CallIds]

GenInit ==
    /\ Init
    /\ settings \in Settings
    /\ track = [q \in Requests |-> "none"]
    /\ pc = [q \in Requests |-> "idle"]
    /\ round = [q \in Requests |-> 0]
    /\ conv = [q \in Requests |-> <<>>]
    /\ begun = [q \in Requests |-> 0]
    /\ asked = [q \in Requests |-> 0]
    /\ result = [q \in Requests |-> "none"]
    /\ answer = [q \in Requests |-> "waiting"]
    /\ spent = <<>>

----------------------------------------------------------------------------
(* The api: the limiter, and what comes back.                              *)

Set(f, q, v) == [f EXCEPT ![q] = v]

Arrives(q) == pc[q] = "idle" /\ \A p \in 1..(q - 1) : pc[p] # "idle"

\* 429 before anything is sent: a refused call leaves no other trace, so it is
\* not one of Requests, and there may be any number of them.
Reject ==
    /\ Refuse
    /\ UNCHANGED <<genVars, answer>>

\* The request is forwarded.
Admit(q) ==
    /\ Arrives(q)
    /\ Allow \/ AllowUnlimited
    /\ \E t \in Asked : track' = Set(track, q, t)
    /\ pc' = Set(pc, q, "start")
    /\ begun' = Set(begun, q, now)
    /\ UNCHANGED <<settings, round, conv, asked, result, answer, spent>>

Waits(q) == pc[q] # "idle" /\ answer[q] = "waiting"

\* client.Do fails: generator unreachable, no answer within the timeout, or the
\* caller is gone.  The loop does not learn of it.
GiveUp(q) ==
    /\ Waits(q) /\ pc[q] # "done"
    /\ answer' = Set(answer, q, "502")
    /\ UNCHANGED <<vars, genVars>>

Reply(q, status) ==
    /\ Waits(q) /\ pc[q] = "done"
    /\ answer' = Set(answer, q, status)
    /\ track' = Set(track, q, "none") /\ result' = Set(result, q, "none")
    /\ UNCHANGED <<vars, settings, pc, round, conv, begun, asked, spent>>

StatusOf(q) ==
    CASE result[q] = "valid"    -> "200"
      [] result[q] = "disabled" -> "503"
      [] track[q] \in NL \cup {"template"} -> "422"
      [] OTHER                  -> "502"

\* The answer is passed on; a definition is validated again and, with
\* ?save=true, put into the catalog, which may fail.
PassOn(q)    == Reply(q, StatusOf(q))
SaveFails(q) == track[q] \in NL \cup {"template"} /\ result[q] = "valid" /\ Reply(q, "500")

----------------------------------------------------------------------------
(* The generator.                                                          *)

\* The handler returns and its locals are gone; an nl or template definition is
\* validated once more.
Finish(q, outcome) ==
    /\ pc' = Set(pc, q, "done")
    /\ result' = Set(result, q, IF Waits(q) THEN outcome ELSE "none")
    /\ round' = Set(round, q, 0) /\ conv' = Set(conv, q, <<>>)
    /\ begun' = Set(begun, q, 0) /\ asked' = Set(asked, q, 0)
    /\ UNCHANGED <<vars, settings, track, answer, spent>>

\* fromTemplate: name and id come from the parameters, and Validate may refuse them.
FromTemplate(q) ==
    /\ pc[q] = "start" /\ track[q] = "template"
    /\ \E outcome \in {"valid", "invalid"} : Finish(q, outcome)

\* The keyword router: a template whose title is the prompt's first line, however
\* long.  Validate takes a name of at most 256 bytes and an id of at most 128
\* characters, and the id is "app-" and the letters, digits and blanks of the line.
NameFits(q) == track[q] # "long nl"
IdFits(q)   == track[q] # "wordy nl"
RouterOutcome(q) == IF NameFits(q) /\ IdFits(q) THEN "valid" ELSE "invalid"

Disabled(q) ==
    /\ pc[q] = "start" /\ track[q] # "template" /\ "ai" \notin settings
    /\ Finish(q, IF track[q] \in NL THEN RouterOutcome(q) ELSE "disabled")

\* Mutation: a failure of the model is passed on whatever was asked for.
FallbackToFailure(q) == Finish(q, "failed")

\* The loop ends without a definition: nl falls back to the router.
Fallback(q) == Finish(q, IF track[q] \in NL THEN RouterOutcome(q) ELSE "failed")

Alive(q) == now - begun[q] < LoopTimeout

CallModel(q) ==
    /\ pc' = Set(pc, q, "call")
    /\ asked' = Set(asked, q, now)
    /\ spent' = Append(spent, now)
    /\ UNCHANGED <<vars, settings, track, conv, begun, result, answer>>

FirstCall(q) ==
    /\ pc[q] = "start" /\ track[q] # "template" /\ "ai" \in settings
    /\ Alive(q)
    /\ CallModel(q)
    /\ UNCHANGED round

\* Mutation: one round more than maxRepairs allows.
MayRepairOnce(q) == round[q] <= maxRepairs

MayRepair(q) == round[q] < maxRepairs

NextCall(q) ==
    /\ pc[q] = "problem" /\ MayRepair(q) /\ Alive(q)
    /\ round' = Set(round, q, round[q] + 1)
    /\ CallModel(q)

\* Rounds exhausted, or the context ended meanwhile.
Exhausted(q) ==
    /\ pc[q] = "problem"
    /\ ~(MayRepair(q) /\ Alive(q))
    /\ Fallback(q)

\* Each tool call of an assistant turn is answered by the messages that follow.
Answered(c) ==
    \A n \in DOMAIN c : c[n].role = "assistant" =>
        \A id \in c[n].calls : \E m \in DOMAIN c :
            /\ m > n /\ c[m] = [role |-> "tool", call |-> id]
            /\ \A l \in n + 1..m : c[l].role = "tool"

\* An error, no choices, no call of the tool, or no answer in time.  A
\* conversation that leaves a call without its answer is refused.
ModelFails(q) ==
    /\ pc[q] = "call"
    /\ Fallback(q)

\* Mutation: the whole turn is echoed, with every call the model made.
EchoAll(calls, id) ==
    <<[role |-> "assistant", calls |-> calls], [role |-> "tool", call |-> id]>>

\* The selected call only, and the answer to it.
Echo(calls, id) ==
    <<[role |-> "assistant", calls |-> {id}], [role |-> "tool", call |-> id]>>

Emitted(q) == pc[q] = "call" /\ Answered(conv[q])

\* What the model emitted does not decode, validate or compile: the problem goes
\* back as the answer to the call.  calls are those of the turn, id the selected.
Repair(q) ==
    /\ \E calls \in SUBSET CallIds : \E id \in calls :
          conv' = Set(conv, q, conv[q] \o Echo(calls, id))
    /\ pc' = Set(pc, q, "problem") /\ asked' = Set(asked, q, 0)
    /\ UNCHANGED <<vars, settings, track, round, begun, result, answer, spent>>

ModelErrs(q)  == Emitted(q) /\ Repair(q)
BuildFails(q) == pc[q] = "build" /\ Alive(q) /\ Repair(q)

Verifies(q) == track[q] = "field" /\ "verify" \in settings

ModelEmits(q) ==
    /\ Emitted(q) /\ ~Verifies(q)
    /\ Finish(q, "valid")

\* The rendered plugin is built against the real SDK.
StartBuild(q) ==
    /\ Emitted(q) /\ Verifies(q)
    /\ pc' = Set(pc, q, "build") /\ asked' = Set(asked, q, 0)
    /\ UNCHANGED <<vars, settings, track, round, conv, begun, result, answer, spent>>

\* Mutation: a build that outlives the context is not ended.
BuildEndsInTime(q) ==
    /\ pc[q] = "build" /\ Alive(q)
    /\ Finish(q, "valid")

\* Built, or the build could not be tried or not finished.
BuildEnds(q) ==
    /\ pc[q] = "build"
    /\ Finish(q, "valid")

----------------------------------------------------------------------------
(* Time passes while somebody waits: the api no longer than its client's   *)
(* timeout, the loop no longer than the call's and its own.                *)

InTime(q) ==
    /\ pc[q] \notin {"start", "problem"}
    /\ Waits(q) => pc[q] # "done" /\ now < begun[q] + ApiTimeout
    /\ pc[q] = "call" => now < asked[q] + CallTimeout
    /\ pc[q] \in {"call", "build"} => now < begun[q] + LoopTimeout

Elapse ==
    /\ \A q \in Requests : InTime(q)
    /\ Tick
    /\ UNCHANGED <<genVars, answer>>

ApiStep(q) == Admit(q) \/ GiveUp(q) \/ PassOn(q) \/ SaveFails(q)
CallStep(q) == ModelFails(q) \/ ModelErrs(q) \/ ModelEmits(q) \/ StartBuild(q)
GeneratorStep(q) ==
    \/ FromTemplate(q) \/ Disabled(q) \/ FirstCall(q) \/ NextCall(q) \/ Exhausted(q)
    \/ CallStep(q) \/ BuildEnds(q) \/ BuildFails(q)

GenNext == Elapse \/ Reject \/ \E q \in Requests : ApiStep(q) \/ GeneratorStep(q)

GenSpec == GenInit /\ [][GenNext]_allVars

\* Of the handlers and loops that can go on, one does: that is all it takes, for
\* each is a goroutine of its own and none waits for another.
Fairness == WF_allVars(\E q \in Requests : GeneratorStep(q) \/ GiveUp(q) \/ PassOn(q))

FairGenSpec == GenSpec /\ Fairness

----------------------------------------------------------------------------
(* Properties                                                              *)

\* Every variable has its type.
GenTypeOK ==
    /\ TypeOK
    /\ settings \in Settings
    /\ track \in [Requests -> Tracks \cup {"none"}]
    /\ pc \in [Requests -> {"idle", "start", "call", "build", "problem", "done"}]
    /\ round \in [Requests -> 0..maxRepairs]
    /\ conv \in [Requests -> Seq(Messages)]
    /\ begun \in [Requests -> 0..MaxTime] /\ asked \in [Requests -> 0..MaxTime]
    /\ result \in [Requests -> Results]
    /\ answer \in [Requests -> Statuses]
    /\ spent \in Seq(0..MaxTime)

\* Every conversation sent to the model is one it accepts: each tool call of an
\* assistant turn has its answer before the next turn, whatever calls the model
\* made in earlier rounds ("an assistant turn carrying tool_calls needs a reply
\* for EVERY id, else the next request 400s instead of repairing",
\* deepseek.go:200-202).
ConversationAnswered == \A q \in Requests : pc[q] = "call" => Answered(conv[q])

\* Limiter and loops together bound the calls to the model: those of any stretch
\* of time are maxRepairs + 1 for each request admitted in it, or in the time a
\* loop lasts before it, though loops outlive the requests they serve
\* ("Rate-limited to protect the LLM budget", server.go:290).
SpendBounded ==
    Limited =>
        \A k \in DOMAIN spent : \A l \in k..Len(spent) :
            l - k + 1 <= (maxRepairs + 1)
                * Cardinality({g \in DOMAIN grants : grants[g] \in spent[k] - LoopTimeout..spent[l]})

\* A request is answered 200 only with a definition that passed Validate; and a
\* prompt for a definition never ends in a failure of the model, whatever that
\* does: the router takes over, and only the name or the id it makes of a first
\* line too long for them can still be refused ("when the balance runs out,
\* generation automatically falls back to keyword routing",
\* docs/PRODUCTION.en.md:115).
AnswersSound ==
    [][\A q \in Requests :
          /\ answer'[q] = "200" /\ answer[q] # "200" => result[q] = "valid"
          /\ result'[q] # result[q] /\ track'[q] \in NL =>
                result'[q] \in {"valid"} \cup (IF track[q] = "nl" THEN {} ELSE {"invalid"})]_allVars

\* "... (without interrupting service)", docs/PRODUCTION.en.md:115: a prompt for
\* a definition that the generator has finished with has a definition.
NlAlwaysServed ==
    \A q \in Requests :
        track[q] \in NL /\ result[q] # "none" => result[q] = "valid"

\* Each admitted request is answered, and the loop it started ends: no round of
\* errors, build or timeout goes on for ever (server.go:287, deepseek.go:145).
GenerationEnds ==
    \A q \in Requests : (pc[q] # "idle") ~> (pc[q] = "done" /\ answer[q] # "waiting")
====
