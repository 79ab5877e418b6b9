---- MODULE GenerationProofs ----
(***************************************************************************)
(* What the token bucket admits, for every limit, minute and clock, and    *)
(* what Generation promises of the conversation with the language model,   *)
(* of the answers and of the calls spent, for any number of requests,      *)
(* rounds and call ids, every limit and every timeout.                     *)
(***************************************************************************)
EXTENDS Generation, FiniteSetTheorems, TLAPS

----------------------------------------------------------------------------
(* The token bucket                                                        *)

\* Products of a limit distribute over a stretch of time cut in two.
LEMMA CutStretch ==
    ASSUME NEW p \in Int, NEW a \in Int, NEW b \in Int, NEW c \in Int
    PROVE  p * (c - a) = p * (b - a) + p * (c - b)
  OBVIOUS

\* A bucket with a limit holds at least one token when it is full.
LEMMA FullBucket ==
    ASSUME NEW p \in Int, p > 0, NEW m \in Nat \ {0}
    PROVE  p * m \in Nat /\ p * m >= m
  <1>1. (p - 1) * m >= 0
    OBVIOUS
  <1>2. p * m = (p - 1) * m + m
    OBVIOUS
  <1> QED
    BY <1>1, <1>2

\* What has been admitted since the k-th admission, together with what is left
\* in the bucket, was in a full bucket or has flowed in since.
Budget ==
    Limited =>
        \A k \in 1..Len(grants) :
            (Len(grants) - k + 1) * Minute + tokens <= Full + perMin * (last - grants[k])

\* What flowed in since the last admission is still there.
Fresh ==
    Limited =>
        \/ tokens = Full
        \/ /\ Len(grants) > 0
           /\ tokens >= perMin * (last - grants[Len(grants)])

IInv == TypeOK /\ Budget /\ Fresh /\ RateBounded

\* What the bucket holds after a refill.
LEMMA RefillBounds ==
    ASSUME TypeOK, Limited
    PROVE  /\ Refilled \in 0..Full
           /\ Refilled <= tokens + perMin * (now - last)
           /\ Refilled = Full \/ Refilled = tokens + perMin * (now - last)
           /\ Full \in Nat /\ Full >= Minute
  <1> DEFINE e == now - last
  <1>1. perMin \in Int /\ perMin > 0 /\ Minute \in Nat \ {0}
    BY LimitAssumption DEF TypeOK, Limited
  <1>2. Full \in Nat /\ Full >= Minute
    BY <1>1, FullBucket DEF Full
  <1>3. e \in Nat
    BY LimitAssumption DEF TypeOK
  <1>4. perMin * e \in Nat
    BY <1>1, <1>3
  <1>5. tokens \in 0..Full
    BY DEF TypeOK
  <1> QED
    BY <1>2, <1>4, <1>5 DEF Refilled

LEMMA InitInv == Init => IInv
  <1> SUFFICES ASSUME Init PROVE IInv
    OBVIOUS
  <1>1. perMin \in Int /\ Minute \in Nat \ {0} /\ MaxTime \in Nat
    BY LimitAssumption DEF Init
  <1>2. Full \in Int
    BY <1>1 DEF Full
  <1>3. Limited => Full \in Nat
    BY <1>1, FullBucket DEF Full, Limited
  <1>4. TypeOK
    BY <1>1, <1>2, <1>3 DEF Init, TypeOK
  <1> QED
    BY <1>4 DEF Init, IInv, Budget, Fresh, RateBounded

\* An admission.
LEMMA AllowStep == IInv /\ Allow => IInv'
  <1> SUFFICES ASSUME IInv, Allow PROVE IInv'
    OBVIOUS
  <1> DEFINE n == Len(grants)
  <1>1. TypeOK /\ Limited /\ Budget /\ RateBounded
    BY DEF IInv, Allow
  <1>2. /\ perMin \in Int /\ perMin > 0 /\ Minute \in Nat \ {0}
        /\ MaxTime \in Nat /\ now \in Int /\ last \in Int /\ tokens \in Int
        /\ n \in Nat
    BY <1>1, LimitAssumption DEF TypeOK, Limited
  <1>3. /\ Refilled \in 0..Full /\ Full \in Nat
        /\ Refilled <= tokens + perMin * (now - last)
    BY <1>1, RefillBounds
  <1>4. /\ perMin' = perMin /\ now' = now /\ last' = now
        /\ grants' = Append(grants, now)
        /\ tokens' = Refilled - Minute /\ Refilled >= Minute
        /\ Full' = Full /\ Limited'
    BY <1>1 DEF Allow, Full, Limited
  <1>5. /\ Len(grants') = n + 1
        /\ \A k \in 1..n : grants'[k] = grants[k]
        /\ grants'[n + 1] = now
        /\ \A k \in 1..n + 1 : grants'[k] \in Int
    BY <1>1, <1>2, <1>4 DEF TypeOK
  <1>6. tokens' \in 0..Full
    BY <1>2, <1>3, <1>4
  <1>7. TypeOK'
    BY <1>1, <1>2, <1>4, <1>6 DEF TypeOK
  <1>8. Fresh'
    <2>1. perMin * (now - now) = 0
      BY <1>2
    <2> QED
      BY <1>2, <1>4, <1>5, <1>6, <2>1 DEF Fresh
  <1>9. ASSUME NEW k \in 1..n + 1
        PROVE  (n + 1 - k + 1) * Minute + tokens' <= Full + perMin * (now - grants'[k])
    <2>1. CASE k = n + 1
      <3>1. perMin * (now - now) = 0 /\ (n + 1 - k + 1) * Minute = Minute
        BY <1>2, <2>1
      <3>2. perMin * (now - grants'[k]) = 0
        BY <1>5, <2>1, <3>1
      <3> QED
        BY <1>2, <1>3, <1>4, <3>1, <3>2
    <2>2. CASE k \in 1..n
      <3> DEFINE g == grants[k]
      <3>1. g \in Int /\ grants'[k] = g
        BY <1>5, <2>2
      <3>2. (n - k + 1) * Minute + tokens <= Full + perMin * (last - g)
        BY <1>1, <2>2 DEF Budget
      <3>3. perMin * (now - g) = perMin * (last - g) + perMin * (now - last)
        BY <1>2, <3>1, CutStretch
      <3>4. (n + 1 - k + 1) * Minute = (n - k + 1) * Minute + Minute
        BY <1>2
      <3>5. /\ (n - k + 1) * Minute \in Int /\ perMin * (last - g) \in Int
            /\ perMin * (now - last) \in Int
        BY <1>2, <3>1
      <3>6. tokens' + Minute <= tokens + perMin * (now - last)
        BY <1>2, <1>3, <1>4, <3>5
      <3>7. perMin * (now - grants'[k]) = perMin * (last - g) + perMin * (now - last)
        BY <3>1, <3>3
      <3>8. ASSUME NEW a \in Int, NEW b \in Int, NEW c \in Int,
                   NEW t \in Int, NEW t1 \in Int,
                   a + t <= Full + b, t1 + Minute <= t + c
            PROVE  (a + Minute) + t1 <= Full + (b + c)
        BY <1>2, <1>3, <3>8
      <3>9. tokens' \in Int
        BY <1>3, <1>6
      <3>10. ((n - k + 1) * Minute + Minute) + tokens'
                <= Full + (perMin * (last - g) + perMin * (now - last))
        BY <1>2, <3>2, <3>5, <3>6, <3>8, <3>9
      <3> QED
        BY <3>4, <3>7, <3>10
    <2> QED
      BY <1>2, <2>1, <2>2
  <1>10. Budget'
    BY <1>4, <1>5, <1>9 DEF Budget
  <1>11. RateBounded'
    <2> SUFFICES ASSUME NEW k \in 1..n + 1, NEW l \in k..n + 1
                 PROVE  (l - k + 1) * Minute <= Full + perMin * (grants'[l] - grants'[k])
      BY <1>4, <1>5 DEF RateBounded
    <2>1. CASE l = n + 1
      <3>1. (n + 1 - k + 1) * Minute + tokens' <= Full + perMin * (now - grants'[k])
        BY <1>9
      <3>2. (n + 1 - k + 1) * Minute \in Int /\ perMin * (now - grants'[k]) \in Int
        BY <1>2, <1>5
      <3>3. (n + 1 - k + 1) * Minute <= Full + perMin * (now - grants'[k])
        BY <1>3, <1>6, <3>1, <3>2
      <3> QED
        BY <1>5, <2>1, <3>3
    <2>2. CASE l \in 1..n
      <3>1. k \in 1..n /\ l \in k..n
        BY <1>2, <2>2
      <3> QED
        BY <1>1, <1>5, <2>2, <3>1 DEF RateBounded
    <2> QED
      BY <1>2, <2>1, <2>2
  <1> QED
    BY <1>7, <1>8, <1>10, <1>11 DEF IInv

\* A refusal; it also comes soon after the last admission.
LEMMA RefuseStep ==
    IInv /\ Refuse => /\ IInv'
                      /\ grants # <<>>
                      /\ perMin * (now - grants[Len(grants)]) < Minute
  <1> SUFFICES ASSUME IInv, Refuse
               PROVE  /\ IInv'
                      /\ grants # <<>>
                      /\ perMin * (now - grants[Len(grants)]) < Minute
    OBVIOUS
  <1> DEFINE n == Len(grants)
  <1>1. TypeOK /\ Limited /\ Budget /\ RateBounded /\ Fresh
    BY DEF IInv, Refuse
  <1>2. /\ perMin \in Int /\ perMin > 0 /\ Minute \in Nat \ {0}
        /\ MaxTime \in Nat /\ now \in Int /\ last \in Int /\ tokens \in Int
        /\ n \in Nat /\ \A k \in 1..n : grants[k] \in Int
    BY <1>1, LimitAssumption DEF TypeOK, Limited
  <1>3. /\ Refilled \in 0..Full /\ Full \in Nat /\ Full >= Minute
        /\ Refilled <= tokens + perMin * (now - last)
        /\ Refilled = Full \/ Refilled = tokens + perMin * (now - last)
    BY <1>1, RefillBounds
  <1>4. /\ perMin' = perMin /\ now' = now /\ last' = now
        /\ grants' = grants /\ tokens' = Refilled /\ Refilled < Minute
        /\ Full' = Full /\ Limited'
    BY <1>1 DEF Refuse, Full, Limited
  <1>5. Refilled = tokens + perMin * (now - last)
    BY <1>2, <1>3, <1>4
  <1>6. perMin * (now - last) \in Nat
    <2>1. now - last \in Nat
      BY <1>1, LimitAssumption DEF TypeOK
    <2> QED
      BY <1>2, <2>1
  <1>7. TypeOK'
    BY <1>1, <1>2, <1>3, <1>4 DEF TypeOK
  <1>8. /\ n > 0
        /\ tokens >= perMin * (last - grants[n])
    BY <1>1, <1>2, <1>3, <1>4, <1>5, <1>6 DEF Fresh
  <1>9. ASSUME NEW k \in 1..n
        PROVE  perMin * (now - grants[k]) = perMin * (last - grants[k]) + perMin * (now - last)
    BY <1>2, CutStretch
  <1>10. Refilled >= perMin * (now - grants[n])
    <2>1. perMin * (now - grants[n]) = perMin * (last - grants[n]) + perMin * (now - last)
      BY <1>2, <1>8, <1>9
    <2>2. perMin * (last - grants[n]) \in Int
      BY <1>2, <1>8
    <2> QED
      BY <1>2, <1>5, <1>6, <1>8, <2>1, <2>2
  <1>11. Fresh'
    BY <1>4, <1>8, <1>10 DEF Fresh
  <1>12. Budget'
    <2> SUFFICES ASSUME NEW k \in 1..n
                 PROVE  (n - k + 1) * Minute + Refilled <= Full + perMin * (now - grants[k])
      BY <1>4 DEF Budget
    <2>1. (n - k + 1) * Minute + tokens <= Full + perMin * (last - grants[k])
      BY <1>1 DEF Budget
    <2>2. (n - k + 1) * Minute \in Int /\ perMin * (last - grants[k]) \in Int
      BY <1>2
    <2>3. perMin * (now - grants[k]) = perMin * (last - grants[k]) + perMin * (now - last)
      BY <1>9
    <2> QED
      BY <1>2, <1>3, <1>5, <1>6, <2>1, <2>2, <2>3
  <1>13. RateBounded'
    BY <1>1, <1>4 DEF RateBounded
  <1>14. perMin * (now - grants[n]) < Minute
    <2>1. perMin * (now - grants[n]) \in Int
      BY <1>2, <1>8
    <2> QED
      BY <1>2, <1>3, <1>4, <1>10, <2>1
  <1> QED
    BY <1>1, <1>7, <1>8, <1>11, <1>12, <1>13, <1>14 DEF IInv, TypeOK

LEMMA Step == IInv /\ [Next]_vars => IInv'
  <1> SUFFICES ASSUME IInv, [Next]_vars PROVE IInv'
    OBVIOUS
  <1>1. CASE AllowUnlimited
    BY <1>1 DEF AllowUnlimited, vars, IInv, TypeOK, Budget, Fresh, RateBounded, Limited, Full
  <1>2. CASE Allow
    BY <1>2, AllowStep
  <1>3. CASE Refuse
    BY <1>3, RefuseStep
  <1>4. CASE Tick
    <2>1. now' \in 0..MaxTime /\ last <= now'
      BY <1>4, LimitAssumption DEF Tick, IInv, TypeOK
    <2> QED
      BY <1>4, <2>1 DEF Tick, IInv, TypeOK, Budget, Fresh, RateBounded, Limited, Full
  <1>5. CASE UNCHANGED vars
    BY <1>5 DEF vars, IInv, TypeOK, Budget, Fresh, RateBounded, Limited, Full
  <1> QED
    BY <1>1, <1>2, <1>3, <1>4, <1>5 DEF Next

LEMMA Inductive == Spec => []IInv
  BY InitInv, Step, PTL DEF Spec

\* Every variable of the rate limiter has its type: the bucket is never overdrawn
\* and never holds more than the limit (rateLimiter.allow).
THEOREM LimiterTypeCorrect == Spec => []TypeOK
  <1>1. IInv => TypeOK
    BY DEF IInv
  <1> QED
    BY Inductive, <1>1, PTL

\* Calls admitted in any stretch of time are at most a full bucket and what flows
\* in meanwhile, for every limit (rateLimiter.allow).
THEOREM RateBoundedHolds == Spec => []RateBounded
  <1>1. IInv => RateBounded
    BY DEF IInv
  <1> QED
    BY Inductive, <1>1, PTL

\* A caller is never refused once the time of one token has passed since the last
\* admission (rateLimiter.allow refills before it refuses).
THEOREM RefusalsAreBriefHolds == Spec => RefusalsAreBrief
  <1>1. IInv /\ [Next]_vars =>
            [Refuse => /\ grants # <<>>
                       /\ perMin * (now - grants[Len(grants)]) < Minute]_vars
    BY RefuseStep
  <1> QED
    BY Inductive, <1>1, PTL DEF Spec, RefusalsAreBrief

----------------------------------------------------------------------------
(* The limiter inside                                                      *)

\* The api's calls are calls of the token bucket, and its clock is the bucket's.
LEMMA LimiterStep == [GenNext]_allVars => [Next]_vars
  <1> USE DEF Next
  <1>1. ASSUME NEW q \in Requests, ApiStep(q) PROVE [Next]_vars
    BY <1>1 DEF ApiStep, Admit, GiveUp, PassOn, SaveFails, Reply
  <1>2. ASSUME NEW q \in Requests, GeneratorStep(q) PROVE UNCHANGED vars
    BY <1>2 DEF GeneratorStep, FromTemplate, Disabled, FirstCall, NextCall, CallModel, Exhausted,
                Fallback, Finish, CallStep, ModelFails, ModelErrs, ModelEmits, Repair, StartBuild,
                BuildEnds, BuildFails
  <1>3. CASE Elapse \/ Reject \/ UNCHANGED allVars
    BY <1>3 DEF Elapse, Reject, allVars
  <1> QED
    BY <1>1, <1>2, <1>3 DEF GenNext

LEMMA LimiterRefined == GenSpec => Spec
  <1>1. GenInit => Init
    BY DEF GenInit
  <1> QED
    BY <1>1, LimiterStep, PTL DEF GenSpec, Spec

LEMMA LimiterInv == GenSpec => []IInv
  BY LimiterRefined, Inductive, PTL

----------------------------------------------------------------------------
(* Types                                                                   *)

LEMMA Numbers ==
    /\ maxRepairs \in Nat /\ MaxTime \in Nat /\ MaxRequests \in Nat
    /\ LoopTimeout \in Nat \ {0}
    /\ Asked \subseteq Tracks
  BY GenerationAssumption, LimitAssumption DEF Tracks

\* What the generator may have made of a request, it has made when it is done.
ResultInv == \A q \in Requests : pc[q] # "done" => result[q] = "none"

GenInv == GenTypeOK /\ ResultInv

LEMMA InitTypes == GenInit /\ IInv => GenInv
  <1> SUFFICES ASSUME GenInit, IInv PROVE GenInv
    OBVIOUS
  <1>1. 0 \in 0..maxRepairs /\ 0 \in 0..MaxTime
    BY Numbers
  <1>2. TypeOK
    BY DEF IInv
  <1> QED
    BY <1>1, <1>2 DEF GenInit, GenInv, GenTypeOK, ResultInv, Results, Statuses

\* The handler of the generator returns.
LEMMA FinishTypes ==
    ASSUME GenInv, TypeOK', NEW q \in Requests,
           NEW outcome \in {"valid", "invalid", "failed", "disabled"}, Finish(q, outcome)
    PROVE  GenInv'
  <1>1. 0 \in 0..maxRepairs /\ 0 \in 0..MaxTime /\ <<>> \in Seq(Messages)
    BY Numbers
  <1>2. /\ pc' = [pc EXCEPT ![q] = "done"] /\ round' = [round EXCEPT ![q] = 0]
        /\ conv' = [conv EXCEPT ![q] = <<>>]
        /\ begun' = [begun EXCEPT ![q] = 0] /\ asked' = [asked EXCEPT ![q] = 0]
        /\ UNCHANGED <<settings, track, answer, spent>>
    BY DEF Finish, Set
  <1>3. \E r \in Results : result' = [result EXCEPT ![q] = r]
    BY DEF Finish, Set, Results
  <1>4. GenTypeOK'
    BY <1>1, <1>2, <1>3 DEF GenInv, GenTypeOK
  <1>5. ResultInv'
    BY <1>2, <1>3 DEF GenInv, GenTypeOK, ResultInv
  <1> QED
    BY <1>4, <1>5 DEF GenInv

LEMMA RepairTypes ==
    ASSUME GenInv, TypeOK', NEW q \in Requests, pc[q] # "done", Repair(q)
    PROVE  GenInv'
  <1>1. PICK calls \in SUBSET CallIds : \E id \in calls :
           conv' = Set(conv, q, conv[q] \o Echo(calls, id))
    BY DEF Repair
  <1>2. PICK id \in calls : conv' = Set(conv, q, conv[q] \o Echo(calls, id))
    BY <1>1
  <1>3. Echo(calls, id) \in Seq(Messages)
    BY <1>2 DEF Echo, Messages
  <1>4. conv' \in [Requests -> Seq(Messages)]
    BY <1>2, <1>3 DEF Set, GenInv, GenTypeOK
  <1>5. 0 \in 0..MaxTime
    BY Numbers
  <1>6. /\ pc' = [pc EXCEPT ![q] = "problem"] /\ asked' = [asked EXCEPT ![q] = 0]
        /\ UNCHANGED <<settings, track, round, begun, result, answer, spent>>
    BY DEF Repair, Set
  <1> QED
    BY <1>4, <1>5, <1>6 DEF GenInv, GenTypeOK, ResultInv

LEMMA CallTypes ==
    ASSUME GenInv, TypeOK', NEW q \in Requests, FirstCall(q) \/ NextCall(q)
    PROVE  GenInv'
  <1>1. now \in 0..MaxTime /\ round \in [Requests -> 0..maxRepairs] /\ spent \in Seq(0..MaxTime)
    BY DEF GenInv, GenTypeOK, TypeOK
  <1>2. /\ pc' = [pc EXCEPT ![q] = "call"] /\ asked' = [asked EXCEPT ![q] = now]
        /\ spent' = Append(spent, now) /\ pc[q] # "done"
        /\ UNCHANGED <<settings, track, conv, begun, result, answer>>
    BY DEF FirstCall, NextCall, CallModel, Set
  <1>3. spent' \in Seq(0..MaxTime)
    BY <1>1, <1>2
  <1>4. round' = round \/ (round[q] < maxRepairs /\ round' = [round EXCEPT ![q] = round[q] + 1])
    BY DEF FirstCall, NextCall, MayRepair, Set
  <1>5. round' \in [Requests -> 0..maxRepairs]
    BY <1>1, <1>4, Numbers
  <1> QED
    BY <1>1, <1>2, <1>3, <1>5 DEF GenInv, GenTypeOK, ResultInv

LEMMA TypesStep == GenInv /\ TypeOK' /\ [GenNext]_allVars => GenInv'
  <1> SUFFICES ASSUME GenInv, TypeOK', [GenNext]_allVars PROVE GenInv'
    OBVIOUS
  <1>1. ASSUME NEW q \in Requests, Admit(q) PROVE GenInv'
    <2>1. now \in 0..MaxTime /\ Asked \subseteq Tracks
      BY Numbers DEF GenInv, GenTypeOK, TypeOK
    <2> QED
      BY <1>1, <2>1 DEF Admit, Arrives, Set, GenInv, GenTypeOK, ResultInv
  <1>2. ASSUME NEW q \in Requests, GiveUp(q) PROVE GenInv'
    BY <1>2 DEF GiveUp, Set, genVars, GenInv, GenTypeOK, ResultInv, Statuses
  <1>3. ASSUME NEW q \in Requests, PassOn(q) \/ SaveFails(q) PROVE GenInv'
    BY <1>3 DEF PassOn, SaveFails, Reply, StatusOf, Set, GenInv, GenTypeOK, ResultInv, Statuses, Results
  <1>4. ASSUME NEW q \in Requests,
               FromTemplate(q) \/ Disabled(q) \/ Exhausted(q) \/ ModelFails(q) \/ ModelEmits(q) \/ BuildEnds(q)
        PROVE  GenInv'
    <2>1. \E outcome \in {"valid", "invalid", "failed", "disabled"} : Finish(q, outcome)
      BY <1>4 DEF FromTemplate, Disabled, Exhausted, ModelFails, ModelEmits, BuildEnds, Fallback,
             RouterOutcome, NameFits, IdFits
    <2> QED
      BY <2>1, FinishTypes
  <1>5. ASSUME NEW q \in Requests, FirstCall(q) \/ NextCall(q) PROVE GenInv'
    BY <1>5, CallTypes
  <1>6. ASSUME NEW q \in Requests, ModelErrs(q) \/ BuildFails(q) PROVE GenInv'
    BY <1>6, RepairTypes DEF ModelErrs, BuildFails, Emitted
  <1>7. ASSUME NEW q \in Requests, StartBuild(q) PROVE GenInv'
    BY <1>7, LimitAssumption DEF StartBuild, Emitted, Set, GenInv, GenTypeOK, ResultInv
  <1>8. CASE Elapse \/ Reject \/ UNCHANGED allVars
    BY <1>8 DEF Elapse, Reject, allVars, genVars, GenInv, GenTypeOK, ResultInv
  <1> QED
    BY <1>1, <1>2, <1>3, <1>4, <1>5, <1>6, <1>7, <1>8 DEF GenNext, ApiStep, GeneratorStep, CallStep

LEMMA GenInductive == GenSpec => []GenInv
  <1>1. IInv => TypeOK
    BY DEF IInv
  <1> QED
    BY <1>1, LimiterInv, InitTypes, TypesStep, PTL DEF GenSpec

\* Every variable of a generate request has its type: no loop counts further than
\* its repairs, and nothing but validated results and failures is answered with.
THEOREM GenerationTypeCorrect == GenSpec => []GenTypeOK
  <1>1. GenInv => GenTypeOK
    BY DEF GenInv
  <1> QED
    BY <1>1, GenInductive, PTL

----------------------------------------------------------------------------
(* What is answered                                                        *)

\* What AnswersSound says of one step.
SoundStep ==
    \A q \in Requests :
        /\ answer'[q] = "200" /\ answer[q] # "200" => result[q] = "valid"
        /\ result'[q] # result[q] /\ track'[q] \in NL =>
              result'[q] \in {"valid"} \cup (IF track[q] = "nl" THEN {} ELSE {"invalid"})

\* An outcome the loop or the router may come to for q.
SoundOutcome(q, outcome) ==
    track[q] \in NL => outcome \in {"valid"} \cup (IF track[q] = "nl" THEN {} ELSE {"invalid"})

LEMMA FinishSound ==
    ASSUME GenInv, NEW q \in Requests, pc[q] # "done", NEW outcome,
           Finish(q, outcome), SoundOutcome(q, outcome)
    PROVE  SoundStep
  <1>1. /\ result' = [result EXCEPT ![q] = IF Waits(q) THEN outcome ELSE "none"]
        /\ UNCHANGED <<track, answer>> /\ result \in [Requests -> Results]
        /\ result[q] = "none"
    BY DEF Finish, Set, GenInv, GenTypeOK, ResultInv
  <1> QED
    BY <1>1 DEF SoundStep, SoundOutcome

LEMMA ReplySound ==
    ASSUME GenInv, NEW q \in Requests, NEW status, Reply(q, status),
           status = "200" => result[q] = "valid"
    PROVE  SoundStep
  <1>1. /\ answer' = [answer EXCEPT ![q] = status] /\ answer \in [Requests -> Statuses]
        /\ track' = [track EXCEPT ![q] = "none"] /\ track \in [Requests -> Tracks \cup {"none"}]
        /\ result' = [result EXCEPT ![q] = "none"] /\ result \in [Requests -> Results]
    BY DEF Reply, Set, GenInv, GenTypeOK
  <1>2. "none" \notin NL
    BY DEF NL
  <1> QED
    BY <1>1, <1>2 DEF SoundStep

LEMMA EveryStepSound == GenInv /\ [GenNext]_allVars => SoundStep
  <1> SUFFICES ASSUME GenInv, [GenNext]_allVars PROVE SoundStep
    OBVIOUS
  <1>0. answer \in [Requests -> Statuses]
    BY DEF GenInv, GenTypeOK
  <1>1. ASSUME NEW q \in Requests, PassOn(q) \/ SaveFails(q) PROVE SoundStep
    BY <1>1, ReplySound DEF PassOn, SaveFails, StatusOf
  <1>2. ASSUME NEW q \in Requests, GiveUp(q) PROVE SoundStep
    BY <1>0, <1>2 DEF GiveUp, Set, genVars, SoundStep
  <1>3. ASSUME NEW q \in Requests,
               Admit(q) \/ FirstCall(q) \/ NextCall(q) \/ ModelErrs(q) \/ BuildFails(q) \/ StartBuild(q)
        PROVE  SoundStep
    BY <1>3 DEF Admit, FirstCall, NextCall, CallModel, ModelErrs, BuildFails, Repair, StartBuild, SoundStep
  <1>4. ASSUME NEW q \in Requests,
               FromTemplate(q) \/ Disabled(q) \/ Exhausted(q) \/ ModelFails(q) \/ ModelEmits(q) \/ BuildEnds(q)
        PROVE  SoundStep
    <2>1. pc[q] # "done"
      BY <1>4 DEF FromTemplate, Disabled, Exhausted, ModelFails, ModelEmits, BuildEnds, Emitted
    <2>2. \E outcome : Finish(q, outcome) /\ SoundOutcome(q, outcome)
      BY <1>4 DEF FromTemplate, Disabled, Exhausted, ModelFails, ModelEmits, BuildEnds,
                  Fallback, RouterOutcome, NameFits, IdFits, SoundOutcome, NL
    <2> QED
      BY <2>1, <2>2, FinishSound
  <1>5. CASE Elapse \/ Reject \/ UNCHANGED allVars
    BY <1>5 DEF Elapse, Reject, allVars, genVars, SoundStep
  <1> QED
    BY <1>1, <1>2, <1>3, <1>4, <1>5 DEF GenNext, ApiStep, GeneratorStep, CallStep

\* A request is answered 200 only with what validated, and a prompt for a
\* definition does not end in a failure of the model; it is refused only if its
\* first line is too long for a name or its slug for an id (StatusOf, Fallback).
THEOREM AnswersSoundHolds == GenSpec => AnswersSound
  <1>1. GenInv /\ [GenNext]_allVars =>
           [\A q \in Requests :
              /\ answer'[q] = "200" /\ answer[q] # "200" => result[q] = "valid"
              /\ result'[q] # result[q] /\ track'[q] \in NL =>
                    result'[q] \in {"valid"} \cup (IF track[q] = "nl" THEN {} ELSE {"invalid"})]_allVars
    BY EveryStepSound DEF SoundStep
  <1> QED
    BY <1>1, GenInductive, PTL DEF GenSpec, AnswersSound

----------------------------------------------------------------------------
(* The conversation                                                        *)

\* A sequence with two elements put behind it.
LEMMA TwoBehind ==
    ASSUME NEW S, NEW T, NEW c \in Seq(S), NEW a \in T, NEW b \in T
    PROVE  /\ Len(c) \in Nat /\ DOMAIN c = 1..Len(c)
           /\ DOMAIN (c \o <<a, b>>) = 1..Len(c) + 2
           /\ \A n \in 1..Len(c) : (c \o <<a, b>>)[n] = c[n]
           /\ (c \o <<a, b>>)[Len(c) + 1] = a
           /\ (c \o <<a, b>>)[Len(c) + 2] = b
  <1>1. c \in Seq(S \cup T) /\ <<a, b>> \in Seq(S \cup T)
    OBVIOUS
  <1> QED
    BY <1>1

\* A conversation stays answered when a turn and the answer to its one call are
\* added to it.
LEMMA EchoAnswered ==
    ASSUME NEW c \in Seq(Messages), NEW calls, NEW id, Answered(c)
    PROVE  Answered(c \o Echo(calls, id))
  <1> DEFINE turn  == [role |-> "assistant", calls |-> {id}]
             reply == [role |-> "tool", call |-> id]
             d == c \o <<turn, reply>>
             k == Len(c)
  <1>1. /\ k \in Nat /\ DOMAIN d = 1..k + 2 /\ DOMAIN c = 1..k
        /\ \A n \in 1..k : d[n] = c[n]
        /\ d[k + 1] = turn /\ d[k + 2] = reply
    <2>1. turn \in {turn, reply} /\ reply \in {turn, reply}
      OBVIOUS
    <2> HIDE DEF turn, reply
    <2> QED
      BY <2>1, TwoBehind
  <1> HIDE DEF d
  <1>2. ASSUME NEW n \in 1..k + 2, d[n].role = "assistant", NEW i \in d[n].calls
        PROVE  \E m \in 1..k + 2 : /\ m > n /\ d[m] = [role |-> "tool", call |-> i]
                                   /\ \A l \in n + 1..m : d[l].role = "tool"
    <2>1. CASE n \in 1..k
      <3>0. n \in DOMAIN c /\ c[n].role = "assistant" /\ i \in c[n].calls
        BY <1>1, <1>2, <2>1
      <3>1. PICK m \in 1..k : /\ m > n /\ c[m] = [role |-> "tool", call |-> i]
                              /\ \A l \in n + 1..m : c[l].role = "tool"
        BY <1>1, <3>0 DEF Answered
      <3>2. m \in 1..k + 2 /\ d[m] = c[m] /\ \A l \in n + 1..m : d[l] = c[l]
        BY <1>1, <2>1, <3>1
      <3> QED
        BY <3>1, <3>2
    <2>2. CASE n = k + 1
      <3>1. i = id /\ d[k + 2].role = "tool"
        BY <1>1, <1>2, <2>2
      <3> QED
        BY <1>1, <2>2, <3>1
    <2>3. CASE n = k + 2
      BY <1>1, <1>2, <2>3
    <2> QED
      BY <1>1, <2>1, <2>2, <2>3
  <1>3. Answered(d)
    BY <1>1, <1>2 DEF Answered
  <1> QED
    BY <1>3 DEF d, Echo

ConvInv == \A q \in Requests : Answered(conv[q])

LEMMA ConvStep == GenInv /\ ConvInv /\ [GenNext]_allVars => ConvInv'
  <1> SUFFICES ASSUME GenInv, ConvInv, [GenNext]_allVars PROVE ConvInv'
    OBVIOUS
  <1>0. conv \in [Requests -> Seq(Messages)]
    BY DEF GenInv, GenTypeOK
  <1>1. CASE UNCHANGED conv
    BY <1>1 DEF ConvInv
  <1>2. ASSUME NEW q \in Requests, conv' = [conv EXCEPT ![q] = <<>>] PROVE ConvInv'
    <2>1. Answered(<<>>)
      BY DEF Answered
    <2> QED
      BY <1>0, <1>2, <2>1 DEF ConvInv
  <1>3. ASSUME NEW q \in Requests, Repair(q) PROVE ConvInv'
    <2>1. PICK calls \in SUBSET CallIds : \E id \in calls :
             conv' = Set(conv, q, conv[q] \o Echo(calls, id))
      BY <1>3 DEF Repair
    <2>2. PICK id \in calls : conv' = Set(conv, q, conv[q] \o Echo(calls, id))
      BY <2>1
    <2>3. Answered(conv[q] \o Echo(calls, id))
      BY <1>0, EchoAnswered DEF ConvInv
    <2> QED
      BY <1>0, <2>2, <2>3 DEF ConvInv, Set
  <1>4. ASSUME NEW q \in Requests, ApiStep(q) PROVE UNCHANGED conv
    BY <1>4 DEF ApiStep, Admit, GiveUp, PassOn, SaveFails, Reply, genVars
  <1>5. ASSUME NEW q \in Requests, GeneratorStep(q)
        PROVE  \/ UNCHANGED conv \/ Repair(q) \/ conv' = [conv EXCEPT ![q] = <<>>]
    BY <1>5 DEF GeneratorStep, FromTemplate, Disabled, FirstCall, NextCall, CallModel, Exhausted,
                Fallback, Finish, Set, CallStep, ModelFails, ModelErrs, ModelEmits, StartBuild,
                BuildEnds, BuildFails
  <1>6. CASE Elapse \/ Reject \/ UNCHANGED allVars
    BY <1>1, <1>6 DEF Elapse, Reject, allVars, genVars
  <1> QED
    BY <1>1, <1>2, <1>3, <1>4, <1>5, <1>6 DEF GenNext

\* The model is never sent a conversation with a tool call left unanswered, for
\* any number of repairs and of calls it makes in a turn (Echo).
THEOREM ConversationAnsweredHolds == GenSpec => []ConversationAnswered
  <1>1. GenInit => ConvInv
    BY DEF GenInit, ConvInv, Answered
  <1>2. ConvInv => ConversationAnswered
    BY DEF ConvInv, ConversationAnswered
  <1> QED
    BY <1>1, <1>2, ConvStep, GenInductive, PTL DEF GenSpec

----------------------------------------------------------------------------
(* What is spent                                                           *)

\* The loop of q runs.
Active(q) == pc[q] \notin {"idle", "done"}

\* With a limit, request q is the q-th the bucket admitted, and its loop began
\* then; a loop that has not called the model is in its first round.
AdmittedInv ==
    /\ \A q \in Requests : pc[q] # "idle" <=> q <= Len(grants)
    /\ \A g \in 1..Len(grants) : grants[g] <= now
    /\ \A q \in Requests : Active(q) => begun[q] = grants[q]
RoundInv == \A q \in Requests : pc[q] \in {"idle", "start"} => round[q] = 0

\* Calls to the model are in the order of their times.
SpentInv ==
    /\ \A k \in 1..Len(spent) : spent[k] <= now
    /\ \A k, l \in 1..Len(spent) : k <= l => spent[k] <= spent[l]

\* Call k to the model was made by the loop of request req[k], in its round
\* rnd[k], within the time a loop lasts from the admission of that request.
Owned(req, rnd) ==
    /\ req \in [1..Len(spent) -> Requests] /\ rnd \in [1..Len(spent) -> 0..maxRepairs]
    /\ \A k, l \in 1..Len(spent) : req[k] = req[l] /\ rnd[k] = rnd[l] => k = l
    /\ \A k \in 1..Len(spent) :
          /\ req[k] <= Len(grants)
          /\ grants[req[k]] <= spent[k] /\ spent[k] < grants[req[k]] + LoopTimeout
          /\ Active(req[k]) => pc[req[k]] # "start" /\ rnd[k] <= round[req[k]]

SpendInv ==
    /\ RoundInv /\ SpentInv
    /\ Limited => AdmittedInv /\ \E req, rnd : Owned(req, rnd)

LEMMA SpendTypes ==
    ASSUME GenInv
    PROVE  /\ pc \in [Requests -> {"idle", "start", "call", "build", "problem", "done"}]
           /\ round \in [Requests -> 0..maxRepairs] /\ begun \in [Requests -> 0..MaxTime]
           /\ spent \in Seq(0..MaxTime) /\ grants \in Seq(0..MaxTime)
           /\ now \in Nat /\ Len(spent) \in Nat /\ Len(grants) \in Nat
           /\ \A k \in 1..Len(spent) : spent[k] \in Nat
           /\ \A g \in 1..Len(grants) : grants[g] \in Nat
  <1>1. MaxTime \in Nat
    BY Numbers
  <1> QED
    BY <1>1 DEF GenInv, GenTypeOK, TypeOK

LEMMA SpendInit == GenInit => SpendInv
  <1> SUFFICES ASSUME GenInit PROVE SpendInv
    OBVIOUS
  <1>1. RoundInv /\ SpentInv /\ AdmittedInv
    BY DEF GenInit, Init, RoundInv, SpentInv, AdmittedInv, Active, Requests
  <1>2. Len(spent) = 0
    BY DEF GenInit
  <1>3. Owned([k \in 1..0 |-> 1], [k \in 1..0 |-> 0])
    BY <1>2 DEF Owned
  <1> QED
    BY <1>1, <1>3 DEF SpendInv

\* A step that admits nobody and does not call the model.
LEMMA SpendKept ==
    ASSUME GenInv, SpendInv, UNCHANGED <<perMin, grants, spent>>, now' \in Nat, now <= now',
           \A q \in Requests :
              /\ pc'[q] = "idle" <=> pc[q] = "idle"
              /\ pc'[q] \in {"idle", "start"} => pc'[q] = pc[q] /\ round'[q] = round[q]
              /\ Active(q)' => /\ Active(q) /\ begun'[q] = begun[q] /\ round'[q] = round[q]
                               /\ pc[q] # "start" => pc'[q] # "start"
    PROVE  SpendInv'
  <1>1. RoundInv'
    BY DEF SpendInv, RoundInv
  <1>2. SpentInv'
    BY SpendTypes DEF SpendInv, SpentInv
  <1>3. ASSUME Limited' PROVE AdmittedInv' /\ \E req, rnd : Owned(req, rnd)'
    <2>1. AdmittedInv /\ \E req, rnd : Owned(req, rnd)
      BY <1>3 DEF SpendInv, Limited
    <2>2. AdmittedInv'
      BY <2>1, SpendTypes DEF AdmittedInv
    <2>3. PICK req, rnd : Owned(req, rnd)
      BY <2>1
    <2>4. Owned(req, rnd)'
      BY <2>3 DEF Owned
    <2> QED
      BY <2>2, <2>4
  <1> QED
    BY <1>1, <1>2, <1>3 DEF SpendInv

\* The next request gets the next place among the admitted.
LEMMA SpendAdmit ==
    ASSUME GenInv, SpendInv, NEW q \in Requests, Admit(q)
    PROVE  SpendInv'
  <1>1. /\ pc' = [pc EXCEPT ![q] = "start"] /\ begun' = [begun EXCEPT ![q] = now]
        /\ UNCHANGED <<round, spent, perMin, now>> /\ pc[q] = "idle"
        /\ \A p \in 1..(q - 1) : pc[p] # "idle"
    BY DEF Admit, Arrives, Set, Allow, AllowUnlimited, vars
  <1>2. RoundInv' /\ SpentInv'
    BY <1>1, SpendTypes DEF SpendInv, RoundInv, SpentInv
  <1>3. ASSUME Limited' PROVE AdmittedInv' /\ \E req, rnd : Owned(req, rnd)'
    <2>1. /\ AdmittedInv /\ \E req, rnd : Owned(req, rnd)
          /\ grants' = Append(grants, now)
      BY <1>1, <1>3 DEF SpendInv, Limited, Admit, Allow, AllowUnlimited
    <2> DEFINE n == Len(grants)
    <2>2. /\ n \in Nat /\ Len(grants') = n + 1 /\ grants'[n + 1] = now
          /\ \A g \in 1..n : grants'[g] = grants[g]
      BY <2>1, SpendTypes
    <2>3. q \in Nat \ {0} /\ \A p \in 1..(q - 1) : p \in Requests
      BY Numbers DEF Requests
    <2>4. q = n + 1
      <3>1. q > n
        BY <1>1, <2>1, <2>2, <2>3 DEF AdmittedInv
      <3>2. q - 1 >= 1 => q - 1 <= n
        BY <1>1, <2>1, <2>3 DEF AdmittedInv
      <3> QED
        BY <2>2, <2>3, <3>1, <3>2
    <2>5. AdmittedInv'
      <3>1. \A p \in Requests : pc'[p] # "idle" <=> p <= n + 1
        BY <1>1, <2>1, <2>2, <2>4, SpendTypes DEF AdmittedInv, Requests
      <3>2. \A g \in 1..n + 1 : grants'[g] <= now
        BY <2>1, <2>2, SpendTypes DEF AdmittedInv
      <3>3. ASSUME NEW p \in Requests, Active(p)' PROVE begun'[p] = grants'[p]
        <4>1. CASE p = q
          BY <1>1, <2>2, <2>4, <4>1, SpendTypes
        <4>2. CASE p # q
          <5>1. Active(p) /\ p <= n /\ p \in 1..n
            BY <1>1, <2>1, <2>2, <3>3, <4>2, SpendTypes, Numbers DEF Active, AdmittedInv, Requests
          <5> QED
            BY <1>1, <2>1, <2>2, <4>2, <5>1, SpendTypes DEF AdmittedInv
        <4> QED
          BY <4>1, <4>2
      <3> QED
        BY <1>1, <2>2, <3>1, <3>2, <3>3 DEF AdmittedInv
    <2>6. PICK req, rnd : Owned(req, rnd)
      BY <2>1
    <2>7. ASSUME NEW k \in 1..Len(spent)
          PROVE  /\ req[k] <= n + 1
                 /\ grants'[req[k]] <= spent[k] /\ spent[k] < grants'[req[k]] + LoopTimeout
                 /\ Active(req[k])' => pc'[req[k]] # "start" /\ rnd[k] <= round[req[k]]
      <3>1. req[k] \in Requests /\ req[k] <= n /\ req[k] \in 1..n
        BY <2>2, <2>6, Numbers DEF Owned, Requests
      <3>2. grants'[req[k]] = grants[req[k]] /\ pc'[req[k]] = pc[req[k]]
        BY <1>1, <2>2, <2>4, <3>1, SpendTypes
      <3> QED
        BY <2>2, <2>6, <3>1, <3>2 DEF Owned, Active
    <2>8. Owned(req, rnd)'
      BY <1>1, <2>2, <2>6, <2>7 DEF Owned
    <2> QED
      BY <2>5, <2>8
  <1> QED
    BY <1>2, <1>3 DEF SpendInv

\* A call to the model is the first of its loop's round.
LEMMA SpendCall ==
    ASSUME GenInv, SpendInv, NEW q \in Requests, FirstCall(q) \/ NextCall(q)
    PROVE  SpendInv'
  <1>1. /\ pc' = [pc EXCEPT ![q] = "call"] /\ spent' = Append(spent, now)
        /\ UNCHANGED <<begun, perMin, now, grants>>
        /\ now - begun[q] < LoopTimeout /\ pc[q] \in {"start", "problem"}
        /\ \/ pc[q] = "start" /\ round' = round
           \/ /\ pc[q] = "problem" /\ round[q] < maxRepairs
              /\ round' = [round EXCEPT ![q] = round[q] + 1]
    BY DEF FirstCall, NextCall, CallModel, Alive, MayRepair, Set, vars
  <1> DEFINE n == Len(spent)
  <1>2. /\ n \in Nat /\ Len(spent') = n + 1 /\ spent'[n + 1] = now
        /\ \A k \in 1..n : spent'[k] = spent[k]
    BY <1>1, SpendTypes
  <1>3. RoundInv'
    BY <1>1, SpendTypes DEF SpendInv, RoundInv
  <1>4. SpentInv'
    <2>1. ASSUME NEW k \in 1..n + 1 PROVE spent'[k] <= now
      <3>1. CASE k \in 1..n
        BY <1>2, <3>1 DEF SpendInv, SpentInv
      <3>2. CASE k = n + 1
        BY <1>2, <3>2, SpendTypes
      <3> QED
        BY <1>2, <3>1, <3>2
    <2>2. ASSUME NEW k \in 1..n + 1, NEW l \in 1..n + 1, k <= l PROVE spent'[k] <= spent'[l]
      <3>1. CASE l \in 1..n
        <4>1. k \in 1..n
          BY <1>2, <2>2, <3>1
        <4> QED
          BY <1>2, <2>2, <3>1, <4>1 DEF SpendInv, SpentInv
      <3>2. CASE l = n + 1
        BY <1>2, <2>1, <3>2
      <3> QED
        BY <1>2, <3>1, <3>2
    <2> QED
      BY <1>1, <1>2, <2>1, <2>2 DEF SpentInv
  <1>5. ASSUME Limited' PROVE AdmittedInv' /\ \E req, rnd : Owned(req, rnd)'
    <2>1. AdmittedInv /\ \E req, rnd : Owned(req, rnd)
      BY <1>1, <1>5 DEF SpendInv, Limited
    <2>2. AdmittedInv'
      BY <1>1, <2>1, SpendTypes DEF AdmittedInv, Active
    <2>3. PICK req, rnd : Owned(req, rnd)
      BY <2>1
    <2>4. /\ q <= Len(grants) /\ q \in 1..Len(grants) /\ begun[q] = grants[q]
      BY <1>1, <2>1, SpendTypes, Numbers DEF AdmittedInv, Active, Requests
    <2>5. grants[q] <= now /\ now < grants[q] + LoopTimeout
      BY <1>1, <2>1, <2>4, SpendTypes, Numbers DEF AdmittedInv
    <2>6. \A k \in 1..n : req[k] = q => rnd[k] < round'[q]
      <3> SUFFICES ASSUME NEW k \in 1..n, req[k] = q PROVE rnd[k] < round'[q]
        OBVIOUS
      <3>1. pc[q] = "problem" /\ rnd[k] <= round[q] /\ rnd[k] \in Int
        BY <1>1, <2>3, Numbers DEF Owned, Active
      <3> QED
        BY <1>1, <3>1, SpendTypes, Numbers
    <2>7. round'[q] \in 0..maxRepairs
      BY <1>1, SpendTypes, Numbers
    <2>next. PICK req1, rnd1 :
              /\ req1 = [k \in 1..n + 1 |-> IF k = n + 1 THEN q ELSE req[k]]
              /\ rnd1 = [k \in 1..n + 1 |-> IF k = n + 1 THEN round'[q] ELSE rnd[k]]
      OBVIOUS
    <2>8. req1 \in [1..n + 1 -> Requests] /\ rnd1 \in [1..n + 1 -> 0..maxRepairs]
      BY <1>2, <2>3, <2>7, <2>next DEF Owned
    <2>9. ASSUME NEW k \in 1..n + 1, NEW l \in 1..n + 1, req1[k] = req1[l], rnd1[k] = rnd1[l]
          PROVE  k = l
      <3>1. CASE k \in 1..n /\ l \in 1..n
        BY <1>2, <2>3, <2>next, <2>9, <3>1 DEF Owned
      <3>2. CASE k = n + 1 /\ l \in 1..n
        BY <1>2, <2>3, <2>6, <2>7, <2>next, <2>9, <3>2, Numbers DEF Owned
      <3>3. CASE k \in 1..n /\ l = n + 1
        BY <1>2, <2>3, <2>6, <2>7, <2>next, <2>9, <3>3, Numbers DEF Owned
      <3> QED
        BY <1>2, <3>1, <3>2, <3>3
    <2>10. ASSUME NEW k \in 1..n + 1
           PROVE  /\ req1[k] <= Len(grants)
                  /\ grants[req1[k]] <= spent'[k] /\ spent'[k] < grants[req1[k]] + LoopTimeout
                  /\ Active(req1[k])' => pc'[req1[k]] # "start" /\ rnd1[k] <= round'[req1[k]]
      <3>1. CASE k = n + 1
        <4>1. req1[k] = q /\ rnd1[k] = round'[q] /\ spent'[k] = now
          BY <1>2, <2>next, <3>1
        <4>2. pc'[q] = "call"
          BY <1>1, SpendTypes
        <4> QED
          BY <2>4, <2>5, <2>7, <4>1, <4>2, Numbers DEF Active
      <3>2. CASE k \in 1..n
        <4>1. /\ req1[k] = req[k] /\ rnd1[k] = rnd[k] /\ spent'[k] = spent[k]
              /\ req[k] \in Requests /\ rnd[k] \in 0..maxRepairs
          BY <1>2, <2>3, <2>next, <3>2 DEF Owned
        <4>before. /\ req[k] <= Len(grants)
                   /\ grants[req[k]] <= spent[k] /\ spent[k] < grants[req[k]] + LoopTimeout
                   /\ Active(req[k]) => pc[req[k]] # "start" /\ rnd[k] <= round[req[k]]
          BY <2>3, <3>2 DEF Owned
        <4>2. CASE req[k] = q
          <5>1. rnd[k] <= round'[q]
            BY <2>6, <2>7, <3>2, <4>1, <4>2, Numbers
          <5>2. pc'[q] = "call"
            BY <1>1, SpendTypes
          <5> QED
            BY <4>1, <4>2, <4>before, <5>1, <5>2
        <4>3. CASE req[k] # q
          <5>1. pc'[req[k]] = pc[req[k]] /\ round'[req[k]] = round[req[k]]
            BY <1>1, <4>1, <4>3, SpendTypes
          <5>2. Active(req[k])' => Active(req[k])
            BY <5>1 DEF Active
          <5> QED
            BY <4>1, <4>before, <5>1, <5>2
        <4> QED
          BY <4>2, <4>3
      <3> QED
        BY <1>2, <3>1, <3>2
    <2>11. Owned(req1, rnd1)'
      <3>1. Len(spent') = n + 1 /\ grants' = grants
        BY <1>1, <1>2
      <3> QED
        BY <2>8, <2>9, <2>10, <3>1 DEF Owned
    <2> QED
      BY <2>2, <2>11
  <1> QED
    BY <1>3, <1>4, <1>5 DEF SpendInv

\* Every step is one that admits, one that calls, or neither.
LEMMA SpendStep == GenInv /\ GenInv' /\ SpendInv /\ [GenNext]_allVars => SpendInv'
  <1> SUFFICES ASSUME GenInv, GenInv', SpendInv, [GenNext]_allVars PROVE SpendInv'
    OBVIOUS
  <1>0. now' \in Nat
    BY Numbers DEF GenInv, GenTypeOK, TypeOK
  <1>1. ASSUME NEW q \in Requests, Admit(q) PROVE SpendInv'
    BY <1>1, SpendAdmit
  <1>2. ASSUME NEW q \in Requests, FirstCall(q) \/ NextCall(q) PROVE SpendInv'
    BY <1>2, SpendCall
  <1>3. CASE /\ now <= now'
             /\ UNCHANGED <<perMin, grants, spent, pc, round, begun>>
    BY <1>0, <1>3, SpendKept DEF Active
  <1>4. ASSUME NEW q \in Requests, pc[q] # "idle",
               pc' = [pc EXCEPT ![q] = "done"], round' = [round EXCEPT ![q] = 0],
               begun' = [begun EXCEPT ![q] = 0], UNCHANGED <<perMin, grants, spent, now>>
        PROVE  SpendInv'
    BY <1>0, <1>4, SpendKept, SpendTypes DEF Active
  <1>5. ASSUME NEW q \in Requests, pc[q] \in {"call", "build"}, NEW to \in {"problem", "build"},
               pc' = [pc EXCEPT ![q] = to], UNCHANGED <<perMin, grants, spent, now, round, begun>>
        PROVE  SpendInv'
    BY <1>0, <1>5, SpendKept, SpendTypes DEF Active
  <1>6. ASSUME NEW q \in Requests, GiveUp(q) \/ PassOn(q) \/ SaveFails(q) PROVE SpendInv'
    BY <1>3, <1>6, SpendTypes DEF GiveUp, PassOn, SaveFails, Reply, vars, genVars
  <1>7. ASSUME NEW q \in Requests,
               FromTemplate(q) \/ Disabled(q) \/ Exhausted(q) \/ ModelFails(q) \/ ModelEmits(q) \/ BuildEnds(q)
        PROVE  SpendInv'
    <2>1. pc[q] # "idle"
      BY <1>7 DEF FromTemplate, Disabled, Exhausted, ModelFails, ModelEmits, BuildEnds, Emitted
    <2>2. \E outcome : Finish(q, outcome)
      BY <1>7 DEF FromTemplate, Disabled, Exhausted, ModelFails, ModelEmits, BuildEnds, Fallback
    <2> QED
      BY <1>4, <2>1, <2>2 DEF Finish, Set, vars
  <1>8. ASSUME NEW q \in Requests, ModelErrs(q) \/ BuildFails(q) \/ StartBuild(q) PROVE SpendInv'
    BY <1>5, <1>8 DEF ModelErrs, BuildFails, StartBuild, Emitted, Repair, Set, vars
  <1>9. CASE Elapse
    BY <1>3, <1>9, SpendTypes DEF Elapse, Tick, genVars
  <1>10. CASE Reject \/ UNCHANGED allVars
    BY <1>3, <1>10, SpendTypes DEF Reject, Refuse, allVars, vars, genVars
  <1> QED
    BY <1>1, <1>2, <1>6, <1>7, <1>8, <1>9, <1>10 DEF GenNext, ApiStep, GeneratorStep, CallStep

LEMMA SpendInductive == GenSpec => []SpendInv
  BY SpendInit, SpendStep, GenInductive, PTL DEF GenSpec

\* The calls between two of them are as many as different rounds of the loops
\* that can have made them.
LEMMA SpendCounted ==
    ASSUME GenInv, SpendInv, Limited, NEW k \in DOMAIN spent, NEW l \in k..Len(spent)
    PROVE  l - k + 1 <= (maxRepairs + 1)
              * Cardinality({g \in DOMAIN grants : grants[g] \in spent[k] - LoopTimeout..spent[l]})
  <1> DEFINE G == {g \in DOMAIN grants : grants[g] \in spent[k] - LoopTimeout..spent[l]}
             R == 0..maxRepairs
  <1>1. PICK req, rnd : Owned(req, rnd)
    BY DEF SpendInv
  <1>2. k \in 1..Len(spent) /\ k \in Nat /\ l \in Nat /\ k <= l /\ k..l \subseteq 1..Len(spent)
    BY SpendTypes
  <1>3. ASSUME NEW j \in k..l PROVE req[j] \in G /\ rnd[j] \in R
    <2>0. j \in 1..Len(spent) /\ k <= j /\ j <= l /\ l \in 1..Len(spent)
      BY <1>2, SpendTypes
    <2>owner. req[j] \in 1..MaxRequests /\ rnd[j] \in 0..maxRepairs /\ req[j] <= Len(grants)
      BY <1>1, <2>0 DEF Owned, Requests
    <2>1. /\ j \in 1..Len(spent) /\ k <= j /\ j <= l /\ l \in 1..Len(spent)
          /\ req[j] \in 1..Len(grants) /\ rnd[j] \in R
      BY <2>0, <2>owner, SpendTypes, Numbers
    <2>2. /\ grants[req[j]] <= spent[j] /\ spent[j] < grants[req[j]] + LoopTimeout
          /\ spent[k] <= spent[j] /\ spent[j] <= spent[l]
          /\ grants[req[j]] \in Nat /\ spent[j] \in Nat /\ spent[k] \in Nat /\ spent[l] \in Nat
      BY <1>1, <1>2, <2>1, SpendTypes DEF Owned, SpendInv, SpentInv
    <2>3. grants[req[j]] \in spent[k] - LoopTimeout..spent[l]
      BY <2>2, Numbers
    <2> QED
      BY <2>1, <2>3, SpendTypes
  <1>4. IsFiniteSet(G) /\ Cardinality(G) \in Nat
    <2>1. 1 \in Int /\ Len(grants) \in Int
      BY SpendTypes
    <2>2. IsFiniteSet(1..Len(grants))
      BY <2>1, FS_Interval
    <2>3. G \in SUBSET (1..Len(grants))
      BY SpendTypes
    <2> QED
      BY <2>2, <2>3, FS_Subset, FS_CardinalityType
  <1>5. IsFiniteSet(R) /\ Cardinality(R) = maxRepairs + 1
    BY FS_Interval, Numbers
  <1> HIDE DEF G, R
  <1>6. IsFiniteSet(G \X R) /\ Cardinality(G \X R) = Cardinality(G) * (maxRepairs + 1)
    BY <1>4, <1>5, FS_Product
  <1>7. IsFiniteSet(k..l) /\ Cardinality(k..l) = l - k + 1
    <2>1. k \in Int /\ l \in Int /\ ~(k > l)
      BY <1>2
    <2> QED
      BY <2>1, FS_Interval
  <1> DEFINE f == [j \in k..l |-> <<req[j], rnd[j]>>]
  <1>8. f \in [k..l -> G \X R]
    BY <1>3
  <1>9. ASSUME NEW x \in k..l, NEW y \in k..l, f[x] = f[y] PROVE x = y
    <2>1. req[x] = req[y] /\ rnd[x] = rnd[y]
      BY <1>9
    <2> QED
      BY <1>1, <1>2, <2>1 DEF Owned
  <1> HIDE DEF f
  <1>10. ~(Cardinality(G \X R) < Cardinality(k..l))
    BY <1>6, <1>7, <1>8, <1>9, FS_PigeonHole
  <1>11. Cardinality(G) * (maxRepairs + 1) = (maxRepairs + 1) * Cardinality(G)
    BY <1>4, Numbers
  <1>12. Cardinality(G) * (maxRepairs + 1) \in Nat
    BY <1>4, Numbers
  <1>13. l - k + 1 <= (maxRepairs + 1) * Cardinality(G)
    BY <1>2, <1>6, <1>7, <1>10, <1>11, <1>12
  <1> QED
    BY <1>13 DEF G

\* Limiter and loops together bound the calls to the model in any stretch of
\* time, for any number of requests, every limit and every timeout
\* (CallModel, Admit).
THEOREM SpendBoundedHolds == GenSpec => []SpendBounded
  <1>1. GenInv /\ SpendInv => SpendBounded
    BY SpendCounted DEF SpendBounded
  <1> QED
    BY <1>1, GenInductive, SpendInductive, PTL
====
