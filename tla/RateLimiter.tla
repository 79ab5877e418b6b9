---- MODULE RateLimiter ----
(***************************************************************************)
(* The token bucket in front of the generate endpoints (rateLimiter,       *)
(* internal/api/server.go:521-553).  allow runs under a mutex and reads    *)
(* the clock inside, so a call is one step.                                *)
(*                                                                         *)
(* A minute has Minute ticks, and a token is Minute units: a tick then     *)
(* refills PerMin units and everything stays an integer.  The code's       *)
(* floating point numbers are taken as exact.                              *)
(***************************************************************************)
EXTENDS Integers, Sequences

CONSTANTS
    Limits,   \* values GENERATE_RPM may have; 0 or less is unlimited
    Minute,   \* ticks of a minute
    MaxTime   \* bound: the clock

ASSUME LimitAssumption ==
    /\ Limits \subseteq Int
    /\ Minute \in Nat \ {0}
    /\ MaxTime \in Nat

VARIABLES
    perMin, \* the limit
    tokens, \* units in the bucket
    last,   \* when the bucket was refilled
    now,    \* the clock
    grants  \* when each call was admitted that took a token

vars == <<perMin, tokens, last, now, grants>>

Limited == perMin > 0
Full    == perMin * Minute

Init ==
    /\ perMin \in Limits
    /\ tokens = Full
    /\ last = 0
    /\ now = 0
    /\ grants = <<>>

\* Mutation: the bucket has no top.
RefilledUncapped == tokens + perMin * (now - last)

\* Mutation: each call rounds the bucket down to whole tokens.
RefilledWhole ==
    LET t == tokens + perMin * (now - last)
    IN  IF t > Full THEN Full ELSE t - (t % Minute)

\* What the bucket holds when a call looks at it.
Refilled ==
    LET t == tokens + perMin * (now - last)
    IN  IF t > Full THEN Full ELSE t

\* No limit: the bucket is not touched.
AllowUnlimited ==
    /\ ~Limited
    /\ UNCHANGED vars

Allow ==
    /\ Limited
    /\ Refilled >= Minute
    /\ tokens' = Refilled - Minute
    /\ last' = now
    /\ grants' = Append(grants, now)
    /\ UNCHANGED <<perMin, now>>

\* 429.  A refused call refills the bucket, too.
Refuse ==
    /\ Limited
    /\ Refilled < Minute
    /\ tokens' = Refilled
    /\ last' = now
    /\ UNCHANGED <<perMin, now, grants>>

Tick ==
    /\ now < MaxTime
    /\ now' = now + 1
    /\ UNCHANGED <<perMin, tokens, last, grants>>

Next == AllowUnlimited \/ Allow \/ Refuse \/ Tick

Spec == Init /\ [][Next]_vars

----------------------------------------------------------------------------
(* Properties                                                              *)

\* Every variable has its type.
TypeOK ==
    /\ perMin \in Limits
    /\ tokens \in Int /\ (Limited => tokens \in 0..Full)
    /\ last \in 0..MaxTime
    /\ now \in 0..MaxTime /\ last <= now
    /\ grants \in Seq(0..MaxTime)

\* However calls are timed, the calls admitted in any stretch of time are at most
\* a full bucket and what flows in meanwhile ("it enforces a steady rate without
\* the fixed-window boundary burst", server.go:521-522).
RateBounded ==
    Limited =>
        \A k \in 1..Len(grants) : \A l \in k..Len(grants) :
            (l - k + 1) * Minute <= Full + perMin * (grants[l] - grants[k])

\* A call is refused only if the last admission is less than the time one token
\* takes to flow in ago: neither refusals nor fractions of a token push the next
\* admission away, however often the endpoint is polled meanwhile.
RefusalsAreBrief ==
    [][Refuse => /\ grants # <<>>
                 /\ perMin * (now - grants[Len(grants)]) < Minute]_vars
====
