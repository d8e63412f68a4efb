---------------------------- MODULE EngineClient ----------------------------
(***************************************************************************)
(* The API's client of the analysis engine: the retry loop of a request    *)
(* and the circuit breaker that all requests of the process share.  Only   *)
(* the start of a request asks the breaker; its attempts report to the     *)
(* breaker in whatever state they find it when they end.                   *)
(***************************************************************************)
EXTENDS Naturals

CONSTANTS
    Calls,             \* requests the process may have open at once
    Retries,           \* the values of options.retries
    FailureThreshold,
    SuccessThreshold,
    Cooldown           \* ticks of the clock that cooldownMs lasts

VARIABLES
    up,       \* whether the engine works
    breaker,  \* the fields of CircuitBreaker; age is the time since openedAt
    call      \* what each request holds

vars == <<up, breaker, call>>

(* Failures are counted up to the threshold: only `>=` looks at them.      *)
Breaker == [state : {"closed", "open", "half_open"}, failures : 0..FailureThreshold,
            successes : 0..SuccessThreshold, age : 0..Cooldown]

(* sound: the attempt in progress was sent to an engine that worked.       *)
Call == [pc : {"idle", "sent", "body", "backoff"}, left : Nat, sound : BOOLEAN]

NoCall == [pc |-> "idle", left |-> 0, sound |-> FALSE]

Init ==
    /\ up = TRUE
    /\ breaker = [state |-> "closed", failures |-> 0, successes |-> 0, age |-> Cooldown]
    /\ call = [c \in Calls |-> NoCall]

-----------------------------------------------------------------------------
(* CircuitBreaker *)

(* Mutant: the cooldown is looked at in any state.                         *)
CurrentOfAny(b) ==
    IF b.age = Cooldown THEN [b EXCEPT !.state = "half_open", !.successes = 0] ELSE b

(* `current`: whoever reads an open breaker after the cooldown half-opens it. *)
Current(b) ==
    IF b.state = "open" /\ b.age = Cooldown
    THEN [b EXCEPT !.state = "half_open", !.successes = 0]
    ELSE b

CanAttempt(b) == Current(b).state # "open"

Trip(b) == [b EXCEPT !.state = "open", !.age = 0, !.successes = 0]

(* Mutant: the failures of the outage are kept.                            *)
CountSuccessOnly(b) ==
    IF b.successes + 1 >= SuccessThreshold
    THEN [b EXCEPT !.state = "closed", !.successes = 0]
    ELSE [b EXCEPT !.successes = @ + 1]

CountSuccess(b) ==
    IF b.successes + 1 >= SuccessThreshold
    THEN [b EXCEPT !.state = "closed", !.failures = 0, !.successes = 0]
    ELSE [b EXCEPT !.successes = @ + 1]

RecordSuccess(b) ==
    LET now == Current(b)
    IN IF now.state = "half_open" THEN CountSuccess(now) ELSE [now EXCEPT !.failures = 0]

CountFailure(b) ==
    IF b.failures + 1 >= FailureThreshold
    THEN Trip([b EXCEPT !.failures = FailureThreshold])
    ELSE [b EXCEPT !.failures = @ + 1]

RecordFailure(b) ==
    LET now == Current(b)
    IN IF now.state = "half_open" THEN Trip(now) ELSE CountFailure(now)

-----------------------------------------------------------------------------
(* EngineClient.request *)

Send(left) == [pc |-> "sent", left |-> left, sound |-> up]

Start(c) ==
    /\ call[c].pc = "idle"
    /\ CanAttempt(breaker)
    /\ breaker' = Current(breaker)
    /\ \E n \in Retries : call' = [call EXCEPT ![c] = Send(n)]
    /\ UNCHANGED up

(* An answer below 500 is a success before its body is read; a request the *)
(* engine rejects counts as one as well.                                   *)
Respond(c) ==
    /\ call[c].pc = "sent"
    /\ up \/ call[c].sound
    /\ breaker' = RecordSuccess(breaker)
    /\ call' = [call EXCEPT ![c].pc = "body"]
    /\ UNCHANGED up

ReadBody(c) ==
    /\ call[c].pc = "body"
    /\ call' = [call EXCEPT ![c] = NoCall]
    /\ UNCHANGED <<up, breaker>>

(* The engine answers with an error, not at all, or with a body that does  *)
(* not arrive; the request ends with its last attempt.                     *)
Fail(c) ==
    /\ call[c].pc \in {"sent", "body"}
    /\ ~ up \/ ~ call[c].sound
    /\ breaker' = RecordFailure(breaker)
    /\ call' = [call EXCEPT ![c] =
                  IF call[c].left > 0
                  THEN [pc |-> "backoff", left |-> call[c].left - 1, sound |-> FALSE]
                  ELSE NoCall]
    /\ UNCHANGED up

(* The breaker is not asked again.                                         *)
Retry(c) ==
    /\ call[c].pc = "backoff"
    /\ call' = [call EXCEPT ![c] = Send(call[c].left)]
    /\ UNCHANGED <<up, breaker>>

(* breakerState, read by the health controller.                            *)
Snapshot ==
    /\ breaker' = Current(breaker)
    /\ UNCHANGED <<up, call>>

Tick ==
    /\ breaker.state = "open"
    /\ breaker.age < Cooldown
    /\ breaker' = [breaker EXCEPT !.age = @ + 1]
    /\ UNCHANGED <<up, call>>

Attempt(c) == Respond(c) \/ ReadBody(c) \/ Fail(c) \/ Retry(c)

Next ==
    \/ \E c \in Calls : Start(c) \/ Attempt(c)
    \/ Snapshot
    \/ Tick

-----------------------------------------------------------------------------
(* Properties *)

(* The types of the variables.                                             *)
TypeOK ==
    /\ up \in BOOLEAN
    /\ breaker \in Breaker
    /\ call \in [Calls -> Call]

(* A closed breaker is always short of its threshold: an outage that ended *)
(* leaves no failures behind that would trip it at the next one.           *)
(* (CircuitBreaker.recordSuccess, recordFailure: failures survive a trip   *)
(* and the half-open state.)                                               *)
ClosedIsClean == breaker.state = "closed" => breaker.failures < FailureThreshold
=============================================================================
