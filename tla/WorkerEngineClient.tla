------------------------- MODULE WorkerEngineClient -------------------------
(***************************************************************************)
(* The worker's client of the analysis engine.  It has a breaker of its    *)
(* own, a count of failures and a time until which it is open; there is no *)
(* half-open state.                                                        *)
(***************************************************************************)
EXTENDS Naturals

CONSTANTS
    Calls,             \* requests that job handlers may have open at once
    Retries,           \* the values of options.retries
    FailureThreshold,
    Cooldown           \* ticks of the clock that the breaker stays open

VARIABLES
    up,        \* whether the engine works
    failures,  \* consecutiveFailures
    wait,      \* time left until openUntil
    call       \* what each request holds

vars == <<up, failures, wait, call>>

(* sound: the attempt in progress was sent to an engine that worked.       *)
Call == [pc : {"idle", "sent", "body", "backoff"}, left : Nat, sound : BOOLEAN]

NoCall == [pc |-> "idle", left |-> 0, sound |-> FALSE]

Init ==
    /\ up = TRUE
    /\ failures = 0
    /\ wait = 0
    /\ call = [c \in Calls |-> NoCall]

Send(left) == [pc |-> "sent", left |-> left, sound |-> up]

(* Mutant: each request counts for itself.                                 *)
StartAnew(c) ==
    /\ call[c].pc = "idle"
    /\ wait = 0
    /\ failures' = 0
    /\ \E n \in Retries : call' = [call EXCEPT ![c] = Send(n)]
    /\ UNCHANGED <<up, wait>>

Start(c) ==
    /\ call[c].pc = "idle"
    /\ wait = 0
    /\ \E n \in Retries : call' = [call EXCEPT ![c] = Send(n)]
    /\ UNCHANGED <<up, failures, wait>>

(* An answer that is `ok` clears the count before its body is read.        *)
Respond(c) ==
    /\ call[c].pc = "sent"
    /\ up \/ call[c].sound
    /\ failures' = 0
    /\ call' = [call EXCEPT ![c].pc = "body"]
    /\ UNCHANGED <<up, wait>>

ReadBody(c) ==
    /\ call[c].pc = "body"
    /\ call' = [call EXCEPT ![c] = NoCall]
    /\ UNCHANGED <<up, failures, wait>>

(* Mutant: the threshold is passed by one.                                 *)
CountFailureLate(count) ==
    IF count + 1 > FailureThreshold
    THEN /\ failures' = 0
         /\ wait' = Cooldown
    ELSE /\ failures' = count + 1
         /\ UNCHANGED wait

(* The catch clause, which every attempt that ends in an error reaches     *)
(* with `count` failures before it.                                        *)
CountFailure(count) ==
    IF count + 1 >= FailureThreshold
    THEN /\ failures' = 0
         /\ wait' = Cooldown
    ELSE /\ failures' = count + 1
         /\ UNCHANGED wait

TryAgain(c) ==
    call' = [call EXCEPT ![c] =
               IF call[c].left > 0
               THEN [pc |-> "backoff", left |-> call[c].left - 1, sound |-> FALSE]
               ELSE NoCall]

Fail(c) ==
    /\ call[c].pc \in {"sent", "body"}
    /\ ~ up \/ ~ call[c].sound
    /\ CountFailure(failures)
    /\ TryAgain(c)
    /\ UNCHANGED up

(* A 4xx clears the count and throws into the same catch clause.           *)
Reject(c) ==
    /\ call[c].pc = "sent"
    /\ up \/ call[c].sound
    /\ CountFailure(0)
    /\ TryAgain(c)
    /\ UNCHANGED up

(* The breaker is not asked again.                                         *)
Retry(c) ==
    /\ call[c].pc = "backoff"
    /\ call' = [call EXCEPT ![c] = Send(call[c].left)]
    /\ UNCHANGED <<up, failures, wait>>

Tick ==
    /\ wait > 0
    /\ wait' = wait - 1
    /\ UNCHANGED <<up, failures, call>>

Attempt(c) == Respond(c) \/ ReadBody(c) \/ Fail(c) \/ Reject(c) \/ Retry(c)

Next ==
    \/ \E c \in Calls : Start(c) \/ Attempt(c)
    \/ Tick

-----------------------------------------------------------------------------
(* Properties *)

(* The types of the variables.                                             *)
TypeOK ==
    /\ up \in BOOLEAN
    /\ failures \in 0..(FailureThreshold - 1)
    /\ wait \in 0..Cooldown
    /\ call \in [Calls -> Call]
=============================================================================
