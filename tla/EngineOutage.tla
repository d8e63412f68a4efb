---------------------------- MODULE EngineOutage ----------------------------
(***************************************************************************)
(* The engine goes down and comes back; the API and the worker each watch  *)
(* it through their own breaker.  The specification has names of its own,  *)
(* so that a module may extend this one beside another system's.           *)
(***************************************************************************)
EXTENDS Naturals

CONSTANTS
    ApiCalls, ApiRetries, ApiFailureThreshold, ApiSuccessThreshold, ApiCooldown,
    WorkerCalls, WorkerRetries, WorkerFailureThreshold, WorkerCooldown

ASSUME RetriesAssumption == ApiRetries \subseteq Nat /\ WorkerRetries \subseteq Nat
ASSUME ThresholdAssumption ==
    /\ ApiFailureThreshold \in Nat \ {0}
    /\ ApiSuccessThreshold \in Nat \ {0}
    /\ WorkerFailureThreshold \in Nat \ {0}
ASSUME CooldownAssumption == ApiCooldown \in Nat \ {0} /\ WorkerCooldown \in Nat \ {0}

VARIABLES
    up,                  \* whether the engine works
    breaker, apiCall,    \* the API's client
    failures, wait, job  \* the worker's client

api == <<breaker, apiCall>>
worker == <<failures, wait, job>>
outageVars == <<up, api, worker>>

Api == INSTANCE EngineClient WITH
    Calls <- ApiCalls, Retries <- ApiRetries, FailureThreshold <- ApiFailureThreshold,
    SuccessThreshold <- ApiSuccessThreshold, Cooldown <- ApiCooldown, call <- apiCall

Worker == INSTANCE WorkerEngineClient WITH
    Calls <- WorkerCalls, Retries <- WorkerRetries,
    FailureThreshold <- WorkerFailureThreshold, Cooldown <- WorkerCooldown, call <- job

OutageInit == Api!Init /\ Worker!Init

(* The engine process dies, hangs or restarts.                             *)
Turn ==
    /\ up' = ~ up
    /\ UNCHANGED <<api, worker>>

ApiStart == \E c \in ApiCalls : Api!Start(c) /\ UNCHANGED worker
ApiAttempt(c) == Api!Attempt(c) /\ UNCHANGED worker
ApiSnapshot == Api!Snapshot /\ UNCHANGED worker
ApiTick == Api!Tick /\ UNCHANGED worker

WorkerStart == \E c \in WorkerCalls : Worker!Start(c) /\ UNCHANGED api
WorkerAttempt(c) == Worker!Attempt(c) /\ UNCHANGED api
WorkerTick == Worker!Tick /\ UNCHANGED api

OutageNext ==
    \/ Turn
    \/ ApiStart \/ ApiSnapshot \/ ApiTick
    \/ \E c \in ApiCalls : ApiAttempt(c)
    \/ WorkerStart \/ WorkerTick
    \/ \E c \in WorkerCalls : WorkerAttempt(c)

OutageSpec == OutageInit /\ [][OutageNext]_outageVars

(* Time passes, each fetch ends (its abort timer), each back-off ends, and *)
(* there are always more requests and jobs.                                *)
OutageFairness ==
    /\ WF_outageVars(ApiTick) /\ WF_outageVars(WorkerTick)
    /\ WF_outageVars(ApiStart) /\ WF_outageVars(WorkerStart)
    /\ \A c \in ApiCalls : WF_outageVars(ApiAttempt(c))
    /\ \A c \in WorkerCalls : WF_outageVars(WorkerAttempt(c))

FairOutageSpec == OutageSpec /\ OutageFairness

-----------------------------------------------------------------------------
(* Properties *)

(* The types of both clients' variables.                                   *)
ClientTypesOK == Api!TypeOK /\ Worker!TypeOK

(* The API's breaker forgets an outage that ended.                         *)
ClosedIsClean == Api!ClosedIsClean

(* Once the engine works and goes on working, both processes end up        *)
(* calling it freely, whatever requests from the outage still report.      *)
Recovers == <>[]up => <>[](breaker.state = "closed" /\ wait = 0)

(* While the engine stays down, the API's breaker is not closed for long   *)
(* and the worker's opens again and again: "an engine that is down" does   *)
(* not take every queued job through its timeouts (circuit-breaker.ts).    *)
ShieldsFromOutage == <>[](~ up) => <>[](breaker.state # "closed") /\ []<>(wait > 0)
=============================================================================
