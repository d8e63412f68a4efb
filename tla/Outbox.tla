------------------------------- MODULE Outbox -------------------------------
(***************************************************************************)
(* The transactional outbox and its relay.                                 *)
(*                                                                         *)
(* Producers in the API and in the worker write rows of outbox_events in   *)
(* the transaction of the change they announce.  The relay (the handler of *)
(* the queue `platform.dispatch-outbox`) claims due rows and POSTs each to *)
(* every webhook endpoint that subscribes to it, backs off after a failure *)
(* and gives up after WEBHOOK_MAX_ATTEMPTS.  The relay runs from a cron    *)
(* entry, from the reconciler and from API nudges, so several executions   *)
(* of the handler overlap: Relays is the set of executions that may be in  *)
(* progress at one time.  Each database transaction of the handler and     *)
(* each HTTP call is one action.                                           *)
(***************************************************************************)
EXTENDS Integers, FiniteSets

CONSTANTS
    Events,       \* idempotency keys of the events that producers may record
    Endpoints,    \* webhook endpoints, all registered before the events
    Subscribed,   \* for each event, the endpoints whose filter matches it
    Relays,       \* concurrent executions of the relay handler
    MaxAttempts,  \* WEBHOOK_MAX_ATTEMPTS
    BatchSize,    \* rows claimed by one execution
    MaxCrashes,   \* bound of the model: relay executions killed midway
    NoEvent, NoEndpoint

ASSUME EventsAssumption == IsFiniteSet(Events)
ASSUME RelaysAssumption == IsFiniteSet(Relays)
ASSUME SubscribedAssumption == Subscribed \in [Events -> SUBSET Endpoints]
ASSUME LimitsAssumption == /\ MaxAttempts \in Nat \ {0}
                           /\ BatchSize \in Nat \ {0}
                           /\ MaxCrashes \in Nat
ASSUME NoneAssumption == NoEvent \notin Events /\ NoEndpoint \notin Endpoints

VARIABLES
    row,         \* outbox_events, by idempotency key
    live,        \* webhook_endpoints that have not been deleted
    deliveries,  \* webhook_deliveries
    relay,       \* what each relay execution holds in memory
    posted,      \* history: the <<event, endpoint, attempt>> that were POSTed
    lost,        \* history: claims of an event that no relay settled
    crashes      \* executions killed so far

vars == <<row, live, deliveries, relay, posted, lost, crashes>>

Statuses == {"absent", "pending", "dispatched", "dead"}
Row == [status : Statuses, attempts : Nat, due : BOOLEAN, createdAt : Nat]
Delivery == [event : Events, endpoint : Endpoints, attempt : Nat, ok : BOOLEAN]
Steps == {"idle", "claiming", "fetch", "post", "log", "settle"}

(***************************************************************************)
(* A relay execution: its place in the handler; the attempt number of each *)
(* row it has claimed and not yet settled (0 for the others); the event    *)
(* being delivered, the endpoints still to be told, the one just asked     *)
(* with its answer, and `allSucceeded`.                                    *)
(***************************************************************************)
Relay == [pc : Steps, claim : [Events -> Nat], event : Events \cup {NoEvent},
          todo : SUBSET Endpoints, asked : Endpoints \cup {NoEndpoint},
          ok : BOOLEAN, allOk : BOOLEAN]

Idle == [pc |-> "idle", claim |-> [e \in Events |-> 0], event |-> NoEvent,
         todo |-> {}, asked |-> NoEndpoint, ok |-> TRUE, allOk |-> TRUE]

Holds(r, e) == relay[r].claim[e] > 0
Attempt(r) == relay[r].claim[relay[r].event]

Init ==
    /\ row = [e \in Events |-> [status |-> "absent", attempts |-> 0,
                                due |-> FALSE, createdAt |-> 0]]
    /\ live = Endpoints
    /\ deliveries = {}
    /\ relay = [r \in Relays |-> Idle]
    /\ posted = {}
    /\ lost = [e \in Events |-> 0]
    /\ crashes = 0

-----------------------------------------------------------------------------
Recorded == {e \in Events : row[e].status # "absent"}

(* Mutant: the insert replaces a row whose key is already there.           *)
EmitReplacing(e) ==
    /\ row' = [row EXCEPT ![e] = [status |-> "pending", attempts |-> 0, due |-> TRUE,
                                  createdAt |-> Cardinality(Recorded)]]
    /\ UNCHANGED <<live, deliveries, relay, posted, lost, crashes>>

(* emitIn / emitEvent: an insert that does nothing when the key exists.    *)
Emit(e) ==
    /\ e \notin Recorded
    /\ row' = [row EXCEPT ![e] = [status |-> "pending", attempts |-> 0, due |-> TRUE,
                                  createdAt |-> Cardinality(Recorded)]]
    /\ UNCHANGED <<live, deliveries, relay, posted, lost, crashes>>

(* A row locked by a claim whose transaction is still open.                *)
Locked(e) == \E r \in Relays : relay[r].pc = "claiming" /\ Holds(r, e)

(* Mutant: a claim also leaves rows that have used up their attempts.      *)
ClaimableBelowLimit ==
    {e \in Events : /\ row[e].status = "pending"
                    /\ row[e].due
                    /\ row[e].attempts < MaxAttempts
                    /\ ~ Locked(e)}

(* The rows a claim may take: pending, due, and skipped when locked.       *)
Claimable == {e \in Events : row[e].status = "pending" /\ row[e].due /\ ~ Locked(e)}

(* The claim locks the oldest rows.  An execution that finds none returns. *)
LockRows(r) ==
    /\ relay[r].pc = "idle"
    /\ \E batch \in SUBSET Claimable :
         /\ batch # {}
         /\ \/ Cardinality(batch) = BatchSize
            \/ Cardinality(batch) < BatchSize /\ batch = Claimable
         /\ \A e \in batch, f \in Claimable \ batch : row[e].createdAt < row[f].createdAt
         /\ relay' = [relay EXCEPT ![r] =
                        [Idle EXCEPT !.pc = "claiming",
                                     !.claim = [e \in Events |-> IF e \in batch
                                                                 THEN row[e].attempts + 1
                                                                 ELSE 0]]]
    /\ UNCHANGED <<row, live, deliveries, posted, lost, crashes>>

(* Mutant: the attempt is left to be counted when the row is settled.      *)
CommitUncounted(r) ==
    /\ relay[r].pc = "claiming"
    /\ relay' = [relay EXCEPT ![r].pc = "fetch"]
    /\ UNCHANGED <<row, live, deliveries, posted, lost, crashes>>

(* It commits with one more attempt on each row and nothing else changed:  *)
(* the rows are still pending and still due.                               *)
CommitClaim(r) ==
    /\ relay[r].pc = "claiming"
    /\ row' = [e \in Events |-> IF Holds(r, e) THEN [row[e] EXCEPT !.attempts = @ + 1]
                                ELSE row[e]]
    /\ relay' = [relay EXCEPT ![r].pc = "fetch"]
    /\ UNCHANGED <<live, deliveries, posted, lost, crashes>>

(* deliver: the endpoints that are owed the event.                         *)
Matching(e) == Subscribed[e] \cap live

FetchEndpoints(r) ==
    /\ relay[r].pc = "fetch"
    /\ \E e \in Events :
         /\ Holds(r, e)
         /\ relay' = [relay EXCEPT ![r] =
                        [relay[r] EXCEPT !.pc = IF Matching(e) = {} THEN "settle" ELSE "post",
                                         !.event = e,
                                         !.todo = Matching(e),
                                         !.allOk = TRUE]]
    /\ UNCHANGED <<row, live, deliveries, posted, lost, crashes>>

(* Mutant: the last endpoint decides for all.                              *)
PostLastDecides(r) ==
    /\ relay[r].pc = "post"
    /\ \E p \in relay[r].todo, ok \in BOOLEAN :
         /\ relay' = [relay EXCEPT ![r] =
                        [relay[r] EXCEPT !.pc = "log", !.asked = p, !.ok = ok, !.allOk = ok]]
         /\ posted' = posted \cup {<<relay[r].event, p, Attempt(r)>>}
    /\ UNCHANGED <<row, live, deliveries, lost, crashes>>

(* The HTTP POST.  ok = FALSE stands for an error status, a refused        *)
(* connection and a timeout, after which the endpoint may have seen it.    *)
Post(r) ==
    /\ relay[r].pc = "post"
    /\ \E p \in relay[r].todo, ok \in BOOLEAN :
         /\ relay' = [relay EXCEPT ![r] =
                        [relay[r] EXCEPT !.pc = "log", !.asked = p, !.ok = ok,
                                         !.allOk = relay[r].allOk /\ ok]]
         /\ posted' = posted \cup {<<relay[r].event, p, Attempt(r)>>}
    /\ UNCHANGED <<row, live, deliveries, lost, crashes>>

(* The delivery row, and on to the next endpoint.                          *)
Log(r) ==
    /\ relay[r].asked \in live
    /\ deliveries' = deliveries \cup {[event |-> relay[r].event, endpoint |-> relay[r].asked,
                                       attempt |-> Attempt(r), ok |-> relay[r].ok]}
    /\ relay' = [relay EXCEPT ![r] =
                   [relay[r] EXCEPT !.pc = IF relay[r].todo = {relay[r].asked} THEN "settle"
                                           ELSE "post",
                                    !.todo = relay[r].todo \ {relay[r].asked},
                                    !.asked = NoEndpoint,
                                    !.ok = TRUE]]
    /\ UNCHANGED lost

(* An execution that ends before it has settled what it claimed: its rows  *)
(* stay as the claim left them.                                            *)
GiveUp(r) ==
    /\ relay' = [relay EXCEPT ![r] = Idle]
    /\ lost' = [e \in Events |-> IF Holds(r, e) THEN lost[e] + 1 ELSE lost[e]]

(* The delivery row refers to the endpoint: when that was deleted in the   *)
(* meantime the insert fails, and the whole execution with it.             *)
LogDelivery(r) ==
    /\ relay[r].pc = "log"
    /\ \/ Log(r)
       \/ relay[r].asked \notin live /\ GiveUp(r) /\ UNCHANGED deliveries
    /\ UNCHANGED <<row, live, posted, crashes>>

(* Mutants: the limit is passed by one; a status the table does not have.  *)
VerdictOneLate(r) ==
    IF relay[r].allOk THEN "dispatched"
    ELSE IF Attempt(r) > MaxAttempts THEN "dead" ELSE "pending"

VerdictUnknown(r) ==
    IF relay[r].allOk THEN "dispatched"
    ELSE IF Attempt(r) >= MaxAttempts THEN "failed" ELSE "pending"

(* What is written when every endpoint has been tried.  The update selects *)
(* the row by its id alone, whatever its status has become, and waits for  *)
(* a claim that has it locked.                                             *)
Verdict(r) ==
    IF relay[r].allOk THEN "dispatched"
    ELSE IF Attempt(r) >= MaxAttempts THEN "dead" ELSE "pending"

Settle(r) ==
    /\ relay[r].pc = "settle"
    /\ LET e == relay[r].event
           rest == [relay[r].claim EXCEPT ![e] = 0]
       IN /\ ~ Locked(e)
          /\ row' = [row EXCEPT ![e].status = Verdict(r),
                                ![e].due = @ /\ Verdict(r) # "pending"]
          /\ relay' = [relay EXCEPT ![r] =
                         IF rest = Idle.claim THEN Idle
                         ELSE [Idle EXCEPT !.pc = "fetch", !.claim = rest]]
    /\ UNCHANGED <<live, deliveries, posted, lost, crashes>>

(* next_attempt_at passes.                                                 *)
BackoffElapses(e) ==
    /\ row[e].status = "pending"
    /\ ~ row[e].due
    /\ row' = [row EXCEPT ![e].due = TRUE]
    /\ UNCHANGED <<live, deliveries, relay, posted, lost, crashes>>

(* WebhooksService.remove: the delivery rows go with the endpoint.         *)
RemoveEndpoint(p) ==
    /\ p \in live
    /\ live' = live \ {p}
    /\ deliveries' = {d \in deliveries : d.endpoint # p}
    /\ UNCHANGED <<row, relay, posted, lost, crashes>>

(* The worker process is killed.  An open claim rolls back.                *)
Crash(r) ==
    /\ relay[r].pc # "idle"
    /\ crashes < MaxCrashes
    /\ crashes' = crashes + 1
    /\ \/ relay[r].pc # "claiming" /\ GiveUp(r)
       \/ /\ relay[r].pc = "claiming"
          /\ relay' = [relay EXCEPT ![r] = Idle]
          /\ UNCHANGED lost
    /\ UNCHANGED <<row, live, deliveries, posted>>

-----------------------------------------------------------------------------
RelayStep(r) ==
    \/ LockRows(r) \/ CommitClaim(r) \/ FetchEndpoints(r)
    \/ Post(r) \/ LogDelivery(r) \/ Settle(r)

Next ==
    \/ \E e \in Events : Emit(e) \/ BackoffElapses(e)
    \/ \E r \in Relays : RelayStep(r) \/ Crash(r)
    \/ \E p \in Endpoints : RemoveEndpoint(p)

Spec == Init /\ [][Next]_vars

(***************************************************************************)
(* The cron entry starts an execution every minute, the clock advances,    *)
(* and an execution that is not killed goes on: every query and every HTTP *)
(* call (AbortSignal.timeout) ends.  Nothing makes an endpoint answer well,*)
(* a process crash, or a producer emit.                                    *)
(***************************************************************************)
Fairness ==
    /\ \A r \in Relays : WF_vars(RelayStep(r))
    /\ \A e \in Events : WF_vars(BackoffElapses(e))

FairSpec == Spec /\ Fairness

-----------------------------------------------------------------------------
(* Every variable has its type.                                            *)
TypeOK ==
    /\ row \in [Events -> Row]
    /\ live \subseteq Endpoints
    /\ deliveries \subseteq Delivery
    /\ relay \in [Relays -> Relay]
    /\ posted \subseteq Events \X Endpoints \X Nat
    /\ lost \in [Events -> Nat]
    /\ crashes \in 0 .. MaxCrashes

(***************************************************************************)
(* The event id and x-brandlens-delivery-attempt identify a POST: however  *)
(* the executions overlap, crash and retry, no endpoint is sent the same   *)
(* pair twice, so a subscriber can tell a redelivery from a duplicate.     *)
(***************************************************************************)
EveryPostIsNew == [][(\E r \in Relays : Post(r)) => posted' # posted]_vars

(***************************************************************************)
(* A row that reads `dispatched` was acknowledged, in one attempt, by      *)
(* every endpoint that subscribes to it and still exists, whichever of the *)
(* overlapping executions wrote the status.                                *)
(***************************************************************************)
DispatchedMeansTold ==
    \A e \in Events : row[e].status = "dispatched" =>
        \E n \in 1 .. row[e].attempts : \A p \in Matching(e) :
            [event |-> e, endpoint |-> p, attempt |-> n, ok |-> TRUE] \in deliveries

(***************************************************************************)
(* The relay stops trying at a bounded point although the claim leaves the *)
(* row open to other executions and a late one may put a settled row back  *)
(* to `pending`.  When the limit is reached, each other execution may hold *)
(* an attempt below it: it revives the row once, and whoever holds no such *)
(* attempt may then claim once more.  A claim that is lost gives one back. *)
(***************************************************************************)
AttemptsAreBounded ==
    LET n == Cardinality(Relays)
    IN \A e \in Events :
         row[e].attempts <= MaxAttempts + ((n - 1) * (n + 2)) \div 2 + lost[e]

(***************************************************************************)
(* A recorded event is in the end dispatched or dead-lettered for good,    *)
(* also when a late execution has put it back to `pending` meanwhile.      *)
(***************************************************************************)
EventuallySettled ==
    \A e \in Events : row[e].status = "pending" ~>
        [](row[e].status \in {"dispatched", "dead"})

(***************************************************************************)
(* The relay keeps the promise of EventDelivery to the subscribers.  An    *)
(* endpoint has been told when a delivery row says that it answered 2xx.   *)
(***************************************************************************)
Promise == INSTANCE EventDelivery WITH
    recorded <- Recorded,
    tries    <- [e \in Events |-> row[e].attempts],
    told     <- {<<d.event, d.endpoint>> : d \in {x \in deliveries : x.ok}},
    present  <- live

KeepsPromise == Promise!Spec
=============================================================================
