----------------------------- MODULE CheckRuns ------------------------------
(***************************************************************************)
(* The life of a check run: POST /v1/checks, the execution of the run by   *)
(* the worker or inside the request, the replay of cached verdicts, the    *)
(* publication of rulesets meanwhile, and the reconciler.                  *)
(*                                                                         *)
(* All runs check the same asset of one brand, so that they share job keys *)
(* and trace keys.  A ruleset stands for its content hash; Content says    *)
(* which rules of it apply to the asset (resolveForContext).  An execution *)
(* is a worker slot with a job of the queue `analyze.asset`, or an API     *)
(* client that asked for a synchronous check.  Each database transaction   *)
(* is one action; the engine call is part of the action that uses its      *)
(* answer, since nothing is read or written in between.                    *)
(***************************************************************************)
EXTENDS Naturals, FiniteSets

CONSTANTS
    Runs,           \* rows that check_runs may have: a bound of the model
    Rulesets,       \* published rulesets, by hash
    Rules,
    Content,        \* for each ruleset, the rules that apply to the asset
    Deterministic,  \* rules of the tier that needs no model
    Verdicts,
    Clients,        \* API requests in progress
    Workers,        \* jobs of the queue handled at the same time
    Requests,       \* what clients may ask for
    MaxWaiting,     \* bound of the model: jobs that wait for one run
    MaxCrashes,     \* bound of the model: processes killed
    NoRun, NoRuleset

(* A request names a ruleset or leaves it to the brand's active one; it is *)
(* filtered to the deterministic rules, forced, or synchronous.            *)
Request == [pin : Rulesets \cup {NoRuleset}, partial : BOOLEAN, force : BOOLEAN,
            async : BOOLEAN]

ASSUME ContentAssumption == Content \in [Rulesets -> SUBSET Rules]
ASSUME RequestsAssumption == Requests \subseteq Request /\ Deterministic \subseteq Rules
ASSUME ActorsAssumption == Clients \cap Workers = {}
ASSUME BoundsAssumption == MaxWaiting \in Nat /\ MaxCrashes \in Nat
ASSUME NoneAssumption == NoRun \notin Runs /\ NoRuleset \notin Rulesets

VARIABLES
    active,     \* brands.active_ruleset_id
    run,        \* check_runs
    traces,     \* decision_traces
    announced,  \* outbox events of each run
    jobs,       \* jobs of the queue that wait, for each run
    client,     \* what each API request holds
    exec,       \* what each execution holds
    sweep,      \* the reconciler's place in its loop, for each run
    crashes

vars == <<active, run, traces, announced, jobs, client, exec, sweep, crashes>>

Statuses == {"none", "queued", "running", "completed", "degraded", "failed"}
Finished == {"completed", "degraded"}
Executors == Workers \cup Clients

(* The job key is <<hash, partial>>, made unique at random when forced.    *)
Row == [status : Statuses, pin : Rulesets \cup {NoRuleset}, hash : Rulesets \cup {NoRuleset},
        partial : BOOLEAN, forced : BOOLEAN]
Trace == [run : Runs, hash : Rulesets, rule : Rules, verdict : Verdicts, cached : BOOLEAN]
Client == [pc : {"idle", "lookup", "insert", "enqueue"}, asks : Request,
           hash : Rulesets \cup {NoRuleset}, run : Runs \cup {NoRun}]
Execution == [pc : {"idle", "read", "load", "mark", "cache", "engine"}, run : Runs \cup {NoRun},
              held : BOOLEAN, hash : Rulesets \cup {NoRuleset},
              replay : SUBSET (Rules \X Verdicts)]

NoRow == [status |-> "none", pin |-> NoRuleset, hash |-> NoRuleset,
          partial |-> FALSE, forced |-> FALSE]
NoClient == [pc |-> "idle", hash |-> NoRuleset, run |-> NoRun,
             asks |-> [pin |-> NoRuleset, partial |-> FALSE, force |-> FALSE, async |-> FALSE]]
NoExecution == [pc |-> "idle", run |-> NoRun, held |-> FALSE,
                hash |-> NoRuleset, replay |-> {}]

Init ==
    /\ active \in Rulesets
    /\ run = [r \in Runs |-> NoRow]
    /\ traces = {}
    /\ announced = [r \in Runs |-> {}]
    /\ jobs = [r \in Runs |-> 0]
    /\ client = [c \in Clients |-> NoClient]
    /\ exec = [x \in Executors |-> NoExecution]
    /\ sweep = [r \in Runs |-> "none"]
    /\ crashes = 0

(* RulesetCompilerService.publish moves the pointer; nothing clears it.    *)
Publish(h) ==
    /\ active # h
    /\ active' = h
    /\ UNCHANGED <<run, traces, announced, jobs, client, exec, sweep, crashes>>

-----------------------------------------------------------------------------
(* ChecksService.create *)

Applicable(h, partial) == Content[h] \cap (IF partial THEN Deterministic ELSE Rules)

(* The ruleset is loaded and the job key computed; a request to which no   *)
(* rule applies is refused.                                                *)
Resolve(c) ==
    /\ client[c].pc = "idle"
    /\ exec[c].pc = "idle"
    /\ \E r \in Runs : run[r].status = "none"
    /\ \E q \in Requests :
         LET h == IF q.pin = NoRuleset THEN active ELSE q.pin
         IN /\ Applicable(h, q.partial) # {}
            /\ client' = [client EXCEPT ![c] =
                            [NoClient EXCEPT !.pc = "lookup", !.asks = q, !.hash = h]]
    /\ UNCHANGED <<active, run, traces, announced, jobs, exec, sweep, crashes>>

SameKey(r, c) ==
    /\ run[r].status # "none"
    /\ ~ run[r].forced
    /\ run[r].hash = client[c].hash
    /\ run[r].partial = client[c].asks.partial

(* findByJobKey: an earlier run with this key is the response, whatever    *)
(* its status.                                                             *)
FindByJobKey(c) ==
    /\ client[c].pc = "lookup"
    /\ client' = [client EXCEPT ![c] =
                    IF ~ client[c].asks.force /\ \E r \in Runs : SameKey(r, c)
                    THEN NoClient
                    ELSE [client[c] EXCEPT !.pc = "insert"]]
    /\ UNCHANGED <<active, run, traces, announced, jobs, exec, sweep, crashes>>

(* The row is written, unless the unique index on the job key refuses it   *)
(* and the request ends in an error.                                       *)
Insert(c) ==
    /\ client[c].pc = "insert"
    /\ \/ /\ ~ client[c].asks.force
          /\ \E r \in Runs : SameKey(r, c)
          /\ client' = [client EXCEPT ![c] = NoClient]
          /\ UNCHANGED <<run, exec>>
       \/ /\ client[c].asks.force \/ \A r \in Runs : ~ SameKey(r, c)
          /\ \E r \in Runs :
               /\ run[r].status = "none"
               /\ run' = [run EXCEPT ![r] =
                            [status |-> "queued", pin |-> client[c].asks.pin,
                             hash |-> client[c].hash, partial |-> client[c].asks.partial,
                             forced |-> client[c].asks.force]]
               /\ \/ /\ client[c].asks.async
                     /\ client' = [client EXCEPT ![c] =
                                     [client[c] EXCEPT !.pc = "enqueue", !.run = r]]
                     /\ UNCHANGED exec
                  \/ /\ ~ client[c].asks.async
                     /\ client' = [client EXCEPT ![c] = NoClient]
                     /\ exec' = [exec EXCEPT ![c] = [NoExecution EXCEPT !.pc = "read", !.run = r]]
    /\ UNCHANGED <<active, traces, announced, jobs, sweep, crashes>>

Send(r) ==
    /\ jobs[r] < MaxWaiting
    /\ jobs' = [jobs EXCEPT ![r] = @ + 1]

(* The job is sent after the transaction; the send may fail.               *)
Enqueue(c) ==
    /\ client[c].pc = "enqueue"
    /\ Send(client[c].run) \/ UNCHANGED jobs
    /\ client' = [client EXCEPT ![c] = NoClient]
    /\ UNCHANGED <<active, run, traces, announced, exec, sweep, crashes>>

-----------------------------------------------------------------------------
(* ChecksService.execute and the handler analyzeAsset *)

(* The queue hands out a job.                                              *)
Fetch(w, r) ==
    /\ exec[w].pc = "idle"
    /\ jobs[r] > 0
    /\ jobs' = [jobs EXCEPT ![r] = @ - 1]
    /\ exec' = [exec EXCEPT ![w] = [NoExecution EXCEPT !.pc = "load", !.run = r, !.held = TRUE]]
    /\ UNCHANGED <<active, run, traces, announced, client, sweep, crashes>>

(* A job that failed waits for its next try, if it has one left; how often *)
(* a job was tried is not counted here, so that it may have one or not.    *)
Retry(x) ==
    \/ exec[x].held /\ Send(exec[x].run)
    \/ UNCHANGED jobs

(* A job that succeeded is acknowledged, unless it shared a batch with one *)
(* that failed: runBounded throws for the whole batch.                     *)
Acknowledge(x) == Retry(x)

Leave(x) == exec' = [exec EXCEPT ![x] = NoExecution]

(* The synchronous path reads the row in a transaction of its own.         *)
Read(c) ==
    /\ exec[c].pc = "read"
    /\ \/ run[exec[c].run].status \in Finished /\ Leave(c)
       \/ /\ run[exec[c].run].status \notin Finished
          /\ exec' = [exec EXCEPT ![c].pc = "load"]
    /\ UNCHANGED <<active, run, traces, announced, jobs, client, sweep, crashes>>

(* Mutant: the active ruleset, also for a run that names another.          *)
ActiveRuleset(r) == active

(* The ruleset an execution uses: the run's own, or else the one that is   *)
(* active now.                                                             *)
LoadedRuleset(r) == IF run[r].pin = NoRuleset THEN active ELSE run[r].pin

(* The worker reads run and ruleset together; a finished run is left.      *)
Load(x) ==
    /\ exec[x].pc = "load"
    /\ \/ /\ x \in Workers
          /\ run[exec[x].run].status \in Finished
          /\ Leave(x)
          /\ Acknowledge(x)
       \/ /\ x \in Workers => run[exec[x].run].status \notin Finished
          /\ exec' = [exec EXCEPT ![x].pc = "mark", ![x].hash = LoadedRuleset(exec[x].run)]
          /\ UNCHANGED jobs
    /\ UNCHANGED <<active, run, traces, announced, client, sweep, crashes>>

(* The update selects the row by its id, whatever its status has become.   *)
MarkRunning(x) ==
    /\ exec[x].pc = "mark"
    /\ run' = [run EXCEPT ![exec[x].run].status = "running"]
    /\ exec' = [exec EXCEPT ![x].pc = "cache"]
    /\ UNCHANGED <<active, traces, announced, jobs, client, sweep, crashes>>

(* Mutant: the trace key leaves the ruleset out.                           *)
EarlierOfAnyRuleset(h, u) == {t.verdict : t \in {s \in traces : s.rule = u}}

(* Verdicts on record under the trace key of rule u.  The code takes the   *)
(* newest; created_at is when a transaction began, so that with concurrent *)
(* executions any of them may be it.                                       *)
Earlier(h, u) == {t.verdict : t \in {s \in traces : s.hash = h /\ s.rule = u}}

LoadCachedTraces(x) ==
    /\ exec[x].pc = "cache"
    /\ LET h == exec[x].hash
           known == {u \in Content[h] : Earlier(h, u) # {}}
       IN \E replay \in [known -> Verdicts] :
            /\ \A u \in known : replay[u] \in Earlier(h, u)
            /\ exec' = [exec EXCEPT ![x].pc = "engine",
                                    ![x].replay = {<<u, replay[u]>> : u \in known}]
    /\ UNCHANGED <<active, run, traces, announced, jobs, client, sweep, crashes>>

(* Mutant: the rules of the ruleset that was active when the run was asked *)
(* for.                                                                    *)
ToEvaluateAsAsked(x) ==
    Content[run[exec[x].run].hash] \ {p[1] : p \in exec[x].replay}

ToEvaluate(x) == Content[exec[x].hash] \ {p[1] : p \in exec[x].replay}

(* The engine reports `degraded` when it was asked for deterministic rules *)
(* only, and may when the budget or the model fails it.                    *)
MayDegrade(asked) ==
    IF asked = {} THEN {FALSE} ELSE IF asked \subseteq Deterministic THEN {TRUE} ELSE BOOLEAN

(* Mutant: the hash that was computed when the run was asked for.          *)
TraceOfRow(x, u, v, cached) ==
    [run |-> exec[x].run, hash |-> run[exec[x].run].hash, rule |-> u, verdict |-> v,
     cached |-> cached]

TraceOf(x, u, v, cached) ==
    [run |-> exec[x].run, hash |-> exec[x].hash, rule |-> u, verdict |-> v, cached |-> cached]

(* The traces an execution writes: replayed verdicts and the engine's.     *)
Recorded(x, answer) ==
    {TraceOf(x, p[1], p[2], TRUE) : p \in exec[x].replay}
        \cup {TraceOf(x, u, answer[u], FALSE) : u \in DOMAIN answer}

(* persist / persistResults, and finishEmpty when no rule applies: one     *)
(* transaction writes traces, status and event.                            *)
Persist(x) ==
    /\ exec[x].pc = "engine"
    /\ \E answer \in [ToEvaluate(x) -> Verdicts], degraded \in MayDegrade(ToEvaluate(x)) :
         /\ traces' = traces \cup Recorded(x, answer)
         /\ run' = [run EXCEPT ![exec[x].run].status =
                      IF degraded THEN "degraded" ELSE "completed"]
    /\ announced' = [announced EXCEPT ![exec[x].run] = @ \cup {"check.completed"}]
    /\ Leave(x)
    /\ Acknowledge(x)
    /\ UNCHANGED <<active, client, sweep, crashes>>

(* Mutant: a status the table does not have.                               *)
RecordError(x) ==
    /\ exec[x].pc \in {"cache", "engine"}
    /\ run' = [run EXCEPT ![exec[x].run].status = "error"]
    /\ announced' = [announced EXCEPT ![exec[x].run] = @ \cup {"check.failed"}]
    /\ Leave(x)
    /\ Retry(x)
    /\ UNCHANGED <<active, traces, client, sweep, crashes>>

(* The catch block, for an error of the engine or of the database.         *)
RecordFailure(x) ==
    /\ exec[x].pc \in {"cache", "engine"}
    /\ run' = [run EXCEPT ![exec[x].run].status = "failed"]
    /\ announced' = [announced EXCEPT ![exec[x].run] = @ \cup {"check.failed"}]
    /\ Leave(x)
    /\ Retry(x)
    /\ UNCHANGED <<active, traces, client, sweep, crashes>>

(* The queue gives up on a job that is still being handled.                *)
Expire(w) ==
    /\ exec[w].held
    /\ exec' = [exec EXCEPT ![w].held = FALSE]
    /\ Retry(w)
    /\ UNCHANGED <<active, run, traces, announced, client, sweep, crashes>>

-----------------------------------------------------------------------------
(* reconcile.  Its loop treats each run on its own: it is selected, reset  *)
(* in a transaction, and sent to the queue again.  Any unfinished run is   *)
(* older than RECONCILE_STUCK_MINUTES sooner or later.                     *)

(* Mutant: runs whose job was never sent are not looked for.               *)
StuckRunning(r) == run[r].status = "running"

Stuck(r) == run[r].status \in {"queued", "running"}

Select(r) ==
    /\ sweep[r] = "none"
    /\ Stuck(r)
    /\ sweep' = [sweep EXCEPT ![r] = "selected"]
    /\ UNCHANGED <<active, run, traces, announced, jobs, client, exec, crashes>>

Reset(r) ==
    /\ sweep[r] = "selected"
    /\ run' = [run EXCEPT ![r].status = "queued"]
    /\ sweep' = [sweep EXCEPT ![r] = "reset"]
    /\ UNCHANGED <<active, traces, announced, jobs, client, exec, crashes>>

Resend(r) ==
    /\ sweep[r] = "reset"
    /\ Send(r)
    /\ sweep' = [sweep EXCEPT ![r] = "none"]
    /\ UNCHANGED <<active, run, traces, announced, client, exec, crashes>>

-----------------------------------------------------------------------------
(* A killed process loses what it held; its job is tried again.            *)
Crash ==
    /\ crashes < MaxCrashes
    /\ crashes' = crashes + 1
    /\ \/ \E x \in Executors :
            exec[x].pc # "idle" /\ Leave(x) /\ Retry(x) /\ UNCHANGED <<client, sweep>>
       \/ \E c \in Clients :
            /\ client[c].pc # "idle"
            /\ client' = [client EXCEPT ![c] = NoClient]
            /\ UNCHANGED <<exec, jobs, sweep>>
       \/ \E r \in Runs :
            /\ sweep[r] # "none"
            /\ sweep' = [sweep EXCEPT ![r] = "none"]
            /\ UNCHANGED <<exec, jobs, client>>
    /\ UNCHANGED <<active, run, traces, announced>>

Handling(c) == FindByJobKey(c) \/ Insert(c) \/ Enqueue(c)
Executing(x) == Read(x) \/ Load(x) \/ MarkRunning(x) \/ LoadCachedTraces(x)
                \/ Persist(x) \/ RecordFailure(x)

Next ==
    \/ \E h \in Rulesets : Publish(h)
    \/ \E c \in Clients : Resolve(c) \/ Handling(c)
    \/ \E w \in Workers : Expire(w) \/ \E r \in Runs : Fetch(w, r)
    \/ \E x \in Executors : Executing(x)
    \/ \E r \in Runs : Select(r) \/ Reset(r) \/ Resend(r)
    \/ Crash

Spec == Init /\ [][Next]_vars

(***************************************************************************)
(* The queue is first in first out, so a waiting job is fetched although   *)
(* others arrive; every transaction and engine call of a live process ends *)
(* (timeouts); the cron entry of the reconciler comes round every five     *)
(* minutes.  Nothing makes a client ask, a ruleset be published, a process *)
(* crash or the engine answer.                                             *)
(***************************************************************************)
Fairness ==
    /\ \A r \in Runs : SF_vars(\E w \in Workers : Fetch(w, r))
    /\ \A x \in Executors : WF_vars(Executing(x))
    /\ \A r \in Runs : WF_vars(Select(r) \/ Reset(r) \/ Resend(r))

FairSpec == Spec /\ Fairness

-----------------------------------------------------------------------------
(* Every variable has its type.                                            *)
TypeOK ==
    /\ active \in Rulesets
    /\ run \in [Runs -> Row]
    /\ traces \subseteq Trace
    /\ announced \in [Runs -> SUBSET {"check.completed", "check.failed"}]
    /\ jobs \in [Runs -> 0 .. MaxWaiting]
    /\ client \in [Clients -> Client]
    /\ exec \in [Executors -> Execution]
    /\ sweep \in [Runs -> {"none", "selected", "reset"}]
    /\ crashes \in 0 .. MaxCrashes

(* The rulesets by which a run may be judged.                              *)
Scope(r) ==
    IF run[r].status = "none" THEN {}
    ELSE IF run[r].pin = NoRuleset THEN Rulesets ELSE {run[r].pin}

(***************************************************************************)
(* A run that reads as finished, or was announced as completed, has on     *)
(* record a verdict on every rule of one ruleset, whichever executions     *)
(* overlapped, failed or were resumed after a crash and a publication.     *)
(***************************************************************************)
AnsweredInFull ==
    \A r \in Runs :
        run[r].status \in Finished \/ "check.completed" \in announced[r] =>
            \E h \in Scope(r) : \A u \in Content[h] :
                \E t \in traces : t.run = r /\ t.hash = h /\ t.rule = u

(***************************************************************************)
(* A run that names a ruleset is judged by that ruleset and no other, also *)
(* when another one is published between the request and a retry.          *)
(***************************************************************************)
JudgedUnderPin ==
    \A t \in traces : run[t.run].pin # NoRuleset => t.hash = run[t.run].pin

(***************************************************************************)
(* A replayed verdict goes back to one that the engine gave on the same    *)
(* rule of the same ruleset, however often it was replayed from replays.   *)
(***************************************************************************)
ReplayIsBought ==
    \A t \in traces : t.cached =>
        \E s \in traces : /\ ~ s.cached
                          /\ s.hash = t.hash /\ s.rule = t.rule /\ s.verdict = t.verdict

(***************************************************************************)
(* A run that was created or reset comes to an end: the crash between the  *)
(* insert and the send, the last retry of a job and a killed execution are *)
(* all made good by the reconciler.                                        *)
(***************************************************************************)
EventuallyEnds ==
    \A r \in Runs : run[r].status \in {"queued", "running"} ~>
        run[r].status \in Finished \cup {"failed"}

(***************************************************************************)
(* The service keeps the promise of CheckPromise to whoever asked for a    *)
(* check: nothing of an execution is seen before all of it.                *)
(***************************************************************************)
Promise == INSTANCE CheckPromise WITH
    scope    <- [r \in Runs |-> Scope(r)],
    evidence <- traces

KeepsPromise == Promise!Spec
=============================================================================
