-------------------------- MODULE CheckRunsProofs ---------------------------
(***************************************************************************)
(* Proofs about CheckRuns for any number of runs, rulesets, rules, clients *)
(* and workers.                                                            *)
(***************************************************************************)
EXTENDS CheckRuns, TLAPS

(* Whoever refers to a run refers to one that was asked for.               *)
Exists(r) == r \in Runs /\ run[r].status # "none"

(* An execution uses a ruleset it may use, and replays verdicts that are   *)
(* on record, one for each rule.                                           *)
ReplaysRecord(x) ==
    /\ \A p \in exec[x].replay : /\ p[1] \in Content[exec[x].hash]
                                 /\ p[2] \in Earlier(exec[x].hash, p[1])
    /\ \A p, q \in exec[x].replay : p[1] = q[1] => p = q

ExecutionOK(x) ==
    /\ exec[x].pc # "idle" => Exists(exec[x].run)
    /\ exec[x].held => exec[x].pc # "idle"
    /\ exec[x].pc \in {"mark", "cache", "engine"} => exec[x].hash \in Scope(exec[x].run)
    /\ exec[x].pc = "engine" => ReplaysRecord(x)

ClientOK(c) ==
    /\ client[c].pc \in {"lookup", "insert"} => client[c].hash \in Rulesets
    /\ client[c].pc = "enqueue" => Exists(client[c].run)

ActorsOK ==
    /\ \A x \in Executors : ExecutionOK(x)
    /\ \A c \in Clients : ClientOK(c)
    /\ \A r \in Runs : jobs[r] > 0 \/ sweep[r] # "none" => Exists(r)

InScope == \A t \in traces : t.hash \in Scope(t.run)

Sound == TypeOK /\ ActorsOK /\ InScope /\ ReplayIsBought /\ AnsweredInFull

-----------------------------------------------------------------------------
LEMMA IdleTypes == NoRow \in Row /\ NoExecution \in Execution
BY DEF NoRow, Row, Statuses, NoExecution, Execution

LEMMA InitSound == Init => Sound
<1> SUFFICES ASSUME Init PROVE Sound
  OBVIOUS
<1> USE DEF Init
<1>1. NoClient \in Client
  BY DEF NoClient, Client, Request
<1>2. TypeOK
  BY <1>1, IdleTypes, BoundsAssumption DEF TypeOK
<1>3. ActorsOK
  BY DEF ActorsOK, ExecutionOK, ClientOK, NoExecution, NoClient
<1>4. InScope /\ ReplayIsBought /\ AnsweredInFull
  BY DEF InScope, ReplayIsBought, AnsweredInFull, NoRow, Finished
<1> QED
  BY <1>2, <1>3, <1>4 DEF Sound

(* What the queue does with a job keeps its counters and their meaning.    *)
LEMMA Sending ==
    ASSUME TypeOK, NEW r \in Runs, Send(r)
    PROVE  /\ jobs' \in [Runs -> 0 .. MaxWaiting]
           /\ \A s \in Runs : jobs'[s] > 0 => jobs[s] > 0 \/ s = r
BY BoundsAssumption DEF TypeOK, Send

LEMMA Retrying ==
    ASSUME TypeOK, ActorsOK, NEW x \in Executors, Retry(x)
    PROVE  /\ jobs' \in [Runs -> 0 .. MaxWaiting]
           /\ \A s \in Runs : jobs'[s] > 0 => jobs[s] > 0 \/ Exists(s)
<1>1. CASE UNCHANGED jobs
  BY <1>1 DEF TypeOK
<1>2. CASE exec[x].held /\ Send(exec[x].run)
  BY <1>2, Sending DEF ActorsOK, ExecutionOK, Exists
<1> QED
  BY <1>1, <1>2 DEF Retry

(* The status of a run is all that matters of what changes once it exists. *)
RowsStay ==
    \A r \in Runs : run[r].status # "none" =>
        run'[r].pin = run[r].pin /\ run'[r].status # "none"

LEMMA StatusOnly ==
    ASSUME TypeOK, NEW r \in Runs, Exists(r), NEW s \in Statuses \ {"none"},
           run' = [run EXCEPT ![r].status = s]
    PROVE  /\ run' \in [Runs -> Row] /\ RowsStay
           /\ run'[r].status = s
           /\ \A q \in Runs : q # r => run'[q] = run[q]
BY DEF TypeOK, Row, RowsStay, Exists

LEMMA ScopeStays == RowsStay => \A r \in Runs : Exists(r) => Scope(r)' = Scope(r)
BY DEF RowsStay, Scope, Exists

(* Evidence that grows keeps every run answered that was.                  *)
LEMMA AnswersStay ==
    ASSUME AnsweredInFull, RowsStay, traces \subseteq traces', NEW r \in Runs,
           run[r].status \in Finished \/ "check.completed" \in announced[r]
    PROVE  \E h \in Scope(r)' : \A u \in Content[h] :
             \E t \in traces' : t.run = r /\ t.hash = h /\ t.rule = u
<1>1. PICK h \in Scope(r) : \A u \in Content[h] :
             \E t \in traces : t.run = r /\ t.hash = h /\ t.rule = u
  BY DEF AnsweredInFull
<1>2. Scope(r)' = Scope(r)
  BY <1>1, ScopeStays DEF Scope, Exists
<1> QED
  BY <1>1, <1>2

-----------------------------------------------------------------------------
(* A step that writes no evidence, announces nothing and finishes no run,  *)
(* in which one execution at most moves on or stops.                       *)
Quiet ==
    /\ RowsStay
    /\ traces' = traces
    /\ \A r \in Runs : /\ run'[r].status \in Finished => run[r].status \in Finished
                       /\ "check.completed" \in announced'[r] =>
                            "check.completed" \in announced[r]

LEMMA QuietEvidence ==
    ASSUME Sound, Quiet
    PROVE  InScope' /\ ReplayIsBought' /\ AnsweredInFull'
<1>1. InScope'
  BY ScopeStays DEF Quiet, Sound, InScope, TypeOK, Trace, Scope, Exists
<1>2. ReplayIsBought'
  BY DEF Quiet, Sound, ReplayIsBought
<1>3. AnsweredInFull'
  BY AnswersStay DEF Quiet, Sound, AnsweredInFull
<1> QED
  BY <1>1, <1>2, <1>3

(* When an execution stays as it is or stops, what is true of it stays     *)
(* true.                                                                   *)
LEMMA Unmoved ==
    ASSUME Sound, RowsStay, traces \subseteq traces', NEW x \in Executors,
           exec'[x] \in {exec[x], NoExecution, [exec[x] EXCEPT !.held = FALSE]}
    PROVE  ExecutionOK(x)'
<1>1. \/ exec'[x].pc = "idle" /\ exec'[x].held = FALSE
      \/ /\ exec'[x].pc = exec[x].pc /\ exec'[x].run = exec[x].run
         /\ exec'[x].hash = exec[x].hash /\ exec'[x].replay = exec[x].replay
         /\ exec'[x].held => exec[x].held
  <2>1. exec[x] \in Execution
    BY DEF Sound, TypeOK
  <2>2. [exec[x] EXCEPT !.held = FALSE].pc = exec[x].pc
        /\ [exec[x] EXCEPT !.held = FALSE].run = exec[x].run
        /\ [exec[x] EXCEPT !.held = FALSE].hash = exec[x].hash
        /\ [exec[x] EXCEPT !.held = FALSE].replay = exec[x].replay
        /\ [exec[x] EXCEPT !.held = FALSE].held = FALSE
    BY <2>1 DEF Execution
  <2>3. NoExecution.pc = "idle" /\ NoExecution.held = FALSE
    BY DEF NoExecution
  <2> QED
    BY <2>2, <2>3
<1>2. ASSUME exec'[x].pc = "idle", exec'[x].held = FALSE PROVE ExecutionOK(x)'
  BY <1>2 DEF ExecutionOK
<1>3. ASSUME exec'[x].pc = exec[x].pc, exec'[x].run = exec[x].run,
             exec'[x].hash = exec[x].hash, exec'[x].replay = exec[x].replay,
             exec'[x].held => exec[x].held
      PROVE  ExecutionOK(x)'
  <2>1. ExecutionOK(x)
    BY DEF Sound, ActorsOK
  <2>2. \A h, u : Earlier(h, u) \subseteq Earlier(h, u)'
    BY DEF Earlier
  <2>3. exec[x].pc = "engine" => ReplaysRecord(x)'
    BY <1>3, <2>1, <2>2 DEF ExecutionOK, ReplaysRecord, Earlier
  <2>4. \A r \in Runs : Exists(r) => Scope(r)' = Scope(r) /\ Exists(r)'
    BY ScopeStays DEF Exists, RowsStay
  <2>5. exec[x].pc # "idle" => Exists(exec[x].run)'
    BY <1>3, <2>1, <2>4 DEF ExecutionOK, Exists
  <2>6. exec[x].pc \in {"mark", "cache", "engine"} => exec'[x].hash \in Scope(exec[x].run)'
    BY <1>3, <2>1, <2>4 DEF ExecutionOK, Exists, Scope
  <2> QED
    BY <1>3, <2>1, <2>3, <2>5, <2>6 DEF ExecutionOK
<1> QED
  BY <1>1, <1>2, <1>3

LEMMA ActorsStay ==
    ASSUME Sound, RowsStay, traces \subseteq traces',
           \A x \in Executors : \/ exec'[x] \in {exec[x], NoExecution, [exec[x] EXCEPT !.held = FALSE]}
                               \/ ExecutionOK(x)',
           \A c \in Clients : client'[c] \in {client[c], NoClient} \/ ClientOK(c)',
           \A r \in Runs : jobs'[r] > 0 \/ sweep'[r] # "none" =>
                              jobs[r] > 0 \/ sweep[r] # "none" \/ Exists(r)
    PROVE  ActorsOK'
<1>1. \A r \in Runs : Exists(r) => Exists(r)'
  BY DEF RowsStay, Exists
<1>2. \A x \in Executors : ExecutionOK(x)'
  BY Unmoved
<1>3. ASSUME NEW c \in Clients PROVE ClientOK(c)'
  <2>1. CASE client'[c] = client[c]
    BY <1>1, <2>1 DEF Sound, ActorsOK, ClientOK, Exists
  <2>2. CASE client'[c] = NoClient
    BY <2>2 DEF ClientOK, NoClient
  <2> QED
    BY <2>1, <2>2
<1>4. \A r \in Runs : jobs'[r] > 0 \/ sweep'[r] # "none" => Exists(r)'
  BY <1>1 DEF Sound, ActorsOK
<1> QED
  BY <1>2, <1>3, <1>4 DEF ActorsOK

LEMMA QuietStep ==
    ASSUME Sound, Quiet, TypeOK', ActorsOK'
    PROVE  Sound'
BY QuietEvidence DEF Sound

-----------------------------------------------------------------------------
(* The requests.                                                           *)
LEMMA ResolveSound == ASSUME Sound, NEW c \in Clients, Resolve(c) PROVE Sound'
<1>1. PICK q \in Requests :
        client' = [client EXCEPT ![c] =
                     [NoClient EXCEPT !.pc = "lookup", !.asks = q,
                                      !.hash = IF q.pin = NoRuleset THEN active ELSE q.pin]]
  BY DEF Resolve
<1> DEFINE h == IF q.pin = NoRuleset THEN active ELSE q.pin
           new == [NoClient EXCEPT !.pc = "lookup", !.asks = q, !.hash = h]
<1>2. q \in Request /\ h \in Rulesets
  BY RequestsAssumption DEF Request, Sound, TypeOK
<1>3. client' = [client EXCEPT ![c] = new]
  BY <1>1
<1> HIDE DEF h
<1>4. new \in Client /\ new.pc = "lookup" /\ new.hash = h
  BY <1>2 DEF NoClient, Client, Request
<1> HIDE DEF new
<1>5. UNCHANGED <<active, run, traces, announced, jobs, exec, sweep, crashes>>
  BY DEF Resolve
<1>6. Quiet
  BY <1>5 DEF Quiet, RowsStay
<1>7. TypeOK'
  BY <1>3, <1>4, <1>5 DEF Sound, TypeOK
<1>8. ActorsOK'
  BY <1>2, <1>3, <1>4, <1>5, <1>6, ActorsStay DEF Quiet, ClientOK, Sound, TypeOK
<1> QED
  BY <1>6, <1>7, <1>8, QuietStep

LEMMA FindByJobKeySound == ASSUME Sound, NEW c \in Clients, FindByJobKey(c) PROVE Sound'
<1>1. /\ client[c].pc = "lookup"
      /\ UNCHANGED <<active, run, traces, announced, jobs, exec, sweep, crashes>>
      /\ \/ client' = [client EXCEPT ![c] = NoClient]
         \/ client' = [client EXCEPT ![c] = [client[c] EXCEPT !.pc = "insert"]]
  BY DEF FindByJobKey
<1>2. NoClient \in Client
  BY DEF NoClient, Client, Request
<1>3. client[c] \in Client
  BY DEF Sound, TypeOK
<1>4. [client[c] EXCEPT !.pc = "insert"] \in Client
  BY <1>3 DEF Client
<1>5. Quiet
  BY <1>1 DEF Quiet, RowsStay
<1>6. TypeOK'
  BY <1>1, <1>2, <1>4 DEF Sound, TypeOK
<1>7. client'[c] = NoClient \/ ClientOK(c)'
  BY <1>1, <1>3 DEF Client, ClientOK, Sound, ActorsOK, TypeOK
<1>8. ActorsOK'
  BY <1>1, <1>5, <1>7, ActorsStay DEF Quiet, Sound, TypeOK
<1> QED
  BY <1>5, <1>6, <1>8, QuietStep

LEMMA InsertSound == ASSUME Sound, NEW c \in Clients, Insert(c) PROVE Sound'
<1>0. /\ UNCHANGED <<active, traces, announced, jobs, sweep, crashes>>
      /\ client[c].pc = "insert" /\ client[c] \in Client /\ client[c].hash \in Rulesets
  BY DEF Insert, Sound, TypeOK, ActorsOK, ClientOK
<1>1. NoClient \in Client
  BY DEF NoClient, Client, Request
<1>2. ASSUME client' = [client EXCEPT ![c] = NoClient], UNCHANGED <<run, exec>>
      PROVE  Sound'
  <2>1. Quiet
    BY <1>0, <1>2 DEF Quiet, RowsStay
  <2>2. TypeOK'
    BY <1>0, <1>1, <1>2 DEF Sound, TypeOK
  <2>3. ActorsOK'
    BY <1>0, <1>2, <2>1, ActorsStay DEF Quiet, Sound, TypeOK
  <2> QED
    BY <2>1, <2>2, <2>3, QuietStep
<1>3. ASSUME NEW r \in Runs, run[r].status = "none",
             run' = [run EXCEPT ![r] =
                       [status |-> "queued", pin |-> client[c].asks.pin,
                        hash |-> client[c].hash, partial |-> client[c].asks.partial,
                        forced |-> client[c].asks.force]],
             \/ /\ client' = [client EXCEPT ![c] = [client[c] EXCEPT !.pc = "enqueue", !.run = r]]
                /\ UNCHANGED exec
             \/ /\ client' = [client EXCEPT ![c] = NoClient]
                /\ exec' = [exec EXCEPT ![c] = [NoExecution EXCEPT !.pc = "read", !.run = r]]
      PROVE  Sound'
  <2>1. run' \in [Runs -> Row] /\ run'[r].status = "queued"
        /\ \A s \in Runs : s # r => run'[s] = run[s]
    BY <1>0, <1>3 DEF Sound, TypeOK, Row, Client, Request, Statuses
  <2>2. Quiet
    BY <1>0, <1>3, <2>1 DEF Quiet, RowsStay, Finished
  <2>3. Exists(r)'
    BY <1>3, <2>1 DEF Exists
  <2> DEFINE sent == [client[c] EXCEPT !.pc = "enqueue", !.run = r]
             started == [NoExecution EXCEPT !.pc = "read", !.run = r]
  <2>4. sent \in Client /\ sent.pc = "enqueue" /\ sent.run = r
    BY <1>0 DEF Client
  <2>5. /\ started \in Execution /\ started.pc = "read" /\ started.run = r
        /\ started.held = FALSE
    BY DEF Execution, NoExecution
  <2>6. /\ client' = [client EXCEPT ![c] = sent] \/ client' = [client EXCEPT ![c] = NoClient]
        /\ exec' = exec \/ exec' = [exec EXCEPT ![c] = started]
    BY <1>3
  <2> HIDE DEF sent, started
  <2>7. TypeOK'
    BY <1>0, <1>1, <2>1, <2>4, <2>5, <2>6 DEF Sound, TypeOK, Executors
  <2>8. client'[c] = NoClient \/ ClientOK(c)'
    BY <2>3, <2>4, <2>6 DEF ClientOK, Sound, TypeOK
  <2>9. exec' = exec \/ ExecutionOK(c)'
    BY <2>3, <2>5, <2>6 DEF ExecutionOK, Sound, TypeOK, Executors
  <2>10. ActorsOK'
    BY <1>0, <2>2, <2>6, <2>8, <2>9, ActorsStay DEF Quiet, Sound, TypeOK
  <2> QED
    BY <2>2, <2>7, <2>10, QuietStep
<1> QED
  BY <1>2, <1>3 DEF Insert

LEMMA EnqueueSound == ASSUME Sound, NEW c \in Clients, Enqueue(c) PROVE Sound'
<1>1. /\ UNCHANGED <<active, run, traces, announced, exec, sweep, crashes>>
      /\ client' = [client EXCEPT ![c] = NoClient]
      /\ Send(client[c].run) \/ UNCHANGED jobs
      /\ Exists(client[c].run)
  BY DEF Enqueue, Sound, ActorsOK, ClientOK
<1>2. /\ jobs' \in [Runs -> 0 .. MaxWaiting]
      /\ \A r \in Runs : jobs'[r] > 0 => jobs[r] > 0 \/ Exists(r)
  BY <1>1, Sending DEF Sound, TypeOK, Exists
<1>3. NoClient \in Client
  BY DEF NoClient, Client, Request
<1>4. Quiet
  BY <1>1 DEF Quiet, RowsStay
<1>5. TypeOK'
  BY <1>1, <1>2, <1>3 DEF Sound, TypeOK
<1>6. ActorsOK'
  BY <1>1, <1>2, <1>4, ActorsStay DEF Quiet, Sound, TypeOK
<1> QED
  BY <1>4, <1>5, <1>6, QuietStep

-----------------------------------------------------------------------------
(* The executions.                                                         *)
LEMMA FetchSound ==
    ASSUME Sound, NEW w \in Workers, NEW r \in Runs, Fetch(w, r)
    PROVE  Sound'
<1> DEFINE new == [NoExecution EXCEPT !.pc = "load", !.run = r, !.held = TRUE]
<1>1. /\ UNCHANGED <<active, run, traces, announced, client, sweep, crashes>>
      /\ jobs[r] > 0 /\ jobs' = [jobs EXCEPT ![r] = @ - 1]
      /\ exec' = [exec EXCEPT ![w] = new] /\ w \in Executors
  BY DEF Fetch, Executors
<1>2. new \in Execution /\ new.pc = "load" /\ new.run = r
  BY DEF NoExecution, Execution
<1> HIDE DEF new
<1>3. /\ jobs' \in [Runs -> 0 .. MaxWaiting]
      /\ \A q \in Runs : jobs'[q] > 0 => jobs[q] > 0
  BY <1>1, BoundsAssumption DEF Sound, TypeOK
<1>4. Quiet
  BY <1>1 DEF Quiet, RowsStay
<1>5. TypeOK'
  BY <1>1, <1>2, <1>3 DEF Sound, TypeOK
<1>6. Exists(r)
  BY <1>1 DEF Sound, ActorsOK
<1>7. ExecutionOK(w)'
  BY <1>1, <1>2, <1>6 DEF ExecutionOK, Sound, TypeOK, Exists
<1>8. ActorsOK'
  BY <1>1, <1>3, <1>4, <1>7, ActorsStay DEF Quiet, Sound, TypeOK
<1> QED
  BY <1>4, <1>5, <1>8, QuietStep

(* An execution that stops, with what becomes of its job.                  *)
LEMMA LeavingSound ==
    ASSUME Sound, NEW x \in Executors, Leave(x), Retry(x) \/ UNCHANGED jobs,
           RowsStay, run' \in [Runs -> Row], traces \subseteq traces',
           UNCHANGED <<client, sweep>>
    PROVE  ActorsOK' /\ jobs' \in [Runs -> 0 .. MaxWaiting] /\ exec' \in [Executors -> Execution]
<1>1. /\ jobs' \in [Runs -> 0 .. MaxWaiting]
      /\ \A r \in Runs : jobs'[r] > 0 => jobs[r] > 0 \/ Exists(r)
  BY Retrying DEF Sound, TypeOK
<1>2. exec' \in [Executors -> Execution] /\ \A y \in Executors : exec'[y] \in {exec[y], NoExecution}
  BY IdleTypes DEF Leave, Sound, TypeOK
<1>3. ActorsOK'
  BY <1>1, <1>2, ActorsStay
<1> QED
  BY <1>1, <1>2, <1>3

(* An execution that goes on.                                              *)
LEMMA ReadSound == ASSUME Sound, NEW c \in Executors, Read(c) PROVE Sound'
<1>1. /\ UNCHANGED <<active, run, traces, announced, jobs, client, sweep, crashes>>
      /\ exec[c].pc = "read" /\ exec[c] \in Execution /\ ExecutionOK(c)
  BY DEF Read, Sound, TypeOK, ActorsOK
<1>2. Quiet
  BY <1>1 DEF Quiet, RowsStay
<1>3. CASE Leave(c)
  BY <1>1, <1>2, <1>3, LeavingSound, QuietStep DEF Quiet, Sound, TypeOK
<1>4. CASE exec' = [exec EXCEPT ![c].pc = "load"]
  <2>1. TypeOK'
    BY <1>1, <1>4 DEF Sound, TypeOK, Execution
  <2>2. ExecutionOK(c)'
    BY <1>1, <1>4 DEF ExecutionOK, Sound, TypeOK, Execution, Exists
  <2>3. ActorsOK'
    BY <1>1, <1>2, <1>4, <2>2, ActorsStay DEF Quiet, Sound, TypeOK
  <2> QED
    BY <1>2, <2>1, <2>3, QuietStep
<1> QED
  BY <1>3, <1>4 DEF Read

LEMMA LoadSound == ASSUME Sound, NEW x \in Executors, Load(x) PROVE Sound'
<1>1. /\ UNCHANGED <<active, run, traces, announced, client, sweep, crashes>>
      /\ exec[x].pc = "load" /\ exec[x] \in Execution /\ ExecutionOK(x)
  BY DEF Load, Sound, TypeOK, ActorsOK
<1>2. Quiet
  BY <1>1 DEF Quiet, RowsStay
<1>3. CASE Leave(x) /\ Acknowledge(x)
  BY <1>1, <1>2, <1>3, LeavingSound, QuietStep DEF Quiet, Sound, TypeOK, Acknowledge
<1>4. CASE /\ exec' = [exec EXCEPT ![x].pc = "mark", ![x].hash = LoadedRuleset(exec[x].run)]
           /\ UNCHANGED jobs
  <2> DEFINE h == LoadedRuleset(exec[x].run)
  <2>1. Exists(exec[x].run)
    BY <1>1 DEF ExecutionOK
  <2>2. run[exec[x].run] \in Row
    BY <2>1 DEF Exists, Sound, TypeOK
  <2>3. h \in Rulesets /\ h \in Scope(exec[x].run)
    BY <2>1, <2>2 DEF Exists, Sound, TypeOK, LoadedRuleset, Scope, Row
  <2>4. exec' = [exec EXCEPT ![x].pc = "mark", ![x].hash = h]
    BY <1>4
  <2> HIDE DEF h
  <2>5. TypeOK'
    <3> DEFINE new == [exec[x] EXCEPT !.pc = "mark", !.hash = h]
    <3>1. new \in Execution
      BY <1>1, <2>3 DEF Execution
    <3>2. exec' = [exec EXCEPT ![x] = new]
      BY <2>4
    <3> HIDE DEF new
    <3> QED
      BY <1>1, <1>4, <3>1, <3>2 DEF Sound, TypeOK
  <2>6. /\ exec'[x].pc = "mark" /\ exec'[x].run = exec[x].run /\ exec'[x].hash = h
    BY <1>1, <2>4 DEF Sound, TypeOK, Execution
  <2>7. ExecutionOK(x)'
    BY <1>1, <2>1, <2>3, <2>6 DEF ExecutionOK, Exists, Scope
  <2>8. ActorsOK'
    BY <1>1, <1>2, <1>4, <2>4, <2>7, ActorsStay DEF Quiet, Sound, TypeOK
  <2> QED
    BY <1>2, <2>5, <2>8, QuietStep
<1> QED
  BY <1>3, <1>4 DEF Load

LEMMA MarkRunningSound == ASSUME Sound, NEW x \in Executors, MarkRunning(x) PROVE Sound'
<1>1. /\ UNCHANGED <<active, traces, announced, jobs, client, sweep, crashes>>
      /\ exec[x].pc = "mark" /\ exec[x] \in Execution /\ ExecutionOK(x)
      /\ run' = [run EXCEPT ![exec[x].run].status = "running"]
      /\ exec' = [exec EXCEPT ![x].pc = "cache"]
  BY DEF MarkRunning, Sound, TypeOK, ActorsOK
<1>2. Exists(exec[x].run)
  BY <1>1 DEF ExecutionOK
<1>3. /\ run' \in [Runs -> Row] /\ RowsStay
      /\ run'[exec[x].run].status = "running"
      /\ \A q \in Runs : q # exec[x].run => run'[q] = run[q]
  <2>1. "running" \in Statuses \ {"none"}
    BY DEF Statuses
  <2>2. exec[x].run \in Runs
    BY <1>2 DEF Exists
  <2> QED
    BY <1>1, <1>2, <2>1, <2>2, StatusOnly DEF Sound
<1>4. Quiet
  BY <1>1, <1>3 DEF Quiet, Finished
<1>5. TypeOK'
  BY <1>1, <1>3 DEF Sound, TypeOK, Execution
<1>6. Scope(exec[x].run)' = Scope(exec[x].run) \/ exec'[x].run # exec[x].run
  BY <1>1, <1>2, <1>3, ScopeStays DEF Exists, Scope
<1>7. /\ exec'[x].pc = "cache" /\ exec'[x].run = exec[x].run
      /\ exec'[x].hash = exec[x].hash
  BY <1>1 DEF Sound, TypeOK, Execution
<1>8. exec[x].hash \in Scope(exec[x].run)
  BY <1>1 DEF ExecutionOK
<1>9. ExecutionOK(x)'
  BY <1>2, <1>3, <1>6, <1>7, <1>8 DEF ExecutionOK, Exists, RowsStay
<1>10. ActorsOK'
  BY <1>1, <1>3, <1>9, ActorsStay DEF Sound, TypeOK
<1> QED
  BY <1>4, <1>5, <1>10, QuietStep

LEMMA LoadCachedTracesSound ==
    ASSUME Sound, NEW x \in Executors, LoadCachedTraces(x)
    PROVE  Sound'
<1> DEFINE h == exec[x].hash
           known == {u \in Content[h] : Earlier(h, u) # {}}
<1>1. /\ UNCHANGED <<active, run, traces, announced, jobs, client, sweep, crashes>>
      /\ exec[x].pc = "cache" /\ exec[x] \in Execution /\ ExecutionOK(x)
  BY DEF LoadCachedTraces, Sound, TypeOK, ActorsOK
<1>2. PICK replay \in [known -> Verdicts] :
        /\ \A u \in known : replay[u] \in Earlier(h, u)
        /\ exec' = [exec EXCEPT ![x].pc = "engine",
                                ![x].replay = {<<u, replay[u]>> : u \in known}]
  BY DEF LoadCachedTraces
<1> DEFINE pairs == {<<u, replay[u]>> : u \in known}
<1>3. h \in Scope(exec[x].run) /\ Exists(exec[x].run)
  BY <1>1 DEF ExecutionOK
<1>4. h \in Rulesets
  <2>1. run[exec[x].run] \in Row
    BY <1>3 DEF Exists, Sound, TypeOK
  <2> QED
    BY <1>3, <2>1 DEF Scope, Row, Exists
<1>5. Content[h] \subseteq Rules
  BY <1>4, ContentAssumption
<1>6. pairs \in SUBSET (Rules \X Verdicts)
  BY <1>2, <1>5
<1>7. /\ \A p \in pairs : p[1] \in Content[h] /\ p[2] \in Earlier(h, p[1])
      /\ \A p, q \in pairs : p[1] = q[1] => p = q
  BY <1>2
<1>8. exec' = [exec EXCEPT ![x].pc = "engine", ![x].replay = pairs]
  BY <1>2
<1> HIDE DEF pairs
<1>9. Quiet
  BY <1>1 DEF Quiet, RowsStay
<1>10. TypeOK'
  BY <1>1, <1>6, <1>8 DEF Sound, TypeOK, Execution
<1>11. /\ exec'[x].pc = "engine" /\ exec'[x].run = exec[x].run /\ exec'[x].hash = h
       /\ exec'[x].replay = pairs
  BY <1>1, <1>8 DEF Sound, TypeOK, Execution
<1>12. ReplaysRecord(x)'
  BY <1>1, <1>7, <1>11 DEF ReplaysRecord, Earlier
<1>13. ExecutionOK(x)'
  BY <1>1, <1>3, <1>11, <1>12 DEF ExecutionOK, Exists, Scope
<1>14. ActorsOK'
  BY <1>1, <1>8, <1>9, <1>13, ActorsStay DEF Quiet, Sound, TypeOK
<1> QED
  BY <1>9, <1>10, <1>14, QuietStep

LEMMA RecordFailureSound ==
    ASSUME Sound, NEW x \in Executors, RecordFailure(x)
    PROVE  Sound'
<1>1. /\ UNCHANGED <<active, traces, client, sweep, crashes>>
      /\ exec[x].pc # "idle" /\ ExecutionOK(x) /\ Leave(x) /\ Retry(x)
      /\ run' = [run EXCEPT ![exec[x].run].status = "failed"]
      /\ announced' = [announced EXCEPT ![exec[x].run] = @ \cup {"check.failed"}]
  BY DEF RecordFailure, Sound, ActorsOK
<1>2. Exists(exec[x].run)
  BY <1>1 DEF ExecutionOK
<1>3. /\ run' \in [Runs -> Row] /\ RowsStay
      /\ run'[exec[x].run].status = "failed"
      /\ \A q \in Runs : q # exec[x].run => run'[q] = run[q]
  <2>1. "failed" \in Statuses \ {"none"}
    BY DEF Statuses
  <2>2. exec[x].run \in Runs
    BY <1>2 DEF Exists
  <2> QED
    BY <1>1, <1>2, <2>1, <2>2, StatusOnly DEF Sound
<1>4. /\ announced' \in [Runs -> SUBSET {"check.completed", "check.failed"}]
      /\ \A r \in Runs : "check.completed" \in announced'[r] => "check.completed" \in announced[r]
  BY <1>1 DEF Sound, TypeOK
<1>5. Quiet
  BY <1>1, <1>3, <1>4 DEF Quiet, Finished
<1>6. /\ ActorsOK'
      /\ jobs' \in [Runs -> 0 .. MaxWaiting] /\ exec' \in [Executors -> Execution]
  BY <1>1, <1>3, LeavingSound
<1>7. TypeOK'
  BY <1>1, <1>3, <1>4, <1>6 DEF Sound, TypeOK
<1> QED
  BY <1>5, <1>6, <1>7, QuietStep

LEMMA ExpireSound == ASSUME Sound, NEW w \in Workers, Expire(w) PROVE Sound'
<1>1. /\ UNCHANGED <<active, run, traces, announced, client, sweep, crashes>>
      /\ exec' = [exec EXCEPT ![w] = [exec[w] EXCEPT !.held = FALSE]]
      /\ Retry(w) /\ w \in Executors /\ exec[w] \in Execution
  BY DEF Expire, Executors, Sound, TypeOK
<1>2. /\ jobs' \in [Runs -> 0 .. MaxWaiting]
      /\ \A r \in Runs : jobs'[r] > 0 => jobs[r] > 0 \/ Exists(r)
  BY <1>1, Retrying DEF Sound
<1>3. Quiet
  BY <1>1 DEF Quiet, RowsStay
<1>4. [exec[w] EXCEPT !.held = FALSE] \in Execution
  BY <1>1 DEF Execution
<1>5. TypeOK'
  BY <1>1, <1>2, <1>4 DEF Sound, TypeOK
<1>6. ActorsOK'
  BY <1>1, <1>2, <1>3, ActorsStay DEF Quiet, Sound, TypeOK
<1> QED
  BY <1>3, <1>5, <1>6, QuietStep

(* What Persist writes: evidence under the rulesets the run may be judged  *)
(* by, complete, and replayed from evidence.                               *)
LEMMA PersistSound == ASSUME Sound, NEW x \in Executors, Persist(x) PROVE Sound'
<1> DEFINE e == exec[x].replay
<1>0. PICK k \in Runs, h \in Rulesets :
        /\ k = exec[x].run /\ h = exec[x].hash
        /\ Exists(k) /\ h \in Scope(k) /\ ReplaysRecord(x)
  <2>1. Exists(exec[x].run) /\ exec[x].hash \in Scope(exec[x].run) /\ ReplaysRecord(x)
    BY DEF Persist, Sound, ActorsOK, ExecutionOK
  <2>2. run[exec[x].run] \in Row
    BY <2>1 DEF Exists, Sound, TypeOK
  <2> QED
    BY <2>1, <2>2 DEF Scope, Row, Exists
<1>1. /\ UNCHANGED <<active, client, sweep, crashes>>
      /\ exec[x].pc = "engine" /\ exec[x] \in Execution /\ ExecutionOK(x)
      /\ Leave(x) /\ Retry(x)
      /\ announced' = [announced EXCEPT ![k] = @ \cup {"check.completed"}]
  BY <1>0 DEF Persist, Acknowledge, Sound, TypeOK, ActorsOK
<1>2. PICK answer \in [ToEvaluate(x) -> Verdicts], degraded \in BOOLEAN :
        /\ traces' = traces \cup Recorded(x, answer)
        /\ run' = [run EXCEPT ![k].status = IF degraded THEN "degraded" ELSE "completed"]
  BY <1>0 DEF Persist, MayDegrade
<1>3. Exists(k) /\ h \in Scope(k) /\ ReplaysRecord(x)
  BY <1>0
<1>4. Content[h] \subseteq Rules
  BY ContentAssumption
<1> DEFINE s == IF degraded THEN "degraded" ELSE "completed"
<1>5. /\ run' \in [Runs -> Row] /\ RowsStay
      /\ \A q \in Runs : q # k => run'[q] = run[q]
  <2>1. s \in Statuses \ {"none"}
    BY DEF Statuses
  <2>2. run' = [run EXCEPT ![k].status = s]
    BY <1>2
  <2> HIDE DEF s
  <2> QED
    BY <1>3, <2>1, <2>2, StatusOnly DEF Sound
<1>6. \A t \in Recorded(x, answer) :
        /\ t \in Trace /\ t.run = k /\ t.hash = h
        /\ t.cached => \E o \in traces : o.hash = h /\ o.rule = t.rule /\ o.verdict = t.verdict
  <2>1. ASSUME NEW p \in e
        PROVE  /\ TraceOf(x, p[1], p[2], TRUE) \in Trace
               /\ \E o \in traces : o.hash = h /\ o.rule = p[1] /\ o.verdict = p[2]
    <3>1. p[1] \in Rules /\ p[2] \in Verdicts
      BY <1>1 DEF Execution
    <3>2. p[2] \in Earlier(h, p[1])
      BY <1>0 DEF ReplaysRecord
    <3> QED
      BY <1>0, <3>1, <3>2 DEF Earlier, TraceOf, Trace
  <2>2. ASSUME NEW u \in ToEvaluate(x)
        PROVE  TraceOf(x, u, answer[u], FALSE) \in Trace
    BY <1>0, <1>2, <1>4 DEF ToEvaluate, TraceOf, Trace
  <2> QED
    BY <1>0, <1>2, <2>1, <2>2 DEF Recorded, TraceOf
<1>7. \A u \in Content[h] : \E t \in Recorded(x, answer) : t.run = k /\ t.hash = h /\ t.rule = u
  <2> SUFFICES ASSUME NEW u \in Content[h]
               PROVE  \E t \in Recorded(x, answer) : t.run = k /\ t.hash = h /\ t.rule = u
    OBVIOUS
  <2>1. CASE u \in ToEvaluate(x)
    <3>1. TraceOf(x, u, answer[u], FALSE) \in Recorded(x, answer)
      BY <1>2, <2>1 DEF Recorded
    <3> QED
      BY <1>0, <3>1 DEF TraceOf
  <2>2. CASE u \notin ToEvaluate(x)
    <3>1. PICK p \in e : u = p[1]
      BY <1>0, <2>2 DEF ToEvaluate
    <3>2. TraceOf(x, p[1], p[2], TRUE) \in Recorded(x, answer)
      BY DEF Recorded
    <3> QED
      BY <1>0, <3>1, <3>2 DEF TraceOf
  <2> QED
    BY <2>1, <2>2
<1> DEFINE new == Recorded(x, answer)
<1>8. traces' = traces \cup new
  BY <1>2
<1> HIDE DEF new, e, s
<1>9. /\ ActorsOK'
      /\ jobs' \in [Runs -> 0 .. MaxWaiting] /\ exec' \in [Executors -> Execution]
  BY <1>1, <1>5, <1>8, LeavingSound
<1>10. announced' \in [Runs -> SUBSET {"check.completed", "check.failed"}]
  BY <1>1 DEF Sound, TypeOK
<1>11. TypeOK'
  BY <1>1, <1>5, <1>6, <1>8, <1>9, <1>10 DEF Sound, TypeOK, new
<1>12. InScope'
  <2>1. \A t \in traces : Exists(t.run)
    BY DEF Sound, InScope, TypeOK, Trace, Exists, Scope
  <2>2. \A r \in Runs : Exists(r) => Scope(r)' = Scope(r)
    BY <1>5, ScopeStays
  <2>3. \A t \in traces : t.hash \in Scope(t.run)'
    BY <2>1, <2>2 DEF Sound, InScope, Exists
  <2>4. h \in Scope(k)'
    BY <1>3, <2>2 DEF Exists
  <2>5. \A t \in new : t.hash = h /\ t.run = k
    BY <1>6 DEF new
  <2>6. \A t \in new : t.hash \in Scope(t.run)'
    BY <2>4, <2>5
  <2> QED
    BY <1>8, <2>3, <2>6 DEF InScope
<1>13. ReplayIsBought'
  <2> SUFFICES ASSUME NEW t \in traces', t.cached
               PROVE  \E o \in traces' : /\ ~ o.cached /\ o.hash = t.hash
                                        /\ o.rule = t.rule /\ o.verdict = t.verdict
    BY DEF ReplayIsBought
  <2>1. \E o \in traces : o.hash = t.hash /\ o.rule = t.rule /\ o.verdict = t.verdict
    BY <1>6, <1>8 DEF new
  <2> QED
    BY <1>8, <2>1 DEF Sound, ReplayIsBought
<1>14. AnsweredInFull'
  <2> SUFFICES ASSUME NEW r \in Runs,
                      run'[r].status \in Finished \/ "check.completed" \in announced'[r]
               PROVE  \E g \in Scope(r)' : \A u \in Content[g] :
                        \E t \in traces' : t.run = r /\ t.hash = g /\ t.rule = u
    BY DEF AnsweredInFull
  <2>1. CASE r = k
    <3>1. h \in Scope(k)'
      BY <1>3, <1>5, ScopeStays DEF Exists
    <3> QED
      BY <1>7, <1>8, <2>1, <3>1 DEF new
  <2>2. CASE r # k
    <3>1. run[r].status \in Finished \/ "check.completed" \in announced[r]
      BY <1>1, <1>5, <2>2 DEF Sound, TypeOK
    <3> QED
      BY <1>5, <1>8, <3>1, AnswersStay DEF Sound
  <2> QED
    BY <2>1, <2>2
<1> QED
  BY <1>9, <1>11, <1>12, <1>13, <1>14 DEF Sound

-----------------------------------------------------------------------------
(* Publications, the reconciler and crashes.                               *)
LEMMA PublishSound == ASSUME Sound, NEW h \in Rulesets, Publish(h) PROVE Sound'
<1>1. UNCHANGED <<run, traces, announced, jobs, client, exec, sweep, crashes>> /\ active' \in Rulesets
  BY DEF Publish
<1>2. Quiet
  BY <1>1 DEF Quiet, RowsStay
<1>3. TypeOK'
  BY <1>1 DEF Sound, TypeOK
<1>4. ActorsOK'
  BY <1>1, <1>2, ActorsStay DEF Quiet
<1> QED
  BY <1>2, <1>3, <1>4, QuietStep

LEMMA SweepSound ==
    ASSUME Sound, NEW r \in Runs, Select(r) \/ Reset(r) \/ Resend(r)
    PROVE  Sound'
<1>1. UNCHANGED <<active, traces, announced, client, exec, crashes>> /\ Exists(r)
  BY DEF Select, Stuck, Reset, Resend, Exists, Sound, ActorsOK
<1>2. sweep' \in [Runs -> {"none", "selected", "reset"}] /\ \A q \in Runs : q # r => sweep'[q] = sweep[q]
  BY DEF Select, Reset, Resend, Sound, TypeOK
<1>3. /\ run' \in [Runs -> Row] /\ RowsStay
      /\ \A q \in Runs : run'[q].status \in Finished => run[q].status \in Finished
  <2>1. CASE UNCHANGED run
    BY <2>1 DEF Sound, TypeOK, RowsStay
  <2>2. CASE run' = [run EXCEPT ![r].status = "queued"]
    <3>1. "queued" \in Statuses \ {"none"} /\ "queued" \notin Finished
      BY DEF Statuses, Finished
    <3>2. /\ run' \in [Runs -> Row] /\ RowsStay /\ run'[r].status = "queued"
          /\ \A q \in Runs : q # r => run'[q] = run[q]
      BY <1>1, <2>2, <3>1, StatusOnly DEF Sound
    <3> QED
      BY <3>1, <3>2
  <2> QED
    BY <2>1, <2>2 DEF Select, Reset, Resend
<1>4. /\ jobs' \in [Runs -> 0 .. MaxWaiting]
      /\ \A q \in Runs : jobs'[q] > 0 => jobs[q] > 0 \/ Exists(q)
  <2>1. UNCHANGED jobs \/ Send(r)
    BY DEF Select, Reset, Resend
  <2> QED
    BY <1>1, <2>1, Sending DEF Sound, TypeOK
<1>5. Quiet
  BY <1>1, <1>3 DEF Quiet
<1>6. TypeOK'
  BY <1>1, <1>2, <1>3, <1>4 DEF Sound, TypeOK
<1>7. ActorsOK'
  BY <1>1, <1>2, <1>3, <1>4, ActorsStay
<1> QED
  BY <1>5, <1>6, <1>7, QuietStep

LEMMA CrashSound == ASSUME Sound, Crash PROVE Sound'
<1>1. UNCHANGED <<active, run, traces, announced>>
  BY DEF Crash
<1>2. crashes' \in 0 .. MaxCrashes
  BY BoundsAssumption DEF Crash, Sound, TypeOK
<1>3. Quiet
  BY <1>1 DEF Quiet, RowsStay
<1>4. ASSUME ActorsOK', jobs' \in [Runs -> 0 .. MaxWaiting],
             exec' \in [Executors -> Execution], client' \in [Clients -> Client],
             sweep' \in [Runs -> {"none", "selected", "reset"}]
      PROVE  Sound'
  <2>1. TypeOK'
    BY <1>1, <1>2, <1>4 DEF Sound, TypeOK
  <2> QED
    BY <1>3, <1>4, <2>1, QuietStep
<1>5. ASSUME NEW x \in Executors, Leave(x), Retry(x), UNCHANGED <<client, sweep>>
      PROVE  Sound'
  <2>1. /\ ActorsOK'
        /\ jobs' \in [Runs -> 0 .. MaxWaiting] /\ exec' \in [Executors -> Execution]
    BY <1>1, <1>3, <1>5, LeavingSound DEF Quiet, Sound, TypeOK
  <2> QED
    BY <1>4, <1>5, <2>1 DEF Sound, TypeOK
<1>6. ASSUME NEW c \in Clients, client' = [client EXCEPT ![c] = NoClient],
             UNCHANGED <<exec, jobs, sweep>>
      PROVE  Sound'
  <2>1. NoClient \in Client
    BY DEF NoClient, Client, Request
  <2>2. ActorsOK'
    BY <1>1, <1>3, <1>6, ActorsStay DEF Quiet, Sound, TypeOK
  <2> QED
    BY <1>4, <1>6, <2>1, <2>2 DEF Sound, TypeOK
<1>7. ASSUME NEW r \in Runs, sweep' = [sweep EXCEPT ![r] = "none"],
             UNCHANGED <<exec, jobs, client>>
      PROVE  Sound'
  <2>1. ActorsOK'
    BY <1>1, <1>3, <1>7, ActorsStay DEF Quiet, Sound, TypeOK
  <2> QED
    BY <1>4, <1>7, <2>1 DEF Sound, TypeOK
<1> QED
  BY <1>5, <1>6, <1>7 DEF Crash

LEMMA StepSound == Sound /\ [Next]_vars => Sound'
<1> SUFFICES ASSUME Sound, [Next]_vars PROVE Sound'
  OBVIOUS
<1>1. CASE UNCHANGED vars
  <2>1. Quiet
    BY <1>1 DEF vars, Quiet, RowsStay
  <2>2. TypeOK'
    BY <1>1 DEF vars, Sound, TypeOK
  <2>3. ActorsOK'
    BY <1>1, <2>1, ActorsStay DEF vars, Quiet
  <2> QED
    BY <2>1, <2>2, <2>3, QuietStep
<1>2. ASSUME NEW x \in Executors, Executing(x) PROVE Sound'
  BY <1>2, ReadSound, LoadSound, MarkRunningSound, LoadCachedTracesSound, PersistSound,
     RecordFailureSound DEF Executing
<1>3. ASSUME NEW c \in Clients, Resolve(c) \/ Handling(c) PROVE Sound'
  BY <1>3, ResolveSound, FindByJobKeySound, InsertSound, EnqueueSound DEF Handling
<1> QED
  BY <1>1, <1>2, <1>3, PublishSound, ExpireSound, FetchSound, SweepSound, CrashSound DEF Next

LEMMA AlwaysSound == Spec => []Sound
BY InitSound, StepSound, PTL DEF Spec

(***************************************************************************)
(* Type correctness: no transaction of a request, an execution or the      *)
(* reconciler leaves the tables' types.                                    *)
(***************************************************************************)
THEOREM TypeCorrect == Spec => []TypeOK
<1>1. Sound => TypeOK
  BY DEF Sound
<1> QED
  BY <1>1, AlwaysSound, PTL

(***************************************************************************)
(* A run that reads as finished has a verdict on every rule of one         *)
(* ruleset, for any number of overlapping executions.                      *)
(***************************************************************************)
THEOREM AnswersAreFull == Spec => []AnsweredInFull
<1>1. Sound => AnsweredInFull
  BY DEF Sound
<1> QED
  BY <1>1, AlwaysSound, PTL

(***************************************************************************)
(* A run that names a ruleset is judged by it alone.                       *)
(***************************************************************************)
THEOREM PinIsObeyed == Spec => []JudgedUnderPin
<1>1. Sound => JudgedUnderPin
  BY DEF Sound, InScope, JudgedUnderPin, Scope
<1> QED
  BY <1>1, AlwaysSound, PTL

(***************************************************************************)
(* A replayed verdict goes back to one that was bought for the same rule   *)
(* of the same ruleset.                                                    *)
(***************************************************************************)
THEOREM ReplaysAreBought == Spec => []ReplayIsBought
<1>1. Sound => ReplayIsBought
  BY DEF Sound
<1> QED
  BY <1>1, AlwaysSound, PTL

-----------------------------------------------------------------------------
(* CheckRuns implements CheckPromise: what a step does to the promise.     *)
LEMMA PromiseStutters ==
    ASSUME Sound, RowsStay, UNCHANGED <<traces, announced>>,
           \A r \in Runs : run[r].status = "none" => run'[r] = run[r]
    PROVE  UNCHANGED Promise!promise
<1>1. \A r \in Runs : Scope(r)' = Scope(r)
  BY DEF RowsStay, Scope
<1> QED
  BY <1>1 DEF Promise!promise

LEMMA InsertAsks ==
    ASSUME Sound, NEW c \in Clients, Insert(c)
    PROVE  (\E r \in Runs : Promise!Ask(r)) \/ UNCHANGED Promise!promise
<1>0. /\ UNCHANGED <<traces, announced>>
      /\ client[c] \in Client /\ client[c].hash \in Rulesets
  BY DEF Insert, Sound, TypeOK, ActorsOK, ClientOK
<1>1. CASE UNCHANGED run
  BY <1>0, <1>1, PromiseStutters DEF RowsStay
<1>2. ASSUME NEW r \in Runs, run[r].status = "none",
             run' = [run EXCEPT ![r] =
                       [status |-> "queued", pin |-> client[c].asks.pin,
                        hash |-> client[c].hash, partial |-> client[c].asks.partial,
                        forced |-> client[c].asks.force]]
      PROVE  Promise!Ask(r)
  <2> DEFINE pin == client[c].asks.pin
             new == IF pin = NoRuleset THEN Rulesets ELSE {pin}
             scope == [q \in Runs |-> Scope(q)]
  <2>1. pin \in Rulesets \cup {NoRuleset}
    BY <1>0 DEF Client, Request
  <2>2. /\ run'[r].status = "queued" /\ run'[r].pin = pin
        /\ \A q \in Runs : q # r => run'[q] = run[q]
    BY <1>2 DEF Sound, TypeOK
  <2>3. Scope(r) = {} /\ Scope(r)' = new
    BY <1>2, <2>2 DEF Scope
  <2>4. \A q \in Runs : q # r => Scope(q)' = Scope(q)
    BY <2>2 DEF Scope
  <2>5. scope' = [scope EXCEPT ![r] = new]
    BY <2>3, <2>4
  <2>6. \/ \E h \in Rulesets : scope' = [scope EXCEPT ![r] = {h}]
        \/ scope' = [scope EXCEPT ![r] = Rulesets]
    BY <2>1, <2>5
  <2> QED
    BY <1>0, <2>3, <2>6 DEF Promise!Ask
<1> QED
  BY <1>1, <1>2 DEF Insert

(* What Persist writes are the verdicts of all rules of one ruleset, those *)
(* replayed marked as such.                                                *)
Judgement(x, h, verdict, replayed) ==
    {TraceOf(x, u, verdict[u], u \in replayed) : u \in Content[h]}

IsJudgement(x, h, new) ==
    \E verdict \in [Content[h] -> Verdicts], replayed \in SUBSET Content[h] :
        /\ \A u \in replayed : verdict[u] \in Earlier(h, u)
        /\ new = Judgement(x, h, verdict, replayed)

LEMMA RecordedIsJudgement ==
    ASSUME Sound, NEW x \in Executors, exec[x].pc = "engine",
           NEW h, h = exec[x].hash, NEW answer \in [ToEvaluate(x) -> Verdicts]
    PROVE  IsJudgement(x, h, Recorded(x, answer))
<1> DEFINE e == exec[x].replay
           replayed == {p[1] : p \in e}
           Old(u) == CHOOSE p \in e : p[1] = u
           verdict == [u \in Content[h] |-> IF u \in replayed THEN Old(u)[2] ELSE answer[u]]
<1>1. ReplaysRecord(x) /\ e \in SUBSET (Rules \X Verdicts)
  BY DEF Sound, ActorsOK, ExecutionOK, TypeOK, Execution
<1>2. \A p \in e : /\ p[1] \in Content[h] /\ p[2] \in Earlier(h, p[1]) /\ p[2] \in Verdicts
                   /\ Old(p[1]) = p
  BY <1>1 DEF ReplaysRecord
<1>3. replayed \in SUBSET Content[h]
  BY <1>2
<1>4. DOMAIN answer = Content[h] \ replayed /\ \A u \in DOMAIN answer : answer[u] \in Verdicts
  BY DEF ToEvaluate
<1>5. \A p \in e : verdict[p[1]] = p[2]
  BY <1>2
<1>6. \A u \in DOMAIN answer : verdict[u] = answer[u]
  BY <1>4
<1>7. verdict \in [Content[h] -> Verdicts]
  BY <1>2, <1>4
<1>8. \A u \in replayed : verdict[u] \in Earlier(h, u)
  BY <1>2, <1>5
<1> HIDE DEF verdict
<1>9. Recorded(x, answer) = Judgement(x, h, verdict, replayed)
  <2> DEFINE T == {TraceOf(x, u, verdict[u], u \in replayed) : u \in Content[h]}
  <2>1. ASSUME NEW t \in Recorded(x, answer) PROVE t \in T
    <3>1. CASE \E p \in e : t = TraceOf(x, p[1], p[2], TRUE)
      <4>1. PICK p \in e : t = TraceOf(x, p[1], p[2], TRUE)
        BY <3>1
      <4>2. p[1] \in Content[h] /\ verdict[p[1]] = p[2] /\ p[1] \in replayed
        BY <1>2, <1>5
      <4>3. (p[1] \in replayed) = TRUE
        BY <4>2
      <4> QED
        BY <4>1, <4>2, <4>3
    <3>2. CASE \E u \in DOMAIN answer : t = TraceOf(x, u, answer[u], FALSE)
      <4>1. PICK u \in DOMAIN answer : t = TraceOf(x, u, answer[u], FALSE)
        BY <3>2
      <4>2. u \in Content[h] /\ verdict[u] = answer[u] /\ u \notin replayed
        BY <1>4, <1>6
      <4>3. (u \in replayed) = FALSE
        BY <4>2
      <4> QED
        BY <4>1, <4>2, <4>3
    <3> QED
      BY <3>1, <3>2 DEF Recorded
  <2>2. ASSUME NEW u \in Content[h]
        PROVE  TraceOf(x, u, verdict[u], u \in replayed) \in Recorded(x, answer)
    <3>1. CASE u \in replayed
      <4>1. PICK p \in e : p[1] = u
        BY <3>1
      <4>2. (u \in replayed) = TRUE /\ verdict[u] = p[2]
        BY <1>5, <3>1, <4>1
      <4> QED
        BY <4>1, <4>2 DEF Recorded
    <3>2. CASE u \notin replayed
      <4>1. (u \in replayed) = FALSE /\ u \in DOMAIN answer /\ verdict[u] = answer[u]
        BY <1>4, <1>6, <3>2
      <4> QED
        BY <4>1 DEF Recorded
    <3> QED
      BY <3>1, <3>2
  <2> QED
    BY <2>1, <2>2 DEF Judgement
<1> QED
  BY <1>3, <1>7, <1>8, <1>9 DEF IsJudgement

(* Who is judged or fails is a run that was asked for; its scope stays.    *)
LEMMA PromiseScopeStays ==
    ASSUME Sound, NEW r \in Runs, Exists(r), NEW s \in Statuses \ {"none"},
           run' = [run EXCEPT ![r].status = s]
    PROVE  [q \in Runs |-> Scope(q)]' = [q \in Runs |-> Scope(q)]
<1>1. RowsStay /\ \A q \in Runs : q # r => run'[q] = run[q]
  BY StatusOnly DEF Sound
<1>2. \A q \in Runs : Scope(q)' = Scope(q)
  BY <1>1, ScopeStays DEF Scope
<1> QED
  BY <1>2

LEMMA PersistJudges ==
    ASSUME Sound, NEW x \in Executors, Persist(x)
    PROVE  \E r \in Runs : Promise!Judge(r)
<1>0. PICK k \in Runs, h \in Rulesets :
        k = exec[x].run /\ h = exec[x].hash /\ Exists(k) /\ h \in Scope(k)
  <2>1. Exists(exec[x].run) /\ exec[x].hash \in Scope(exec[x].run)
    BY DEF Persist, Sound, ActorsOK, ExecutionOK
  <2>2. run[exec[x].run] \in Row
    BY <2>1 DEF Exists, Sound, TypeOK
  <2> QED
    BY <2>1, <2>2 DEF Scope, Row, Exists
<1>1. PICK answer \in [ToEvaluate(x) -> Verdicts], degraded \in BOOLEAN :
        /\ traces' = traces \cup Recorded(x, answer)
        /\ run' = [run EXCEPT ![k].status = IF degraded THEN "degraded" ELSE "completed"]
  BY <1>0 DEF Persist, MayDegrade
<1>2. PICK verdict \in [Content[h] -> Verdicts], replayed \in SUBSET Content[h] :
        /\ \A u \in replayed : verdict[u] \in Earlier(h, u)
        /\ Recorded(x, answer) = Judgement(x, h, verdict, replayed)
  <2>1. exec[x].pc = "engine" /\ h = exec[x].hash
    BY <1>0 DEF Persist
  <2>2. IsJudgement(x, h, Recorded(x, answer))
    BY <2>1, RecordedIsJudgement
  <2> QED
    BY <2>2 DEF IsJudgement
<1>3. \A u \in replayed : Promise!OnRecord(h, u, verdict[u])
  <2> SUFFICES ASSUME NEW u \in replayed PROVE Promise!OnRecord(h, u, verdict[u])
    OBVIOUS
  <2>1. verdict[u] \in {t.verdict : t \in {s \in traces : s.hash = h /\ s.rule = u}}
    BY <1>2 DEF Earlier
  <2>2. PICK t \in traces : t.hash = h /\ t.rule = u /\ t.verdict = verdict[u]
    BY <2>1
  <2> QED
    BY <2>2 DEF Promise!OnRecord
<1>4. traces' = traces \cup
        {[run |-> k, hash |-> h, rule |-> u, verdict |-> verdict[u],
          cached |-> u \in replayed] : u \in Content[h]}
  BY <1>0, <1>1, <1>2 DEF Judgement, TraceOf
<1>5. announced' = [announced EXCEPT ![k] = @ \cup {"check.completed"}]
  BY <1>0 DEF Persist
<1>6. [q \in Runs |-> Scope(q)]' = [q \in Runs |-> Scope(q)]
  <2>1. (IF degraded THEN "degraded" ELSE "completed") \in Statuses \ {"none"}
    BY DEF Statuses
  <2> QED
    BY <1>0, <1>1, <2>1, PromiseScopeStays
<1>7. h \in [q \in Runs |-> Scope(q)][k]
  BY <1>0
<1>8. Promise!Judge(k)
  <2>1. \E j \in [q \in Runs |-> Scope(q)][k] :
          \E v \in [Content[j] -> Verdicts], old \in SUBSET Content[j] :
            /\ \A u \in old : Promise!OnRecord(j, u, v[u])
            /\ traces' = traces \cup
                 {[run |-> k, hash |-> j, rule |-> u, verdict |-> v[u],
                   cached |-> u \in old] : u \in Content[j]}
    BY <1>3, <1>4, <1>7
  <2> QED
    BY <1>5, <1>6, <2>1 DEF Promise!Judge
<1> QED
  BY <1>8

LEMMA RecordFailureFails ==
    ASSUME Sound, NEW x \in Executors, RecordFailure(x)
    PROVE  \E r \in Runs : Promise!Fail(r)
<1>0. PICK k \in Runs : k = exec[x].run /\ Exists(k)
  BY DEF RecordFailure, Sound, ActorsOK, ExecutionOK, Exists
<1>1. /\ run' = [run EXCEPT ![k].status = "failed"]
      /\ announced' = [announced EXCEPT ![k] = @ \cup {"check.failed"}]
      /\ UNCHANGED traces
  BY <1>0 DEF RecordFailure
<1>2. [q \in Runs |-> Scope(q)]' = [q \in Runs |-> Scope(q)]
  <2>1. "failed" \in Statuses \ {"none"}
    BY DEF Statuses
  <2> QED
    BY <1>0, <1>1, <2>1, PromiseScopeStays
<1>3. [q \in Runs |-> Scope(q)][k] # {}
  <2>1. active \in Rulesets
    BY DEF Sound, TypeOK
  <2> QED
    BY <1>0, <2>1 DEF Scope, Exists
<1>4. Promise!Fail(k)
  BY <1>1, <1>2, <1>3 DEF Promise!Fail
<1> QED
  BY <1>4

LEMMA StepKeepsPromise ==
    Sound /\ [Next]_vars => [Promise!Next]_(Promise!promise)
<1> SUFFICES ASSUME Sound, [Next]_vars
             PROVE  Promise!Next \/ UNCHANGED Promise!promise
  OBVIOUS
<1>1. CASE UNCHANGED <<run, traces, announced>>
  BY <1>1, PromiseStutters DEF RowsStay
<1>2. ASSUME NEW x \in Executors, MarkRunning(x) PROVE UNCHANGED Promise!promise
  <2>1. Exists(exec[x].run) /\ UNCHANGED <<traces, announced>>
    BY <1>2 DEF MarkRunning, Sound, ActorsOK, ExecutionOK
  <2>2. "running" \in Statuses \ {"none"} /\ exec[x].run \in Runs
    BY <2>1 DEF Statuses, Exists
  <2>3. run' = [run EXCEPT ![exec[x].run].status = "running"]
    BY <1>2 DEF MarkRunning
  <2> QED
    BY <2>1, <2>2, <2>3, PromiseScopeStays DEF Promise!promise
<1>3. ASSUME NEW r \in Runs, Reset(r) PROVE UNCHANGED Promise!promise
  <2>1. Exists(r) /\ "queued" \in Statuses \ {"none"}
    BY <1>3 DEF Reset, Sound, ActorsOK, Statuses
  <2>2. run' = [run EXCEPT ![r].status = "queued"] /\ UNCHANGED <<traces, announced>>
    BY <1>3 DEF Reset
  <2> QED
    BY <2>1, <2>2, PromiseScopeStays DEF Promise!promise
<1>4. CASE \E c \in Clients : Insert(c)
  BY <1>4, InsertAsks DEF Promise!Next
<1>5. CASE \E x \in Executors : Persist(x)
  BY <1>5, PersistJudges DEF Promise!Next
<1>6. CASE \E x \in Executors : RecordFailure(x)
  BY <1>6, RecordFailureFails DEF Promise!Next
<1>7. \/ UNCHANGED <<run, traces, announced>>
      \/ \E x \in Executors : MarkRunning(x) \/ Persist(x) \/ RecordFailure(x)
      \/ \E r \in Runs : Reset(r)
      \/ \E c \in Clients : Insert(c)
  <2>1. ASSUME NEW x \in Executors, Read(x) \/ Load(x) \/ LoadCachedTraces(x)
        PROVE  UNCHANGED <<run, traces, announced>>
    BY <2>1 DEF Read, Load, LoadCachedTraces
  <2>2. ASSUME NEW c \in Clients, Resolve(c) \/ FindByJobKey(c) \/ Enqueue(c)
        PROVE  UNCHANGED <<run, traces, announced>>
    BY <2>2 DEF Resolve, FindByJobKey, Enqueue
  <2>3. ASSUME NEW w \in Workers, Expire(w) \/ \E r \in Runs : Fetch(w, r)
        PROVE  UNCHANGED <<run, traces, announced>>
    BY <2>3 DEF Expire, Fetch
  <2>4. ASSUME NEW r \in Runs, Select(r) \/ Resend(r)
        PROVE  UNCHANGED <<run, traces, announced>>
    BY <2>4 DEF Select, Resend
  <2>5. ASSUME NEW h \in Rulesets, Publish(h) PROVE UNCHANGED <<run, traces, announced>>
    BY <2>5 DEF Publish
  <2>6. ASSUME Crash PROVE UNCHANGED <<run, traces, announced>>
    BY <2>6 DEF Crash
  <2>7. CASE Next
    BY <2>1, <2>2, <2>3, <2>4, <2>5, <2>6, <2>7 DEF Next, Executing, Handling
  <2>8. CASE UNCHANGED vars
    BY <2>8 DEF vars
  <2> QED
    BY <2>7, <2>8
<1> QED
  BY <1>1, <1>2, <1>3, <1>4, <1>5, <1>6, <1>7

(***************************************************************************)
(* The service keeps what CheckPromise says may never happen: an execution *)
(* is seen whole or not at all, judges by one ruleset of the run's scope   *)
(* and replays only what is on record, whatever retries, publications,     *)
(* overlapping executions and crashes there are.                           *)
(***************************************************************************)
THEOREM ImplementsPromise == Spec => Promise!Safety
<1>1. Init => Promise!Init
  BY DEF Init, Promise!Init, Scope, NoRow
<1> QED
  BY <1>1, AlwaysSound, StepKeepsPromise, PTL DEF Spec, Promise!Safety
=============================================================================
