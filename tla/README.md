# BrandLens: TLA+ models, checks and proofs

BrandLens checks marketing assets against the rules of a brand. Four processes
share one PostgreSQL database: the API (`apps/api`), the worker (`apps/worker`),
the analysis engine (`apps/engine`, stateless HTTP) and the web console. Jobs
travel through pg-boss queues in the same database. Every
`repo.runAs`, `ctx.withTenant` and `ctx.platform` call is one READ COMMITTED
transaction (`packages/db/src/client.ts:58-73`): it is the unit of atomicity in
all models. What is hard in this code lies between those transactions.

## Inventory

| Component | State | Operations | Interacts with | What makes it correct |
|---|---|---|---|---|
| Outbox and relay | `outbox_events`, `webhook_deliveries`, `webhook_endpoints` | emit, claim, deliver, settle, remove an endpoint | every producer (in its transaction), customers' endpoints | no event lost, no attempt sent twice, `dispatched` means told, retries bounded |
| Check runs | `check_runs`, `decision_traces`, `findings`, `cost_ledger` | request, execute, replay, persist, fail, reconcile | rulesets, queue, engine, outbox | complete and consistent evidence, right ruleset, replays only of what was bought, every run ends |
| Queue and runtime | pg-boss jobs, the in-memory batch | send, fetch, retry, expire, complete | all handlers | at-least-once, handlers tolerate repetition |
| Rules and packs | `rules`, pack reviews | propose, activate, version, retire, induce | ruleset compiler, documents | only approved rules are compiled, one active version of a key |
| Ruleset compiler | `rulesets`, `brands.active_ruleset_id` | compile, resolve, publish | rules, check runs | snapshots immutable, publication atomic and idempotent |
| Review and findings | `reviews`, `review_decisions`, `findings.status` | create, assign, decide, submit | learning jobs, outbox | decisions are learned from, what was decided is told |
| Learning | `precedents`, `rule_calibrations`, `rules.calibration` | index, calibrate | decisions, judge prompts | a precedent says what the reviewer said last, a fit is of the latest decisions |
| Scoring | none (pure) | score | check runs | what nobody decided does not move the score |
| Engine client | breaker state in memory | call, trip, probe | engine, check runs | fails fast, recovers |
| Engine pipeline | caches, budget | run tiers, vote, degrade | LLM providers | every rule gets a verdict, at most one call beyond the ceiling, the severe first |
| Assets | `assets`, `embeddings`, storage | upload, register, ingest, embed, remove | queue, storage, reconciler, checks | hash, key and file agree; an upload is ingested in the end |
| Discovery | discovery runs and pages | start, cancel, crawl, report | external sites, queue, rules | the crawl ends within its limits, reports rest on what was stored |
| Sessions (authentication, web console) | `refresh_tokens`, `memberships`, the browser's cookies, `refreshInFlight` | sign in, refresh, sign out, load a page, call the API | all requests | the cookies are those of the session, nobody is redirected for ever |
| Storage | files by key | look, read, write | assets, engine, console | a content address holds those bytes; the files of `Assets` are modelled, the rest is not |
| Tenant isolation, ontology, analytics, MCP | tables | single transactions, queries, rendering | - | not modelled, see the end |

The behaviours that are hard: a relay or an execution that overlaps another one
(cron, reconciler, nudge, redelivery and synchronous request all start the same
code); a status read in one transaction and acted on in a later one; a ruleset
published in between; a process killed anywhere; a job lost before it is sent,
retried, expired while it runs, or failed with its batch; an endpoint deleted
while it is being told; a rule activated while it is being edited; two
publications at once; requests of an outage that report after it; a budget that
is checked before what it pays for is known; a URL that serves other bytes each
time it is fetched; a file that is looked for, or read, while it is being
written, or whose write is cut short; learning jobs executed in another order
than the decisions they are of; a crawl that is cancelled, retried, or executed
twice; a session rotated by several calls and pages at once, whose rotation
fails half-way, or outlasts a sign-out. `PROJECT.json` lists them one by one
with their lines.

## Modules

| Module | Models |
|---|---|
| `Outbox` | the outbox table, the relay handler, endpoints and deliveries |
| `EventDelivery` | what the outbox promises subscribers; `Outbox` implements it |
| `CheckRuns` | `POST /v1/checks`, both executions of a run, replay, publication, queue and reconciler |
| `CheckPromise` | what the service promises whoever asks for a check; `CheckRuns` implements it |
| `Rules` | the rows of `rules` and all operations on them |
| `Rulesets` | extends `Rules` with compilation and publication, by API and worker |
| `RulesetHistory` | what publication promises auditors; `Rulesets` implements it |
| `EngineClient`, `WorkerEngineClient` | the two clients of the engine, each with its circuit breaker |
| `EngineOutage` | an engine that stops and starts, composed with both clients |
| `Scopes` | packs a brand inherits, the scope lattice, one rule per key, and the engine's own test of scopes |
| `Scoring` | the score of a run as arithmetic over its criteria |
| `Pipeline` | extends `Scopes` and `Scoring` with one run of the engine: tiers, the judge's vote, the ceiling |
| `Analysis` | extends `Pipeline` to a check from the compiled rules to the stored score |
| `Learning` | decisions on findings, precedents, calibrations, their events |
| `Assets` | upload, registration, ingestion, embedding, the reconciler's part |
| `Discovery` | discovery of a brand's site: start, cancel, crawl, stages, retries |
| `Sessions` | the session of one browser: cookies, refresh tokens, calls, page loads |
| `MC...` | values of the constants for the runs |
| `EngineProofs` | theorems about `EngineOutage`, `Scopes`, `Scoring`, `Pipeline` and `Analysis`, and their proofs |
| other `...Proofs` | theorems about the module of that name, and their proofs |

### Outbox

A row of `outbox_events` is a record of status, attempts, whether
`next_attempt_at` has passed (`due`) and its place in the order of
`created_at`. An event stands for its idempotency key, and the events of the
model stand for all keys, so `Emit` inserts only what is absent
(`onConflictDoNothing`). `relay[r]` is what one execution of `dispatchOutbox`
holds in memory. One action per transaction or HTTP call: `LockRows` (the
claim's `SELECT ... FOR UPDATE SKIP LOCKED`), `CommitClaim` (which adds an
attempt and changes nothing else), `FetchEndpoints`, `Post`, `LogDelivery`,
`Settle`. The claim is two actions because other relays skip its locked rows
and a settle waits for them. A claimed event is taken in any order, and its
endpoints in any order, since neither is ordered in the code beyond the
`RETURNING` of an `UPDATE`. `RemoveEndpoint` deletes the endpoint and, by
cascade, its deliveries; a delivery row for a deleted endpoint aborts the
handler (`LogDelivery`). `Crash` kills an execution; an open claim rolls back.
`posted` and `lost` are history variables.

Endpoints are all registered before the events. One created later would turn a
`dispatched` row into one it was never told of, which is intended: an event is
owed to those who subscribe when it is delivered.

### CheckRuns

All runs check one asset of one brand, because only those share job keys and
trace keys. A ruleset is its hash; `Content` gives the rules of it that apply
to the asset. A run's row keeps its status, the ruleset it names (`pin`,
`ruleset_id`), the hash computed at the request, and what distinguishes job
keys (`partial` for the filters, `forced` for the random suffix). A client goes
through `Resolve`, `FindByJobKey`, `Insert` and `Enqueue`, or goes on to
execute its run itself. An execution is a worker slot or that client: `Read`
(synchronous path), `Load`, `MarkRunning`, `LoadCachedTraces`, `Persist` or
`RecordFailure`. The two paths are the same code twice but for `Load`, where
the worker reads run and ruleset in one transaction. The engine call is part
of `Persist`: nothing is read or written between the answer and that
transaction, and a failure of it is `RecordFailure`. The engine answers every
rule it is asked about (`pipeline.py`, `run_analysis`); which verdict it gives
is open, and when it reports `degraded` is `MayDegrade`.

Left to choice: whether a failed job has a retry left (`Retry`), whether a send
succeeds (`Enqueue`), which of several traces of a key is the newest
(`Earlier`; `created_at` is the time a transaction began, and the traces of
executions that overlap have no other order), when a run is old enough for the
reconciler (`RECONCILE_STUCK_MINUTES`; its test is on `created_at`, so that it
stays true), and whether a job that succeeded is run again because a sibling
in its batch failed (`Acknowledge`).

Left out: findings, scores and costs, written in the same transaction as the
traces; the resolution of the asset, whose deletion makes a request or a job
fail before it writes; the caller's `Idempotency-Key`, which only makes keys
differ, as two assets would.

### Rules and Rulesets

`rule[r]` is a row of `rules`, of one brand: status, key, version, a text that
stands for all that a rule says, and whether calibration routes it to people.
Rejected and deprecated are one status, `retired`, since no code tells them
apart. `Create`, `Propose`, `Fork`, `BulkDecision` and `Calibrate` are one
transaction and one action each; where they read `max(version)` and lose a
race, the unique index refuses the insert and nothing has happened. `update` is
`BeginEdit` (its read, in a transaction of its own) and then, by the status it
read, `EditInPlace`, `EditAsVersion` or `RefuseEdit` (the index). What the
request leaves out is taken over: from the row, in place; from what was read,
in a new version.

A snapshot is the set of `Compiled` rules, `Hash` what `rulesetHash` covers of
it. A publication is `Compile`, then `Reuse` or `FindNone`, then `Insert`; the
worker's `compileRuleset` runs the same statements in one transaction, and
since each statement of a READ COMMITTED transaction sees what is committed by
then, the same actions. `enforced` is a history variable: every rule that was
ever active, with its text. `RulesetHistory` is stated over it: snapshots only
ever consist of such rules, the brand points at one of them, none is withdrawn.

Left out: who activated a rule and when, events and audit entries; the version
number of a ruleset and the scoring configuration (which is hashed); rules
inherited from packs (see `Scopes`); the snapshots that brand discovery stores under hashes of
another kind, and which no brand points at (`discover-brand.ts:1137-1145`).

### EngineClient, WorkerEngineClient, EngineOutage

The API's breaker is the record of the fields of `CircuitBreaker`, its operators
are its methods; `age` is the time since `openedAt`, in ticks up to the
cooldown. A request is one of `Calls`: `Start` asks the breaker, `Respond`
records success when the status line is there, `ReadBody` ends it, `Fail`
records a failure, `Retry` sends again without asking. The worker's client is
written anew in the code and has only a count and a time: no half-open state,
and a rejected request (`Reject`) clears the count and then counts itself.
An engine that works answers in time, and an attempt fails only if the engine
was down at some time since it was sent; an engine that is too slow is down.
`EngineOutage` instantiates both clients over one engine.

### Scopes, Scoring, Pipeline, Analysis

`Analysis` follows one check through three programs: the control plane compiles
and resolves, the engine answers, the control plane scores. A rule is a record
of what these steps read of it: key, version, pack, scope, tier, the tier of its
analyzer, severity, dimension, weight. `Scopes` has the specificity of
`specificity.ts` with its weights, `compareRules` as `Beats`, `resolveByKey` as
a recursive function over the snapshot in its order, and `rule_in_scope` of the engine, which
tests the same scopes in another way. `Scoring` is `scoring.ts` in hundredths,
so that `round2` is integer division. `Pipeline` has `run_analysis`: rules out of
scope are answered first, the rest in the order `Before`; a rule in turn is
answered without a vote (`RunFree`, `SkipOff`, `SkipCeiling`, `Unvoted`) or
voted on (`OpenVote`, `Sample`, `Escalate`, `Conclude`). The judge's
accounting is kept apart from the run's as in the code: `judged` and `calls`
grow with each answer, `spent` when the vote is over, and a vote goes by the
allowance it was given when it opened. `Persist` scores and stores.

Left to choice: what analyzers and samples say, the majority and whether
agreement and confidence suffice (`sure`), the price of each call. Left out:
prompts, evidence and its validation, the measurement cache (a pure function of
the bytes), replayed traces (in `CheckRuns`), the sub-brand, which is never
handed to the resolution.

### Learning

Findings of one rule; those of several runs on one asset share a subject, the
key of `precedents`. A decision is its place in the order of commits and has two
jobs, `index[n]` and `calibrate[n]`, each unsent, lost, waiting, half done or
done. `Decide` is the transaction of `FindingsService.decide`, the sends follow
it; `UpsertPrecedent` and `FinishIndex` are the two halves of
`indexPrecedent`, `ReadSamples` and `WriteFit` the two transactions of
`calibrateRule`; `FailIndex` and `FailCalibrate` put a job back. A fit is known
by the decisions it was computed from. `singletonKey` is not taken to collapse
jobs: pg-boss does so only under queue policies that this code does not choose.
`rivals` and `overlapped` are history variables.

### Assets

A file is its bytes and its content hash at once; a URL may serve any file at
each fetch (`Contents`). `storage` says of a content address whether it is
`Absent`, `Whole`, or who opened it last to write it. `Put` looks for the path
and takes what is there for the file; `BeginWrite` truncates the final path and
`EndWrite` has written all of it, which is how the local driver, the default,
and the worker's service write. A file read in between is `Torn`. A client goes
through `LookUp`, these three and `Insert`, or through `RegisterByUrl`, and then
`EnqueueIngest`, whose send may fail; `Abort` is an error or a crash before the
row. An execution of `ingestAsset` is a worker slot: `Take` (the row is read
once), `Fetch`, the three steps of writing if its job has the URL, `Commit`,
`SendEmbed`; `Fail` is its catch clause, which marks the asset failed whatever
its status has become, `Kill` the death of the process. `Abort`, `Fail` and
`Kill` in mid-write cut the file short (`CutShort`), and it stays at its address.
The reconciler is `SweepRead` and `SweepSend`, whose job has no URL. `Check` is
what a check does to the row; it asks for no status. `cut` and `overlapped` are
history variables: files a write of which was cut short, and files that were
looked at half-written or opened while they were there.

Left out: the extension in a content address, which differs only with the type
that the server names; drivers whose write is atomic, which are the case that no
write is cut short or seen half done.

Two uploads of one file at once may both insert it, since the look-up is a
transaction of its own and no index makes the hash unique; the run has one row,
and no property speaks of it.

### Discovery

One organisation, one site, one set of options: one row of `discovery_runs`,
whose key is unique. Each request to start (`Look`, `Upsert`, `Enqueue`) may
send a job. A job reads the status once (`Read`), then harvests (`Visit`, page
by page, as `frontier.ts` ranks them; `PlainChannel` when the site answers
mostly with walls), and goes through its stages to `Complete`. `SetStage` is
part of each of them and writes `running` whatever the status is. `Throw` is
the catch clause, `Kill` the death of the process; `Again` puts the job back
while it has attempts. What a page answers is open each time it is visited:
content, a wall, nothing, or content that cannot be stored. What is made of the
corpus is left out but for its effects on the rows: a brand comes to exist
(`branded`), entries of `stageErrors` make the run partial.

### Sessions

One user, one browser. A pair of tokens is a name: `jar` is the pair in the
cookies that all tabs share, `valid` the pairs whose row in `refresh_tokens` is
not revoked, `live` those whose access token has not expired. `trip[a]` is a
request to a route under `/api/auth`, by a call, a page load, the login form or
signOut: it leaves with the cookies of then, goes through the transactions of
the API (`Find` and `Revoke` are the two statements of the first of `refresh`, the
commit included; `Issue` is a transaction of its own), and its answer sets or
clears the cookies when it arrives (`ReceiveCall`, `ReceiveLoad`,
`ReceiveSignIn`, `ReceiveSignOut`). An API call is sent with the cookies of then
(`Send`), is over with any answer but a first 401 (`Answer`), or takes part in
the refresh of its tab (`Unauthorized`): it starts one, waits for one, or finds
one settled, since `latch[t]` (`refreshInFlight`) is released by a timer after
it is over (`Release`). A page load goes from the page to the refresh route or to
the login and from there on (`Render`, `ReceiveLoad`, `Enter`); rendering never
writes a cookie. `Outage` is a failure between console and API at any step of a
trip, `Lose` one between browser and console.

A pair nobody refers to any more is forgotten (`Forget`) and its name used
again. `disturbed` and `late` are history variables. `disturbed`: two documents
had a rotation under way at once, or one failed or its answer was lost, since a
form (login or signOut) was last answered with nothing else under way. `late`:
when the last form was answered, another request was still to change the
cookies. That request's answer then sets or clears the cookies of another
session (see Divergences), so that `CookiesMatchSession` compares cookies and
session only if not `late`; that the cookies at rest hold a pair which can be
rotated, or none, it says either way.

Left out: registration, which ends like a login; the 30 days of a refresh token;
that the cookie of an access token disappears with its lifetime, which makes the
same 401; the time between the reading of cookies and the answer of `me`
when a page is rendered.

## Runs

| Run | Question | Bounds |
|---|---|---|
| `outbox_fanout` | type, `DispatchedMeansTold`, `AttemptsAreBounded`, `EveryPostIsNew` | one event, two endpoints, two relays, `MaxAttempts` 2, one crash |
| `outbox_batch` | `EventuallySettled`, `KeepsPromise` (`EventDelivery`) | two events in a batch, one of which nobody subscribes to, two relays, one crash |
| `checks_replay` | type, `ReplayIsBought` | two runs, two synchronous clients, two rulesets that share a judged rule, two verdicts |
| `checks_promise` | `AnsweredInFull`, `JudgedUnderPin`, `EventuallyEnds`, `KeepsPromise` (`CheckPromise`) | one run, a client, a worker, two rulesets of which the second drops one of two rules, one waiting job, one crash |
| `engine_outage` | types, `ClosedIsClean`, `Recovers`, `ShieldsFromOutage` | two requests of the API with 0 or 1 retries, one of the worker with 1; thresholds 2, 2 and 3; cooldowns of 2 ticks |
| `rulesets_history` | type, `VersionsIdentify`, `OneRulesetPerHash`, `KeepsPromise` (`RulesetHistory`) | two rows of one key, one text, an editor, two publishers, two snapshots |
| `rules_snapshot` | refutes `PublishesWhatItCompiled` | one row, a publisher |
| `learning_fit` | type, `LastWordOrRival`, `DroppedEventsWereTold`, `UndisturbedFitIsCurrent` | one finding, three decisions, a calibration reads the last two of them, one failure |
| `assets_ingest` | type, `ContentAddressed`, `IngestedInTheEnd` | one row, two files, two clients of whom one may upload one of the files, two workers, one retry, one failure or kill |
| `analysis_verdict` | `NarrowestAxisDecides`, `TurnedAwayForWildcards`, `OvershootIsOneCall`, `SevereFirst`, `GapsAreNeutral`, `EveryRuleIsAnswered` | snapshots of up to three of eight rules, two assets, a ceiling of 5, calls at 2, votes of 1 and, when unsure, 3 samples |
| `discovery_crawl` | type, `RolesShareTheBudget`, `ReportIsBacked`, `RunningEnds` | three pages in two roles, one a redirect, a budget of two, two requests, one retry each, one cancellation |
| `sessions_rotation` | type, `CookiesMatchSession`, `EverythingIsAnswered` | one tab with two calls, a page load, two events: sign-ins, sign-outs, expiries, failures, losses, a removal |

Why the bounds are enough to be interesting: every hazard of the relay needs two
executions and an event with two endpoints or a batch of two; two attempts reach
success, retry and dead letter, and the resurrection of a settled row by a late
relay. A replay needs two runs of the same key parts, the second after or during
the first; with two rulesets a wrong key or a wrong ruleset shows; with two
verdicts a changed answer shows. Answers in full, pins and termination concern
one run, executed by its request and by a worker at once, with one waiting job
(so that a send may find the queue full, which stands for one that fails), one
crash at any point and retries; with two rules, and a second ruleset that has
only one of them, a set of verdicts can be partial, or of both rulesets. A late
report to a breaker needs two requests; the thresholds are above one and
reachable only by several attempts, the worker's only by two requests one after
the other, as in the code (8, of at most 4 attempts each). Two rows are two
versions of a rule, so that an edit and a creation compete for a version and two
publications for a hash; a calibration between them makes snapshots that differ
under one hash. With one text, `KeepsPromise` is checked there for keys and
versions; for texts it is proved. `Runs`, `MaxWaiting`, `MaxCrashes`, `Rows` and
`MaxRulesets` exist for the model only. A precedent may be overtaken with three
decisions (a lost one, one still open, the last), and a limit of two samples is
passed by the third, so that two fits have equally many. Two workers and a URL
that serves two files are what it takes for two ingestions to store different
files; with the upload of one of them, a file is looked for, opened and read
while it is half-written, and one failure cuts a write short that a retry or
another job then finds. The eight rules are chosen so that four of them compete
for one key (shipped, own, narrow on four broad axes, narrow on the campaign
alone), one spells out a wildcard, one is declared below the tier of its
analyzer, one is the overall judgment; three at a time reach every pair that
matters under a ceiling that two calls leave and three pass. A budget of two
pages out of three makes the frontier choose, the redirect makes the page
visited and the page stored differ. Two calls of a tab share a refresh or just
miss it, a page load is the other document; one event is the expiry without
which nothing rotates, the other what goes wrong, or who signs in or out,
meanwhile; the run begins signed out, signed in, or with cookies that an earlier
failure left spent. `Tokens` holds more pairs than are ever referred to at once.
(The safety properties also hold with four events, 13.9 million states, where
the liveness takes too long.) `MaxEvents`, `MaxRows`, `MaxDecisions`,
`MaxFailures`, `Uploads`, `MaxCancels` and `Ids` exist for the model only.
Beyond these sizes the safety properties listed under Proofs are proved.
`CHECK_DEADLOCK FALSE` is there because the outbox and the check runs come to
rest once every event is settled or every run has ended, the rulesets when rows
and snapshots are used up, learning, assets and discovery when every job is
done. `EngineOutage` never stops.

**Fairness.** `Outbox!Fairness` is weak fairness of each relay and of the clock:
the cron entry of `main.ts:98` starts an execution each minute, each HTTP call
has a timeout, a handler that is alive goes on. `CheckRuns!Fairness` is weak
fairness of each execution and of each run's turn in the reconciler
(`main.ts:100`), and strong fairness of fetching a run's job: the worker polls
and the queue is first in, first out, so that a waiting job is not overtaken
for ever although the slots are busy each time it looks. `EngineOutage!Fairness` is weak
fairness of the clock, of every open attempt and back-off (each fetch is aborted
by its timer), and of the arrival of requests, without which nothing would
half-open a breaker. No fairness is assumed of the engine's outages, of
clients, publications, crashes, the engine's success, an endpoint's answer,
or of a retry. `Assets!FairSpec`
is weak fairness of each worker, of the reconciler's turn for each asset and of
embedding. `Analysis!FairSpec` is weak fairness of `Next`: one thread runs the
loop, and each call of a model times out. `Discovery!FairSpec` is weak fairness
of each job's steps; killed executions are not excluded, except in a job's last
attempt, where the code leaves the run `running` for good. `Sessions!Fairness` is
weak fairness of each call, of each page load and of the timer that releases a
latch: a browser goes on with the answers it gets, a request is answered or fails,
and signing in or out is up to the user. It lets the run check for deadlock:
somebody can always open a page or call again.

**Divergences.** One statement of the code's documents is refuted by a run;
`PROJECT.json` quotes it under "findings": a publication may leave the brand with
a snapshot that is not what it compiled. A second one is contradicted by the
engine: a scope axis spelled `*` is unconstrained for the control plane
(`specificity.ts:49`, `specificity.spec.ts:54` and `90`), which resolves the rule
for the asset, and a value like any other for the engine (`pipeline.py:360`),
which answers it `not_applicable`. `TurnedAwayForWildcards` says exactly when,
in both directions, so that it holds.

The models have these too, without a property of their own:

* Outbox: overlapping relays deliver one event at the same time, since the claim
  leaves the row pending and due (`dispatch-outbox.ts:43`), where the comment at
  line 22 has "two concurrent relays never send the same event twice".
* Check runs: a completed run is set back by an execution, or a reconciler, that
  looked before it completed (`checks.service.ts:207` and the comment at 190); a
  `deterministicOnly` run has judged rules bought, since the filters only enter
  the key (`docs/api.md:170`, "fast and free"); a run is filed and reused under
  the key of the ruleset that was active when it was asked for, and judged by
  the one active when it starts (comment at 124); a failed run is reused for its
  key; `force` bypasses the job key and not the traces (`docs/api.md:302`); and
  since `trace_key` contains the hash of the ruleset, an edit of one rule buys
  every rule again (`docs/architecture.md:486-489` has only that one).
* Engine client: the half-open breaker lets every request through, where
  `circuit-breaker.ts:5` has "one probe"; a request the engine rejects is retried
  and counted by the worker, where `services/engine.client.ts:121` has "must not
  count against the breaker".
* Rules: a rule read as proposed and activated since, or one that was in force
  and is deprecated, is edited in place (`rules.service.ts:158-163`, comment at
  145), so that two published snapshots may hold different texts under one key
  and version.
* Analysis: specificity outranks ownership, where `specificity.ts:98-103` has the
  brand's own rule win every time; two inherited templates that tie are decided
  by the order of the database's rows; a ceiling of 0 falls back to the default;
  the page text read by a model is neither charged to the run's results nor held
  back by the ceiling, and a budget it uses up between the check and the vote
  makes the vote abstain without marking the run degraded; a run without a model
  is not degraded; when all rules are declared deterministic, one whose analyzer
  needs the model is not judged (`checks.service.ts:325`); the judge may lower
  the severity of a failed blocker (`judge.py:558`, `docs/data-model.md:441`).
* Learning: a comment on a finding that was overridden is indexed as the verdict
  `fail` (`humanVerdictFor`); the event of a calibration has the number of its
  samples as key, so that none is told once that is at its limit of 2000; a
  calibration reads the decisions of the whole organisation on the rule's key.
* Assets: a file at its content address need not be that content: the write is to
  the final path, and a file that is half-written, or whose write was killed or
  failed, is taken for stored by whoever looks for it next
  (`local.driver.ts:45`, `services/storage.service.ts:67`, `ingest-asset.ts:76`), the
  retry of the same job included, where `docs/adr/0009-local-storage-default.md:54-56`
  has "content-addressed files are immutable once written" and
  `docs/data-model.md:477` the "sha256 of the bytes" (`ContentAddressed` says when
  this cannot be); a check before the ingestion marks the asset analyzed, and the
  ingestion then takes it for done, so that the provisional hash stays; the
  reconciler's job for an asset registered by URL keeps the URL as storage key;
  a late failing ingestion marks an ingested asset failed, which the reconciler
  does not look for; a job killed between `Commit` and `SendEmbed` leaves no
  embedding.
* Discovery: a cancelled run is set back to `running` by the next stage or page
  of its own job, which reads the status only once (`discover-brand.ts:92`),
  where `discovery.service.ts:179` has "The worker checks status between
  stages"; a later execution overwrites a completed run; a run whose last
  attempt is killed stays running, one whose send fails stays queued, and the
  reconciler looks at neither; pages are not stored while the organisation has
  no brand, though they enter the corpus and the report; a restart keeps the
  first `seedUrl`.
* Sessions: two documents that refresh at once rotate one token twice, and the one
  that is refused clears the cookies the other has just written; a refresh that
  is answered after a sign-out sets the cookies again, and a user who signed out
  is signed in (`app-shell.tsx:89-94`, `auth.ts:156-169`), where
  `logout/route.ts:10` has "always clear locally", and one refused after a
  sign-in clears the cookies of the new session (the cases of `late`); any failure of the
  API during a refresh clears the cookies (`rotateSession`), where its comment has
  null "when the session is truly gone" and the page shown when the API does not
  answer has "Your session is intact"; revocation and issue are two transactions,
  where `auth.service.ts:141` has "in the same transaction", so that a failure
  between them leaves no token; the cookie has the lifetime of the access token,
  where `auth.ts:87` has "a little headroom under".

Met while reading and not in a model: `PATCH` of a proposed rule with status
`active` activates it without recording who did (`patchFrom`), where
`docs/adr/0008-rules-land-as-proposed.md` has "Activation records
`activated_by_user_id` and `activated_at`". `RulePacksService.fork` states that
"forking never changes what is enforced" (`rule-packs.service.ts:317`), but does
not ask whether the brand inherits the pack: the fork of an active template from
a pack that is off puts it in force. A second `submit` of a review changes its
state and its event is dropped under the key of the first
(`review.service.ts:254`), and an assignment reopens a decided review. Changing
a role and removing a member each count the owners and then write
(`organizations.service.ts:178-197`), so that two owners who remove each other at
once may leave none.

## Proofs

`OutboxProofs` proves, for any events, endpoints, subscriptions, relays and
limits:

* `TypeCorrect`: `Spec => []TypeOK`;
* `PostsAreNew`: `Spec => EveryPostIsNew`. Inductive invariant: every attempt
  number a relay holds was counted in the row, no two relays hold the same one
  for an event, and what was posted carries a number that was counted, by its
  holder only for endpoints it has done with. The claim makes the number unique
  because it counts it under the row's lock;
* `DispatchedIsTold`: `Spec => []DispatchedMeansTold`. The strengthening says
  what a relay with `allOk` has logged so far: for each subscribed endpoint
  that still exists it is either still to be told or was acknowledged in this
  attempt. Deleting an endpoint deletes its rows and its claim at once;
* `ImplementsPromise`: `Spec => Promise!Safety`, the safety half of
  `EventDelivery`. Each transaction is one step of the promise or none; a relay
  tells only who subscribes (`AsksSubscribers`), and a batch counts an attempt
  of each of its events at once;
* `AttemptsStayBounded`: `Spec => []AttemptsAreBounded`. The limit bounds the
  claims of a row that is pending, but an execution that claimed below the limit
  may set a dead row back to pending, for the free ones to claim again. The
  argument is a potential (`Fits`, in `Stopping`): a holder below the limit has
  set aside what the executions then free may claim, a claim is paid from what a
  pending row has, and a claim that is lost is allowed for.

`CheckRunsProofs` proves, for any runs, rulesets, rules, clients and workers:

* `TypeCorrect`;
* `AnswersAreFull`, `PinIsObeyed`, `ReplaysAreBought`, all from the inductive
  invariant `Sound`: types; every actor refers to a run that exists, has loaded
  a ruleset in the run's scope, and replays verdicts that are on record, one
  for each rule; all evidence is in scope; replays were bought; finished runs
  are answered in full. `AnsweredInFull` is not inductive without the
  executions' part, since `Persist` completes a set of traces whose other half
  was chosen by `LoadCachedTraces` steps before;
* `ImplementsPromise`: `Spec => Promise!Safety`, the safety half of
  `CheckPromise`. Most steps are `Quiet` (rows stay, no evidence, no
  announcement, nothing finished) and stutter; a run is finished only by a step
  that has its answers.

`RulesetsProofs` proves, for any finite number of rows and any keys, texts,
editors and publishers:

* `TypeCorrect`, `VersionsAreIdentities` and `HashesAreIdentities`, from the
  inductive invariant `IInv`. Two lemmas carry the versions: operations that
  leave key, version and existence of all rows alone, and the insertion of a
  row whose version is free while all below it are taken. Both ways to choose a
  version fit the second: `max + 1` because the versions have no gaps (and a
  finite set has a maximum, `MaxIsGreatest`), `current.version + 1` because the
  row that was read still exists;
* `KeepsItsPromise`: `Spec => KeepsPromise`, that publication implements
  `RulesetHistory`. `OnRecord` is needed: what is in force, and what a
  publication holds between its transactions, is in the history. It is here
  that a rule retired, or edited in place, between compilation and publication
  does no harm.

`EngineProofs` proves about the clients, for any requests, retries, thresholds
and cooldowns, `ClientTypes` (`OutageSpec => []ClientTypesOK`) and
`ForgetsOutages` (`OutageSpec => []ClosedIsClean`). The types come first, since
the breaker's count is bounded only because it trips; each operator of the
breaker then keeps both. About one check it proves, for any finite set of rows,
any packs, assets, weights, ceiling, prices and numbers of samples:

* `CeilingHolds`: `Spec => []OvershootIsOneCall`. The invariant (`Books`)
  relates the accounts: what the judge was paid is in the run's cost or in that
  of the open vote, and what was spent before a vote is, with its allowance,
  within the ceiling;
* `SevereGoFirst`: `Spec => []SevereFirst`. The invariant (`InOrder`) says that a
  judged rule comes `Before` all that are unanswered or were turned away for the
  ceiling, and that the model is off once one was;
* `ScopesDecide`: `Spec => []NarrowestAxisDecides`, `WildcardsAreTurnedAway`:
  `Spec => []TurnedAwayForWildcards`, and `CheckTypes` with them. The
  invariant (`Resolved`) says that the rules of the request are `Sound`: they
  match the asset, one for each key, and every matching row of the snapshot has
  a winner of its key that it does not beat; and that the rules answered for their
  scope are those out of the engine's. `Consider` keeps `Sound` since
  `Beats` is a strict order (`BeatsIsOrder`); `ResolveIsSound` then follows for
  every sequence of rows, by the smallest prefix that would not be sound. That
  the narrowest axis decides comes down to the weights: that of an axis exceeds
  all broader ones together (`NarrowerIsMoreSpecific`);
* `GapsDoNotCount`: `Spec => []GapsAreNeutral`. The invariant (`Settled`) says
  that a run which has ended keeps its answers and that its score is theirs.
  The rest is about `Score` and holds for any criteria (`ScoreMoves`): a
  criterion that is not counted changes nothing; one that failed moves the
  percentage of its dimension down, one that passed up (`PercentMoves`), or it
  is the first of its dimension and joins the mean at 0 or 100 percent
  (`MeanMoves`). Rounding keeps the order since division does
  (`DivKeepsOrder`). Sums over finite sets are those of the community modules;
  what they are (`SumUnfolds` to `SumOfSubset`) is proved for the smallest set
  that would be an exception, as the induction theorems cannot be used.

`AssetsProofs` proves `TypeCorrect` and `AddressesAreTrue`
(`Spec => []ContentAddressed`). The strengthening says of each client
and execution that the file it is about to commit or insert is there (`Kept`), as
a whole unless the file is `Spoilt`, of each row the same (`Addressed`), and of the
hash that it is the file's or, if spoilt, of a part (`PartOf`). It rests on
`Written`: a file that is not spoilt is written only by who opened it, and who
opened one that no write was cut short of is still writing it, so that a path
nobody writes is whole.

`LearningProofs` proves `TypeCorrect` and `LastWordStands`
(`Spec => []LastWordOrRival`). The strengthening says that whatever job can
still replace a precedent is that of the last decision on its subject or of a
rival of it, and that, once the last decision has been indexed, nobody else has
replaced it. `DroppedWereTold` and `UndisturbedIsCurrent`: every fit is a window of
the last decisions at some time and was told under its size; short of the limit
the size says which window it is; and as long as no two executions overlapped,
one that is under way has read all decisions whose jobs are done.

`DiscoveryProofs` proves, for any finite site and any number of requests,
`TypeCorrect`, `HarvestsStay` (`Spec => HarvestedStays`), `ReportsAreBacked`
(`Spec => []ReportIsBacked`) and `BudgetIsShared`
(`Spec => []RolesShareTheBudget`). The invariant (`Backed`) says of every execution that
each page it has content of is on record, unless an error is counted, and that an
organisation does not lose its brand. For
the budget, the invariant (`InLine`) says that all pages of the site map are in
the queue from the start, at a depth of one at most, and that none of them still
waits whose role has two pages less than another: depth and the preference for
home pages weigh less than one page taken of a role.

`SessionsProofs` proves, for any tabs, calls and page loads, `TypeCorrect` and
`CookiesAreTheSessions` (`Spec => []CookiesMatchSession`). The invariant (`Whole`)
says
that, undisturbed, at most one rotation is under way (`Alone`), that it was
sent with the pair in the jar (`Matched`, unless `late`), and that a pair which was granted is
in nobody else's hands (`Unshared`), so that no other trip can revoke it. That
there is a pair which nobody refers to follows by counting (`NewTokenIsNew`) from
`TokensAssumption`: there are more pairs than calls and trips can hold, as random
tokens allow.

They rest on the assumptions on constants named in the modules, which TLC
evaluates on each run. `RowsAssumption` and `RulesAssumption` say that the tables
are finite and their columns typed; weights are whole in a unit small enough.
`tlapm` on each of the eight modules checks every step.

Every invariant and every action property that a run checks is stated by a
theorem; of `EventDelivery` and `CheckPromise` it is the safety half. Only
model-checked: the liveness properties and the other half of these promises,
since fairness and ENABLED are beyond the prover.

## Plan

1. `Outbox`, `CheckRuns` with their abstract specifications and proofs: done.
2. `EngineClient`, `WorkerEngineClient`, `EngineOutage`, with proofs: done.
3. `Rules`, `Rulesets` with `RulesetHistory`, with proofs: done.
4. `Learning`, with proofs: done. To come: `reviews` (assign, submit).
5. `Scopes`, `Scoring`, `Pipeline`, `Analysis`, with proofs of the budget: done.
   To come: packs switched on and off, and the fork of a template.
6. `Assets` and `Discovery`, with proofs: done.
7. `Sessions`, with proofs: done. To come: membership and its last owner.
8. The safety half of the refinements of `EventDelivery` and `CheckPromise`, the
   resolution of rules and the arithmetic of the score, proved: done.

## Not modelled

Tenant isolation is SQL policy; signed URLs, derived files and the other drivers of
storage, the pages of the console, MCP, assembly,
prediction and analytics keep no state that two actors contend for; the
analyzers (computer vision, OCR, colour, typography, document parsing) are
numerical, and their verdicts are left to choice where they are used. Prompts,
embeddings and the logistic fit are floating-point arithmetic or text. Seed data
and the schemas of requests are data. Reviews, API keys, the roles of members and
the enabling of packs are single-transaction services that are read and not
written yet; `PROJECT.json` marks them.
