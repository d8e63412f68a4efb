----------------------------- MODULE Discovery ------------------------------
(***************************************************************************)
(* Brand discovery: people start and cancel the discovery of a site        *)
(* (discovery.service.ts), jobs crawl it and report (discover-brand.ts,    *)
(* frontier.ts).  One organisation, one site and one set of options, hence *)
(* one row of discovery_runs, whose key is unique.                         *)
(***************************************************************************)
EXTENDS Integers, Sequences, FiniteSets

CONSTANTS
    Starts,      \* requests to start, each of which may send a job
    MaxCancels,  \* a bound of the model
    Retries,     \* how often a job is tried again
    Pages,       \* addresses of the site that the frontier admits
    Seed,
    Sitemap,     \* sequence of the pages that the site map names
    Links,       \* of each page, the sequence of those it links to
    Landing,     \* where a page redirects to, itself as a rule
    Role,        \* classifyRole
    Plain,       \* pages that the plain channel may reach
    MaxPages, MaxDepth

ASSUME SiteAssumption ==
    /\ IsFiniteSet(Pages) /\ Seed \in Pages /\ Sitemap \in Seq(Pages)
    /\ Links \in [Pages -> Seq(Pages)] /\ Landing \in [Pages -> Pages]
    /\ DOMAIN Role = Pages /\ Plain \subseteq Pages

ASSUME BoundAssumption ==
    /\ MaxCancels \in Nat /\ Retries \in Nat
    /\ MaxPages \in Nat \ {0} /\ MaxDepth \in Nat \ {0}

VARIABLES
    row,      \* the row of discovery_runs
    page,     \* discovered_pages, by address
    start,    \* how far each request to start has come
    job,      \* the job of each request, and what its execution holds
    cancels,  \* how often the run has been cancelled
    branded   \* whether the organisation has a brand

vars == <<row, page, start, job, cancels, branded>>

Ended == {"completed", "partial", "failed", "cancelled"}
Statuses == {"none", "queued", "running"} \cup Ended
Stages == {"harvesting", "extracting", "inducing", "checking", "reporting"}

(* An entry of the frontier; at: how many addresses had been seen with it, *)
(* which orders the queue.                                                 *)
Entry == [url : Pages, depth : Nat, at : Nat]

(* queue: the frontier; got, walled, missed: what became of the pages      *)
(* taken from it; corpus: what was harvested, once harvesting is over;     *)
(* errors: whether stageErrors holds more than notes; hadBrand (a history  *)
(* variable): whether there was a brand when the execution began.          *)
Job == [pc : {"none", "waiting", "read", "gone"} \cup Stages, left : Nat,
        queue : SUBSET Entry, got : SUBSET Pages, walled : SUBSET Pages,
        missed : SUBSET Pages, corpus : SUBSET Pages,
        errors : BOOLEAN, hadBrand : BOOLEAN]

AtRest(pc, left) ==
    [pc |-> pc, left |-> left, queue |-> {}, got |-> {}, walled |-> {},
     missed |-> {}, corpus |-> {}, errors |-> FALSE, hadBrand |-> FALSE]

(* report: the pages that the report was derived from.                     *)
Init ==
    /\ row = [status |-> "none", report |-> {}, hadBrand |-> FALSE]
    /\ page = [p \in Pages |-> "none"]
    /\ start = [s \in Starts |-> "idle"]
    /\ job = [s \in Starts |-> AtRest("none", 0)]
    /\ cancels = 0
    /\ branded \in BOOLEAN

-----------------------------------------------------------------------------
(* start: a failed or cancelled run is begun anew, any other is returned.  *)
Look(s) ==
    /\ start[s] = "idle"
    /\ start' = [start EXCEPT ![s] =
                    IF row.status \in {"none", "failed", "cancelled"} THEN "admitted" ELSE "done"]
    /\ UNCHANGED <<row, page, job, cancels, branded>>

Upsert(s) ==
    /\ start[s] = "admitted"
    /\ row' = [row EXCEPT !.status = "queued"]
    /\ start' = [start EXCEPT ![s] = "accepted"]
    /\ UNCHANGED <<page, job, cancels, branded>>

(* The send may fail: then there is no job, and the row stays.             *)
Enqueue(s) ==
    /\ start[s] = "accepted"
    /\ \/ job' = [job EXCEPT ![s] = AtRest("waiting", Retries)]
       \/ UNCHANGED job
    /\ start' = [start EXCEPT ![s] = "done"]
    /\ UNCHANGED <<row, page, cancels, branded>>

(* cancel looks at no status.                                              *)
Cancel ==
    /\ row.status # "none" /\ cancels < MaxCancels
    /\ row' = [row EXCEPT !.status = "cancelled"]
    /\ cancels' = cancels + 1
    /\ UNCHANGED <<page, start, job, branded>>

-----------------------------------------------------------------------------
(* The frontier.                                                           *)

Queued(q) == {e.url : e \in q}
Taken(j) == job[j].got \cup job[j].walled \cup job[j].missed
CountOf(j, role) == Cardinality({p \in Taken(j) : Role[p] = role})

(* Pages that were seen before, or lie too deep, are not added.            *)
Add(q, taken, links, depth) ==
    LET seen == taken \cup Queued(q)
        fresh == {i \in DOMAIN links : /\ links[i] \notin seen
                                      /\ \A k \in 1 .. i - 1 : links[k] # links[i]}
    IN  IF depth > MaxDepth THEN q
        ELSE q \cup {[url |-> links[i], depth |-> depth,
                      at |-> Cardinality(seen) + Cardinality({k \in fresh : k <= i})] :
                        i \in fresh}

(* Mutant: breadth first, whatever the role.                               *)
RankByDepth(j, e) == 10 * e.depth + (IF Role[e.url] = "home" THEN 0 ELSE 1)
Rank(j, e) ==
    1000 * CountOf(j, Role[e.url]) + 10 * e.depth + (IF Role[e.url] = "home" THEN 0 ELSE 1)

(* The lowest rank is taken next, among equals what was queued first.      *)
IsNext(j, e) ==
    \A f \in job[j].queue :
        Rank(j, e) < Rank(j, f) \/ (Rank(j, e) = Rank(j, f) /\ e.at <= f.at)

HasNext(j) == job[j].queue # {} /\ Cardinality(Taken(j)) < MaxPages

-----------------------------------------------------------------------------
(* The job.                                                                *)

(* An execution goes by the status it finds, once.                         *)
Read(j) ==
    /\ job[j].pc = "waiting"
    /\ job' = [job EXCEPT ![j] = IF row.status \in {"completed", "partial", "cancelled"}
                                 THEN AtRest("gone", 0)
                                 ELSE AtRest("read", @.left)]
    /\ UNCHANGED <<row, page, start, cancels, branded>>

(* setStage writes the status along with the stage, whatever it is.        *)
SetStage == row' = [row EXCEPT !.status = "running"]

Begin(j) ==
    /\ job[j].pc = "read"
    /\ SetStage
    /\ job' = [job EXCEPT ![j].pc = "harvesting", ![j].hadBrand = branded,
                          ![j].queue = Add(Add({}, {}, <<Seed>>, 0), {}, Sitemap, 1)]
    /\ UNCHANGED <<page, start, cancels, branded>>

(* The row of a failure does not replace any.                              *)
Note(url) == page' = [page EXCEPT ![url] = IF @ = "none" THEN "error" ELSE @]

(* Mutant: pages are stored later, when the run has made a brand.          *)
StoreLater(urls) == UNCHANGED page
(* storeHarvestedPage: replaces the row of a failure, but has nowhere to   *)
(* put a page of an organisation without brands.                           *)
Store(urls) ==
    page' = [p \in Pages |-> IF branded /\ p \in urls THEN "harvested" ELSE page[p]]

(* The page is content, a challenge, out of reach, or content that could   *)
(* not be stored, which stays in the corpus all the same.                  *)
Visit(j) ==
    /\ job[j].pc = "harvesting" /\ HasNext(j)
    /\ \E e \in job[j].queue :
         LET rest == job[j].queue \ {e}
             taken == Taken(j) \cup {e.url}
         IN  /\ IsNext(j, e)
             /\ \/ /\ job' = [job EXCEPT ![j].got = @ \cup {e.url},
                                ![j].queue = Add(rest, taken, Links[e.url], e.depth + 1)]
                   /\ Store({Landing[e.url]})
                \/ /\ job' = [job EXCEPT ![j].got = @ \cup {e.url}, ![j].queue = rest,
                                        ![j].errors = TRUE]
                   /\ Note(e.url)
                \/ /\ job' = [job EXCEPT ![j].walled = @ \cup {e.url}, ![j].queue = rest]
                   /\ Note(e.url)
                \/ /\ job' = [job EXCEPT ![j].missed = @ \cup {e.url}, ![j].queue = rest,
                                        ![j].errors = TRUE]
                   /\ Note(e.url)
    /\ SetStage
    /\ UNCHANGED <<start, cancels, branded>>

MostlyWalls(j) ==
    job[j].got = {} \/ Cardinality(job[j].walled) > Cardinality(job[j].got)

Landed(j) == {Landing[p] : p \in job[j].got}

(* What the crawl kept track of is done with.                              *)
Harvested(j, corpus) ==
    job' = [job EXCEPT ![j] = [AtRest("extracting", @.left) EXCEPT
                !.corpus = corpus, !.errors = job[j].errors, !.hadBrand = job[j].hadBrand]]

(* The plain channel may be tried or not, and serves some pages or none.   *)
PlainChannel(j) ==
    /\ job[j].pc = "harvesting" /\ ~HasNext(j) /\ MostlyWalls(j)
    /\ \E served \in SUBSET {Landing[p] : p \in Plain} :
        /\ Cardinality(served) <= MaxPages /\ Landed(j) \cup served # {}
        /\ Harvested(j, Landed(j) \cup served)
        /\ Store(served \ Landed(j))
    /\ SetStage
    /\ UNCHANGED <<start, cancels, branded>>

Extract(j) ==
    /\ job[j].pc = "harvesting" /\ ~HasNext(j) /\ ~MostlyWalls(j)
    /\ Harvested(j, Landed(j))
    /\ SetStage
    /\ UNCHANGED <<page, start, cancels, branded>>

(* The brand is found or made; enrichment and the copy pass may leave      *)
(* entries in stageErrors.                                                 *)
Induce(j) ==
    /\ job[j].pc = "extracting"
    /\ \E more \in BOOLEAN :
            job' = [job EXCEPT ![j].pc = "inducing", ![j].errors = @ \/ more]
    /\ branded' = TRUE
    /\ SetStage
    /\ UNCHANGED <<page, start, cancels>>

Check(j) ==
    /\ job[j].pc = "inducing"
    /\ job' = [job EXCEPT ![j].pc = "checking"]
    /\ SetStage
    /\ UNCHANGED <<page, start, cancels, branded>>

(* The self-check may fail, or be turned off.                              *)
Report(j) ==
    /\ job[j].pc = "checking"
    /\ \E more \in BOOLEAN :
            job' = [job EXCEPT ![j].pc = "reporting", ![j].errors = @ \/ more]
    /\ SetStage
    /\ UNCHANGED <<page, start, cancels, branded>>

(* discoveryRunStatus: a note is no failure.                               *)
Complete(j) ==
    /\ job[j].pc = "reporting"
    /\ row' = [status |-> IF job[j].errors THEN "partial" ELSE "completed",
               report |-> job[j].corpus, hadBrand |-> job[j].hadBrand]
    /\ job' = [job EXCEPT ![j] = AtRest("gone", 0)]
    /\ UNCHANGED <<page, start, cancels, branded>>

-----------------------------------------------------------------------------
(* Mutant: attempts are not counted.                                       *)
AgainForever(j) == job' = [job EXCEPT ![j] = AtRest("waiting", @.left - 1)]
(* The queue tries a job again while it has attempts left.                 *)
Again(j) ==
    job' = [job EXCEPT ![j] = IF @.left = 0 THEN AtRest("gone", 0)
                                            ELSE AtRest("waiting", @.left - 1)]

(* Mutant: only the log tells of the failure.                              *)
ThrowSilently(j) ==
    /\ job[j].pc \in Stages
    /\ Again(j)
    /\ UNCHANGED <<row, page, start, cancels, branded>>
(* Whatever throws, for one an empty corpus, fails the run and the job,    *)
(* which is tried again.                                                   *)
Throw(j) ==
    /\ job[j].pc \in Stages
    /\ row' = [row EXCEPT !.status = "failed"]
    /\ Again(j)
    /\ UNCHANGED <<page, start, cancels, branded>>

(* The process dies.  Not in the last attempt: see RunningEnds.            *)
Kill(j) ==
    /\ job[j].pc \in {"read"} \cup Stages /\ job[j].left > 0
    /\ Again(j)
    /\ UNCHANGED <<row, page, start, cancels, branded>>

Step(j) ==
    \/ Read(j) \/ Begin(j) \/ Visit(j) \/ PlainChannel(j)
    \/ Extract(j) \/ Induce(j) \/ Check(j) \/ Report(j) \/ Complete(j) \/ Throw(j)

Next ==
    \/ \E s \in Starts : Look(s) \/ Upsert(s) \/ Enqueue(s)
    \/ Cancel
    \/ \E j \in Starts : Step(j) \/ Kill(j)

Spec == Init /\ [][Next]_vars

(* The queue delivers what waits in it, and a handler that is not killed   *)
(* goes on: every fetch, render and call in it has a timeout.              *)
FairSpec == Spec /\ \A j \in Starts : WF_vars(Step(j))

-----------------------------------------------------------------------------
TypeOK ==
    /\ row \in [status : Statuses, report : SUBSET Pages, hadBrand : BOOLEAN]
    /\ page \in [Pages -> {"none", "error", "harvested"}]
    /\ start \in [Starts -> {"idle", "admitted", "accepted", "done"}]
    /\ job \in [Starts -> Job]
    /\ cancels \in Nat /\ branded \in BOOLEAN

(* The budget is shared among the roles: while a page that the site map    *)
(* named waits, no role is more than one page ahead of its role (the       *)
(* frontier is there to keep a crawl from spending it all on one kind of   *)
(* page, frontier.ts).                                                     *)
RolesShareTheBudget ==
    \A j \in Starts : \A e \in job[j].queue :
        e.url \in {Sitemap[k] : k \in DOMAIN Sitemap} =>
            \A p \in Taken(j) : CountOf(j, Role[p]) <= CountOf(j, Role[e.url]) + 1

(* A page that was harvested stays harvested, whatever later attempts and  *)
(* other executions of the run get to see of it.                           *)
HarvestedStays ==
    [][\A p \in Pages : page[p] = "harvested" => page'[p] = "harvested"]_vars

(* A run that completed without errors has a row of harvested content for  *)
(* every page that its report was derived from, whatever was killed, tried *)
(* again or cancelled, if only its organisation had a brand when the crawl *)
(* began; no report is derived from nothing.                               *)
ReportIsBacked ==
    /\ (row.status = "completed" /\ row.hadBrand) =>
            \A p \in row.report : page[p] = "harvested"
    /\ row.status \in {"completed", "partial"} => row.report # {}

(* A run is not left running: while the last attempt of a job is not       *)
(* killed, it completes, fails or is cancelled in the end.                 *)
RunningEnds == row.status = "running" ~> row.status \in Ended
=============================================================================
