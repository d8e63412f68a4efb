-------------------------- MODULE DiscoveryProofs ---------------------------
(***************************************************************************)
(* Theorems about Discovery, for any site, budget, number of requests and  *)
(* of retries: what is on record of the pages, what a report is derived    *)
(* from, and how the frontier spends its budget.                           *)
(***************************************************************************)
EXTENDS Discovery, FiniteSetTheorems, WellFoundedInduction, TLAPS

(* The frontier stays a set of entries.                                    *)
LEMMA AddKeepsEntries ==
    ASSUME NEW q \in SUBSET Entry, NEW taken \in SUBSET Pages, NEW links \in Seq(Pages),
           NEW depth \in Nat
    PROVE  Add(q, taken, links, depth) \in SUBSET Entry
<1> DEFINE seen == taken \cup Queued(q)
           fresh == {i \in DOMAIN links : /\ links[i] \notin seen
                                          /\ \A k \in 1 .. i - 1 : links[k] # links[i]}
           at(i) == Cardinality(seen) + Cardinality({k \in fresh : k <= i})
<1>1. Cardinality(seen) \in Nat
  <2>1. seen \subseteq Pages
    BY DEF Queued, Entry
  <2> HIDE DEF seen
  <2> QED
    BY <2>1, SiteAssumption, FS_Subset, FS_CardinalityType
<1>2. \A i : Cardinality({k \in fresh : k <= i}) \in Nat
  <2>1. DOMAIN links = 1 .. Len(links) /\ Len(links) \in Nat
    OBVIOUS
  <2>2. IsFiniteSet(1 .. Len(links))
    BY <2>1, FS_Interval
  <2>3. fresh \subseteq 1 .. Len(links)
    BY <2>1
  <2> HIDE DEF fresh
  <2> QED
    BY <2>2, <2>3, FS_Subset, FS_CardinalityType
<1>3. \A i \in fresh : links[i] \in Pages /\ at(i) \in Nat
  <2>1. \A i \in fresh : links[i] \in Pages
    OBVIOUS
  <2> HIDE DEF fresh, seen
  <2> QED
    BY <1>1, <1>2, <2>1
<1>4. Add(q, taken, links, depth) =
        IF depth > MaxDepth THEN q
        ELSE q \cup {[url |-> links[i], depth |-> depth, at |-> at(i)] : i \in fresh}
  BY DEF Add
<1> HIDE DEF at, fresh, seen
<1> QED
  BY <1>3, <1>4 DEF Entry

LEMMA AtRestIsJob ==
    ASSUME NEW pc \in {"none", "waiting", "read", "gone"}, NEW left \in Nat
    PROVE  AtRest(pc, left) \in Job
BY DEF AtRest, Job

(* What becomes of a job whose execution ends before its work is done.     *)
LEMMA AgainIsAtRest ==
    ASSUME TypeOK, NEW j \in Starts, Again(j)
    PROVE  /\ job' \in [Starts -> Job]
           /\ \A i \in Starts : i # j => job'[i] = job[i]
           /\ job'[j].pc \in {"waiting", "gone"}
<1>1. job[j].left \in Nat
  BY DEF TypeOK, Job
<1>2. PICK pc \in {"waiting", "gone"}, left \in Nat : job' = [job EXCEPT ![j] = AtRest(pc, left)]
  <2>1. CASE job[j].left = 0
    <3>1. job' = [job EXCEPT ![j] = AtRest("gone", 0)]
      BY <2>1 DEF Again
    <3> QED
      BY <3>1
  <2>2. CASE job[j].left # 0
    <3>1. job' = [job EXCEPT ![j] = AtRest("waiting", job[j].left - 1)]
      BY <2>2 DEF Again
    <3>2. job[j].left - 1 \in Nat
      BY <1>1, <2>2
    <3> QED
      BY <3>1, <3>2
  <2> QED
    BY <2>1, <2>2
<1> QED
  BY <1>2, AtRestIsJob DEF TypeOK, AtRest

LEMMA InitTyped == Init => TypeOK
BY AtRestIsJob DEF Init, TypeOK, Statuses

LEMMA StepTyped == TypeOK /\ [Next]_vars => TypeOK'
<1> SUFFICES ASSUME TypeOK, [Next]_vars PROVE TypeOK'
  OBVIOUS
<1> USE DEF TypeOK
<1>1. ASSUME NEW s \in Starts, Look(s) PROVE TypeOK'
  BY <1>1 DEF Look
<1>2. ASSUME NEW s \in Starts, Upsert(s) PROVE TypeOK'
  BY <1>2 DEF Upsert, Statuses
<1>3. ASSUME NEW s \in Starts, Enqueue(s) PROVE TypeOK'
  BY <1>3, AtRestIsJob, BoundAssumption DEF Enqueue
<1>4. CASE Cancel
  BY <1>4 DEF Cancel, Statuses, Ended
<1>5. SetStage => row' \in [status : Statuses, report : SUBSET Pages, hadBrand : BOOLEAN]
  BY DEF SetStage, Statuses
<1>6. ASSUME NEW j \in Starts, Read(j) PROVE TypeOK'
  <2>1. AtRest("gone", 0) \in Job /\ AtRest("read", job[j].left) \in Job
    BY AtRestIsJob DEF Job
  <2> QED
    BY <1>6, <2>1 DEF Read
<1>7. ASSUME NEW j \in Starts, Begin(j) PROVE TypeOK'
  <2> DEFINE q1 == Add({}, {}, <<Seed>>, 0)
             q2 == Add(q1, {}, Sitemap, 1)
  <2>1. q1 \in SUBSET Entry
    <3>1. <<Seed>> \in Seq(Pages) /\ {} \in SUBSET Entry /\ {} \in SUBSET Pages /\ 0 \in Nat
      BY SiteAssumption
    <3> QED
      BY <3>1, AddKeepsEntries
  <2>2. q2 \in SUBSET Entry
    BY <2>1, SiteAssumption, AddKeepsEntries
  <2>3. job' = [job EXCEPT ![j] = [@ EXCEPT !.pc = "harvesting", !.hadBrand = branded,
                                            !.queue = q2]]
    BY <1>7 DEF Begin
  <2> HIDE DEF q1, q2
  <2>4. [job[j] EXCEPT !.pc = "harvesting", !.hadBrand = branded, !.queue = q2] \in Job
    <3>1. job[j] \in Job /\ branded \in BOOLEAN
      OBVIOUS
    <3> QED
      BY <2>2, <3>1 DEF Job, Stages
  <2>5. job' \in [Starts -> Job]
    BY <2>3, <2>4
  <2> QED
    BY <1>5, <1>7, <2>5 DEF Begin
<1>8. ASSUME NEW j \in Starts, Visit(j) PROVE TypeOK'
  <2>1. PICK e \in job[j].queue :
          LET rest == job[j].queue \ {e}
              taken == Taken(j) \cup {e.url}
          IN  \/ /\ job' = [job EXCEPT ![j].got = @ \cup {e.url},
                               ![j].queue = Add(rest, taken, Links[e.url], e.depth + 1)]
                 /\ Store({Landing[e.url]})
              \/ /\ job' = [job EXCEPT ![j].got = @ \cup {e.url}, ![j].queue = rest,
                                       ![j].errors = TRUE]
                 /\ Note(e.url)
              \/ /\ job' = [job EXCEPT ![j].walled = @ \cup {e.url}, ![j].queue = rest]
                 /\ Note(e.url)
              \/ /\ job' = [job EXCEPT ![j].missed = @ \cup {e.url}, ![j].queue = rest,
                                       ![j].errors = TRUE]
                 /\ Note(e.url)
    BY <1>8 DEF Visit
  <2> DEFINE rest == job[j].queue \ {e}
             taken == Taken(j) \cup {e.url}
             longer == Add(rest, taken, Links[e.url], e.depth + 1)
  <2>2. /\ job[j] \in Job /\ e \in Entry /\ rest \in SUBSET Entry
        /\ e.url \in Pages /\ taken \in SUBSET Pages
    BY DEF Job, Entry, Taken
  <2>3. longer \in SUBSET Entry
    <3>1. Links[e.url] \in Seq(Pages) /\ e.depth + 1 \in Nat
      BY <2>2, SiteAssumption DEF Entry
    <3> HIDE DEF rest, taken
    <3> QED
      BY <2>2, <3>1, AddKeepsEntries
  <2>4. page' \in [Pages -> {"none", "error", "harvested"}]
    BY <2>1, <2>2 DEF Store, Note
  <2>5. job' \in [Starts -> Job]
    <3> HIDE DEF rest, longer
    <3>1. \/ job' = [job EXCEPT ![j].got = @ \cup {e.url}, ![j].queue = longer]
          \/ job' = [job EXCEPT ![j].got = @ \cup {e.url}, ![j].queue = rest, ![j].errors = TRUE]
          \/ job' = [job EXCEPT ![j].walled = @ \cup {e.url}, ![j].queue = rest]
          \/ job' = [job EXCEPT ![j].missed = @ \cup {e.url}, ![j].queue = rest,
                                ![j].errors = TRUE]
      BY <2>1 DEF rest, longer
    <3> QED
      BY <2>2, <2>3, <3>1 DEF Job
  <2> QED
    BY <1>5, <1>8, <2>4, <2>5 DEF Visit
<1>9. ASSUME NEW j \in Starts, NEW corpus \in SUBSET Pages, Harvested(j, corpus)
      PROVE  job' \in [Starts -> Job]
  <2>1. AtRest("gone", job[j].left) \in Job /\ job[j] \in Job
    BY AtRestIsJob DEF Job
  <2> DEFINE new == [AtRest("extracting", job[j].left) EXCEPT
                       !.corpus = corpus, !.errors = job[j].errors, !.hadBrand = job[j].hadBrand]
  <2>2. new \in Job
    BY <2>1 DEF AtRest, Job, Stages
  <2>3. job' = [job EXCEPT ![j] = new]
    BY <1>9 DEF Harvested
  <2> HIDE DEF new
  <2> QED
    BY <2>2, <2>3
<1>10. \A j \in Starts : Landed(j) \in SUBSET Pages
  BY SiteAssumption DEF Landed, Job
<1>11. ASSUME NEW j \in Starts, PlainChannel(j) PROVE TypeOK'
  <2>1. PICK served \in SUBSET {Landing[p] : p \in Plain} :
          Harvested(j, Landed(j) \cup served) /\ Store(served \ Landed(j))
    BY <1>11 DEF PlainChannel
  <2>2. Landed(j) \cup served \in SUBSET Pages
    BY <1>10, SiteAssumption
  <2>3. page' \in [Pages -> {"none", "error", "harvested"}]
    BY <2>1 DEF Store
  <2> QED
    BY <1>5, <1>9, <1>11, <2>1, <2>2, <2>3 DEF PlainChannel
<1>12. ASSUME NEW j \in Starts, Extract(j) PROVE TypeOK'
  BY <1>5, <1>9, <1>10, <1>12 DEF Extract
<1>13. ASSUME NEW j \in Starts, Induce(j) \/ Check(j) \/ Report(j) PROVE TypeOK'
  <2>1. PICK more \in BOOLEAN, pc \in Stages :
          \/ job' = [job EXCEPT ![j].pc = pc, ![j].errors = @ \/ more]
          \/ job' = [job EXCEPT ![j].pc = pc]
    BY <1>13 DEF Induce, Check, Report, Stages
  <2>2. job[j] \in Job
    OBVIOUS
  <2>3. job' \in [Starts -> Job]
    BY <2>1, <2>2 DEF Job
  <2> QED
    BY <1>5, <1>13, <2>3 DEF Induce, Check, Report
<1>14. ASSUME NEW j \in Starts, Complete(j) PROVE TypeOK'
  BY <1>14, AtRestIsJob DEF Complete, Job, Statuses, Ended
<1>15. ASSUME NEW j \in Starts, Throw(j) PROVE TypeOK'
  BY <1>15, AgainIsAtRest DEF Throw, Statuses, Ended
<1>16. ASSUME NEW j \in Starts, Kill(j) PROVE TypeOK'
  BY <1>16, AgainIsAtRest DEF Kill
<1>17. CASE UNCHANGED vars
  BY <1>17 DEF vars
<1> QED
  BY <1>1, <1>2, <1>3, <1>4, <1>6, <1>7, <1>8, <1>11, <1>12, <1>13, <1>14, <1>15, <1>16, <1>17
     DEF Next, Step

(***************************************************************************)
(* Type correctness: no request, cancellation or execution of the crawl    *)
(* writes a value outside the tables' types.                               *)
(***************************************************************************)
THEOREM TypeCorrect == Spec => []TypeOK
BY InitTyped, StepTyped, PTL DEF Spec

-----------------------------------------------------------------------------
(* Only storing and noting touch the rows of pages, and neither takes a    *)
(* harvested one away.                                                     *)
LEMMA StepKeepsHarvests ==
    ASSUME TypeOK, [Next]_vars, NEW p \in Pages, page[p] = "harvested"
    PROVE  page'[p] = "harvested"
<1>1. ASSUME NEW url, Note(url) PROVE page'[p] = "harvested"
  BY <1>1 DEF Note, TypeOK
<1>2. ASSUME NEW urls, Store(urls) PROVE page'[p] = "harvested"
  BY <1>2 DEF Store
<1>3. ASSUME NEW j \in Starts, Visit(j) PROVE page'[p] = "harvested"
  BY <1>1, <1>2, <1>3 DEF Visit
<1>4. ASSUME NEW j \in Starts, PlainChannel(j) PROVE page'[p] = "harvested"
  BY <1>2, <1>4 DEF PlainChannel
<1>5. CASE UNCHANGED page
  BY <1>5
<1> QED
  BY <1>3, <1>4, <1>5
     DEF Next, Step, vars, Look, Upsert, Enqueue, Cancel, Read, Begin, Extract, Induce, Check,
         Report, Complete, Throw, Kill

(***************************************************************************)
(* A page that was harvested stays harvested, whatever later attempts see: *)
(* onConflictDoNothing for failures, an update for content.                *)
(***************************************************************************)
THEOREM HarvestsStay == Spec => HarvestedStays
<1>1. TypeOK /\ [Next]_vars
        => [\A p \in Pages : page[p] = "harvested" => page'[p] = "harvested"]_vars
  BY StepKeepsHarvests
<1> QED
  BY <1>1, InitTyped, StepTyped, PTL DEF Spec, HarvestedStays

-----------------------------------------------------------------------------
(***************************************************************************)
(* Why a report is backed.  An organisation does not lose its brand, so an *)
(* execution that began with one stores what it harvests; what it could    *)
(* not store counts as an error.                                           *)
(***************************************************************************)
OnRecord(urls) == \A p \in urls : page[p] = "harvested"

Crawling(j) ==
    job[j].pc = "harvesting" /\ job[j].hadBrand =>
        branded /\ (job[j].errors \/ OnRecord(Landed(j)))

Deriving(j) == job[j].pc \in Stages \ {"harvesting"} =>
    /\ job[j].corpus # {}
    /\ job[j].hadBrand => job[j].errors \/ OnRecord(job[j].corpus)

NotBegun(j) == job[j].pc = "read" => job[j].got = {}

InHand(j) == NotBegun(j) /\ Crawling(j) /\ Deriving(j)

Backed == (\A j \in Starts : InHand(j)) /\ ReportIsBacked

LEMMA InitBacked == Init => Backed
BY DEF Init, AtRest, Backed, InHand, NotBegun, Crawling, Deriving, Stages, ReportIsBacked

(* A step that takes no part in the crawl, as far as rows are concerned.   *)
LEMMA RowStaysBacked ==
    ASSUME TypeOK, [Next]_vars, ReportIsBacked,
           row'.report = row.report /\ row'.hadBrand = row.hadBrand,
           row'.status \in {"completed", "partial"} => row'.status = row.status
    PROVE  ReportIsBacked'
BY StepKeepsHarvests DEF ReportIsBacked, TypeOK

(* An execution that does not move keeps what holds of it.                 *)
LEMMA OtherStaysBacked ==
    ASSUME TypeOK, [Next]_vars, NEW i \in Starts, InHand(i),
           job'[i] = job[i], branded => branded'
    PROVE  InHand(i)'
<1>1. job[i] \in Job /\ Landed(i) \subseteq Pages /\ Landed(i)' = Landed(i)
  BY SiteAssumption DEF TypeOK, Job, Landed
<1>2. job[i].corpus \subseteq Pages
  BY <1>1 DEF Job
<1>3. OnRecord(Landed(i)) => OnRecord(Landed(i))'
  BY <1>1, StepKeepsHarvests DEF OnRecord
<1>4. OnRecord(job[i].corpus) => OnRecord(job[i].corpus)'
  BY <1>2, StepKeepsHarvests DEF OnRecord
<1> QED
  BY <1>1, <1>3, <1>4 DEF InHand, NotBegun, Crawling, Deriving

LEMMA VisitStaysBacked ==
    ASSUME TypeOK, [Next]_vars, NEW j \in Starts, InHand(j), Visit(j)
    PROVE  InHand(j)'
<1>1. PICK e \in job[j].queue :
        LET rest == job[j].queue \ {e}
            taken == Taken(j) \cup {e.url}
        IN  \/ /\ job' = [job EXCEPT ![j].got = @ \cup {e.url},
                             ![j].queue = Add(rest, taken, Links[e.url], e.depth + 1)]
               /\ Store({Landing[e.url]})
            \/ /\ job' = [job EXCEPT ![j].got = @ \cup {e.url}, ![j].queue = rest,
                                     ![j].errors = TRUE]
               /\ Note(e.url)
            \/ /\ job' = [job EXCEPT ![j].walled = @ \cup {e.url}, ![j].queue = rest]
               /\ Note(e.url)
            \/ /\ job' = [job EXCEPT ![j].missed = @ \cup {e.url}, ![j].queue = rest,
                                     ![j].errors = TRUE]
               /\ Note(e.url)
  BY DEF Visit
<1>2. /\ job[j] \in Job /\ job[j].pc = "harvesting" /\ branded' = branded
      /\ e.url \in Pages /\ Landing[e.url] \in Pages /\ Landed(j) \subseteq Pages
  BY SiteAssumption DEF TypeOK, Visit, Job, Entry, Landed
<1>3. job'[j].pc = "harvesting" /\ job'[j].hadBrand = job[j].hadBrand
  BY <1>1, <1>2 DEF TypeOK, Job
<1>4. OnRecord(Landed(j)) => \A p \in Landed(j) : page'[p] = "harvested"
  BY <1>2, StepKeepsHarvests DEF OnRecord
<1>5. CASE /\ job'[j].got = job[j].got \cup {e.url} /\ job'[j].errors = job[j].errors
           /\ Store({Landing[e.url]})
  <2>1. Landed(j)' = Landed(j) \cup {Landing[e.url]}
    BY <1>5 DEF Landed
  <2>2. branded => page'[Landing[e.url]] = "harvested"
    BY <1>2, <1>5 DEF Store
  <2>3. job[j].hadBrand => branded /\ (job[j].errors \/ OnRecord(Landed(j)))
    BY <1>2 DEF InHand, Crawling
  <2>4. job[j].hadBrand => job[j].errors \/ \A p \in Landed(j)' : page'[p] = "harvested"
    BY <1>4, <2>1, <2>2, <2>3
  <2>5. Crawling(j)'
    BY <1>2, <1>3, <1>5, <2>3, <2>4 DEF Crawling, OnRecord
  <2> QED
    BY <1>3, <2>5 DEF InHand, NotBegun, Deriving
<1>6. CASE job'[j].errors = TRUE
  BY <1>2, <1>3, <1>6 DEF InHand, NotBegun, Crawling, Deriving
<1>7. CASE job'[j].got = job[j].got /\ job'[j].errors = job[j].errors
  <2>1. Landed(j)' = Landed(j)
    BY <1>7 DEF Landed
  <2> QED
    BY <1>2, <1>3, <1>4, <1>7, <2>1 DEF InHand, NotBegun, Crawling, Deriving, OnRecord
<1> QED
  BY <1>1, <1>2, <1>5, <1>6, <1>7 DEF TypeOK, Job

(* The corpus is what was harvested, by either channel.                    *)
LEMMA HarvestedStaysBacked ==
    ASSUME TypeOK, [Next]_vars, NEW j \in Starts, InHand(j), job[j].pc = "harvesting",
           NEW more \in SUBSET Pages, Landed(j) \cup more # {}, Harvested(j, Landed(j) \cup more),
           branded => \A p \in more \ Landed(j) : page'[p] = "harvested"
    PROVE  InHand(j)'
<1>1. /\ job'[j].pc = "extracting" /\ job'[j].corpus = Landed(j) \cup more
      /\ job'[j].errors = job[j].errors /\ job'[j].hadBrand = job[j].hadBrand
  BY DEF Harvested, AtRest, TypeOK
<1>2. Landed(j) \subseteq Pages
  BY SiteAssumption DEF Landed, TypeOK, Job
<1>3. OnRecord(Landed(j)) => \A p \in Landed(j) : page'[p] = "harvested"
  BY <1>2, StepKeepsHarvests DEF OnRecord
<1>4. job[j].hadBrand => job[j].errors \/ \A p \in Landed(j) \cup more : page'[p] = "harvested"
  BY <1>3 DEF InHand, Crawling
<1> QED
  BY <1>1, <1>4 DEF InHand, NotBegun, Crawling, Deriving, OnRecord

LEMMA StepBacked == TypeOK /\ Backed /\ [Next]_vars => Backed'
<1> SUFFICES ASSUME TypeOK, Backed, [Next]_vars PROVE Backed'
  OBVIOUS
<1>0. TypeOK'
  BY StepTyped
<1>1. branded => branded'
  BY DEF Next, Step, vars, Look, Upsert, Enqueue, Cancel, Read, Begin, Visit, PlainChannel,
         Extract, Induce, Check, Report, Complete, Throw, Kill
<1>2. ASSUME row'.report = row.report /\ row'.hadBrand = row.hadBrand,
             row'.status \in {"completed", "partial"} => row'.status = row.status,
             job' = job
      PROVE  Backed'
  BY <1>1, <1>2, RowStaysBacked, OtherStaysBacked DEF Backed
<1>3. ASSUME NEW j \in Starts, \A i \in Starts : i # j => job'[i] = job[i],
             row'.report = row.report /\ row'.hadBrand = row.hadBrand,
             row'.status \in {"completed", "partial"} => row'.status = row.status, InHand(j)'
      PROVE  Backed'
  BY <1>1, <1>3, RowStaysBacked, OtherStaysBacked DEF Backed
<1>4. ASSUME NEW j \in Starts, job'[j].pc \notin Stages \cup {"read"} PROVE InHand(j)'
  BY <1>4 DEF InHand, NotBegun, Crawling, Deriving, Stages
<1>5. SetStage => /\ row'.report = row.report /\ row'.hadBrand = row.hadBrand
                  /\ row'.status \notin {"completed", "partial"}
  BY DEF SetStage, TypeOK
<1>6. ASSUME NEW s \in Starts, Look(s) PROVE Backed'
  BY <1>2, <1>6 DEF Look
<1>7. ASSUME NEW s \in Starts, Upsert(s) PROVE Backed'
  BY <1>2, <1>7 DEF Upsert, TypeOK
<1>8. CASE Cancel
  BY <1>2, <1>8 DEF Cancel, TypeOK
<1>9. ASSUME NEW s \in Starts, Enqueue(s) PROVE Backed'
  <2>1. CASE job' = job
    BY <1>2, <1>9, <2>1 DEF Enqueue
  <2>2. CASE job' = [job EXCEPT ![s] = AtRest("waiting", Retries)]
    <3>1. job'[s].pc = "waiting" /\ \A i \in Starts : i # s => job'[i] = job[i]
      BY <2>2 DEF TypeOK, AtRest
    <3> QED
      BY <1>3, <1>4, <1>9, <3>1 DEF Enqueue, Stages
  <2> QED
    BY <1>9, <2>1, <2>2 DEF Enqueue
<1>10. ASSUME NEW j \in Starts, Read(j) PROVE Backed'
  <2>1. /\ \A i \in Starts : i # j => job'[i] = job[i]
        /\ job'[j].pc \in {"gone", "read"} /\ job'[j].got = {} /\ row' = row
    BY <1>10 DEF Read, TypeOK, AtRest
  <2>2. InHand(j)'
    BY <2>1 DEF InHand, NotBegun, Crawling, Deriving, Stages
  <2> QED
    BY <1>3, <2>1, <2>2
<1>11. ASSUME NEW j \in Starts, Begin(j) PROVE Backed'
  <2>1. /\ \A i \in Starts : i # j => job'[i] = job[i]
        /\ job'[j].pc = "harvesting" /\ job'[j].got = {}
        /\ job'[j].hadBrand = branded /\ branded' = branded
    BY <1>11 DEF Begin, TypeOK, Job, Backed, InHand, NotBegun
  <2>2. InHand(j)'
    BY <2>1 DEF InHand, NotBegun, Crawling, Deriving, Landed, OnRecord
  <2> QED
    BY <1>3, <1>5, <1>11, <2>1, <2>2 DEF Begin
<1>12. ASSUME NEW j \in Starts, Visit(j) PROVE Backed'
  <2>1. \A i \in Starts : i # j => job'[i] = job[i]
    BY <1>12 DEF Visit, TypeOK
  <2> QED
    BY <1>3, <1>5, <1>12, <2>1, VisitStaysBacked DEF Visit, Backed
<1>13. ASSUME NEW j \in Starts, PlainChannel(j) PROVE Backed'
  <2>1. PICK served \in SUBSET {Landing[p] : p \in Plain} :
          /\ Landed(j) \cup served # {}
          /\ Harvested(j, Landed(j) \cup served) /\ Store(served \ Landed(j))
    BY <1>13 DEF PlainChannel
  <2>2. served \in SUBSET Pages
    BY SiteAssumption
  <2>3. branded => \A p \in served \ Landed(j) : page'[p] = "harvested"
    BY <2>1, <2>2 DEF Store
  <2>4. InHand(j)'
    BY <1>13, <2>1, <2>2, <2>3, HarvestedStaysBacked DEF PlainChannel, Backed
  <2>5. \A i \in Starts : i # j => job'[i] = job[i]
    BY <2>1 DEF Harvested, TypeOK
  <2> QED
    BY <1>3, <1>5, <1>13, <2>4, <2>5 DEF PlainChannel
<1>14. ASSUME NEW j \in Starts, Extract(j) PROVE Backed'
  <2>1. job[j].pc = "harvesting" /\ Landed(j) # {} /\ Harvested(j, Landed(j) \cup {})
    BY <1>14 DEF Extract, MostlyWalls, Landed
  <2>2. InHand(j)'
    <3>1. {} \in SUBSET Pages /\ Landed(j) \cup {} # {}
      BY <2>1
    <3>2. \A p \in {} \ Landed(j) : page'[p] = "harvested"
      OBVIOUS
    <3> QED
      BY <2>1, <3>1, <3>2, HarvestedStaysBacked DEF Backed
  <2>3. \A i \in Starts : i # j => job'[i] = job[i]
    BY <2>1 DEF Harvested, TypeOK
  <2> QED
    BY <1>3, <1>5, <1>14, <2>2, <2>3 DEF Extract
<1>15. ASSUME NEW j \in Starts, Induce(j) \/ Check(j) \/ Report(j) PROVE Backed'
  <2>1. /\ \A i \in Starts : i # j => job'[i] = job[i]
        /\ job[j].pc \in Stages \ {"harvesting"} /\ job'[j].pc \in Stages \ {"harvesting"}
        /\ job'[j].corpus = job[j].corpus /\ job'[j].hadBrand = job[j].hadBrand
        /\ job[j].errors => job'[j].errors
        /\ page' = page
    BY <1>15 DEF Induce, Check, Report, Stages, TypeOK, Job
  <2>2. InHand(j)'
    BY <2>1 DEF Backed, InHand, NotBegun, Crawling, Deriving, Stages, OnRecord
  <2> QED
    BY <1>3, <1>5, <1>15, <2>1, <2>2 DEF Induce, Check, Report
<1>16. ASSUME NEW j \in Starts, Complete(j) PROVE Backed'
  <2>1. /\ \A i \in Starts : i # j => job'[i] = job[i]
        /\ job'[j].pc = "gone" /\ page' = page
        /\ row' = [status |-> IF job[j].errors THEN "partial" ELSE "completed",
                   report |-> job[j].corpus, hadBrand |-> job[j].hadBrand]
    BY <1>16 DEF Complete, TypeOK, AtRest
  <2>2. ReportIsBacked'
    BY <1>16, <2>1 DEF Complete, Backed, InHand, Deriving, Stages, OnRecord, ReportIsBacked
  <2>3. InHand(j)'
    BY <1>4, <2>1 DEF Stages
  <2> QED
    BY <1>1, <2>1, <2>2, <2>3, OtherStaysBacked DEF Backed
<1>17. ASSUME NEW j \in Starts, Throw(j) \/ Kill(j) PROVE Backed'
  <2>1. /\ \A i \in Starts : i # j => job'[i] = job[i]
        /\ job'[j].pc \in {"waiting", "gone"}
    BY <1>17, AgainIsAtRest DEF Throw, Kill
  <2>2. InHand(j)'
    BY <1>4, <2>1 DEF Stages
  <2> QED
    BY <1>3, <1>17, <2>1, <2>2 DEF Throw, Kill, TypeOK
<1>18. CASE UNCHANGED vars
  BY <1>2, <1>18 DEF vars
<1> QED
  BY <1>6, <1>7, <1>8, <1>9, <1>10, <1>11, <1>12, <1>13, <1>14, <1>15, <1>16, <1>17, <1>18
     DEF Next, Step

(***************************************************************************)
(* A run that completed has its report backed by rows of harvested         *)
(* content, unless its organisation had no brand to keep them under.       *)
(***************************************************************************)
THEOREM ReportsAreBacked == Spec => []ReportIsBacked
<1>1. Backed => ReportIsBacked
  BY DEF Backed
<1> QED
  BY <1>1, InitTyped, StepTyped, InitBacked, StepBacked, PTL DEF Spec
-----------------------------------------------------------------------------
(***************************************************************************)
(* Why the roles share the budget.  The pages that the site map names are  *)
(* in the queue before anything is taken from it, at a depth of one at     *)
(* most: a step in depth, and the preference for home pages, weigh less    *)
(* than one page taken of a role.  So when another role's page is taken,   *)
(* its role is no more ahead than theirs; and no such page is queued late. *)
(***************************************************************************)
Mapped == {Sitemap[k] : k \in DOMAIN Sitemap}

(* A set of naturals has a least element.                                  *)
LEMMA LeastOf ==
    ASSUME NEW S \in SUBSET Nat, S # {}
    PROVE  \E m \in S : \A k \in S : m <= k
<1>1. PICK m \in S : \A k \in S : <<k, m>> \notin OpToRel(<, Nat)
  BY NatLessThanWellFounded, WFMin, Zenon
<1>2. \A k \in S : ~ (k < m)
  BY <1>1, Zenon DEF OpToRel
<1>3. \A k \in S : m <= k
  <2>1. m \in Nat /\ \A k \in S : k \in Nat
    OBVIOUS
  <2> QED
    BY <1>2, <2>1
<1> QED
  BY <1>3

(* What is added to the frontier was not seen before, and nothing is lost. *)
LEMMA AddIsFresh ==
    ASSUME NEW q, NEW taken, NEW links, NEW depth
    PROVE  /\ q \subseteq Add(q, taken, links, depth)
           /\ \A e \in Add(q, taken, links, depth) \ q :
                 e.depth = depth /\ e.url \notin taken \cup Queued(q)
<1> DEFINE seen == taken \cup Queued(q)
           fresh == {i \in DOMAIN links : /\ links[i] \notin seen
                                          /\ \A k \in 1 .. i - 1 : links[k] # links[i]}
           at(i) == Cardinality(seen) + Cardinality({k \in fresh : k <= i})
<1>1. Add(q, taken, links, depth) =
        IF depth > MaxDepth THEN q
        ELSE q \cup {[url |-> links[i], depth |-> depth, at |-> at(i)] : i \in fresh}
  BY DEF Add
<1>2. \A i \in fresh : links[i] \notin seen
  OBVIOUS
<1> HIDE DEF at, fresh
<1> QED
  BY <1>1, <1>2

(* Every link is seen after the call, unless it lies too deep.             *)
LEMMA AddSeesAll ==
    ASSUME NEW q, NEW taken, NEW links \in Seq(Pages), NEW depth \in Nat, depth <= MaxDepth,
           NEW i \in DOMAIN links
    PROVE  links[i] \in taken \cup Queued(Add(q, taken, links, depth))
<1>1. CASE links[i] \in taken \cup Queued(q)
  BY <1>1, AddIsFresh DEF Queued
<1>2. CASE links[i] \notin taken \cup Queued(q)
  <2> DEFINE S == {k \in DOMAIN links : links[k] = links[i]}
  <2>1. S \in SUBSET Nat /\ S # {}
    OBVIOUS
  <2>2. PICK m \in S : \A k \in S : m <= k
    <3> HIDE DEF S
    <3> QED
      BY <2>1, LeastOf
  <2>3. m \in DOMAIN links /\ links[m] = links[i] /\ m \in Nat /\ m <= Len(links)
    OBVIOUS
  <2>4. \A k \in 1 .. m - 1 : links[k] # links[m]
    BY <2>2, <2>3
  <2> DEFINE e == [url |-> links[m], depth |-> depth,
                   at |-> Cardinality(taken \cup Queued(q))
                          + Cardinality({k \in {n \in DOMAIN links :
                                  /\ links[n] \notin taken \cup Queued(q)
                                  /\ \A l \in 1 .. n - 1 : links[l] # links[n]} : k <= m})]
  <2>5. e \in Add(q, taken, links, depth)
    <3>1. ~ (depth > MaxDepth)
      BY BoundAssumption
    <3> QED
      BY <1>2, <2>3, <2>4, <3>1 DEF Add
  <2>6. e.url = links[i]
    BY <2>3
  <2> HIDE DEF e
  <2> QED
    BY <2>5, <2>6 DEF Queued
<1> QED
  BY <1>1, <1>2

(* One more page taken: its role counts one more at most, no other more.   *)
LEMMA CountGrowsByOne ==
    ASSUME NEW S \in SUBSET Pages, NEW u \in Pages, NEW role
    PROVE  LET n == Cardinality({p \in S : Role[p] = role})
               m == Cardinality({p \in S \cup {u} : Role[p] = role})
           IN  /\ n \in Nat /\ m \in Nat /\ n <= m /\ m <= n + 1
               /\ Role[u] # role => m = n
<1> DEFINE A == {p \in S : Role[p] = role}
           B == {p \in S \cup {u} : Role[p] = role}
<1>1. IsFiniteSet(A)
  <2>1. A \in SUBSET Pages
    OBVIOUS
  <2> HIDE DEF A
  <2> QED
    BY <2>1, SiteAssumption, FS_Subset
<1>2. B = A \/ (B = A \cup {u} /\ Role[u] = role)
  OBVIOUS
<1> HIDE DEF A, B
<1>3. /\ Cardinality(A) \in Nat
      /\ Cardinality(A \cup {u}) = IF u \in A THEN Cardinality(A) ELSE Cardinality(A) + 1
  BY <1>1, FS_CardinalityType, FS_AddElement
<1>4. /\ Cardinality(A) \in Nat /\ Cardinality(B) \in Nat
      /\ Cardinality(A) <= Cardinality(B) /\ Cardinality(B) <= Cardinality(A) + 1
      /\ Role[u] # role => Cardinality(B) = Cardinality(A)
  <2>1. CASE B = A
    BY <1>3, <2>1
  <2>2. CASE B = A \cup {u} /\ Role[u] = role
    <3>1. Cardinality(B) = Cardinality(A) \/ Cardinality(B) = Cardinality(A) + 1
      BY <1>3, <2>2
    <3> QED
      BY <1>3, <2>2, <3>1
  <2> QED
    BY <1>2, <2>1, <2>2
<1> QED
  BY <1>4 DEF A, B

(* What holds of an execution's queue.                                     *)
InLine(j) ==
    /\ job[j].pc = "read" => Taken(j) = {}
    /\ job[j].pc = "harvesting" => Mapped \subseteq Taken(j) \cup Queued(job[j].queue)
    /\ job[j].pc # "harvesting" => job[j].queue = {}
    /\ \A e \in job[j].queue : e.url \in Mapped =>
          /\ e.depth <= 1
          /\ \A p \in Taken(j) : CountOf(j, Role[p]) <= CountOf(j, Role[e.url]) + 1

Shared == \A j \in Starts : InLine(j)

LEMMA InitShared == Init => Shared
BY DEF Init, AtRest, Shared, InLine, Taken

(* An execution outside of harvesting has no queue, hence no turn to take. *)
LEMMA RestingIsInLine ==
    ASSUME NEW j \in Starts, job[j].pc # "harvesting", job[j].queue = {},
           job[j].pc = "read" => Taken(j) = {}
    PROVE  InLine(j)
BY DEF InLine

LEMMA OtherStaysInLine ==
    ASSUME NEW i \in Starts, InLine(i), job'[i] = job[i]
    PROVE  InLine(i)'
<1>1. Taken(i)' = Taken(i)
  BY DEF Taken
<1>2. \A role : CountOf(i, role)' = CountOf(i, role)
  BY <1>1 DEF CountOf
<1> QED
  BY <1>1, <1>2 DEF InLine

LEMMA BeginQueues ==
    ASSUME TypeOK, NEW j \in Starts, InLine(j), Begin(j)
    PROVE  InLine(j)'
<1> DEFINE q1 == Add({}, {}, <<Seed>>, 0)
           q2 == Add(q1, {}, Sitemap, 1)
<1>1. q1 \in SUBSET Entry
  <2>1. <<Seed>> \in Seq(Pages) /\ {} \in SUBSET Entry /\ {} \in SUBSET Pages /\ 0 \in Nat
    BY SiteAssumption
  <2> QED
    BY <2>1, AddKeepsEntries
<1>2. \A e \in q2 : e.depth <= 1
  <2>1. \A e \in q1 : e.depth = 0
    BY AddIsFresh
  <2>2. \A e \in q2 \ q1 : e.depth = 1
    BY AddIsFresh
  <2> HIDE DEF q1, q2
  <2> QED
    BY <2>1, <2>2
<1>3. Mapped \subseteq Queued(q2)
  <2>1. ASSUME NEW k \in DOMAIN Sitemap PROVE Sitemap[k] \in Queued(q2)
    <3>1. Sitemap[k] \in {} \cup Queued(q2)
      <4>1. Sitemap \in Seq(Pages) /\ 1 \in Nat /\ 1 <= MaxDepth
        BY SiteAssumption, BoundAssumption
      <4> HIDE DEF q1
      <4> QED
        BY <4>1, AddSeesAll
    <3> QED
      BY <3>1
  <2> HIDE DEF q2
  <2> QED
    BY <2>1 DEF Mapped
<1> HIDE DEF q1, q2
<1>4. /\ job'[j].pc = "harvesting" /\ job'[j].queue = q2
      /\ Taken(j)' = Taken(j) /\ Taken(j) = {}
  BY DEF Begin, TypeOK, Job, InLine, Taken, q1, q2
<1> QED
  BY <1>2, <1>3, <1>4 DEF InLine

(* The heart of it: by IsNext, the role of the page that is taken is not   *)
(* ahead of the role of any page of the site map that waits.               *)
LEMMA VisitTakesTurns ==
    ASSUME TypeOK, NEW j \in Starts, InLine(j), Visit(j)
    PROVE  InLine(j)'
<1>1. PICK e \in job[j].queue :
        LET rest == job[j].queue \ {e}
            taken == Taken(j) \cup {e.url}
        IN  /\ IsNext(j, e)
            /\ \/ job' = [job EXCEPT ![j].got = @ \cup {e.url},
                             ![j].queue = Add(rest, taken, Links[e.url], e.depth + 1)]
               \/ job' = [job EXCEPT ![j].got = @ \cup {e.url}, ![j].queue = rest,
                                     ![j].errors = TRUE]
               \/ job' = [job EXCEPT ![j].walled = @ \cup {e.url}, ![j].queue = rest]
               \/ job' = [job EXCEPT ![j].missed = @ \cup {e.url}, ![j].queue = rest,
                                     ![j].errors = TRUE]
  BY DEF Visit
<1> DEFINE rest == job[j].queue \ {e}
           taken == Taken(j) \cup {e.url}
           longer == Add(rest, taken, Links[e.url], e.depth + 1)
<1>2. /\ job[j] \in Job /\ job[j].pc = "harvesting"
      /\ e \in Entry /\ e.url \in Pages /\ e.depth \in Nat
      /\ Taken(j) \in SUBSET Pages
      /\ \A f \in job[j].queue : f.url \in Pages /\ f.depth \in Nat
  BY DEF TypeOK, Visit, Job, Entry, Taken
<1>3. Taken(j)' = taken /\ job'[j].pc = "harvesting" /\ job'[j].queue \in {rest, longer}
  <2> HIDE DEF rest, longer
  <2>1. \/ job' = [job EXCEPT ![j].got = @ \cup {e.url}, ![j].queue = longer]
        \/ job' = [job EXCEPT ![j].got = @ \cup {e.url}, ![j].queue = rest, ![j].errors = TRUE]
        \/ job' = [job EXCEPT ![j].walled = @ \cup {e.url}, ![j].queue = rest]
        \/ job' = [job EXCEPT ![j].missed = @ \cup {e.url}, ![j].queue = rest,
                              ![j].errors = TRUE]
    BY <1>1 DEF rest, longer
  <2> QED
    BY <1>2, <2>1 DEF TypeOK, Job, Taken
<1>4. taken \cup Queued(rest) = Taken(j) \cup Queued(job[j].queue)
  BY DEF Queued
<1>5. /\ rest \subseteq job'[j].queue
      /\ \A f \in job'[j].queue : f.url \in Mapped => f \in rest
  <2>1. rest \subseteq longer /\ \A f \in longer \ rest : f.url \notin taken \cup Queued(rest)
    <3> HIDE DEF rest, taken
    <3> QED
      BY AddIsFresh
  <2>2. Mapped \subseteq Taken(j) \cup Queued(job[j].queue)
    BY <1>2 DEF InLine
  <2> HIDE DEF rest, longer, taken
  <2> QED
    BY <1>3, <1>4, <2>1, <2>2
<1>6. Mapped \subseteq Taken(j)' \cup Queued(job'[j].queue)
  <2>1. Mapped \subseteq Taken(j) \cup Queued(job[j].queue)
    BY <1>2 DEF InLine
  <2>2. Queued(rest) \subseteq Queued(job'[j].queue)
    BY <1>5 DEF Queued
  <2> HIDE DEF rest, longer, taken
  <2> QED
    BY <1>3, <1>4, <2>1, <2>2
<1>7. \A role : /\ CountOf(j, role) \in Nat /\ CountOf(j, role)' \in Nat
                /\ CountOf(j, role) <= CountOf(j, role)'
                /\ CountOf(j, role)' <= CountOf(j, role) + 1
                /\ Role[e.url] # role => CountOf(j, role)' = CountOf(j, role)
  <2> TAKE role
  <2> DEFINE n == Cardinality({p \in Taken(j) : Role[p] = role})
             m == Cardinality({p \in Taken(j) \cup {e.url} : Role[p] = role})
  <2>1. CountOf(j, role) = n
    BY DEF CountOf
  <2>2. CountOf(j, role)' = m
    BY <1>3 DEF CountOf
  <2>3. /\ n \in Nat /\ m \in Nat /\ n <= m /\ m <= n + 1
        /\ Role[e.url] # role => m = n
    BY <1>2, CountGrowsByOne
  <2> HIDE DEF n, m
  <2> QED
    BY <2>1, <2>2, <2>3
<1>8. ASSUME NEW f \in rest, f.url \in Mapped
      PROVE  CountOf(j, Role[e.url]) <= CountOf(j, Role[f.url])
  <2>1. Rank(j, e) <= Rank(j, f)
    <3>1. Rank(j, e) < Rank(j, f) \/ Rank(j, e) = Rank(j, f)
      BY <1>1 DEF IsNext
    <3>2. Rank(j, e) \in Nat /\ Rank(j, f) \in Nat
      BY <1>2, <1>7 DEF Rank
    <3> QED
      BY <3>1, <3>2
  <2>2. f.depth <= 1 /\ f.depth \in Nat
    BY <1>2, <1>8 DEF InLine
  <2>3. CountOf(j, Role[e.url]) \in Nat /\ CountOf(j, Role[f.url]) \in Nat
    BY <1>7
  <2> QED
    BY <1>2, <2>1, <2>2, <2>3 DEF Rank
<1>9. ASSUME NEW f \in rest, f.url \in Mapped, NEW p \in taken
      PROVE  CountOf(j, Role[p])' <= CountOf(j, Role[f.url])' + 1
  <2>1. CASE Role[p] = Role[e.url]
    BY <1>7, <1>8, <1>9, <2>1
  <2>2. CASE Role[p] # Role[e.url]
    <3>1. p \in Taken(j)
      BY <2>2
    <3>2. CountOf(j, Role[p]) <= CountOf(j, Role[f.url]) + 1
      BY <1>9, <3>1 DEF InLine
    <3> QED
      BY <1>7, <2>2, <3>2
  <2> QED
    BY <2>1, <2>2
<1>10. \A f \in rest : f.url \in Mapped => f.depth <= 1
  BY DEF InLine
<1> HIDE DEF rest, longer, taken
<1> QED
  BY <1>3, <1>5, <1>6, <1>9, <1>10 DEF InLine

LEMMA StepShared == TypeOK /\ Shared /\ [Next]_vars => Shared'
<1> SUFFICES ASSUME TypeOK, Shared, [Next]_vars PROVE Shared'
  OBVIOUS
<1>1. ASSUME job' = job PROVE Shared'
  BY <1>1, OtherStaysInLine DEF Shared
<1>2. ASSUME NEW j \in Starts, \A i \in Starts : i # j => job'[i] = job[i], InLine(j)'
      PROVE  Shared'
  BY <1>2, OtherStaysInLine DEF Shared
<1>3. ASSUME NEW j \in Starts, NEW pc, NEW left, pc # "harvesting",
             job' = [job EXCEPT ![j] = AtRest(pc, left)]
      PROVE  Shared'
  <2>1. /\ job'[j].pc = pc /\ job'[j].queue = {} /\ Taken(j)' = {}
        /\ \A i \in Starts : i # j => job'[i] = job[i]
    BY <1>3 DEF TypeOK, AtRest, Taken
  <2>2. InLine(j)'
    BY <1>3, <2>1 DEF InLine
  <2> QED
    BY <1>2, <2>1, <2>2
<1>4. ASSUME NEW j \in Starts, NEW corpus, Harvested(j, corpus) PROVE Shared'
  <2>1. /\ job'[j].pc = "extracting" /\ job'[j].queue = {}
        /\ \A i \in Starts : i # j => job'[i] = job[i]
    BY <1>4 DEF Harvested, TypeOK, AtRest
  <2>2. InLine(j)'
    BY <2>1 DEF InLine
  <2> QED
    BY <1>2, <2>1, <2>2
<1>5. ASSUME NEW s \in Starts, Enqueue(s) PROVE Shared'
  BY <1>1, <1>3, <1>5 DEF Enqueue
<1>6. ASSUME NEW j \in Starts, Read(j) PROVE Shared'
  <2>1. \/ job' = [job EXCEPT ![j] = AtRest("gone", 0)]
        \/ job' = [job EXCEPT ![j] = AtRest("read", job[j].left)]
    BY <1>6 DEF Read
  <2> QED
    BY <1>3, <2>1
<1>7. ASSUME NEW j \in Starts, Begin(j) PROVE Shared'
  <2>1. \A i \in Starts : i # j => job'[i] = job[i]
    BY <1>7 DEF Begin, TypeOK
  <2> QED
    BY <1>2, <1>7, <2>1, BeginQueues DEF Shared
<1>8. ASSUME NEW j \in Starts, Visit(j) PROVE Shared'
  <2>1. \A i \in Starts : i # j => job'[i] = job[i]
    BY <1>8 DEF Visit, TypeOK
  <2> QED
    BY <1>2, <1>8, <2>1, VisitTakesTurns DEF Shared
<1>9. ASSUME NEW j \in Starts, PlainChannel(j) \/ Extract(j) PROVE Shared'
  BY <1>4, <1>9 DEF PlainChannel, Extract
<1>10. ASSUME NEW j \in Starts, Induce(j) \/ Check(j) \/ Report(j) PROVE Shared'
  <2>1. /\ \A i \in Starts : i # j => job'[i] = job[i]
        /\ job[j].pc \in Stages \ {"harvesting"} /\ job'[j].pc \in Stages \ {"harvesting"}
        /\ job'[j].queue = job[j].queue
    BY <1>10 DEF Induce, Check, Report, Stages, TypeOK, Job
  <2>2. job[j].queue = {}
    BY <2>1 DEF Shared, InLine
  <2>3. InLine(j)'
    BY <2>1, <2>2 DEF InLine, Stages
  <2> QED
    BY <1>2, <2>1, <2>3
<1>11. ASSUME NEW j \in Starts, Complete(j) PROVE Shared'
  BY <1>3, <1>11 DEF Complete
<1>12. ASSUME NEW j \in Starts, Again(j) PROVE Shared'
  <2>1. \/ job' = [job EXCEPT ![j] = AtRest("gone", 0)]
        \/ job' = [job EXCEPT ![j] = AtRest("waiting", job[j].left - 1)]
    BY <1>12 DEF Again
  <2> QED
    BY <1>3, <2>1
<1> QED
  BY <1>1, <1>5, <1>6, <1>7, <1>8, <1>9, <1>10, <1>11, <1>12
     DEF Next, Step, vars, Look, Upsert, Cancel, Throw, Kill

(***************************************************************************)
(* While a page that the site map named waits, no role is more than one    *)
(* page ahead of its role: the frontier ranks by pages taken of a role,    *)
(* then by depth, then by order.                                           *)
(***************************************************************************)
THEOREM BudgetIsShared == Spec => []RolesShareTheBudget
<1>1. Shared => RolesShareTheBudget
  BY DEF Shared, InLine, RolesShareTheBudget, Mapped
<1> QED
  BY <1>1, InitTyped, StepTyped, InitShared, StepShared, PTL DEF Spec
=============================================================================
