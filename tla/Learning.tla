------------------------------ MODULE Learning ------------------------------
(***************************************************************************)
(* What a reviewer decides on findings, and what is learned from it: the   *)
(* precedent that is shown to the judge, and the calibration of the rule.  *)
(*                                                                         *)
(* All findings are of one rule of one brand.  Findings of several runs on *)
(* one asset have the same subject: they share the key of `precedents`     *)
(* (brand, rule key, rule version, asset).  A decision is known by its     *)
(* place in the order of commits; each one sends an index job and a        *)
(* calibration job.  Each database transaction is one action.              *)
(***************************************************************************)
EXTENDS Naturals, Sequences, FiniteSets

CONSTANTS
    Findings, Subjects,
    Subject,        \* the subject of each finding
    Actions,        \* what reviewers may decide
    MinSamples,     \* decisions a calibration needs
    MaxSamples,     \* decisions a calibration reads, the latest first
    MaxDecisions,   \* bound of the model
    MaxFailures     \* bound of the model: executions of jobs that fail

ReviewAction == {"confirm", "override_pass", "override_fail", "waive", "escalate", "comment"}

ASSUME SubjectAssumption == Subject \in [Findings -> Subjects]
ASSUME ActionsAssumption == Actions \subseteq ReviewAction
ASSUME SamplesAssumption ==
    MinSamples \in Nat \ {0} /\ MaxSamples \in Nat /\ MinSamples <= MaxSamples
ASSUME LearningBoundsAssumption == MaxDecisions \in Nat /\ MaxFailures \in Nat

VARIABLES
    decisions,  \* review_decisions, in the order of their commits
    status,     \* findings.status
    index,      \* the index job of each decision
    calibrate,  \* the calibration job of each decision
    sample,     \* the decisions that an execution of the calibration has read
    precedent,  \* precedents: for each subject, the verdict and whose it is
    fits,       \* rule_calibrations: the decisions each was computed from
    inUse,      \* rules.calibration: the decisions it was computed from
    announced,  \* calibration.updated: the fit told under each idempotency key
    failures,
    rivals,     \* history: index jobs that were open when a subject was last decided on
    overlapped  \* history: two calibrations have been under way at once

vars == <<decisions, status, index, calibrate, sample, precedent, fits, inUse, announced,
          failures, rivals, overlapped>>

Numbers == 1 .. MaxDecisions
Decided == 1 .. Len(decisions)
About(s) == {n \in Decided : Subject[decisions[n].finding] = s}

(* unsent: the request has yet to send it; lost: its sending failed, the   *)
(* error was swallowed, or the API stopped before it; indexed and read:    *)
(* an execution is half done.                                              *)
IndexStates == {"none", "unsent", "lost", "waiting", "indexed", "done"}
CalibrateStates == {"none", "unsent", "lost", "waiting", "read", "done"}
Open == {"unsent", "waiting", "indexed"}

(* What is indexed as the human's verdict, whatever the severity.          *)
HumanVerdict(action) == IF action \in {"override_pass", "waive"} THEN "pass" ELSE "fail"

(* Mutant: the action is stored as it came.                                *)
FindingStatusVerbatim(action, old) == IF action \in {"escalate", "comment"} THEN old ELSE action

(* Comments and escalations leave the finding as it is.                    *)
FindingStatus(action, old) ==
    CASE action \in {"confirm", "override_fail"} -> "confirmed"
      [] action = "override_pass" -> "overridden"
      [] action = "waive" -> "waived"
      [] OTHER -> old

NoPrecedent == [verdict |-> "none", of |-> 0]

Init ==
    /\ decisions = <<>>
    /\ status = [f \in Findings |-> "open"]
    /\ index = [n \in Numbers |-> "none"]
    /\ calibrate = [n \in Numbers |-> "none"]
    /\ sample = [n \in Numbers |-> {}]
    /\ precedent = [s \in Subjects |-> NoPrecedent]
    /\ fits = {}
    /\ inUse = {}
    /\ announced = [k \in 0 .. MaxSamples |-> {}]
    /\ failures = 0
    /\ rivals = [s \in Subjects |-> {}]
    /\ overlapped = FALSE

-----------------------------------------------------------------------------
(* FindingsService.decide: one transaction, then two sends. *)

Decide(f, a) ==
    LET n == Len(decisions) + 1
    IN /\ n \in Numbers
       /\ decisions' = Append(decisions, [finding |-> f, action |-> a])
       /\ status' = [status EXCEPT ![f] = FindingStatus(a, @)]
       /\ index' = [index EXCEPT ![n] = "unsent"]
       /\ calibrate' = [calibrate EXCEPT ![n] = "unsent"]
       /\ rivals' = [rivals EXCEPT ![Subject[f]] = {m \in About(Subject[f]) : index[m] \in Open}]
       /\ UNCHANGED <<sample, precedent, fits, inUse, announced, failures, overlapped>>

SendIndex(n) ==
    /\ index[n] = "unsent"
    /\ \E to \in {"waiting", "lost"} : index' = [index EXCEPT ![n] = to]
    /\ UNCHANGED <<decisions, status, calibrate, sample, precedent, fits, inUse, announced,
                   failures, rivals, overlapped>>

(* The calibration job is sent second, even if the index job was lost.     *)
SendCalibrate(n) ==
    /\ index[n] # "unsent"
    /\ calibrate[n] = "unsent"
    /\ \E to \in {"waiting", "lost"} : calibrate' = [calibrate EXCEPT ![n] = to]
    /\ UNCHANGED <<decisions, status, index, sample, precedent, fits, inUse, announced,
                   failures, rivals, overlapped>>

-----------------------------------------------------------------------------
(* indexPrecedent: the precedent is committed before its embedding is      *)
(* looked for, and what fails after that has the job run again.  Its event *)
(* has one key for each subject and is not modelled.                       *)

Indexed(n) == [verdict |-> HumanVerdict(decisions[n].action), of |-> n]

(* Mutant: an insert that leaves an existing precedent alone.              *)
UpsertPrecedentOnce(n) ==
    LET s == Subject[decisions[n].finding]
    IN /\ index[n] = "waiting"
       /\ index' = [index EXCEPT ![n] = "indexed"]
       /\ precedent' = [precedent EXCEPT ![s] = IF @ = NoPrecedent THEN Indexed(n) ELSE @]
       /\ UNCHANGED <<decisions, status, calibrate, sample, fits, inUse, announced, failures,
                      rivals, overlapped>>

UpsertPrecedent(n) ==
    /\ index[n] = "waiting"
    /\ index' = [index EXCEPT ![n] = "indexed"]
    /\ precedent' = [precedent EXCEPT ![Subject[decisions[n].finding]] = Indexed(n)]
    /\ UNCHANGED <<decisions, status, calibrate, sample, fits, inUse, announced, failures,
                   rivals, overlapped>>

FinishIndex(n) ==
    /\ index[n] = "indexed"
    /\ index' = [index EXCEPT ![n] = "done"]
    /\ UNCHANGED <<decisions, status, calibrate, sample, precedent, fits, inUse, announced,
                   failures, rivals, overlapped>>

(* An error after the upsert puts the job back.                            *)
FailIndex(n) ==
    /\ index[n] = "indexed"
    /\ failures < MaxFailures
    /\ index' = [index EXCEPT ![n] = "waiting"]
    /\ failures' = failures + 1
    /\ UNCHANGED <<decisions, status, calibrate, sample, precedent, fits, inUse, announced,
                   rivals, overlapped>>

-----------------------------------------------------------------------------
(* calibrateRule: the decisions are read in one transaction, and what was  *)
(* computed from them is written in another.                               *)

Latest == {n \in Decided : n + MaxSamples > Len(decisions)}

Enough == Cardinality(Latest) >= MinSamples

ReadSamples(n) ==
    /\ calibrate[n] = "waiting"
    /\ IF ~ Enough
       THEN /\ calibrate' = [calibrate EXCEPT ![n] = "done"]
            /\ UNCHANGED <<sample, overlapped>>
       ELSE /\ calibrate' = [calibrate EXCEPT ![n] = "read"]
            /\ sample' = [sample EXCEPT ![n] = Latest]
            /\ overlapped' = (overlapped \/ \E m \in Numbers : calibrate[m] = "read")
    /\ UNCHANGED <<decisions, status, index, precedent, fits, inUse, announced, failures, rivals>>

(* Mutant: the idempotency key names the rule alone.                       *)
EventKeyOfRule(fit) == 0

(* The idempotency key of a fit's event: the number of its samples.        *)
EventKey(fit) == Cardinality(fit)

Told(fit) ==
    announced' = [announced EXCEPT ![EventKey(fit)] = IF @ = {} THEN fit ELSE @]

(* Mutant: a rule that has been calibrated is left as it is.               *)
WriteFitOnce(n) ==
    /\ calibrate[n] = "read"
    /\ calibrate' = [calibrate EXCEPT ![n] = "done"]
    /\ fits' = fits \cup {sample[n]}
    /\ inUse' = IF inUse = {} THEN sample[n] ELSE inUse
    /\ Told(sample[n])
    /\ sample' = [sample EXCEPT ![n] = {}]
    /\ UNCHANGED <<decisions, status, index, precedent, failures, rivals, overlapped>>

(* The snapshot, the rule and the event; an event with the key of an       *)
(* earlier one is dropped.                                                 *)
WriteFit(n) ==
    /\ calibrate[n] = "read"
    /\ calibrate' = [calibrate EXCEPT ![n] = "done"]
    /\ fits' = fits \cup {sample[n]}
    /\ inUse' = sample[n]
    /\ Told(sample[n])
    /\ sample' = [sample EXCEPT ![n] = {}]
    /\ UNCHANGED <<decisions, status, index, precedent, failures, rivals, overlapped>>

FailCalibrate(n) ==
    /\ calibrate[n] = "read"
    /\ failures < MaxFailures
    /\ calibrate' = [calibrate EXCEPT ![n] = "waiting"]
    /\ sample' = [sample EXCEPT ![n] = {}]
    /\ failures' = failures + 1
    /\ UNCHANGED <<decisions, status, index, precedent, fits, inUse, announced, rivals,
                   overlapped>>

-----------------------------------------------------------------------------
Work(n) ==
    \/ SendIndex(n) \/ UpsertPrecedent(n) \/ FinishIndex(n)
    \/ SendCalibrate(n) \/ ReadSamples(n) \/ WriteFit(n)

Next ==
    \/ \E f \in Findings, a \in Actions : Decide(f, a)
    \/ \E n \in Numbers : Work(n) \/ FailIndex(n) \/ FailCalibrate(n)

Spec == Init /\ [][Next]_vars

-----------------------------------------------------------------------------
(* The types of the tables, the jobs and the history.                      *)
TypeOK ==
    /\ decisions \in Seq([finding : Findings, action : Actions])
    /\ Len(decisions) <= MaxDecisions
    /\ status \in [Findings -> {"open", "confirmed", "overridden", "waived"}]
    /\ index \in [Numbers -> IndexStates]
    /\ calibrate \in [Numbers -> CalibrateStates]
    /\ sample \in [Numbers -> SUBSET Numbers]
    /\ precedent \in [Subjects -> [verdict : {"none", "pass", "fail"}, of : Numbers \cup {0}]]
    /\ fits \subseteq SUBSET Numbers
    /\ inUse \subseteq Numbers
    /\ announced \in [0 .. MaxSamples -> SUBSET Numbers]
    /\ failures \in 0 .. MaxFailures
    /\ rivals \in [Subjects -> SUBSET Numbers]
    /\ overlapped \in BOOLEAN

IsLast(n, s) == n \in About(s) /\ \A m \in About(s) : m <= n

(* Once no index job of a subject is left, its precedent is what the last  *)
(* decision on it said, or what was said by one whose job was still open   *)
(* when that decision was made: jobs are executed in any order, and again  *)
(* after a failure.  Only a job that was never sent breaks this.           *)
LastWordOrRival ==
    \A s \in Subjects, n \in Decided :
        /\ IsLast(n, s)
        /\ index[n] # "lost"
        /\ \A m \in About(s) : index[m] \notin Open
        => /\ precedent[s].of \in {n} \cup rivals[s]
           /\ precedent[s] = Indexed(precedent[s].of)

(* The event of a fit is dropped when one with as many samples was told    *)
(* before.  Short of the limit on samples that one was the same fit, so    *)
(* that subscribers know of every fit.                                     *)
DroppedEventsWereTold ==
    \A fit \in fits : Cardinality(fit) < MaxSamples => \E k \in 0 .. MaxSamples : announced[k] = fit

(* When no two calibrations were ever under way at once, the rule ends up  *)
(* with a fit of all decisions (of the latest MaxSamples).  One that read  *)
(* early and writes late puts an older fit on the rule.                    *)
UndisturbedFitIsCurrent ==
    /\ ~ overlapped
    /\ Len(decisions) >= MinSamples
    /\ calibrate[Len(decisions)] # "lost"
    /\ \A n \in Decided : calibrate[n] \notin {"unsent", "waiting", "read"}
    => inUse = Latest
=============================================================================
