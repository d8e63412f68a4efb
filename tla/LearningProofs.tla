--------------------------- MODULE LearningProofs ---------------------------
(***************************************************************************)
(* Theorems about Learning, for any findings, subjects, limits and numbers *)
(* of decisions and failures: types, what a precedent says, and what is    *)
(* known of a rule's calibration.                                          *)
(***************************************************************************)
EXTENDS Learning, FiniteSetTheorems, TLAPS

Verdicts == {"none", "pass", "fail"}
Decision == [finding : Findings, action : Actions]

(* Jobs are those of decisions.                                            *)
Placed ==
    \A n \in Numbers :
        /\ n \in Decided <=> index[n] # "none"
        /\ n \notin Decided => calibrate[n] = "none"

(* A precedent says what a decision on its subject said.                   *)
Sourced ==
    \A s \in Subjects : precedent[s].of # 0 =>
        /\ precedent[s].of \in About(s)
        /\ precedent[s] = Indexed(precedent[s].of)

(* Whatever can still replace the precedent is the last decision itself or *)
(* one of its rivals; and if the last decision has been indexed, nobody    *)
(* else has replaced it.                                                   *)
Contested ==
    \A s \in Subjects, n \in Decided : IsLast(n, s) =>
        /\ \A m \in About(s) : m # n /\ m \notin rivals[s] => index[m] \notin Open
        /\ index[n] \in {"indexed", "done"} => precedent[s].of \in {n} \cup rivals[s]

IndexInv == TypeOK /\ Placed /\ Sourced /\ Contested

-----------------------------------------------------------------------------
LEMMA InitIndex == Init => IndexInv
  <1> SUFFICES ASSUME Init PROVE IndexInv
    OBVIOUS
  <1>1. decisions = <<>> /\ Len(decisions) = 0 /\ Decided = {}
    BY DEF Init, Decided
  <1>2. TypeOK
    <2>1. NoPrecedent \in [verdict : Verdicts, of : Numbers \cup {0}]
      BY DEF NoPrecedent, Verdicts
    <2>2. decisions \in Seq(Decision) /\ Len(decisions) <= MaxDecisions
      BY <1>1, LearningBoundsAssumption
    <2>3. index \in [Numbers -> IndexStates] /\ calibrate \in [Numbers -> CalibrateStates]
      BY DEF Init, IndexStates, CalibrateStates
    <2>4. /\ status \in [Findings -> {"open", "confirmed", "overridden", "waived"}]
          /\ sample \in [Numbers -> SUBSET Numbers]
          /\ rivals \in [Subjects -> SUBSET Numbers]
          /\ announced \in [0 .. MaxSamples -> SUBSET Numbers]
      BY DEF Init
    <2>5. precedent \in [Subjects -> [verdict : Verdicts, of : Numbers \cup {0}]]
      BY <2>1 DEF Init
    <2>6. fits \subseteq SUBSET Numbers /\ inUse \subseteq Numbers /\ overlapped \in BOOLEAN
      BY DEF Init
    <2>7. failures \in 0 .. MaxFailures
      BY LearningBoundsAssumption DEF Init
    <2> QED
      BY <2>2, <2>3, <2>4, <2>5, <2>6, <2>7 DEF TypeOK, Decision, Verdicts
  <1>3. Placed
    BY <1>1 DEF Init, Placed
  <1>4. Sourced /\ Contested
    BY <1>1 DEF Init, Sourced, Contested, NoPrecedent
  <1> QED
    BY <1>2, <1>3, <1>4 DEF IndexInv

LEMMA DecidedAreNumbers ==
    ASSUME TypeOK
    PROVE  /\ Len(decisions) \in Nat /\ Decided \subseteq Numbers
           /\ \A n \in Decided : /\ decisions[n] \in Decision
                                 /\ Subject[decisions[n].finding] \in Subjects
                                 /\ n \in About(Subject[decisions[n].finding])
  <1>1. Len(decisions) \in Nat /\ Len(decisions) <= MaxDecisions /\ decisions \in Seq(Decision)
    BY DEF TypeOK, Decision
  <1>2. \A n \in Decided : decisions[n] \in Decision
    BY <1>1 DEF Decided
  <1>3. Decided \subseteq Numbers
    BY <1>1, LearningBoundsAssumption DEF Decided, Numbers
  <1> QED
    BY <1>1, <1>2, <1>3, SubjectAssumption DEF Decision, About

(* Steps that leave the decisions, the index jobs and the precedents alone.*)
LEMMA IndexFrame ==
    ASSUME IndexInv, TypeOK', UNCHANGED <<decisions, index, precedent, rivals>>,
           \A n \in Numbers : n \notin Decided => calibrate'[n] = "none"
    PROVE  IndexInv'
  BY DEF IndexInv, Placed, Sourced, Contested, IsLast, About, Decided, Indexed

LEMMA CalibrateSteps ==
    ASSUME IndexInv, NEW n \in Numbers,
           SendCalibrate(n) \/ ReadSamples(n) \/ WriteFit(n) \/ FailCalibrate(n)
    PROVE  IndexInv'
  <1>1. UNCHANGED <<decisions, status, index, precedent, rivals>>
    BY DEF SendCalibrate, ReadSamples, WriteFit, FailCalibrate
  <1>2. calibrate[n] # "none" /\ \A m \in Numbers \ {n} : calibrate'[m] = calibrate[m]
    BY DEF SendCalibrate, ReadSamples, WriteFit, FailCalibrate, IndexInv, TypeOK
  <1>3. TypeOK
    BY DEF IndexInv
  <1>4. TypeOK'
    <2>1. CASE SendCalibrate(n)
      BY <1>3, <2>1 DEF TypeOK, SendCalibrate, CalibrateStates
    <2>2. CASE ReadSamples(n)
      <3>1. Latest \subseteq Numbers
        BY <1>3, DecidedAreNumbers DEF Latest
      <3>2. calibrate' \in [Numbers -> CalibrateStates] /\ sample' \in [Numbers -> SUBSET Numbers]
        BY <1>3, <2>2, <3>1 DEF TypeOK, ReadSamples, CalibrateStates
      <3>3. overlapped' \in BOOLEAN
        BY <1>3, <2>2 DEF TypeOK, ReadSamples
      <3> QED
        BY <1>3, <2>2, <3>2, <3>3 DEF TypeOK, ReadSamples
    <2>3. CASE WriteFit(n)
      <3>1. sample[n] \subseteq Numbers
        BY <1>3 DEF TypeOK
      <3>2. announced' \in [0 .. MaxSamples -> SUBSET Numbers]
        BY <1>3, <2>3, <3>1 DEF TypeOK, WriteFit, Told
      <3>3. calibrate' \in [Numbers -> CalibrateStates] /\ sample' \in [Numbers -> SUBSET Numbers]
        BY <1>3, <2>3 DEF TypeOK, WriteFit, CalibrateStates
      <3> QED
        BY <1>3, <2>3, <3>1, <3>2, <3>3 DEF TypeOK, WriteFit
    <2>4. CASE FailCalibrate(n)
      <3>1. failures' \in 0 .. MaxFailures
        BY <1>3, <2>4, LearningBoundsAssumption DEF TypeOK, FailCalibrate
      <3>2. calibrate' \in [Numbers -> CalibrateStates] /\ sample' \in [Numbers -> SUBSET Numbers]
        BY <1>3, <2>4 DEF TypeOK, FailCalibrate, CalibrateStates
      <3> QED
        BY <1>3, <2>4, <3>1, <3>2 DEF TypeOK, FailCalibrate
    <2> QED
      BY <2>1, <2>2, <2>3, <2>4
  <1>5. \A m \in Numbers : m \notin Decided => calibrate'[m] = "none"
    BY <1>2 DEF IndexInv, Placed
  <1> QED
    BY <1>1, <1>4, <1>5, IndexFrame

(* Steps of an index job that do not touch the precedent: the job was      *)
(* open, and unless it is finished now no other state than these follows.  *)
LEMMA IndexMoves ==
    ASSUME IndexInv, NEW n \in Numbers, SendIndex(n) \/ FinishIndex(n) \/ FailIndex(n)
    PROVE  IndexInv'
  <1> USE DEF IndexInv
  <1>1. PICK to \in {"waiting", "lost", "done"} :
            /\ index' = [index EXCEPT ![n] = to] /\ index[n] \in Open
            /\ to = "done" => index[n] = "indexed"
    BY DEF SendIndex, FinishIndex, FailIndex, Open
  <1>2. UNCHANGED <<decisions, status, calibrate, sample, precedent, fits, inUse, announced,
                    rivals, overlapped>>
    BY DEF SendIndex, FinishIndex, FailIndex
  <1>3. \A m \in Numbers : index'[m] = IF m = n THEN to ELSE index[m]
    BY <1>1 DEF TypeOK
  <1>4. TypeOK'
    <2>1. failures' \in 0 .. MaxFailures
      BY LearningBoundsAssumption DEF TypeOK, SendIndex, FinishIndex, FailIndex
    <2>2. index' \in [Numbers -> IndexStates]
      BY <1>1 DEF TypeOK, IndexStates
    <2> QED
      BY <1>2, <2>1, <2>2 DEF TypeOK
  <1>5. Placed' /\ Sourced'
    BY <1>1, <1>2, <1>3 DEF Placed, Sourced, Decided, About, Indexed, Open
  <1>6. Contested'
    <2> SUFFICES ASSUME NEW s \in Subjects, NEW k \in Decided, IsLast(k, s)
                 PROVE  /\ \A m \in About(s) : m # k /\ m \notin rivals[s] => index'[m] \notin Open
                        /\ index'[k] \in {"indexed", "done"} => precedent[s].of \in {k} \cup rivals[s]
      BY <1>2 DEF Contested, IsLast, About, Decided
    <2>1. About(s) \subseteq Numbers /\ k \in Numbers
      BY DecidedAreNumbers DEF About
    <2> QED
      BY <1>1, <1>3, <2>1 DEF Contested, Open
  <1> QED
    BY <1>4, <1>5, <1>6

(* The job that writes the precedent is open: it is the last decision's or *)
(* a rival's.                                                              *)
LEMMA UpsertKeeps ==
    ASSUME IndexInv, NEW n \in Numbers, UpsertPrecedent(n)
    PROVE  IndexInv'
  <1> USE DEF IndexInv
  <1> DEFINE t == Subject[decisions[n].finding]
             new == Indexed(n)
  <1>1. index[n] = "waiting" /\ n \in Decided
    BY DEF UpsertPrecedent, Placed
  <1>2. t \in Subjects /\ n \in About(t) /\ Decided \subseteq Numbers
    BY <1>1, DecidedAreNumbers
  <1>3. /\ index' = [index EXCEPT ![n] = "indexed"]
        /\ precedent' = [precedent EXCEPT ![t] = new]
        /\ UNCHANGED <<decisions, status, calibrate, sample, fits, inUse, announced, failures,
                       rivals, overlapped>>
    BY DEF UpsertPrecedent
  <1>4. new \in [verdict : Verdicts, of : Numbers \cup {0}] /\ new.of = n
    BY DEF Indexed, HumanVerdict, Verdicts
  <1> HIDE DEF t, new
  <1>5. \A m \in Numbers : index'[m] = IF m = n THEN "indexed" ELSE index[m]
    BY <1>3 DEF TypeOK
  <1>6. \A s \in Subjects : precedent'[s] = IF s = t THEN new ELSE precedent[s]
    BY <1>3 DEF TypeOK
  <1>7. TypeOK'
    BY <1>3, <1>4 DEF TypeOK, IndexStates, Verdicts
  <1>8. Placed'
    BY <1>1, <1>3, <1>5 DEF Placed, Decided
  <1>9. Sourced'
    <2> SUFFICES ASSUME NEW s \in Subjects, precedent'[s].of # 0
                 PROVE  /\ precedent'[s].of \in About(s)
                        /\ precedent'[s] = Indexed(precedent'[s].of)
      BY <1>3 DEF Sourced, About, Decided, Indexed
    <2>1. CASE s = t
      BY <1>2, <1>4, <1>6, <2>1 DEF new
    <2>2. CASE s # t
      BY <1>6, <2>2 DEF Sourced
    <2> QED
      BY <2>1, <2>2
  <1>10. Contested'
    <2> SUFFICES ASSUME NEW s \in Subjects, NEW k \in Decided, IsLast(k, s)
                 PROVE  /\ \A m \in About(s) : m # k /\ m \notin rivals[s] => index'[m] \notin Open
                        /\ index'[k] \in {"indexed", "done"}
                                => precedent'[s].of \in {k} \cup rivals[s]
      BY <1>3 DEF Contested, IsLast, About, Decided
    <2>1. About(s) \subseteq Numbers /\ k \in Numbers
      BY DecidedAreNumbers DEF About
    <2>2. \A m \in About(s) : m # k /\ m \notin rivals[s] => index'[m] \notin Open
      BY <1>1, <1>5, <2>1 DEF Contested, Open
    <2>3. CASE s = t
      <3>1. n = k \/ n \in rivals[s]
        BY <1>1, <1>2, <2>3 DEF Contested, Open
      <3> QED
        BY <1>4, <1>6, <2>2, <2>3, <3>1
    <2>4. CASE s # t
      <3>1. k # n
        BY <1>2, <2>4 DEF IsLast, About, t
      <3> QED
        BY <1>5, <1>6, <2>1, <2>2, <2>4, <3>1 DEF Contested
    <2> QED
      BY <2>3, <2>4
  <1> QED
    BY <1>7, <1>8, <1>9, <1>10

LEMMA FindingStatusType ==
    ASSUME NEW a, NEW old \in {"open", "confirmed", "overridden", "waived"}
    PROVE  FindingStatus(a, old) \in {"open", "confirmed", "overridden", "waived"}
  BY DEF FindingStatus

(* A new decision is the last on its subject, and its rivals are by        *)
(* definition all whose jobs are open.                                     *)
LEMMA DecideKeeps ==
    ASSUME IndexInv, NEW f \in Findings, NEW a \in Actions, Decide(f, a)
    PROVE  IndexInv'
  <1> USE DEF IndexInv
  <1> DEFINE n == Len(decisions) + 1
             t == Subject[f]
             d == [finding |-> f, action |-> a]
  <1>1. /\ n \in Numbers /\ decisions' = Append(decisions, d)
        /\ index' = [index EXCEPT ![n] = "unsent"]
        /\ calibrate' = [calibrate EXCEPT ![n] = "unsent"]
        /\ rivals' = [rivals EXCEPT ![t] = {m \in About(t) : index[m] \in Open}]
        /\ status' = [status EXCEPT ![f] = FindingStatus(a, @)]
        /\ UNCHANGED <<sample, precedent, fits, inUse, announced, failures, overlapped>>
    BY DEF Decide
  <1>2. t \in Subjects /\ d \in Decision /\ decisions \in Seq(Decision) /\ d.finding = f
    BY SubjectAssumption DEF Decision, TypeOK
  <1>3. /\ Len(decisions) \in Nat /\ n \in Nat /\ n \notin Decided
        /\ Len(decisions') = n /\ decisions' \in Seq(Decision) /\ decisions'[n] = d
        /\ \A m \in Decided : decisions'[m] = decisions[m]
    BY <1>1, <1>2 DEF Decided
  <1>4. Decided' = Decided \cup {n} /\ Decided \subseteq Numbers
    BY <1>3, DecidedAreNumbers DEF Decided
  <1>5. \A s \in Subjects : About(s)' = About(s) \cup (IF s = t THEN {n} ELSE {})
    BY <1>2, <1>3, <1>4 DEF About
  <1>6. \A m \in Decided : m < n
    BY <1>3 DEF Decided
  <1>7. TypeOK'
    <2>1. status' \in [Findings -> {"open", "confirmed", "overridden", "waived"}]
      BY <1>1, FindingStatusType DEF TypeOK
    <2>2. Len(decisions') <= MaxDecisions
      BY <1>1, <1>3, LearningBoundsAssumption DEF Numbers
    <2>3. rivals' \in [Subjects -> SUBSET Numbers]
      BY <1>1, <1>4 DEF TypeOK, About
    <2>4. index' \in [Numbers -> IndexStates] /\ calibrate' \in [Numbers -> CalibrateStates]
      BY <1>1 DEF TypeOK, IndexStates, CalibrateStates
    <2> QED
      BY <1>1, <1>3, <2>1, <2>2, <2>3, <2>4 DEF TypeOK, Decision
  <1> HIDE DEF n, t, d
  <1>8. \A m \in Numbers : /\ index'[m] = IF m = n THEN "unsent" ELSE index[m]
                           /\ calibrate'[m] = IF m = n THEN "unsent" ELSE calibrate[m]
    BY <1>1 DEF TypeOK
  <1>9. Placed'
    BY <1>4, <1>8 DEF Placed
  <1>10. Sourced'
    <2> SUFFICES ASSUME NEW s \in Subjects, precedent[s].of # 0
                 PROVE  /\ precedent[s].of \in About(s)'
                        /\ precedent[s] = Indexed(precedent[s].of)'
      BY <1>1 DEF Sourced
    <2>1. precedent[s].of \in About(s) /\ precedent[s] = Indexed(precedent[s].of)
      BY DEF Sourced
    <2>2. precedent[s].of \in Decided
      BY <2>1 DEF About
    <2>3. Indexed(precedent[s].of)' = Indexed(precedent[s].of)
      BY <1>1, <1>3, <2>2 DEF Indexed
    <2> QED
      BY <1>5, <2>1, <2>3
  <1>11. Contested'
    <2> SUFFICES ASSUME NEW s \in Subjects, NEW k \in Decided', IsLast(k, s)'
                 PROVE  /\ \A m \in About(s)' : m # k /\ m \notin rivals'[s] => index'[m] \notin Open
                        /\ index'[k] \in {"indexed", "done"}
                                => precedent[s].of \in {k} \cup rivals'[s]
      BY <1>1 DEF Contested
    <2>1. CASE s = t
      <3>1. k = n
        BY <1>3, <1>4, <1>5, <1>6, <2>1 DEF IsLast, Decided
      <3>2. rivals'[s] = {m \in About(t) : index[m] \in Open}
        BY <1>1, <1>2, <2>1 DEF TypeOK
      <3>3. \A m \in About(s) : m \in Numbers /\ m # n
        BY <1>3, <1>4 DEF About
      <3> QED
        BY <1>1, <1>5, <1>8, <2>1, <3>1, <3>2, <3>3
    <2>2. CASE s # t
      <3>1. About(s)' = About(s) /\ rivals'[s] = rivals[s]
        BY <1>1, <1>5, <2>2 DEF TypeOK
      <3>2. IsLast(k, s) /\ k \in Decided /\ k # n /\ k \in Numbers
        BY <1>3, <1>4, <3>1 DEF IsLast, About
      <3>3. \A m \in About(s) : m \in Numbers /\ m # n
        BY <1>3, <1>4 DEF About
      <3> QED
        BY <1>8, <3>1, <3>2, <3>3 DEF Contested
    <2> QED
      BY <2>1, <2>2
  <1> QED
    BY <1>7, <1>9, <1>10, <1>11

LEMMA StepIndex == IndexInv /\ [Next]_vars => IndexInv'
  <1> SUFFICES ASSUME IndexInv, [Next]_vars PROVE IndexInv'
    OBVIOUS
  <1>1. CASE UNCHANGED vars
    <2>1. TypeOK'
      BY <1>1 DEF vars, IndexInv, TypeOK
    <2>2. \A n \in Numbers : n \notin Decided => calibrate'[n] = "none"
      BY <1>1 DEF vars, IndexInv, Placed
    <2> QED
      BY <1>1, <2>1, <2>2, IndexFrame DEF vars
  <1> QED
    BY <1>1, DecideKeeps, UpsertKeeps, IndexMoves, CalibrateSteps DEF Next, Work

LEMMA IndexInvImplies == IndexInv => TypeOK /\ LastWordOrRival
  <1> SUFFICES ASSUME IndexInv, NEW s \in Subjects, NEW n \in Decided, IsLast(n, s),
                      index[n] # "lost", \A m \in About(s) : index[m] \notin Open
               PROVE  /\ precedent[s].of \in {n} \cup rivals[s]
                      /\ precedent[s] = Indexed(precedent[s].of)
    BY DEF LastWordOrRival, IndexInv
  <1>1. n \in Numbers /\ n \in About(s) /\ 0 \notin Numbers
    BY DecidedAreNumbers DEF IsLast, IndexInv, Numbers
  <1>2. index[n] = "done"
    BY <1>1 DEF IndexInv, TypeOK, Placed, IndexStates, Open
  <1>3. precedent[s].of \in {n} \cup rivals[s]
    BY <1>2 DEF IndexInv, Contested
  <1>4. precedent[s].of # 0
    BY <1>1, <1>3 DEF IndexInv, TypeOK
  <1> QED
    BY <1>3, <1>4 DEF IndexInv, Sourced

(* The tables, the jobs and the history keep their types.                  *)
THEOREM TypeCorrect == Spec => []TypeOK
  <1>1. IndexInv => TypeOK
    BY DEF IndexInv
  <1> QED
    BY <1>1, InitIndex, StepIndex, PTL DEF Spec

(* A precedent says what the last decision said, or one that was still     *)
(* being indexed when it was made (decide, indexPrecedent), in whatever    *)
(* order jobs are executed and executed again.                             *)
THEOREM LastWordStands == Spec => []LastWordOrRival
  BY InitIndex, StepIndex, IndexInvImplies, PTL DEF Spec
-----------------------------------------------------------------------------
(* What a calibration reads when `len` decisions have been made.           *)
Window(len) == {n \in 1 .. len : n + MaxSamples > len}

(* Its size tells it, as long as it is below the limit.                    *)
LEMMA WindowSize ==
    ASSUME NEW len \in Nat
    PROVE  /\ Cardinality(Window(len)) \in 0 .. MaxSamples
           /\ len >= MinSamples <=> Cardinality(Window(len)) >= MinSamples
           /\ Cardinality(Window(len)) < MaxSamples =>
                Window(len) = 1 .. Cardinality(Window(len))
  <1>1. MaxSamples \in Nat /\ MinSamples \in Nat /\ 0 < MinSamples /\ MinSamples <= MaxSamples
    BY SamplesAssumption
  <1>2. CASE len < MaxSamples
    <2>1. Window(len) = 1 .. len
      BY <1>1, <1>2 DEF Window
    <2>2. Cardinality(1 .. len) = len
      BY FS_Interval
    <2> QED
      BY <1>1, <1>2, <2>1, <2>2
  <1>3. CASE len >= MaxSamples
    <2>1. Window(len) = (len + 1 - MaxSamples) .. len
      BY <1>1, <1>3 DEF Window
    <2>2. Cardinality((len + 1 - MaxSamples) .. len) = MaxSamples
      BY <1>1, <1>3, FS_Interval
    <2> QED
      BY <1>1, <1>3, <2>1, <2>2
  <1> QED
    BY <1>1, <1>2, <1>3

IsWindow(fit) == fit # {} /\ \E len \in Nat : fit = Window(len)

(* What executions hold, what was kept and what was told are windows, told *)
(* under their size, and nothing was kept without one of its size told.    *)
Windows ==
    /\ \A n \in Numbers : calibrate[n] = "read" => IsWindow(sample[n])
    /\ \A fit \in fits : IsWindow(fit) /\ announced[Cardinality(fit)] # {}
    /\ \A k \in 0 .. MaxSamples : announced[k] # {} =>
            IsWindow(announced[k]) /\ Cardinality(announced[k]) = k

(* Short of an overlap, the job of the last decision read all there is, as *)
(* did whatever is under way since; and what it wrote is in use.           *)
Current ==
    /\ \A n \in Decided : calibrate[n] # "none"
    /\ ~ overlapped =>
        /\ \A m, n \in Numbers : calibrate[m] = "read" /\ calibrate[n] = "read" => m = n
        /\ \A last \in Decided : last = Len(decisions) /\ last >= MinSamples =>
            /\ calibrate[last] \in {"read", "done"} =>
                  \A n \in Numbers : calibrate[n] = "read" => sample[n] = Latest
            /\ calibrate[last] = "done" => inUse = Latest

FitInv == IndexInv /\ Windows /\ Current

LEMMA InitFit == Init => FitInv
  <1> SUFFICES ASSUME Init PROVE FitInv
    OBVIOUS
  <1>1. Windows /\ Current
    BY DEF Init, Windows, Current, Decided
  <1> QED
    BY <1>1, InitIndex DEF FitInv

(* A fit that is kept has the size of one that was told.                   *)
LEMMA WindowIsSmall ==
    ASSUME NEW fit, IsWindow(fit)
    PROVE  /\ Cardinality(fit) \in 0 .. MaxSamples
           /\ Cardinality(fit) < MaxSamples => fit = 1 .. Cardinality(fit)
  BY WindowSize DEF IsWindow

LEMMA LatestIsWindow ==
    ASSUME TypeOK
    PROVE  /\ Latest = Window(Len(decisions))
           /\ Enough <=> Len(decisions) >= MinSamples
           /\ Enough => IsWindow(Latest)
  <1>1. Len(decisions) \in Nat
    BY DecidedAreNumbers
  <1>2. Latest = Window(Len(decisions))
    BY DEF Latest, Window, Decided
  <1>3. Enough <=> Len(decisions) >= MinSamples
    BY <1>1, <1>2, WindowSize DEF Enough
  <1>4. Enough => Latest # {}
    BY FS_EmptySet, SamplesAssumption DEF Enough
  <1> QED
    BY <1>1, <1>2, <1>3, <1>4 DEF IsWindow

(* Steps of the index jobs.                                                *)
LEMMA FitFrame ==
    ASSUME FitInv, UNCHANGED <<decisions, calibrate, sample, fits, inUse, announced, overlapped>>
    PROVE  Windows' /\ Current'
  BY DEF FitInv, Windows, IsWindow, Window, Current, Decided, Latest

LEMMA DecideKeepsFit ==
    ASSUME FitInv, NEW f \in Findings, NEW a \in Actions, Decide(f, a)
    PROVE  Windows' /\ Current'
  <1> USE DEF FitInv
  <1> DEFINE n == Len(decisions) + 1
  <1>1. /\ n \in Numbers /\ decisions' = Append(decisions, [finding |-> f, action |-> a])
        /\ calibrate' = [calibrate EXCEPT ![n] = "unsent"]
        /\ UNCHANGED <<sample, fits, inUse, announced, overlapped>>
    BY DEF Decide
  <1>2. TypeOK /\ Len(decisions) \in Nat
    BY DecidedAreNumbers DEF IndexInv
  <1>3. Len(decisions') = n
    BY <1>1, <1>2 DEF TypeOK
  <1>4. Decided' = Decided \cup {n} /\ Decided \subseteq Numbers
    BY <1>2, <1>3, DecidedAreNumbers DEF Decided
  <1> HIDE DEF n
  <1>5. \A m \in Numbers : calibrate'[m] = IF m = n THEN "unsent" ELSE calibrate[m]
    BY <1>1, <1>2 DEF TypeOK
  <1>6. Windows'
    <2>1. \A m \in Numbers : calibrate'[m] = "read" => calibrate[m] = "read"
      BY <1>5
    <2>2. UNCHANGED <<sample, fits, announced>>
      BY <1>1
    <2> QED
      BY <2>1, <2>2 DEF Windows, IsWindow, Window
  <1>7. \A m \in Decided' : calibrate'[m] # "none"
    BY <1>1, <1>4, <1>5 DEF Current
  <1>8. \A m, k \in Numbers : calibrate'[m] = "read" /\ calibrate'[k] = "read" =>
            calibrate[m] = "read" /\ calibrate[k] = "read"
    BY <1>5
  <1>9. calibrate'[n] = "unsent"
    BY <1>1, <1>5
  <1>10. Current'
    BY <1>1, <1>3, <1>7, <1>8, <1>9 DEF Current
  <1> QED
    BY <1>6, <1>10

(* A job is sent or lost, finds too few samples, or is run again.          *)
LEMMA CalibrateMoves ==
    ASSUME FitInv, NEW n \in Numbers, n \in Decided,
           NEW to \in {"waiting", "lost", "done"},
           calibrate' = [calibrate EXCEPT ![n] = to],
           to = "done" => Len(decisions) < MinSamples,
           \A m \in Numbers : m # n => sample'[m] = sample[m],
           UNCHANGED <<decisions, fits, inUse, announced, overlapped>>
    PROVE  Windows' /\ Current'
  <1> USE DEF FitInv
  <1>1. TypeOK /\ Len(decisions) \in Nat /\ MinSamples \in Nat
    BY DecidedAreNumbers, SamplesAssumption DEF IndexInv
  <1>2. \A m \in Numbers : calibrate'[m] = IF m = n THEN to ELSE calibrate[m]
    BY <1>1 DEF TypeOK
  <1>3. \A m \in Numbers : calibrate'[m] = "read" =>
            calibrate[m] = "read" /\ sample'[m] = sample[m]
    BY <1>2
  <1>4. Windows'
    BY <1>3 DEF Windows, IsWindow, Window
  <1>5. Decided' = Decided /\ Latest' = Latest /\ Decided \subseteq Numbers
    BY <1>1, DecidedAreNumbers DEF Decided, Latest
  <1>6. \A m \in Decided' : calibrate'[m] # "none"
    BY <1>2, <1>5 DEF Current
  <1>7. ASSUME ~ overlapped, NEW m \in Numbers, NEW k \in Numbers,
               calibrate'[m] = "read", calibrate'[k] = "read"
        PROVE  m = k
    BY <1>3, <1>7 DEF Current
  <1>8. ASSUME ~ overlapped, NEW last \in Decided, last = Len(decisions), last >= MinSamples,
               calibrate'[last] \in {"read", "done"}
        PROVE  /\ \A m \in Numbers : calibrate'[m] = "read" => sample'[m] = Latest
               /\ calibrate'[last] = "done" => inUse = Latest
    <2>1. last \in Numbers /\ calibrate'[last] = calibrate[last]
      BY <1>1, <1>2, <1>5, <1>8
    <2>2. /\ \A m \in Numbers : calibrate[m] = "read" => sample[m] = Latest
          /\ calibrate[last] = "done" => inUse = Latest
      BY <1>8, <2>1 DEF Current
    <2> QED
      BY <1>3, <2>1, <2>2
  <1>9. Current'
    BY <1>5, <1>6, <1>7, <1>8 DEF Current
  <1> QED
    BY <1>4, <1>9

LEMMA ReadKeepsFit ==
    ASSUME FitInv, NEW n \in Numbers, ReadSamples(n)
    PROVE  Windows' /\ Current'
  <1> USE DEF FitInv
  <1>1. TypeOK /\ Len(decisions) \in Nat /\ MinSamples \in Nat
    BY DecidedAreNumbers, SamplesAssumption DEF IndexInv
  <1>2. n \in Decided /\ calibrate[n] = "waiting"
    BY DEF ReadSamples, IndexInv, Placed
  <1>3. CASE ~ Enough
    <2>1. /\ calibrate' = [calibrate EXCEPT ![n] = "done"] /\ Len(decisions) < MinSamples
          /\ UNCHANGED <<decisions, sample, fits, inUse, announced, overlapped>>
      BY <1>1, <1>3, LatestIsWindow DEF ReadSamples
    <2> QED
      BY <1>2, <2>1, CalibrateMoves
  <1>4. CASE Enough
    <2>1. /\ calibrate' = [calibrate EXCEPT ![n] = "read"]
          /\ sample' = [sample EXCEPT ![n] = Latest]
          /\ overlapped' = (overlapped \/ \E m \in Numbers : calibrate[m] = "read")
          /\ UNCHANGED <<decisions, fits, inUse, announced>>
      BY <1>4 DEF ReadSamples
    <2>2. IsWindow(Latest)
      BY <1>1, <1>4, LatestIsWindow
    <2>3. \A m \in Numbers : /\ calibrate'[m] = IF m = n THEN "read" ELSE calibrate[m]
                             /\ sample'[m] = IF m = n THEN Latest ELSE sample[m]
      BY <1>1, <2>1 DEF TypeOK
    <2>4. Windows'
      <3>1. \A m \in Numbers : calibrate'[m] = "read" => IsWindow(sample'[m])
        BY <2>2, <2>3 DEF Windows
      <3> QED
        BY <2>1, <3>1 DEF Windows, IsWindow, Window
    <2>5. Decided' = Decided /\ Latest' = Latest /\ Decided \subseteq Numbers
      BY <1>1, <2>1, DecidedAreNumbers DEF Decided, Latest
    <2>6. \A m \in Decided' : calibrate'[m] # "none"
      BY <2>3, <2>5 DEF Current
    <2>7. ~ overlapped' => ~ overlapped /\ \A m \in Numbers : calibrate'[m] = "read" => m = n
      BY <2>1, <2>3
    <2>8. \A last \in Decided : calibrate'[last] = "done" => calibrate[last] = "done"
      BY <2>3, <2>5
    <2>9. Current'
      BY <2>1, <2>3, <2>5, <2>6, <2>7, <2>8 DEF Current
    <2> QED
      BY <2>4, <2>9
  <1> QED
    BY <1>3, <1>4

LEMMA WriteKeepsFit ==
    ASSUME FitInv, NEW n \in Numbers, WriteFit(n)
    PROVE  Windows' /\ Current'
  <1> USE DEF FitInv
  <1> DEFINE fit == sample[n]
             k == Cardinality(fit)
  <1>1. TypeOK /\ Len(decisions) \in Nat
    BY DecidedAreNumbers DEF IndexInv
  <1>2. /\ calibrate[n] = "read" /\ calibrate' = [calibrate EXCEPT ![n] = "done"]
        /\ fits' = fits \cup {fit} /\ inUse' = fit
        /\ announced' = [announced EXCEPT ![k] = IF @ = {} THEN fit ELSE @]
        /\ sample' = [sample EXCEPT ![n] = {}]
        /\ UNCHANGED <<decisions, overlapped>>
    BY DEF WriteFit, Told, EventKey
  <1>3. IsWindow(fit) /\ fit # {} /\ k \in 0 .. MaxSamples
    <2>1. IsWindow(fit)
      BY <1>2 DEF Windows
    <2> QED
      BY <2>1, WindowIsSmall DEF IsWindow
  <1> HIDE DEF fit, k
  <1>4. \A m \in Numbers : /\ calibrate'[m] = IF m = n THEN "done" ELSE calibrate[m]
                           /\ m # n => sample'[m] = sample[m]
    BY <1>1, <1>2 DEF TypeOK
  <1>5. \A i \in 0 .. MaxSamples :
          announced'[i] = IF i = k /\ announced[i] = {} THEN fit ELSE announced[i]
    BY <1>1, <1>2, <1>3 DEF TypeOK
  <1>6. Windows'
    <2>1. \A m \in Numbers : calibrate'[m] = "read" => IsWindow(sample'[m])
      BY <1>4 DEF Windows
    <2>2. \A x \in fits' : IsWindow(x) /\ announced'[Cardinality(x)] # {}
      <3>1. announced'[k] # {}
        BY <1>3, <1>5
      <3>2. \A x \in fits : Cardinality(x) \in 0 .. MaxSamples
        BY WindowIsSmall DEF Windows
      <3>3. \A x \in fits : IsWindow(x) /\ announced'[Cardinality(x)] # {}
        BY <1>3, <1>5, <3>2 DEF Windows
      <3> QED
        BY <1>2, <1>3, <3>1, <3>3 DEF k
    <2>3. \A i \in 0 .. MaxSamples : announced'[i] # {} =>
             IsWindow(announced'[i]) /\ Cardinality(announced'[i]) = i
      BY <1>3, <1>5 DEF Windows, k
    <2> QED
      BY <2>1, <2>2, <2>3 DEF Windows, IsWindow, Window
  <1>7. Decided' = Decided /\ Latest' = Latest /\ Decided \subseteq Numbers
    BY <1>1, <1>2, DecidedAreNumbers DEF Decided, Latest
  <1>8. \A m \in Decided' : calibrate'[m] # "none"
    BY <1>4, <1>7 DEF Current
  <1>9. ~ overlapped => \A m \in Numbers : calibrate'[m] # "read"
    BY <1>2, <1>4 DEF Current
  <1>10. ASSUME ~ overlapped, NEW last \in Decided, last = Len(decisions), last >= MinSamples,
                calibrate'[last] = "done"
         PROVE  inUse' = Latest
    <2>1. calibrate[last] \in {"read", "done"}
      BY <1>2, <1>4, <1>7, <1>10
    <2>2. sample[n] = Latest
      BY <1>2, <1>10, <2>1 DEF Current
    <2> QED
      BY <1>2, <2>2 DEF fit
  <1>11. Current'
    BY <1>2, <1>7, <1>8, <1>9, <1>10 DEF Current
  <1> QED
    BY <1>6, <1>11

LEMMA StepFit == FitInv /\ [Next]_vars => FitInv'
  <1> SUFFICES ASSUME FitInv, [Next]_vars PROVE Windows' /\ Current'
    BY StepIndex DEF FitInv
  <1>1. ASSUME NEW n \in Numbers,
               SendIndex(n) \/ UpsertPrecedent(n) \/ FinishIndex(n) \/ FailIndex(n)
        PROVE  Windows' /\ Current'
    BY <1>1, FitFrame DEF SendIndex, UpsertPrecedent, FinishIndex, FailIndex
  <1>2. CASE UNCHANGED vars
    BY <1>2, FitFrame DEF vars
  <1>3. ASSUME NEW n \in Numbers, SendCalibrate(n) \/ FailCalibrate(n)
        PROVE  Windows' /\ Current'
    <2>1. /\ n \in Decided /\ UNCHANGED <<decisions, fits, inUse, announced, overlapped>>
          /\ \A m \in Numbers : m # n => sample'[m] = sample[m]
      BY <1>3 DEF SendCalibrate, FailCalibrate, FitInv, IndexInv, Placed, TypeOK
    <2>2. PICK to \in {"waiting", "lost"} : calibrate' = [calibrate EXCEPT ![n] = to]
      BY <1>3 DEF SendCalibrate, FailCalibrate
    <2> QED
      BY <2>1, <2>2, CalibrateMoves
  <1> QED
    BY <1>1, <1>2, <1>3, DecideKeepsFit, ReadKeepsFit, WriteKeepsFit DEF Next, Work

(***************************************************************************)
(* The event of a fit that was dropped for its idempotency key told of the *)
(* same fit, short of the limit on samples: below it a fit is made of the  *)
(* first decisions, and their number tells which.                          *)
(***************************************************************************)
THEOREM DroppedWereTold == Spec => []DroppedEventsWereTold
  <1>1. FitInv => DroppedEventsWereTold
    <2> SUFFICES ASSUME FitInv, NEW fit \in fits, Cardinality(fit) < MaxSamples
                 PROVE  \E k \in 0 .. MaxSamples : announced[k] = fit
      BY DEF DroppedEventsWereTold
    <2> DEFINE k == Cardinality(fit)
    <2>1. IsWindow(fit) /\ announced[k] # {}
      BY DEF FitInv, Windows
    <2>2. k \in 0 .. MaxSamples /\ fit = 1 .. k
      BY <2>1, WindowIsSmall
    <2>3. IsWindow(announced[k]) /\ Cardinality(announced[k]) = k
      BY <2>1, <2>2 DEF FitInv, Windows
    <2>4. announced[k] = 1 .. k
      BY <2>3, WindowIsSmall
    <2> QED
      BY <2>2, <2>4
  <1> QED
    BY <1>1, InitFit, StepFit, PTL DEF Spec

(***************************************************************************)
(* When no two executions of calibrateRule overlap, and the job of the     *)
(* last decision was sent, the rule ends with the fit of all decisions.    *)
(***************************************************************************)
THEOREM UndisturbedIsCurrent == Spec => []UndisturbedFitIsCurrent
  <1>1. FitInv => UndisturbedFitIsCurrent
    <2> SUFFICES ASSUME FitInv, ~ overlapped, Len(decisions) >= MinSamples,
                        calibrate[Len(decisions)] # "lost",
                        \A n \in Decided : calibrate[n] \notin {"unsent", "waiting", "read"}
                 PROVE  inUse = Latest
      BY DEF UndisturbedFitIsCurrent
    <2>1. Len(decisions) \in Nat /\ Decided \subseteq Numbers /\ TypeOK
      BY DecidedAreNumbers DEF FitInv, IndexInv
    <2>2. Len(decisions) \in Decided
      BY <2>1, SamplesAssumption DEF Decided
    <2>3. calibrate[Len(decisions)] = "done"
      BY <2>1, <2>2 DEF FitInv, Current, TypeOK, CalibrateStates
    <2> QED
      BY <2>2, <2>3 DEF FitInv, Current
  <1> QED
    BY <1>1, InitFit, StepFit, PTL DEF Spec
=============================================================================
