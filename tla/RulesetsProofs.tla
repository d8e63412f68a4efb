--------------------------- MODULE RulesetsProofs ---------------------------
(* Theorems about Rulesets: the types of its variables, the identity of    *)
(* rules by key and version, of rulesets by hash, and that publication     *)
(* implements RulesetHistory, for every number of rows, keys, texts,       *)
(* editors and publishers.                                                 *)
EXTENDS Rulesets, FiniteSetTheorems, WellFoundedInduction, TLAPS

(* A finite set of naturals has a greatest element.  Of all nonempty sets  *)
(* without one, take a minimal set, and one element out of it.             *)
LEMMA MaxIsGreatest ==
    ASSUME NEW S \in SUBSET Nat, IsFiniteSet(S), S # {}
    PROVE  Max(S) \in S /\ \A x \in S : x <= Max(S)
  <1> DEFINE Endless == {A \in FiniteSubsetsOf(Nat) :
                           A # {} /\ \A x \in A : \E y \in A : x < y}
  <1>1. Endless = {}
    <2> SUFFICES ASSUME Endless # {} PROVE FALSE
      OBVIOUS
    <2>1. IsWellFoundedOn(StrictSubsetOrdering(Nat), FiniteSubsetsOf(Nat))
      BY FS_StrictSubsetOrderingWellFounded
    <2>2. Endless \subseteq FiniteSubsetsOf(Nat)
      OBVIOUS
    <2> HIDE DEF Endless
    <2>3. \E A \in Endless : \A B \in Endless : <<B, A>> \notin StrictSubsetOrdering(Nat)
      BY <2>1, <2>2, WFMin
    <2>4. PICK A \in Endless : \A B \in Endless : <<B, A>> \notin StrictSubsetOrdering(Nat)
      BY <2>3
    <2> USE DEF Endless
    <2>5. A \in SUBSET Nat /\ IsFiniteSet(A) /\ A # {} /\ \A x \in A : \E y \in A : x < y
      BY <2>4 DEF FiniteSubsetsOf
    <2>6. PICK x \in A : TRUE
      BY <2>5
    <2> DEFINE B == A \ {x}
    <2>7. IsFiniteSet(B) /\ B \in SUBSET Nat
      BY <2>5, FS_RemoveElement
    <2>8. <<B, A>> \in StrictSubsetOrdering(Nat)
      BY <2>5, <2>6, <2>7 DEF StrictSubsetOrdering
    <2>9. PICK y \in A : x < y
      BY <2>5, <2>6
    <2>10. y \in B
      BY <2>5, <2>6, <2>9
    <2>11. B \notin Endless
      BY <2>4, <2>8
    <2>12. PICK m \in B : \A z \in B : ~ (m < z)
      BY <2>7, <2>10, <2>11 DEF FiniteSubsetsOf
    <2>13. PICK z \in A : m < z
      BY <2>5, <2>12
    <2>14. z = x
      BY <2>12, <2>13
    <2>15. m \in Nat /\ x \in Nat /\ y \in Nat
      BY <2>5, <2>6, <2>9, <2>12
    <2>16. m < y
      BY <2>9, <2>13, <2>14, <2>15
    <2> QED
      BY <2>10, <2>12, <2>16
  <1>2. S \in FiniteSubsetsOf(Nat)
    BY DEF FiniteSubsetsOf
  <1>3. PICK m \in S : \A x \in S : ~ (m < x)
    BY <1>1, <1>2
  <1>4. \A x \in S : m >= x
    BY <1>3
  <1>5. Max(S) \in S /\ \A x \in S : Max(S) >= x
    BY <1>3, <1>4 DEF Max
  <1> QED
    BY <1>5

-----------------------------------------------------------------------------
(* The inductive invariant. *)

(* Rows that exist have a version, and edits are of rows that exist.       *)
WellFormed ==
    /\ \A r \in Existing : rule[r].version # 0
    /\ \A e \in Editors : edit[e] # NoEdit => edit[e].row \in Existing

(* The history has what is in force and what was compiled.                 *)
OnRecord ==
    /\ \A r \in InForce : Hashed(Compiled(r)) \in enforced
    /\ \A p \in Publishers : Hash(publication[p].snapshot) \subseteq enforced

IInv == TypeOK /\ WellFormed /\ VersionsIdentify /\ OneRulesetPerHash /\ OnRecord

LEMMA NoneTyped ==
    NoEdit \in Edit /\ NoRule \in Row /\ NoPublication \in Publication
  <1>1. (CHOOSE k \in Keys : TRUE) \in Keys /\ (CHOOSE t \in Texts : TRUE) \in Texts
    BY NoneAssumption
  <1> QED
    BY <1>1 DEF NoEdit, NoRule, NoPublication, Edit, Row, Publication, Statuses, Decided

(* max + 1: all versions below it are taken.                               *)
LEMMA NextVersionClosesUp ==
    ASSUME NEW k \in Keys, TypeOK, WellFormed, VersionsIdentify
    PROVE  /\ NextVersion(k) \in Versions
           /\ \A v \in 1..(NextVersion(k) - 1) : \E s \in OfKey(k) : rule[s].version = v
  <1> DEFINE S == {0} \cup {rule[r].version : r \in OfKey(k)}
             T == {rule[r].version : r \in OfKey(k)}
             f == [r \in OfKey(k) |-> rule[r].version]
  <1>1. OfKey(k) \in SUBSET Rows /\ IsFiniteSet(OfKey(k))
    BY BoundsAssumption, FS_Subset DEF OfKey, Existing
  <1>2. S \in SUBSET Nat
    BY <1>1 DEF TypeOK, Row
  <1>3. f \in Surjection(OfKey(k), T)
    BY DEF Surjection
  <1>4. IsFiniteSet(T)
    BY <1>1, <1>3, FS_Surjection
  <1>5. IsFiniteSet(S)
    BY <1>4, FS_AddElement
  <1>6. Max(S) \in S /\ Max(S) \in Nat
    BY <1>2, <1>5, MaxIsGreatest
  <1>7. NextVersion(k) = Max(S) + 1
    BY DEF NextVersion
  <1>8. ASSUME NEW v \in 1..(NextVersion(k) - 1)
        PROVE  \E s \in OfKey(k) : rule[s].version = v
    <2>1. v \in 1..Max(S)
      BY <1>6, <1>7
    <2>2. PICK r \in OfKey(k) : rule[r].version = Max(S)
      BY <1>6, <2>1
    <2>3. r \in Existing /\ rule[r].key = k
      BY <2>2 DEF OfKey
    <2> QED
      BY <2>1, <2>2, <2>3 DEF VersionsIdentify
  <1> QED
    BY <1>6, <1>7, <1>8 DEF Versions

-----------------------------------------------------------------------------
(* Changes of the table of rules. *)

(* What an operation leaves alone of a row.                                *)
Kept(r) ==
    /\ rule'[r].key = rule[r].key
    /\ rule'[r].version = rule[r].version
    /\ rule'[r].status = "none" <=> rule[r].status = "none"

LEMMA ChangesKeepVersions ==
    ASSUME VersionsIdentify, \A r \in Rows : Kept(r)
    PROVE  VersionsIdentify'
  <1>1. Existing' = Existing
    BY DEF Existing, Kept
  <1>2. \A r \in Existing : rule'[r].key = rule[r].key /\ rule'[r].version = rule[r].version
    BY DEF Existing, Kept
  <1>3. \A r \in Existing : OfKey(rule[r].key)' = OfKey(rule[r].key)
    BY <1>1, <1>2 DEF OfKey
  <1>4. \A r \in Existing : \A v \in 1..rule[r].version :
          \E s \in OfKey(rule[r].key) : rule'[s].version = v
    BY <1>2 DEF VersionsIdentify, OfKey
  <1> QED
    BY <1>1, <1>2, <1>3, <1>4 DEF VersionsIdentify, OfKey

(* A row enters with a version that no other has, all below being taken.   *)
LEMMA InsertKeepsVersions ==
    ASSUME VersionsIdentify, NEW n \in Rows, NEW k \in Keys, NEW v \in Versions,
           rule[n].status = "none", rule'[n].status # "none",
           rule'[n].key = k, rule'[n].version = v,
           \A r \in Rows \ {n} : Kept(r),
           \A s \in OfKey(k) : rule[s].version # v,
           \A w \in 1..(v - 1) : \E s \in OfKey(k) : rule[s].version = w
    PROVE  VersionsIdentify'
  <1>1. Existing' = Existing \cup {n} /\ n \notin Existing
    BY DEF Existing, Kept
  <1>2. \A r \in Existing : rule'[r].key = rule[r].key /\ rule'[r].version = rule[r].version
    BY <1>1 DEF Existing, Kept
  <1>3. ASSUME NEW r \in Existing', NEW s \in Existing',
               rule'[r].key = rule'[s].key, rule'[r].version = rule'[s].version
        PROVE  r = s
    BY <1>1, <1>2, <1>3 DEF VersionsIdentify, OfKey
  <1>4. \A c : \A s \in OfKey(c) : s \in Existing' /\ rule'[s].key = c
                                   /\ rule'[s].version = rule[s].version
    BY <1>1, <1>2 DEF OfKey
  <1>5. ASSUME NEW r \in Existing', NEW w \in 1..rule'[r].version
        PROVE  \E s \in Existing' : rule'[s].key = rule'[r].key /\ rule'[s].version = w
    <2>1. CASE r = n
      <3>1. w = v \/ w \in 1..(v - 1)
        BY <2>1 DEF Versions
      <3> QED
        BY <1>1, <1>4, <2>1, <3>1
    <2>2. CASE r # n
      BY <1>1, <1>2, <1>4, <2>2 DEF VersionsIdentify
    <2> QED
      BY <2>1, <2>2
  <1> QED
    BY <1>3, <1>5 DEF VersionsIdentify, OfKey

LEMMA AddKeeps ==
    ASSUME TypeOK, WellFormed, VersionsIdentify,
           NEW r \in Rows, NEW k \in Keys, NEW v \in Versions,
           NEW status \in Statuses, NEW t \in Texts,
           \A w \in 1..(v - 1) : \E s \in OfKey(k) : rule[s].version = w,
           Add(r, k, v, status, t), UNCHANGED edit
    PROVE  rule' \in [Rows -> Row] /\ WellFormed' /\ VersionsIdentify'
  <1> DEFINE new == [status |-> status, key |-> k, version |-> v, text |-> t,
                     routed |-> FALSE]
  <1>1. rule' = [rule EXCEPT ![r] = new] /\ rule[r].status = "none"
        /\ \A s \in OfKey(k) : rule[s].version # v
    BY DEF Add
  <1>2. new \in Row /\ status # "none" /\ v # 0
    BY DEF Row, Versions, Statuses, Decided
  <1>3. rule' \in [Rows -> Row]
    BY <1>1, <1>2 DEF TypeOK
  <1>4. rule'[r] = new /\ \A s \in Rows \ {r} : rule'[s] = rule[s]
    BY <1>1 DEF TypeOK
  <1>5. Existing' = Existing \cup {r}
    BY <1>2, <1>4 DEF Existing
  <1>6. WellFormed'
    BY <1>2, <1>4, <1>5 DEF WellFormed, Existing
  <1>7. \A s \in Rows \ {r} : Kept(s)
    BY <1>4 DEF Kept
  <1>8. rule'[r].status # "none" /\ rule'[r].key = k /\ rule'[r].version = v
    BY <1>2, <1>4
  <1>9. VersionsIdentify'
    BY <1>1, <1>7, <1>8, InsertKeepsVersions
  <1> QED
    BY <1>3, <1>6, <1>9

LEMMA CreateKeeps ==
    ASSUME TypeOK, WellFormed, VersionsIdentify, NEW r \in Rows, NEW k \in Keys,
           NEW t \in Texts, NEW status \in Statuses,
           Create(r, k, t, status) \/ Propose(r, k, t) \/ Fork(r, k, t, status)
    PROVE  rule' \in [Rows -> Row] /\ edit' = edit /\ WellFormed' /\ VersionsIdentify'
  <1>1. /\ NextVersion(k) \in Versions
        /\ \A v \in 1..(NextVersion(k) - 1) : \E s \in OfKey(k) : rule[s].version = v
    BY NextVersionClosesUp
  <1>2. 1 \in Versions /\ 1..(1 - 1) = {} /\ "proposed" \in Statuses
    BY DEF Versions, Statuses
  <1>3. CASE Create(r, k, t, status)
    BY <1>1, <1>3, AddKeeps DEF Create
  <1>4. CASE Propose(r, k, t)
    BY <1>1, <1>2, <1>4, AddKeeps DEF Propose
  <1>5. CASE Fork(r, k, t, status)
    BY <1>2, <1>5, AddKeeps DEF Fork
  <1> QED
    BY <1>3, <1>4, <1>5

LEMMA BeginEditKeeps ==
    ASSUME TypeOK, WellFormed, VersionsIdentify, NEW e \in Editors, NEW r \in Rows,
           BeginEdit(e, r)
    PROVE  rule' = rule /\ edit' \in [Editors -> Edit] /\ WellFormed' /\ VersionsIdentify'
  <1> DEFINE new == [row |-> r, status |-> rule[r].status, text |-> rule[r].text,
                     routed |-> rule[r].routed]
  <1>1. rule' = rule /\ edit' = [edit EXCEPT ![e] = new] /\ r \in Existing
    BY DEF BeginEdit
  <1>2. new \in Edit
    BY <1>1 DEF TypeOK, Row, Edit, Existing, Statuses, Decided
  <1>3. edit' \in [Editors -> Edit]
    BY <1>1, <1>2 DEF TypeOK
  <1>4. WellFormed'
    BY <1>1 DEF WellFormed, TypeOK, Existing
  <1>5. VersionsIdentify'
    BY <1>1 DEF VersionsIdentify, Existing, OfKey
  <1> QED
    BY <1>1, <1>3, <1>4, <1>5

LEMMA EndEditTyped ==
    ASSUME TypeOK, NEW e \in Editors, edit' = [edit EXCEPT ![e] = NoEdit]
    PROVE  /\ edit' \in [Editors -> Edit]
           /\ \A d \in Editors : edit'[d] # NoEdit => edit'[d] = edit[d]
  BY NoneTyped DEF TypeOK

LEMMA EditInPlaceKeeps ==
    ASSUME TypeOK, WellFormed, VersionsIdentify, NEW e \in Editors,
           NEW t \in Texts \cup {NoText}, NEW status \in Statuses \cup {"as it is"},
           EditInPlace(e, t, status)
    PROVE  /\ rule' \in [Rows -> Row] /\ edit' \in [Editors -> Edit]
           /\ WellFormed' /\ VersionsIdentify'
  <1> DEFINE old == edit[e].row
             new == [rule[old] EXCEPT
                       !.text = IF t = NoText THEN @ ELSE t,
                       !.status = IF status = "as it is" THEN @ ELSE status]
  <1>1. old \in Existing /\ old \in Rows /\ rule[old] \in Row
    BY DEF EditInPlace, WellFormed, TypeOK, Existing
  <1>2. rule' = [rule EXCEPT ![old] = new]
    BY DEF EditInPlace
  <1>3. new \in Row /\ new.key = rule[old].key /\ new.version = rule[old].version
        /\ new.status # "none"
    BY <1>1 DEF Row, Existing, Statuses, Decided
  <1>4. rule' \in [Rows -> Row]
    BY <1>2, <1>3 DEF TypeOK
  <1>5. rule'[old] = new /\ \A r \in Rows \ {old} : rule'[r] = rule[r]
    BY <1>1, <1>2 DEF TypeOK
  <1>6. \A r \in Rows : Kept(r)
    BY <1>1, <1>3, <1>5 DEF Kept, Existing
  <1>7. VersionsIdentify'
    BY <1>6, ChangesKeepVersions
  <1>8. Existing' = Existing
    BY <1>6 DEF Kept, Existing
  <1>9. WellFormed'
    BY <1>6, <1>8, EndEditTyped DEF EditInPlace, WellFormed, Kept, Existing
  <1> QED
    BY <1>4, <1>7, <1>9, EndEditTyped DEF EditInPlace

LEMMA EditAsVersionKeeps ==
    ASSUME TypeOK, WellFormed, VersionsIdentify, NEW e \in Editors, NEW r \in Rows,
           NEW t \in Texts \cup {NoText}, NEW status \in Statuses,
           EditAsVersion(e, r, t, status)
    PROVE  /\ rule' \in [Rows -> Row] /\ edit' \in [Editors -> Edit]
           /\ WellFormed' /\ VersionsIdentify'
  <1> DEFINE old == edit[e].row
             k == rule[old].key
             v == rule[old].version + 1
             new == [status |-> status, key |-> k, version |-> v,
                     text |-> IF t = NoText THEN edit[e].text ELSE t,
                     routed |-> edit[e].routed]
  <1>1. old \in Existing /\ old \in Rows /\ rule[old] \in Row /\ edit[e] \in Edit
    BY DEF EditAsVersion, WellFormed, TypeOK, Existing
  <1>2. /\ rule' = [rule EXCEPT ![r] = new, ![old].status = "retired"]
        /\ rule[r].status = "none"
        /\ \A s \in OfKey(k) : rule[s].version # v
    BY DEF EditAsVersion
  <1>3. r # old
    BY <1>1, <1>2 DEF Existing
  <1>4. /\ rule'[r] = new /\ rule'[old] = [rule[old] EXCEPT !.status = "retired"]
        /\ \A s \in Rows \ {r, old} : rule'[s] = rule[s]
    BY <1>1, <1>2, <1>3 DEF TypeOK
  <1>5. /\ k \in Keys /\ v \in Versions /\ new \in Row /\ status # "none"
        /\ rule'[old] \in Row /\ rule'[old].key = k
        /\ rule'[old].version = rule[old].version /\ rule'[old].status = "retired"
    BY <1>1, <1>4 DEF Row, Edit, Versions, Statuses, Decided
  <1>6. rule' \in [Rows -> Row]
    <2>1. DOMAIN rule' = Rows /\ rule' = [s \in Rows |-> rule'[s]]
      BY <1>2 DEF TypeOK
    <2> QED
      BY <1>4, <1>5, <2>1 DEF TypeOK
  <1>7. \A s \in Rows \ {r} : Kept(s)
    BY <1>1, <1>4, <1>5 DEF Kept, Existing
  <1>8. \A w \in 1..(v - 1) : \E s \in OfKey(k) : rule[s].version = w
    <2>1. v - 1 = rule[old].version
      BY <1>1 DEF Row
    <2> QED
      BY <1>1, <2>1 DEF VersionsIdentify
  <1>9. VersionsIdentify'
    <2>1. rule'[r].status # "none" /\ rule'[r].key = k /\ rule'[r].version = v
      BY <1>4, <1>5
    <2>2. PICK key \in Keys, version \in Versions : key = k /\ version = v
      BY <1>5
    <2>3. /\ \A s \in OfKey(key) : rule[s].version # version
          /\ \A w \in 1..(version - 1) : \E s \in OfKey(key) : rule[s].version = w
          /\ rule'[r].key = key /\ rule'[r].version = version
          /\ rule[r].status = "none" /\ rule'[r].status # "none"
      BY <1>2, <1>8, <2>1, <2>2
    <2> HIDE DEF k, v, new, old
    <2> QED
      BY <1>7, <2>3, InsertKeepsVersions
  <1>10. Existing' = Existing \cup {r}
    BY <1>4, <1>5, <1>7 DEF Kept, Existing
  <1>11. \A s \in Existing' : rule'[s].version # 0
    BY <1>4, <1>5, <1>7, <1>10 DEF Kept, WellFormed, Versions, Existing
  <1>12. WellFormed'
    BY <1>10, <1>11, EndEditTyped DEF EditAsVersion, WellFormed
  <1> QED
    BY <1>6, <1>9, <1>12, EndEditTyped DEF EditAsVersion

LEMMA RefuseEditKeeps ==
    ASSUME TypeOK, WellFormed, VersionsIdentify, NEW e \in Editors, RefuseEdit(e)
    PROVE  rule' = rule /\ edit' \in [Editors -> Edit] /\ WellFormed' /\ VersionsIdentify'
  <1>1. rule' = rule /\ edit' = [edit EXCEPT ![e] = NoEdit]
    BY DEF RefuseEdit
  <1>2. WellFormed'
    BY <1>1, EndEditTyped DEF WellFormed, Existing
  <1>3. VersionsIdentify'
    BY <1>1 DEF VersionsIdentify, Existing, OfKey
  <1> QED
    BY <1>1, <1>2, <1>3, EndEditTyped

(* Decisions and calibration touch only the status and the fit.            *)
LEMMA OthersKeep ==
    ASSUME TypeOK, WellFormed, VersionsIdentify,
           \/ \E chosen \in (SUBSET Existing) \ {{}}, status \in Decided :
                BulkDecision(chosen, status)
           \/ \E k \in Keys, routed \in Fits : Calibrate(k, routed)
    PROVE  /\ rule' \in [Rows -> Row] /\ edit' = edit
           /\ WellFormed' /\ VersionsIdentify'
  <1> DEFINE Modest == /\ rule' \in [Rows -> Row]
                       /\ edit' = edit
                       /\ \A r \in Rows : Kept(r)
  <1>1. Modest
    <2>1. ASSUME NEW chosen \in (SUBSET Existing) \ {{}}, NEW status \in Decided,
                 BulkDecision(chosen, status)
          PROVE  Modest
      BY <2>1 DEF BulkDecision, TypeOK, Row, Kept, Existing, Statuses, Decided
    <2>2. ASSUME NEW k \in Keys, NEW routed \in Fits, Calibrate(k, routed)
          PROVE  Modest
      <3>1. routed \in BOOLEAN
        BY NoneAssumption
      <3> QED
        BY <2>2, <3>1 DEF Calibrate, TypeOK, Row, Kept
    <2> QED
      BY <2>1, <2>2
  <1>2. Existing' = Existing
    BY <1>1 DEF Kept, Existing
  <1>3. WellFormed'
    BY <1>1, <1>2 DEF WellFormed, Kept, Existing
  <1> QED
    BY <1>1, <1>3, ChangesKeepVersions

LEMMA RulesNextKeeps ==
    ASSUME TypeOK, WellFormed, VersionsIdentify, RulesNext
    PROVE  /\ rule' \in [Rows -> Row] /\ edit' \in [Editors -> Edit]
           /\ WellFormed' /\ VersionsIdentify'
  <1> DEFINE Goal == /\ rule' \in [Rows -> Row] /\ edit' \in [Editors -> Edit]
                     /\ WellFormed' /\ VersionsIdentify'
  <1> SUFFICES Goal
    OBVIOUS
  <1>1. {"proposed", "active"} \subseteq Statuses /\ "proposed" \in Statuses
    BY DEF Statuses, Decided
  <1>2. rule \in [Rows -> Row] /\ edit \in [Editors -> Edit]
    BY DEF TypeOK
  <1>3. ASSUME NEW r \in Rows, NEW k \in Keys, NEW t \in Texts, Propose(r, k, t)
        PROVE  Goal
    BY <1>1, <1>2, <1>3, CreateKeeps
  <1>4. ASSUME NEW r \in Rows, NEW k \in Keys, NEW t \in Texts,
               NEW status \in {"proposed", "active"},
               Create(r, k, t, status) \/ Fork(r, k, t, status)
        PROVE  Goal
    BY <1>1, <1>2, <1>4, CreateKeeps
  <1>5. ASSUME NEW e \in Editors, NEW r \in Rows, BeginEdit(e, r)
        PROVE  Goal
    BY <1>2, <1>5, BeginEditKeeps
  <1>6. ASSUME NEW e \in Editors, NEW t \in Texts \cup {NoText},
               NEW status \in Statuses \cup {"as it is"}, EditInPlace(e, t, status)
        PROVE  Goal
    BY <1>6, EditInPlaceKeeps
  <1>7. ASSUME NEW e \in Editors, NEW r \in Rows, NEW t \in Texts \cup {NoText},
               NEW status \in {"proposed", "active"}, EditAsVersion(e, r, t, status)
        PROVE  Goal
    BY <1>1, <1>7, EditAsVersionKeeps
  <1>8. ASSUME NEW e \in Editors, RefuseEdit(e)
        PROVE  Goal
    BY <1>2, <1>8, RefuseEditKeeps
  <1>9. CASE \/ \E chosen \in (SUBSET Existing) \ {{}}, status \in Decided :
                  BulkDecision(chosen, status)
             \/ \E k \in Keys, routed \in Fits : Calibrate(k, routed)
    BY <1>2, <1>9, OthersKeep
  <1> HIDE DEF Goal
  <1>10. CASE \E r \in Rows, k \in Keys, t \in Texts :
                \/ Propose(r, k, t)
                \/ \E status \in {"proposed", "active"} :
                     Create(r, k, t, status) \/ Fork(r, k, t, status)
    BY <1>3, <1>4, <1>10
  <1>11. CASE \E e \in Editors :
                \/ \E r \in Rows : BeginEdit(e, r)
                \/ \E t \in Texts \cup {NoText}, status \in Statuses \cup {"as it is"} :
                     EditInPlace(e, t, status)
                \/ \E r \in Rows, t \in Texts \cup {NoText},
                      status \in {"proposed", "active"} : EditAsVersion(e, r, t, status)
                \/ RefuseEdit(e)
    BY <1>5, <1>6, <1>7, <1>8, <1>11
  <1> QED
    BY <1>9, <1>10, <1>11 DEF RulesNext

-----------------------------------------------------------------------------
(* Publication. *)

LEMMA CompiledTyped ==
    ASSUME TypeOK, WellFormed, NEW r \in InForce
    PROVE  /\ Compiled(r) \in CompiledRule
           /\ Hashed(Compiled(r)) \in [key : Keys, version : Versions, text : Texts]
  <1>1. r \in Rows /\ rule[r] \in Row /\ rule[r].version # 0
    BY DEF InForce, TypeOK, WellFormed, Existing
  <1>2. rule[r].version \in Versions
    BY <1>1 DEF Row, Versions
  <1> QED
    BY <1>1, <1>2 DEF Compiled, Hashed, CompiledRule, Row

LEMMA SnapshotTyped ==
    ASSUME TypeOK, WellFormed, OnRecord
    PROVE  Snapshot \in SUBSET CompiledRule /\ Hash(Snapshot) \subseteq enforced
  BY CompiledTyped DEF Snapshot, Hash, OnRecord

(* Publications leave the rules alone.                                     *)
LEMMA RulesUntouched ==
    ASSUME WellFormed, VersionsIdentify, UNCHANGED <<ruleVars, enforced>>
    PROVE  /\ WellFormed' /\ VersionsIdentify' /\ InForce' = InForce
           /\ \A r \in InForce : Hashed(Compiled(r))' = Hashed(Compiled(r))
  BY DEF ruleVars, WellFormed, VersionsIdentify, InForce, Existing, OfKey,
         Hashed, Compiled

LEMMA PublicationKeeps ==
    ASSUME TypeOK, OnRecord, NEW p \in Publishers, NEW new \in Publication,
           Hash(new.snapshot) \subseteq enforced,
           publication' = [publication EXCEPT ![p] = new], enforced' = enforced
    PROVE  /\ publication' \in [Publishers -> Publication]
           /\ \A q \in Publishers : Hash(publication'[q].snapshot) \subseteq enforced'
  BY DEF TypeOK, OnRecord

LEMMA EmptyHash == Hash({}) = {}
  BY DEF Hash

LEMMA StepKeeps == IInv /\ [Next]_vars => IInv'
  <1> SUFFICES ASSUME IInv, [Next]_vars PROVE IInv'
    OBVIOUS
  <1> USE DEF IInv
  <1>1. CASE ChangeRules
    <2>1. /\ rule' \in [Rows -> Row] /\ edit' \in [Editors -> Edit]
          /\ WellFormed' /\ VersionsIdentify'
      BY <1>1, RulesNextKeeps DEF ChangeRules
    <2>2. /\ rulesets' = rulesets /\ active' = active /\ publication' = publication
          /\ enforced' = enforced \cup {Hashed(Compiled(r))' : r \in InForce'}
      BY <1>1 DEF ChangeRules
    <2>3. OneRulesetPerHash'
      BY <2>2 DEF OneRulesetPerHash, Hash, Hashed
    <2>4. OnRecord'
      BY <2>2 DEF OnRecord, Hash, Hashed
    <2>5. \A r \in InForce' : Hashed(Compiled(r))' \in [key : Keys, version : Versions, text : Texts]
      <3> TAKE r \in InForce'
      <3>1. r \in Rows /\ rule'[r] \in Row /\ rule'[r].version # 0
        BY <2>1 DEF InForce, WellFormed, Existing
      <3>2. rule'[r].version \in Versions
        BY <3>1 DEF Row, Versions
      <3> QED
        BY <3>1, <3>2 DEF Compiled, Hashed, Row
    <2>6. TypeOK'
      BY <2>1, <2>2, <2>5 DEF TypeOK
    <2> QED
      BY <2>1, <2>3, <2>4, <2>6
  <1>2. ASSUME NEW p \in Publishers, Compile(p)
        PROVE  IInv'
    <2> DEFINE new == [pc |-> "lookup", snapshot |-> Snapshot]
    <2>1. publication' = [publication EXCEPT ![p] = new]
          /\ UNCHANGED <<ruleVars, rulesets, active, enforced>>
      BY <1>2 DEF Compile
    <2>2. new \in Publication /\ Hash(new.snapshot) \subseteq enforced
      BY SnapshotTyped DEF Publication
    <2>3. /\ publication' \in [Publishers -> Publication]
          /\ \A q \in Publishers : Hash(publication'[q].snapshot) \subseteq enforced'
      BY <2>1, <2>2, PublicationKeeps
    <2>4. TypeOK' /\ OneRulesetPerHash'
      BY <2>1, <2>3 DEF TypeOK, OneRulesetPerHash, Hash, Hashed, ruleVars
    <2>5. WellFormed' /\ VersionsIdentify' /\ OnRecord'
      BY <2>1, <2>3, RulesUntouched DEF OnRecord, Hash, Hashed
    <2> QED
      BY <2>4, <2>5
  <1>3. ASSUME NEW p \in Publishers, Reuse(p)
        PROVE  IInv'
    <2>1. publication' = [publication EXCEPT ![p] = NoPublication]
          /\ UNCHANGED <<ruleVars, rulesets, enforced>> /\ active' \subseteq rulesets
      BY <1>3 DEF Reuse, SameHash
    <2>2. NoPublication \in Publication /\ Hash(NoPublication.snapshot) \subseteq enforced
      BY NoneTyped, EmptyHash DEF NoPublication
    <2>3. /\ publication' \in [Publishers -> Publication]
          /\ \A q \in Publishers : Hash(publication'[q].snapshot) \subseteq enforced'
      BY <2>1, <2>2, PublicationKeeps
    <2>4. TypeOK' /\ OneRulesetPerHash'
      BY <2>1, <2>3 DEF TypeOK, OneRulesetPerHash, Hash, Hashed, ruleVars
    <2>5. WellFormed' /\ VersionsIdentify' /\ OnRecord'
      BY <2>1, <2>3, RulesUntouched DEF OnRecord, Hash, Hashed
    <2> QED
      BY <2>4, <2>5
  <1>4. ASSUME NEW p \in Publishers, FindNone(p)
        PROVE  IInv'
    <2> DEFINE new == [publication[p] EXCEPT !.pc = "insert"]
    <2>1. publication' = [publication EXCEPT ![p] = new]
          /\ UNCHANGED <<ruleVars, rulesets, active, enforced>>
      BY <1>4 DEF FindNone
    <2>2. new \in Publication /\ Hash(new.snapshot) \subseteq enforced
      BY DEF TypeOK, OnRecord, Publication
    <2> HIDE DEF new
    <2>3. /\ publication' \in [Publishers -> Publication]
          /\ \A q \in Publishers : Hash(publication'[q].snapshot) \subseteq enforced'
      BY <2>1, <2>2, PublicationKeeps
    <2>4. TypeOK' /\ OneRulesetPerHash'
      BY <2>1, <2>3 DEF TypeOK, OneRulesetPerHash, Hash, Hashed, ruleVars
    <2>5. WellFormed' /\ VersionsIdentify' /\ OnRecord'
      BY <2>1, <2>3, RulesUntouched DEF OnRecord, Hash, Hashed
    <2> QED
      BY <2>4, <2>5
  <1>5. ASSUME NEW p \in Publishers, Insert(p)
        PROVE  IInv'
    <2>1. publication' = [publication EXCEPT ![p] = NoPublication]
          /\ UNCHANGED <<ruleVars, enforced>>
      BY <1>5 DEF Insert
    <2>2. NoPublication \in Publication /\ Hash(NoPublication.snapshot) \subseteq enforced
      BY NoneTyped, EmptyHash DEF NoPublication
    <2>3. /\ publication' \in [Publishers -> Publication]
          /\ \A q \in Publishers : Hash(publication'[q].snapshot) \subseteq enforced'
      BY <2>1, <2>2, PublicationKeeps
    <2>4. publication[p].snapshot \in SUBSET CompiledRule
      BY DEF TypeOK, Publication
    <2>5. /\ rulesets' \subseteq SUBSET CompiledRule
          /\ active' \subseteq rulesets'
          /\ \A s, t \in rulesets' : Hash(s) = Hash(t) => s = t
      BY <1>5, <2>4 DEF Insert, SameHash, TypeOK, OneRulesetPerHash
    <2>6. TypeOK' /\ OneRulesetPerHash'
      BY <2>1, <2>3, <2>5 DEF TypeOK, OneRulesetPerHash, Hash, Hashed, ruleVars
    <2>7. WellFormed' /\ VersionsIdentify' /\ OnRecord'
      BY <2>1, <2>3, RulesUntouched DEF OnRecord, Hash, Hashed
    <2> QED
      BY <2>6, <2>7
  <1>6. CASE UNCHANGED vars
    <2>1. UNCHANGED <<ruleVars, rulesets, active, publication, enforced>>
      BY <1>6 DEF vars
    <2>2. TypeOK' /\ OneRulesetPerHash'
      BY <2>1 DEF TypeOK, OneRulesetPerHash, Hash, Hashed, ruleVars
    <2>3. WellFormed' /\ VersionsIdentify' /\ OnRecord'
      BY <2>1, RulesUntouched DEF OnRecord, Hash, Hashed
    <2> QED
      BY <2>2, <2>3
  <1> HIDE DEF IInv
  <1> QED
    BY <1>1, <1>2, <1>3, <1>4, <1>5, <1>6 DEF Next

LEMMA InitKeeps == Init => IInv
  <1> SUFFICES ASSUME Init PROVE IInv
    OBVIOUS
  <1>1. /\ rule = [r \in Rows |-> NoRule] /\ edit = [e \in Editors |-> NoEdit]
        /\ rulesets = {} /\ active = {} /\ enforced = {}
        /\ publication = [p \in Publishers |-> NoPublication]
    BY DEF Init, RulesInit
  <1>2. TypeOK
    BY <1>1, NoneTyped DEF TypeOK
  <1>3. Existing = {} /\ InForce = {}
    BY <1>1 DEF Existing, InForce, NoRule
  <1>4. WellFormed /\ VersionsIdentify /\ OneRulesetPerHash
    BY <1>1, <1>3 DEF WellFormed, VersionsIdentify, OneRulesetPerHash
  <1>5. OnRecord
    BY <1>1, <1>3, EmptyHash DEF OnRecord, NoPublication
  <1> QED
    BY <1>2, <1>4, <1>5 DEF IInv

LEMMA Invariance == Spec => []IInv
  BY InitKeeps, StepKeeps, PTL DEF Spec

(* Every variable keeps its type, whoever edits, decides and publishes     *)
(* (rules.service.ts, ruleset-compiler.service.ts).                        *)
THEOREM TypeCorrect == Spec => []TypeOK
  <1>1. IInv => TypeOK
    BY DEF IInv
  <1> QED
    BY <1>1, Invariance, PTL

(* A key and a version name one rule, and versions have no gaps, for any   *)
(* number of concurrent edits, forks and proposals.                        *)
THEOREM VersionsAreIdentities == Spec => []VersionsIdentify
  <1>1. IInv => VersionsIdentify
    BY DEF IInv
  <1> QED
    BY <1>1, Invariance, PTL

(* Concurrent publications never store one hash twice (publish).           *)
THEOREM HashesAreIdentities == Spec => []OneRulesetPerHash
  <1>1. IInv => OneRulesetPerHash
    BY DEF IInv
  <1> QED
    BY <1>1, Invariance, PTL

-----------------------------------------------------------------------------
(* Refinement. *)

LEMMA InitImplements == Init => History!Init
  BY DEF Init, History!Init

(* Where a publication ends, the snapshot it compiled, or one with the     *)
(* same hash, is the brand's; all other steps enforce or stutter.          *)
LEMMA StepImplements == IInv /\ IInv' /\ [Next]_vars => [History!Next]_(History!history)
  <1> SUFFICES ASSUME IInv, IInv', [Next]_vars PROVE [History!Next]_(History!history)
    OBVIOUS
  <1> DEFINE Published == {Hash(s) : s \in rulesets}
             Current == {Hash(s) : s \in active}
  <1>1. \A s : Hash(s)' = Hash(s)
    BY DEF Hash, Hashed
  <1>2. ASSUME UNCHANGED <<rulesets, active>>, enforced \subseteq enforced'
        PROVE  [History!Next]_(History!history)
    BY <1>1, <1>2 DEF History!Next, History!Enforce
  <1>3. ASSUME NEW p \in Publishers, NEW s, active' = {s},
               Hash(s) = Hash(publication[p].snapshot),
               Published' = Published \cup {Hash(s)}, enforced' = enforced
        PROVE  [History!Next]_(History!history)
    <2>1. Hash(s) \in SUBSET enforced
      BY <1>3 DEF IInv, OnRecord
    <2>2. Current' = {Hash(s)}
      BY <1>1, <1>3
    <2> QED
      BY <1>3, <2>1, <2>2 DEF History!Next, History!Publish
  <1>4. CASE ChangeRules
    BY <1>2, <1>4 DEF ChangeRules
  <1>5. ASSUME NEW p \in Publishers, Compile(p) \/ FindNone(p)
        PROVE  [History!Next]_(History!history)
    BY <1>2, <1>5 DEF Compile, FindNone
  <1>6. ASSUME NEW p \in Publishers, Reuse(p)
        PROVE  [History!Next]_(History!history)
    <2>1. PICK s \in rulesets : active' = {s} /\ Hash(s) = Hash(publication[p].snapshot)
      BY <1>6 DEF Reuse, SameHash
    <2>2. rulesets' = rulesets /\ enforced' = enforced
      BY <1>6 DEF Reuse
    <2>3. Published' = Published \cup {Hash(s)}
      BY <1>1, <2>1, <2>2
    <2> QED
      BY <1>3, <2>1, <2>2, <2>3
  <1>7. ASSUME NEW p \in Publishers, Insert(p)
        PROVE  [History!Next]_(History!history)
    <2> DEFINE s == publication[p].snapshot
    <2>1. enforced' = enforced
      BY <1>7 DEF Insert
    <2>2. CASE UNCHANGED <<rulesets, active>>
      BY <1>2, <2>1, <2>2
    <2>3. CASE rulesets' = rulesets \cup {s} /\ active' = {s}
      <3>1. Published' = Published \cup {Hash(s)}
        BY <1>1, <2>3
      <3> QED
        BY <1>3, <2>1, <2>3, <3>1
    <2> QED
      BY <1>7, <2>2, <2>3 DEF Insert
  <1>8. CASE UNCHANGED vars
    BY <1>2, <1>8 DEF vars
  <1> QED
    BY <1>4, <1>5, <1>6, <1>7, <1>8 DEF Next

(* Publication implements RulesetHistory: what a brand is judged by was in *)
(* force word for word, and nothing published is withdrawn.                *)
THEOREM KeepsItsPromise == Spec => KeepsPromise
  <1>1. Spec => []IInv /\ [][Next]_vars /\ Init
    BY Invariance, PTL DEF Spec
  <1> QED
    BY <1>1, InitImplements, StepImplements, PTL DEF KeepsPromise, History!Spec
=============================================================================
