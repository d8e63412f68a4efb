---------------------------- MODULE OutboxProofs ----------------------------
(***************************************************************************)
(* Proofs about Outbox for any number of events, endpoints and relay       *)
(* executions, any limits and any subscriptions.                           *)
(***************************************************************************)
EXTENDS Outbox, FiniteSetTheorems, TLAPS

(* Where an execution is in the handler tells what it holds.               *)
Busy == {"post", "log", "settle"}

Placed ==
    \A r \in Relays :
        /\ relay[r].pc \in Busy => relay[r].event \in Events /\ Holds(r, relay[r].event)
        /\ relay[r].pc \notin Busy => relay[r].event = NoEvent
        /\ relay[r].pc = "log" => relay[r].asked \in relay[r].todo
        /\ relay[r].pc # "log" => relay[r].asked = NoEndpoint
        /\ relay[r].pc = "settle" => relay[r].todo = {}

LEMMA IdleIsRelay == Idle \in Relay
BY DEF Idle, Relay, Steps

LEMMA InitWellFormed == Init => TypeOK /\ Placed
<1> SUFFICES ASSUME Init PROVE TypeOK /\ Placed
  OBVIOUS
<1>1. TypeOK
  BY LimitsAssumption, IdleIsRelay DEF Init, TypeOK, Row, Statuses
<1>2. Placed
  BY DEF Init, Placed, Busy, Idle
<1> QED
  BY <1>1, <1>2

LEMMA StepWellFormed == TypeOK /\ Placed /\ [Next]_vars => TypeOK' /\ Placed'
<1> SUFFICES ASSUME TypeOK, Placed, [Next]_vars PROVE TypeOK' /\ Placed'
  OBVIOUS
<1> USE DEF TypeOK
<1>1. ASSUME NEW e \in Events, Emit(e) PROVE TypeOK' /\ Placed'
  <2>1. Cardinality(Recorded) \in Nat
    BY EventsAssumption, FS_Subset, FS_CardinalityType DEF Recorded
  <2> QED
    BY <1>1, <2>1 DEF Emit, Row, Statuses, Placed, Holds
<1>2. ASSUME NEW e \in Events, BackoffElapses(e) PROVE TypeOK' /\ Placed'
  BY <1>2 DEF BackoffElapses, Row, Statuses, Placed, Holds
<1>3. ASSUME NEW r \in Relays, LockRows(r) PROVE TypeOK' /\ Placed'
  <2>1. PICK batch \in SUBSET Claimable :
          relay' = [relay EXCEPT ![r] =
                      [Idle EXCEPT !.pc = "claiming",
                                   !.claim = [e \in Events |-> IF e \in batch
                                                               THEN row[e].attempts + 1
                                                               ELSE 0]]]
    BY <1>3 DEF LockRows
  <2> DEFINE claim == [e \in Events |-> IF e \in batch THEN row[e].attempts + 1 ELSE 0]
             new == [Idle EXCEPT !.pc = "claiming", !.claim = claim]
  <2>2. claim \in [Events -> Nat]
    BY DEF Row
  <2>3. new \in Relay
    BY <2>2, IdleIsRelay DEF Relay, Steps
  <2>4. relay' = [relay EXCEPT ![r] = new]
    BY <2>1
  <2>5. new.pc = "claiming" /\ new.event = NoEvent /\ new.asked = NoEndpoint
    BY DEF Idle
  <2> HIDE DEF new
  <2>6. TypeOK'
    BY <1>3, <2>3, <2>4 DEF LockRows
  <2>7. Placed'
    BY <2>4, <2>5 DEF Placed, Busy, Holds
  <2> QED
    BY <2>6, <2>7
<1>4. ASSUME NEW r \in Relays, CommitClaim(r) PROVE TypeOK' /\ Placed'
  <2>1. relay' \in [Relays -> Relay]
    BY <1>4 DEF CommitClaim, Relay, Steps
  <2>2. row' \in [Events -> Row]
    BY <1>4 DEF CommitClaim, Row
  <2>3. Placed'
    BY <1>4 DEF CommitClaim, Placed, Busy, Holds
  <2> QED
    BY <1>4, <2>1, <2>2, <2>3 DEF CommitClaim
<1>5. ASSUME NEW r \in Relays, FetchEndpoints(r) PROVE TypeOK' /\ Placed'
  <2>1. PICK e \in Events :
          /\ Holds(r, e)
          /\ relay' = [relay EXCEPT ![r] =
                         [relay[r] EXCEPT !.pc = IF Matching(e) = {} THEN "settle" ELSE "post",
                                          !.event = e, !.todo = Matching(e), !.allOk = TRUE]]
    BY <1>5 DEF FetchEndpoints
  <2> DEFINE m == Matching(e)
             c == IF m = {} THEN "settle" ELSE "post"
             new == [relay[r] EXCEPT !.pc = c, !.event = e, !.todo = m, !.allOk = TRUE]
  <2>2. m \in SUBSET Endpoints /\ c \in {"post", "settle"} /\ (c = "settle" => m = {})
    BY DEF Matching
  <2>3. relay' = [relay EXCEPT ![r] = new]
    BY <2>1
  <2> HIDE DEF m, c
  <2>4. new \in Relay
    BY <2>2 DEF Relay, Steps
  <2>5. /\ new.pc = c /\ new.event = e /\ new.todo = m /\ new.claim = relay[r].claim
        /\ new.asked = relay[r].asked
    BY DEF Relay
  <2> HIDE DEF new
  <2>6. TypeOK'
    BY <1>5, <2>3, <2>4 DEF FetchEndpoints
  <2>7. Placed'
    BY <1>5, <2>1, <2>2, <2>3, <2>5 DEF FetchEndpoints, Placed, Busy, Holds
  <2> QED
    BY <2>6, <2>7
<1>6. ASSUME NEW r \in Relays, Post(r) PROVE TypeOK' /\ Placed'
  <2>1. PICK p \in relay[r].todo, ok \in BOOLEAN :
          /\ relay' = [relay EXCEPT ![r] =
                         [relay[r] EXCEPT !.pc = "log", !.asked = p, !.ok = ok,
                                          !.allOk = relay[r].allOk /\ ok]]
          /\ posted' = posted \cup {<<relay[r].event, p, Attempt(r)>>}
    BY <1>6 DEF Post
  <2> DEFINE new == [relay[r] EXCEPT !.pc = "log", !.asked = p, !.ok = ok, !.allOk = relay[r].allOk /\ ok]
  <2>2. relay[r] \in Relay /\ p \in Endpoints
    BY DEF Relay
  <2>3. new \in Relay
    BY <2>2 DEF Relay, Steps
  <2>4. /\ new.pc = "log" /\ new.event = relay[r].event /\ new.todo = relay[r].todo
        /\ new.claim = relay[r].claim /\ new.asked = p
    BY <2>2 DEF Relay
  <2>5. relay' = [relay EXCEPT ![r] = new]
    BY <2>1
  <2> HIDE DEF new
  <2>6. relay[r].event \in Events /\ Attempt(r) \in Nat
    BY <1>6, <2>2 DEF Post, Placed, Busy, Attempt, Relay
  <2>7. TypeOK'
    BY <1>6, <2>1, <2>2, <2>3, <2>5, <2>6 DEF Post
  <2>8. Placed'
    BY <1>6, <2>1, <2>4, <2>5 DEF Post, Placed, Busy, Holds
  <2> QED
    BY <2>7, <2>8
<1>7. ASSUME NEW r \in Relays, relay' = [relay EXCEPT ![r] = Idle],
             UNCHANGED <<row, live, deliveries, posted>>,
             lost' \in [Events -> Nat], crashes' \in 0 .. MaxCrashes
      PROVE TypeOK' /\ Placed'
  <2>1. TypeOK'
    BY <1>7, IdleIsRelay
  <2>2. Idle.pc = "idle" /\ Idle.event = NoEvent /\ Idle.asked = NoEndpoint
    BY DEF Idle
  <2>3. Placed'
    BY <1>7, <2>2 DEF Placed, Busy, Holds
  <2> QED
    BY <2>1, <2>3
<1>8. ASSUME NEW r \in Relays, LogDelivery(r) PROVE TypeOK' /\ Placed'
  <2>1. CASE Log(r)
    <3> DEFINE c == IF relay[r].todo = {relay[r].asked} THEN "settle" ELSE "post"
               m == relay[r].todo \ {relay[r].asked}
               new == [relay[r] EXCEPT !.pc = c, !.todo = m, !.asked = NoEndpoint, !.ok = TRUE]
               d == [event |-> relay[r].event, endpoint |-> relay[r].asked,
                     attempt |-> Attempt(r), ok |-> relay[r].ok]
    <3>1. relay[r] \in Relay /\ relay[r].pc = "log"
      BY <1>8 DEF LogDelivery
    <3>2. /\ relay[r].event \in Events /\ Holds(r, relay[r].event)
          /\ relay[r].asked \in relay[r].todo
      BY <3>1 DEF Placed, Busy
    <3>3. relay' = [relay EXCEPT ![r] = new] /\ deliveries' = deliveries \cup {d}
      BY <2>1 DEF Log
    <3>4. d \in Delivery
      BY <3>1, <3>2 DEF Delivery, Relay, Attempt
    <3>5. m \in SUBSET Endpoints /\ c \in {"post", "settle"} /\ (c = "settle" => m = {})
      BY <3>1 DEF Relay
    <3> HIDE DEF c, m, d
    <3>6. new \in Relay
      BY <3>1, <3>5 DEF Relay, Steps
    <3>7. /\ new.pc = c /\ new.event = relay[r].event /\ new.claim = relay[r].claim
          /\ new.todo = m /\ new.asked = NoEndpoint
      BY <3>1 DEF Relay
    <3> HIDE DEF new
    <3>8. TypeOK'
      BY <1>8, <2>1, <3>3, <3>4, <3>6 DEF LogDelivery, Log
    <3>9. Placed'
      BY <3>2, <3>3, <3>5, <3>7 DEF Placed, Busy, Holds
    <3> QED
      BY <3>8, <3>9
  <2>2. CASE GiveUp(r) /\ UNCHANGED deliveries
    <3>1. lost' \in [Events -> Nat]
      BY <2>2 DEF GiveUp
    <3> QED
      BY <1>7, <1>8, <2>2, <3>1 DEF LogDelivery, GiveUp
  <2> QED
    BY <1>8, <2>1, <2>2 DEF LogDelivery
<1>9. ASSUME NEW r \in Relays, Crash(r) PROVE TypeOK' /\ Placed'
  <2>1. lost' \in [Events -> Nat]
    BY <1>9 DEF Crash, GiveUp
  <2>2. crashes' \in 0 .. MaxCrashes
    BY <1>9, LimitsAssumption DEF Crash
  <2> QED
    BY <1>7, <1>9, <2>1, <2>2 DEF Crash, GiveUp
<1>10. ASSUME NEW r \in Relays, Settle(r) PROVE TypeOK' /\ Placed'
  <2> DEFINE e == relay[r].event
             rest == [relay[r].claim EXCEPT ![e] = 0]
             next == [Idle EXCEPT !.pc = "fetch", !.claim = rest]
             new == IF rest = Idle.claim THEN Idle ELSE next
  <2>1. relay[r] \in Relay /\ e \in Events
    BY <1>10 DEF Settle, Placed, Busy
  <2>2. /\ relay' = [relay EXCEPT ![r] = new]
        /\ row' = [row EXCEPT ![e].status = Verdict(r),
                              ![e].due = @ /\ Verdict(r) # "pending"]
        /\ UNCHANGED <<live, deliveries, posted, lost, crashes>>
    BY <1>10 DEF Settle
  <2>3. row' \in [Events -> Row]
    <3> DEFINE v == Verdict(r)
    <3>1. v \in Statuses /\ row[e] \in Row
      BY <2>1 DEF Verdict, Statuses
    <3>2. row' = [row EXCEPT ![e].status = v, ![e].due = @ /\ v # "pending"]
      BY <2>2
    <3> HIDE DEF v, e
    <3> QED
      BY <2>1, <3>1, <3>2 DEF Row
  <2>4. rest \in [Events -> Nat]
    BY <2>1 DEF Relay
  <2> HIDE DEF rest
  <2>5. next \in Relay
    BY <2>4, IdleIsRelay DEF Relay, Steps
  <2>6. new \in Relay
    BY <2>5, IdleIsRelay
  <2>7. new.pc \in {"idle", "fetch"} /\ new.event = NoEvent /\ new.asked = NoEndpoint
    BY DEF Idle
  <2> HIDE DEF new
  <2>8. TypeOK'
    BY <2>2, <2>3, <2>6
  <2>9. Placed'
    BY <2>2, <2>7 DEF Placed, Busy, Holds
  <2> QED
    BY <2>8, <2>9
<1>11. ASSUME NEW p \in Endpoints, RemoveEndpoint(p) PROVE TypeOK' /\ Placed'
  BY <1>11 DEF RemoveEndpoint, Placed, Holds
<1>12. CASE UNCHANGED vars
  BY <1>12 DEF vars, Placed, Holds
<1> QED
  BY <1>1, <1>2, <1>3, <1>4, <1>5, <1>6, <1>8, <1>9, <1>10, <1>11, <1>12 DEF Next, RelayStep

(* Every reachable state has its types and every execution its place.      *)
LEMMA WellFormed == Spec => [](TypeOK /\ Placed)
BY InitWellFormed, StepWellFormed, PTL DEF Spec

(***************************************************************************)
(* Type correctness: no transaction of a producer, of the relay or of the  *)
(* endpoint service writes a value outside the tables' types.              *)
(***************************************************************************)
THEOREM TypeCorrect == Spec => []TypeOK
BY WellFormed, PTL

-----------------------------------------------------------------------------
(***************************************************************************)
(* Why no POST is repeated.  A claim numbers its attempt above every       *)
(* attempt that was counted before; so the claims of one event in the      *)
(* hands of different executions carry different numbers, and what an      *)
(* execution has still to post was posted by nobody under its number.      *)
(***************************************************************************)
AbsentIsUntried ==
    \A e \in Events : row[e].status = "absent" =>
        row[e].attempts = 0 /\ \A r \in Relays : ~ Holds(r, e)

LockedOnce ==
    \A r, s \in Relays, e \in Events :
        /\ relay[r].pc = "claiming" /\ Holds(r, e)
        /\ relay[s].pc = "claiming" /\ Holds(s, e)
        => r = s

ClaimsAreCounted ==
    \A r \in Relays, e \in Events : Holds(r, e) =>
        IF relay[r].pc = "claiming" THEN relay[r].claim[e] = row[e].attempts + 1
        ELSE relay[r].claim[e] <= row[e].attempts

ClaimsDiffer ==
    \A r, s \in Relays, e \in Events :
        r # s /\ Holds(r, e) /\ Holds(s, e) => relay[r].claim[e] # relay[s].claim[e]

PostsAreCounted ==
    \A e \in Events, p \in Endpoints, n \in Nat :
        <<e, p, n>> \in posted => n <= row[e].attempts

ToPost(r, e) == IF relay[r].event = e THEN relay[r].todo \ {relay[r].asked} ELSE Endpoints

NotYetPosted ==
    \A r \in Relays, e \in Events : Holds(r, e) =>
        \A p \in ToPost(r, e) : <<e, p, relay[r].claim[e]>> \notin posted

Accounting ==
    /\ AbsentIsUntried /\ LockedOnce /\ ClaimsAreCounted
    /\ ClaimsDiffer /\ PostsAreCounted /\ NotYetPosted

LEMMA InitAccounting == Init => Accounting
BY DEF Init, Accounting, AbsentIsUntried, LockedOnce, ClaimsAreCounted, ClaimsDiffer,
       PostsAreCounted, NotYetPosted, Holds, Idle

(* A step in which an execution claims nothing, posts nothing and counts   *)
(* nothing, but may let go of claims and of endpoints.                     *)
LEMMA LettingGo ==
    ASSUME TypeOK, TypeOK', Accounting,
           NEW r \in Relays,
           relay' = [relay EXCEPT ![r] = relay'[r]],
           relay[r].pc # "claiming" \/ relay'[r].claim = Idle.claim,
           relay'[r].pc # "claiming",
           \A e \in Events : relay'[r].claim[e] > 0 =>
               /\ relay'[r].claim[e] = relay[r].claim[e]
               /\ ToPost(r, e)' \subseteq ToPost(r, e),
           \A e \in Events : /\ row'[e].attempts = row[e].attempts
                             /\ row'[e].status = "absent" => row[e].status = "absent",
           posted' = posted
    PROVE  Accounting'
<1> USE DEF TypeOK
<1>1. AbsentIsUntried'
  BY DEF Accounting, AbsentIsUntried, Holds
<1>2. LockedOnce'
  BY DEF Accounting, LockedOnce, Holds
<1>3. ClaimsAreCounted'
  BY DEF Accounting, ClaimsAreCounted, Holds, Idle
<1>4. ClaimsDiffer'
  BY DEF Accounting, ClaimsDiffer, Holds
<1>5. PostsAreCounted'
  BY DEF Accounting, PostsAreCounted
<1>6. NotYetPosted'
  BY DEF Accounting, NotYetPosted, Holds, ToPost
<1> QED
  BY <1>1, <1>2, <1>3, <1>4, <1>5, <1>6 DEF Accounting

LEMMA StepAccounting == TypeOK /\ Placed /\ Accounting /\ [Next]_vars => Accounting'
<1> SUFFICES ASSUME TypeOK, Placed, Accounting, [Next]_vars PROVE Accounting'
  OBVIOUS
<1>0. TypeOK'
  BY StepWellFormed
<1> USE DEF TypeOK
<1>1. ASSUME UNCHANGED <<relay, posted>>,
             \A e \in Events : /\ row'[e].attempts = row[e].attempts
                               /\ row'[e].status = "absent" => row[e].status = "absent"
      PROVE  Accounting'
  BY <1>1 DEF Accounting, AbsentIsUntried, LockedOnce, ClaimsAreCounted, ClaimsDiffer,
              PostsAreCounted, NotYetPosted, Holds, ToPost
<1>2. ASSUME NEW e \in Events, Emit(e) PROVE Accounting'
  <2>1. \A f \in Events : /\ row'[f].attempts = row[f].attempts
                          /\ row'[f].status = "absent" => row[f].status = "absent"
    BY <1>2 DEF Emit, Recorded, Accounting, AbsentIsUntried, Row
  <2> QED
    BY <1>1, <1>2, <2>1 DEF Emit
<1>3. ASSUME NEW e \in Events, BackoffElapses(e) PROVE Accounting'
  <2>1. \A f \in Events : /\ row'[f].attempts = row[f].attempts
                          /\ row'[f].status = row[f].status
    BY <1>3 DEF BackoffElapses, Row
  <2> QED
    BY <1>1, <1>3, <2>1 DEF BackoffElapses
<1>4. ASSUME NEW p \in Endpoints, RemoveEndpoint(p) PROVE Accounting'
  BY <1>1, <1>4 DEF RemoveEndpoint
<1>5. ASSUME UNCHANGED vars PROVE Accounting'
  BY <1>1, <1>5 DEF vars
<1>6. ASSUME NEW r \in Relays, LockRows(r) PROVE Accounting'
  <2> DEFINE claim(batch) == [e \in Events |-> IF e \in batch THEN row[e].attempts + 1 ELSE 0]
  <2>1. PICK batch \in SUBSET Claimable :
          relay' = [relay EXCEPT ![r] = [Idle EXCEPT !.pc = "claiming",
                                                     !.claim = claim(batch)]]
    BY <1>6 DEF LockRows
  <2> DEFINE new == [Idle EXCEPT !.pc = "claiming", !.claim = claim(batch)]
  <2>2. relay' = [relay EXCEPT ![r] = new] /\ UNCHANGED <<row, posted>>
    BY <1>6, <2>1 DEF LockRows
  <2>3. new.pc = "claiming" /\ new.event = NoEvent /\ new.claim = claim(batch)
    BY DEF Idle
  <2>4. \A e \in Events : row[e].attempts \in Nat
    BY DEF Row
  <2>5. \A e \in Events : new.claim[e] > 0 => /\ e \in batch
                                              /\ new.claim[e] = row[e].attempts + 1
    BY <2>3, <2>4
  <2>6. \A e \in batch : \A s \in Relays : relay[s].pc = "claiming" => ~ Holds(s, e)
    BY DEF Claimable, Locked
  <2>7. \A s \in Relays : relay'[s] = IF s = r THEN new ELSE relay[s]
    BY <2>2
  <2> HIDE DEF new
  <2>12. AbsentIsUntried'
    BY <2>2, <2>5, <2>7 DEF Accounting, AbsentIsUntried, Holds, Claimable
  <2>8. LockedOnce'
    BY <2>3, <2>5, <2>6, <2>7 DEF Accounting, LockedOnce, Holds
  <2>9. ClaimsAreCounted'
    BY <2>2, <2>3, <2>5, <2>7 DEF Accounting, ClaimsAreCounted, Holds
  <2>10. ClaimsDiffer'
    <3> SUFFICES ASSUME NEW s \in Relays, NEW e \in Events, s # r, Holds(s, e),
                        new.claim[e] > 0
                 PROVE  relay[s].claim[e] # new.claim[e]
      BY <2>7 DEF Accounting, ClaimsDiffer, Holds
    <3>1. relay[s].claim[e] <= row[e].attempts
      BY <2>5, <2>6 DEF Accounting, ClaimsAreCounted
    <3>2. relay[s].claim[e] \in Nat
      BY DEF Relay
    <3> QED
      BY <2>4, <2>5, <3>1, <3>2
  <2>11. NotYetPosted'
    <3> SUFFICES ASSUME NEW e \in Events, new.claim[e] > 0, NEW p \in Endpoints
                 PROVE  <<e, p, new.claim[e]>> \notin posted
      BY <2>2, <2>3, <2>7, NoneAssumption DEF Accounting, NotYetPosted, Holds, ToPost
    <3>1. row[e].attempts \in Nat /\ new.claim[e] = row[e].attempts + 1
      BY <2>4, <2>5
    <3> QED
      BY <3>1 DEF Accounting, PostsAreCounted
  <2> QED
    BY <2>2, <2>8, <2>9, <2>10, <2>11, <2>12 DEF Accounting, PostsAreCounted
<1>7. ASSUME NEW r \in Relays, CommitClaim(r) PROVE Accounting'
  <2>1. /\ relay[r].pc = "claiming" /\ posted' = posted
        /\ relay' = [relay EXCEPT ![r] = [relay[r] EXCEPT !.pc = "fetch"]]
    BY <1>7 DEF CommitClaim
  <2>2. \A e \in Events : /\ row[e].attempts \in Nat
                          /\ row'[e].status = row[e].status
                          /\ row'[e].attempts = IF Holds(r, e) THEN row[e].attempts + 1
                                                ELSE row[e].attempts
    BY <1>7 DEF CommitClaim, Row
  <2>3. \A s \in Relays : /\ relay'[s].claim = relay[s].claim
                          /\ relay'[s].event = relay[s].event
                          /\ relay'[s].todo = relay[s].todo
                          /\ relay'[s].asked = relay[s].asked
                          /\ relay'[s].pc = IF s = r THEN "fetch" ELSE relay[s].pc
    BY <2>1 DEF Relay
  <2>4. \A e \in Events : Holds(r, e) =>
          /\ relay[r].claim[e] = row[e].attempts + 1
          /\ \A s \in Relays : s # r /\ Holds(s, e) => relay[s].pc # "claiming"
    BY <2>1 DEF Accounting, ClaimsAreCounted, LockedOnce
  <2>5. AbsentIsUntried'
    BY <2>2, <2>3 DEF Accounting, AbsentIsUntried, Holds
  <2>6. LockedOnce'
    BY <2>3 DEF Accounting, LockedOnce, Holds
  <2>7. ClaimsAreCounted'
    <3> SUFFICES ASSUME NEW s \in Relays, NEW e \in Events, Holds(s, e)
                 PROVE  IF relay'[s].pc = "claiming"
                        THEN relay[s].claim[e] = row'[e].attempts + 1
                        ELSE relay[s].claim[e] <= row'[e].attempts
      BY <2>3 DEF ClaimsAreCounted, Holds
    <3>1. relay[s].claim[e] \in Nat
      BY DEF Relay
    <3>2. CASE s = r
      BY <2>2, <2>3, <2>4, <3>1, <3>2
    <3>3. CASE s # r
      BY <2>2, <2>3, <2>4, <3>1, <3>3 DEF Accounting, ClaimsAreCounted
    <3> QED
      BY <3>2, <3>3
  <2>8. ClaimsDiffer'
    BY <2>3 DEF Accounting, ClaimsDiffer, Holds
  <2>9. PostsAreCounted'
    BY <2>1, <2>2 DEF Accounting, PostsAreCounted
  <2>10. NotYetPosted'
    BY <2>1, <2>3 DEF Accounting, NotYetPosted, Holds, ToPost
  <2> QED
    BY <2>5, <2>6, <2>7, <2>8, <2>9, <2>10 DEF Accounting
<1>8. ASSUME NEW r \in Relays, Post(r) PROVE Accounting'
  <2> DEFINE e == relay[r].event
             n == relay[r].claim[e]
  <2>1. PICK p \in relay[r].todo, ok \in BOOLEAN :
          /\ relay' = [relay EXCEPT ![r] =
                         [relay[r] EXCEPT !.pc = "log", !.asked = p, !.ok = ok,
                                          !.allOk = relay[r].allOk /\ ok]]
          /\ posted' = posted \cup {<<e, p, n>>}
    BY <1>8 DEF Post, Attempt
  <2>2. /\ relay[r].pc = "post" /\ row' = row
        /\ e \in Events /\ Holds(r, e) /\ n \in Nat
    BY <1>8 DEF Post, Placed, Busy, Relay
  <2>3. \A s \in Relays : /\ relay'[s].claim = relay[s].claim
                          /\ relay'[s].event = relay[s].event
                          /\ relay'[s].todo = relay[s].todo
                          /\ relay'[s].asked = IF s = r THEN p ELSE relay[s].asked
                          /\ relay'[s].pc = IF s = r THEN "log" ELSE relay[s].pc
    BY <2>1 DEF Relay
  <2> HIDE DEF e, n
  <2>4. AbsentIsUntried' /\ LockedOnce' /\ ClaimsAreCounted' /\ ClaimsDiffer'
    BY <2>2, <2>3 DEF Accounting, AbsentIsUntried, LockedOnce, ClaimsAreCounted,
                      ClaimsDiffer, Holds
  <2>5. PostsAreCounted'
    BY <2>1, <2>2 DEF Accounting, PostsAreCounted, ClaimsAreCounted, n
  <2>6. NotYetPosted'
    <3> SUFFICES ASSUME NEW s \in Relays, NEW f \in Events, Holds(s, f),
                        NEW q \in ToPost(s, f)'
                 PROVE  <<f, q, relay[s].claim[f]>> \notin posted'
      BY <2>3 DEF NotYetPosted, Holds
    <3>1. relay[r].asked = NoEndpoint /\ relay[r].todo \subseteq Endpoints
      BY <2>2 DEF Placed, Relay
    <3>2. q \in ToPost(s, f)
      BY <2>3, <3>1, NoneAssumption DEF ToPost
    <3>3. <<f, q, relay[s].claim[f]>> \notin posted
      BY <3>2 DEF Accounting, NotYetPosted
    <3>4. <<f, q, relay[s].claim[f]>> # <<e, p, n>>
      <4>1. CASE s = r
        BY <2>3, <4>1 DEF ToPost, e
      <4>2. CASE s # r
        BY <2>2, <4>2 DEF Accounting, ClaimsDiffer, n
      <4> QED
        BY <4>1, <4>2
    <3> QED
      BY <2>1, <3>3, <3>4
  <2> QED
    BY <2>4, <2>5, <2>6 DEF Accounting
<1>9. ASSUME NEW r \in Relays, FetchEndpoints(r) PROVE Accounting'
  <2>1. PICK e \in Events :
          relay' = [relay EXCEPT ![r] =
                      [relay[r] EXCEPT !.pc = IF Matching(e) = {} THEN "settle" ELSE "post",
                                       !.event = e, !.todo = Matching(e), !.allOk = TRUE]]
    BY <1>9 DEF FetchEndpoints
  <2>2. relay[r].pc = "fetch" /\ UNCHANGED <<row, posted>> /\ Matching(e) \subseteq Endpoints
    BY <1>9 DEF FetchEndpoints, Matching
  <2>3. /\ relay' = [relay EXCEPT ![r] = relay'[r]]
        /\ relay'[r].pc # "claiming" /\ relay'[r].claim = relay[r].claim
        /\ relay'[r].event = e /\ relay'[r].todo = Matching(e)
    BY <2>1 DEF Relay
  <2>4. \A f \in Events : ToPost(r, f) = Endpoints
    BY <2>2, NoneAssumption DEF Placed, Busy, ToPost
  <2>5. \A f \in Events : ToPost(r, f)' \subseteq ToPost(r, f)
    BY <2>2, <2>3, <2>4 DEF ToPost
  <2> QED
    BY <1>0, <2>2, <2>3, <2>5, LettingGo
<1>10. ASSUME NEW r \in Relays, relay[r].pc = "log", Log(r), UNCHANGED <<row, posted>>
       PROVE  Accounting'
  <2>1. /\ relay' = [relay EXCEPT ![r] = relay'[r]]
        /\ relay'[r].pc # "claiming" /\ relay'[r].claim = relay[r].claim
        /\ relay'[r].event = relay[r].event
        /\ relay'[r].todo = relay[r].todo \ {relay[r].asked}
    BY <1>10 DEF Log, Relay
  <2>2. \A f \in Events : ToPost(r, f)' \subseteq ToPost(r, f)
    BY <2>1 DEF ToPost
  <2> QED
    BY <1>0, <1>10, <2>1, <2>2, LettingGo
<1>11. ASSUME NEW r \in Relays, relay' = [relay EXCEPT ![r] = Idle], UNCHANGED <<row, posted>>
       PROVE  Accounting'
  <2>1. /\ relay' = [relay EXCEPT ![r] = relay'[r]]
        /\ relay'[r].pc # "claiming" /\ relay'[r].claim = Idle.claim
        /\ \A e \in Events : ~ (relay'[r].claim[e] > 0)
    BY <1>11 DEF Idle
  <2> QED
    BY <1>0, <1>11, <2>1, LettingGo
<1>12. ASSUME NEW r \in Relays, Settle(r) PROVE Accounting'
  <2> DEFINE e == relay[r].event
             rest == [relay[r].claim EXCEPT ![e] = 0]
  <2>1. /\ relay' = [relay EXCEPT ![r] = IF rest = Idle.claim THEN Idle
                                         ELSE [Idle EXCEPT !.pc = "fetch", !.claim = rest]]
        /\ posted' = posted /\ relay[r].pc = "settle"
    BY <1>12 DEF Settle
  <2>2. e \in Events /\ relay[r] \in Relay
    BY <2>1 DEF Placed, Busy
  <2>3. \A f \in Events : /\ row'[f].attempts = row[f].attempts
                          /\ row'[f].status = "absent" => row[f].status = "absent"
    BY <1>12, <2>2 DEF Settle, Verdict, Row
  <2>4. /\ relay' = [relay EXCEPT ![r] = relay'[r]]
        /\ relay'[r].pc # "claiming" /\ relay'[r].event = NoEvent
        /\ \A f \in Events : relay'[r].claim[f] > 0 =>
               f # e /\ relay'[r].claim[f] = relay[r].claim[f]
    BY <2>1, <2>2 DEF Idle, Relay
  <2>5. \A f \in Events : relay'[r].claim[f] > 0 => ToPost(r, f)' \subseteq ToPost(r, f)
    BY <2>4, NoneAssumption DEF ToPost
  <2> QED
    BY <1>0, <2>1, <2>3, <2>4, <2>5, LettingGo
<1>13. ASSUME NEW r \in Relays, LogDelivery(r) PROVE Accounting'
  BY <1>10, <1>11, <1>13 DEF LogDelivery, GiveUp
<1>14. ASSUME NEW r \in Relays, Crash(r) PROVE Accounting'
  BY <1>11, <1>14 DEF Crash, GiveUp
<1> QED
  BY <1>2, <1>3, <1>4, <1>5, <1>6, <1>7, <1>8, <1>9, <1>12, <1>13, <1>14 DEF Next, RelayStep

(* What an execution has still to post was posted under its number by none.*)
LEMMA PostIsNew ==
    ASSUME TypeOK, Placed, Accounting, NEW r \in Relays, Post(r)
    PROVE  posted' # posted
<1> DEFINE e == relay[r].event
           n == relay[r].claim[e]
<1>1. PICK p \in relay[r].todo : posted' = posted \cup {<<e, p, n>>}
  BY DEF Post, Attempt
<1>2. e \in Events /\ Holds(r, e) /\ relay[r].asked = NoEndpoint /\ p \in Endpoints
  BY DEF Post, Placed, Busy, TypeOK, Relay
<1>3. <<e, p, n>> \notin posted
  BY <1>2, NoneAssumption DEF Accounting, NotYetPosted, ToPost
<1> QED
  BY <1>1, <1>3

(***************************************************************************)
(* Every POST carries an event id and attempt number that its endpoint has *)
(* not seen, whatever the executions of dispatchOutbox interleave to.      *)
(***************************************************************************)
THEOREM PostsAreNew == Spec => EveryPostIsNew
<1>1. Init => TypeOK /\ Placed /\ Accounting
  BY InitWellFormed, InitAccounting
<1>2. TypeOK /\ Placed /\ Accounting /\ [Next]_vars => (TypeOK /\ Placed /\ Accounting)'
  BY StepWellFormed, StepAccounting
<1>3. TypeOK /\ Placed /\ Accounting /\ [Next]_vars
        => [(\E r \in Relays : Post(r)) => posted' # posted]_vars
  BY PostIsNew
<1> QED
  BY <1>1, <1>2, <1>3, PTL DEF Spec, EveryPostIsNew

-----------------------------------------------------------------------------
(***************************************************************************)
(* Why `dispatched` can be believed.  While `allSucceeded` holds, every    *)
(* endpoint that is owed the event is still to be asked or has answered in *)
(* this attempt.                                                           *)
(***************************************************************************)
Acknowledged(e, p, n) == [event |-> e, endpoint |-> p, attempt |-> n, ok |-> TRUE] \in deliveries

SoFarTold ==
    \A r \in Relays : relay[r].pc \in Busy /\ relay[r].allOk =>
        /\ relay[r].pc = "log" => relay[r].ok
        /\ \A p \in Matching(relay[r].event) :
              p \in relay[r].todo \/ Acknowledged(relay[r].event, p, Attempt(r))

Telling == SoFarTold /\ DispatchedMeansTold

LEMMA InitTelling == Init => Telling
BY DEF Init, Telling, SoFarTold, DispatchedMeansTold, Idle, Busy

(* A step that leaves the tables alone, or takes an execution out of       *)
(* delivery, or only counts attempts.                                      *)
LEMMA NothingTold ==
    ASSUME TypeOK, TypeOK', Telling,
           \A s \in Relays : \/ relay'[s] = relay[s]
                             \/ relay'[s].pc \notin Busy,
           \A e \in Events : /\ row'[e].attempts >= row[e].attempts
                             /\ row'[e].status = "dispatched" => row[e].status = "dispatched",
           UNCHANGED <<live, deliveries>>
    PROVE  Telling'
<1> USE DEF TypeOK
<1>1. SoFarTold'
  BY DEF Telling, SoFarTold, Matching, Acknowledged, Attempt
<1>2. DispatchedMeansTold'
  <2> SUFFICES ASSUME NEW e \in Events, row'[e].status = "dispatched"
               PROVE  \E n \in 1 .. row'[e].attempts : \A p \in Matching(e) :
                        Acknowledged(e, p, n)
    BY DEF DispatchedMeansTold, Matching, Acknowledged
  <2>1. PICK n \in 1 .. row[e].attempts : \A p \in Matching(e) : Acknowledged(e, p, n)
    BY DEF Telling, DispatchedMeansTold, Acknowledged
  <2>2. n \in 1 .. row'[e].attempts
    BY <2>1 DEF Row
  <2> QED
    BY <2>1, <2>2
<1> QED
  BY <1>1, <1>2 DEF Telling

LEMMA StepTelling == TypeOK /\ Placed /\ Accounting /\ Telling /\ [Next]_vars => Telling'
<1> SUFFICES ASSUME TypeOK, Placed, Accounting, Telling, [Next]_vars PROVE Telling'
  OBVIOUS
<1>0. TypeOK'
  BY StepWellFormed
<1> USE DEF TypeOK
<1>1. ASSUME NEW e \in Events, Emit(e) PROVE Telling'
  <2>1. \A f \in Events : /\ row'[f].attempts >= row[f].attempts
                          /\ row'[f].status = "dispatched" => row[f].status = "dispatched"
    BY <1>1 DEF Emit, Recorded, Accounting, AbsentIsUntried, Row
  <2> QED
    BY <1>0, <1>1, <2>1, NothingTold DEF Emit
<1>2. ASSUME NEW e \in Events, BackoffElapses(e) PROVE Telling'
  <2>1. \A f \in Events : /\ row'[f].attempts >= row[f].attempts
                          /\ row'[f].status = row[f].status
    BY <1>2 DEF BackoffElapses, Row
  <2> QED
    BY <1>0, <1>2, <2>1, NothingTold DEF BackoffElapses
<1>3. ASSUME UNCHANGED vars PROVE Telling'
  <2>1. \A f \in Events : row'[f] = row[f] /\ row[f].attempts \in Nat
    BY <1>3 DEF vars, Row
  <2>2. \A f \in Events : /\ row'[f].attempts >= row[f].attempts
                          /\ row'[f].status = row[f].status
    BY <2>1
  <2> QED
    BY <1>0, <1>3, <2>2, NothingTold DEF vars
<1>4. ASSUME NEW r \in Relays, relay' = [relay EXCEPT ![r] = relay'[r]],
             relay'[r].pc \notin Busy, UNCHANGED <<row, live, deliveries>>
      PROVE  Telling'
  <2>1. \A f \in Events : row'[f] = row[f] /\ row[f].attempts \in Nat
    BY <1>4 DEF Row
  <2>2. \A f \in Events : /\ row'[f].attempts >= row[f].attempts
                          /\ row'[f].status = row[f].status
    BY <2>1
  <2>3. \A s \in Relays : relay'[s] = relay[s] \/ relay'[s].pc \notin Busy
    BY <1>4
  <2> QED
    BY <1>0, <1>4, <2>2, <2>3, NothingTold
<1>5. ASSUME NEW r \in Relays, LockRows(r) PROVE Telling'
  BY <1>4, <1>5 DEF LockRows, Idle, Busy
<1>6. ASSUME NEW r \in Relays, CommitClaim(r) PROVE Telling'
  <2>1. \A f \in Events : /\ row'[f].attempts >= row[f].attempts
                          /\ row'[f].status = row[f].status
    BY <1>6 DEF CommitClaim, Row
  <2>2. \A s \in Relays : relay'[s] = relay[s] \/ relay'[s].pc \notin Busy
    BY <1>6 DEF CommitClaim, Busy, Relay
  <2> QED
    BY <1>0, <1>6, <2>1, <2>2, NothingTold DEF CommitClaim
<1>7. ASSUME NEW r \in Relays, relay' = [relay EXCEPT ![r] = Idle],
             UNCHANGED <<row, live, deliveries>>
      PROVE  Telling'
  BY <1>4, <1>7 DEF Idle, Busy
<1>8. ASSUME NEW r \in Relays, Crash(r) PROVE Telling'
  BY <1>7, <1>8 DEF Crash, GiveUp
<1>9. ASSUME NEW r \in Relays, FetchEndpoints(r) PROVE Telling'
  <2>1. PICK e \in Events :
          relay' = [relay EXCEPT ![r] =
                      [relay[r] EXCEPT !.pc = IF Matching(e) = {} THEN "settle" ELSE "post",
                                       !.event = e, !.todo = Matching(e), !.allOk = TRUE]]
    BY <1>9 DEF FetchEndpoints
  <2>2. /\ relay'[r].event = e /\ relay'[r].todo = Matching(e) /\ relay'[r].pc # "log"
        /\ \A s \in Relays : s # r => relay'[s] = relay[s]
    BY <2>1 DEF Relay
  <2>3. SoFarTold'
    BY <1>9, <2>2 DEF FetchEndpoints, Telling, SoFarTold, Matching, Acknowledged, Attempt
  <2> QED
    BY <1>9, <2>3 DEF FetchEndpoints, Telling, DispatchedMeansTold, Matching
<1>10. ASSUME NEW r \in Relays, Post(r) PROVE Telling'
  <2>1. PICK p \in relay[r].todo, ok \in BOOLEAN :
          relay' = [relay EXCEPT ![r] =
                      [relay[r] EXCEPT !.pc = "log", !.asked = p, !.ok = ok,
                                       !.allOk = relay[r].allOk /\ ok]]
    BY <1>10 DEF Post
  <2>2. /\ relay[r].pc = "post" /\ relay'[r].event = relay[r].event
        /\ relay'[r].todo = relay[r].todo /\ relay'[r].claim = relay[r].claim
        /\ relay'[r].allOk = (relay[r].allOk /\ ok) /\ relay'[r].ok = ok
        /\ \A s \in Relays : s # r => relay'[s] = relay[s]
    BY <1>10, <2>1 DEF Post, Relay
  <2>3. SoFarTold'
    BY <1>10, <2>2 DEF Post, Telling, SoFarTold, Matching, Acknowledged, Attempt, Busy
  <2> QED
    BY <1>10, <2>3 DEF Post, Telling, DispatchedMeansTold, Matching
<1>11. ASSUME NEW r \in Relays, relay[r].pc = "log", Log(r), UNCHANGED <<row, live>>
       PROVE  Telling'
  <2>1. /\ relay'[r].event = relay[r].event /\ relay'[r].claim = relay[r].claim
        /\ relay'[r].todo = relay[r].todo \ {relay[r].asked}
        /\ relay'[r].allOk = relay[r].allOk /\ relay'[r].pc # "log"
        /\ \A s \in Relays : s # r => relay'[s] = relay[s]
    BY <1>11 DEF Log, Relay
  <2>2. deliveries \subseteq deliveries'
    BY <1>11 DEF Log
  <2>3. relay[r].allOk => [event |-> relay[r].event, endpoint |-> relay[r].asked,
                           attempt |-> Attempt(r), ok |-> TRUE] \in deliveries'
    <3>1. relay[r].allOk => relay[r].ok = TRUE
      BY <1>11 DEF Telling, SoFarTold, Busy, Relay
    <3>2. [event |-> relay[r].event, endpoint |-> relay[r].asked,
           attempt |-> Attempt(r), ok |-> relay[r].ok] \in deliveries'
      BY <1>11 DEF Log
    <3> QED
      BY <3>1, <3>2
  <2>4. SoFarTold'
    BY <1>11, <2>1, <2>2, <2>3 DEF Telling, SoFarTold, Matching, Acknowledged, Attempt, Busy
  <2> QED
    BY <1>11, <2>2, <2>4 DEF Telling, DispatchedMeansTold, Matching
<1>12. ASSUME NEW r \in Relays, LogDelivery(r) PROVE Telling'
  BY <1>7, <1>11, <1>12 DEF LogDelivery, GiveUp
<1>13. ASSUME NEW r \in Relays, Settle(r) PROVE Telling'
  <2> DEFINE e == relay[r].event
             n == Attempt(r)
  <2>1. relay[r].pc = "settle" /\ e \in Events /\ Holds(r, e) /\ relay[r].todo = {}
    BY <1>13 DEF Settle, Placed, Busy
  <2>2. /\ row' = [row EXCEPT ![e].status = Verdict(r),
                              ![e].due = @ /\ Verdict(r) # "pending"]
        /\ UNCHANGED <<live, deliveries>>
        /\ relay'[r].pc \notin Busy
        /\ \A s \in Relays : s # r => relay'[s] = relay[s]
    BY <1>13 DEF Settle, Idle, Busy
  <2>3. \A f \in Events : /\ row'[f].attempts = row[f].attempts
                          /\ f # e => row'[f].status = row[f].status
    BY <2>1, <2>2 DEF Row
  <2>4. SoFarTold'
    BY <2>2 DEF Telling, SoFarTold, Matching, Acknowledged, Attempt
  <2>5. ASSUME row'[e].status = "dispatched"
        PROVE  \E k \in 1 .. row[e].attempts : \A p \in Matching(e) : Acknowledged(e, p, k)
    <3>1. relay[r].allOk
      BY <2>1, <2>2, <2>5 DEF Verdict, Row
    <3>2. \A p \in Matching(e) : Acknowledged(e, p, n)
      BY <2>1, <3>1 DEF Telling, SoFarTold, Busy
    <3>3. n \in Nat /\ n > 0 /\ n <= row[e].attempts
      BY <2>1 DEF Accounting, ClaimsAreCounted, Holds, Attempt, Relay
    <3> QED
      BY <2>1, <3>2, <3>3 DEF Row
  <2>6. DispatchedMeansTold'
    BY <2>2, <2>3, <2>5 DEF Telling, DispatchedMeansTold, Matching, Acknowledged
  <2> QED
    BY <2>4, <2>6 DEF Telling
<1>14. ASSUME NEW q \in Endpoints, RemoveEndpoint(q) PROVE Telling'
  <2>1. \A e \in Events : Matching(e)' = Matching(e) \ {q}
    BY <1>14 DEF RemoveEndpoint, Matching
  <2>2. UNCHANGED <<row, relay>> /\ deliveries' = {d \in deliveries : d.endpoint # q}
    BY <1>14 DEF RemoveEndpoint
  <2>3. \A e, p, n : p # q /\ Acknowledged(e, p, n) => Acknowledged(e, p, n)'
    BY <2>2 DEF Acknowledged
  <2>4. SoFarTold'
    <3> SUFFICES ASSUME NEW s \in Relays, relay[s].pc \in Busy, relay[s].allOk
                 PROVE  /\ relay[s].pc = "log" => relay[s].ok
                        /\ \A p \in Matching(relay[s].event)' :
                              \/ p \in relay[s].todo
                              \/ Acknowledged(relay[s].event, p, Attempt(s))'
      BY <2>2 DEF SoFarTold, Acknowledged, Attempt, Matching
    <3>1. relay[s].event \in Events
      BY DEF Placed
    <3> QED
      BY <2>1, <2>2, <2>3, <3>1 DEF Telling, SoFarTold, Acknowledged, Attempt
  <2>5. DispatchedMeansTold'
    BY <2>1, <2>2, <2>3 DEF Telling, DispatchedMeansTold, Acknowledged
  <2> QED
    BY <2>4, <2>5 DEF Telling
<1> QED
  BY <1>1, <1>2, <1>3, <1>5, <1>6, <1>8, <1>9, <1>10, <1>12, <1>13, <1>14 DEF Next, RelayStep

(***************************************************************************)
(* A row that reads `dispatched` was acknowledged in one attempt by every  *)
(* endpoint that subscribes and still exists, for any number of relays.    *)
(***************************************************************************)
THEOREM DispatchedIsTold == Spec => []DispatchedMeansTold
<1>1. Init => TypeOK /\ Placed /\ Accounting /\ Telling
  BY InitWellFormed, InitAccounting, InitTelling
<1>2. TypeOK /\ Placed /\ Accounting /\ Telling /\ [Next]_vars
        => (TypeOK /\ Placed /\ Accounting /\ Telling)'
  BY StepWellFormed, StepAccounting, StepTelling
<1>3. Telling => DispatchedMeansTold
  BY DEF Telling
<1> QED
  BY <1>1, <1>2, <1>3, PTL DEF Spec
-----------------------------------------------------------------------------
(***************************************************************************)
(* Why the relay stops.  For one event, let a be its attempts, p whether   *)
(* its row is pending, l and h the executions that hold an attempt below   *)
(* the limit m and one at or above it, x the claims lost and n all the     *)
(* executions.  Once a reaches m, a claim adds an execution to the h       *)
(* holders and is paid by the 2 * (n - l - h) of a pending row; a holder   *)
(* at the limit ends the row; one below it may revive it, and has set      *)
(* aside what the executions that are then free may claim.                 *)
(***************************************************************************)
Fits(a, p, l, h, x, n, m) ==
    a >= m => 2*a + (IF p THEN 2 * (n - l - h) ELSE 0) + l * (2*n + 1 - l)
                <= 2*m + (n - 1) * (n + 2) + 2*x

(* What a holder below the limit has set aside.                            *)
LEMMA ReserveOfOne ==
    ASSUME NEW n \in Nat, NEW l \in Nat, l >= 1
    PROVE  l * (2*n + 1 - l) = (l - 1) * (2*n + 1 - (l - 1)) + 2 * (n - l + 1)
OBVIOUS

(* What l holders may have set aside at most when the limit is reached.    *)
LEMMA ReserveOfAll ==
    ASSUME NEW n \in Nat, NEW l \in Nat, l + 1 <= n
    PROVE  2 * (n - l - 1) + l * (2*n + 1 - l) <= (n - 1) * (n + 2)
<1> DEFINE d == n - 1 - l
<1>1. d \in Nat /\ n = d + 1 + l
  OBVIOUS
<1>2. d * d >= 0
  BY <1>1
<1> HIDE DEF d
<1>3. (n - 1) * (n + 2) - (2 * (n - l - 1) + l * (2*n + 1 - l)) = d*d + d
  BY <1>1
<1>4. (n - 1) * (n + 2) \in Int /\ l * (2*n + 1 - l) \in Int /\ d*d \in Int
  BY <1>1
<1> QED
  BY <1>1, <1>2, <1>3, <1>4

(* A holder below the limit lets go, whatever becomes of the row.          *)
LEMMA BelowLetsGo ==
    ASSUME NEW a \in Nat, NEW p, NEW q, NEW l \in Nat, NEW h \in Nat, NEW x \in Nat,
           NEW y \in Nat, NEW n \in Nat, NEW m \in Nat,
           l >= 1, l + h <= n, x <= y, Fits(a, p, l, h, x, n, m)
    PROVE  Fits(a, q, l - 1, h, y, n, m)
<1> DEFINE S == l * (2*n + 1 - l)
           T == (l - 1) * (2*n + 1 - (l - 1))
           B == (n - 1) * (n + 2)
<1>1. S \in Int /\ T \in Int /\ B \in Int
  OBVIOUS
<1>2. S = T + 2 * (n - l + 1)
  BY ReserveOfOne
<1>3. a >= m => 2*a + (IF p THEN 2 * (n - l - h) ELSE 0) + S <= 2*m + B + 2*x
  BY DEF Fits
<1> HIDE DEF S, T, B
<1>4. a >= m => 2*a + (IF q THEN 2 * (n - (l - 1) - h) ELSE 0) + T <= 2*m + B + 2*y
  BY <1>1, <1>2, <1>3
<1> QED
  BY <1>4 DEF Fits, T, B

(* A holder at the limit lets go: it has ended the row, or is lost.        *)
LEMMA AboveLetsGo ==
    ASSUME NEW a \in Nat, NEW p, NEW q, NEW l \in Nat, NEW h \in Nat, NEW x \in Nat,
           NEW y \in Nat, NEW n \in Nat, NEW m \in Nat,
           h >= 1, l + h <= n, Fits(a, p, l, h, x, n, m),
           (~ q /\ y = x) \/ ((q <=> p) /\ y = x + 1)
    PROVE  Fits(a, q, l, h - 1, y, n, m)
<1> DEFINE S == l * (2*n + 1 - l)
           B == (n - 1) * (n + 2)
<1>1. S \in Int /\ B \in Int
  OBVIOUS
<1>2. a >= m => 2*a + (IF p THEN 2 * (n - l - h) ELSE 0) + S <= 2*m + B + 2*x
  BY DEF Fits
<1> HIDE DEF S, B
<1>3. a >= m => 2*a + (IF q THEN 2 * (n - l - (h - 1)) ELSE 0) + S <= 2*m + B + 2*y
  BY <1>1, <1>2
<1> QED
  BY <1>3 DEF Fits, S, B

(* A claim at or beyond the limit of a row that is pending.                *)
LEMMA OneMoreClaim ==
    ASSUME NEW a \in Nat, NEW l \in Nat, NEW h \in Nat, NEW x \in Nat,
           NEW n \in Nat, NEW m \in Nat, l + h + 1 <= n,
           a < m => h = 0, Fits(a, TRUE, l, h, x, n, m)
    PROVE  Fits(a + 1, TRUE, l, h + 1, x, n, m)
<1> DEFINE S == l * (2*n + 1 - l)
           B == (n - 1) * (n + 2)
<1>1. S \in Int /\ B \in Int
  OBVIOUS
<1>2. 2 * (n - l - 1) + S <= B
  BY ReserveOfAll
<1>3. a >= m => 2*a + 2 * (n - l - h) + S <= 2*m + B + 2*x
  BY DEF Fits
<1> HIDE DEF S, B
<1>4. a + 1 >= m => 2*(a + 1) + 2 * (n - l - (h + 1)) + S <= 2*m + B + 2*x
  BY <1>1, <1>2, <1>3
<1> QED
  BY <1>4 DEF Fits, S, B

LEMMA FitsIsBounded ==
    ASSUME NEW a \in Nat, NEW p, NEW l \in Nat, NEW h \in Nat, NEW x \in Nat,
           NEW n \in Nat, NEW m \in Nat, m > 0, l + h <= n, Fits(a, p, l, h, x, n, m)
    PROVE  a <= m + ((n - 1) * (n + 2)) \div 2 + x
<1> DEFINE S == l * (2*n + 1 - l)
           B == (n - 1) * (n + 2)
<1>1. S \in Nat /\ B \in Int /\ B >= -2
  <2>1. 2*n + 1 - l \in Nat
    OBVIOUS
  <2>2. S \in Nat
    BY <2>1
  <2>3. B = n*n + n - 2 /\ n*n \in Nat
    OBVIOUS
  <2> QED
    BY <2>2, <2>3
<1>2. a >= m => 2*a + (IF p THEN 2 * (n - l - h) ELSE 0) + S <= 2*m + B + 2*x
  BY DEF Fits
<1> HIDE DEF S, B
<1>3. 2*a <= 2*m + B + 2*x
  BY <1>1, <1>2
<1>4. a <= m + B \div 2 + x
  BY <1>1, <1>3
<1> QED
  BY <1>4 DEF B

(* The executions that hold an attempt on an event which was counted, with *)
(* that attempt below the limit or not.                                    *)
HasCounted(r, e) == relay[r].pc # "claiming" /\ Holds(r, e)
Below(e) == {r \in Relays : HasCounted(r, e) /\ relay[r].claim[e] < MaxAttempts}
Above(e) == {r \in Relays : HasCounted(r, e) /\ relay[r].claim[e] >= MaxAttempts}

PendingWhileClaimed ==
    \A r \in Relays, e \in Events :
        relay[r].pc = "claiming" /\ Holds(r, e) => row[e].status = "pending"

IdleHoldsNothing ==
    \A r \in Relays, e \in Events : relay[r].pc = "idle" => ~ Holds(r, e)

FitsOf(e) == Fits(row[e].attempts, row[e].status = "pending", Cardinality(Below(e)),
                  Cardinality(Above(e)), lost[e], Cardinality(Relays), MaxAttempts)

Stopping == PendingWhileClaimed /\ IdleHoldsNothing /\ \A e \in Events : FitsOf(e)

LEMMA InitStopping == Init => Stopping
<1> SUFFICES ASSUME Init PROVE Stopping
  OBVIOUS
<1>1. PendingWhileClaimed /\ IdleHoldsNothing
  BY DEF Init, Idle, PendingWhileClaimed, IdleHoldsNothing, Holds
<1>2. \A e \in Events : FitsOf(e)
  BY LimitsAssumption DEF Init, FitsOf, Fits
<1> QED
  BY <1>1, <1>2 DEF Stopping

(* No execution is counted twice, nor more than there are.                 *)
LEMMA HoldersAreCounted ==
    ASSUME NEW e \in Events, TypeOK
    PROVE  /\ IsFiniteSet(Below(e)) /\ IsFiniteSet(Above(e))
           /\ Cardinality(Below(e)) \in Nat /\ Cardinality(Above(e)) \in Nat
           /\ Cardinality(Relays) \in Nat
           /\ Cardinality(Below(e)) + Cardinality(Above(e)) <= Cardinality(Relays)
           /\ \A r \in Relays : r \notin Below(e) /\ r \notin Above(e) =>
                Cardinality(Below(e)) + Cardinality(Above(e)) + 1 <= Cardinality(Relays)
<1>1. Below(e) \subseteq Relays /\ Above(e) \subseteq Relays
  BY DEF Below, Above
<1>2. Below(e) \cap Above(e) = {}
  BY LimitsAssumption DEF Below, Above, Holds, TypeOK, Relay
<1>3. IsFiniteSet(Below(e)) /\ IsFiniteSet(Above(e)) /\ IsFiniteSet(Relays)
  BY <1>1, RelaysAssumption, FS_Subset
<1>4. /\ Cardinality(Below(e)) \in Nat /\ Cardinality(Above(e)) \in Nat
      /\ Cardinality(Relays) \in Nat
  BY <1>3, FS_CardinalityType
<1>5. Cardinality(Below(e) \cup Above(e))
        = Cardinality(Below(e)) + Cardinality(Above(e)) - Cardinality({})
  BY <1>2, <1>3, FS_Union
<1>6. Cardinality({}) = 0
  BY FS_EmptySet
<1>7. Cardinality(Below(e) \cup Above(e)) <= Cardinality(Relays)
  BY <1>1, <1>3, FS_Subset
<1>8. ASSUME NEW r \in Relays, r \notin Below(e), r \notin Above(e)
      PROVE  Cardinality(Below(e) \cup Above(e)) <= Cardinality(Relays) - 1
  <2>1. /\ IsFiniteSet(Relays \ {r})
        /\ Cardinality(Relays \ {r}) = Cardinality(Relays) - 1
    BY <1>3, FS_RemoveElement
  <2>2. Below(e) \cup Above(e) \subseteq Relays \ {r}
    BY <1>1, <1>8
  <2> QED
    BY <2>1, <2>2, FS_Subset
<1>9. Cardinality(Below(e) \cup Above(e)) = Cardinality(Below(e)) + Cardinality(Above(e))
  BY <1>4, <1>5, <1>6
<1>10. Cardinality(Below(e)) + Cardinality(Above(e)) <= Cardinality(Relays)
  BY <1>7, <1>9
<1>11. \A r \in Relays : r \notin Below(e) /\ r \notin Above(e) =>
         Cardinality(Below(e)) + Cardinality(Above(e)) + 1 <= Cardinality(Relays)
  <2> SUFFICES ASSUME NEW r \in Relays, r \notin Below(e), r \notin Above(e)
               PROVE  Cardinality(Below(e)) + Cardinality(Above(e)) + 1 <= Cardinality(Relays)
    OBVIOUS
  <2> QED
    BY <1>4, <1>8, <1>9
<1> QED
  BY <1>3, <1>4, <1>10, <1>11

(* An event of which no execution changes what it holds.                   *)
LEMMA SameHolders ==
    ASSUME NEW e \in Events, FitsOf(e),
           row'[e].attempts = row[e].attempts, row'[e].status = row[e].status,
           lost'[e] = lost[e],
           \A r \in Relays : /\ HasCounted(r, e)' <=> HasCounted(r, e)
                             /\ HasCounted(r, e) => relay'[r].claim[e] = relay[r].claim[e]
    PROVE  FitsOf(e)'
<1>1. Below(e)' = Below(e) /\ Above(e)' = Above(e)
  BY DEF Below, Above
<1> QED
  BY <1>1 DEF FitsOf

(* An event that one execution lets go of.                                 *)
LEMMA OneHolderFewer ==
    ASSUME TypeOK, TypeOK', NEW e \in Events, FitsOf(e), NEW r \in Relays,
           relay' = [relay EXCEPT ![r] = relay'[r]],
           HasCounted(r, e), ~ HasCounted(r, e)',
           row'[e].attempts = row[e].attempts,
           \/ /\ lost'[e] = lost[e]
              /\ relay[r].claim[e] >= MaxAttempts => row'[e].status # "pending"
           \/ lost'[e] = lost[e] + 1 /\ row'[e].status = row[e].status
    PROVE  FitsOf(e)'
<1> DEFINE a == row[e].attempts
           p == row[e].status = "pending"
           q == row'[e].status = "pending"
           l == Cardinality(Below(e))
           h == Cardinality(Above(e))
           x == lost[e]
           y == lost'[e]
           n == Cardinality(Relays)
<1>1. /\ a \in Nat /\ l \in Nat /\ h \in Nat /\ x \in Nat /\ y \in Nat /\ n \in Nat
      /\ MaxAttempts \in Nat /\ l + h <= n /\ x <= y
      /\ IsFiniteSet(Below(e)) /\ IsFiniteSet(Above(e))
  BY HoldersAreCounted, LimitsAssumption DEF TypeOK, Row
<1>2. Fits(a, p, l, h, x, n, MaxAttempts)
  BY DEF FitsOf
<1>3. \A s \in Relays : s # r => relay'[s] = relay[s]
  BY DEF TypeOK
<1>4. CASE relay[r].claim[e] < MaxAttempts
  <2>1. r \in Below(e) /\ r \notin Above(e)
    BY <1>4, LimitsAssumption DEF Below, Above, TypeOK, Relay
  <2>2. Below(e)' = Below(e) \ {r} /\ Above(e)' = Above(e)
    BY <1>3, <2>1 DEF Below, Above, HasCounted, Holds
  <2>3. Cardinality(Below(e)') = l - 1
    BY <1>1, <2>1, <2>2, FS_RemoveElement
  <2>4. l >= 1
    BY <1>1, <2>1, <2>2, <2>3, FS_RemoveElement, FS_CardinalityType
  <2> HIDE DEF a, p, q, l, h, x, y, n
  <2>5. Fits(a, q, l - 1, h, y, n, MaxAttempts)
    BY <1>1, <1>2, <2>4, BelowLetsGo
  <2> QED
    BY <2>2, <2>3, <2>5 DEF FitsOf, a, q, l, h, y, n
<1>5. CASE relay[r].claim[e] >= MaxAttempts
  <2>1. r \in Above(e) /\ r \notin Below(e)
    BY <1>5, LimitsAssumption DEF Below, Above, TypeOK, Relay
  <2>2. Above(e)' = Above(e) \ {r} /\ Below(e)' = Below(e)
    BY <1>3, <2>1 DEF Below, Above, HasCounted, Holds
  <2>3. Cardinality(Above(e)') = h - 1
    BY <1>1, <2>1, <2>2, FS_RemoveElement
  <2>4. h >= 1
    BY <1>1, <2>1, <2>2, <2>3, FS_RemoveElement, FS_CardinalityType
  <2>5. (~ q /\ y = x) \/ ((q <=> p) /\ y = x + 1)
    BY <1>5
  <2> HIDE DEF a, p, q, l, h, x, y, n
  <2>6. Fits(a, q, l, h - 1, y, n, MaxAttempts)
    BY <1>1, <1>2, <2>4, <2>5, AboveLetsGo
  <2> QED
    BY <2>2, <2>3, <2>6 DEF FitsOf, a, q, l, h, y, n
<1> QED
  BY <1>4, <1>5, LimitsAssumption DEF TypeOK, Relay

(* An event of which one execution commits a claim.                        *)
LEMMA OneHolderMore ==
    ASSUME TypeOK, TypeOK', Placed, Accounting, NEW e \in Events, FitsOf(e),
           NEW r \in Relays, relay[r].pc = "claiming", Holds(r, e),
           row[e].status = "pending", row'[e].status = "pending",
           row'[e].attempts = row[e].attempts + 1, lost' = lost,
           relay' = [relay EXCEPT ![r] = [relay[r] EXCEPT !.pc = "fetch"]]
    PROVE  FitsOf(e)'
<1> DEFINE a == row[e].attempts
           l == Cardinality(Below(e))
           h == Cardinality(Above(e))
           x == lost[e]
           n == Cardinality(Relays)
<1>1. /\ a \in Nat /\ l \in Nat /\ h \in Nat /\ x \in Nat /\ n \in Nat
      /\ MaxAttempts \in Nat /\ IsFiniteSet(Below(e)) /\ IsFiniteSet(Above(e))
  BY HoldersAreCounted, LimitsAssumption DEF TypeOK, Row
<1>2. \A s \in Relays : /\ relay'[s].claim = relay[s].claim
                        /\ relay'[s].pc = IF s = r THEN "fetch" ELSE relay[s].pc
  BY DEF TypeOK, Relay
<1>3. relay[r].claim[e] = a + 1
  BY DEF Accounting, ClaimsAreCounted
<1>4. ASSUME a + 1 < MaxAttempts PROVE FitsOf(e)'
  BY <1>1, <1>4 DEF FitsOf, Fits
<1>5. ASSUME a + 1 >= MaxAttempts PROVE FitsOf(e)'
  <2>1. r \notin Above(e) /\ r \notin Below(e)
    BY DEF Above, Below, HasCounted
  <2>2. Above(e)' = Above(e) \cup {r}
    BY <1>2, <1>3, <1>5 DEF Above, HasCounted, Holds
  <2>3. Below(e)' = Below(e)
    BY <1>1, <1>2, <1>3, <1>5, <2>1 DEF Below, HasCounted, Holds
  <2>4. Cardinality(Above(e)') = h + 1
    BY <1>1, <2>1, <2>2, FS_AddElement
  <2>6. a < MaxAttempts => Above(e) = {}
    BY <1>1 DEF Above, HasCounted, Accounting, ClaimsAreCounted, TypeOK, Relay
  <2>7. a < MaxAttempts => h = 0
    BY <2>6, FS_EmptySet
  <2>8. Fits(a, TRUE, l, h, x, n, MaxAttempts)
    BY DEF FitsOf
  <2>9. l + h + 1 <= n
    BY <2>1, HoldersAreCounted
  <2> HIDE DEF a, l, h, x, n
  <2>10. Fits(a + 1, TRUE, l, h + 1, x, n, MaxAttempts)
    BY <1>1, <2>7, <2>8, <2>9, OneMoreClaim
  <2> QED
    BY <2>3, <2>4, <2>10 DEF FitsOf, a, l, h, x, n
<1> QED
  BY <1>1, <1>4, <1>5

LEMMA StepStopping == TypeOK /\ Placed /\ Accounting /\ Stopping /\ [Next]_vars => Stopping'
<1> SUFFICES ASSUME TypeOK, Placed, Accounting, Stopping, [Next]_vars PROVE Stopping'
  OBVIOUS
<1>0. TypeOK'
  BY StepWellFormed
<1> USE DEF TypeOK
<1>1. ASSUME UNCHANGED <<relay, lost>>,
             \A e \in Events : /\ row'[e].attempts = row[e].attempts
                               /\ row'[e].attempts = 0 \/ row'[e].status = row[e].status
                               /\ row[e].status = "pending" => row'[e].status = "pending"
      PROVE  Stopping'
  <2>1. PendingWhileClaimed' /\ IdleHoldsNothing'
    BY <1>1 DEF Stopping, PendingWhileClaimed, IdleHoldsNothing, Holds
  <2>2. ASSUME NEW e \in Events, row'[e].attempts = 0 PROVE FitsOf(e)'
    BY <2>2, LimitsAssumption DEF FitsOf, Fits
  <2>3. ASSUME NEW e \in Events, row'[e].attempts = row[e].attempts,
               row'[e].status = row[e].status
        PROVE  FitsOf(e)'
    BY <1>1, <2>3, SameHolders DEF Stopping, HasCounted, Holds
  <2> QED
    BY <1>1, <2>1, <2>2, <2>3 DEF Stopping
<1>2. ASSUME NEW e \in Events, Emit(e) PROVE Stopping'
  <2>1. \A f \in Events : /\ row'[f].attempts = row[f].attempts
                          /\ row'[f].attempts = 0 \/ row'[f].status = row[f].status
                          /\ row[f].status = "pending" => row'[f].status = "pending"
    BY <1>2 DEF Emit, Recorded, Accounting, AbsentIsUntried, Row
  <2> QED
    BY <1>1, <1>2, <2>1 DEF Emit
<1>3. ASSUME NEW e \in Events, BackoffElapses(e) PROVE Stopping'
  <2>1. \A f \in Events : /\ row'[f].attempts = row[f].attempts
                          /\ row'[f].status = row[f].status
    BY <1>3 DEF BackoffElapses, Row
  <2> QED
    BY <1>1, <1>3, <2>1 DEF BackoffElapses
<1>4. ASSUME NEW p \in Endpoints, RemoveEndpoint(p) PROVE Stopping'
  BY <1>1, <1>4 DEF RemoveEndpoint
<1>5. ASSUME UNCHANGED vars PROVE Stopping'
  BY <1>1, <1>5 DEF vars
<1>6. ASSUME NEW r \in Relays, UNCHANGED <<row, lost>>,
             relay' = [relay EXCEPT ![r] = relay'[r]],
             relay'[r].pc # "idle", relay[r].pc # "claiming" <=> relay'[r].pc # "claiming",
             relay'[r].claim = relay[r].claim
      PROVE  Stopping'
  <2>1. \A s \in Relays : /\ relay'[s].claim = relay[s].claim
                          /\ relay'[s].pc = "claiming" <=> relay[s].pc = "claiming"
                          /\ relay'[s].pc = "idle" => relay[s].pc = "idle"
    BY <1>6
  <2>2. PendingWhileClaimed' /\ IdleHoldsNothing'
    BY <1>6, <2>1 DEF Stopping, PendingWhileClaimed, IdleHoldsNothing, Holds
  <2>3. \A e \in Events : FitsOf(e)'
    BY <1>6, <2>1, SameHolders DEF Stopping, HasCounted, Holds
  <2> QED
    BY <2>2, <2>3 DEF Stopping
<1>7. ASSUME NEW r \in Relays, FetchEndpoints(r) PROVE Stopping'
  <2>1. /\ relay[r].pc = "fetch" /\ relay' = [relay EXCEPT ![r] = relay'[r]]
        /\ relay'[r].pc \in {"settle", "post"} /\ relay'[r].claim = relay[r].claim
    BY <1>7 DEF FetchEndpoints, Relay
  <2> QED
    BY <1>6, <1>7, <2>1 DEF FetchEndpoints
<1>8. ASSUME NEW r \in Relays, Post(r) PROVE Stopping'
  <2>1. /\ relay[r].pc = "post" /\ relay' = [relay EXCEPT ![r] = relay'[r]]
        /\ relay'[r].pc = "log" /\ relay'[r].claim = relay[r].claim
    BY <1>8 DEF Post, Relay
  <2> QED
    BY <1>6, <1>8, <2>1 DEF Post
<1>9. ASSUME NEW r \in Relays, LockRows(r) PROVE Stopping'
  <2>1. PICK batch \in SUBSET Claimable :
          relay' = [relay EXCEPT ![r] =
                      [Idle EXCEPT !.pc = "claiming",
                                   !.claim = [e \in Events |-> IF e \in batch
                                                               THEN row[e].attempts + 1
                                                               ELSE 0]]]
    BY <1>9 DEF LockRows
  <2>2. /\ relay[r].pc = "idle" /\ relay'[r].pc = "claiming" /\ UNCHANGED <<row, lost>>
        /\ \A e \in Events : relay'[r].claim[e] > 0 => row[e].status = "pending"
        /\ \A s \in Relays : s # r => relay'[s] = relay[s]
    BY <1>9, <2>1 DEF LockRows, Idle, Claimable
  <2>3. PendingWhileClaimed' /\ IdleHoldsNothing'
    BY <2>2 DEF Stopping, PendingWhileClaimed, IdleHoldsNothing, Holds
  <2>4. \A s \in Relays, e \in Events :
          /\ HasCounted(s, e)' <=> HasCounted(s, e)
          /\ HasCounted(s, e) => relay'[s].claim[e] = relay[s].claim[e]
    BY <2>2 DEF Stopping, IdleHoldsNothing, HasCounted, Holds
  <2>5. \A e \in Events : FitsOf(e)'
    BY <2>2, <2>4, SameHolders DEF Stopping
  <2> QED
    BY <2>3, <2>5 DEF Stopping
<1>10. ASSUME NEW r \in Relays, CommitClaim(r) PROVE Stopping'
  <2>1. /\ relay[r].pc = "claiming" /\ lost' = lost
        /\ relay' = [relay EXCEPT ![r] = [relay[r] EXCEPT !.pc = "fetch"]]
        /\ \A e \in Events : /\ row'[e].status = row[e].status
                              /\ row'[e].attempts = IF Holds(r, e) THEN row[e].attempts + 1
                                                    ELSE row[e].attempts
    BY <1>10 DEF CommitClaim, Row
  <2>2. \A s \in Relays : /\ relay'[s].claim = relay[s].claim
                          /\ relay'[s].pc = IF s = r THEN "fetch" ELSE relay[s].pc
    BY <2>1 DEF Relay
  <2>3. PendingWhileClaimed' /\ IdleHoldsNothing'
    BY <2>1, <2>2 DEF Stopping, PendingWhileClaimed, IdleHoldsNothing, Holds
  <2>4. ASSUME NEW e \in Events, Holds(r, e) PROVE FitsOf(e)'
    <3>1. row[e].status = "pending"
      BY <2>1, <2>4 DEF Stopping, PendingWhileClaimed
    <3> QED
      BY <1>0, <2>1, <2>4, <3>1, OneHolderMore DEF Stopping
  <2>5. ASSUME NEW e \in Events, ~ Holds(r, e) PROVE FitsOf(e)'
    BY <2>1, <2>2, <2>5, SameHolders DEF Stopping, HasCounted, Holds
  <2> QED
    BY <2>3, <2>4, <2>5 DEF Stopping
<1>11. ASSUME NEW r \in Relays, relay' = [relay EXCEPT ![r] = Idle], row' = row,
              \/ relay[r].pc = "claiming" /\ lost' = lost
              \/ /\ relay[r].pc # "claiming"
                 /\ lost' = [e \in Events |-> IF Holds(r, e) THEN lost[e] + 1 ELSE lost[e]]
       PROVE  Stopping'
  <2>1. /\ relay' = [relay EXCEPT ![r] = relay'[r]] /\ relay'[r].pc = "idle"
        /\ \A e \in Events : ~ (relay'[r].claim[e] > 0)
    BY <1>11 DEF Idle
  <2>2. PendingWhileClaimed' /\ IdleHoldsNothing'
    BY <1>11, <2>1 DEF Stopping, PendingWhileClaimed, IdleHoldsNothing, Holds
  <2>3. ASSUME NEW e \in Events, HasCounted(r, e) PROVE FitsOf(e)'
    <3>1. lost'[e] = lost[e] + 1
      BY <1>11, <2>3 DEF HasCounted
    <3>2. ~ HasCounted(r, e)'
      BY <2>1 DEF HasCounted, Holds
    <3> QED
      BY <1>0, <1>11, <2>1, <2>3, <3>1, <3>2, OneHolderFewer DEF Stopping
  <2>4. ASSUME NEW e \in Events, ~ HasCounted(r, e) PROVE FitsOf(e)'
    <3>1. lost'[e] = lost[e]
      BY <1>11, <2>4 DEF HasCounted
    <3>2. \A s \in Relays : /\ HasCounted(s, e)' <=> HasCounted(s, e)
                            /\ HasCounted(s, e) => relay'[s].claim[e] = relay[s].claim[e]
      BY <2>1, <2>4 DEF HasCounted, Holds
    <3> QED
      BY <1>11, <3>1, <3>2, SameHolders DEF Stopping
  <2> QED
    BY <2>2, <2>3, <2>4 DEF Stopping
<1>12. ASSUME NEW r \in Relays, Crash(r) PROVE Stopping'
  BY <1>11, <1>12 DEF Crash, GiveUp
<1>13. ASSUME NEW r \in Relays, LogDelivery(r) PROVE Stopping'
  <2>1. CASE Log(r)
    <3>1. /\ relay[r].pc = "log" /\ relay' = [relay EXCEPT ![r] = relay'[r]]
          /\ relay'[r].pc \in {"settle", "post"} /\ relay'[r].claim = relay[r].claim
          /\ UNCHANGED <<row, lost>>
      BY <1>13, <2>1 DEF LogDelivery, Log, Relay
    <3> QED
      BY <1>6, <3>1
  <2>2. CASE GiveUp(r)
    BY <1>11, <1>13, <2>2 DEF LogDelivery, GiveUp
  <2> QED
    BY <1>13, <2>1, <2>2 DEF LogDelivery
<1>14. ASSUME NEW r \in Relays, Settle(r) PROVE Stopping'
  <2>0. PICK e \in Events : e = relay[r].event
    BY <1>14 DEF Settle, Placed, Busy
  <2> DEFINE rest == [relay[r].claim EXCEPT ![e] = 0]
  <2>1. /\ relay[r].pc = "settle" /\ ~ Locked(e) /\ lost' = lost
        /\ row' = [row EXCEPT ![e].status = Verdict(r),
                              ![e].due = @ /\ Verdict(r) # "pending"]
        /\ relay' = [relay EXCEPT ![r] = IF rest = Idle.claim THEN Idle
                                         ELSE [Idle EXCEPT !.pc = "fetch", !.claim = rest]]
    BY <1>14, <2>0 DEF Settle
  <2>2. Holds(r, e) /\ relay[r] \in Relay
    BY <2>0, <2>1 DEF Placed, Busy
  <2>3. \A f \in Events : /\ row'[f].attempts = row[f].attempts
                          /\ f # e => row'[f].status = row[f].status
    BY <2>1, <2>2 DEF Row
  <2>4. row'[e].status = Verdict(r)
    BY <2>1, <2>2 DEF Row
  <2>5. /\ relay' = [relay EXCEPT ![r] = relay'[r]] /\ relay'[r].pc # "claiming"
        /\ \A f \in Events : f # e => relay'[r].claim[f] = relay[r].claim[f]
        /\ relay'[r].claim[e] = 0
        /\ relay'[r].pc = "idle" => \A f \in Events : relay'[r].claim[f] = 0
    BY <2>1, <2>2 DEF Idle, Relay
  <2>6. PendingWhileClaimed' /\ IdleHoldsNothing'
    BY <2>1, <2>2, <2>3, <2>5 DEF Stopping, PendingWhileClaimed, IdleHoldsNothing, Holds, Locked
  <2>7. FitsOf(e)'
    <3>1. HasCounted(r, e) /\ ~ HasCounted(r, e)'
      BY <2>1, <2>2, <2>5 DEF HasCounted, Holds
    <3>2. relay[r].claim[e] >= MaxAttempts => row'[e].status # "pending"
      BY <2>0, <2>4 DEF Verdict, Attempt
    <3> QED
      BY <1>0, <2>1, <2>2, <2>3, <2>5, <3>1, <3>2, OneHolderFewer DEF Stopping
  <2>8. ASSUME NEW f \in Events, f # e PROVE FitsOf(f)'
    <3>1. \A s \in Relays : /\ HasCounted(s, f)' <=> HasCounted(s, f)
                            /\ HasCounted(s, f) => relay'[s].claim[f] = relay[s].claim[f]
      BY <2>1, <2>5, <2>8 DEF HasCounted, Holds
    <3> QED
      BY <2>1, <2>3, <2>8, <3>1, SameHolders DEF Stopping
  <2> QED
    BY <2>6, <2>7, <2>8 DEF Stopping
<1> QED
  BY <1>2, <1>3, <1>4, <1>5, <1>7, <1>8, <1>9, <1>10, <1>12, <1>13, <1>14 DEF Next, RelayStep

(***************************************************************************)
(* However many executions overlap, an event whose endpoints never answer  *)
(* well is claimed a bounded number of times beyond WEBHOOK_MAX_ATTEMPTS.  *)
(***************************************************************************)
THEOREM AttemptsStayBounded == Spec => []AttemptsAreBounded
<1>1. Init => TypeOK /\ Placed /\ Accounting /\ Stopping
  BY InitWellFormed, InitAccounting, InitStopping
<1>2. TypeOK /\ Placed /\ Accounting /\ Stopping /\ [Next]_vars
        => (TypeOK /\ Placed /\ Accounting /\ Stopping)'
  BY StepWellFormed, StepAccounting, StepStopping
<1>3. TypeOK /\ Stopping => AttemptsAreBounded
  <2> SUFFICES ASSUME TypeOK, Stopping, NEW e \in Events
               PROVE  row[e].attempts <= MaxAttempts
                        + ((Cardinality(Relays) - 1) * (Cardinality(Relays) + 2)) \div 2
                        + lost[e]
    BY DEF AttemptsAreBounded
  <2>1. /\ row[e].attempts \in Nat /\ lost[e] \in Nat
        /\ MaxAttempts \in Nat /\ MaxAttempts > 0
    BY LimitsAssumption DEF TypeOK, Row
  <2>2. Fits(row[e].attempts, row[e].status = "pending", Cardinality(Below(e)),
             Cardinality(Above(e)), lost[e], Cardinality(Relays), MaxAttempts)
    BY DEF Stopping, FitsOf
  <2> QED
    BY <2>1, <2>2, HoldersAreCounted, FitsIsBounded
<1> QED
  BY <1>1, <1>2, <1>3, PTL DEF Spec

-----------------------------------------------------------------------------
(***************************************************************************)
(* The relay implements EventDelivery: only who subscribes is asked, and   *)
(* each transaction is one step of the promise or none.                    *)
(***************************************************************************)
AsksSubscribers ==
    \A r \in Relays : relay[r].pc \in Busy => relay[r].todo \subseteq Subscribed[relay[r].event]

LEMMA StepAsks == TypeOK /\ Placed /\ AsksSubscribers /\ [Next]_vars => AsksSubscribers'
<1> SUFFICES ASSUME TypeOK, Placed, AsksSubscribers, [Next]_vars PROVE AsksSubscribers'
  OBVIOUS
<1> USE DEF TypeOK
<1>1. ASSUME UNCHANGED relay PROVE AsksSubscribers'
  BY <1>1 DEF AsksSubscribers
<1>2. ASSUME NEW r \in Relays, NEW new, relay' = [relay EXCEPT ![r] = new],
             \/ new.pc \notin Busy
             \/ /\ relay[r].pc \in Busy
                /\ new.event = relay[r].event /\ new.todo \subseteq relay[r].todo
             \/ new.todo \subseteq Matching(new.event)
      PROVE  AsksSubscribers'
  <2>1. relay'[r] = new /\ \A s \in Relays : s # r => relay'[s] = relay[s]
    BY <1>2
  <2>2. new.pc \in Busy => new.todo \subseteq Subscribed[new.event]
    BY <1>2 DEF AsksSubscribers, Matching
  <2> QED
    BY <2>1, <2>2 DEF AsksSubscribers
<1>3. Idle.pc \notin Busy
  BY DEF Idle, Busy
<1>4. ASSUME NEW r \in Relays, relay' = [relay EXCEPT ![r] = Idle] PROVE AsksSubscribers'
  BY <1>2, <1>3, <1>4
<1>5. ASSUME NEW r \in Relays, LockRows(r) PROVE AsksSubscribers'
  <2>1. PICK claim : relay' = [relay EXCEPT ![r] = [Idle EXCEPT !.pc = "claiming", !.claim = claim]]
    BY <1>5 DEF LockRows
  <2>2. [Idle EXCEPT !.pc = "claiming", !.claim = claim].pc \notin Busy
    BY DEF Idle, Busy
  <2> QED
    BY <1>2, <2>1, <2>2
<1>6. ASSUME NEW r \in Relays, CommitClaim(r) PROVE AsksSubscribers'
  <2>1. relay' = [relay EXCEPT ![r] = [relay[r] EXCEPT !.pc = "fetch"]]
    BY <1>6 DEF CommitClaim
  <2>2. [relay[r] EXCEPT !.pc = "fetch"].pc \notin Busy
    BY DEF Relay, Busy
  <2> QED
    BY <1>2, <2>1, <2>2
<1>7. ASSUME NEW r \in Relays, FetchEndpoints(r) PROVE AsksSubscribers'
  <2>1. PICK e \in Events, c \in {"settle", "post"} :
          relay' = [relay EXCEPT ![r] =
                      [relay[r] EXCEPT !.pc = c, !.event = e, !.todo = Matching(e), !.allOk = TRUE]]
    BY <1>7 DEF FetchEndpoints
  <2> DEFINE new == [relay[r] EXCEPT !.pc = c, !.event = e, !.todo = Matching(e), !.allOk = TRUE]
  <2>2. new.event = e /\ new.todo = Matching(e)
    BY DEF Relay
  <2>3. relay' = [relay EXCEPT ![r] = new]
    BY <2>1
  <2> HIDE DEF new
  <2> QED
    BY <1>2, <2>2, <2>3
<1>8. ASSUME NEW r \in Relays, Post(r) PROVE AsksSubscribers'
  <2>1. PICK p \in relay[r].todo, ok \in BOOLEAN :
          relay' = [relay EXCEPT ![r] =
                      [relay[r] EXCEPT !.pc = "log", !.asked = p, !.ok = ok,
                                       !.allOk = relay[r].allOk /\ ok]]
    BY <1>8 DEF Post
  <2> DEFINE new == [relay[r] EXCEPT !.pc = "log", !.asked = p, !.ok = ok,
                                     !.allOk = relay[r].allOk /\ ok]
  <2>2. new.event = relay[r].event /\ new.todo = relay[r].todo /\ relay[r].pc \in Busy
    BY <1>8 DEF Relay, Post, Busy
  <2>3. relay' = [relay EXCEPT ![r] = new]
    BY <2>1
  <2> HIDE DEF new
  <2> QED
    BY <1>2, <2>2, <2>3
<1>9. ASSUME NEW r \in Relays, LogDelivery(r) PROVE AsksSubscribers'
  <2>1. CASE Log(r)
    <3> DEFINE c == IF relay[r].todo = {relay[r].asked} THEN "settle" ELSE "post"
               left == relay[r].todo \ {relay[r].asked}
               new == [relay[r] EXCEPT !.pc = c, !.todo = left, !.asked = NoEndpoint, !.ok = TRUE]
    <3>1. relay' = [relay EXCEPT ![r] = new]
      BY <2>1 DEF Log
    <3>2. new.event = relay[r].event /\ new.todo \subseteq relay[r].todo /\ relay[r].pc \in Busy
      <4>1. new.event = relay[r].event /\ new.todo = left
        BY DEF Relay
      <4> QED
        BY <1>9, <4>1 DEF LogDelivery, Busy
    <3> HIDE DEF new
    <3> QED
      BY <1>2, <3>1, <3>2
  <2>2. CASE GiveUp(r)
    BY <1>4, <2>2 DEF GiveUp
  <2> QED
    BY <1>9, <2>1, <2>2 DEF LogDelivery
<1>10. ASSUME NEW r \in Relays, Settle(r) PROVE AsksSubscribers'
  <2>1. PICK rest : \/ relay' = [relay EXCEPT ![r] = Idle]
                    \/ relay' = [relay EXCEPT ![r] = [Idle EXCEPT !.pc = "fetch", !.claim = rest]]
    BY <1>10 DEF Settle
  <2>2. [Idle EXCEPT !.pc = "fetch", !.claim = rest].pc \notin Busy
    BY DEF Idle, Busy
  <2> QED
    BY <1>2, <1>4, <2>1, <2>2
<1>11. ASSUME NEW r \in Relays, Crash(r) PROVE AsksSubscribers'
  BY <1>4, <1>11 DEF Crash, GiveUp
<1>12. CASE UNCHANGED vars
  BY <1>1, <1>12 DEF vars
<1>13. ASSUME NEW e \in Events, Emit(e) \/ BackoffElapses(e) PROVE AsksSubscribers'
  BY <1>1, <1>13 DEF Emit, BackoffElapses
<1>14. ASSUME NEW p \in Endpoints, RemoveEndpoint(p) PROVE AsksSubscribers'
  BY <1>1, <1>14 DEF RemoveEndpoint
<1> QED
  BY <1>5, <1>6, <1>7, <1>8, <1>9, <1>10, <1>11, <1>12, <1>13, <1>14 DEF Next, RelayStep

(* What the promise sees of the tables.                                    *)
Tries == [e \in Events |-> row[e].attempts]
Told == {<<d.event, d.endpoint>> : d \in {x \in deliveries : x.ok}}

LEMMA EmitRecords ==
    ASSUME TypeOK, Accounting, NEW e \in Events, Emit(e)
    PROVE  Promise!Record(e)
<1>1. row' = [row EXCEPT ![e] = [status |-> "pending", attempts |-> 0, due |-> TRUE,
                                 createdAt |-> Cardinality(Recorded)]]
      /\ UNCHANGED <<live, deliveries>>
  BY DEF Emit
<1>2. /\ row'[e].status = "pending" /\ row'[e].attempts = 0
      /\ \A f \in Events : f # e => row'[f] = row[f]
  BY <1>1 DEF TypeOK
<1>3. row[e].attempts = 0
  BY DEF Emit, Recorded, Accounting, AbsentIsUntried
<1>4. Recorded' = Recorded \cup {e}
  BY <1>2 DEF Recorded
<1>5. Tries' = Tries
  BY <1>2, <1>3 DEF Tries
<1> QED
  BY <1>1, <1>4, <1>5 DEF Promise!Record, Tries

LEMMA CommitTries ==
    ASSUME TypeOK, Accounting, NEW r \in Relays, CommitClaim(r)
    PROVE  \E batch \in SUBSET Events : Promise!Try(batch)
<1>0. PICK batch \in SUBSET Events : batch = {e \in Events : Holds(r, e)}
  OBVIOUS
<1>1. /\ UNCHANGED <<live, deliveries>>
      /\ \A e \in Events :
            /\ row'[e].attempts = row[e].attempts + IF e \in batch THEN 1 ELSE 0
            /\ row'[e].status = row[e].status
  BY <1>0 DEF CommitClaim, TypeOK, Row
<1>2. batch \subseteq Recorded
  BY <1>0 DEF Recorded, Accounting, AbsentIsUntried
<1>3. Recorded' = Recorded
  BY <1>1 DEF Recorded
<1>4. Tries' = [e \in Events |-> Tries[e] + IF e \in batch THEN 1 ELSE 0]
  BY <1>1 DEF Tries
<1>5. Promise!Try(batch)
  <2>1. [e \in Events |-> row[e].attempts]' =
          [e \in Events |-> [f \in Events |-> row[f].attempts][e] + IF e \in batch THEN 1 ELSE 0]
    BY <1>4 DEF Tries
  <2> QED
    BY <1>1, <1>2, <1>3, <2>1 DEF Promise!Try
<1> QED
  BY <1>5

(* A delivery row with a good answer tells the endpoint; one with a bad    *)
(* answer is nothing to the promise.                                       *)
LEMMA LogTells ==
    ASSUME TypeOK, Placed, Accounting, AsksSubscribers, NEW r \in Relays, LogDelivery(r)
    PROVE  \/ \E e \in Events, p \in Endpoints : Promise!Tell(e, p)
           \/ UNCHANGED Promise!promise
<1>1. UNCHANGED <<row, live>>
  BY DEF LogDelivery
<1>2. Recorded' = Recorded /\ Tries' = Tries
  BY <1>1 DEF Recorded, Tries
<1>3. CASE UNCHANGED deliveries
  BY <1>1, <1>2, <1>3 DEF Promise!promise, Tries
<1>4. CASE Log(r)
  <2>1. PICK e \in Events, p \in Endpoints :
          /\ e = relay[r].event /\ p = relay[r].asked /\ Holds(r, e)
          /\ p \in live /\ p \in relay[r].todo
    BY <1>4 DEF LogDelivery, Log, Placed, Busy, TypeOK
  <2> DEFINE d == [event |-> e, endpoint |-> p, attempt |-> Attempt(r), ok |-> relay[r].ok]
  <2>2. deliveries' = deliveries \cup {d}
    BY <1>4, <2>1 DEF Log
  <2>3. e \in Recorded /\ p \in Subscribed[e] \cap live
    BY <2>1 DEF Recorded, Accounting, AbsentIsUntried, AsksSubscribers, LogDelivery, Busy
  <2>4. Tries[e] > 0
    <3>1. relay[r].pc # "claiming" /\ row[e].attempts \in Nat /\ relay[r].claim[e] \in Nat
      BY DEF LogDelivery, TypeOK, Row, Relay
    <3>2. relay[r].claim[e] > 0 /\ relay[r].claim[e] <= row[e].attempts
      BY <2>1, <3>1 DEF Accounting, ClaimsAreCounted, Holds
    <3> QED
      BY <3>1, <3>2 DEF Tries
  <2>5. d.event = e /\ d.endpoint = p /\ d.ok = relay[r].ok
    OBVIOUS
  <2> HIDE DEF d
  <2>6. CASE relay[r].ok
    <3>1. Told' = Told \cup {<<e, p>>}
      BY <2>2, <2>5, <2>6 DEF Told
    <3>2. Promise!Tell(e, p)
      BY <1>1, <1>2, <2>3, <2>4, <3>1 DEF Promise!Tell, Tries, Told
    <3> QED
      BY <3>2
  <2>7. CASE ~ relay[r].ok
    <3>1. Told' = Told
      BY <2>2, <2>5, <2>7 DEF Told
    <3> QED
      BY <1>1, <1>2, <3>1 DEF Promise!promise, Tries, Told
  <2> QED
    BY <2>6, <2>7
<1> QED
  BY <1>3, <1>4 DEF LogDelivery

LEMMA StepKeepsPromise ==
    TypeOK /\ Placed /\ Accounting /\ AsksSubscribers /\ [Next]_vars
        => [Promise!Next]_(Promise!promise)
<1> SUFFICES ASSUME TypeOK, Placed, Accounting, AsksSubscribers, [Next]_vars
             PROVE  Promise!Next \/ UNCHANGED Promise!promise
  OBVIOUS
<1>1. ASSUME UNCHANGED <<live, deliveries>>,
             \A e \in Events : /\ row'[e].attempts = row[e].attempts
                               /\ row'[e].status = "absent" <=> row[e].status = "absent"
      PROVE  UNCHANGED Promise!promise
  <2>1. Recorded' = Recorded
    BY <1>1 DEF Recorded
  <2>2. Tries' = Tries
    BY <1>1 DEF Tries
  <2> QED
    BY <1>1, <2>1, <2>2 DEF Promise!promise, Tries
<1>2. ASSUME NEW r \in Relays, Settle(r) PROVE UNCHANGED Promise!promise
  <2>1. PICK e \in Events :
          /\ e = relay[r].event /\ Holds(r, e)
          /\ row' = [row EXCEPT ![e].status = Verdict(r),
                                ![e].due = @ /\ Verdict(r) # "pending"]
    BY <1>2 DEF Settle, Placed, Busy
  <2>2. Verdict(r) # "absent" /\ row[e].status # "absent"
    BY <2>1 DEF Verdict, Accounting, AbsentIsUntried
  <2>3. \A f \in Events : /\ row'[f].attempts = row[f].attempts
                          /\ row'[f].status = IF f = e THEN Verdict(r) ELSE row[f].status
    BY <2>1 DEF TypeOK, Row
  <2> QED
    BY <1>1, <1>2, <2>2, <2>3 DEF Settle
<1>3. ASSUME NEW p \in Endpoints, RemoveEndpoint(p) PROVE Promise!Remove(p)
  <2>1. Told' = {t \in Told : t[2] # p}
    BY <1>3 DEF RemoveEndpoint, Told
  <2>2. UNCHANGED row /\ live' = live \ {p}
    BY <1>3 DEF RemoveEndpoint
  <2> QED
    BY <2>1, <2>2 DEF Promise!Remove, Told, Recorded
<1>4. ASSUME NEW r \in Relays,
             LockRows(r) \/ FetchEndpoints(r) \/ Post(r) \/ Crash(r)
      PROVE  UNCHANGED Promise!promise
  BY <1>1, <1>4 DEF LockRows, FetchEndpoints, Post, Crash
<1>5. ASSUME NEW e \in Events, BackoffElapses(e) PROVE UNCHANGED Promise!promise
  <2>1. \A f \in Events : row'[f].attempts = row[f].attempts /\ row'[f].status = row[f].status
    BY <1>5 DEF BackoffElapses, TypeOK, Row
  <2> QED
    BY <1>1, <1>5, <2>1 DEF BackoffElapses
<1>6. CASE UNCHANGED vars
  BY <1>1, <1>6 DEF vars
<1>7. ASSUME NEW e \in Events, Emit(e) PROVE Promise!Next
  BY <1>7, EmitRecords DEF Promise!Next
<1>8. ASSUME NEW r \in Relays, CommitClaim(r) PROVE Promise!Next
  BY <1>8, CommitTries DEF Promise!Next
<1>9. ASSUME NEW r \in Relays, LogDelivery(r) PROVE Promise!Next \/ UNCHANGED Promise!promise
  BY <1>9, LogTells DEF Promise!Next
<1>10. ASSUME NEW p \in Endpoints, RemoveEndpoint(p) PROVE Promise!Next
  BY <1>3, <1>10 DEF Promise!Next
<1> QED
  BY <1>2, <1>4, <1>5, <1>6, <1>7, <1>8, <1>9, <1>10 DEF Next, RelayStep

(***************************************************************************)
(* The relay keeps what EventDelivery says may never happen: no recorded   *)
(* event is withdrawn, and an endpoint counts as told only of an event     *)
(* that was recorded and taken up, to which it subscribes and while it     *)
(* exists, however the executions overlap, fail and are killed.            *)
(***************************************************************************)
THEOREM ImplementsPromise == Spec => Promise!Safety
<1>1. Init => Promise!Init /\ AsksSubscribers
  BY DEF Init, Promise!Init, Recorded, AsksSubscribers, Busy, Idle
<1>2. Init => TypeOK /\ Placed /\ Accounting
  BY InitWellFormed, InitAccounting
<1>3. TypeOK /\ Placed /\ Accounting /\ AsksSubscribers /\ [Next]_vars
        => (TypeOK /\ Placed /\ Accounting /\ AsksSubscribers)'
  BY StepWellFormed, StepAccounting, StepAsks
<1> QED
  BY <1>1, <1>2, <1>3, StepKeepsPromise, PTL DEF Spec, Promise!Safety
=============================================================================
