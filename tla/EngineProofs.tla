---------------------------- MODULE EngineProofs ----------------------------
(***************************************************************************)
(* Theorems about the engine, from both of its sides.  First the processes *)
(* that call it, EngineOutage: the types of the variables of both clients, *)
(* and that a breaker which closed after an outage starts from a clean     *)
(* count.  Then one check, Analysis: what its judge may spend, in which    *)
(* order it is asked, which rules are in force, and that what nobody       *)
(* decided does not move the score, for any ceiling, prices, samples,      *)
(* packs, rules and weights.                                               *)
(***************************************************************************)
EXTENDS Analysis, EngineOutage, TLAPS, FiniteSetTheorems, WellFoundedInduction

(* What every operation of the breaker keeps.                              *)
Clean(b) == b.state = "closed" => b.failures < ApiFailureThreshold

LEMMA CurrentKeeps ==
    ASSUME NEW b \in Api!Breaker, Clean(b)
    PROVE  /\ Api!Current(b) \in Api!Breaker
           /\ Clean(Api!Current(b))
  <1>1. 0 \in 0..ApiSuccessThreshold
    BY ThresholdAssumption
  <1>2. CASE b.state = "open" /\ b.age = ApiCooldown
    <2>1. Api!Current(b) = [b EXCEPT !.state = "half_open", !.successes = 0]
      BY <1>2 DEF Api!Current
    <2>2. [b EXCEPT !.state = "half_open", !.successes = 0] \in Api!Breaker
      BY <1>1 DEF Api!Breaker
    <2>3. Api!Current(b).state = "half_open"
      BY <2>1 DEF Api!Breaker
    <2> QED
      BY <2>1, <2>2, <2>3 DEF Clean
  <1>3. CASE ~ (b.state = "open" /\ b.age = ApiCooldown)
    BY <1>3 DEF Api!Current
  <1> QED
    BY <1>2, <1>3

LEMMA TripKeeps ==
    ASSUME NEW b \in Api!Breaker
    PROVE  Api!Trip(b) \in Api!Breaker /\ Clean(Api!Trip(b))
  <1>1. 0 \in 0..ApiSuccessThreshold /\ 0 \in 0..ApiCooldown
    BY ThresholdAssumption, CooldownAssumption
  <1>2. Api!Trip(b) \in Api!Breaker
    BY <1>1 DEF Api!Breaker, Api!Trip
  <1>3. Api!Trip(b).state = "open"
    BY DEF Api!Breaker, Api!Trip
  <1> QED
    BY <1>2, <1>3 DEF Clean

LEMMA CountSuccessKeeps ==
    ASSUME NEW b \in Api!Breaker, Clean(b)
    PROVE  /\ Api!CountSuccess(b) \in Api!Breaker
           /\ Clean(Api!CountSuccess(b))
  <1>1. 0 \in 0..ApiSuccessThreshold /\ 0 \in 0..ApiFailureThreshold
    BY ThresholdAssumption
  <1>2. CASE b.successes + 1 >= ApiSuccessThreshold
    <2> DEFINE c == [b EXCEPT !.state = "closed", !.failures = 0, !.successes = 0]
    <2>1. c \in Api!Breaker
      BY <1>1 DEF Api!Breaker
    <2>2. c.failures = 0
      BY DEF Api!Breaker
    <2> QED
      BY <1>2, <2>1, <2>2, ThresholdAssumption DEF Clean, Api!CountSuccess
  <1>3. CASE ~ (b.successes + 1 >= ApiSuccessThreshold)
    <2> DEFINE c == [b EXCEPT !.successes = @ + 1]
    <2>1. b.successes + 1 \in 0..ApiSuccessThreshold
      BY <1>3, ThresholdAssumption DEF Api!Breaker
    <2>2. c \in Api!Breaker /\ c.state = b.state /\ c.failures = b.failures
      BY <2>1 DEF Api!Breaker
    <2> QED
      BY <1>3, <2>2 DEF Clean, Api!CountSuccess
  <1> QED
    BY <1>2, <1>3

(* Two successes, or as many as it takes, close the breaker and clear the  *)
(* failures that opened it.                                                *)
LEMMA RecordSuccessKeeps ==
    ASSUME NEW b \in Api!Breaker, Clean(b)
    PROVE  /\ Api!RecordSuccess(b) \in Api!Breaker
           /\ Clean(Api!RecordSuccess(b))
  <1> DEFINE now == Api!Current(b)
  <1>1. now \in Api!Breaker /\ Clean(now)
    BY CurrentKeeps
  <1> HIDE DEF now
  <1>2. CASE now.state = "half_open"
    BY <1>1, <1>2, CountSuccessKeeps DEF now, Api!RecordSuccess
  <1>3. CASE now.state # "half_open"
    <2>1. /\ [now EXCEPT !.failures = 0] \in Api!Breaker
          /\ Clean([now EXCEPT !.failures = 0])
      BY <1>1, ThresholdAssumption DEF Clean, Api!Breaker
    <2> QED
      BY <2>1, <1>3 DEF now, Api!RecordSuccess
  <1> QED
    BY <1>2, <1>3

LEMMA CountFailureKeeps ==
    ASSUME NEW b \in Api!Breaker, Clean(b)
    PROVE  /\ Api!CountFailure(b) \in Api!Breaker
           /\ Clean(Api!CountFailure(b))
  <1>1. CASE b.failures + 1 >= ApiFailureThreshold
    <2>1. [b EXCEPT !.failures = ApiFailureThreshold] \in Api!Breaker
      BY ThresholdAssumption DEF Api!Breaker
    <2> QED
      BY <2>1, <1>1, TripKeeps DEF Api!CountFailure
  <1>2. CASE ~ (b.failures + 1 >= ApiFailureThreshold)
    BY <1>2, ThresholdAssumption DEF Clean, Api!Breaker, Api!CountFailure
  <1> QED
    BY <1>1, <1>2

LEMMA RecordFailureKeeps ==
    ASSUME NEW b \in Api!Breaker, Clean(b)
    PROVE  /\ Api!RecordFailure(b) \in Api!Breaker
           /\ Clean(Api!RecordFailure(b))
  BY CurrentKeeps, TripKeeps, CountFailureKeeps DEF Api!RecordFailure

(* The worker's catch clause keeps the count below the threshold.          *)
LEMMA WorkerCountKeeps ==
    ASSUME NEW n \in 0..(WorkerFailureThreshold - 1), wait \in 0..WorkerCooldown,
           Worker!CountFailure(n)
    PROVE  failures' \in 0..(WorkerFailureThreshold - 1) /\ wait' \in 0..WorkerCooldown
  BY ThresholdAssumption, CooldownAssumption DEF Worker!CountFailure

-----------------------------------------------------------------------------
Watched == ClientTypesOK /\ Clean(breaker)

LEMMA InitWatched == OutageInit => Watched
  BY ThresholdAssumption, CooldownAssumption
  DEF OutageInit, Watched, Clean, ClientTypesOK, Api!Init,
      Api!TypeOK, Api!Breaker, Api!Call, Api!NoCall,
      Worker!Init, Worker!TypeOK, Worker!Call,
      Worker!NoCall

(* A step of the API's client.                                             *)
LEMMA ApiKeeps ==
    ASSUME Api!TypeOK, Clean(breaker), Api!Next
    PROVE  Api!TypeOK' /\ Clean(breaker)'
  <1>1. /\ up \in BOOLEAN
        /\ breaker \in Api!Breaker
        /\ apiCall \in [ApiCalls -> Api!Call]
    BY DEF Api!TypeOK
  <1>2. up' = up
    BY DEF Api!Next, Api!Attempt, Api!Start, Api!Respond,
           Api!ReadBody, Api!Fail, Api!Retry, Api!Snapshot,
           Api!Tick
  <1>3. ASSUME NEW n \in Nat
        PROVE  Api!Send(n) \in Api!Call
    BY <1>1 DEF Api!Send, Api!Call
  <1>4. apiCall' \in [ApiCalls -> Api!Call]
    <2>1. ASSUME NEW c \in ApiCalls, Api!Start(c)
          PROVE  apiCall' \in [ApiCalls -> Api!Call]
      BY <1>1, <1>3, <2>1, RetriesAssumption DEF Api!Start
    <2>2. ASSUME NEW c \in ApiCalls, Api!Respond(c)
          PROVE  apiCall' \in [ApiCalls -> Api!Call]
      BY <1>1, <2>2 DEF Api!Respond, Api!Call
    <2>3. ASSUME NEW c \in ApiCalls, Api!ReadBody(c)
          PROVE  apiCall' \in [ApiCalls -> Api!Call]
      BY <1>1, <2>3 DEF Api!ReadBody, Api!NoCall, Api!Call
    <2>4. ASSUME NEW c \in ApiCalls, Api!Fail(c)
          PROVE  apiCall' \in [ApiCalls -> Api!Call]
      BY <1>1, <2>4 DEF Api!Fail, Api!NoCall, Api!Call
    <2>5. ASSUME NEW c \in ApiCalls, Api!Retry(c)
          PROVE  apiCall' \in [ApiCalls -> Api!Call]
      <3>1. apiCall[c].left \in Nat
        BY <1>1 DEF Api!Call
      <3> QED
        BY <1>1, <1>3, <2>5, <3>1 DEF Api!Retry
    <2> QED
      BY <1>1, <2>1, <2>2, <2>3, <2>4, <2>5
      DEF Api!Next, Api!Attempt, Api!Snapshot, Api!Tick
  <1>5. breaker' \in Api!Breaker /\ Clean(breaker')
    <2>1. ASSUME Api!Tick
          PROVE  breaker' \in Api!Breaker /\ Clean(breaker')
      BY <1>1, <2>1, CooldownAssumption DEF Api!Tick, Api!Breaker, Clean
    <2> QED
      BY <1>1, <2>1, CurrentKeeps, RecordSuccessKeeps, RecordFailureKeeps
      DEF Api!Next, Api!Attempt, Api!Start, Api!Respond,
          Api!ReadBody, Api!Fail, Api!Retry, Api!Snapshot
  <1> QED
    BY <1>1, <1>2, <1>4, <1>5 DEF Api!TypeOK, Clean

(* A step of the worker's client.                                          *)
LEMMA WorkerKeeps ==
    ASSUME Worker!TypeOK, Worker!Next
    PROVE  Worker!TypeOK'
  <1>1. /\ up \in BOOLEAN
        /\ failures \in 0..(WorkerFailureThreshold - 1)
        /\ wait \in 0..WorkerCooldown
        /\ job \in [WorkerCalls -> Worker!Call]
    BY DEF Worker!TypeOK
  <1>2. up' = up
    BY DEF Worker!Next, Worker!Attempt, Worker!Start,
           Worker!Respond, Worker!ReadBody, Worker!Fail,
           Worker!Reject, Worker!Retry, Worker!Tick
  <1>3. 0 \in 0..(WorkerFailureThreshold - 1)
    BY ThresholdAssumption
  <1>4. ASSUME NEW n \in Nat
        PROVE  Worker!Send(n) \in Worker!Call
    BY <1>1 DEF Worker!Send, Worker!Call
  <1>5. ASSUME NEW c \in WorkerCalls, Worker!TryAgain(c)
        PROVE  job' \in [WorkerCalls -> Worker!Call]
    BY <1>1, <1>5 DEF Worker!TryAgain, Worker!NoCall, Worker!Call
  <1>6. job' \in [WorkerCalls -> Worker!Call]
    <2>1. ASSUME NEW c \in WorkerCalls, Worker!Start(c)
          PROVE  job' \in [WorkerCalls -> Worker!Call]
      BY <1>1, <1>4, <2>1, RetriesAssumption DEF Worker!Start
    <2>2. ASSUME NEW c \in WorkerCalls, Worker!Respond(c)
          PROVE  job' \in [WorkerCalls -> Worker!Call]
      BY <1>1, <2>2 DEF Worker!Respond, Worker!Call
    <2>4. ASSUME NEW c \in WorkerCalls, Worker!ReadBody(c)
          PROVE  job' \in [WorkerCalls -> Worker!Call]
      BY <1>1, <2>4 DEF Worker!ReadBody, Worker!NoCall, Worker!Call
    <2>3. ASSUME NEW c \in WorkerCalls, Worker!Retry(c)
          PROVE  job' \in [WorkerCalls -> Worker!Call]
      <3>1. job[c].left \in Nat
        BY <1>1 DEF Worker!Call
      <3> QED
        BY <1>1, <1>4, <2>3, <3>1 DEF Worker!Retry
    <2> QED
      BY <1>1, <1>5, <2>1, <2>2, <2>3, <2>4
      DEF Worker!Next, Worker!Attempt, Worker!Fail,
          Worker!Reject, Worker!Tick
  <1>7. failures' \in 0..(WorkerFailureThreshold - 1) /\ wait' \in 0..WorkerCooldown
    <2>1. ASSUME Worker!Tick
          PROVE  failures' \in 0..(WorkerFailureThreshold - 1) /\ wait' \in 0..WorkerCooldown
      BY <1>1, <2>1, CooldownAssumption DEF Worker!Tick
    <2> QED
      BY <1>1, <1>3, <2>1, WorkerCountKeeps
      DEF Worker!Next, Worker!Attempt, Worker!Start,
          Worker!Respond, Worker!ReadBody, Worker!Fail,
          Worker!Reject, Worker!Retry
  <1> QED
    BY <1>1, <1>2, <1>6, <1>7 DEF Worker!TypeOK

LEMMA NextWatched == Watched /\ [OutageNext]_outageVars => Watched'
  <1> SUFFICES ASSUME Watched, [OutageNext]_outageVars PROVE Watched'
    OBVIOUS
  <1>1. CASE UNCHANGED outageVars
    BY <1>1 DEF Watched, Clean, outageVars, api, worker,
                ClientTypesOK, Api!TypeOK, Worker!TypeOK
  <1>2. CASE Turn
    BY <1>2 DEF Turn, Watched, Clean, api, worker,
                ClientTypesOK, Api!TypeOK, Worker!TypeOK
  <1>3. CASE Api!Next /\ UNCHANGED worker
    <2>1. Api!TypeOK' /\ Clean(breaker)'
      BY <1>3, ApiKeeps DEF Watched, ClientTypesOK
    <2> QED
      BY <1>3, <2>1 DEF Watched, ClientTypesOK, worker,
                        Api!TypeOK, Worker!TypeOK
  <1>4. CASE Worker!Next /\ UNCHANGED api
    <2>1. Worker!TypeOK'
      BY <1>4, WorkerKeeps DEF Watched, ClientTypesOK
    <2> QED
      BY <1>4, <2>1 DEF Watched, ClientTypesOK, Clean, api,
                        Api!TypeOK, Worker!TypeOK
  <1> QED
    BY <1>1, <1>2, <1>3, <1>4
    DEF OutageNext, ApiStart, ApiSnapshot, ApiTick,
        ApiAttempt, WorkerStart, WorkerTick, WorkerAttempt,
        Api!Next, Worker!Next

LEMMA StaysWatched == OutageSpec => []Watched
  BY InitWatched, NextWatched, PTL DEF OutageSpec

(* Type correctness of both clients, for any number of requests, retries   *)
(* and any thresholds.                                                     *)
THEOREM ClientTypes == OutageSpec => []ClientTypesOK
  <1>1. Watched => ClientTypesOK
    BY DEF Watched
  <1> QED
    BY StaysWatched, <1>1, PTL

(* A closed breaker of the API is always short of its threshold, whichever *)
(* requests of an earlier outage report to it and when.                    *)
THEOREM ForgetsOutages == OutageSpec => []ClosedIsClean
  <1>1. Watched => ClosedIsClean
    BY DEF Watched, Clean, ClosedIsClean, Api!ClosedIsClean
  <1> QED
    BY StaysWatched, <1>1, PTL

-----------------------------------------------------------------------------
(* The books: what the judge was paid is in the run's cost or in the cost  *)
(* of the open vote, whose allowance was all that was left when it opened. *)
Books ==
    /\ spent \in Nat /\ judged \in Nat
    /\ vote \in [allowance : Nat, cost : Nat, left : Nat, heard : Nat, escalated : BOOLEAN]
    /\ judging = {} => vote = NoVote
    /\ judged <= spent + vote.cost
    /\ vote.allowance = 0 \/ spent + vote.allowance <= Ceiling

Solvent == Books /\ OvershootIsOneCall

LEMMA NoVoteIsVote ==
    /\ NoVote \in [allowance : Nat, cost : Nat, left : Nat, heard : Nat, escalated : BOOLEAN]
    /\ NoVote.cost = 0 /\ NoVote.allowance = 0
  BY DEF NoVote

LEMMA InitSolvent == Init => Solvent
  BY NoVoteIsVote DEF Init, EngineInit, Solvent, Books, OvershootIsOneCall

(* Between two votes anything may be spent, since no allowance is open.    *)
LEMMA SpendingKeepsBooks ==
    ASSUME Solvent, vote = NoVote, NEW paid \in Nat, spent' = spent + paid,
           UNCHANGED <<judged, vote>>
    PROVE  Solvent'
  <1>1. vote.cost = 0 /\ vote.allowance = 0 /\ vote' = vote /\ judged' = judged
    BY NoVoteIsVote
  <1>2. spent \in Nat /\ judged \in Nat /\ judged <= spent
    BY <1>1 DEF Solvent, Books
  <1>3. spent + paid \in Nat /\ judged <= spent + paid + 0
    BY <1>2
  <1>4. Books'
    BY <1>1, <1>2, <1>3, NoVoteIsVote DEF Books
  <1> QED
    BY <1>1, <1>4 DEF Solvent, OvershootIsOneCall

LEMMA ReadPageSpends ==
    ASSUME Solvent, ReadPage
    PROVE  \E paid \in Nat : spent' = spent + paid
  <1>1. spent \in Nat /\ 0 \in Nat /\ spent = spent + 0
    BY DEF Solvent, Books
  <1> QED
    BY <1>1, BudgetAssumption DEF ReadPage

LEMMA OpenVoteKeepsBooks ==
    ASSUME NEW r, Solvent, judging = {}, OpenVote(r)
    PROVE  Solvent'
  <1>1. PICK now \in Nat : spent' = now /\ now >= spent
    <2>1. PICK paid \in Nat : spent' = spent + paid
      BY ReadPageSpends DEF OpenVote
    <2>2. spent \in Nat
      BY DEF Solvent, Books
    <2>3. spent + paid \in Nat /\ spent + paid >= spent
      BY <2>2
    <2> QED
      BY <2>1, <2>3
  <1> DEFINE rest == IF now < Ceiling THEN Ceiling - now ELSE 0
  <1>2. judged' = judged /\ judging' = {r}
    BY DEF OpenVote
  <1>3. rest \in Nat /\ (rest = 0 \/ now + rest <= Ceiling)
    BY BudgetAssumption
  <1>4. vote' = [allowance |-> rest, cost |-> 0, left |-> K, heard |-> 0, escalated |-> FALSE]
    BY <1>1 DEF OpenVote, NoVote, Remaining
  <1> HIDE DEF rest
  <1>5. judged \in Nat /\ spent \in Nat /\ judged <= spent + 0 /\ OvershootIsOneCall
    BY NoVoteIsVote DEF Solvent, Books
  <1>6. judged <= now + 0
    BY <1>1, <1>5
  <1>7. Books'
    BY <1>1, <1>2, <1>3, <1>4, <1>5, <1>6, BudgetAssumption DEF Books
  <1>8. OvershootIsOneCall'
    BY <1>2, <1>5 DEF OvershootIsOneCall
  <1> QED
    BY <1>7, <1>8 DEF Solvent

(* A call starts only below the allowance: this is what bounds the sum.    *)
LEMMA SampleKeepsBooks ==
    ASSUME Solvent, Sample
    PROVE  Solvent'
  <1>1. /\ vote.left \in Nat /\ vote.left > 0
        /\ vote.cost \in Nat /\ vote.heard \in Nat /\ vote.allowance \in Nat
        /\ spent \in Nat /\ judged \in Nat /\ judged <= spent + vote.cost
        /\ vote.allowance = 0 \/ spent + vote.allowance <= Ceiling
    BY DEF Solvent, Books, Sample
  <1>2. vote.left - 1 \in Nat
    BY <1>1
  <1>3. judging' # {} /\ spent' = spent /\ vote.cost < vote.allowance
    BY DEF Sample, Affordable
  <1>4. CASE UNCHANGED judged /\ vote' = [vote EXCEPT !.left = @ - 1]
    <2>1. /\ vote' \in [allowance : Nat, cost : Nat, left : Nat, heard : Nat, escalated : BOOLEAN]
          /\ vote'.cost = vote.cost /\ vote'.allowance = vote.allowance
      BY <1>2, <1>4 DEF Solvent, Books
    <2> QED
      BY <1>1, <1>3, <1>4, <2>1 DEF Solvent, Books, OvershootIsOneCall
  <1>5. ASSUME NEW price \in Prices, NEW parsed \in {0, 1},
               vote' = [vote EXCEPT !.left = @ - 1, !.cost = @ + price, !.heard = @ + parsed],
               judged' = judged + price
        PROVE  Solvent'
    <2>1. price \in Nat /\ Ceiling \in Nat
      BY BudgetAssumption
    <2>2. vote.cost + price \in Nat /\ vote.heard + parsed \in Nat
      BY <1>1, <2>1
    <2>3. /\ vote' \in [allowance : Nat, cost : Nat, left : Nat, heard : Nat, escalated : BOOLEAN]
          /\ vote'.cost = vote.cost + price /\ vote'.allowance = vote.allowance
      BY <1>2, <1>5, <2>2 DEF Solvent, Books
    <2>4. spent + vote.allowance <= Ceiling
      BY <1>1, <1>3
    <2>5. judged + price < Ceiling + price
      BY <1>1, <1>3, <2>1, <2>4
    <2>6. OvershootIsOneCall'
      BY <1>5, <2>5 DEF OvershootIsOneCall
    <2>7. judged + price \in Nat /\ judged + price <= spent + (vote.cost + price)
      BY <1>1, <2>1
    <2>8. Books'
      BY <1>1, <1>3, <1>5, <2>3, <2>4, <2>7 DEF Books
    <2> QED
      BY <2>6, <2>8 DEF Solvent
  <1> QED
    BY <1>4, <1>5 DEF Sample

LEMMA EscalateKeepsBooks ==
    ASSUME Solvent, Escalate
    PROVE  Solvent'
  <1>1. EscalateK - 1 \in Nat
    BY BudgetAssumption DEF Escalate
  <1>2. /\ vote' \in [allowance : Nat, cost : Nat, left : Nat, heard : Nat, escalated : BOOLEAN]
        /\ vote'.cost = vote.cost /\ vote'.allowance = vote.allowance
    BY <1>1 DEF Solvent, Books, Escalate
  <1>3. judging' # {} /\ spent' = spent /\ judged' = judged
    BY DEF Escalate, VoteIsOver, budget
  <1> QED
    BY <1>2, <1>3 DEF Solvent, Books, OvershootIsOneCall

LEMMA ConcludeKeepsBooks ==
    ASSUME NEW r, Solvent, Conclude(r)
    PROVE  Solvent'
  <1>1. spent' = spent + vote.cost /\ judged' = judged /\ vote' = NoVote /\ judging' = {}
    BY DEF Conclude
  <1> QED
    BY <1>1, NoVoteIsVote DEF Solvent, Books, OvershootIsOneCall

LEMMA StepSolvent == Solvent /\ [Next]_vars => Solvent'
  <1> SUFFICES ASSUME Solvent, [Next]_vars PROVE Solvent'
    OBVIOUS
  <1>1. CASE UNCHANGED <<spent, judged, judging, vote>>
    BY <1>1 DEF Solvent, Books, OvershootIsOneCall
  <1>2. ASSUME NEW r \in InTurn PROVE judging = {} /\ vote = NoVote
    BY <1>2 DEF InTurn, Solvent, Books
  <1>3. ASSUME NEW r \in InTurn, RunFree(r) \/ Unvoted(r) PROVE Solvent'
    <2>1. ReadPage /\ UNCHANGED <<judged, vote>>
      BY <1>3 DEF RunFree, Unvoted
    <2>2. PICK paid \in Nat : spent' = spent + paid
      BY <2>1, ReadPageSpends
    <2> QED
      BY <1>2, <2>1, <2>2, SpendingKeepsBooks
  <1>4. ASSUME NEW r \in InTurn, SkipOff(r) \/ SkipCeiling(r) PROVE Solvent'
    BY <1>1, <1>4 DEF SkipOff, SkipCeiling, budget
  <1>5. ASSUME NEW r \in InTurn, OpenVote(r) PROVE Solvent'
    BY <1>2, <1>5, OpenVoteKeepsBooks
  <1>6. CASE EngineStep
    BY <1>3, <1>4, <1>5, <1>6, SampleKeepsBooks, EscalateKeepsBooks, ConcludeKeepsBooks
    DEF EngineStep
  <1>7. CASE Resolve
    BY <1>1, <1>7 DEF Resolve, Begin, budget, engineVars
  <1>8. CASE Persist
    BY <1>1, <1>8 DEF Persist, budget, engineVars
  <1>9. CASE UNCHANGED vars
    BY <1>1, <1>9 DEF vars, budget, engineVars
  <1> QED
    BY <1>6, <1>7, <1>8, <1>9 DEF Next

(* Whatever the rules and the answers, the calls of the judge in a run     *)
(* overshoot the ceiling by less than the price of one call                *)
(* (budget_allows_t2, evaluate).                                           *)
THEOREM CeilingHolds == Spec => []OvershootIsOneCall
  <1>1. Solvent => OvershootIsOneCall
    BY DEF Solvent
  <1> QED
    BY <1>1, InitSolvent, StepSolvent, PTL DEF Spec
-----------------------------------------------------------------------------
(* The order of the answers.  The rule that is voted on comes before all   *)
(* that wait; so does, therefore, whatever was voted on before; and once   *)
(* the ceiling has turned a rule away, no vote is opened any more.         *)
InOrder ==
    /\ DOMAIN answer \subseteq rules
    /\ run.status = "queued" => rules = {} /\ judging = {} /\ run = Unscored
    /\ \A r \in judging :
            /\ judging = {r} /\ r \in Unanswered /\ ~off
            /\ \A q \in Unanswered \ {r} : Before(r, q)
    /\ \A q \in DOMAIN answer : answer[q].why = "judged" =>
            /\ \A r \in Unanswered : Before(q, r)
            /\ \A r \in DOMAIN answer : answer[r].why = "ceiling" => Before(q, r)
    /\ \A r \in DOMAIN answer : answer[r].why = "ceiling" => off

LEMMA InitInOrder == Init => InOrder
  BY DEF Init, EngineInit, InOrder, Unanswered

LEMMA GivingKeepsOrder ==
    ASSUME InOrder, NEW r \in Unanswered, \A q \in Unanswered \ {r} : Before(r, q),
           NEW a, Give(r, a), judging' = {}, UNCHANGED <<rules, run>>,
           off => off', a.why = "judged" => ~off, a.why = "ceiling" => off'
    PROVE  InOrder'
  <1>1. /\ DOMAIN answer' = DOMAIN answer \cup {r}
        /\ answer'[r] = a
        /\ \A q \in DOMAIN answer : answer'[q] = answer[q]
    BY DEF Give, Unanswered
  <1>2. Unanswered' = Unanswered \ {r} /\ DOMAIN answer' \subseteq rules'
    BY <1>1 DEF Unanswered, InOrder
  <1>3. ASSUME NEW q \in DOMAIN answer', answer'[q].why = "judged"
        PROVE  /\ \A u \in Unanswered' : Before(q, u)
               /\ \A u \in DOMAIN answer' : answer'[u].why = "ceiling" => Before(q, u)
    <2>1. CASE q = r
      <3>1. ~off /\ \A u \in DOMAIN answer : answer[u].why # "ceiling"
        BY <1>1, <1>3, <2>1 DEF InOrder
      <3> QED
        BY <1>1, <1>2, <1>3, <2>1, <3>1
    <2>2. CASE q # r
      BY <1>1, <1>2, <1>3, <2>2 DEF InOrder
    <2> QED
      BY <2>1, <2>2
  <1>4. \A u \in DOMAIN answer' : answer'[u].why = "ceiling" => off'
    BY <1>1 DEF InOrder
  <1>5. run'.status = "queued" => rules' = {} /\ judging' = {} /\ run' = Unscored
    BY DEF InOrder
  <1> QED
    BY <1>2, <1>3, <1>4, <1>5 DEF InOrder

LEMMA WhyIsTold ==
    ASSUME NEW verdict, NEW severity, NEW cost, NEW why
    PROVE  Answer(verdict, severity, cost, why).why = why
  BY DEF Answer

(* Rules are resolved once, and the engine begins with those out of scope. *)
LEMMA ResolveKeepsOrder == InOrder /\ Resolve => InOrder'
  <1> SUFFICES ASSUME InOrder, Resolve PROVE InOrder'
    OBVIOUS
  <1>1. run = Unscored /\ rules = {} /\ judging = {}
    BY DEF Resolve, InOrder
  <1>2. /\ [run EXCEPT !.status = "completed"].status = "completed"
        /\ [run EXCEPT !.status = "running"].status = "running"
    BY <1>1 DEF Unscored
  <1>3. CASE run' = [run EXCEPT !.status = "completed"] /\ UNCHANGED <<request, engineVars>>
    <2>1. UNCHANGED <<rules, answer, judging, off>> /\ run'.status # "queued"
      BY <1>2, <1>3 DEF request, engineVars
    <2> QED
      BY <2>1 DEF InOrder, Unanswered
  <1>4. ASSUME NEW resolved, run' = [run EXCEPT !.status = "running"],
               Begin(resolved, \A r \in resolved : r.tier = "deterministic")
        PROVE  InOrder'
    <2>1. DOMAIN answer' \subseteq rules' /\ judging' = {} /\ run'.status # "queued"
      BY <1>1, <1>2, <1>4 DEF Begin
    <2>2. \A r \in DOMAIN answer' : answer'[r].why = "scope"
      BY <1>4, WhyIsTold DEF Begin
    <2> QED
      BY <2>1, <2>2 DEF InOrder
  <1> QED
    BY <1>3, <1>4 DEF Resolve

LEMMA EngineKeepsOrder == InOrder /\ EngineStep /\ UNCHANGED run => InOrder'
  <1> SUFFICES ASSUME InOrder, EngineStep, run' = run PROVE InOrder'
    OBVIOUS
  <1>1. ASSUME NEW r \in InTurn
        PROVE  r \in Unanswered /\ judging = {} /\ \A q \in Unanswered \ {r} : Before(r, q)
    BY <1>1 DEF InTurn
  <1>2. ASSUME NEW r \in InTurn, RunFree(r) \/ SkipOff(r) \/ Unvoted(r) PROVE InOrder'
    <2>1. UNCHANGED <<rules, judging, off>>
      BY <1>2 DEF RunFree, SkipOff, Unvoted, request
    <2>2. PICK verdict, why : /\ Give(r, Answer(verdict, r.severity, 0, why))
                              /\ why \in {"measured", "off"}
      BY <1>2 DEF RunFree, SkipOff, Unvoted
    <2> QED
      BY <1>1, <1>2, <2>1, <2>2, WhyIsTold, GivingKeepsOrder
  <1>3. ASSUME NEW r \in InTurn, SkipCeiling(r) PROVE InOrder'
    <2>1. UNCHANGED <<rules, judging>> /\ off'
      BY <1>3 DEF SkipCeiling, request
    <2>2. Give(r, Answer("insufficient_evidence", r.severity, 0, "ceiling"))
      BY <1>3 DEF SkipCeiling
    <2> QED
      BY <1>1, <1>3, <2>1, <2>2, WhyIsTold, GivingKeepsOrder
  <1>4. ASSUME NEW r \in InTurn, OpenVote(r) PROVE InOrder'
    <2>1. UNCHANGED <<rules, answer, off>> /\ judging' = {r} /\ ~off
      BY <1>4 DEF OpenVote, request
    <2>2. Unanswered' = Unanswered
      BY <2>1 DEF Unanswered
    <2>3. run.status # "queued"
      BY <1>1, <1>4 DEF InOrder, Unanswered
    <2> QED
      BY <1>1, <1>4, <2>1, <2>2, <2>3 DEF InOrder
  <1>5. CASE Sample \/ Escalate
    <2>1. UNCHANGED <<rules, answer, off, judging>>
      BY <1>5 DEF Sample, Escalate, request
    <2> QED
      BY <2>1 DEF InOrder, Unanswered
  <1>6. ASSUME NEW r \in judging, Conclude(r) PROVE InOrder'
    <2>1. r \in Unanswered /\ ~off /\ \A q \in Unanswered \ {r} : Before(r, q)
      BY <1>6 DEF InOrder
    <2>2. UNCHANGED <<rules, off>> /\ judging' = {}
      BY <1>6 DEF Conclude, request
    <2>3. PICK verdict, severity : Give(r, Answer(verdict, severity, vote.cost, "judged"))
      BY <1>6 DEF Conclude
    <2> QED
      BY <1>6, <2>1, <2>2, <2>3, WhyIsTold, GivingKeepsOrder
  <1> QED
    BY <1>2, <1>3, <1>4, <1>5, <1>6 DEF EngineStep

LEMMA StepInOrder == InOrder /\ [Next]_vars => InOrder'
  <1> SUFFICES ASSUME InOrder, [Next]_vars PROVE InOrder'
    OBVIOUS
  <1>1. CASE Persist
    <2>1. UNCHANGED <<rules, answer, off, judging>> /\ run'.status # "queued"
      BY <1>1 DEF Persist, request, engineVars
    <2> QED
      BY <2>1 DEF InOrder, Unanswered
  <1>2. CASE UNCHANGED vars
    BY <1>2 DEF vars, request, engineVars, InOrder, Unanswered
  <1> QED
    BY <1>1, <1>2, ResolveKeepsOrder, EngineKeepsOrder DEF Next

(* What the order of two rules of the brand says about their severities.   *)
LEMMA BeforeIsSevere ==
    ASSUME NEW q \in Rows, NEW r \in Rows, Before(q, r)
    PROVE  /\ (~r.overall /\ EffectiveTier(q) = EffectiveTier(r))
                => SeverityRank[q.severity] <= SeverityRank[r.severity]
           /\ q.overall => r.overall
  <1>1. /\ SeverityRank[q.severity] \in Nat /\ SeverityRank[r.severity] \in Nat
        /\ q.overall \in BOOLEAN /\ r.overall \in BOOLEAN
    BY RulesAssumption DEF Severities, SeverityRank
  <1>2. \A u \in Rows : EffectiveTier(u) \in DOMAIN Rank
    BY RulesAssumption DEF EffectiveTier
  <1>3. \A tier \in DOMAIN Rank : Rank[tier] \in 0 .. 3
    BY DEF Rank
  <1>4. q.overall => EffectiveTier(q) = "vlm"
    <2>1. q.tier \in DOMAIN Rank /\ (q.overall => q.fn = "vlm")
      BY RulesAssumption
    <2>2. ~(Rank[q.tier] > Rank["vlm"])
      BY <2>1 DEF Rank
    <2> QED
      BY <2>1, <2>2 DEF EffectiveTier
  <1>5. Rank["vlm"] = 3
    BY DEF Rank
  <1>6. Rank[EffectiveTier(q)] \in 0 .. 3 /\ Rank[EffectiveTier(r)] \in 0 .. 3
    BY <1>2, <1>3
  <1>7. (~r.overall /\ EffectiveTier(q) = EffectiveTier(r))
            => SeverityRank[q.severity] <= SeverityRank[r.severity]
    BY <1>1, <1>6 DEF Before
  <1>8. ASSUME q.overall, ~r.overall PROVE FALSE
    <2>1. ~(Rank[EffectiveTier(q)] < Rank[EffectiveTier(r)])
      BY <1>4, <1>5, <1>6, <1>8
    <2>2. q.overall = r.overall
      BY <1>8, <2>1, Zenon DEF Before
    <2> QED
      BY <1>8, <2>2
  <1> QED
    BY <1>7, <1>8

-----------------------------------------------------------------------------
LEMMA LeastOf ==
    ASSUME NEW S \in SUBSET Nat, S # {}
    PROVE  \E m \in S : \A k \in S : m <= k
  <1>1. PICK m \in S : \A k \in S : <<k, m>> \notin OpToRel(<, Nat)
    BY NatLessThanWellFounded, WFMin, Zenon
  <1>2. \A k \in S : ~ (k < m)
    BY <1>1, Zenon DEF OpToRel
  <1>3. m \in Nat /\ \A k \in S : k \in Nat
    OBVIOUS
  <1> QED
    BY <1>2, <1>3

-----------------------------------------------------------------------------
(* Specificity: the weight of an axis exceeds all broader ones together.   *)
LEMMA SpecificityIsNat ==
    ASSUME NEW scope
    PROVE  Specificity(scope) \in Nat
  BY DEF Specificity, Weight

LEMMA NarrowerIsMoreSpecific ==
    ASSUME NEW a, NEW b, Narrower(a, b)
    PROVE  Specificity(a) > Specificity(b)
  <1> DEFINE A == Constrained(a)
             B == Constrained(b)
  <1>1. PICK axis \in A \ B : \A other \in B \ A : AxisDepth[other] < AxisDepth[axis]
    BY DEF Narrower
  <1>2. axis \in Axes /\ A \subseteq Axes /\ B \subseteq Axes
    BY DEF Constrained
  <1>3. \A other \in Axes :
            (other \in B /\ AxisDepth[axis] <= AxisDepth[other]) => other \in A
    <2>1. \A other \in Axes : AxisDepth[other] \in Nat
      BY DEF Axes, AxisDepth
    <2> QED
      BY <1>1, <1>2, <2>1
  <1> HIDE DEF A, B
  <1>4. \/ axis = "subBrands"
        \/ axis = "markets"
        \/ axis = "channels"
        \/ axis = "assetTypes"
        \/ axis = "campaigns"
    BY <1>2 DEF Axes
  <1>5. /\ AxisDepth["subBrands"] = 1 /\ AxisDepth["markets"] = 2
        /\ AxisDepth["channels"] = 3 /\ AxisDepth["assetTypes"] = 4
        /\ AxisDepth["campaigns"] = 5
    BY DEF AxisDepth
  <1>6. /\ Weight("subBrands") = 1 /\ Weight("markets") = 10
        /\ Weight("channels") = 100 /\ Weight("assetTypes") = 1000
        /\ Weight("campaigns") = 10000
    BY DEF Weight
  <1>7. /\ AxisDepth[axis] <= 1 => ("subBrands" \in B => "subBrands" \in A)
        /\ AxisDepth[axis] <= 2 => ("markets" \in B => "markets" \in A)
        /\ AxisDepth[axis] <= 3 => ("channels" \in B => "channels" \in A)
        /\ AxisDepth[axis] <= 4 => ("assetTypes" \in B => "assetTypes" \in A)
        /\ AxisDepth[axis] <= 5 => ("campaigns" \in B => "campaigns" \in A)
    BY <1>3, <1>5 DEF Axes
  <1>8. axis \in A /\ axis \notin B
    BY <1>1
  <1> DEFINE PartA(x) == IF x \in A THEN Weight(x) ELSE 0
             PartB(x) == IF x \in B THEN Weight(x) ELSE 0
  <1>9. PartA("subBrands") + PartA("markets") + PartA("channels") + PartA("assetTypes")
            + PartA("campaigns")
          > PartB("subBrands") + PartB("markets") + PartB("channels") + PartB("assetTypes")
            + PartB("campaigns")
    BY <1>4, <1>5, <1>6, <1>7, <1>8
  <1> QED
    BY <1>9 DEF A, B, Specificity

LEMMA SameAxesSameSpecificity ==
    ASSUME NEW a, NEW b, Constrained(a) = Constrained(b)
    PROVE  Specificity(a) = Specificity(b)
  BY DEF Specificity

(* The comparison of rules is a strict order.                              *)
LEMMA BeatsIsOrder ==
    ASSUME NEW a \in Rows, NEW b \in Rows
    PROVE  /\ ~Beats(a, a)
           /\ \A c \in Rows : Beats(a, b) /\ Beats(b, c) => Beats(a, c)
  <1>1. \A r \in Rows : /\ Specificity(r.scope) \in Nat
                        /\ r.version \in Int /\ r.at \in Int
    BY RulesAssumption, SpecificityIsNat
  <1> QED
    BY <1>1 DEF Beats

-----------------------------------------------------------------------------
(* winners are what the rows of done are resolved to.                      *)
Sound(winners, done, a) ==
    /\ winners \subseteq done
    /\ \A w \in winners : ScopeMatches(w.scope, a)
    /\ \A w, v \in winners : w.key = v.key => w = v
    /\ \A q \in done : ScopeMatches(q.scope, a) =>
            \E w \in winners : w.key = q.key /\ (w = q \/ ~Beats(q, w))

LEMMA ConsiderKeepsSound ==
    ASSUME NEW done \in SUBSET Rows, NEW winners, NEW a, Sound(winners, done, a),
           NEW r \in Rows
    PROVE  Sound(Consider(winners, r, a), done \cup {r}, a)
  <1> DEFINE current == {w \in winners : w.key = r.key}
             next == Consider(winners, r, a)
  <1>1. CASE ScopeMatches(r.scope, a) /\ \A w \in current : Beats(r, w)
    <2>1. next = (winners \ current) \cup {r}
      BY <1>1 DEF Consider
    <2>2. ASSUME NEW q \in done \cup {r}, ScopeMatches(q.scope, a)
          PROVE  \E w \in next : w.key = q.key /\ (w = q \/ ~Beats(q, w))
      <3>1. CASE q = r
        BY <2>1, <3>1
      <3>2. CASE q # r
        <4>1. PICK w \in winners : w.key = q.key /\ (w = q \/ ~Beats(q, w))
          BY <2>2, <3>2 DEF Sound
        <4>2. CASE w \in current
          <5>1. Beats(r, w) /\ w.key = r.key /\ w \in Rows /\ q \in Rows
            BY <1>1, <2>2, <3>2, <4>1, <4>2 DEF Sound
          <5>2. ~Beats(q, r)
            <6>1. ASSUME Beats(q, r) PROVE FALSE
              <7>1. Beats(q, w)
                BY <5>1, <6>1, BeatsIsOrder
              <7>2. w = q
                BY <4>1, <7>1
              <7> QED
                BY <5>1, <7>1, <7>2, BeatsIsOrder
            <6> QED
              BY <6>1
          <5> QED
            BY <2>1, <4>1, <5>1, <5>2
        <4>3. CASE w \notin current
          BY <2>1, <4>1, <4>3
        <4> QED
          BY <4>2, <4>3
      <3> QED
        BY <3>1, <3>2
    <2>3. next \subseteq done \cup {r} /\ \A w \in next : ScopeMatches(w.scope, a)
      BY <1>1, <2>1 DEF Sound
    <2>4. \A w, v \in next : w.key = v.key => w = v
      BY <2>1 DEF Sound
    <2> QED
      BY <2>2, <2>3, <2>4 DEF Sound
  <1>2. CASE ~(ScopeMatches(r.scope, a) /\ \A w \in current : Beats(r, w))
    <2>1. next = winners
      BY <1>2 DEF Consider
    <2>2. ASSUME ScopeMatches(r.scope, a)
          PROVE  \E w \in winners : w.key = r.key /\ (w = r \/ ~Beats(r, w))
      BY <1>2, <2>2
    <2> QED
      BY <2>1, <2>2 DEF Sound
  <1> QED
    BY <1>1, <1>2

(* The recursion of ResolveByKey is well-founded: it has a solution for    *)
(* every number of rows.                                                   *)
Solves(w, n, seq, a) ==
    w = [i \in 0..n |-> IF i = 0 THEN {} ELSE Consider(w[i - 1], seq[i], a)]

LEMMA WinnersExist ==
    ASSUME NEW seq, NEW a, NEW n \in Nat
    PROVE  \E w : Solves(w, n, seq, a)
  <1> DEFINE Bad == {k \in Nat : ~ \E w : Solves(w, k, seq, a)}
  <1>1. SUFFICES ASSUME n \in Bad PROVE FALSE
    OBVIOUS
  <1>2. PICK m \in Bad : \A k \in Bad : m <= k
    <2> HIDE DEF Bad
    <2>1. Bad \in SUBSET Nat
      BY DEF Bad
    <2> QED
      BY <1>1, <2>1, LeastOf
  <1>3. m \in Nat /\ ~ \E w : Solves(w, m, seq, a)
    OBVIOUS
  <1>4. m # 0
    <2> DEFINE w == [i \in 0..0 |-> {}]
    <2>1. Solves(w, 0, seq, a)
      <3>1. \A i \in 0..0 : i = 0
        OBVIOUS
      <3> QED
        BY <3>1 DEF Solves
    <2> QED
      BY <1>3, <2>1
  <1>5. m - 1 \in Nat /\ m - 1 \notin Bad
    <2>1. m \in Nat
      OBVIOUS
    <2> HIDE DEF Bad
    <2> QED
      BY <2>1, <1>2, <1>4
  <1>6. PICK old : Solves(old, m - 1, seq, a)
    BY <1>5
  <1> DEFINE new == [i \in 0..m |-> IF i = m THEN Consider(old[m - 1], seq[m], a) ELSE old[i]]
  <1>7. Solves(new, m, seq, a)
    <2>1. ASSUME NEW i \in 0..m
          PROVE  new[i] = IF i = 0 THEN {} ELSE Consider(new[i - 1], seq[i], a)
      <3>1. CASE i = m
        BY <1>4, <1>5, <3>1
      <3>2. CASE i # m
        <4>1. i \in 0..(m - 1) /\ new[i] = old[i]
          BY <1>3, <3>2
        <4>2. i # 0 => i - 1 \in 0..m /\ i - 1 # m /\ new[i - 1] = old[i - 1]
          BY <1>3, <4>1
        <4>3. old[i] = IF i = 0 THEN {} ELSE Consider(old[i - 1], seq[i], a)
          BY <1>6, <4>1 DEF Solves
        <4> QED
          BY <4>1, <4>2, <4>3
      <3> QED
        BY <3>1, <3>2
    <2>2. new = [i \in 0..m |-> new[i]]
      OBVIOUS
    <2> HIDE DEF new
    <2> QED
      BY <2>1, <2>2 DEF Solves
  <1> QED
    BY <1>3, <1>7

LEMMA ResolveFolds ==
    ASSUME NEW seq, NEW a, Len(seq) \in Nat
    PROVE  \E w : /\ w[0] = {}
                  /\ \A i \in 1..Len(seq) : w[i] = Consider(w[i - 1], seq[i], a)
                  /\ ResolveByKey(seq, a) = w[Len(seq)]
  <1> DEFINE n == Len(seq)
             winners == CHOOSE w : Solves(w, n, seq, a)
  <1>1. Solves(winners, n, seq, a)
    BY WinnersExist
  <1>2. ResolveByKey(seq, a) = winners[n]
    BY DEF ResolveByKey, Solves
  <1> HIDE DEF winners
  <1>3. winners[0] = {} /\ \A i \in 1..n : winners[i] = Consider(winners[i - 1], seq[i], a)
    <2>1. n \in Nat
      OBVIOUS
    <2> HIDE DEF n
    <2>2. 0 \in 0..n /\ \A i \in 1..n : i \in 0..n /\ i # 0
      BY <2>1
    <2>3. \A i \in 0..n :
            winners[i] = IF i = 0 THEN {} ELSE Consider(winners[i - 1], seq[i], a)
      BY <1>1, Zenon DEF Solves
    <2> QED
      BY <2>2, <2>3, Zenon
  <1> QED
    BY <1>2, <1>3

LEMMA ResolveIsSound ==
    ASSUME NEW S \in SUBSET Rows, NEW a, NEW seq \in SetToSeqs(S)
    PROVE  Sound(ResolveByKey(seq, a), S, a)
  <1> DEFINE n == Cardinality(S)
             Done(k) == {seq[i] : i \in 1..k}
  <1>1. n \in Nat /\ IsFiniteSet(S)
    BY RowsAssumption, FS_Subset, FS_CardinalityType
  <1>2. seq \in [1..n -> S] /\ \A i, j \in 1..n : i # j => seq[i] # seq[j]
    BY DEF SetToSeqs
  <1>3. Len(seq) = n
    BY <1>1, <1>2
  <1>4. Done(n) = S
    <2>1. seq \in Injection(1..n, S)
      BY <1>2 DEF Injection, IsInjective
    <2>2. Cardinality(1..n) = n
      BY <1>1, FS_Interval
    <2>3. seq \in Surjection(1..n, S)
      BY <1>1, <2>1, <2>2, FS_Injection
    <2> QED
      BY <1>2, <2>3 DEF Surjection
  <1>5. PICK w : /\ w[0] = {}
                 /\ \A i \in 1..n : w[i] = Consider(w[i - 1], seq[i], a)
                 /\ ResolveByKey(seq, a) = w[n]
    BY <1>1, <1>3, ResolveFolds
  <1> DEFINE Bad == {k \in 0..n : ~Sound(w[k], Done(k), a)}
  <1>6. Bad = {}
    <2>1. SUFFICES ASSUME Bad # {} PROVE FALSE
      OBVIOUS
    <2>2. PICK m \in Bad : \A k \in Bad : m <= k
      <3>1. Bad \in SUBSET Nat
        BY <1>1
      <3> HIDE DEF Bad
      <3> QED
        BY <2>1, <3>1, LeastOf
    <2>3. m \in 0..n /\ ~Sound(w[m], Done(m), a)
      OBVIOUS
    <2>4. m # 0
      <3>1. Done(0) = {}
        OBVIOUS
      <3> HIDE DEF Done
      <3> QED
        BY <1>5, <2>3, <3>1 DEF Sound
    <2>5. m - 1 \in 0..n /\ m \in 1..n /\ m - 1 \notin Bad
      <3> HIDE DEF Bad, n
      <3> QED
        BY <1>1, <2>2, <2>3, <2>4
    <2>6. Sound(w[m - 1], Done(m - 1), a)
      BY <2>5
    <2>7. Done(m) = Done(m - 1) \cup {seq[m]}
      <3>1. 1..m = (1..(m - 1)) \cup {m}
        BY <2>5, <1>1
      <3> QED
        BY <3>1
    <2>8. Done(m - 1) \in SUBSET Rows /\ seq[m] \in Rows
      BY <1>1, <1>2, <2>5
    <2>9. w[m] = Consider(w[m - 1], seq[m], a)
      BY <1>5, <2>5
    <2> HIDE DEF Done
    <2> QED
      BY <2>3, <2>6, <2>7, <2>8, <2>9, ConsiderKeepsSound
  <1>7. n \in 0..n
    BY <1>1
  <1>8. Sound(w[n], Done(n), a)
    BY <1>6, <1>7, Zenon
  <1> HIDE DEF Done
  <1> QED
    BY <1>4, <1>5, <1>8

-----------------------------------------------------------------------------
(* One check, from the resolution of its rules to the answers: the rules   *)
(* of the request are what the snapshot is resolved to, and the engine     *)
(* answers for their scope what lies outside of it, and only that.         *)
Resolved ==
    /\ asset \in Assets /\ provider \in BOOLEAN /\ snapshot \subseteq Rows
    /\ rules = {} \/ Sound(rules, snapshot, asset)
    /\ answer \in [DOMAIN answer -> Answers]
    /\ \A r \in rules :
            (r \in DOMAIN answer /\ answer[r].why = "scope") <=> ~RuleInScope(r.scope, asset)
    /\ calls \in Nat /\ page \in {"unread", "read"}
    /\ off \in BOOLEAN /\ degraded \in BOOLEAN
    /\ run.status \in {"queued", "running", "completed", "degraded"}

Checked == Solvent /\ InOrder /\ Resolved

LEMMA RulesAreRows == Resolved => rules \subseteq snapshot /\ rules \subseteq Rows
  BY DEF Resolved, Sound

LEMMA InitResolved == Init => Resolved
  <1> SUFFICES ASSUME Init PROVE Resolved
    OBVIOUS
  <1>1. snapshot \subseteq Rows
    BY DEF Init, Compiled
  <1>2. answer = <<>> /\ DOMAIN answer = {} /\ answer \in [DOMAIN answer -> Answers]
    BY DEF Init, EngineInit
  <1>3. run.status = "queued"
    BY DEF Init, Unscored
  <1> QED
    BY <1>1, <1>2, <1>3 DEF Init, EngineInit, Resolved

LEMMA AnswerIsTyped ==
    ASSUME NEW verdict \in Verdicts, NEW severity \in Severities, NEW cost \in Nat,
           NEW why \in {"scope", "measured", "off", "ceiling", "judged"}
    PROVE  Answer(verdict, severity, cost, why) \in Answers
  BY DEF Answer, Answers

(* The first rows of a check: the fold of the control plane, the test of   *)
(* the engine.                                                             *)
LEMMA ResolveKeepsResolved == Checked /\ Resolve => Resolved'
  <1> SUFFICES ASSUME Checked, Resolve PROVE Resolved'
    OBVIOUS
  <1>1. run = Unscored /\ Resolved /\ snapshot' = snapshot
    BY DEF Resolve, Checked, InOrder
  <1>2. /\ [run EXCEPT !.status = "completed"].status = "completed"
        /\ [run EXCEPT !.status = "running"].status = "running"
    BY <1>1 DEF Unscored
  <1>3. CASE run' = [run EXCEPT !.status = "completed"] /\ UNCHANGED <<request, engineVars>>
    <2>1. /\ UNCHANGED <<asset, rules, provider, answer, calls, page, off, degraded>>
          /\ run'.status = "completed"
      BY <1>2, <1>3 DEF request, engineVars, budget
    <2> QED
      BY <1>1, <2>1 DEF Resolved
  <1>4. ASSUME NEW seq \in SetToSeqs(snapshot), run' = [run EXCEPT !.status = "running"],
               Begin(ResolveByKey(seq, asset),
                     \A r \in ResolveByKey(seq, asset) : r.tier = "deterministic")
        PROVE  Resolved'
    <2> DEFINE resolved == ResolveByKey(seq, asset)
               out == {q \in resolved : ~RuleInScope(q.scope, asset)}
    <2>1. Sound(resolved, snapshot, asset)
      BY <1>1, ResolveIsSound DEF Resolved
    <2> HIDE DEF resolved
    <2>2. /\ rules' = resolved /\ UNCHANGED <<asset, provider, calls, page>>
          /\ answer' = [r \in out |-> Answer("not_applicable", r.severity, 0, "scope")]
          /\ off' \in BOOLEAN /\ degraded' \in BOOLEAN
      BY <1>4 DEF Begin, budget, resolved
    <2>3. \A r \in out : r.severity \in Severities
      BY <1>1, <2>1, RulesAssumption DEF Resolved, Sound
    <2>4. \A r \in out : Answer("not_applicable", r.severity, 0, "scope") \in Answers
      BY <2>3, AnswerIsTyped DEF Verdicts
    <2>5. /\ answer' \in [DOMAIN answer' -> Answers]
          /\ \A r \in rules' :
                (r \in DOMAIN answer' /\ answer'[r].why = "scope") <=> ~RuleInScope(r.scope, asset)
      BY <2>2, <2>4 DEF Answer
    <2> QED
      BY <1>1, <1>2, <1>4, <2>1, <2>2, <2>5 DEF Resolved
  <1> QED
    BY <1>3, <1>4 DEF Resolve

(* A given answer has a type and, if it is not the first, no scope to      *)
(* blame.                                                                  *)
LEMMA GivingKeepsResolved ==
    ASSUME Resolved, NEW r \in Unanswered, NEW a \in Answers, a.why # "scope", Give(r, a),
           UNCHANGED <<request, snapshot, run, calls>>,
           page' \in {"unread", "read"}, off' \in BOOLEAN, degraded' \in BOOLEAN
    PROVE  Resolved'
  <1>1. /\ DOMAIN answer' = DOMAIN answer \cup {r}
        /\ answer'[r] = a
        /\ \A q \in DOMAIN answer : answer'[q] = answer[q]
    BY DEF Give, Unanswered
  <1>2. answer' \in [DOMAIN answer' -> Answers]
    <2>1. \A q \in DOMAIN answer' : answer'[q] \in Answers
      BY <1>1 DEF Resolved
    <2>2. answer' = [q \in DOMAIN answer' |-> answer'[q]]
      BY DEF Give
    <2> QED
      BY <2>1, <2>2
  <1>3. UNCHANGED <<asset, rules, provider>>
    BY DEF request
  <1> QED
    BY <1>1, <1>2, <1>3 DEF Resolved

LEMMA EngineKeepsResolved == Checked /\ EngineStep /\ UNCHANGED <<snapshot, run>> => Resolved'
  <1> SUFFICES ASSUME Checked, EngineStep, UNCHANGED <<snapshot, run>> PROVE Resolved'
    OBVIOUS
  <1>1. Resolved
    BY DEF Checked
  <1>2. \A r \in Unanswered : r.severity \in Severities
    BY <1>1, RulesAreRows, RulesAssumption DEF Unanswered
  <1>3. /\ off \in BOOLEAN /\ degraded \in BOOLEAN /\ page \in {"unread", "read"}
        /\ calls \in Nat /\ vote.cost \in Nat
    BY <1>1 DEF Resolved, Checked, Solvent, Books
  <1>4. ReadPage => page' \in {"unread", "read"}
    BY <1>3 DEF ReadPage
  <1>5. "insufficient_evidence" \in Verdicts /\ "pass" \in Verdicts
        /\ "not_applicable" \in Verdicts /\ "abstained" \in Verdicts /\ Says \subseteq Verdicts
        /\ Named \subseteq Severities
    BY BudgetAssumption DEF Verdicts
  <1>6. ASSUME NEW r \in InTurn, RunFree(r) \/ SkipOff(r) \/ Unvoted(r) \/ SkipCeiling(r)
        PROVE  Resolved'
    <2>1. r \in Unanswered
      BY DEF InTurn
    <2>2. PICK verdict \in Verdicts, why \in {"measured", "off", "ceiling"} :
                Give(r, Answer(verdict, r.severity, 0, why))
      BY <1>5, <1>6 DEF RunFree, SkipOff, Unvoted, SkipCeiling
    <2>3. Answer(verdict, r.severity, 0, why) \in Answers
      BY <1>2, <2>1, <2>2, AnswerIsTyped
    <2>4. Answer(verdict, r.severity, 0, why).why # "scope"
      BY <2>2, WhyIsTold
    <2>5. /\ UNCHANGED <<request, calls>> /\ page' \in {"unread", "read"}
          /\ off' \in BOOLEAN /\ degraded' \in BOOLEAN
      BY <1>3, <1>4, <1>6 DEF RunFree, SkipOff, Unvoted, SkipCeiling, budget
    <2> QED
      BY <1>1, <2>1, <2>2, <2>3, <2>4, <2>5, GivingKeepsResolved
  <1>7. ASSUME NEW r \in InTurn, OpenVote(r) PROVE Resolved'
    <2>1. /\ UNCHANGED <<asset, rules, provider, answer, calls, off, degraded>>
          /\ page' \in {"unread", "read"}
      BY <1>4, <1>7 DEF OpenVote, request
    <2> QED
      BY <1>1, <2>1 DEF Resolved
  <1>8. CASE Sample \/ Escalate
    <2>1. UNCHANGED <<asset, rules, provider, answer, page, off, degraded>>
      BY <1>8 DEF Sample, Escalate, request, budget
    <2>2. calls' = calls \/ calls' = calls + 1
      BY <1>8 DEF Sample, Escalate, budget
    <2>3. calls' \in Nat
      BY <1>3, <2>2
    <2> QED
      BY <1>1, <2>1, <2>3 DEF Resolved
  <1>9. ASSUME NEW r \in judging, Conclude(r) PROVE Resolved'
    <2>1. r \in Unanswered
      BY DEF Checked, InOrder
    <2>2. PICK verdict \in Verdicts, severity \in Severities :
                Give(r, Answer(verdict, severity, vote.cost, "judged"))
      <3>1. CASE vote.heard = 0
        BY <1>2, <1>5, <1>9, <2>1, <3>1 DEF Conclude
      <3>2. CASE vote.heard # 0
        <4>1. PICK majority \in Says, severity \in Named \cup {r.severity}, sure \in BOOLEAN :
                Give(r, Answer(IF sure \/ majority \notin {"pass", "fail"}
                               THEN majority ELSE "abstained",
                               severity, vote.cost, "judged"))
          BY <1>9, <3>2 DEF Conclude
        <4>2. severity \in Severities
          BY <1>2, <1>5, <2>1
        <4>3. (IF sure \/ majority \notin {"pass", "fail"}
               THEN majority ELSE "abstained") \in Verdicts
          BY <1>5
        <4> QED
          BY <4>1, <4>2, <4>3
      <3> QED
        BY <3>1, <3>2
    <2>3. /\ Answer(verdict, severity, vote.cost, "judged") \in Answers
          /\ Answer(verdict, severity, vote.cost, "judged").why # "scope"
      BY <1>3, AnswerIsTyped, WhyIsTold
    <2>4. UNCHANGED <<request, calls, page, off, degraded>>
      BY <1>9 DEF Conclude
    <2> QED
      BY <1>1, <1>3, <2>1, <2>2, <2>3, <2>4, GivingKeepsResolved
  <1> QED
    BY <1>6, <1>7, <1>8, <1>9 DEF EngineStep

LEMMA InitChecked == Init => Checked
  BY InitSolvent, InitInOrder, InitResolved DEF Checked

LEMMA StepChecked == Checked /\ [Next]_vars => Checked'
  <1> SUFFICES ASSUME Checked, [Next]_vars PROVE Checked'
    OBVIOUS
  <1>1. Solvent' /\ InOrder'
    BY StepSolvent, StepInOrder DEF Checked
  <1>2. CASE Persist
    <2>1. /\ UNCHANGED <<asset, rules, provider, answer, calls, page, off, degraded, snapshot>>
          /\ run'.status \in {"completed", "degraded"}
      BY <1>2 DEF Persist, request, engineVars, budget
    <2> QED
      BY <1>1, <2>1 DEF Checked, Resolved
  <1>3. CASE UNCHANGED vars
    <2>1. UNCHANGED <<asset, rules, provider, answer, calls, page, off, degraded, snapshot, run>>
      BY <1>3 DEF vars, request, engineVars, budget
    <2> QED
      BY <1>1, <2>1 DEF Checked, Resolved
  <1>4. Resolved'
    BY <1>1, <1>2, <1>3, ResolveKeepsResolved, EngineKeepsResolved DEF Next, Checked
  <1> QED
    BY <1>1, <1>4 DEF Checked

LEMMA StaysChecked == Spec => []Checked
  BY InitChecked, StepChecked, PTL DEF Spec

(* Type correctness of a check and of the run of the engine in it, for any *)
(* finite set of rules, any packs, prices and assets.                      *)
THEOREM CheckTypes == Spec => []TypeOK
  <1>1. Checked => TypeOK
    <2> SUFFICES ASSUME Checked PROVE TypeOK
      OBVIOUS
    <2>1. judging \subseteq Unanswered /\ DOMAIN answer \subseteq rules
      BY DEF Checked, InOrder
    <2>2. rules \subseteq snapshot
      BY RulesAreRows DEF Checked
    <2> QED
      BY <2>1, <2>2 DEF Checked, Solvent, Books, Resolved, TypeOK
  <1> QED
    BY <1>1, StaysChecked, PTL

(* Among the rules of one key the narrowest axis decides, then ownership,  *)
(* then the version (resolveByKey, compareRules), in whatever order the    *)
(* rows were read.                                                         *)
THEOREM ScopesDecide == Spec => []NarrowestAxisDecides
  <1>1. Checked => NarrowestAxisDecides
    <2> SUFFICES ASSUME Checked,
                        NEW w \in rules, NEW q \in snapshot \ {w},
                        q.key = w.key, ScopeMatches(q.scope, asset)
                 PROVE  /\ ~Narrower(q.scope, w.scope)
                        /\ Constrained(q.scope) = Constrained(w.scope) =>
                              /\ ~(q.pack = Own /\ w.pack # Own)
                              /\ (q.pack = Own) = (w.pack = Own) => q.version <= w.version
      BY DEF NarrowestAxisDecides
    <2>1. Sound(rules, snapshot, asset) /\ snapshot \subseteq Rows
      BY DEF Checked, Resolved
    <2>2. PICK v \in rules : v.key = q.key /\ (v = q \/ ~Beats(q, v))
      BY <2>1 DEF Sound
    <2>3. v = w
      BY <2>1, <2>2 DEF Sound
    <2>4. ~Beats(q, w)
      BY <2>2, <2>3
    <2>5. q \in Rows /\ w \in Rows
      BY <2>1 DEF Sound
    <2>6. q.version \in Int /\ w.version \in Int
      BY <2>5, RulesAssumption
    <2>7. ~(Specificity(q.scope) > Specificity(w.scope))
      BY <2>4 DEF Beats
    <2>8. ~Narrower(q.scope, w.scope)
      BY <2>7, NarrowerIsMoreSpecific
    <2>9. ASSUME Constrained(q.scope) = Constrained(w.scope)
          PROVE  /\ ~(q.pack = Own /\ w.pack # Own)
                 /\ (q.pack = Own) = (w.pack = Own) => q.version <= w.version
      <3>1. Specificity(q.scope) = Specificity(w.scope)
        BY <2>9, SameAxesSameSpecificity
      <3> QED
        BY <2>4, <2>6, <3>1 DEF Beats
    <2> QED
      BY <2>8, <2>9
  <1> QED
    BY <1>1, StaysChecked, PTL

(* Of the rules that were resolved, the engine turns away those that spell *)
(* "*" on an axis where the asset has a value (rule_in_scope), and no      *)
(* others.                                                                 *)
THEOREM WildcardsAreTurnedAway == Spec => []TurnedAwayForWildcards
  <1>1. Checked => TurnedAwayForWildcards
    <2> SUFFICES ASSUME Checked, NEW r \in DOMAIN answer
                 PROVE  answer[r].why = "scope" <=>
                            \E axis \in EngineAxes :
                                r.scope[axis] = {Wild} /\ asset[axis] \notin {Unset, Wild}
      BY DEF TurnedAwayForWildcards
    <2>1. r \in rules /\ (answer[r].why = "scope" <=> ~RuleInScope(r.scope, asset))
      BY DEF Checked, InOrder, Resolved
    <2>2. ScopeMatches(r.scope, asset)
      BY <2>1 DEF Checked, Resolved, Sound
    <2>3. ASSUME answer[r].why = "scope"
          PROVE  \E axis \in EngineAxes :
                    r.scope[axis] = {Wild} /\ asset[axis] \notin {Unset, Wild}
      <3>1. PICK axis \in EngineAxes : /\ r.scope[axis] # {} /\ asset[axis] # Unset
                                       /\ asset[axis] \notin r.scope[axis]
        BY <2>1, <2>3 DEF RuleInScope
      <3>2. axis \in Axes /\ axis \notin Constrained(r.scope)
        BY <2>2, <3>1 DEF ScopeMatches, EngineAxes, Axes
      <3>3. r.scope[axis] = {Wild}
        BY <3>1, <3>2 DEF Constrained, IsWildcard
      <3> QED
        BY <3>1, <3>3
    <2>4. ASSUME NEW axis \in EngineAxes, r.scope[axis] = {Wild}, asset[axis] \notin {Unset, Wild}
          PROVE  answer[r].why = "scope"
      BY <2>1, <2>4 DEF RuleInScope
    <2> QED
      BY <2>3, <2>4
  <1> QED
    BY <1>1, StaysChecked, PTL

(* The budget goes to the more severe (run_analysis), whatever is measured *)
(* and whatever votes cost.                                                *)
THEOREM SevereGoFirst == Spec => []SevereFirst
  <1>1. Checked => SevereFirst
    <2> SUFFICES ASSUME Checked PROVE SevereFirst
      OBVIOUS
    <2>0. InOrder /\ rules \subseteq Rows
      BY RulesAreRows DEF Checked
    <2>1. ASSUME NEW r \in DOMAIN answer, NEW q \in DOMAIN answer,
                 answer[r].why = "ceiling", answer[q].why = "judged", ~r.overall,
                 EffectiveTier(r) = EffectiveTier(q)
          PROVE  SeverityRank[q.severity] <= SeverityRank[r.severity]
      BY <2>0, <2>1, BeforeIsSevere DEF InOrder
    <2>2. ASSUME NEW r \in judging, r.overall, NEW q \in rules \ DOMAIN answer
          PROVE  q.overall
      BY <2>0, <2>2, BeforeIsSevere DEF InOrder, Unanswered
    <2> QED
      BY <2>1, <2>2 DEF SevereFirst
  <1> QED
    BY <1>1, StaysChecked, PTL

-----------------------------------------------------------------------------
(* Products and quotients of naturals.                                     *)
LEMMA TimesIsNat ==
    ASSUME NEW a \in Nat, NEW b \in Nat
    PROVE  a * b \in Nat
  OBVIOUS

LEMMA TimesKeepsOrder ==
    ASSUME NEW a \in Nat, NEW b \in Nat, NEW c \in Nat, a <= b
    PROVE  a * c <= b * c
  OBVIOUS

LEMMA Divides ==
    ASSUME NEW a \in Nat, NEW b \in Nat \ {0}
    PROVE  /\ a \div b \in Nat
           /\ b * (a \div b) <= a
           /\ a < b * (a \div b) + b
  OBVIOUS

LEMMA DivKeepsOrder ==
    ASSUME NEW a \in Nat, NEW b \in Nat \ {0}, NEW c \in Nat, NEW e \in Nat \ {0},
           a * e <= c * b
    PROVE  a \div b <= c \div e
  <1> DEFINE q == a \div b
             p == c \div e
  <1>1. /\ q \in Nat /\ b * q <= a
        /\ p \in Nat /\ c < e * p + e
    BY Divides
  <1> HIDE DEF q, p
  <1>2. SUFFICES ASSUME p + 1 <= q PROVE FALSE
    BY <1>1 DEF q, p
  <1>3. (b * q) * e <= a * e
    BY <1>1, TimesIsNat, TimesKeepsOrder
  <1>4. c * b < (e * (p + 1)) * b
    <2>1. c + 1 <= e * (p + 1) /\ c + 1 \in Nat /\ e * (p + 1) \in Nat
      BY <1>1
    <2>2. (c + 1) * b <= (e * (p + 1)) * b
      BY <2>1, TimesKeepsOrder
    <2>3. (c + 1) * b = c * b + b
      OBVIOUS
    <2> QED
      BY <2>2, <2>3, <2>1
  <1>5. (p + 1) * (e * b) <= q * (e * b)
    BY <1>1, <1>2, TimesIsNat, TimesKeepsOrder
  <1>6. (b * q) * e = q * (e * b) /\ (e * (p + 1)) * b = (p + 1) * (e * b)
    BY <1>1
  <1>7. /\ (b * q) * e \in Int /\ a * e \in Int /\ c * b \in Int
        /\ (e * (p + 1)) * b \in Int
    BY <1>1
  <1> QED
    BY <1>3, <1>4, <1>5, <1>6, <1>7

-----------------------------------------------------------------------------
(* Of finite sets there is a smallest.                                     *)
LEMMA SmallestOf ==
    ASSUME NEW B, B # {}, \A T \in B : IsFiniteSet(T)
    PROVE  \E M \in B : \A T \in B : Cardinality(M) <= Cardinality(T)
  <1> DEFINE Sizes == {Cardinality(T) : T \in B}
  <1>1. Sizes \in SUBSET Nat /\ Sizes # {}
    BY FS_CardinalityType
  <1>2. PICK m \in Sizes : \A k \in Sizes : m <= k
    <2> HIDE DEF Sizes
    <2> QED
      BY <1>1, LeastOf
  <1> QED
    BY <1>2

(* How a sum over a finite set is defined: by a function on its subsets.   *)
Adds(w, f, D) ==
    w = [T \in D |-> IF T = {} THEN 0
                     ELSE f[CHOOSE x \in T : TRUE] + w[T \ {CHOOSE x \in T : TRUE}]]

LEMMA SumIs ==
    ASSUME NEW f, NEW S
    PROVE  SumFunctionOnSet(f, S) = (CHOOSE w : Adds(w, f, SUBSET S))[S]
  BY DEF SumFunctionOnSet, FoldFunctionOnSet, MapThenFoldSet, Adds

LEMMA AddsExists ==
    ASSUME NEW f, NEW S, IsFiniteSet(S)
    PROVE  \E w : Adds(w, f, SUBSET S)
  <1> DEFINE Small(n) == {T \in SUBSET S : Cardinality(T) <= n}
             Bad == {n \in Nat : ~ \E w : Adds(w, f, Small(n))}
             First(T) == CHOOSE x \in T : TRUE
  <1>1. \A T \in SUBSET S : IsFiniteSet(T) /\ Cardinality(T) \in Nat
                            /\ Cardinality(T) <= Cardinality(S)
    BY FS_Subset, FS_CardinalityType
  <1>2. Bad = {}
    <2>1. SUFFICES ASSUME Bad # {} PROVE FALSE
      OBVIOUS
    <2>2. PICK m \in Bad : \A k \in Bad : m <= k
      <3>1. Bad \in SUBSET Nat
        OBVIOUS
      <3> HIDE DEF Bad
      <3> QED
        BY <2>1, <3>1, LeastOf
    <2>3. m \in Nat /\ ~ \E w : Adds(w, f, Small(m))
      OBVIOUS
    <2>4. m # 0
      <3> DEFINE w == [T \in Small(0) |-> 0]
      <3>1. \A T \in Small(0) : T = {}
        BY <1>1, FS_EmptySet
      <3>2. Adds(w, f, Small(0))
        <4> HIDE DEF Small
        <4> QED
          BY <3>1 DEF Adds
      <3> HIDE DEF w
      <3> QED
        BY <2>3, <3>2
    <2>5. m - 1 \in Nat /\ m - 1 \notin Bad
      <3> HIDE DEF Bad
      <3> QED
        BY <2>2, <2>3, <2>4
    <2>6. PICK old : Adds(old, f, Small(m - 1))
      BY <2>5
    <2> DEFINE new == [T \in Small(m) |->
                        IF T = {} THEN 0 ELSE f[First(T)] + old[T \ {First(T)}]]
    <2>7. ASSUME NEW T \in Small(m), T # {}
          PROVE  T \ {First(T)} \in Small(m - 1) /\ T \ {First(T)} \in Small(m)
      <3>1. First(T) \in T /\ IsFiniteSet(T) /\ Cardinality(T) \in Nat /\ Cardinality(T) <= m
        BY <1>1, <2>7
      <3> HIDE DEF First
      <3>2. Cardinality(T \ {First(T)}) = Cardinality(T) - 1
        BY <3>1, FS_RemoveElement
      <3> QED
        BY <2>3, <3>1, <3>2
    <2>8. ASSUME NEW T \in Small(m - 1)
          PROVE  T \in Small(m) /\ old[T] = new[T]
      <3>1. T \in Small(m)
        <4>1. Cardinality(T) \in Nat /\ Cardinality(T) <= m - 1
          BY <1>1
        <4> QED
          BY <2>3, <4>1
      <3>2. old[T] = IF T = {} THEN 0 ELSE f[First(T)] + old[T \ {First(T)}]
        <4> HIDE DEF Small
        <4> QED
          BY <2>6 DEF Adds
      <3> HIDE DEF Small, First
      <3> QED
        BY <3>1, <3>2
    <2>9. Adds(new, f, Small(m))
      <3>1. ASSUME NEW T \in Small(m)
            PROVE  new[T] = IF T = {} THEN 0 ELSE f[First(T)] + new[T \ {First(T)}]
        <4>1. T # {} => old[T \ {First(T)}] = new[T \ {First(T)}]
          <5> HIDE DEF Small, First, new
          <5> QED
            BY <2>7, <2>8
        <4> HIDE DEF Small, First
        <4> QED
          BY <4>1
      <3>2. new = [T \in Small(m) |-> new[T]]
        OBVIOUS
      <3> HIDE DEF Small, new
      <3> QED
        BY <3>1, <3>2 DEF Adds
    <2> HIDE DEF new
    <2> QED
      BY <2>3, <2>9
  <1>3. Cardinality(S) \in Nat /\ Small(Cardinality(S)) = SUBSET S
    BY <1>1
  <1>4. \E w : Adds(w, f, Small(Cardinality(S)))
    <2> HIDE DEF Small
    <2> QED
      BY <1>2, <1>3
  <1> HIDE DEF Small
  <1> QED
    BY <1>3, <1>4

(* Sums over two sets use the same sums of their common subsets.           *)
LEMMA AddsAgree ==
    ASSUME NEW f, NEW S, IsFiniteSet(S), NEW R, R \in SUBSET S
    PROVE  \A v, w : Adds(v, f, SUBSET S) /\ Adds(w, f, SUBSET R) => v[R] = w[R]
  <1> SUFFICES ASSUME NEW v, Adds(v, f, SUBSET S), NEW w, Adds(w, f, SUBSET R)
               PROVE  v[R] = w[R]
    OBVIOUS
  <1> DEFINE Bad == {T \in SUBSET R : v[T] # w[T]}
             First(T) == CHOOSE x \in T : TRUE
  <1>1. SUFFICES ASSUME Bad # {} PROVE FALSE
    OBVIOUS
  <1>2. \A T \in SUBSET R : IsFiniteSet(T)
    BY FS_Subset
  <1>3. PICK M \in Bad : \A T \in Bad : Cardinality(M) <= Cardinality(T)
    <2>1. \A T \in Bad : IsFiniteSet(T)
      BY <1>2
    <2> HIDE DEF Bad
    <2> QED
      BY <1>1, <2>1, SmallestOf
  <1>4. M \in SUBSET R /\ M \in SUBSET S /\ v[M] # w[M] /\ IsFiniteSet(M)
    BY <1>2
  <1>5. /\ v[M] = IF M = {} THEN 0 ELSE f[First(M)] + v[M \ {First(M)}]
        /\ w[M] = IF M = {} THEN 0 ELSE f[First(M)] + w[M \ {First(M)}]
    <2> HIDE DEF Bad
    <2> QED
      BY <1>4 DEF Adds
  <1>6. M # {}
    BY <1>4, <1>5
  <1>7. First(M) \in M
    BY <1>6
  <1> HIDE DEF First
  <1>8. Cardinality(M \ {First(M)}) = Cardinality(M) - 1 /\ Cardinality(M) \in Nat
    BY <1>4, <1>7, FS_RemoveElement, FS_CardinalityType
  <1>9. M \ {First(M)} \notin Bad
    <2> HIDE DEF Bad
    <2> QED
      BY <1>3, <1>8
  <1>10. v[M \ {First(M)}] = w[M \ {First(M)}]
    BY <1>4, <1>9
  <1> QED
    BY <1>4, <1>5, <1>6, <1>10

LEMMA SumUnfolds ==
    ASSUME NEW f, NEW S, IsFiniteSet(S)
    PROVE  SumFunctionOnSet(f, S) =
              IF S = {} THEN 0
              ELSE f[CHOOSE x \in S : TRUE]
                      + SumFunctionOnSet(f, S \ {CHOOSE x \in S : TRUE})
  <1> DEFINE x == CHOOSE x \in S : TRUE
             R == S \ {x}
             v == CHOOSE w : Adds(w, f, SUBSET S)
             w == CHOOSE u : Adds(u, f, SUBSET R)
  <1>1. R \in SUBSET S /\ IsFiniteSet(R)
    BY FS_Subset
  <1>2. Adds(v, f, SUBSET S)
    BY AddsExists
  <1>3. Adds(w, f, SUBSET R)
    <2> HIDE DEF R
    <2> QED
      BY <1>1, AddsExists
  <1>4. SumFunctionOnSet(f, S) = v[S] /\ SumFunctionOnSet(f, R) = w[R]
    BY SumIs
  <1> HIDE DEF v, w, R
  <1>5. v[R] = w[R]
    BY <1>1, <1>2, <1>3, AddsAgree
  <1>6. v[S] = IF S = {} THEN 0 ELSE f[x] + v[R]
    BY <1>2 DEF Adds, R
  <1>7. SumFunctionOnSet(f, S) = IF S = {} THEN 0 ELSE f[x] + SumFunctionOnSet(f, R)
    BY <1>4, <1>5, <1>6
  <1> QED
    BY <1>7, Zenon DEF R

-----------------------------------------------------------------------------
(* What sums of naturals are, proved for the smallest set that would fail. *)
LEMMA SumIsNat ==
    ASSUME NEW f, NEW S, IsFiniteSet(S), \A x \in S : f[x] \in Nat
    PROVE  SumFunctionOnSet(f, S) \in Nat
  <1> DEFINE Bad == {T \in SUBSET S : SumFunctionOnSet(f, T) \notin Nat}
             First(T) == CHOOSE x \in T : TRUE
  <1>1. SUFFICES ASSUME Bad # {} PROVE FALSE
    OBVIOUS
  <1>2. \A T \in SUBSET S : IsFiniteSet(T)
    BY FS_Subset
  <1>3. PICK M \in Bad : \A T \in Bad : Cardinality(M) <= Cardinality(T)
    <2>1. \A T \in Bad : IsFiniteSet(T)
      BY <1>2
    <2> HIDE DEF Bad
    <2> QED
      BY <1>1, <2>1, SmallestOf
  <1>4. M \in SUBSET S /\ SumFunctionOnSet(f, M) \notin Nat /\ IsFiniteSet(M)
    BY <1>2
  <1>5. SumFunctionOnSet(f, M) =
            IF M = {} THEN 0 ELSE f[First(M)] + SumFunctionOnSet(f, M \ {First(M)})
    BY <1>4, SumUnfolds, Zenon
  <1>6. M # {} /\ First(M) \in M
    BY <1>4, <1>5
  <1> HIDE DEF First
  <1>7. Cardinality(M \ {First(M)}) = Cardinality(M) - 1 /\ Cardinality(M) \in Nat
    BY <1>4, <1>6, FS_RemoveElement, FS_CardinalityType
  <1>8. M \ {First(M)} \notin Bad
    <2> HIDE DEF Bad
    <2> QED
      BY <1>3, <1>7
  <1>9. SumFunctionOnSet(f, M \ {First(M)}) \in Nat /\ f[First(M)] \in Nat
    BY <1>4, <1>6, <1>8
  <1> QED
    BY <1>4, <1>5, <1>6, <1>9

LEMMA SumRemoves ==
    ASSUME NEW f, NEW S, IsFiniteSet(S), \A x \in S : f[x] \in Nat
    PROVE  \A x \in S : SumFunctionOnSet(f, S) = f[x] + SumFunctionOnSet(f, S \ {x})
  <1> DEFINE Sum(T) == SumFunctionOnSet(f, T)
             Bad == {T \in SUBSET S : \E x \in T : Sum(T) # f[x] + Sum(T \ {x})}
             First(T) == CHOOSE x \in T : TRUE
  <1>1. SUFFICES ASSUME Bad # {} PROVE FALSE
    <2>1. S \in SUBSET S
      OBVIOUS
    <2> QED
      BY <2>1
  <1>2. \A T \in SUBSET S : IsFiniteSet(T)
    BY FS_Subset
  <1>3. PICK M \in Bad : \A T \in Bad : Cardinality(M) <= Cardinality(T)
    <2>1. \A T \in Bad : IsFiniteSet(T)
      BY <1>2
    <2> HIDE DEF Bad
    <2> QED
      BY <1>1, <2>1, SmallestOf
  <1>4. PICK x \in M : Sum(M) # f[x] + Sum(M \ {x})
    OBVIOUS
  <1>5. M \in SUBSET S /\ IsFiniteSet(M)
    BY <1>2
  <1>6. Sum(M) = f[First(M)] + Sum(M \ {First(M)})
    BY <1>4, <1>5, SumUnfolds, Zenon
  <1>7. First(M) \in M /\ First(M) # x
    BY <1>4, <1>6
  <1> HIDE DEF First
  <1>8. ASSUME NEW y \in M, NEW z \in M, y # z
        PROVE  Sum(M \ {y}) = f[z] + Sum((M \ {y}) \ {z})
    <2>1. Cardinality(M \ {y}) = Cardinality(M) - 1 /\ Cardinality(M) \in Nat
      BY <1>5, FS_RemoveElement, FS_CardinalityType
    <2>2. M \ {y} \notin Bad
      <3> HIDE DEF Bad
      <3> QED
        BY <1>3, <2>1
    <2>3. M \ {y} \in SUBSET S /\ z \in M \ {y}
      BY <1>5, <1>8
    <2> HIDE DEF Sum
    <2> QED
      BY <2>2, <2>3
  <1> DEFINE both == (M \ {x}) \ {First(M)}
  <1>9. (M \ {First(M)}) \ {x} = both
    OBVIOUS
  <1>10. Sum(M \ {First(M)}) = f[x] + Sum(both) /\ Sum(M \ {x}) = f[First(M)] + Sum(both)
    <2> HIDE DEF Sum, Bad
    <2> QED
      BY <1>4, <1>7, <1>8, <1>9
  <1>11. Sum(both) \in Nat /\ f[x] \in Nat /\ f[First(M)] \in Nat
    <2>1. both \in SUBSET S
      BY <1>5
    <2>2. IsFiniteSet(both) /\ \A y \in both : f[y] \in Nat
      BY <1>2, <2>1
    <2> HIDE DEF both
    <2> QED
      BY <1>4, <1>5, <1>7, <2>2, SumIsNat
  <1> HIDE DEF Sum, both, Bad
  <1> QED
    BY <1>4, <1>6, <1>10, <1>11

LEMMA SumAdds ==
    ASSUME NEW f, NEW S, NEW x, x \notin S, IsFiniteSet(S),
           \A y \in S \cup {x} : f[y] \in Nat
    PROVE  SumFunctionOnSet(f, S \cup {x}) = f[x] + SumFunctionOnSet(f, S)
  <1> DEFINE T == S \cup {x}
  <1>1. IsFiniteSet(T) /\ x \in T /\ T \ {x} = S /\ \A y \in T : f[y] \in Nat
    BY FS_AddElement
  <1> HIDE DEF T
  <1>2. SumFunctionOnSet(f, T) = f[x] + SumFunctionOnSet(f, T \ {x})
    BY <1>1, SumRemoves
  <1> QED
    BY <1>1, <1>2 DEF T

LEMMA SumOfNone ==
    ASSUME NEW f
    PROVE  SumFunctionOnSet(f, {}) = 0
  <1> DEFINE S == {}
  <1>1. IsFiniteSet(S) /\ S = {}
    BY FS_EmptySet
  <1> HIDE DEF S
  <1>2. SumFunctionOnSet(f, S) = 0
    BY <1>1, SumUnfolds
  <1> QED
    BY <1>1, <1>2

(* A sum of parts is at most that multiple of the sum of the wholes.       *)
LEMMA SumCompares ==
    ASSUME NEW f, NEW g, NEW S, IsFiniteSet(S), NEW c \in {1, 10000},
           \A x \in S : f[x] \in Nat /\ g[x] \in Nat /\ f[x] <= c * g[x]
    PROVE  SumFunctionOnSet(f, S) <= c * SumFunctionOnSet(g, S)
  <1> DEFINE F(T) == SumFunctionOnSet(f, T)
             G(T) == SumFunctionOnSet(g, T)
             Bad == {T \in SUBSET S : ~(F(T) <= c * G(T))}
  <1>1. SUFFICES ASSUME Bad # {} PROVE FALSE
    <2>1. S \in SUBSET S
      OBVIOUS
    <2> QED
      BY <2>1
  <1>2. \A T \in SUBSET S : IsFiniteSet(T) /\ F(T) \in Nat /\ G(T) \in Nat
    BY FS_Subset, SumIsNat
  <1>3. PICK M \in Bad : \A T \in Bad : Cardinality(M) <= Cardinality(T)
    <2>1. \A T \in Bad : IsFiniteSet(T)
      BY <1>2
    <2> HIDE DEF Bad
    <2> QED
      BY <1>1, <2>1, SmallestOf
  <1>4. M \in SUBSET S /\ ~(F(M) <= c * G(M)) /\ IsFiniteSet(M)
    BY <1>2
  <1>5. F({}) = 0 /\ G({}) = 0
    BY SumOfNone
  <1>6. PICK x \in M : TRUE
    <2> HIDE DEF F, G, Bad
    <2> QED
      BY <1>4, <1>5
  <1>7. F(M) = f[x] + F(M \ {x}) /\ G(M) = g[x] + G(M \ {x})
    <2>1. /\ \A y \in M : f[y] \in Nat
          /\ \A y \in M : g[y] \in Nat
      BY <1>4
    <2> HIDE DEF Bad
    <2>2. F(M) = f[x] + F(M \ {x})
      BY <1>4, <2>1, SumRemoves
    <2>3. G(M) = g[x] + G(M \ {x})
      BY <1>4, <2>1, SumRemoves
    <2> QED
      BY <2>2, <2>3
  <1>8. Cardinality(M \ {x}) = Cardinality(M) - 1 /\ Cardinality(M) \in Nat
    BY <1>4, FS_RemoveElement, FS_CardinalityType
  <1>9. M \ {x} \notin Bad
    <2> HIDE DEF Bad
    <2> QED
      BY <1>3, <1>8
  <1>10. M \ {x} \in SUBSET S /\ F(M \ {x}) <= c * G(M \ {x})
    BY <1>4, <1>9
  <1>11. f[x] \in Nat /\ g[x] \in Nat /\ f[x] <= c * g[x]
    BY <1>4
  <1> HIDE DEF F, G, Bad
  <1>12. F(M \ {x}) \in Nat /\ G(M \ {x}) \in Nat
    BY <1>2, <1>10
  <1>13. CASE c = 1
    BY <1>4, <1>7, <1>10, <1>11, <1>12, <1>13
  <1>14. CASE c = 10000
    BY <1>4, <1>7, <1>10, <1>11, <1>12, <1>14
  <1> QED
    BY <1>13, <1>14

LEMMA SumAgrees ==
    ASSUME NEW f, NEW g, NEW S, IsFiniteSet(S), \A x \in S : f[x] \in Nat /\ f[x] = g[x]
    PROVE  SumFunctionOnSet(f, S) = SumFunctionOnSet(g, S)
  <1>1. \A x \in S : f[x] <= 1 * g[x] /\ g[x] <= 1 * f[x] /\ g[x] \in Nat
    OBVIOUS
  <1>2. /\ SumFunctionOnSet(f, S) <= 1 * SumFunctionOnSet(g, S)
        /\ SumFunctionOnSet(g, S) <= 1 * SumFunctionOnSet(f, S)
    BY <1>1, SumCompares
  <1>3. SumFunctionOnSet(f, S) \in Nat /\ SumFunctionOnSet(g, S) \in Nat
    BY <1>1, SumIsNat
  <1> QED
    BY <1>2, <1>3

LEMMA SumOfPositives ==
    ASSUME NEW f, NEW S, IsFiniteSet(S), S # {}, \A x \in S : f[x] \in Nat /\ f[x] > 0
    PROVE  SumFunctionOnSet(f, S) > 0
  <1>1. PICK x \in S : TRUE
    OBVIOUS
  <1>2. SumFunctionOnSet(f, S) = f[x] + SumFunctionOnSet(f, S \ {x})
    BY SumRemoves
  <1>3. SumFunctionOnSet(f, S \ {x}) \in Nat
    BY FS_RemoveElement, SumIsNat
  <1> QED
    BY <1>2, <1>3

LEMMA SumOfSubset ==
    ASSUME NEW f, NEW S, IsFiniteSet(S), \A x \in S : f[x] \in Nat, NEW R, R \in SUBSET S
    PROVE  SumFunctionOnSet(f, R) <= SumFunctionOnSet(f, S)
  <1> DEFINE Sum(T) == SumFunctionOnSet(f, T)
             Bad == {T \in SUBSET S : R \in SUBSET T /\ ~(Sum(R) <= Sum(T))}
  <1>1. SUFFICES ASSUME Bad # {} PROVE FALSE
    <2>1. S \in SUBSET S
      OBVIOUS
    <2> QED
      BY <2>1
  <1>2. \A T \in SUBSET S : IsFiniteSet(T) /\ Sum(T) \in Nat
    BY FS_Subset, SumIsNat
  <1>3. PICK M \in Bad : \A T \in Bad : Cardinality(M) <= Cardinality(T)
    <2>1. \A T \in Bad : IsFiniteSet(T)
      BY <1>2
    <2> HIDE DEF Bad
    <2> QED
      BY <1>1, <2>1, SmallestOf
  <1>4. M \in SUBSET S /\ R \in SUBSET M /\ ~(Sum(R) <= Sum(M)) /\ IsFiniteSet(M)
    BY <1>2
  <1> HIDE DEF Sum
  <1>5. PICK x \in M : x \notin R
    <2>1. M # R
      BY <1>2, <1>4
    <2> QED
      BY <1>4, <2>1
  <1>6. Cardinality(M \ {x}) = Cardinality(M) - 1 /\ Cardinality(M) \in Nat
    BY <1>4, FS_RemoveElement, FS_CardinalityType
  <1>7. M \ {x} \notin Bad
    <2> HIDE DEF Bad
    <2> QED
      BY <1>3, <1>6
  <1>8. M \ {x} \in SUBSET S /\ Sum(R) <= Sum(M \ {x})
    BY <1>4, <1>5, <1>7
  <1>9. Sum(M) = f[x] + Sum(M \ {x}) /\ f[x] \in Nat
    BY <1>4, SumRemoves DEF Sum
  <1> HIDE DEF Bad
  <1> QED
    BY <1>2, <1>4, <1>8, <1>9

-----------------------------------------------------------------------------
(* What a percentage and a mean of percentages are.                        *)
LEMMA PercentMeasures ==
    ASSUME NEW n \in Nat, NEW d \in Nat \ {0}, n <= d
    PROVE  /\ Percent(n, d) \in Nat /\ Percent(n, d) <= 10000
           /\ Percent(d, d) = 10000
           /\ Percent(0, d) = 0
  <1>1. /\ 20000 * n + d \in Nat /\ 2 * d \in Nat \ {0}
        /\ 20000 * d + d \in Nat /\ 20000 * 0 + d \in Nat
    OBVIOUS
  <1>2. Percent(n, d) \in Nat /\ Percent(n, d) <= 10000
    <2> DEFINE q == Percent(n, d)
    <2>1. q \in Nat /\ (2 * d) * q <= 20000 * n + d
      <3> DEFINE a == 20000 * n + d
                 b == 2 * d
      <3>1. a \in Nat /\ b \in Nat \ {0}
        BY <1>1
      <3> HIDE DEF a, b
      <3>2. a \div b \in Nat /\ b * (a \div b) <= a
        BY <3>1, Divides, Zenon
      <3>3. Percent(n, d) = a \div b /\ b = 2 * d /\ a = 20000 * n + d
        BY DEF a, b, Percent
      <3> QED
        BY <3>2, <3>3
    <2> HIDE DEF q
    <2>2. 10001 <= q => 10001 * (2 * d) <= q * (2 * d)
      BY <2>1, TimesKeepsOrder
    <2>3. q * (2 * d) = (2 * d) * q /\ (2 * d) * q \in Int
      BY <2>1
    <2>4. ~(10001 <= q)
      BY <2>1, <2>2, <2>3
    <2>5. q \in Nat /\ q <= 10000
      BY <2>1, <2>4
    <2> QED
      BY <2>5 DEF q
  <1>3. Percent(d, d) = 10000
    <2> DEFINE q == Percent(d, d)
    <2>1. q \in Nat /\ (2 * d) * q <= 20000 * d + d /\ 20000 * d + d < (2 * d) * q + 2 * d
      BY <1>1, Divides DEF Percent
    <2> HIDE DEF q
    <2>2. 10001 <= q => 10001 * (2 * d) <= q * (2 * d)
      BY <2>1, TimesKeepsOrder
    <2>3. q <= 9999 => q * (2 * d) <= 9999 * (2 * d)
      BY <2>1, TimesKeepsOrder
    <2>4. q * (2 * d) = (2 * d) * q /\ (2 * d) * q \in Int
      BY <2>1
    <2>5. ~(10001 <= q) /\ ~(q <= 9999)
      BY <2>1, <2>2, <2>3, <2>4
    <2>6. q = 10000
      BY <2>1, <2>5
    <2> QED
      BY <2>6 DEF q
  <1>4. Percent(0, d) = 0
    <2> DEFINE q == Percent(0, d)
    <2>1. q \in Nat /\ (2 * d) * q <= 20000 * 0 + d
      BY <1>1, Divides DEF Percent
    <2> HIDE DEF q
    <2>2. 1 <= q => 1 * (2 * d) <= q * (2 * d)
      BY <2>1, TimesKeepsOrder
    <2>3. q * (2 * d) = (2 * d) * q /\ (2 * d) * q \in Int
      BY <2>1
    <2>4. q = 0
      BY <2>1, <2>2, <2>3
    <2> QED
      BY <2>4 DEF q
  <1> QED
    BY <1>2, <1>3, <1>4

(* One more that failed lowers a percentage, one more that passed raises   *)
(* it.                                                                     *)
LEMMA PercentMoves ==
    ASSUME NEW n \in Nat, NEW d \in Nat \ {0}, n <= d, NEW p \in Nat
    PROVE  /\ Percent(n, d + p) <= Percent(n, d)
           /\ Percent(n, d) <= Percent(n + p, d + p)
  <1>1. /\ 20000 * n + d \in Nat /\ 2 * d \in Nat \ {0} /\ 2 * (d + p) \in Nat \ {0}
        /\ 20000 * n + (d + p) \in Nat /\ 20000 * (n + p) + (d + p) \in Nat
    OBVIOUS
  <1>2. n * p \in Nat /\ d * d \in Nat /\ n * d \in Nat /\ p * d \in Nat /\ n * p <= d * p
    BY TimesIsNat, TimesKeepsOrder
  <1>3. (20000 * n + (d + p)) * (2 * d) <= (20000 * n + d) * (2 * (d + p))
    <2>1. (20000 * n + (d + p)) * (2 * d) = 40000 * (n * d) + 2 * (d * d) + 2 * (p * d)
      OBVIOUS
    <2>2. (20000 * n + d) * (2 * (d + p))
            = 40000 * (n * d) + 40000 * (n * p) + 2 * (d * d) + 2 * (p * d)
      OBVIOUS
    <2> QED
      BY <1>2, <2>1, <2>2
  <1>4. (20000 * n + d) * (2 * (d + p)) <= (20000 * (n + p) + (d + p)) * (2 * d)
    <2>1. (20000 * n + d) * (2 * (d + p))
            = 40000 * (n * d) + 40000 * (n * p) + 2 * (d * d) + 2 * (p * d)
      OBVIOUS
    <2>2. (20000 * (n + p) + (d + p)) * (2 * d)
            = 40000 * (n * d) + 40000 * (p * d) + 2 * (d * d) + 2 * (p * d)
      OBVIOUS
    <2>3. d * p = p * d
      OBVIOUS
    <2> QED
      BY <1>2, <2>1, <2>2, <2>3
  <1>5. Percent(n, d + p) <= Percent(n, d)
    <2> DEFINE a == 20000 * n + (d + p)
               b == 2 * (d + p)
               c == 20000 * n + d
               e == 2 * d
    <2>1. a \in Nat /\ b \in Nat \ {0} /\ c \in Nat /\ e \in Nat \ {0} /\ a * e <= c * b
      BY <1>1, <1>3
    <2> HIDE DEF a, b, c, e
    <2>2. a \div b <= c \div e
      BY <2>1, DivKeepsOrder, Zenon
    <2> QED
      <3>1. Percent(n, d + p) = a \div b
        BY DEF a, b, Percent
      <3>2. Percent(n, d) = c \div e
        BY DEF c, e, Percent
      <3> QED
        BY <2>2, <3>1, <3>2, Zenon
  <1>6. Percent(n, d) <= Percent(n + p, d + p)
    <2> DEFINE a == 20000 * n + d
               b == 2 * d
               c == 20000 * (n + p) + (d + p)
               e == 2 * (d + p)
    <2>1. a \in Nat /\ b \in Nat \ {0} /\ c \in Nat /\ e \in Nat \ {0} /\ a * e <= c * b
      BY <1>1, <1>4
    <2> HIDE DEF a, b, c, e
    <2>2. a \div b <= c \div e
      BY <2>1, DivKeepsOrder, Zenon
    <2> QED
      <3>1. Percent(n, d) = a \div b
        BY DEF a, b, Percent
      <3>2. Percent(n + p, d + p) = c \div e
        BY DEF c, e, Percent
      <3> QED
        BY <2>2, <3>1, <3>2, Zenon
  <1> QED
    BY <1>5, <1>6

LEMMA MeanIsNat ==
    ASSUME NEW n \in Nat, NEW d \in Nat \ {0}
    PROVE  Mean(n, d) \in Nat
  <1> DEFINE a == 2 * n + d
             b == 2 * d
  <1>1. a \in Nat /\ b \in Nat \ {0} /\ Mean(n, d) = a \div b
    BY DEF Mean
  <1> HIDE DEF a, b
  <1> QED
    BY <1>1, Divides

(* Likewise the mean of such percentages, when a dimension of weight w     *)
(* joins it at 0 or at 100 percent, or when one of them moves.             *)
LEMMA MeanMoves ==
    ASSUME NEW n \in Nat, NEW d \in Nat \ {0}
    PROVE  /\ \A m \in Nat : n <= m => Mean(n, d) <= Mean(m, d)
           /\ \A w \in Nat : Mean(n, d + w) <= Mean(n, d)
           /\ \A w \in Nat : n <= 10000 * d => Mean(n, d) <= Mean(n + 10000 * w, d + w)
  <1>1. 2 * n + d \in Nat /\ 2 * d \in Nat \ {0}
    OBVIOUS
  <1>2. ASSUME NEW m \in Nat, n <= m PROVE Mean(n, d) <= Mean(m, d)
    <2>1. 2 * m + d \in Nat /\ 2 * n + d <= 2 * m + d
      BY <1>2
    <2>2. (2 * n + d) * (2 * d) <= (2 * m + d) * (2 * d)
      BY <1>1, <2>1, TimesKeepsOrder
    <2> QED
      BY <1>1, <2>1, <2>2, DivKeepsOrder DEF Mean
  <1>3. ASSUME NEW w \in Nat
        PROVE  /\ Mean(n, d + w) <= Mean(n, d)
               /\ n <= 10000 * d => Mean(n, d) <= Mean(n + 10000 * w, d + w)
    <2>1. /\ 2 * n + (d + w) \in Nat /\ 2 * (d + w) \in Nat \ {0}
          /\ 2 * (n + 10000 * w) + (d + w) \in Nat
      OBVIOUS
    <2>2. n * w \in Nat /\ n * d \in Nat /\ d * d \in Nat /\ d * w \in Nat
      BY TimesIsNat
    <2>3. (2 * n + (d + w)) * (2 * d) = 4 * (n * d) + 2 * (d * d) + 2 * (d * w)
      OBVIOUS
    <2>4. (2 * n + d) * (2 * (d + w))
            = 4 * (n * d) + 4 * (n * w) + 2 * (d * d) + 2 * (d * w)
      OBVIOUS
    <2>5. (2 * (n + 10000 * w) + (d + w)) * (2 * d)
            = 4 * (n * d) + 40000 * (d * w) + 2 * (d * d) + 2 * (d * w)
      OBVIOUS
    <2>6. ASSUME n <= 10000 * d PROVE n * w <= 10000 * (d * w)
      <3>1. n * w <= (10000 * d) * w
        BY <2>6, TimesKeepsOrder
      <3>2. (10000 * d) * w = 10000 * (d * w)
        OBVIOUS
      <3> QED
        BY <3>1, <3>2
    <2>7. Mean(n, d + w) <= Mean(n, d)
      <3>1. (2 * n + (d + w)) * (2 * d) <= (2 * n + d) * (2 * (d + w))
        BY <2>2, <2>3, <2>4
      <3> DEFINE a == 2 * n + (d + w)
                 b == 2 * (d + w)
                 c == 2 * n + d
                 e == 2 * d
      <3>2. a \in Nat /\ b \in Nat \ {0} /\ c \in Nat /\ e \in Nat \ {0} /\ a * e <= c * b
        BY <1>1, <2>1, <3>1
      <3> HIDE DEF a, b, c, e
      <3>3. a \div b <= c \div e
        BY <3>2, DivKeepsOrder, Zenon
      <3> QED
        <4>1. Mean(n, d + w) = a \div b
          BY DEF a, b, Mean
        <4>2. Mean(n, d) = c \div e
          BY DEF c, e, Mean
        <4> QED
          BY <3>3, <4>1, <4>2, Zenon
    <2>8. ASSUME n <= 10000 * d PROVE Mean(n, d) <= Mean(n + 10000 * w, d + w)
      <3> DEFINE m == n + 10000 * w
                 v == d + w
                 a == 2 * n + d
                 b == 2 * d
                 c == 2 * m + v
                 e == 2 * v
      <3>1. a * e <= c * b
        BY <2>2, <2>4, <2>5, <2>6, <2>8
      <3>2. a \in Nat /\ b \in Nat \ {0} /\ c \in Nat /\ e \in Nat \ {0}
        BY <1>1, <2>1
      <3> HIDE DEF m, v, a, b, c, e
      <3>3. a \div b <= c \div e
        BY <3>1, <3>2, DivKeepsOrder, Zenon
      <3>4. Mean(n, d) = a \div b /\ Mean(m, v) = c \div e
        BY DEF a, b, c, e, Mean
      <3>5. Mean(n, d) <= Mean(m, v)
        BY <3>3, <3>4, Zenon
      <3> QED
        BY <3>5 DEF m, v
    <2> QED
      BY <2>7, <2>8
  <1> QED
    BY <1>2, <1>3

-----------------------------------------------------------------------------
(* Criteria as the rules of a brand make them.                             *)
IsCriterion(c) == c.dimension \in Dimensions /\ c.severity \in Severities /\ c.weight \in Int

AreCriteria(C) == IsFiniteSet(C) /\ \A c \in C : IsCriterion(c)

LEMMA PriceIsNat ==
    ASSUME NEW c, IsCriterion(c)
    PROVE  Price(c) \in Nat
  <1> DEFINE w == IF c.weight > 0 THEN c.weight ELSE 0
  <1>1. w \in Nat
    BY DEF IsCriterion
  <1>2. SeverityWeight[c.severity] \in {4, 3, 1, 0}
    BY DEF IsCriterion, Severities, SeverityWeight
  <1> HIDE DEF w
  <1>3. w * SeverityWeight[c.severity] \in Nat
    BY <1>1, <1>2
  <1> QED
    BY <1>3 DEF w, Price

LEMMA PricesAreNat ==
    ASSUME NEW C, AreCriteria(C)
    PROVE  /\ \A c \in C : Price(c) \in Nat
           /\ \A c \in C : [k \in C |-> Price(k)][c] = Price(c)
  BY PriceIsNat DEF AreCriteria

LEMMA WorthIsNat ==
    ASSUME NEW C, AreCriteria(C)
    PROVE  Worth(C) \in Nat
  <1> DEFINE f == [c \in C |-> Price(c)]
  <1>1. \A c \in C : f[c] \in Nat
    BY PricesAreNat
  <1> HIDE DEF f
  <1>2. SumFunctionOnSet(f, C) \in Nat
    BY <1>1, SumIsNat DEF AreCriteria
  <1> QED
    BY <1>2 DEF f, Worth

LEMMA WorthOfPart ==
    ASSUME NEW C, AreCriteria(C), NEW R \in SUBSET C
    PROVE  AreCriteria(R) /\ Worth(R) <= Worth(C)
  <1> DEFINE f == [c \in C |-> Price(c)]
             g == [c \in R |-> Price(c)]
  <1>1. AreCriteria(R)
    BY FS_Subset DEF AreCriteria
  <1>2. /\ \A c \in C : f[c] \in Nat
        /\ \A c \in R : g[c] \in Nat /\ g[c] = f[c]
    BY <1>1, PricesAreNat
  <1> HIDE DEF f, g
  <1>3. SumFunctionOnSet(f, R) <= SumFunctionOnSet(f, C)
    BY <1>2, SumOfSubset DEF AreCriteria
  <1>4. SumFunctionOnSet(g, R) = SumFunctionOnSet(f, R)
    BY <1>1, <1>2, SumAgrees DEF AreCriteria
  <1>5. SumFunctionOnSet(g, R) <= SumFunctionOnSet(f, C)
    BY <1>3, <1>4
  <1> QED
    BY <1>1, <1>5 DEF f, g, Worth

LEMMA WorthAdds ==
    ASSUME NEW C, AreCriteria(C), NEW x, x \notin C, IsCriterion(x)
    PROVE  /\ AreCriteria(C \cup {x})
           /\ Worth(C \cup {x}) = Worth(C) + Price(x)
  <1> DEFINE D == C \cup {x}
             f == [c \in D |-> Price(c)]
             g == [c \in C |-> Price(c)]
  <1>1. AreCriteria(D)
    BY FS_AddElement DEF AreCriteria
  <1>2. /\ \A c \in D : f[c] \in Nat
        /\ \A c \in C : g[c] \in Nat /\ g[c] = f[c]
        /\ f[x] = Price(x)
    <2>1. x \in D /\ \A c \in C : c \in D
      OBVIOUS
    <2> HIDE DEF D
    <2> QED
      BY <1>1, <2>1, PricesAreNat
  <1>3. SumFunctionOnSet(f, D) = f[x] + SumFunctionOnSet(f, C)
    <2> HIDE DEF f, g
    <2> QED
      BY <1>2, SumAdds DEF AreCriteria
  <1>4. SumFunctionOnSet(g, C) = SumFunctionOnSet(f, C)
    <2> HIDE DEF f, g
    <2> QED
      BY <1>2, SumAgrees DEF AreCriteria
  <1>5. SumFunctionOnSet(f, C) \in Nat /\ f[x] \in Nat
    <2> HIDE DEF f, g
    <2>1. \A c \in C : f[c] \in Nat
      BY <1>2
    <2> QED
      BY <1>2, <2>1, SumIsNat DEF AreCriteria
  <1> HIDE DEF f, g
  <1>6. SumFunctionOnSet(f, D) = SumFunctionOnSet(g, C) + Price(x)
    BY <1>2, <1>3, <1>4, <1>5
  <1> HIDE DEF D
  <1>7. Worth(D) = Worth(C) + Price(x)
    BY <1>6 DEF f, g, Worth
  <1> QED
    BY <1>1, <1>7 DEF D

LEMMA WorthIsPositive ==
    ASSUME NEW C, AreCriteria(C), C # {}, \A c \in C : Price(c) > 0
    PROVE  Worth(C) > 0
  <1> DEFINE f == [c \in C |-> Price(c)]
  <1>1. \A c \in C : f[c] \in Nat /\ f[c] > 0
    BY PricesAreNat
  <1> HIDE DEF f
  <1>2. SumFunctionOnSet(f, C) > 0
    BY <1>1, SumOfPositives DEF AreCriteria
  <1> QED
    BY <1>2 DEF f, Worth

-----------------------------------------------------------------------------
(* What a dimension is measured by.                                        *)
Possible(C, d) == {c \in Counted(C) : c.dimension = d}
Earned(C, d) == {c \in Possible(C, d) : c.verdict = "pass"}

DimensionsOf(C) == {c.dimension : c \in Counted(C)}

LEMMA DimensionIsMeasured ==
    ASSUME NEW C, AreCriteria(C), NEW d \in DimensionsOf(C)
    PROVE  /\ AreCriteria(Possible(C, d)) /\ AreCriteria(Earned(C, d))
           /\ Worth(Possible(C, d)) \in Nat \ {0} /\ Worth(Earned(C, d)) \in Nat
           /\ Worth(Earned(C, d)) <= Worth(Possible(C, d))
           /\ DimensionScore(C, d) = Percent(Worth(Earned(C, d)), Worth(Possible(C, d)))
           /\ DimensionScore(C, d) \in Nat /\ DimensionScore(C, d) <= 10000
  <1> DEFINE P == Possible(C, d)
             E == Earned(C, d)
  <1>1. P \in SUBSET C /\ E \in SUBSET P /\ P # {} /\ \A c \in P : Price(c) > 0
    BY DEF Possible, Earned, Counted, DimensionsOf
  <1>2. DimensionScore(C, d) = Percent(Worth(E), Worth(P))
    BY DEF DimensionScore, Possible, Earned
  <1> HIDE DEF P, E
  <1>3. AreCriteria(P)
    BY <1>1, WorthOfPart
  <1>4. AreCriteria(E) /\ Worth(E) <= Worth(P)
    BY <1>1, <1>3, WorthOfPart
  <1>5. Worth(P) \in Nat \ {0} /\ Worth(E) \in Nat
    BY <1>1, <1>3, <1>4, WorthIsNat, WorthIsPositive
  <1>6. Percent(Worth(E), Worth(P)) \in Nat /\ Percent(Worth(E), Worth(P)) <= 10000
    <2> DEFINE n == Worth(E)
               m == Worth(P)
    <2>1. n \in Nat /\ m \in Nat \ {0} /\ n <= m
      BY <1>4, <1>5
    <2> HIDE DEF n, m
    <2>2. Percent(n, m) \in Nat /\ Percent(n, m) <= 10000
      BY <2>1, PercentMeasures
    <2> QED
      BY <2>2 DEF n, m
  <1> QED
    BY <1>2, <1>3, <1>4, <1>5, <1>6 DEF P, E

(* A criterion that is not counted changes nothing.                        *)
LEMMA OnlyCountedScore ==
    ASSUME NEW C, NEW D, Counted(C) = Counted(D)
    PROVE  Score(C) = Score(D)
  <1>1. \A d : DimensionScore(C, d) = DimensionScore(D, d)
    BY DEF DimensionScore
  <1>2. Scored(C) = Scored(D)
    BY DEF Scored
  <1> QED
    BY <1>1, <1>2 DEF Score

LEMMA CountsAddition ==
    ASSUME NEW C, NEW x
    PROVE  /\ (x.verdict \in {"pass", "fail"} /\ Price(x) > 0)
                => Counted(C \cup {x}) = Counted(C) \cup {x}
           /\ ~(x.verdict \in {"pass", "fail"} /\ Price(x) > 0)
                => Counted(C \cup {x}) = Counted(C)
  BY DEF Counted

(* A criterion that is counted moves the score of its own dimension.       *)
LEMMA AdditionMoves ==
    ASSUME NEW C, AreCriteria(C), NEW x, x \notin C, IsCriterion(x),
           x.verdict \in {"pass", "fail"}, Price(x) > 0,
           NEW d \in DimensionsOf(C)
    PROVE  /\ x.verdict = "fail" => DimensionScore(C \cup {x}, d) <= DimensionScore(C, d)
           /\ x.verdict = "pass" => DimensionScore(C, d) <= DimensionScore(C \cup {x}, d)
  <1> DEFINE D == C \cup {x}
             P == Possible(C, d)
             E == Earned(C, d)
  <1>1. Counted(D) = Counted(C) \cup {x} /\ x \notin Counted(C)
    BY CountsAddition DEF Counted
  <1>2. d \in DimensionsOf(D)
    BY <1>1 DEF DimensionsOf
  <1>3. AreCriteria(D)
    BY WorthAdds
  <1>4. /\ AreCriteria(P) /\ AreCriteria(E) /\ Worth(P) \in Nat \ {0} /\ Worth(E) \in Nat
        /\ Worth(E) <= Worth(P) /\ DimensionScore(C, d) = Percent(Worth(E), Worth(P))
        /\ DimensionScore(C, d) \in Nat /\ DimensionScore(C, d) <= 10000
    BY DimensionIsMeasured
  <1>5. DimensionScore(D, d) = Percent(Worth(Earned(D, d)), Worth(Possible(D, d)))
    <2> HIDE DEF D
    <2> QED
      BY <1>2, <1>3, DimensionIsMeasured
  <1>6. CASE x.dimension # d
    <2>1. Possible(D, d) = P /\ Earned(D, d) = E
      BY <1>1, <1>6 DEF Possible, Earned
    <2>2. DimensionScore(D, d) = DimensionScore(C, d)
      BY <1>4, <1>5, <2>1
    <2>3. DimensionScore(C, d) <= DimensionScore(C, d)
      BY <1>4
    <2> QED
      BY <2>2, <2>3
  <1>7. CASE x.dimension = d
    <2>1. /\ Possible(D, d) = P \cup {x} /\ x \notin P /\ x \notin E
          /\ Earned(D, d) = IF x.verdict = "pass" THEN E \cup {x} ELSE E
      BY <1>1, <1>7 DEF Possible, Earned
    <2> HIDE DEF D, P, E
    <2>2. Price(x) \in Nat
      BY PriceIsNat
    <2>3. /\ Worth(P \cup {x}) = Worth(P) + Price(x)
          /\ Worth(E \cup {x}) = Worth(E) + Price(x)
      BY <1>4, <2>1, WorthAdds
    <2>4. /\ Percent(Worth(E), Worth(P) + Price(x)) <= Percent(Worth(E), Worth(P))
          /\ Percent(Worth(E), Worth(P)) <= Percent(Worth(E) + Price(x), Worth(P) + Price(x))
      <3> DEFINE n == Worth(E)
                 m == Worth(P)
                 p == Price(x)
      <3>1. n \in Nat /\ m \in Nat \ {0} /\ n <= m /\ p \in Nat
        BY <1>4, <2>2
      <3> HIDE DEF n, m, p
      <3>2. Percent(n, m + p) <= Percent(n, m) /\ Percent(n, m) <= Percent(n + p, m + p)
        BY <3>1, PercentMoves
      <3> QED
        BY <3>2 DEF n, m, p
    <2>5. ASSUME x.verdict = "fail" PROVE DimensionScore(D, d) <= DimensionScore(C, d)
      BY <1>4, <1>5, <2>1, <2>3, <2>4, <2>5
    <2>6. ASSUME x.verdict = "pass" PROVE DimensionScore(C, d) <= DimensionScore(D, d)
      BY <1>4, <1>5, <2>1, <2>3, <2>4, <2>6
    <2> QED
      BY <2>5, <2>6 DEF D
  <1> QED
    BY <1>6, <1>7

(* Or it is the first of its dimension, and its whole score.               *)
LEMMA FirstOfItsDimension ==
    ASSUME NEW C, AreCriteria(C), NEW x, x \notin C, IsCriterion(x),
           x.verdict \in {"pass", "fail"}, Price(x) > 0,
           x.dimension \notin DimensionsOf(C)
    PROVE  DimensionScore(C \cup {x}, x.dimension) = IF x.verdict = "pass" THEN 10000 ELSE 0
  <1> DEFINE D == C \cup {x}
             d == x.dimension
  <1>1. Counted(D) = Counted(C) \cup {x}
    BY CountsAddition
  <1>2. AreCriteria(D)
    BY WorthAdds
  <1>3. d \in DimensionsOf(D)
    BY <1>1 DEF DimensionsOf
  <1>4. /\ Possible(D, d) = {x}
        /\ Earned(D, d) = IF x.verdict = "pass" THEN {x} ELSE {}
    BY <1>1 DEF Possible, Earned, DimensionsOf
  <1> HIDE DEF D, d
  <1>5. /\ Worth({x}) \in Nat \ {0}
        /\ DimensionScore(D, d) = Percent(Worth(Earned(D, d)), Worth({x}))
    BY <1>2, <1>3, <1>4, DimensionIsMeasured
  <1>6. Worth({}) = 0
    BY SumOfNone DEF Worth
  <1>7. 0 <= Worth({x}) /\ Percent(Worth({x}), Worth({x})) = 10000 /\ Percent(0, Worth({x})) = 0
    <2>1. 0 \in Nat /\ 0 <= Worth({x})
      BY <1>5
    <2> QED
      BY <1>5, <2>1, PercentMeasures
  <1>8. DimensionScore(D, d) = IF x.verdict = "pass" THEN 10000 ELSE 0
    BY <1>4, <1>5, <1>6, <1>7
  <1> QED
    BY <1>8 DEF D, d

-----------------------------------------------------------------------------
(* The sums that a score is the mean of.                                   *)
Weighted(C) == [d \in Scored(C) |-> DimensionScore(C, d) * DimensionWeight[d]]

Sum(C) == SumFunctionOnSet(Weighted(C), Scored(C))
Total(C) == SumFunctionOnSet(DimensionWeight, Scored(C))

LEMMA ImageIsFinite ==
    ASSUME NEW f, IsFiniteSet(DOMAIN f)
    PROVE  IsFiniteSet({f[x] : x \in DOMAIN f})
  <1> DEFINE S == DOMAIN f
             T == {f[x] : x \in S}
             g == [x \in S |-> f[x]]
  <1>1. g \in Surjection(S, T)
    BY DEF Surjection
  <1> HIDE DEF g
  <1> QED
    BY <1>1, FS_Surjection

LEMMA ScoredAreWeighed ==
    ASSUME NEW C, AreCriteria(C)
    PROVE  /\ IsFiniteSet(Scored(C)) /\ Scored(C) \subseteq DimensionsOf(C)
           /\ \A d \in DimensionsOf(C) : d \in Dimensions /\ DimensionWeight[d] \in Nat
           /\ \A d \in Scored(C) : DimensionWeight[d] > 0
           /\ Scored(C) = {d \in DimensionsOf(C) : DimensionWeight[d] > 0}
  <1>1. Scored(C) = {d \in DimensionsOf(C) : DimensionWeight[d] > 0}
    BY DEF Scored, DimensionsOf
  <1>2. IsFiniteSet(DimensionsOf(C))
    <2> DEFINE f == [c \in Counted(C) |-> c.dimension]
    <2>1. IsFiniteSet(Counted(C))
      BY FS_Subset DEF Counted, AreCriteria
    <2>2. DOMAIN f = Counted(C) /\ {f[c] : c \in DOMAIN f} = DimensionsOf(C)
      BY DEF DimensionsOf
    <2> HIDE DEF f
    <2> QED
      BY <2>1, <2>2, ImageIsFinite
  <1>3. IsFiniteSet(Scored(C))
    BY <1>1, <1>2, FS_Subset
  <1>4. \A d \in DimensionsOf(C) : d \in Dimensions
    BY DEF DimensionsOf, Counted, AreCriteria, IsCriterion
  <1>5. \A d \in Dimensions : DimensionWeight[d] \in Nat
    BY ScoringAssumption
  <1> QED
    BY <1>1, <1>3, <1>4, <1>5

LEMMA SharesAreBounded ==
    ASSUME NEW C, AreCriteria(C), NEW d \in Scored(C)
    PROVE  /\ Weighted(C)[d] = DimensionScore(C, d) * DimensionWeight[d]
           /\ Weighted(C)[d] \in Nat
           /\ Weighted(C)[d] <= 10000 * DimensionWeight[d]
  <1> DEFINE s == DimensionScore(C, d)
             w == DimensionWeight[d]
  <1>1. Weighted(C)[d] = s * w
    BY DEF Weighted
  <1>2. d \in DimensionsOf(C) /\ w \in Nat
    BY ScoredAreWeighed
  <1>3. s \in Nat /\ s <= 10000
    BY <1>2, DimensionIsMeasured
  <1> HIDE DEF s, w
  <1>4. s * w \in Nat /\ s * w <= 10000 * w
    BY <1>2, <1>3, TimesIsNat, TimesKeepsOrder
  <1> QED
    BY <1>1, <1>4 DEF s, w

LEMMA ScoreIsMean ==
    ASSUME NEW C, AreCriteria(C)
    PROVE  /\ Sum(C) \in Nat /\ Total(C) \in Nat /\ Sum(C) <= 10000 * Total(C)
           /\ Scored(C) = {} => Score(C) = NoScore
           /\ Scored(C) # {} => Total(C) # 0 /\ Score(C) = Mean(Sum(C), Total(C))
  <1> DEFINE S == Scored(C)
             f == Weighted(C)
  <1>1. IsFiniteSet(S) /\ \A d \in S : /\ DimensionWeight[d] \in Nat /\ DimensionWeight[d] > 0
                                       /\ f[d] \in Nat /\ f[d] <= 10000 * DimensionWeight[d]
    BY ScoredAreWeighed, SharesAreBounded
  <1>2. /\ Scored(C) = {} => Score(C) = NoScore
        /\ Scored(C) # {} => Score(C) = Mean(Sum(C), Total(C))
    BY DEF Score, Sum, Total, Weighted
  <1> HIDE DEF S, f
  <1>3. SumFunctionOnSet(f, S) \in Nat
    BY <1>1, SumIsNat
  <1>4. SumFunctionOnSet(DimensionWeight, S) \in Nat
    BY <1>1, SumIsNat
  <1>5. SumFunctionOnSet(f, S) <= 10000 * SumFunctionOnSet(DimensionWeight, S)
    <2> DEFINE c == 10000
    <2>1. c \in {1, 10000} /\ \A d \in S : /\ f[d] \in Nat /\ DimensionWeight[d] \in Nat
                                           /\ f[d] <= c * DimensionWeight[d]
      BY <1>1
    <2> HIDE DEF c
    <2>2. SumFunctionOnSet(f, S) <= c * SumFunctionOnSet(DimensionWeight, S)
      BY <1>1, <2>1, SumCompares
    <2> QED
      BY <2>2 DEF c
  <1>6. S # {} => SumFunctionOnSet(DimensionWeight, S) > 0
    BY <1>1, SumOfPositives
  <1>7. Sum(C) = SumFunctionOnSet(f, S) /\ Total(C) = SumFunctionOnSet(DimensionWeight, S)
    BY DEF f, S, Sum, Total
  <1>8. Scored(C) # {} => Total(C) # 0
    BY <1>4, <1>6, <1>7 DEF S
  <1> QED
    BY <1>2, <1>3, <1>4, <1>5, <1>7, <1>8

(* The dimensions that are scored with one criterion more.                 *)
LEMMA AdditionScores ==
    ASSUME NEW C, AreCriteria(C), NEW x, x \notin C, IsCriterion(x),
           x.verdict \in {"pass", "fail"}, Price(x) > 0
    PROVE  Scored(C \cup {x}) =
              IF DimensionWeight[x.dimension] > 0 THEN Scored(C) \cup {x.dimension}
              ELSE Scored(C)
  <1> DEFINE D == C \cup {x}
  <1>1. Counted(D) = Counted(C) \cup {x}
    BY CountsAddition
  <1> HIDE DEF D
  <1>2. Scored(D) = IF DimensionWeight[x.dimension] > 0 THEN Scored(C) \cup {x.dimension}
                    ELSE Scored(C)
    BY <1>1 DEF Scored
  <1> QED
    BY <1>2 DEF D

(* A fail lowers the score, if it is counted, and a pass raises it.        *)
LEMMA CountedMoves ==
    ASSUME NEW C, AreCriteria(C), NEW x, x \notin C, IsCriterion(x), Score(C) # NoScore,
           x.verdict \in {"pass", "fail"}, Price(x) > 0
    PROVE  /\ x.verdict = "fail" => Score(C \cup {x}) <= Score(C)
           /\ x.verdict = "pass" => Score(C) <= Score(C \cup {x})
  <1> DEFINE D == C \cup {x}
             e == x.dimension
             S == Scored(C)
             f == Weighted(C)
             g == Weighted(D)
             part == SumFunctionOnSet(g, S)
  <1>1. AreCriteria(D)
    BY WorthAdds
  <1>2. /\ IsFiniteSet(S) /\ S \subseteq DimensionsOf(C)
        /\ S = {d \in DimensionsOf(C) : DimensionWeight[d] > 0}
        /\ \A d \in S : DimensionWeight[d] \in Nat
    BY ScoredAreWeighed
  <1>3. Scored(D) = IF DimensionWeight[e] > 0 THEN S \cup {e} ELSE S
    BY AdditionScores
  <1>4. /\ Sum(C) \in Nat /\ Total(C) \in Nat \ {0} /\ S # {}
        /\ Score(C) = Mean(Sum(C), Total(C))
        /\ Sum(C) = SumFunctionOnSet(f, S) /\ Total(C) = SumFunctionOnSet(DimensionWeight, S)
    BY ScoreIsMean DEF Sum, Total
  <1>5. /\ Sum(D) \in Nat /\ Total(D) \in Nat \ {0}
        /\ Score(D) = Mean(Sum(D), Total(D))
        /\ Sum(D) = SumFunctionOnSet(g, Scored(D))
        /\ Total(D) = SumFunctionOnSet(DimensionWeight, Scored(D))
    <2>1. Scored(D) # {}
      BY <1>3, <1>4
    <2> HIDE DEF D
    <2> QED
      BY <1>1, <2>1, ScoreIsMean DEF Sum, Total
  (* The shares of the dimensions that were scored before.                 *)
  <1>6. \A d \in S : f[d] \in Nat
    BY SharesAreBounded
  <1>7. \A d \in Scored(D) : /\ g[d] \in Nat /\ g[d] <= 10000 * DimensionWeight[d]
                             /\ g[d] = DimensionScore(D, d) * DimensionWeight[d]
    <2> HIDE DEF D
    <2> QED
      BY <1>1, SharesAreBounded
  <1>8. S \subseteq Scored(D)
    BY <1>3
  <1>9. ASSUME NEW d \in S
        PROVE  /\ x.verdict = "fail" => g[d] <= f[d]
               /\ x.verdict = "pass" => f[d] <= g[d]
    <2>1. /\ d \in DimensionsOf(C) /\ d \in DimensionsOf(D) /\ d \in Scored(D)
          /\ DimensionWeight[d] \in Nat
      <3>1. Counted(D) = Counted(C) \cup {x}
        BY CountsAddition
      <3> QED
        BY <1>2, <1>8, <3>1 DEF DimensionsOf
    <2>2. DimensionScore(C, d) \in Nat /\ DimensionScore(D, d) \in Nat
      <3> HIDE DEF D
      <3> QED
        BY <1>1, <2>1, DimensionIsMeasured
    <2>3. /\ x.verdict = "fail" => DimensionScore(D, d) <= DimensionScore(C, d)
          /\ x.verdict = "pass" => DimensionScore(C, d) <= DimensionScore(D, d)
      BY <2>1, AdditionMoves
    <2>4. /\ f[d] = DimensionScore(C, d) * DimensionWeight[d]
          /\ g[d] = DimensionScore(D, d) * DimensionWeight[d]
      BY <1>7, <2>1, SharesAreBounded
    <2> HIDE DEF D, f, g
    <2> QED
      BY <2>1, <2>2, <2>3, <2>4, TimesKeepsOrder
  <1> HIDE DEF D, S, f, g
  <1>10. /\ part \in Nat
         /\ x.verdict = "fail" => part <= Sum(C)
         /\ x.verdict = "pass" => Sum(C) <= part
    <2>1. \A d \in S : f[d] \in Nat /\ g[d] \in Nat
      BY <1>6, <1>7, <1>8
    <2>2. part \in Nat
      BY <1>2, <2>1, SumIsNat
    <2> DEFINE one == 1
    <2>3. one \in {1, 10000} /\ \A n \in Nat : one * n = n
      OBVIOUS
    <2>4. ASSUME x.verdict = "fail" PROVE part <= Sum(C)
      <3>1. \A d \in S : g[d] <= one * f[d]
        BY <1>9, <2>1, <2>3, <2>4
      <3> HIDE DEF one
      <3>2. SumFunctionOnSet(g, S) <= one * SumFunctionOnSet(f, S)
        BY <1>2, <2>1, <2>3, <3>1, SumCompares
      <3> QED
        BY <1>4, <2>3, <3>2
    <2>5. ASSUME x.verdict = "pass" PROVE Sum(C) <= part
      <3>1. \A d \in S : f[d] <= one * g[d]
        BY <1>9, <2>1, <2>3, <2>5
      <3> HIDE DEF one
      <3>2. SumFunctionOnSet(f, S) <= one * SumFunctionOnSet(g, S)
        BY <1>2, <2>1, <2>3, <3>1, SumCompares
      <3> QED
        BY <1>4, <2>2, <2>3, <3>2
    <2> QED
      BY <2>2, <2>4, <2>5
  <1>11. part <= 10000 * Total(C)
    <2> DEFINE c == 10000
    <2>1. c \in {1, 10000} /\ \A d \in S : /\ g[d] \in Nat /\ DimensionWeight[d] \in Nat
                                           /\ g[d] <= c * DimensionWeight[d]
      BY <1>2, <1>7, <1>8
    <2> HIDE DEF c
    <2>2. part <= c * SumFunctionOnSet(DimensionWeight, S)
      BY <1>2, <2>1, SumCompares
    <2> QED
      BY <1>4, <2>2 DEF c
  (* The mean moves with the sum of these shares; then a new one joins.    *)
  <1>12. /\ x.verdict = "fail" => Mean(part, Total(C)) <= Mean(Sum(C), Total(C))
         /\ x.verdict = "pass" => Mean(Sum(C), Total(C)) <= Mean(part, Total(C))
    BY <1>4, <1>10, MeanMoves
  <1>13. CASE Scored(D) = S
    <2>1. Score(D) = Mean(part, Total(C))
      BY <1>4, <1>5, <1>13
    <2> QED
      BY <1>4, <1>12, <2>1 DEF D
  <1>14. CASE Scored(D) # S
    <2> DEFINE w == DimensionWeight[e]
    <2>1. /\ w > 0 /\ e \notin S /\ Scored(D) = S \cup {e}
      BY <1>3, <1>14
    <2>2. w \in Nat
      BY ScoringAssumption DEF IsCriterion
    <2>3. Total(D) = Total(C) + w
      <3>1. \A d \in S \cup {e} : DimensionWeight[d] \in Nat
        BY <1>2, <2>2
      <3>2. SumFunctionOnSet(DimensionWeight, S \cup {e})
              = w + SumFunctionOnSet(DimensionWeight, S)
        BY <1>2, <2>1, <3>1, SumAdds
      <3> QED
        BY <1>4, <1>5, <2>1, <2>2, <3>2
    <2>4. Sum(D) = g[e] + part
      <3>1. \A d \in S \cup {e} : g[d] \in Nat
        BY <1>7, <2>1
      <3> QED
        BY <1>2, <1>5, <2>1, <3>1, SumAdds
    <2>5. g[e] = IF x.verdict = "pass" THEN 10000 * w ELSE 0
      <3>1. e \notin DimensionsOf(C)
        BY <1>2, <2>1
      <3>2. DimensionScore(D, e) = IF x.verdict = "pass" THEN 10000 ELSE 0
        BY <3>1, FirstOfItsDimension DEF D
      <3>3. g[e] = DimensionScore(D, e) * w
        BY <1>7, <2>1
      <3> QED
        BY <2>2, <3>2, <3>3
    <2> HIDE DEF part, w, e
    <2>6. /\ Mean(part, Total(C)) \in Nat
          /\ Score(C) \in Nat /\ Score(D) \in Nat
      BY <1>4, <1>5, <1>10, MeanIsNat
    <2>7. ASSUME x.verdict = "fail" PROVE Score(D) <= Score(C)
      <3>1. Sum(D) = part /\ Total(D) = Total(C) + w
        BY <1>10, <2>3, <2>4, <2>5, <2>7
      <3>2. Mean(part, Total(C) + w) <= Mean(part, Total(C))
        BY <1>4, <1>10, <2>2, MeanMoves
      <3> QED
        BY <1>4, <1>5, <1>12, <2>6, <2>7, <3>1, <3>2
    <2>8. ASSUME x.verdict = "pass" PROVE Score(C) <= Score(D)
      <3>1. Sum(D) = part + 10000 * w /\ Total(D) = Total(C) + w
        BY <1>10, <2>2, <2>3, <2>4, <2>5, <2>8
      <3>2. Mean(part, Total(C)) <= Mean(part + 10000 * w, Total(C) + w)
        BY <1>4, <1>10, <1>11, <2>2, MeanMoves
      <3> QED
        BY <1>4, <1>5, <1>12, <2>6, <2>8, <3>1, <3>2
    <2> QED
      BY <2>7, <2>8 DEF D
  <1> QED
    BY <1>13, <1>14

LEMMA ScoreMoves ==
    ASSUME NEW C, AreCriteria(C), NEW x, x \notin C, IsCriterion(x), Score(C) # NoScore
    PROVE  /\ x.verdict = "fail" => Score(C \cup {x}) <= Score(C)
           /\ x.verdict = "pass" => Score(C) <= Score(C \cup {x})
           /\ x.verdict \notin {"pass", "fail"} => Score(C \cup {x}) = Score(C)
  <1>1. CASE x.verdict \in {"pass", "fail"} /\ Price(x) > 0
    BY <1>1, CountedMoves
  <1>2. CASE ~(x.verdict \in {"pass", "fail"} /\ Price(x) > 0)
    <2>1. Score(C \cup {x}) = Score(C)
      BY <1>2, CountsAddition, OnlyCountedScore
    <2>2. Score(C) \in Nat
      BY ScoreIsMean, MeanIsNat
    <2> QED
      BY <2>1, <2>2
  <1> QED
    BY <1>1, <1>2

-----------------------------------------------------------------------------
(* A run that has ended keeps its answers, and its score is theirs.        *)
Settled ==
    Ended => /\ Unanswered = {} /\ judging = {}
             /\ run.score # NoScore => run.score = Score(Criteria)

LEMMA InitSettled == Init => Settled
  BY DEF Init, Unscored, Settled, Ended

LEMMA StepSettled == Checked /\ Settled /\ [Next]_vars => Settled'
  <1> SUFFICES ASSUME Checked, Settled, [Next]_vars PROVE Settled'
    OBVIOUS
  <1>1. CASE UNCHANGED <<rules, answer, judging, run>>
    BY <1>1 DEF Settled, Ended, Unanswered, Criteria, Criterion
  <1>2. CASE Resolve
    <2>1. run = Unscored /\ rules = {} /\ judging = {}
      BY <1>2 DEF Checked, InOrder, Resolve
    <2>2. CASE run' = [run EXCEPT !.status = "completed"] /\ UNCHANGED <<request, engineVars>>
      <3>1. rules' = {} /\ judging' = {} /\ run'.score = NoScore
        BY <2>1, <2>2 DEF request, engineVars, Unscored
      <3> QED
        BY <3>1 DEF Settled, Unanswered
    <2>3. CASE run' = [run EXCEPT !.status = "running"]
      <3>1. ~Ended'
        BY <2>1, <2>3 DEF Ended, Unscored
      <3> QED
        BY <3>1 DEF Settled
    <2> QED
      BY <1>2, <2>2, <2>3 DEF Resolve
  <1>3. CASE EngineStep /\ UNCHANGED run
    <2>1. ASSUME Ended PROVE FALSE
      <3>1. Unanswered = {} /\ judging = {}
        BY <2>1 DEF Settled
      <3>2. InTurn = {}
        BY <3>1 DEF InTurn
      <3> QED
        BY <1>3, <3>1, <3>2 DEF EngineStep, Sample, Escalate, VoteIsOver
    <2>2. ~Ended'
      BY <1>3, <2>1 DEF Ended
    <2> QED
      BY <2>2 DEF Settled
  <1>4. CASE Persist
    <2>1. /\ Unanswered = {} /\ judging = {}
          /\ run'.score = Score(Criteria)
      BY <1>4 DEF Persist, ScoreCriteria
    <2>2. UNCHANGED <<rules, answer, judging>>
      BY <1>4 DEF Persist, request, engineVars
    <2>3. Unanswered' = {} /\ judging' = {} /\ Criteria' = Criteria
      BY <2>1, <2>2 DEF Unanswered, Criteria, Criterion
    <2>4. Score(Criteria)' = Score(Criteria)
      BY <2>3 DEF Score, Scored, DimensionScore, Counted
    <2> QED
      BY <2>1, <2>3, <2>4 DEF Settled
  <1>5. CASE UNCHANGED vars
    BY <1>1, <1>5 DEF vars, request, engineVars
  <1> QED
    BY <1>2, <1>3, <1>4, <1>5 DEF Next

LEMMA StaysSettled == Spec => [](Checked /\ Settled)
  <1>1. Init => Checked /\ Settled
    BY InitChecked, InitSettled
  <1>2. Checked /\ Settled /\ [Next]_vars => (Checked /\ Settled)'
    BY StepChecked, StepSettled
  <1> QED
    BY <1>1, <1>2, PTL DEF Spec

LEMMA AnswersAreCriteria ==
    ASSUME Checked
    PROVE  /\ AreCriteria(Criteria)
           /\ \A r \in DOMAIN answer : \A verdict : IsCriterion(Criterion(r, verdict))
  <1>1. DOMAIN answer \subseteq Rows
    BY RulesAreRows DEF Checked, InOrder
  <1>2. ASSUME NEW r \in DOMAIN answer, NEW verdict
        PROVE  IsCriterion(Criterion(r, verdict))
    <2>1. answer[r].severity \in Severities
      BY DEF Checked, Resolved, Answers
    <2>2. r.dimension \in Dimensions /\ r.weight \in Int
      BY <1>1, AnalysisAssumption, RulesAssumption
    <2> QED
      BY <2>1, <2>2 DEF IsCriterion, Criterion
  <1>3. IsFiniteSet(Criteria)
    <2> DEFINE f == [r \in DOMAIN answer |-> Criterion(r, answer[r].verdict)]
    <2>1. IsFiniteSet(DOMAIN answer)
      BY <1>1, RowsAssumption, FS_Subset
    <2>2. DOMAIN f = DOMAIN answer /\ {f[r] : r \in DOMAIN f} = Criteria
      BY DEF Criteria
    <2> HIDE DEF f
    <2> QED
      BY <2>1, <2>2, ImageIsFinite
  <1>4. \A c \in Criteria : IsCriterion(c)
    BY <1>2 DEF Criteria
  <1> QED
    BY <1>2, <1>3, <1>4 DEF AreCriteria

(* An abstention or a lack of evidence does not move the score of a check, *)
(* which lies between those that a fail and a pass in its place would have *)
(* given (scoreCriteria): whatever the weights of rules and dimensions,    *)
(* and in spite of the rounding.                                           *)
THEOREM GapsDoNotCount == Spec => []GapsAreNeutral
  <1>1. Checked /\ Settled => GapsAreNeutral
    <2> DEFINE mine(r) == Criterion(r, answer[r].verdict)
               others(r) == Criteria \ {mine(r)}
    <2> SUFFICES ASSUME Checked, Settled, run.status \in {"completed", "degraded"},
                        run.score # NoScore,
                        NEW r \in DOMAIN answer, answer[r].verdict \in Abstained
                 PROVE  /\ run.score = Score(others(r))
                        /\ Score(others(r) \cup {Criterion(r, "fail")}) <= run.score
                        /\ run.score <= Score(others(r) \cup {Criterion(r, "pass")})
      BY DEF GapsAreNeutral
    <2> DEFINE rest == others(r)
               fail == Criterion(r, "fail")
               pass == Criterion(r, "pass")
    <2>1. run.score = Score(Criteria)
      BY DEF Settled, Ended
    <2>2. mine(r) \in Criteria /\ rest \cup {mine(r)} = Criteria /\ mine(r) \notin rest
      BY DEF Criteria
    <2>3. fail \notin rest /\ pass \notin rest
      <3>1. ASSUME NEW c \in Criteria, c.rule = r PROVE c = mine(r)
        <4>1. PICK q \in DOMAIN answer : c = Criterion(q, answer[q].verdict)
          BY DEF Criteria
        <4>2. c.rule = q
          BY <4>1 DEF Criterion
        <4> QED
          BY <3>1, <4>1, <4>2
      <3>2. fail.rule = r /\ pass.rule = r
        BY DEF Criterion
      <3> QED
        BY <3>1, <3>2
    <2>4. /\ mine(r).verdict \notin {"pass", "fail"}
          /\ fail.verdict = "fail" /\ pass.verdict = "pass"
      BY DEF Criterion, Abstained
    <2>5. AreCriteria(rest)
      <3>1. rest \in SUBSET Criteria
        OBVIOUS
      <3> QED
        BY <3>1, AnswersAreCriteria, WorthOfPart
    <2>6. IsCriterion(mine(r)) /\ IsCriterion(fail) /\ IsCriterion(pass)
      BY AnswersAreCriteria
    <2> DEFINE whole == mine(r)
    <2>7. whole \notin rest /\ rest \cup {whole} = Criteria /\ IsCriterion(whole)
          /\ whole.verdict \notin {"pass", "fail"}
      BY <2>2, <2>4, <2>6
    <2> HIDE DEF rest, whole, fail, pass
    <2>8. Score(Criteria) = Score(rest)
      <3>1. Counted(rest \cup {whole}) = Counted(rest)
        BY <2>7, CountsAddition
      <3> QED
        BY <2>7, <3>1, OnlyCountedScore
    <2>9. Score(rest) # NoScore
      BY <2>1, <2>8
    <2>10. Score(rest \cup {fail}) <= Score(rest)
      BY <2>3, <2>4, <2>5, <2>6, <2>9, ScoreMoves
    <2>11. Score(rest) <= Score(rest \cup {pass})
      BY <2>3, <2>4, <2>5, <2>6, <2>9, ScoreMoves
    <2> QED
      BY <2>1, <2>8, <2>10, <2>11 DEF rest, fail, pass
  <1> QED
    BY <1>1, StaysSettled, PTL
=============================================================================
