---------------------------- MODULE CheckPromise ----------------------------
(***************************************************************************)
(* What the service promises whoever asks for a check, without jobs,       *)
(* executions and retries.  A run is judged, perhaps more than once, each  *)
(* time by all the rules of one ruleset at a stroke; a verdict may be      *)
(* repeated from one on record for the same rule of the same ruleset; a    *)
(* failure leaves no evidence; and in the end the outcome is announced.    *)
(***************************************************************************)
CONSTANTS Runs, Rulesets, Content, Verdicts

VARIABLES
    scope,     \* for each run that was asked for, the rulesets it may be judged by
    evidence,  \* the verdicts on record
    announced  \* what was announced of each run

promise == <<scope, evidence, announced>>

Init ==
    /\ scope = [r \in Runs |-> {}]
    /\ evidence = {}
    /\ announced = [r \in Runs |-> {}]

Ask(r) ==
    /\ scope[r] = {}
    /\ \/ \E h \in Rulesets : scope' = [scope EXCEPT ![r] = {h}]
       \/ scope' = [scope EXCEPT ![r] = Rulesets]
    /\ UNCHANGED <<evidence, announced>>

OnRecord(h, u, v) == \E t \in evidence : t.hash = h /\ t.rule = u /\ t.verdict = v

Judge(r) ==
    /\ \E h \in scope[r] : \E verdict \in [Content[h] -> Verdicts], replayed \in SUBSET Content[h] :
         /\ \A u \in replayed : OnRecord(h, u, verdict[u])
         /\ evidence' = evidence \cup
              {[run |-> r, hash |-> h, rule |-> u, verdict |-> verdict[u],
                cached |-> u \in replayed] : u \in Content[h]}
    /\ announced' = [announced EXCEPT ![r] = @ \cup {"check.completed"}]
    /\ UNCHANGED scope

Fail(r) ==
    /\ scope[r] # {}
    /\ announced' = [announced EXCEPT ![r] = @ \cup {"check.failed"}]
    /\ UNCHANGED <<scope, evidence>>

Next == \E r \in Runs : Ask(r) \/ Judge(r) \/ Fail(r)

(* What may never happen, and with it what must.                           *)
Safety == Init /\ [][Next]_promise

Spec == Safety /\ \A r \in Runs : scope[r] # {} ~> announced[r] # {}
=============================================================================
