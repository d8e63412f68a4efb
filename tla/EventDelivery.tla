---------------------------- MODULE EventDelivery ---------------------------
(***************************************************************************)
(* What the outbox promises a subscriber, without the relay: an event that *)
(* was recorded is never withdrawn, is told only after it was recorded,    *)
(* and in the end has been told to every endpoint that subscribes to it    *)
(* and still exists, unless it was tried MaxAttempts times.                *)
(***************************************************************************)
EXTENDS Naturals, FiniteSets

CONSTANTS Events, Endpoints, Subscribed, MaxAttempts

VARIABLES
    recorded,  \* events owed to the subscribers
    tries,     \* how often each was taken up for delivery
    told,      \* the <<event, endpoint>> acknowledged
    present    \* endpoints that have not been removed

promise == <<recorded, tries, told, present>>

Init ==
    /\ recorded = {}
    /\ tries = [e \in Events |-> 0]
    /\ told = {}
    /\ present = Endpoints

Record(e) ==
    /\ recorded' = recorded \cup {e}
    /\ UNCHANGED <<tries, told, present>>

(* Several events may be taken up at once.                                 *)
Try(batch) ==
    /\ batch \subseteq recorded
    /\ tries' = [e \in Events |-> tries[e] + IF e \in batch THEN 1 ELSE 0]
    /\ UNCHANGED <<recorded, told, present>>

Tell(e, p) ==
    /\ e \in recorded
    /\ tries[e] > 0
    /\ p \in Subscribed[e] \cap present
    /\ told' = told \cup {<<e, p>>}
    /\ UNCHANGED <<recorded, tries, present>>

Remove(p) ==
    /\ present' = present \ {p}
    /\ told' = {t \in told : t[2] # p}
    /\ UNCHANGED <<recorded, tries>>

Next ==
    \/ \E e \in Events : Record(e)
    \/ \E batch \in SUBSET Events : Try(batch)
    \/ \E e \in Events, p \in Endpoints : Tell(e, p)
    \/ \E p \in Endpoints : Remove(p)

Discharged(e) ==
    \/ tries[e] >= MaxAttempts
    \/ \A p \in Subscribed[e] \cap present : <<e, p>> \in told

(* What may never happen, and with it what must.                           *)
Safety == Init /\ [][Next]_promise

Spec == Safety /\ \A e \in Events : e \in recorded ~> Discharged(e)
=============================================================================
