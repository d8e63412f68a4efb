------------------------------ MODULE MCOutbox ------------------------------
(* Values for the runs of Outbox: one event with two subscribers, which    *)
(* may answer differently; or two events in one batch, to the second of    *)
(* which nobody listens.                                                   *)
EXTENDS Outbox, TLC

CONSTANTS e1, e2, p1, p2, r1, r2

FanOut == e1 :> {p1, p2}
Batch == (e1 :> {p1}) @@ (e2 :> {})

RelaySymmetry == Permutations({r1, r2})
=============================================================================
