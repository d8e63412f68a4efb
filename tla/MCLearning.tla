----------------------------- MODULE MCLearning -----------------------------
(* Values for the run of Learning: a single finding.                       *)
EXTENDS Learning, TLC

CONSTANTS f1, s1

OneFinding == f1 :> s1
=============================================================================
