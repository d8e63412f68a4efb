----------------------------- MODULE MCSessions -----------------------------
(* Values for the run of Sessions: one tab with two calls, and a page load.*)
EXTENDS Sessions, TLC

CONSTANTS c1, c2, t1

OneTab == c1 :> t1 @@ c2 :> t1
=============================================================================
