---------------------------- MODULE MCDiscovery -----------------------------
EXTENDS Discovery

CONSTANTS shoes, boots, careers, s1, s2

MCSitemap == <<boots, careers, boots>>
MCLinks == [p \in Pages |-> IF p = shoes THEN <<boots>> ELSE <<shoes>>]
(* The boots were taken off the site.                                      *)
MCLanding == [p \in Pages |-> IF p = boots THEN shoes ELSE p]
MCRole == [p \in Pages |-> IF p = careers THEN "careers" ELSE "product"]
=============================================================================
