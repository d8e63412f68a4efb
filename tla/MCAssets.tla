------------------------------ MODULE MCAssets ------------------------------
(* Values for the run of Assets: one client registers by URL only, the     *)
(* other also uploads one of the two files that the URL serves.            *)
EXTENDS Assets

CONSTANTS a1, b1, b2, c1, c2, w1, w2

MCUploads == [c \in Clients |-> IF c = c1 THEN {} ELSE {b1}]
=============================================================================
