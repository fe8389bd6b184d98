------------------------------- MODULE MCLane -------------------------------
(* The client's link, one business lane and one single-session lane.       *)
EXTENDS Lane

CONSTANTS k1, k2

MCCallers == {k1, k2}
=============================================================================
