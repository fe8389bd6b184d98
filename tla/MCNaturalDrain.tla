--------------------------- MODULE MCNaturalDrain ---------------------------
(* NaturalDrain with one spawning call, one adopting call and two leases.  *)
EXTENDS NaturalDrain

CONSTANTS s1, a1

MCSpawns == {s1}
MCAdopts == {a1}

\* The bound on the instance: a behaviour either adopts or takes a second lease.
AdoptsOrLeasesAgain == taken < 2 \/ \A v \in Adopts : verb[v] = "idle"
=============================================================================
