------------------------------ MODULE MCSettle ------------------------------
(* Settle with one spawning call and one adopting call.                  *)
EXTENDS Settle

CONSTANTS s1, a1

MCSpawns == {s1}
MCAdopts == {a1}
=============================================================================
