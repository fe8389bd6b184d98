---------------------------- MODULE MCGeneration ----------------------------
(* Generations of one label: two daemons of two eras and a scope of each   *)
(* policy.                                                                 *)
EXTENDS Generation

CONSTANTS d1, d2, s1, s2, c1

MCDaemons == {d1, d2}
MCScopes == {s1, s2}
MCChildren == {c1}

MCPolicy == [i \in Instances |-> IF i = s1 THEN "preserve" ELSE "terminate"]
MCEra == [i \in Instances |-> IF i = d2 THEN "era2" ELSE "era1"]
=============================================================================
