------------------------------ MODULE MCServe -------------------------------
(* Serve with one session and one call into its scope.                     *)
EXTENDS Serve

CONSTANTS r1, v1

MCRequests == {r1}
MCVerbs == {v1}
=============================================================================
