----------------------------- MODULE MCLaunchd ------------------------------
(* One label, two definitions of its agent.                                *)
EXTENDS Launchd

CONSTANTS d1, d2

MCDefs == {d1, d2}
=============================================================================
