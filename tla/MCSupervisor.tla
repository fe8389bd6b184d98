---------------------------- MODULE MCSupervisor ----------------------------
(* One label, two specifications of its service, one client.               *)
EXTENDS Supervisor, TLC

CONSTANTS s1, s2, c1, p1, p2

MCServices == {s1, s2}
MCPolicy == (s1 :> "always") @@ (s2 :> "onFailure")
MCClients == {c1}
MCPids == {p1, p2}
MCFaults == {"apply", "policy", "persist", "reap", "kill"}
=============================================================================
