----------------------------- MODULE MCConverge ----------------------------
EXTENDS Converge, TLC

CONSTANTS c1, c2, b1, b2, b3

MCClients == {c1, c2}
MCBuilds == {b1, b2, b3}
MCForeign == {b3}

Course(call1, call2, want1, want2, first, on, instances) ==
    [calls |-> (c1 :> call1) @@ (c2 :> call2), wants |-> (c1 :> want1) @@ (c2 :> want2),
     first |-> first, layer |-> on, instances |-> instances]

\* One client alone with room for the service layer to start the daemon again,
\* and two that want different builds or opposite things over one instance: it
\* runs, is gone or is yet to be started when they call.  For Stop, which wants
\* no build, one of ours is as good as another.
MCCourses ==
    {Course("ensure", "none", b1, b1, first, on, n) :
        first \in MCBuilds, <<on, n>> \in {<<"launchd", 3>>, <<"supervisor", 2>>, <<"gone", 2>>}}
    \cup {Course("stop", "none", b1, b1, first, on, n) :
        first \in {b1, b3}, <<on, n>> \in {<<"launchd", 3>>, <<"supervisor", 3>>, <<"gone", 2>>}}
    \cup {Course("ensure", second, b2, b1, b1, "launchd", 1) : second \in {"ensure", "stop"}}
=============================================================================
