----------------------------- MODULE MCSession -----------------------------
(* One session: three requests at once under a server that ends, and under *)
(* one whose queue is full; two and one where contexts end, writes break   *)
(* or the session is closed, aborted or reclaimed.  Channels and queues    *)
(* are scaled down, so that a few frames fill them.                        *)
EXTENDS Session

Course(requests, queue, trouble) == [requests |-> requests, queue |-> queue, trouble |-> trouble]

MCCourses ==
    {Course(3, 2, {}),
     Course(3, 1, {"server"}),
     Course(3, 1, {"late", "stall", "refuse"}),
     Course(2, 2, {"expire", "stall"}),
     Course(2, 1, {"abort", "write"}),
     Course(2, 2, {"abort", "write"}),
     Course(2, 1, {"idle", "close"}),
     Course(2, 2, {"ack", "close"}),
     Course(1, 2, {"expire", "close", "write"}),
     Course(1, 2, {"expire", "cancel"})}

\* Bound: the course of refused requests is followed while its session lasts.
Followed == "refuse" \in course.trouble => ~failed /\ ~stopped
============================================================================
