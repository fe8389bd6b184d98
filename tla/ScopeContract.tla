--------------------------- MODULE ScopeContract ---------------------------
(***************************************************************************)
(* What a TerminateOwned scope promises the code that closes it.  A call   *)
(* is pending from its admission to its resolution, a process is live from *)
(* the moment a pending call brings it up, and the one answer of a closing *)
(* names every call that may still have a process.                         *)
(***************************************************************************)
CONSTANT Verbs

VARIABLES
    closed,     \* admission is over
    pending,    \* calls admitted and not resolved
    live,       \* calls whose process the scope answers for
    answered,   \* the closing returned
    faulted     \* the calls its errors name

contractVars == <<closed, pending, live, answered, faulted>>

Init ==
    /\ closed = FALSE
    /\ pending = {}
    /\ live = {}
    /\ answered = FALSE
    /\ faulted = {}

Admit(v) ==
    /\ ~closed
    /\ pending' = pending \cup {v}
    /\ UNCHANGED <<closed, live, answered, faulted>>

\* Pending calls bring processes up and resolve, processes end.
Work ==
    /\ pending' \in SUBSET pending
    /\ live' \in SUBSET (live \cup pending)
    /\ UNCHANGED <<closed, answered, faulted>>

Close ==
    /\ ~closed
    /\ closed' = TRUE
    /\ UNCHANGED <<pending, live, answered, faulted>>

Answer ==
    /\ closed
    /\ ~answered
    /\ answered' = TRUE
    /\ faulted' \in {f \in SUBSET Verbs : pending \cup live \subseteq f}
    /\ UNCHANGED <<closed, pending, live>>

Next == (\E v \in Verbs : Admit(v)) \/ Work \/ Close \/ Answer

Spec == Init /\ [][Next]_contractVars
=============================================================================
