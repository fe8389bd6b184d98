------------------------------- MODULE Settle -------------------------------
(***************************************************************************)
(* Closing a TerminateOwned scope: Owned.Close runs settle against a       *)
(* deadline and then closes the record store whatever settle answered.     *)
(* Verbs, drivers and processes of Scope run beside it.                    *)
(***************************************************************************)
EXTENDS Scope

VARIABLES
    expired,        \* settle's context has ended
    stopping,       \* adopted records settle still has to stop
    faults,         \* verbs whose settlement failed
    writing         \* the call whose operation the store's writer is in, if any

settlement == <<closer, expired, joining, awaited, stopping, faults>>
settleVars == <<scopeVars, settlement, writing>>

SettleTypeOK ==
    /\ ScopeTypeOK
    /\ closer \in {"idle", "settling", "closing", "done"}
    /\ expired \in BOOLEAN
    /\ joining \subseteq Verbs
    /\ awaited \subseteq Spawns
    /\ stopping \subseteq Adopts
    /\ faults \subseteq Verbs
    /\ writing \subseteq Verbs

SettleInit ==
    /\ Policy = "terminate"
    /\ ScopeInit
    /\ closer = "idle"
    /\ expired = FALSE
    /\ joining = {}
    /\ awaited = {}
    /\ stopping = {}
    /\ faults = {}
    /\ writing = {}

-----------------------------------------------------------------------------
(***************************************************************************)
(* The store's writer, one goroutine: a call sends it an operation, it     *)
(* writes and re-reads the record file, with no deadline of its own, and   *)
(* the call waits for the reply no longer than its context lasts.          *)
(***************************************************************************)

\* The calls that have a record to add, to roll back or to retire.
HasOp(v) ==
    \/ v \in Spawns /\ verb[v] \in {"forked", "unreleased"}
    \/ v \in Spawns /\ verb[v] \in {"released", "held"} /\ proc[v] = "gone" /\ exit[v] = "none"
    \/ v \in Adopts /\ verb[v] = "reserved"
    \/ v \in Adopts /\ verb[v] \in {"held", "stopped"} /\ proc[v] \notin LeaderUp

\* The writer takes an operation: a sender already at the channel may still win
\* the select against the closed signal.
Hand(v) ==
    /\ HasOp(v)
    /\ ~storeClosed
    /\ writing = {}
    /\ writing' = {v}
    /\ UNCHANGED <<scopeVars, settlement>>

\* A change of the records is the end of the operation the call sent.
ByWriter(v) == IF recs' = recs THEN UNCHANGED writing ELSE v \in writing /\ writing' = {}

\* The operation ends without its call: it failed, or the call gave up on the reply
\* first, and what it was to add or to remove may land all the same.
OpEnds(v) ==
    /\ v \in writing
    /\ writing' = {}
    /\ \/ recs' = recs
       \/ /\ verb[v] \in {"aborting", "failed", "unsettled"}
          /\ recs' \in {recs \cup {v}, recs \ {v}}
       \/ /\ proc[v] = "gone" \/ (v \in Adopts /\ verb[v] = "held" /\ proc[v] \notin LeaderUp)
          /\ recs' = recs \ {v}
    /\ UNCHANGED <<owner, verb, proc, storeClosed, demanded, exit, settlement>>

-----------------------------------------------------------------------------

\* One critical section closes admission and takes the three snapshots; the
\* demands that follow never block.
BeginSettle ==
    /\ closer = "idle"
    /\ closer' = "settling"
    /\ closed' = TRUE
    /\ joining' = starting
    /\ awaited' = children
    /\ stopping' = tracked
    /\ demanded' = demanded \cup children
    /\ UNCHANGED <<drain, admissions, starting, children, tracked, unproven, verb,
                   proc, recs, storeClosed, exit, expired, faults, writing>>

Expire ==
    /\ closer = "settling"
    /\ ~expired
    /\ expired' = TRUE
    /\ UNCHANGED <<scopeVars, closer, joining, awaited, stopping, faults, writing>>

\* res.done is closed: the child or the record the verb left on the reservation
\* joins what settle answers for.
JoinResolved(v) ==
    /\ closer = "settling"
    /\ v \in joining \ starting
    /\ joining' = joining \ {v}
    /\ LET left == verb[v] \in {"held", "stopped"}
       IN  /\ awaited' = IF left /\ v \in Spawns THEN awaited \cup {v} ELSE awaited
           /\ demanded' = IF left /\ v \in Spawns THEN demanded \cup {v} ELSE demanded
           /\ stopping' = IF left /\ v \in Adopts THEN stopping \cup {v} ELSE stopping
    /\ UNCHANGED <<owner, verb, proc, recs, storeClosed, exit, closer, expired, faults,
                   writing>>

\* Mutant of JoinExpires: the join of a reservation does not select on the context.
JoinUnbounded(v) ==
    /\ closer = "settling"
    /\ expired
    /\ v \in joining \ starting
    /\ joining' = joining \ {v}
    /\ faults' = faults \cup {v}
    /\ UNCHANGED <<scopeVars, closer, expired, awaited, stopping, writing>>

\* The deadline passed first, or at once with res.done.
JoinExpires(v) ==
    /\ closer = "settling"
    /\ expired
    /\ v \in joining
    /\ joining' = joining \ {v}
    /\ faults' = faults \cup {v}
    /\ UNCHANGED <<scopeVars, closer, expired, awaited, stopping, writing>>

\* The child's terminal arrived; an undetermined one is a fault.
ChildDone(v) ==
    /\ closer = "settling"
    /\ joining = {}
    /\ v \in awaited
    /\ exit[v] # "none"
    /\ awaited' = awaited \ {v}
    /\ faults' = IF exit[v] = "undetermined" THEN faults \cup {v} ELSE faults
    /\ UNCHANGED <<scopeVars, closer, expired, joining, stopping, writing>>

\* Mutant of ChildExpires: a child the deadline overtook is not reported.
ChildExpiresSilent(v) ==
    /\ closer = "settling"
    /\ joining = {}
    /\ expired
    /\ v \in awaited
    /\ awaited' = awaited \ {v}
    /\ UNCHANGED <<scopeVars, closer, expired, joining, stopping, faults, writing>>

ChildExpires(v) ==
    /\ closer = "settling"
    /\ joining = {}
    /\ expired
    /\ v \in awaited
    /\ awaited' = awaited \ {v}
    /\ faults' = faults \cup {v}
    /\ UNCHANGED <<scopeVars, closer, expired, joining, stopping, writing>>

\* Tracked.Stop from settle, in the loop after the children's.
StopSettled(v) ==
    /\ closer = "settling"
    /\ joining = {}
    /\ awaited = {}
    /\ v \in stopping
    /\ StopTracked(v)
    /\ ByWriter(v)
    /\ stopping' = stopping \ {v}
    /\ UNCHANGED <<closer, expired, joining, awaited, faults>>

StopFaults(v) ==
    /\ closer = "settling"
    /\ joining = {}
    /\ awaited = {}
    /\ v \in stopping
    /\ stopping' = stopping \ {v}
    /\ faults' = faults \cup {v}
    /\ UNCHANGED <<scopeVars, closer, expired, joining, awaited, writing>>

\* Store.Close signals the writer, faults or not, and waits for it.
CloseStore ==
    /\ closer = "settling"
    /\ joining = {}
    /\ awaited = {}
    /\ stopping = {}
    /\ closer' = "closing"
    /\ UNCHANGED <<scopeVars, expired, joining, awaited, stopping, faults, writing>>

\* Between two operations the writer sees the signal and goes; Close then releases
\* the lock and returns.
WriterLeaves ==
    /\ closer = "closing"
    /\ writing = {}
    /\ closer' = "done"
    /\ storeClosed' = TRUE
    /\ UNCHANGED <<owner, verb, proc, recs, demanded, exit, expired, joining,
                   awaited, stopping, faults, writing>>

SettleStep ==
    \/ BeginSettle
    \/ Expire
    \/ \E v \in Verbs :
          \/ JoinResolved(v) \/ JoinExpires(v)
          \/ ChildDone(v) \/ ChildExpires(v)
          \/ StopSettled(v) \/ StopFaults(v)
    \/ CloseStore
    \/ WriterLeaves

SettleVerbStep(v) == (ScopeStep(v) \/ Fork(v)) /\ ByWriter(v) /\ UNCHANGED settlement

SettleNext ==
    \/ SettleStep
    \/ \E v \in Verbs : SettleVerbStep(v) \/ Hand(v) \/ OpEnds(v)

\* A Close that began runs on, on its caller's goroutine, and its context ends at
\* a deadline.  The writer's select picks at random, so it does not prefer a sender
\* to the closed signal for ever.  Nothing is assumed of the verbs, the processes,
\* the drivers or the operation the writer is in.
Fairness ==
    /\ WF_settleVars(closer = "settling" /\ SettleStep)
    /\ SF_settleVars(WriterLeaves)

SettleSpec == SettleInit /\ [][SettleNext]_settleVars /\ Fairness

-----------------------------------------------------------------------------

\* The processes Close must answer for: what the scope started and what it holds
\* a record for.  An abort that wait4 could not prove and an adopted process its
\* caller released are the scope's no more.
Answerable(v) ==
    \/ v \in Spawns /\ verb[v] # "unsettled"
    \/ v \in Adopts /\ verb[v] = "held"

\* A process that outlives Close is named by one of the faults it returns, so a
\* Close without fault leaves none: neither a child registered before it, nor one
\* a racing Spawn, Run or Adopt was still starting, nor a session member that
\* outlives its leader, then or ever after.
SurvivorsFaulted ==
    closer = "done" => \A v \in Verbs :
        Answerable(v) /\ proc[v] \notin {"none", "gone"} => v \in faults

\* Close returns unless the store's writer is for ever inside one operation: that
\* operation, an fsync that hangs say, is all it waits for beyond its deadline, not
\* a verb that never finishes starting nor a process no signal dislodges.
CloseReturns == []<>(writing = {}) => (closer = "settling" ~> closer = "done")

\* Settle seen as the contract: an admitted call is pending until resolve takes its
\* reservation out of starting.
Contract == INSTANCE ScopeContract WITH
    pending <- starting,
    live <- {v \in Verbs : Answerable(v) /\ proc[v] \notin {"none", "gone"}},
    answered <- closer = "done",
    faulted <- IF closer = "done" THEN faults ELSE {}

\* Close keeps the contract the shutdown ladder builds on: nothing is admitted after
\* it began, a process comes up only from a call admitted before, and its answer
\* names every call that has a process or may still bring one up.
KeepsContract == Contract!Spec
=============================================================================
