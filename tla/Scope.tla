------------------------------- MODULE Scope -------------------------------
(***************************************************************************)
(* One process-ownership scope, the type Owned of own.go, with the record  *)
(* store and the child drivers it delegates to.  A verb is one call of     *)
(* Spawn (or of Run, which spawns through the same steps) or of Adopt, and *)
(* it is used once, so a verb also names its reservation, its process      *)
(* scope, its record and its Child or Tracked handle.                      *)
(*                                                                         *)
(* This module holds the state and the steps both shutdown policies share; *)
(* Settle adds the closing of a TerminateOwned scope and NaturalDrain the  *)
(* leases and the closing of a PreserveOwned one.                          *)
(*                                                                         *)
(* The process behind a verb is a session: a leader and the members it     *)
(* forked.  A death by signal and an exit of its own are the same step,    *)
(* LeaderExit or MembersExit: what differs is only who waits for it.       *)
(***************************************************************************)
EXTENDS Naturals

CONSTANTS
    Spawns,     \* the calls of Spawn and Run
    Adopts,     \* the calls of Adopt
    Policy      \* the ShutdownPolicy fixed when the store opened

ASSUME ScopeAssumption ==
    /\ Policy \in {"terminate", "preserve"}
    /\ Spawns \cap Adopts = {}

Verbs == Spawns \cup Adopts

NoLease == 0    \* Owned.drain = nil

VARIABLES
    closed,         \* Owned.closed: admission is over
    drain,          \* Owned.drain: the lease that holds admission, or NoLease
    admissions,     \* Owned.admissions
    starting,       \* Owned.starting: reservations not yet resolved
    children,       \* Owned.children
    tracked,        \* Owned.tracked
    unproven,       \* reservations whose unproven flag is set
    verb,           \* how far each call has come
    proc,           \* the process scope behind each call
    recs,           \* the store's live records
    storeClosed,    \* Store.closed: writer gone and lock released
    demanded,       \* children whose demand channel was filled
    exit            \* the terminal a child's driver published

\* How far Owned.Close has come.  The steps of this module leave it alone; each
\* policy's module has the steps that move it.
VARIABLES
    closer,         \* where Close is: the names of its stages are the policy's
    joining,        \* reservations of its snapshot not yet joined
    awaited         \* children whose terminal it still waits for

owner == <<closed, drain, admissions, starting, children, tracked, unproven>>
scopeVars == <<owner, verb, proc, recs, storeClosed, demanded, exit>>

InFlight == {"reserved", "forked", "recorded", "released", "aborting", "unreleased"}
VerbState == {"idle", "failed", "unsettled", "held", "stopped"} \cup InFlight

Running == {"solo", "multi", "survivors"}   \* some process of the session runs
LeaderUp == {"solo", "multi"}
ProcState == {"none", "suspended", "gone"} \cup Running

ScopeTypeOK ==
    /\ closed \in BOOLEAN
    /\ drain \in Nat
    /\ admissions \in Nat
    /\ starting \subseteq Verbs
    /\ children \subseteq Spawns
    /\ tracked \subseteq Adopts
    /\ unproven \subseteq Verbs
    /\ verb \in [Verbs -> VerbState]
    /\ proc \in [Verbs -> ProcState]
    /\ recs \subseteq Verbs
    /\ storeClosed \in BOOLEAN
    /\ demanded \subseteq Spawns
    /\ exit \in [Spawns -> {"none", "proven", "undetermined"}]

\* The process an Adopt will name was started by its caller.
ScopeInit ==
    /\ closed = FALSE
    /\ drain = NoLease
    /\ admissions = 0
    /\ starting = {}
    /\ children = {}
    /\ tracked = {}
    /\ unproven = {}
    /\ verb = [v \in Verbs |-> "idle"]
    /\ proc = [v \in Verbs |-> IF v \in Adopts THEN "solo" ELSE "none"]
    /\ recs = {}
    /\ storeClosed = FALSE
    /\ demanded = {}
    /\ exit = [v \in Spawns |-> "none"]

-----------------------------------------------------------------------------
(***************************************************************************)
(* Admission and its resolution.                                           *)
(***************************************************************************)

\* Mutant of Reserve: the closed flag is not looked at.
ReserveClosed(v) ==
    /\ verb[v] = "idle"
    /\ drain = NoLease
    /\ admissions' = admissions + 1
    /\ starting' = starting \cup {v}
    /\ verb' = [verb EXCEPT ![v] = "reserved"]
    /\ UNCHANGED <<closed, drain, children, tracked, unproven, proc, recs,
                   storeClosed, demanded, exit>>

\* Under Owned.mu: a closed or leased scope refuses, otherwise the admission is
\* counted and the reservation joins starting.
Reserve(v) ==
    /\ verb[v] = "idle"
    /\ ~closed
    /\ drain = NoLease
    /\ admissions' = admissions + 1
    /\ starting' = starting \cup {v}
    /\ verb' = [verb EXCEPT ![v] = "reserved"]
    /\ UNCHANGED <<closed, drain, children, tracked, unproven, proc, recs,
                   storeClosed, demanded, exit>>

\* Mutant of Resolve: abandon resolves an unproven reservation too.
ResolveAlways(v, keep) ==
    /\ starting' = starting \ {v}
    /\ unproven' = IF keep THEN unproven \cup {v} ELSE unproven

\* abandon and resolve: an unproven reservation stays in starting for ever.
Resolve(v, keep) ==
    /\ starting' = IF keep THEN starting ELSE starting \ {v}
    /\ unproven' = IF keep THEN unproven \cup {v} ELSE unproven

-----------------------------------------------------------------------------
(***************************************************************************)
(* Spawn: suspended start, durable record, release, hold.                  *)
(***************************************************************************)

StartChild(v) ==
    /\ v \in Spawns
    /\ verb[v] = "reserved"
    /\ verb' = [verb EXCEPT ![v] = "forked"]
    /\ proc' = [proc EXCEPT ![v] = "suspended"]
    /\ UNCHANGED <<owner, recs, storeClosed, demanded, exit>>

\* The nonce, the plumbing or the fork failed: nothing was started.
StartFails(v) ==
    /\ v \in Spawns
    /\ verb[v] = "reserved"
    /\ verb' = [verb EXCEPT ![v] = "failed"]
    /\ Resolve(v, FALSE)
    /\ UNCHANGED <<closed, drain, admissions, children, tracked, proc, recs,
                   storeClosed, demanded, exit>>

\* Store.add returned nil: the record was written, re-read and found.
RecordChild(v) ==
    /\ v \in Spawns
    /\ verb[v] = "forked"
    /\ ~storeClosed
    /\ verb' = [verb EXCEPT ![v] = "recorded"]
    /\ recs' = recs \cup {v}
    /\ UNCHANGED <<owner, proc, storeClosed, demanded, exit>>

\* Mutant of RecordChildFails: the child is released whatever Store.add returned.
RecordChildUnchecked(v) ==
    /\ v \in Spawns
    /\ verb[v] = "forked"
    /\ verb' = [verb EXCEPT ![v] = "recorded"]
    /\ recs' \in {recs, IF storeClosed THEN recs ELSE recs \cup {v}}
    /\ UNCHANGED <<owner, proc, storeClosed, demanded, exit>>

\* Store.add failed: the record is absent, or it landed and could not be
\* rolled back.  A closed store takes no write at all.
RecordChildFails(v) ==
    /\ v \in Spawns
    /\ verb[v] = "forked"
    /\ verb' = [verb EXCEPT ![v] = "aborting"]
    /\ recs' \in {recs, IF storeClosed THEN recs ELSE recs \cup {v}}
    /\ UNCHANGED <<owner, proc, storeClosed, demanded, exit>>

\* releaseChild: SIGCONT (or the gate on linux); the driver starts with it.
ReleaseChild(v) ==
    /\ v \in Spawns
    /\ verb[v] = "recorded"
    /\ verb' = [verb EXCEPT ![v] = "released"]
    /\ proc' = [proc EXCEPT ![v] = "solo"]
    /\ UNCHANGED <<owner, recs, storeClosed, demanded, exit>>

ReleaseFails(v) ==
    /\ v \in Spawns
    /\ verb[v] = "recorded"
    /\ verb' = [verb EXCEPT ![v] = "unreleased"]
    /\ UNCHANGED <<owner, proc, recs, storeClosed, demanded, exit>>

\* abortSpawn proven: SIGKILL, then wait4 reaps it; a failed release also rolls
\* its record back, which a closed or failing store may refuse.
AbortProven(v) ==
    /\ v \in Spawns
    /\ verb[v] \in {"aborting", "unreleased"}
    /\ proc' = [proc EXCEPT ![v] = "gone"]
    /\ recs' \in {recs, IF verb[v] = "unreleased" /\ ~storeClosed THEN recs \ {v} ELSE recs}
    /\ verb' = [verb EXCEPT ![v] = "failed"]
    /\ Resolve(v, FALSE)
    /\ UNCHANGED <<closed, drain, admissions, children, tracked, storeClosed,
                   demanded, exit>>

\* abortSpawn unproven: wait4 failed, so the SIGKILLed child may still be there.
\* ErrUnsettled keeps the reservation under PreserveOwned only.
AbortUnproven(v) ==
    /\ v \in Spawns
    /\ verb[v] \in {"aborting", "unreleased"}
    /\ verb' = [verb EXCEPT ![v] = "unsettled"]
    /\ Resolve(v, Policy = "preserve")
    /\ UNCHANGED <<closed, drain, admissions, children, tracked, proc, recs,
                   storeClosed, demanded, exit>>

\* hold: registers the child and resolves the reservation in one critical
\* section, whether or not the scope is settling.
Hold(v) ==
    /\ v \in Spawns
    /\ verb[v] = "released"
    /\ verb' = [verb EXCEPT ![v] = "held"]
    /\ children' = children \cup {v}
    /\ Resolve(v, FALSE)
    /\ UNCHANGED <<closed, drain, admissions, tracked, proc, recs, storeClosed,
                   demanded, exit>>

-----------------------------------------------------------------------------
(***************************************************************************)
(* Adopt: probe, durable record, track; and the Tracked handle's verbs.    *)
(***************************************************************************)

\* A zombie still probes, so the process may already be gone.
RecordAdopted(v) ==
    /\ v \in Adopts
    /\ verb[v] = "reserved"
    /\ ~storeClosed
    /\ verb' = [verb EXCEPT ![v] = "recorded"]
    /\ recs' = recs \cup {v}
    /\ UNCHANGED <<owner, proc, storeClosed, demanded, exit>>

\* The probe answered ErrNoProcess: the leader is not in the process table.
AdoptNoProcess(v) ==
    /\ v \in Adopts
    /\ verb[v] = "reserved"
    /\ proc[v] \notin LeaderUp
    /\ verb' = [verb EXCEPT ![v] = "failed"]
    /\ Resolve(v, FALSE)
    /\ UNCHANGED <<closed, drain, admissions, children, tracked, proc, recs,
                   storeClosed, demanded, exit>>

\* Any other failure proves nothing of the process, so PreserveOwned keeps the
\* reservation.
AdoptFails(v) ==
    /\ v \in Adopts
    /\ verb[v] = "reserved"
    /\ recs' \in {recs, IF storeClosed THEN recs ELSE recs \cup {v}}
    /\ verb' = [verb EXCEPT ![v] = IF Policy = "preserve" THEN "unsettled" ELSE "failed"]
    /\ Resolve(v, Policy = "preserve")
    /\ UNCHANGED <<closed, drain, admissions, children, tracked, proc,
                   storeClosed, demanded, exit>>

Track(v) ==
    /\ v \in Adopts
    /\ verb[v] = "recorded"
    /\ verb' = [verb EXCEPT ![v] = "held"]
    /\ tracked' = tracked \cup {v}
    /\ Resolve(v, FALSE)
    /\ UNCHANGED <<closed, drain, admissions, children, proc, recs, storeClosed,
                   demanded, exit>>

\* Tracked.Stop, ObserveAndRetire, or Release of a PreserveOwned scope: the
\* exact scope was observed gone, its record removed, and the handle retired.
StopTracked(v) ==
    /\ v \in Adopts
    /\ verb[v] \in {"held", "stopped"}
    /\ proc[v] = "gone"
    /\ ~storeClosed
    /\ verb' = [verb EXCEPT ![v] = "stopped"]
    /\ recs' = recs \ {v}
    /\ tracked' = tracked \ {v}
    /\ UNCHANGED <<closed, drain, admissions, starting, children, unproven, proc,
                   storeClosed, demanded, exit>>

\* Tracked.Release of a TerminateOwned scope trusts the exit its caller waited
\* for, which is the leader's alone.
TrustRelease(v) ==
    /\ Policy = "terminate"
    /\ v \in Adopts
    /\ verb[v] = "held"
    /\ proc[v] \notin LeaderUp
    /\ ~storeClosed
    /\ verb' = [verb EXCEPT ![v] = "stopped"]
    /\ recs' = recs \ {v}
    /\ tracked' = tracked \ {v}
    /\ UNCHANGED <<closed, drain, admissions, starting, children, unproven, proc,
                   storeClosed, demanded, exit>>

-----------------------------------------------------------------------------
(***************************************************************************)
(* The process table.                                                      *)
(***************************************************************************)

\* The leader exits, or dies of a signal; a suspended child dies only of the
\* SIGKILL its abort sent.
LeaderExit(v) ==
    /\ \/ proc[v] \in LeaderUp
       \/ proc[v] = "suspended" /\ verb[v] = "unsettled"
    /\ proc' = [proc EXCEPT ![v] = IF proc[v] = "multi" THEN "survivors" ELSE "gone"]
    /\ UNCHANGED <<owner, verb, recs, storeClosed, demanded, exit>>

Fork(v) ==
    /\ proc[v] = "solo"
    /\ proc' = [proc EXCEPT ![v] = "multi"]
    /\ UNCHANGED <<owner, verb, recs, storeClosed, demanded, exit>>

\* The last member other than the leader leaves the session.
MembersExit(v) ==
    /\ proc[v] \in {"multi", "survivors"}
    /\ proc' = [proc EXCEPT ![v] = IF proc[v] = "multi" THEN "solo" ELSE "gone"]
    /\ UNCHANGED <<owner, verb, recs, storeClosed, demanded, exit>>

-----------------------------------------------------------------------------
(***************************************************************************)
(* The driver of a spawned child.                                          *)
(***************************************************************************)

\* A caller's Terminate, or a Run whose budget or output cap is spent.
Demand(v) ==
    /\ v \in Spawns
    /\ verb[v] = "held"
    /\ demanded' = demanded \cup {v}
    /\ UNCHANGED <<owner, verb, proc, recs, storeClosed, exit>>

\* The ladder may signal: always under TerminateOwned once the leader is gone,
\* and wherever a settlement was demanded.
MaySignal(v) == v \in demanded \/ (Policy = "terminate" /\ proc[v] \notin LeaderUp)

\* The leader's exit was reaped and its session observed empty: the record is
\* retired, at best, and the terminal published.  An undemanded driver of a
\* PreserveOwned scope goes away without a terminal when the store closes.
PublishProven(v) ==
    /\ v \in Spawns
    /\ verb[v] \in {"released", "held"}
    /\ exit[v] = "none"
    /\ proc[v] = "gone"
    /\ MaySignal(v) \/ ~storeClosed
    /\ exit' = [exit EXCEPT ![v] = "proven"]
    /\ recs' \in {recs, IF storeClosed THEN recs ELSE recs \ {v}}
    /\ UNCHANGED <<owner, verb, proc, storeClosed, demanded>>

\* A ladder ran to its deadline over a scope still in the process table: the
\* terminal proves nothing and the record is kept.
PublishUndetermined(v) ==
    /\ v \in Spawns
    /\ verb[v] \in {"released", "held"}
    /\ exit[v] = "none"
    /\ proc[v] \in Running
    /\ MaySignal(v)
    /\ exit' = [exit EXCEPT ![v] = "undetermined"]
    /\ UNCHANGED <<owner, verb, proc, recs, storeClosed, demanded>>

\* releaseOnExit: only a proven terminal unregisters the child.
ReleaseOnExit(v) ==
    /\ v \in children
    /\ exit[v] = "proven"
    /\ children' = children \ {v}
    /\ UNCHANGED <<closed, drain, admissions, starting, tracked, unproven, verb,
                   proc, recs, storeClosed, demanded, exit>>

-----------------------------------------------------------------------------

SpawnStep(v) ==
    \/ StartChild(v) \/ StartFails(v)
    \/ RecordChild(v) \/ RecordChildFails(v)
    \/ ReleaseChild(v) \/ ReleaseFails(v)
    \/ AbortProven(v) \/ AbortUnproven(v)
    \/ Hold(v)

AdoptStep(v) ==
    \/ RecordAdopted(v) \/ AdoptNoProcess(v) \/ AdoptFails(v) \/ Track(v)
    \/ StopTracked(v) \/ TrustRelease(v)

DriverStep(v) ==
    \/ PublishProven(v) \/ PublishUndetermined(v) \/ ReleaseOnExit(v)

ScopeStep(v) ==
    \/ Reserve(v)
    \/ SpawnStep(v)
    \/ AdoptStep(v)
    \/ DriverStep(v)
    \/ Demand(v)
    \/ LeaderExit(v)
    \/ MembersExit(v)

-----------------------------------------------------------------------------

\* A spawned process that runs has a record: the record was durable before its
\* first instruction and is dropped only once the whole session is gone, so a
\* crash at any moment leaves nothing the next generation cannot reclaim.
RecordedWhileRunning == \A v \in Spawns : proc[v] \in Running => v \in recs
-----------------------------------------------------------------------------

\* The inductive invariant of a scope, under both policies: what a call's progress
\* says about its process, its reservation, its record and its handle.
SpawnInv(v) ==
    /\ verb[v] # "stopped"
    /\ verb[v] \in {"idle", "reserved"} => proc[v] = "none"
    /\ verb[v] \in {"forked", "recorded", "aborting", "unreleased"} => proc[v] = "suspended"
    /\ verb[v] \in {"released", "held"} => proc[v] \in Running \cup {"gone"}
    /\ verb[v] = "failed" => proc[v] \in {"none", "gone"}
    /\ verb[v] = "unsettled" => proc[v] \in {"suspended", "gone"}
    /\ exit[v] = "proven" => proc[v] = "gone"
    /\ v \in children => verb[v] = "held"
    /\ verb[v] = "held" => v \in children \/ exit[v] = "proven"

AdoptInv(v) ==
    /\ verb[v] \in {"idle", "reserved", "recorded", "held", "stopped", "failed", "unsettled"}
    /\ proc[v] \in Running \cup {"gone"}
    /\ v \in tracked <=> verb[v] = "held"
    /\ Policy = "preserve" /\ verb[v] = "stopped" => proc[v] = "gone"

VerbInv(v) ==
    /\ v \in unproven <=> Policy = "preserve" /\ verb[v] = "unsettled"
    /\ v \in starting <=> verb[v] \in InFlight \/ v \in unproven
    /\ v \in Spawns \/ Policy = "preserve" =>
          (verb[v] \in {"recorded", "released", "held"} /\ proc[v] # "gone" => v \in recs)
    /\ v \in Spawns => SpawnInv(v)
    /\ v \in Adopts => AdoptInv(v)

ScopeInv == ScopeTypeOK /\ \A v \in Verbs : VerbInv(v)
=============================================================================
