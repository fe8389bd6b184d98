---------------------------- MODULE NaturalDrain ----------------------------
(***************************************************************************)
(* A PreserveOwned scope: the natural-drain lease of ownership_natural.go  *)
(* and the closing that observes without signaling.                        *)
(*                                                                         *)
(* A lease is taken by BeginNaturalDrain, waited on by Wait, which polls   *)
(* observations until one finds every recorded scope quiet, and ended by   *)
(* Commit or Abort.  An observation is not atomic: reservations are read   *)
(* under the lock, then the records, then one scope after the other.       *)
(* Callers keep every proof Wait gave them and may commit any of them.     *)
(***************************************************************************)
EXTENDS Scope

CONSTANTS
    MaxLeases,      \* bound: how many leases a behaviour may take
    MaxSerial       \* bound: how many proofs one lease may be given

ASSUME DrainAssumption == MaxLeases \in Nat /\ MaxSerial \in Nat

Leases == 1 .. MaxLeases

VARIABLES
    taken,      \* how many leases were taken; the newest is number taken
    lease,      \* each NaturalDrain
    wait,       \* each lease's Wait
    proofs,     \* the proofs handed out, as <<lease, serial>>
    retiring    \* records RetireQuiet still has to remove

drainVars == <<taken, lease, wait, proofs>>
closeVars == <<closer, joining, awaited, retiring>>
naturalVars == <<scopeVars, drainVars, closeVars>>

Lease == [producers : SUBSET Spawns, admissions : Nat, serial : Nat, committed : BOOLEAN]
Observation ==
    [pc : {"idle", "records", "probing", "complete"}, admissions : Nat,
     left : SUBSET Verbs, quiet : BOOLEAN]

NoWait == [pc |-> "idle", admissions |-> 0, left |-> {}, quiet |-> TRUE]

DrainTypeOK ==
    /\ ScopeTypeOK
    /\ taken \in 0 .. MaxLeases
    /\ lease \in [Leases -> Lease]
    /\ wait \in [Leases -> Observation]
    /\ proofs \subseteq (Leases \X Nat)
    /\ closer \in {"idle", "joining", "awaiting", "retiring", "released"}
    /\ joining \subseteq Verbs
    /\ awaited \subseteq Spawns
    /\ retiring \subseteq Verbs
    /\ drain \in 0 .. taken

DrainInit ==
    /\ Policy = "preserve"
    /\ ScopeInit
    /\ taken = 0
    /\ lease = [l \in Leases |-> [producers |-> {}, admissions |-> 0, serial |-> 0, committed |-> FALSE]]
    /\ wait = [l \in Leases |-> NoWait]
    /\ proofs = {}
    /\ closer = "idle"
    /\ joining = {}
    /\ awaited = {}
    /\ retiring = {}

-----------------------------------------------------------------------------
(***************************************************************************)
(* The lease.                                                              *)
(***************************************************************************)

Holds(l) == drain = l /\ ~lease[l].committed

BeginNaturalDrain(producers) ==
    /\ taken < MaxLeases
    /\ ~closed
    /\ drain = NoLease
    /\ producers \subseteq children
    /\ taken' = taken + 1
    /\ drain' = taken + 1
    /\ lease' = [lease EXCEPT ![taken + 1] =
                    [producers |-> producers, admissions |-> admissions,
                     serial |-> 0, committed |-> FALSE]]
    /\ UNCHANGED <<closed, admissions, starting, children, tracked, unproven, verb,
                   proc, recs, storeClosed, demanded, exit, wait, proofs, closeVars>>

\* Quiet: nothing lives in the scope but the exact leader of a producer.
Quiet(l, v) == proc[v] = "gone" \/ (v \in lease[l].producers /\ proc[v] = "solo")

\* Mutant of ObservePending: pending reservations are not reported.
ObserveUnpending(l) ==
    /\ wait[l].pc = "idle"
    /\ Holds(l)
    /\ lease[l].serial < MaxSerial
    /\ wait' = [wait EXCEPT ![l] = [pc |-> "records", admissions |-> admissions,
                                    left |-> {}, quiet |-> TRUE]]
    /\ UNCHANGED <<scopeVars, taken, lease, proofs, closeVars>>

\* observe, first critical section: the pending reservations, unproven ones
\* included, and the admission count.
ObservePending(l) ==
    /\ wait[l].pc = "idle"
    /\ Holds(l)
    /\ lease[l].serial < MaxSerial
    /\ wait' = [wait EXCEPT ![l] = [pc |-> "records", admissions |-> admissions,
                                    left |-> {}, quiet |-> starting = {}]]
    /\ UNCHANGED <<scopeVars, taken, lease, proofs, closeVars>>

\* Store.snapshot reads the writer's records; a closed store is an error.
ObserveRecords(l) ==
    /\ wait[l].pc = "records"
    /\ wait' = [wait EXCEPT ![l] = IF storeClosed THEN NoWait
                                   ELSE [@ EXCEPT !.pc = "probing", !.left = recs]]
    /\ UNCHANGED <<scopeVars, taken, lease, proofs, closeVars>>

\* observeScope of one record; a probe may also fail, which is uncertainty.
ObserveScope(l, v) ==
    /\ wait[l].pc = "probing"
    /\ v \in wait[l].left
    /\ \E found \in {Quiet(l, v), FALSE} :
          wait' = [wait EXCEPT ![l].left = @ \ {v}, ![l].quiet = @ /\ found]
    /\ UNCHANGED <<scopeVars, taken, lease, proofs, closeVars>>

\* observe, last critical section: the lease must still hold over the same
\* admissions, otherwise the observation is uncertain and Wait is busy.
ObserveEnd(l) ==
    /\ wait[l].pc = "probing"
    /\ wait[l].left = {}
    /\ wait' = [wait EXCEPT ![l] =
                    IF wait[l].quiet /\ Holds(l) /\ admissions = wait[l].admissions
                    THEN [@ EXCEPT !.pc = "complete"]
                    ELSE NoWait]
    /\ UNCHANGED <<scopeVars, taken, lease, proofs, closeVars>>

\* Wait on a complete observation: a proof of the next serial, or ErrDrainBusy.
Prove(l) ==
    /\ wait[l].pc = "complete"
    /\ wait' = [wait EXCEPT ![l] = NoWait]
    /\ IF Holds(l) /\ starting = {}
       THEN /\ lease' = [lease EXCEPT ![l].serial = @ + 1]
            /\ proofs' = proofs \cup {<<l, lease[l].serial + 1>>}
       ELSE UNCHANGED <<lease, proofs>>
    /\ UNCHANGED <<scopeVars, taken, closeVars>>

\* Mutant of Commit: the proof must be no older than the lease's last, of any lease.
CommitAnyLease(l, proof) ==
    /\ Holds(l)
    /\ proof[2] >= lease[l].serial
    /\ admissions = lease[l].admissions
    /\ starting = {}
    /\ lease' = [lease EXCEPT ![l].committed = TRUE]
    /\ closed' = TRUE
    /\ UNCHANGED <<drain, admissions, starting, children, tracked, unproven, verb,
                   proc, recs, storeClosed, demanded, exit, taken, wait, proofs, closeVars>>

\* Commit with any proof: one of this lease, of its last serial, over the
\* admissions the lease was taken at.
Commit(l, proof) ==
    /\ Holds(l)
    /\ proof = <<l, lease[l].serial>>
    /\ admissions = lease[l].admissions
    /\ starting = {}
    /\ lease' = [lease EXCEPT ![l].committed = TRUE]
    /\ closed' = TRUE
    /\ UNCHANGED <<drain, admissions, starting, children, tracked, unproven, verb,
                   proc, recs, storeClosed, demanded, exit, taken, wait, proofs, closeVars>>

Abort(l) ==
    /\ Holds(l)
    /\ ~closed
    /\ drain' = NoLease
    /\ UNCHANGED <<closed, admissions, starting, children, tracked, unproven, verb,
                   proc, recs, storeClosed, demanded, exit, drainVars, closeVars>>

-----------------------------------------------------------------------------
(***************************************************************************)
(* Owned.Close under PreserveOwned.  Any timeout or undetermined terminal  *)
(* returns an error and leaves records and lock; Close may be called again.*)
(***************************************************************************)

\* Mutant of BeginClose: the reservations in flight are not joined.
BeginCloseUnjoined ==
    /\ closer = "idle"
    /\ drain # NoLease => lease[drain].committed
    /\ closed' = TRUE
    /\ closer' = "joining"
    /\ joining' = {}
    /\ UNCHANGED <<drain, admissions, starting, children, tracked, unproven, verb, proc,
                   recs, storeClosed, demanded, exit, drainVars, awaited, retiring>>

BeginClose ==
    /\ closer = "idle"
    /\ drain # NoLease => lease[drain].committed
    /\ closed' = TRUE
    /\ closer' = "joining"
    /\ joining' = starting
    /\ UNCHANGED <<drain, admissions, starting, children, tracked, unproven, verb, proc,
                   recs, storeClosed, demanded, exit, drainVars, awaited, retiring>>

Joined(v) ==
    /\ closer = "joining"
    /\ v \in joining \ starting
    /\ joining' = joining \ {v}
    /\ UNCHANGED <<scopeVars, drainVars, closer, awaited, retiring>>

AwaitChildren ==
    /\ closer = "joining"
    /\ joining = {}
    /\ closer' = "awaiting"
    /\ awaited' = children
    /\ UNCHANGED <<scopeVars, drainVars, joining, retiring>>

ChildSettled(v) ==
    /\ closer = "awaiting"
    /\ v \in awaited
    /\ exit[v] = "proven"
    /\ awaited' = awaited \ {v}
    /\ UNCHANGED <<scopeVars, drainVars, closer, joining, retiring>>

BeginRetire ==
    /\ closer = "awaiting"
    /\ awaited = {}
    /\ closer' = "retiring"
    /\ retiring' = recs
    /\ UNCHANGED <<scopeVars, drainVars, joining, awaited>>

\* retireQuietScope: a fresh observation of the exact scope, then its record.
RetireQuiet(v) ==
    /\ closer = "retiring"
    /\ v \in retiring
    /\ proc[v] = "gone"
    /\ retiring' = retiring \ {v}
    /\ recs' = recs \ {v}
    /\ UNCHANGED <<owner, verb, proc, storeClosed, demanded, exit, drainVars,
                   closer, joining, awaited>>

\* The context ended, or a child's terminal proved nothing.
CloseFails ==
    /\ closer \in {"joining", "awaiting", "retiring"}
    /\ closer' = "idle"
    /\ joining' = {}
    /\ awaited' = {}
    /\ retiring' = {}
    /\ UNCHANGED <<scopeVars, drainVars>>

ReleaseStore ==
    /\ closer = "retiring"
    /\ retiring = {}
    /\ closer' = "released"
    /\ storeClosed' = TRUE
    /\ UNCHANGED <<owner, verb, proc, recs, demanded, exit, drainVars, joining,
                   awaited, retiring>>

-----------------------------------------------------------------------------

LeaseStep(l) ==
    \/ ObservePending(l) \/ ObserveRecords(l)
    \/ \E v \in Verbs : ObserveScope(l, v)
    \/ ObserveEnd(l) \/ Prove(l)
    \/ \E proof \in proofs : Commit(l, proof)
    \/ Abort(l)

CloserStep ==
    \/ BeginClose
    \/ \E v \in Verbs : Joined(v) \/ ChildSettled(v) \/ RetireQuiet(v)
    \/ AwaitChildren \/ BeginRetire \/ CloseFails \/ ReleaseStore

\* The caller's side of the lease: a producer stays paused while it is held.
Paused == IF drain = NoLease THEN {} ELSE lease[drain].producers

VerbStep(v) ==
    /\ ScopeStep(v) \/ (v \notin Paused /\ Fork(v))
    /\ UNCHANGED <<drainVars, closeVars>>

DrainNext ==
    \/ \E producers \in SUBSET Spawns : BeginNaturalDrain(producers)
    \/ \E l \in Leases : LeaseStep(l)
    \/ CloserStep
    \/ \E v \in Verbs : VerbStep(v)

DrainSpec == DrainInit /\ [][DrainNext]_naturalVars

-----------------------------------------------------------------------------

\* The processes the scope answers for: a spawned one, and an adopted one whose
\* registration began and was not answered ErrNoProcess.
Preserved(v) == v \in Spawns \/ verb[v] \notin {"idle", "failed"}

Committed == drain # NoLease /\ lease[drain].committed

\* A committed drain is quiet: no registration is pending or unproven, and the only
\* live processes are the leaders of the lease's producers, however the Wait, the
\* verbs admitted before the lease, other leases and Close interleaved.
CommittedQuiet ==
    Committed =>
        /\ starting = {}
        /\ \A v \in Verbs : Preserved(v) =>
              proc[v] = "none" \/ Quiet(drain, v)

\* Close releases the lock of a PreserveOwned scope only over nothing: no process,
\* no reservation whose abort or registration stayed unproven.
ReleasedQuiet ==
    closer = "released" =>
        /\ starting = {}
        /\ \A v \in Verbs : Preserved(v) => proc[v] \in {"none", "gone"}
=============================================================================
