---------------------------- MODULE ScopeProofs ----------------------------
(***************************************************************************)
(* Both ways of closing a process-ownership scope, for any number of       *)
(* calls, leases and proofs: Settle of a TerminateOwned scope and          *)
(* NaturalDrain of a PreserveOwned one.  The lemmas about the scope itself *)
(* come first; they hold under either policy.                              *)
(***************************************************************************)
EXTENDS Settle, NaturalDrain, TLAPS

USE DEF Verbs, NoLease, InFlight, VerbState, Running, LeaderUp, ProcState

\* The invariant holds of a fresh scope.
LEMMA ScopeInitInv == ScopeInit => ScopeInv
<1> SUFFICES ASSUME ScopeInit PROVE ScopeInv
  OBVIOUS
<1>1. ScopeTypeOK
  BY ZenonT(40) DEF ScopeInit, ScopeTypeOK
<1>2. ASSUME NEW v \in Verbs PROVE VerbInv(v)
  BY ScopeAssumption DEF ScopeInit, VerbInv, SpawnInv, AdoptInv
<1> QED
  BY <1>1, <1>2 DEF ScopeInv

\* A step that touches nothing of the scope keeps the invariant.
LEMMA ScopeStutterInv == ScopeInv /\ UNCHANGED scopeVars => ScopeInv'
BY DEF ScopeInv, ScopeTypeOK, VerbInv, SpawnInv, AdoptInv, scopeVars, owner

\* Admission keeps the invariant.
LEMMA ReserveInv ==
    ASSUME ScopeInv, NEW v \in Verbs, Reserve(v)
    PROVE  ScopeInv'
BY ScopeAssumption DEF ScopeInv, ScopeTypeOK, VerbInv, SpawnInv, AdoptInv, Reserve

\* Every step of a Spawn, its failures and its aborts included, keeps it.
LEMMA SpawnStepInv ==
    ASSUME ScopeInv, NEW v \in Verbs, SpawnStep(v)
    PROVE  ScopeInv'
<1> USE ScopeAssumption DEF ScopeInv, ScopeTypeOK, VerbInv, SpawnInv, AdoptInv, owner, Resolve
<1>1. CASE StartChild(v)
  BY <1>1 DEF StartChild
<1>2. CASE StartFails(v)
  BY <1>2 DEF StartFails
<1>3. CASE RecordChild(v)
  BY <1>3 DEF RecordChild
<1>4. CASE RecordChildFails(v)
  BY <1>4 DEF RecordChildFails
<1>5. CASE ReleaseChild(v)
  BY <1>5 DEF ReleaseChild
<1>6. CASE ReleaseFails(v)
  BY <1>6 DEF ReleaseFails
<1>7. CASE AbortProven(v)
  BY <1>7 DEF AbortProven
<1>8. CASE AbortUnproven(v)
  BY <1>8 DEF AbortUnproven
<1>9. CASE Hold(v)
  BY ZenonT(40), <1>9 DEF Hold
<1> QED
  BY ZenonT(40), <1>1, <1>2, <1>3, <1>4, <1>5, <1>6, <1>7, <1>8, <1>9 DEF SpawnStep

\* Every step of an Adopt and of the handle it returns keeps it.
LEMMA AdoptStepInv ==
    ASSUME ScopeInv, NEW v \in Verbs, AdoptStep(v)
    PROVE  ScopeInv'
<1> USE ScopeAssumption DEF ScopeInv, ScopeTypeOK, VerbInv, SpawnInv, AdoptInv, owner, Resolve
<1>1. CASE RecordAdopted(v)
  BY <1>1 DEF RecordAdopted
<1>2. CASE AdoptNoProcess(v)
  BY <1>2 DEF AdoptNoProcess
<1>3. CASE AdoptFails(v)
  BY <1>3 DEF AdoptFails
<1>4. CASE Track(v)
  BY <1>4 DEF Track
<1>5. CASE StopTracked(v)
  BY <1>5 DEF StopTracked
<1>6. CASE TrustRelease(v)
  BY ZenonT(40), <1>6 DEF TrustRelease
<1> QED
  BY ZenonT(40), <1>1, <1>2, <1>3, <1>4, <1>5, <1>6 DEF AdoptStep

\* Drivers, demands and the process table keep it.
LEMMA DriverStepInv ==
    ASSUME ScopeInv, NEW v \in Verbs,
           DriverStep(v) \/ Demand(v) \/ LeaderExit(v) \/ MembersExit(v) \/ Fork(v)
    PROVE  ScopeInv'
<1> USE ScopeAssumption DEF ScopeInv, ScopeTypeOK, VerbInv, SpawnInv, AdoptInv, owner
<1>1. CASE PublishProven(v)
  BY <1>1 DEF PublishProven
<1>2. CASE PublishUndetermined(v)
  BY <1>2 DEF PublishUndetermined
<1>3. CASE ReleaseOnExit(v)
  BY <1>3 DEF ReleaseOnExit
<1>4. CASE Demand(v)
  BY <1>4 DEF Demand
<1>5. CASE LeaderExit(v)
  BY <1>5 DEF LeaderExit
<1>6. CASE MembersExit(v)
  BY <1>6 DEF MembersExit
<1>7. CASE Fork(v)
  BY <1>7 DEF Fork
<1> QED
  BY ZenonT(40), <1>1, <1>2, <1>3, <1>4, <1>5, <1>6, <1>7 DEF DriverStep

\* Any step of the scope keeps the invariant.
LEMMA ScopeStepInv ==
    ASSUME ScopeInv, NEW v \in Verbs, ScopeStep(v) \/ Fork(v)
    PROVE  ScopeInv'
BY ReserveInv, SpawnStepInv, AdoptStepInv, DriverStepInv DEF ScopeStep

\* The invariant gives that a spawned process runs only while it is recorded.
LEMMA ScopeInvRecorded == ScopeInv => RecordedWhileRunning
BY DEF ScopeInv, ScopeTypeOK, VerbInv, SpawnInv, RecordedWhileRunning
-----------------------------------------------------------------------------
USE Zenon

(***************************************************************************)
(* Closing a TerminateOwned scope.                                         *)
(***************************************************************************)

Alive(v) == proc[v] \notin {"none", "gone"}

\* While Close runs, every process it answers for is still on one of its lists or
\* already faulted, and so is every call that may yet start one.
AccountInv ==
    /\ SettleTypeOK
    /\ closer # "idle" => closed
    /\ closer # "idle" => \A v \in Verbs :
          /\ Answerable(v) /\ Alive(v) => v \in joining \cup awaited \cup stopping \cup faults
          /\ verb[v] \in InFlight => v \in joining \cup faults
    /\ closer \in {"closing", "done"} => joining \cup awaited \cup stopping = {}

SettleInv == Policy = "terminate" /\ ScopeInv /\ AccountInv

\* The invariant holds before anything was called.
LEMMA SettleInitInv == SettleInit => SettleInv
BY ScopeInitInv DEF SettleInit, SettleInv, AccountInv, SettleTypeOK, ScopeInv

\* A step of a verb, a driver or a process keeps the closing invariant: a process
\* comes up only from a call that is in flight, and admission is over.
LEMMA SettleVerbStepInv ==
    ASSUME SettleInv, NEW v \in Verbs, SettleVerbStep(v)
    PROVE  AccountInv'
<1>1. ScopeInv'
  BY ScopeStepInv DEF SettleVerbStep, SettleInv
<1>2. SettleTypeOK' /\ UNCHANGED settlement
  BY <1>1 DEF SettleInv, AccountInv, SettleTypeOK, SettleVerbStep, ByWriter, ScopeInv, settlement
<1>3. closer # "idle" => closed /\ closed'
  <2>1. closer # "idle" => closed
    BY DEF SettleInv, AccountInv
  <2>2. ScopeStep(v) \/ Fork(v)
    BY DEF SettleVerbStep
  <2>3. closed' = closed
    BY <2>2
    DEF ScopeStep, SpawnStep, AdoptStep, DriverStep,
        Reserve, StartChild, StartFails, RecordChild, RecordChildFails, ReleaseChild,
        ReleaseFails, AbortProven, AbortUnproven, Hold, RecordAdopted, AdoptNoProcess,
        AdoptFails, Track, StopTracked, TrustRelease, PublishProven, PublishUndetermined,
        ReleaseOnExit, Demand, LeaderExit, MembersExit, Fork, owner
  <2> QED
    BY <2>1, <2>3
<1>4. ASSUME closer # "idle", NEW w \in Verbs
      PROVE  /\ verb'[w] \in InFlight => verb[w] \in InFlight
             /\ (Answerable(w) /\ Alive(w))' =>
                   (Answerable(w) /\ Alive(w)) \/ verb[w] \in InFlight
  <2>1. CASE w # v
    BY ZenonT(40), <1>3, <1>4, <2>1
    DEF Answerable, Alive, SettleInv, ScopeInv, ScopeTypeOK, SettleVerbStep, ScopeStep, SpawnStep, AdoptStep,
        DriverStep, Reserve, StartChild, StartFails, RecordChild, RecordChildFails, ReleaseChild,
        ReleaseFails, AbortProven, AbortUnproven, Hold, RecordAdopted, AdoptNoProcess,
        AdoptFails, Track, StopTracked, TrustRelease, PublishProven, PublishUndetermined,
        ReleaseOnExit, Demand, LeaderExit, MembersExit, Fork, owner
  <2>2. CASE w = v
    <3> USE <1>3, <1>4, <2>2 DEF Answerable, Alive, SettleInv, ScopeInv, ScopeTypeOK
    <3>1. CASE Reserve(v)
      BY <3>1 DEF Reserve
    <3>2. CASE SpawnStep(v)
      BY <3>2 DEF SpawnStep, StartChild, StartFails, RecordChild, RecordChildFails,
                  ReleaseChild, ReleaseFails, AbortProven, AbortUnproven, Hold
    <3>3. CASE AdoptStep(v)
      BY <3>3, ScopeAssumption
      DEF AdoptStep, RecordAdopted, AdoptNoProcess, AdoptFails, Track, StopTracked, TrustRelease
    <3>4. CASE DriverStep(v) \/ Demand(v)
      BY <3>4 DEF DriverStep, PublishProven, PublishUndetermined, ReleaseOnExit, Demand, owner
    <3>5. CASE LeaderExit(v) \/ MembersExit(v) \/ Fork(v)
      BY <3>5 DEF LeaderExit, MembersExit, Fork, owner
    <3> QED
      BY <3>1, <3>2, <3>3, <3>4, <3>5 DEF SettleVerbStep, ScopeStep
  <2> QED
    BY <2>1, <2>2
<1> QED
  BY <1>2, <1>3, <1>4 DEF SettleInv, AccountInv, settlement

\* A step of Close keeps both invariants.
LEMMA SettleStepInv ==
    ASSUME SettleInv, SettleStep
    PROVE  SettleInv'
<1> USE DEF SettleInv, AccountInv, SettleTypeOK, Answerable, Alive
<1>1. CASE BeginSettle
  <2>1. ScopeInv'
    BY ZenonT(40), <1>1 DEF BeginSettle, ScopeInv, ScopeTypeOK, VerbInv, SpawnInv, AdoptInv
  <2>2. ASSUME NEW v \in Verbs
        PROVE  /\ Answerable(v) /\ Alive(v) => v \in starting \cup children \cup tracked
               /\ verb[v] \in InFlight => v \in starting
    BY <2>2, ScopeAssumption DEF ScopeInv, ScopeTypeOK, VerbInv, SpawnInv, AdoptInv
  <2> QED
    BY <1>1, <2>1, <2>2 DEF BeginSettle, ScopeInv, ScopeTypeOK
<1>2. CASE Expire
  BY <1>2, ScopeStutterInv DEF Expire, scopeVars, owner, ScopeTypeOK
<1>3. ASSUME NEW v \in Verbs, JoinResolved(v)
      PROVE  SettleInv'
  <2>1. ScopeInv'
    BY SMT, <1>3 DEF JoinResolved, owner, ScopeInv, ScopeTypeOK, VerbInv, SpawnInv, AdoptInv
  <2>2. /\ verb[v] \notin InFlight
        /\ Answerable(v) /\ Alive(v) => verb[v] = "held"
    BY <1>3 DEF JoinResolved, ScopeInv, ScopeTypeOK, VerbInv, SpawnInv, AdoptInv
  <2> QED
    BY ZenonT(40), <1>3, <2>1, <2>2 DEF JoinResolved, owner, ScopeInv, ScopeTypeOK
<1>4. ASSUME NEW v \in Verbs, JoinExpires(v)
      PROVE  SettleInv'
  BY <1>4, ScopeStutterInv DEF JoinExpires, scopeVars, owner, ScopeTypeOK
<1>5. ASSUME NEW v \in Verbs, ChildDone(v)
      PROVE  SettleInv'
  <2>1. exit[v] = "undetermined" \/ ~ Alive(v)
    BY <1>5 DEF ChildDone, ScopeInv, ScopeTypeOK, VerbInv, SpawnInv
  <2> QED
    BY <1>5, <2>1, ScopeStutterInv DEF ChildDone, scopeVars, owner, ScopeTypeOK
<1>6. ASSUME NEW v \in Verbs, ChildExpires(v)
      PROVE  SettleInv'
  BY <1>6, ScopeStutterInv DEF ChildExpires, scopeVars, owner, ScopeTypeOK
<1>7. ASSUME NEW v \in Verbs, StopSettled(v)
      PROVE  SettleInv'
  <2>1. ScopeInv'
    BY <1>7, AdoptStepInv DEF StopSettled, AdoptStep
  <2>2. writing' \subseteq Verbs
    BY <1>7 DEF StopSettled, ByWriter
  <2> QED
    BY <1>7, <2>1, <2>2 DEF StopSettled, StopTracked, ScopeInv, ScopeTypeOK
<1>8. ASSUME NEW v \in Verbs, StopFaults(v)
      PROVE  SettleInv'
  BY <1>8, ScopeStutterInv DEF StopFaults, scopeVars, owner, ScopeTypeOK
<1>9. CASE CloseStore
  BY <1>9, ScopeStutterInv DEF CloseStore, scopeVars, owner, ScopeTypeOK
<1>10. CASE WriterLeaves
  <2>1. ScopeInv'
    BY ZenonT(40), <1>10 DEF WriterLeaves, owner, ScopeInv, ScopeTypeOK, VerbInv, SpawnInv, AdoptInv
  <2> QED
    BY <1>10, <2>1 DEF WriterLeaves, owner, ScopeTypeOK, ScopeInv
<1> QED
  BY <1>1, <1>2, <1>3, <1>4, <1>5, <1>6, <1>7, <1>8, <1>9, <1>10 DEF SettleStep

\* The writer keeps them: an operation that ends without its call adds or drops only
\* the record of a call that gave up or of a process that is gone.
LEMMA WriterStepInv ==
    ASSUME SettleInv, NEW v \in Verbs, Hand(v) \/ OpEnds(v)
    PROVE  SettleInv'
<1> USE DEF SettleInv, AccountInv, SettleTypeOK, Answerable, Alive
<1>1. CASE Hand(v)
  BY <1>1, ScopeStutterInv DEF Hand, scopeVars, owner, settlement, ScopeTypeOK
<1>2. CASE OpEnds(v)
  <2>1. recs' \subseteq Verbs /\ \A w \in Verbs \ {v} : w \in recs' <=> w \in recs
    BY <1>2 DEF OpEnds, ScopeInv, ScopeTypeOK
  <2>2. v \in Spawns /\ verb[v] \in {"recorded", "released", "held"} /\ proc[v] # "gone" =>
          (v \in recs => v \in recs')
    BY <1>2, ScopeAssumption DEF OpEnds
  <2>3. UNCHANGED <<owner, verb, proc, storeClosed, demanded, exit, settlement>> /\ writing' = {}
    BY <1>2 DEF OpEnds
  <2>4. ScopeTypeOK'
    BY <2>1, <2>3 DEF owner, ScopeInv, ScopeTypeOK
  <2>5. ASSUME NEW w \in Verbs PROVE VerbInv(w)'
    BY <2>1, <2>2, <2>3 DEF owner, ScopeInv, VerbInv, SpawnInv, AdoptInv
  <2> QED
    BY <2>3, <2>4, <2>5 DEF owner, settlement, ScopeInv
<1> QED
  BY <1>1, <1>2

\* The invariant holds throughout every behaviour of a closing scope.
THEOREM SettleInvariant == SettleSpec => []SettleInv
<1>1. SettleInv /\ [SettleNext]_settleVars => SettleInv'
  <2> SUFFICES ASSUME SettleInv, [SettleNext]_settleVars PROVE SettleInv'
    OBVIOUS
  <2>1. CASE SettleStep
    BY <2>1, SettleStepInv
  <2>2. ASSUME NEW v \in Verbs, SettleVerbStep(v) PROVE SettleInv'
    BY <2>2, SettleVerbStepInv, ScopeStepInv DEF SettleInv, SettleVerbStep
  <2>3. CASE UNCHANGED settleVars
    BY <2>3, ScopeStutterInv
    DEF SettleInv, AccountInv, SettleTypeOK, settleVars, settlement, Answerable, Alive, scopeVars, owner, ScopeInv
  <2> QED
    BY <2>1, <2>2, <2>3, WriterStepInv DEF SettleNext
<1> QED
  BY SettleInitInv, <1>1, PTL DEF SettleSpec

\* Owned.settle and Owned.Close, own.go: whatever a Close leaves alive it has
\* reported, for any number of racing Spawn, Run and Adopt calls.
THEOREM CloseAccounts == SettleSpec => []SurvivorsFaulted
<1>1. SettleInv => SurvivorsFaulted
  BY DEF SettleInv, AccountInv, SurvivorsFaulted, Alive
<1> QED
  BY SettleInvariant, <1>1, PTL

\* The fields of Owned and of a running Close keep their types.
THEOREM SettleType == SettleSpec => []SettleTypeOK
BY SettleInvariant, PTL DEF SettleInv, AccountInv

\* Store.spawn and the driver, under TerminateOwned: no spawned process ever runs
\* without its durable record.
THEOREM TerminateRecorded == SettleSpec => []RecordedWhileRunning
BY SettleInvariant, ScopeInvRecorded, PTL DEF SettleInv

-----------------------------------------------------------------------------
(***************************************************************************)
(* Settle implements ScopeContract.                                        *)
(***************************************************************************)

Live == {v \in Verbs : Answerable(v) /\ Alive(v)}

\* A step of a verb, a driver or a process other than an admission: reservations
\* are only resolved, and a process comes up only from a pending call.
LEMMA VerbStepWorks ==
    ASSUME SettleInv, NEW v \in Verbs, SettleVerbStep(v), ~Reserve(v)
    PROVE  /\ starting' \subseteq starting
           /\ Live' \subseteq Live \cup starting
           /\ UNCHANGED <<closed, settlement>>
<1> USE DEF SettleInv, ScopeInv, ScopeTypeOK
<1>1. SpawnStep(v) \/ AdoptStep(v) \/ DriverStep(v) \/ Demand(v)
      \/ LeaderExit(v) \/ MembersExit(v) \/ Fork(v)
  BY DEF SettleVerbStep, ScopeStep
<1>2. UNCHANGED settlement
  BY DEF SettleVerbStep
<1>3. /\ starting' \in {starting, starting \ {v}}
      /\ closed' = closed
      /\ \A w \in Verbs \ {v} : verb'[w] = verb[w] /\ proc'[w] = proc[w]
  <2>1. CASE SpawnStep(v)
    BY <2>1 DEF SpawnStep, StartChild, StartFails, RecordChild, RecordChildFails, ReleaseChild,
                ReleaseFails, AbortProven, AbortUnproven, Hold, Resolve, owner
  <2>2. CASE AdoptStep(v)
    BY <2>2 DEF AdoptStep, RecordAdopted, AdoptNoProcess, AdoptFails, Track, StopTracked,
                TrustRelease, Resolve, owner
  <2>3. CASE DriverStep(v) \/ Demand(v)
    BY <2>3 DEF DriverStep, PublishProven, PublishUndetermined, ReleaseOnExit, Demand, owner
  <2>4. CASE LeaderExit(v) \/ MembersExit(v) \/ Fork(v)
    BY <2>4 DEF LeaderExit, MembersExit, Fork, owner
  <2> QED
    BY <1>1, <2>1, <2>2, <2>3, <2>4
<1>4. (Answerable(v) /\ Alive(v))' => (Answerable(v) /\ Alive(v)) \/ verb[v] \in InFlight
  <2> USE DEF Answerable, Alive
  <2>1. CASE SpawnStep(v)
    BY <2>1 DEF SpawnStep, StartChild, StartFails, RecordChild, RecordChildFails,
                ReleaseChild, ReleaseFails, AbortProven, AbortUnproven, Hold
  <2>2. CASE AdoptStep(v)
    BY <2>2, ScopeAssumption
    DEF AdoptStep, RecordAdopted, AdoptNoProcess, AdoptFails, Track, StopTracked, TrustRelease
  <2>3. CASE DriverStep(v) \/ Demand(v)
    BY <2>3 DEF DriverStep, PublishProven, PublishUndetermined, ReleaseOnExit, Demand, owner
  <2>4. CASE LeaderExit(v) \/ MembersExit(v) \/ Fork(v)
    BY <2>4 DEF LeaderExit, MembersExit, Fork, owner
  <2> QED
    BY <1>1, <2>1, <2>2, <2>3, <2>4
<1>5. verb[v] \in InFlight => v \in starting
  BY DEF VerbInv
<1>6. \A w \in Verbs \ {v} : (Answerable(w) /\ Alive(w))' <=> Answerable(w) /\ Alive(w)
  BY <1>3 DEF Answerable, Alive
<1> QED
  BY <1>2, <1>3, <1>4, <1>5, <1>6 DEF Live

\* Closing, step by step: admission ends, nothing comes up, and the answer names
\* whatever may be left.
LEMMA CloserStepAnswers ==
    ASSUME SettleInv, SettleStep
    PROVE  /\ starting' = starting
           /\ Live' \subseteq Live
           /\ \/ UNCHANGED <<closed, closer>> /\ (closer = "done" => faults' = faults)
              \/ closer = "idle" /\ closer' = "settling" /\ closed' = TRUE /\ Live' = Live
              \/ /\ closer = "settling" /\ closer' = "closing" /\ closed' = closed
                 /\ Live' = Live
              \/ /\ closer = "closing" /\ closer' = "done" /\ closed /\ closed'
                 /\ Live' = Live /\ faults' = faults /\ faults \subseteq Verbs
                 /\ starting \cup Live \subseteq faults
<1> USE DEF SettleInv, ScopeInv, ScopeTypeOK
<1>1. ASSUME UNCHANGED <<verb, proc>> PROVE Live' = Live
  BY <1>1 DEF Live, Answerable, Alive
<1>2. CASE BeginSettle
  BY <1>1, <1>2 DEF BeginSettle
<1>3. CASE \/ Expire
           \/ \E v \in Verbs : JoinResolved(v) \/ JoinExpires(v) \/ ChildDone(v)
                               \/ ChildExpires(v) \/ StopFaults(v)
  BY <1>1, <1>3 DEF Expire, JoinResolved, JoinExpires, ChildDone, ChildExpires, StopFaults,
                    scopeVars, owner
<1>4. ASSUME NEW v \in Verbs, StopSettled(v)
      PROVE  /\ UNCHANGED <<starting, closed, closer, faults>>
             /\ Live' \subseteq Live
  BY <1>4 DEF StopSettled, StopTracked, Live, Answerable, Alive
<1>5. CASE CloseStore
  BY <1>1, <1>5 DEF CloseStore, scopeVars, owner
<1>6. CASE WriterLeaves
  <2>1. starting \cup Live \subseteq faults
    BY <1>6 DEF WriterLeaves, AccountInv, VerbInv, Live
  <2> QED
    BY <1>1, <1>6, <2>1 DEF WriterLeaves, owner, AccountInv, SettleTypeOK
<1> QED
  BY <1>2, <1>3, <1>4, <1>5, <1>6 DEF SettleStep

\* Owned.settle keeps the contract the shutdown ladder of Serve builds on.
THEOREM SettleKeepsContract == SettleSpec => KeepsContract
<1>1. SettleInit => Contract!Init
  BY ScopeAssumption
  DEF SettleInit, ScopeInit, Contract!Init, Answerable
<1>2. SettleInv /\ [SettleNext]_settleVars => [Contract!Next]_(Contract!contractVars)
  <2> SUFFICES ASSUME SettleInv, [SettleNext]_settleVars
               PROVE  [Contract!Next]_(Contract!contractVars)
    OBVIOUS
  <2>1. Live = {v \in Verbs : Answerable(v) /\ proc[v] \notin {"none", "gone"}}
    BY DEF Live, Alive
  <2>2. ASSUME NEW v \in Verbs, SettleVerbStep(v), Reserve(v) PROVE Contract!Admit(v)
    <3>1. Live' = Live
      <4>1. proc' = proc /\ \A w \in Verbs \ {v} : verb'[w] = verb[w]
        BY <2>2 DEF Reserve, SettleInv, ScopeInv, ScopeTypeOK
      <4>2. (Answerable(v) /\ Alive(v))' <=> Answerable(v) /\ Alive(v)
        BY <2>2, ScopeAssumption
        DEF Reserve, Answerable, Alive, SettleInv, ScopeInv, ScopeTypeOK, VerbInv, SpawnInv
      <4> QED
        BY <4>1, <4>2 DEF Live, Answerable, Alive
    <3>2. UNCHANGED <<closed, closer, faults>> /\ ~closed /\ starting' = starting \cup {v}
      BY <2>2 DEF Reserve, SettleVerbStep, settlement
    <3> QED
      BY <3>1, <3>2, <2>1 DEF Contract!Admit, Live, Alive
  <2>3. ASSUME NEW v \in Verbs, SettleVerbStep(v), ~Reserve(v) PROVE Contract!Work
    <3>1. /\ starting' \subseteq starting
          /\ Live' \subseteq Live \cup starting
          /\ UNCHANGED <<closed, closer, faults>>
      BY <2>3, VerbStepWorks DEF settlement
    <3> QED
      BY <3>1 DEF Contract!Work, Live, Alive
  <2>4. CASE SettleStep
    <3>1. starting' = starting /\ Live' \subseteq Live
      BY <2>4, CloserStepAnswers
    <3>2. CASE UNCHANGED <<closed, closer>> /\ (closer = "done" => faults' = faults)
      <4>1. Contract!Work
        BY <3>1, <3>2 DEF Contract!Work, Live, Alive
      <4> QED
        BY <4>1 DEF Contract!Next
    <3>3. CASE closer = "idle" /\ closer' = "settling" /\ closed' = TRUE /\ Live' = Live
      <4>1. Contract!Close \/ UNCHANGED Contract!contractVars
        BY <3>1, <3>3
        DEF Contract!Close, Contract!contractVars, Live, Alive, SettleInv, ScopeInv, ScopeTypeOK
      <4> QED
        BY <4>1 DEF Contract!Next
    <3>4. CASE closer = "settling" /\ closer' = "closing" /\ closed' = closed /\ Live' = Live
      <4>1. Contract!Work
        BY <3>1, <3>4 DEF Contract!Work, Live, Alive
      <4> QED
        BY <4>1 DEF Contract!Next
    <3>5. CASE /\ closer = "closing" /\ closer' = "done" /\ closed /\ closed'
               /\ Live' = Live /\ faults' = faults /\ faults \subseteq Verbs
               /\ starting \cup Live \subseteq faults
      <4>1. Contract!Answer
        BY <3>1, <3>5 DEF Contract!Answer, Live, Alive, SettleInv, ScopeInv, ScopeTypeOK
      <4> QED
        BY <4>1 DEF Contract!Next
    <3> QED
      BY <2>4, <3>2, <3>3, <3>4, <3>5, CloserStepAnswers
  <2>5. CASE UNCHANGED settleVars \/ \E v \in Verbs : Hand(v) \/ OpEnds(v)
    <3>1. UNCHANGED <<closed, starting, verb, proc, closer, faults>>
      BY <2>5 DEF settleVars, Hand, OpEnds, scopeVars, owner, settlement
    <3> QED
      BY <3>1 DEF Contract!contractVars, Answerable
  <2> QED
    BY <2>2, <2>3, <2>4, <2>5 DEF SettleNext, Contract!Next
<1> QED
  BY <1>1, <1>2, SettleInvariant, PTL DEF SettleSpec, KeepsContract, Contract!Spec

-----------------------------------------------------------------------------
(***************************************************************************)
(* Natural drain and the closing of a PreserveOwned scope.                 *)
(***************************************************************************)

Up(v) == Preserved(v) /\ proc[v] \notin {"none", "gone"}

\* What is live under lease l beyond the leaders of its producers.
Loud(l, v) == Up(v) /\ ~Quiet(l, v)

\* Why a proof can be trusted at Commit: leases are numbered once and for all, no
\* admission happens under a lease, so an observation that found nothing pending
\* and went past a scope found it quiet for as long as the lease is held.
DrainInv ==
    /\ DrainTypeOK
    /\ \A l \in Leases :
          /\ wait[l].pc # "idle" => l <= taken
          /\ drain = l /\ wait[l].pc # "idle" /\ wait[l].quiet => starting = {}
          /\ drain = l /\ wait[l].pc \in {"probing", "complete"} /\ wait[l].quiet =>
                \A v \in Verbs : Loud(l, v) => v \in wait[l].left
          /\ wait[l].pc = "complete" => wait[l].quiet /\ wait[l].left = {}
    /\ \A p \in proofs :
          /\ p[1] <= taken
          /\ drain = p[1] => starting = {} /\ \A v \in Verbs : ~Loud(p[1], v)
    /\ Committed => starting = {} /\ \A v \in Verbs : ~Loud(drain, v)

\* Why a Close that gets to the end leaves nothing.
CloseInv ==
    /\ Committed \/ closer # "idle" => closed
    /\ closer = "joining" => starting \subseteq joining
    /\ closer \in {"awaiting", "retiring", "released"} => starting = {}
    /\ closer = "retiring" => \A v \in Verbs : Up(v) => v \in retiring
    /\ closer = "released" => \A v \in Verbs : ~Up(v)

NaturalInv == Policy = "preserve" /\ ScopeInv /\ DrainInv /\ CloseInv

\* The invariant holds before anything was called.
LEMMA DrainInitInv == DrainInit => NaturalInv
<1> SUFFICES ASSUME DrainInit PROVE NaturalInv
  OBVIOUS
<1>1. ScopeInv
  BY ScopeInitInv DEF DrainInit
<1>2. DrainTypeOK
  BY SMT, <1>1, DrainAssumption
  DEF DrainInit, ScopeInv, DrainTypeOK, Lease, Observation, NoWait, Leases, ScopeInit
<1>3. DrainInv
  BY <1>2 DEF DrainInit, DrainInv, NoWait, Committed, ScopeInit
<1>4. CloseInv
  BY DEF DrainInit, CloseInv, Committed, ScopeInit
<1> QED
  BY <1>1, <1>3, <1>4 DEF NaturalInv, DrainInit

\* A live process of a scope with nothing pending has its record.
LEMMA UpRecorded ==
    ASSUME Policy = "preserve", ScopeInv, starting = {}, NEW v \in Verbs, Up(v)
    PROVE  v \in recs
BY ScopeAssumption
DEF Up, Preserved, ScopeInv, ScopeTypeOK, VerbInv, SpawnInv, AdoptInv

\* What a step of verb v does where admission is over and nothing is pending: no
\* process comes up, no producer's session grows.
LEMMA NothingComesUp ==
    ASSUME NaturalInv, NEW v \in Verbs, VerbStep(v), starting = {}, closed \/ drain # NoLease
    PROVE  /\ starting' = {}
           /\ \A w \in Verbs : Up(w)' => Up(w)
           /\ \A l \in Leases, w \in Verbs : drain = l /\ Loud(l, w)' => Loud(l, w)
<1>1. verb[v] \notin InFlight /\ ~Reserve(v)
  BY DEF NaturalInv, ScopeInv, VerbInv, Reserve
<1>2. ~SpawnStep(v)
  BY <1>1 DEF SpawnStep, StartChild, StartFails, RecordChild, RecordChildFails,
              ReleaseChild, ReleaseFails, AbortProven, AbortUnproven, Hold
<1>3. ~ (RecordAdopted(v) \/ AdoptNoProcess(v) \/ AdoptFails(v) \/ Track(v) \/ TrustRelease(v))
  BY <1>1 DEF NaturalInv, RecordAdopted, AdoptNoProcess, AdoptFails, Track, TrustRelease
<1> USE DEF Up, Loud, Quiet, Preserved, NaturalInv, ScopeInv, ScopeTypeOK
<1>4. UNCHANGED <<drain, starting, lease>>
  BY <1>1, <1>2, <1>3
  DEF VerbStep, drainVars, ScopeStep, AdoptStep, StopTracked, DriverStep, PublishProven,
      PublishUndetermined, ReleaseOnExit, Demand, LeaderExit, MembersExit, Fork, owner
<1>5. CASE StopTracked(v)
  BY <1>4, <1>5 DEF StopTracked
<1>6. CASE DriverStep(v) \/ Demand(v)
  BY <1>4, <1>6 DEF DriverStep, PublishProven, PublishUndetermined, ReleaseOnExit, Demand
<1>7. CASE LeaderExit(v) \/ MembersExit(v)
  BY <1>4, <1>7 DEF LeaderExit, MembersExit
<1>8. CASE v \notin Paused /\ Fork(v)
  BY SMT, <1>4, <1>8, DrainAssumption DEF Fork, Paused, Leases
<1> QED
  BY <1>1, <1>2, <1>3, <1>5, <1>6, <1>7, <1>8 DEF VerbStep, ScopeStep, AdoptStep

\* A step of a verb, a driver or a process keeps the invariant.
LEMMA VerbStepInv ==
    ASSUME NaturalInv, NEW v \in Verbs, VerbStep(v)
    PROVE  NaturalInv'
<1>1. ScopeInv'
  BY ScopeStepInv DEF VerbStep, NaturalInv
<1>2. UNCHANGED <<closed, drain, taken, lease, wait, proofs, closer, joining, awaited, retiring>>
  BY DEF VerbStep, drainVars, closeVars, ScopeStep, SpawnStep, AdoptStep, DriverStep,
         Reserve, StartChild, StartFails, RecordChild, RecordChildFails, ReleaseChild,
         ReleaseFails, AbortProven, AbortUnproven, Hold, RecordAdopted, AdoptNoProcess,
         AdoptFails, Track, StopTracked, TrustRelease, PublishProven, PublishUndetermined,
         ReleaseOnExit, Demand, LeaderExit, MembersExit, Fork, owner
<1>3. DrainTypeOK'
  BY <1>1, <1>2 DEF NaturalInv, DrainInv, DrainTypeOK, ScopeInv
<1>4. closed \/ drain # NoLease => starting' \subseteq starting
  <2>1. ASSUME closed \/ drain # NoLease, NEW w \in Verbs, w \in starting', w \notin starting
        PROVE  FALSE
    <3>1. verb[w] \notin InFlight /\ ~(verb[w] = "unsettled")
      BY <2>1, DrainAssumption DEF NaturalInv, ScopeInv, ScopeTypeOK, VerbInv
    <3>2. verb'[w] \in InFlight \/ verb'[w] = "unsettled"
      BY <1>1, <2>1 DEF ScopeInv, ScopeTypeOK, VerbInv
    <3>3. w = v
      BY <3>1, <3>2
      DEF NaturalInv, ScopeInv, ScopeTypeOK, VerbStep, ScopeStep, SpawnStep, AdoptStep, DriverStep,
          Reserve, StartChild, StartFails, RecordChild, RecordChildFails, ReleaseChild,
          ReleaseFails, AbortProven, AbortUnproven, Hold, RecordAdopted, AdoptNoProcess,
          AdoptFails, Track, StopTracked, TrustRelease, PublishProven, PublishUndetermined,
          ReleaseOnExit, Demand, LeaderExit, MembersExit, Fork
    <3> QED
      BY <2>1, <3>1, <3>2, <3>3
      DEF NaturalInv, ScopeInv, ScopeTypeOK, VerbStep, ScopeStep, SpawnStep, AdoptStep, DriverStep,
          Reserve, StartChild, StartFails, RecordChild, RecordChildFails, ReleaseChild,
          ReleaseFails, AbortProven, AbortUnproven, Hold, RecordAdopted, AdoptNoProcess,
          AdoptFails, Track, StopTracked, TrustRelease, PublishProven, PublishUndetermined,
          ReleaseOnExit, Demand, LeaderExit, MembersExit, Fork
  <2> QED
    BY <2>1, <1>1 DEF ScopeInv, ScopeTypeOK
<1>5. (closed \/ drain # NoLease) /\ starting = {} =>
         /\ starting' = {}
         /\ \A w \in Verbs : Up(w)' => Up(w)
         /\ \A l \in Leases, w \in Verbs : drain = l /\ Loud(l, w)' => Loud(l, w)
  BY NothingComesUp
<1>6. CloseInv'
  BY <1>2, <1>4, <1>5 DEF NaturalInv, CloseInv, Committed
<1>7. DrainInv'
  <2>1. ASSUME NEW l \in Leases, drain = l
        PROVE  l # NoLease
    BY SMT, <2>1 DEF Leases
  <2>2. ASSUME NEW p \in proofs
        PROVE  p[1] \in Leases
    BY <2>2 DEF NaturalInv, DrainInv, DrainTypeOK
  <2>3. Committed => drain \in Leases
    BY SMT, DrainAssumption DEF NaturalInv, DrainInv, DrainTypeOK, Committed, Leases
  <2> HIDE DEF Loud
  <2> QED
    BY <1>2, <1>3, <1>5, <2>1, <2>2, <2>3 DEF NaturalInv, DrainInv, Committed
<1> QED
  BY <1>1, <1>6, <1>7 DEF NaturalInv

\* Taking a lease keeps the invariant: its number is new, so no observation and no
\* proof is of it yet.
LEMMA BeginNaturalDrainInv ==
    ASSUME NaturalInv, NEW producers \in SUBSET Spawns, BeginNaturalDrain(producers)
    PROVE  NaturalInv'
<1>1. ScopeInv'
  <2>1. taken + 1 \in Nat
    BY SMT, DrainAssumption DEF NaturalInv, DrainInv, DrainTypeOK
  <2> QED
    BY ZenonT(40), <2>1 DEF BeginNaturalDrain, NaturalInv, ScopeInv, ScopeTypeOK, VerbInv, SpawnInv, AdoptInv
<1> USE DEF BeginNaturalDrain, NaturalInv
<1>2. taken + 1 \in Leases /\ closer = "idle" /\ ~Committed
  BY SMT, DrainAssumption DEF Leases, DrainInv, DrainTypeOK, CloseInv, Committed
<1>3. DrainTypeOK'
  BY SMTT(30), <1>1, <1>2, DrainAssumption
  DEF DrainTypeOK, DrainInv, ScopeInv, ScopeTypeOK, Lease, closeVars, Leases
<1>4. ~Committed'
  BY <1>2 DEF Committed, DrainInv, DrainTypeOK
<1>5. CloseInv'
  BY <1>2, <1>4 DEF CloseInv, closeVars
<1>6. wait[taken + 1].pc = "idle" /\ \A p \in proofs : p[1] # taken + 1
  BY SMT, <1>2, DrainAssumption DEF DrainInv, DrainTypeOK, Leases
<1>7. DrainInv'
  <2>1. ASSUME NEW l \in Leases
        PROVE  /\ wait[l].pc # "idle" => l <= taken + 1 /\ l # taken + 1
               /\ wait[l].pc = "complete" => wait[l].quiet /\ wait[l].left = {}
    BY SMT, <1>6, DrainAssumption DEF DrainInv, DrainTypeOK, Leases
  <2>2. ASSUME NEW p \in proofs
        PROVE  p[1] <= taken + 1 /\ p[1] # taken + 1
    BY SMT, <1>6, DrainAssumption DEF DrainInv, DrainTypeOK, Leases
  <2> QED
    BY <1>3, <1>4, <2>1, <2>2 DEF DrainInv
<1> QED
  BY <1>1, <1>5, <1>7

\* What the steps of a lease leave alone: every process, and what the lease's
\* producers are.
LEMMA LeaseStepLeaves ==
    ASSUME NaturalInv, NEW l \in Leases, LeaseStep(l)
    PROVE  /\ UNCHANGED <<taken, closeVars, starting, proc, verb, recs, storeClosed>>
           /\ \A v \in Verbs : Up(v)' <=> Up(v)
           /\ \A m \in Leases, v \in Verbs : Loud(m, v)' <=> Loud(m, v)
           /\ ScopeInv'
<1>1. lease \in [Leases -> Lease]
  BY DEF NaturalInv, DrainInv, DrainTypeOK
<1>2. ASSUME NEW m \in Leases PROVE lease'[m].producers = lease[m].producers
  <2>1. CASE Prove(l)
    BY SMT, <1>1, <1>2, <2>1 DEF Prove, Lease
  <2>2. CASE \E proof \in proofs : Commit(l, proof)
    BY SMT, <1>1, <1>2, <2>2 DEF Commit, Lease
  <2>3. lease' = lease \/ Prove(l) \/ \E proof \in proofs : Commit(l, proof)
    BY DEF LeaseStep, ObservePending, ObserveRecords, ObserveScope, ObserveEnd, Abort, drainVars
  <2> QED
    BY <2>1, <2>2, <2>3
<1> USE DEF LeaseStep, ObservePending, ObserveRecords, ObserveScope, ObserveEnd, Prove,
            Commit, Abort, scopeVars, owner, drainVars
<1>3. UNCHANGED <<taken, closeVars, starting, proc, verb, recs, storeClosed, admissions,
                  children, tracked, unproven, demanded, exit>>
  OBVIOUS
<1>4. drain' \in Nat /\ closed' \in BOOLEAN
  <2> USE DEF NaturalInv, ScopeInv, ScopeTypeOK
  <2>1. CASE \E proof \in proofs : Commit(l, proof)
    BY <2>1
  <2>2. CASE Abort(l)
    BY <2>2
  <2>3. \/ UNCHANGED <<drain, closed>>
        \/ \E proof \in proofs : Commit(l, proof)
        \/ Abort(l)
    OBVIOUS
  <2> QED
    BY <2>1, <2>2, <2>3
<1>5. ScopeInv'
  BY ZenonT(40), <1>3, <1>4 DEF NaturalInv, ScopeInv, ScopeTypeOK, VerbInv, SpawnInv, AdoptInv
<1> QED
  BY <1>2, <1>3, <1>5 DEF Up, Loud, Quiet, Preserved

\* The steps of an observation keep the invariant.
LEMMA ObserveInv ==
    ASSUME NaturalInv, NEW l \in Leases,
           \/ ObservePending(l) \/ ObserveRecords(l)
           \/ \E v \in Verbs : ObserveScope(l, v)
           \/ ObserveEnd(l)
    PROVE  NaturalInv'
<1>1. LeaseStep(l)
  BY DEF LeaseStep
<1>2. UNCHANGED <<scopeVars, taken, lease, proofs, closeVars>>
  BY DEF ObservePending, ObserveRecords, ObserveScope, ObserveEnd
<1>3. UNCHANGED <<drain, closed, starting>> /\ (Committed' <=> Committed)
  BY <1>2 DEF scopeVars, owner, Committed
<1>4. /\ \A v \in Verbs : Up(v)' <=> Up(v)
      /\ \A m \in Leases, v \in Verbs : Loud(m, v)' <=> Loud(m, v)
      /\ ScopeInv'
  BY <1>1, LeaseStepLeaves
<1>5. CloseInv'
  BY <1>2, <1>3, <1>4 DEF NaturalInv, CloseInv, closeVars
<1>6. \A m \in Leases \ {l} : wait'[m] = wait[m]
  BY DEF ObservePending, ObserveRecords, ObserveScope, ObserveEnd, NaturalInv, DrainInv, DrainTypeOK
<1>7. /\ wait' \in [Leases -> Observation]
      /\ wait'[l].pc # "idle" => l <= taken
      /\ drain = l /\ wait'[l].pc # "idle" /\ wait'[l].quiet => starting = {}
      /\ drain = l /\ wait'[l].pc \in {"probing", "complete"} /\ wait'[l].quiet =>
            \A v \in Verbs : Loud(l, v) => v \in wait'[l].left
      /\ wait'[l].pc = "complete" => wait'[l].quiet /\ wait'[l].left = {}
  <2> USE DEF NaturalInv, DrainInv, DrainTypeOK, Observation, NoWait
  <2>1. CASE ObservePending(l)
    <3>1. \E q \in BOOLEAN :
             /\ q <=> starting = {}
             /\ wait' = [wait EXCEPT ![l] = [pc |-> "records", admissions |-> admissions,
                                             left |-> {}, quiet |-> q]]
      BY <2>1 DEF ObservePending
    <3>2. admissions \in Nat /\ drain = l
      BY <2>1 DEF ObservePending, Holds, ScopeInv, ScopeTypeOK
    <3> QED
      BY SMT, <3>1, <3>2
  <2>2. CASE ObserveRecords(l)
    <3>1. starting = {} => \A v \in Verbs : Loud(l, v) => v \in recs
      BY UpRecorded DEF Loud
    <3>2. CASE storeClosed
      BY <2>2, <3>2 DEF ObserveRecords
    <3>3. CASE ~storeClosed
      <4>1. /\ wait[l].pc = "records"
            /\ wait' = [wait EXCEPT ![l] = [@ EXCEPT !.pc = "probing", !.left = recs]]
        BY <2>2, <3>3 DEF ObserveRecords
      <4>2. wait[l] \in Observation /\ recs \subseteq Verbs
        BY DEF ScopeInv, ScopeTypeOK
      <4>3. /\ wait'[l].pc = "probing" /\ wait'[l].left = recs
            /\ wait'[l].quiet = wait[l].quiet
        BY <4>1, <4>2
      <4>4. wait' \in [Leases -> Observation]
        BY <4>1, <4>2
      <4>5. l <= taken /\ (drain = l /\ wait[l].quiet => starting = {})
        BY <4>1
      <4> QED
        BY <3>1, <4>3, <4>4, <4>5
    <3> QED
      BY <3>2, <3>3
  <2>3. ASSUME NEW v \in Verbs, ObserveScope(l, v) PROVE <1>7!:
    <3>1. PICK found \in {Quiet(l, v), FALSE} :
             wait' = [wait EXCEPT ![l].left = @ \ {v}, ![l].quiet = @ /\ found]
      BY <2>3 DEF ObserveScope
    <3>2. found \in BOOLEAN /\ (found => ~Loud(l, v))
      BY DEF Quiet, Loud
    <3>3. wait[l].pc = "probing" /\ wait[l] \in Observation
      BY <2>3 DEF ObserveScope
    <3>4. /\ wait'[l].pc = "probing"
          /\ wait'[l].left = wait[l].left \ {v}
          /\ wait'[l].quiet => wait[l].quiet /\ found
      BY <3>1, <3>3
    <3>5. wait' \in [Leases -> Observation]
      BY <3>1, <3>2, <3>3
    <3>6. /\ l <= taken
          /\ drain = l /\ wait[l].quiet => starting = {}
          /\ drain = l /\ wait[l].quiet => \A w \in Verbs : Loud(l, w) => w \in wait[l].left
      BY <3>3
    <3> HIDE DEF Loud, NaturalInv, DrainInv, DrainTypeOK
    <3> QED
      BY <3>2, <3>4, <3>5, <3>6
  <2>4. CASE ObserveEnd(l)
    BY ZenonT(40), <2>4 DEF ObserveEnd
  <2> QED
    BY <2>1, <2>2, <2>3, <2>4
<1>8. DrainTypeOK'
  BY <1>2, <1>3, <1>4, <1>7 DEF NaturalInv, DrainInv, DrainTypeOK, ScopeInv, closeVars
<1>9. DrainInv'
  <2>1. ASSUME NEW p \in proofs PROVE p[1] \in Leases
    BY DEF NaturalInv, DrainInv, DrainTypeOK
  <2>2. Committed => drain \in Leases
    BY SMT, DrainAssumption DEF NaturalInv, DrainInv, DrainTypeOK, Committed, Leases
  <2> HIDE DEF Loud
  <2> QED
    BY <1>2, <1>3, <1>4, <1>6, <1>7, <1>8, <2>1, <2>2 DEF NaturalInv, DrainInv, Committed
<1> QED
  BY <1>4, <1>5, <1>9 DEF NaturalInv

\* Handing out a proof, committing one and aborting the lease keep the invariant.
LEMMA ProveCommitAbortInv ==
    ASSUME NaturalInv, NEW l \in Leases,
           Prove(l) \/ (\E proof \in proofs : Commit(l, proof)) \/ Abort(l)
    PROVE  NaturalInv'
<1>1. LeaseStep(l)
  BY DEF LeaseStep
<1>2. /\ UNCHANGED <<taken, closeVars, starting>>
      /\ \A v \in Verbs : Up(v)' <=> Up(v)
      /\ \A m \in Leases, v \in Verbs : Loud(m, v)' <=> Loud(m, v)
      /\ ScopeInv'
  BY <1>1, LeaseStepLeaves
<1>3. \A p \in proofs : p[1] \in Leases
  BY DEF NaturalInv, DrainInv, DrainTypeOK
<1>4. Committed => drain \in Leases
  BY SMT, DrainAssumption DEF NaturalInv, DrainInv, DrainTypeOK, Committed, Leases
<1>5. CASE Prove(l)
  <2>1. /\ UNCHANGED <<drain, closed>>
        /\ wait[l].pc = "complete"
        /\ wait' = [wait EXCEPT ![l] = NoWait]
    BY <1>5 DEF Prove, scopeVars, owner
  <2>2. \A m \in Leases : /\ lease'[m].committed = lease[m].committed
                          /\ m = l \/ wait'[m] = wait[m]
    BY SMT, <1>5, <2>1 DEF Prove, NaturalInv, DrainInv, DrainTypeOK, Lease
  <2>3. wait'[l].pc = "idle"
    BY <2>1 DEF NoWait, NaturalInv, DrainInv, DrainTypeOK
  <2>4. lease' \in [Leases -> Lease] /\ proofs' \subseteq Leases \X Nat
    <3>1. lease \in [Leases -> Lease] /\ proofs \subseteq Leases \X Nat
      BY DEF NaturalInv, DrainInv, DrainTypeOK
    <3>2. \A r \in Lease : [r EXCEPT !.serial = @ + 1] \in Lease /\ r.serial + 1 \in Nat
      BY SMT DEF Lease
    <3> QED
      BY SMT, <1>5, <3>1, <3>2 DEF Prove
  <2>5. DrainTypeOK'
    BY <1>2, <2>1, <2>4 DEF NaturalInv, DrainInv, DrainTypeOK, closeVars, ScopeInv, Observation, NoWait
  <2>6. Committed' <=> Committed
    BY SMT, <1>4, <2>1, <2>2, DrainAssumption DEF Committed, NaturalInv, DrainInv, DrainTypeOK, Leases
  <2>7. CloseInv'
    BY <1>2, <2>1, <2>6 DEF NaturalInv, CloseInv, closeVars
  <2>8. \A p \in proofs' : p \in proofs \/ (p[1] = l /\ drain = l)
    BY SMT, <1>5 DEF Prove, Holds
  <2>9. l <= taken /\ (drain = l => starting = {} /\ \A v \in Verbs : ~Loud(l, v))
    BY <2>1 DEF NaturalInv, DrainInv
  <2> HIDE DEF Loud
  <2>10. DrainInv'
    BY ZenonT(40), <1>2, <1>3, <1>4, <2>1, <2>2, <2>3, <2>5, <2>6, <2>8, <2>9 DEF NaturalInv, DrainInv, Committed
  <2> QED
    BY <1>2, <2>7, <2>10 DEF NaturalInv
<1>6. ASSUME NEW proof \in proofs, Commit(l, proof) PROVE NaturalInv'
  <2>1. /\ UNCHANGED <<drain, wait, proofs>> /\ closed' = TRUE
        /\ drain = l /\ proof[1] = l
        /\ lease' = [lease EXCEPT ![l].committed = TRUE]
    BY <1>6 DEF Commit, Holds
  <2>2. DrainTypeOK'
    <3>1. lease \in [Leases -> Lease]
      BY DEF NaturalInv, DrainInv, DrainTypeOK
    <3>2. \A r \in Lease : [r EXCEPT !.committed = TRUE] \in Lease
      BY DEF Lease
    <3>3. lease' \in [Leases -> Lease]
      BY <2>1, <3>1, <3>2
    <3> QED
      BY <1>2, <2>1, <3>3 DEF NaturalInv, DrainInv, DrainTypeOK, closeVars, ScopeInv
  <2>3. CloseInv'
    BY <1>2, <2>1 DEF NaturalInv, CloseInv, closeVars
  <2> HIDE DEF Loud
  <2>4. DrainInv'
    BY <1>2, <1>3, <2>1, <2>2 DEF NaturalInv, DrainInv, Committed
  <2> QED
    BY <1>2, <2>3, <2>4 DEF NaturalInv
<1>7. CASE Abort(l)
  <2>1. drain' = 0 /\ UNCHANGED <<closed, lease, wait, proofs>> /\ ~closed
    BY <1>7 DEF Abort, drainVars
  <2>2. \A m \in Leases : m # 0
    BY SMT DEF Leases
  <2>3. DrainTypeOK'
    BY SMT, <1>2, <2>1 DEF NaturalInv, DrainInv, DrainTypeOK, closeVars, ScopeInv
  <2>4. CloseInv'
    BY <1>2, <2>1 DEF NaturalInv, CloseInv, closeVars, Committed
  <2>5. DrainInv'
    BY <1>2, <1>3, <2>1, <2>2, <2>3 DEF NaturalInv, DrainInv, Committed
  <2> QED
    BY <1>2, <2>4, <2>5 DEF NaturalInv
<1> QED
  BY <1>5, <1>6, <1>7

\* Closing keeps the invariant: no reservation is left when its join ends, and a
\* live process then has the record RetireQuiet must observe gone.
LEMMA CloserStepInv ==
    ASSUME NaturalInv, CloserStep
    PROVE  NaturalInv'
<1>1. /\ UNCHANGED <<drainVars, drain, starting, proc, verb>>
      /\ closed' = closed \/ BeginClose
  BY DEF CloserStep, BeginClose, Joined, ChildSettled, RetireQuiet, AwaitChildren, BeginRetire,
         CloseFails, ReleaseStore, scopeVars, owner, drainVars
<1>2. UNCHANGED <<taken, lease, wait, proofs>>
  BY <1>1 DEF drainVars
<1>3. /\ \A v \in Verbs : Up(v)' <=> Up(v)
      /\ \A m \in Leases, v \in Verbs : Loud(m, v)' <=> Loud(m, v)
      /\ Committed' <=> Committed
  BY <1>1, <1>2 DEF Up, Loud, Quiet, Preserved, Committed
<1>4. ScopeInv'
  <2> USE DEF NaturalInv, ScopeInv, ScopeTypeOK, VerbInv, SpawnInv, AdoptInv
  <2>1. CASE BeginClose
    BY ZenonT(40), <2>1 DEF BeginClose
  <2>2. ASSUME NEW v \in Verbs, RetireQuiet(v) PROVE ScopeInv'
    BY ZenonT(40), <2>2 DEF RetireQuiet, owner
  <2>3. CASE ReleaseStore
    BY ZenonT(40), <2>3 DEF ReleaseStore, owner
  <2> HIDE DEF NaturalInv, ScopeInv, ScopeTypeOK, VerbInv, SpawnInv, AdoptInv
  <2>4. CASE \/ \E v \in Verbs : Joined(v) \/ ChildSettled(v)
             \/ AwaitChildren \/ BeginRetire \/ CloseFails
    BY <2>4, ScopeStutterInv
    DEF NaturalInv, Joined, ChildSettled, AwaitChildren, BeginRetire, CloseFails
  <2> QED
    BY <2>1, <2>2, <2>3, <2>4 DEF CloserStep
<1>5. /\ DrainTypeOK'
      /\ CloseInv'
  <2> USE DEF NaturalInv, DrainInv, CloseInv, DrainTypeOK, ScopeInv, ScopeTypeOK
  <2>1. CASE BeginClose
    BY <1>2, <1>3, <1>4, <2>1 DEF BeginClose
  <2>2. ASSUME NEW v \in Verbs, Joined(v) PROVE DrainTypeOK' /\ CloseInv'
    BY <1>1, <1>2, <1>3, <1>4, <2>2 DEF Joined, scopeVars, owner
  <2>3. ASSUME NEW v \in Verbs, ChildSettled(v) PROVE DrainTypeOK' /\ CloseInv'
    BY ZenonT(40), <1>1, <1>2, <1>3, <1>4, <2>3 DEF ChildSettled, scopeVars, owner
  <2>4. ASSUME NEW v \in Verbs, RetireQuiet(v) PROVE DrainTypeOK' /\ CloseInv'
    <3>1. /\ closer = "retiring" /\ proc[v] = "gone"
          /\ retiring' = retiring \ {v}
          /\ UNCHANGED <<closed, closer, joining, awaited>>
      BY <2>4 DEF RetireQuiet, owner
    <3>2. DrainTypeOK'
      BY <1>1, <1>2, <1>4, <3>1
    <3>3. ~Up(v)
      BY <3>1 DEF Up
    <3> HIDE DEF DrainInv, DrainTypeOK, ScopeInv, ScopeTypeOK
    <3>4. CloseInv'
      BY <1>1, <1>3, <3>1, <3>3
    <3> QED
      BY <3>2, <3>4
  <2>5. CASE AwaitChildren
    BY ZenonT(40), <1>1, <1>2, <1>3, <1>4, <2>5 DEF AwaitChildren, scopeVars, owner
  <2>6. CASE BeginRetire
    BY ZenonT(40), <1>1, <1>2, <1>3, <1>4, <2>6, UpRecorded DEF BeginRetire, scopeVars, owner
  <2>7. CASE CloseFails
    BY ZenonT(40), <1>1, <1>2, <1>3, <1>4, <2>7 DEF CloseFails, scopeVars, owner
  <2>8. CASE ReleaseStore
    BY <1>1, <1>2, <1>3, <1>4, <2>8 DEF ReleaseStore, owner
  <2> QED
    BY <2>1, <2>2, <2>3, <2>4, <2>5, <2>6, <2>7, <2>8 DEF CloserStep
<1>6. DrainInv'
  <2>1. \A p \in proofs : p[1] \in Leases
    BY DEF NaturalInv, DrainInv, DrainTypeOK
  <2>2. Committed => drain \in Leases
    BY SMT, DrainAssumption DEF NaturalInv, DrainInv, DrainTypeOK, Committed, Leases
  <2> HIDE DEF Loud
  <2> QED
    BY <1>1, <1>2, <1>3, <1>5, <2>1, <2>2 DEF NaturalInv, DrainInv
<1> QED
  BY <1>4, <1>5, <1>6 DEF NaturalInv

\* The inductive invariant of a PreserveOwned scope.
THEOREM DrainInvariant == DrainSpec => []NaturalInv
<1>1. NaturalInv /\ [DrainNext]_naturalVars => NaturalInv'
  <2> SUFFICES ASSUME NaturalInv, [DrainNext]_naturalVars PROVE NaturalInv'
    OBVIOUS
  <2>1. ASSUME NEW producers \in SUBSET Spawns, BeginNaturalDrain(producers) PROVE NaturalInv'
    BY <2>1, BeginNaturalDrainInv
  <2>2. ASSUME NEW l \in Leases, LeaseStep(l) PROVE NaturalInv'
    BY <2>2, ObserveInv, ProveCommitAbortInv DEF LeaseStep
  <2>3. CASE CloserStep
    BY <2>3, CloserStepInv
  <2>4. ASSUME NEW v \in Verbs, VerbStep(v) PROVE NaturalInv'
    BY <2>4, VerbStepInv
  <2>5. CASE UNCHANGED naturalVars
    <3>1. ScopeInv'
      BY <2>5, ScopeStutterInv DEF NaturalInv, naturalVars
    <3>2. /\ UNCHANGED <<scopeVars, drainVars, closeVars>>
          /\ UNCHANGED <<taken, lease, wait, proofs, closer, joining, awaited, retiring>>
          /\ UNCHANGED <<closed, drain, starting, verb, proc>>
      BY <2>5 DEF naturalVars, drainVars, closeVars, scopeVars, owner
    <3>3. DrainTypeOK'
      BY <3>1, <3>2 DEF NaturalInv, DrainInv, DrainTypeOK, ScopeInv
    <3> QED
      BY <3>1, <3>2, <3>3 DEF NaturalInv, DrainInv, CloseInv, Up, Loud, Quiet, Preserved, Committed
  <2> QED
    BY <2>1, <2>2, <2>3, <2>4, <2>5 DEF DrainNext
<1> QED
  BY DrainInitInv, <1>1, PTL DEF DrainSpec

\* NaturalDrain.Commit: a committed drain is quiet, whatever number of calls,
\* leases and proofs there were and however they interleaved.
THEOREM CommitIsQuiet == DrainSpec => []CommittedQuiet
<1>1. NaturalInv => CommittedQuiet
  <2> SUFFICES ASSUME NaturalInv, Committed, NEW v \in Verbs, Preserved(v)
               PROVE  starting = {} /\ (proc[v] = "none" \/ Quiet(drain, v))
    BY DEF CommittedQuiet, NaturalInv, DrainInv
  <2> QED
    BY DEF NaturalInv, DrainInv, Loud, Up, Quiet
<1> QED
  BY DrainInvariant, <1>1, PTL

\* settleNatural: the lock of a PreserveOwned scope is released only over nothing.
THEOREM ReleaseIsQuiet == DrainSpec => []ReleasedQuiet
<1>1. NaturalInv => ReleasedQuiet
  BY DEF NaturalInv, CloseInv, ReleasedQuiet, Up
<1> QED
  BY DrainInvariant, <1>1, PTL

\* The fields of Owned, of its leases and of a running Close keep their types.
THEOREM DrainType == DrainSpec => []DrainTypeOK
BY DrainInvariant, PTL DEF NaturalInv, DrainInv

\* Store.spawn and the driver, under PreserveOwned: no spawned process ever runs
\* without its durable record.
THEOREM PreserveRecorded == DrainSpec => []RecordedWhileRunning
BY DrainInvariant, ScopeInvRecorded, PTL DEF NaturalInv
=============================================================================
