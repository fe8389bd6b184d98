-------------------------- MODULE GenerationProofs --------------------------
(***************************************************************************)
(* The generations of one label: the lock's holder, the path and the owner *)
(* block; the children that Recover spares; and, while every generation    *)
(* writes the same schema, that what runs is recorded and is reclaimed.    *)
(***************************************************************************)
EXTENDS Generation, TLAPS

USE Zenon

Holding == {"holding", "closing", "parked"}
Announced == {"owned", "recovering", "recovered"} \cup Holding

\* An instance past its lock holds it, and only then has a writer.  An open
\* listener belongs to the holder, whose path is not taken.  From its owner
\* record on, a daemon's value and file name it.
HolderInv ==
    /\ \A i \in Instances : pc[i] \in Up <=> lock = i
    /\ \A i \in Instances : pc[i] \notin Up => value[i] = Nothing
    /\ \A i \in open : pc[i] = "holding" /\ sock = i
    /\ \A i \in Daemons : pc[i] \in Announced =>
          value[i].owner = i /\ file.owner = i /\ file.era = Era[i]

-----------------------------------------------------------------------------
\* A retirement writes the records without one, or fails to.
LEMMA RetiredEffect ==
    ASSUME NEW i \in Instances, NEW c \in Children, Retired(i, c)
    PROVE  /\ UNCHANGED disk \/ Store(i, Retained(value[i], c))
           /\ value' = value \/ value' = [value EXCEPT ![i] = Retained(value[i], c)]
BY DEF Retired, StoreFails

\* The values the steps write are well typed.
LEMMA Values ==
    ASSUME TypeOK, NEW i \in Instances
    PROVE  /\ Nothing \in Records /\ Missing \in Files
           /\ [live |-> Marked(i, file.live), owner |-> file.owner] \in Records
           /\ Rescued(file.live) \in Records
           /\ value[i] \in Records
           /\ Owned(i) \in Records
           /\ \A c \in Children : With(i, c) \in Records /\ Retained(value[i], c) \in Records
<1> USE DEF TypeOK, Records, Live
<1>1. Nothing \in Records /\ Missing \in Files
  BY DEF Nothing, Missing, NoRecords, Files
<1>2. file.live \in Live /\ file.owner \in Instances \cup {None}
  BY DEF Files
<1>3. value[i].live \in Live /\ value[i].owner \in Instances \cup {None}
  OBVIOUS
<1>4. [live |-> Marked(i, file.live), owner |-> file.owner] \in Records
  BY <1>2 DEF Marked
<1>5. Rescued(file.live) \in Records
  BY <1>2 DEF Rescued
<1>6. Owned(i) \in Records
  BY <1>3 DEF Owned
<1>7. ASSUME NEW c \in Children
      PROVE  With(i, c) \in Records /\ Retained(value[i], c) \in Records
  BY <1>3, GenerationAssumption DEF With, Retained
<1> QED
  BY <1>1, <1>4, <1>5, <1>6, <1>7

\* A write leaves a well-typed disk, whether it fails or not.
LEMMA StoreTypes ==
    ASSUME TypeOK, NEW i \in Instances, NEW v \in Records, StoreFails(i, v)
    PROVE  file' \in Files /\ aside' \subseteq Children /\ kept' \subseteq Children
<1>1. CASE UNCHANGED disk
  BY <1>1 DEF TypeOK, disk
<1>2. CASE Store(i, v)
  BY <1>2 DEF TypeOK, Store, Records, Files, Eras
<1> QED
  BY <1>1, <1>2 DEF StoreFails

\* Every step keeps the type invariant.
LEMMA TypeStep ==
    ASSUME TypeOK, [Next]_vars
    PROVE  TypeOK'
<1> USE DEF TypeOK, vars, disk, procs, Goto, Leave
<1>a. /\ {"probed", "left", "dead", "locked", "rescuing", "opened", "owned", "recovering"}
         \subseteq Labels
      /\ {"recovered", "holding", "closing", "parked"} \subseteq Labels
  BY DEF Labels, Up
<1>b. MoveAside => file' \in Files /\ aside' \subseteq Children /\ kept' \subseteq Children
  BY SMT DEF MoveAside, Missing, Files, Named, NoRecords, Live
<1>c. ASSUME NEW i \in Instances, NEW c \in Children, Retired(i, c)
      PROVE  /\ file' \in Files /\ aside' \subseteq Children /\ kept' \subseteq Children
             /\ value' \in [Instances -> Records]
  <2>1. Retained(value[i], c) \in Records
    BY Values
  <2>2. StoreFails(i, Retained(value[i], c))
    BY <1>c, RetiredEffect DEF StoreFails
  <2>3. value' \in [Instances -> Records]
    BY SMT, <1>c, <2>1, RetiredEffect
  <2> HIDE DEF TypeOK, disk
  <2> QED
    BY <2>1, <2>2, <2>3, StoreTypes
<1>1. ASSUME NEW i \in Instances,
             StartStep(i) \/ CloseIntake(i) \/ StoreClose(i) \/ Park(i) \/ Crash(i)
      PROVE  TypeOK'
  <2> USE Values, <1>a
  <2>1. CASE ProbeIncumbent(i)
    BY <2>1 DEF ProbeIncumbent
  <2>2. CASE AcquireLock(i)
    BY <2>2 DEF AcquireLock
  <2>3. CASE LockExpires(i)
    BY <2>3 DEF LockExpires
  <2>4. CASE Load(i)
    BY <2>4 DEF Load
  <2>5. CASE Archive(i)
    BY <2>5, <1>b DEF Archive
  <2>6. CASE LoadFails(i)
    BY <2>6, <1>b DEF LoadFails
  <2>7. CASE Rescue(i)
    BY <2>7, StoreTypes DEF Rescue, StoreFails
  <2>8. CASE RescueFails(i)
    BY <2>8, StoreTypes DEF RescueFails
  <2>9. CASE RecordOwner(i)
    BY <2>9, StoreTypes DEF RecordOwner, StoreFails
  <2>10. CASE RecordOwnerFails(i)
    BY <2>10, StoreTypes DEF RecordOwnerFails
  <2>11. CASE Snapshot(i)
    BY <2>11 DEF Snapshot, Named
  <2>12. CASE SnapshotFails(i)
    BY <2>12 DEF SnapshotFails, Reclaimed
  <2>13. CASE RecoverReturns(i)
    BY <2>13 DEF RecoverReturns, Reclaimed
  <2>14. CASE Bind(i)
    BY <2>14 DEF Bind
  <2>15. CASE BindFails(i)
    BY <2>15 DEF BindFails
  <2>16. CASE CloseIntake(i)
    BY <2>16 DEF CloseIntake
  <2>17. CASE StoreClose(i)
    BY <2>17 DEF StoreClose
  <2>18. CASE Park(i)
    BY <2>18 DEF Park
  <2>19. CASE Crash(i)
    BY <2>19 DEF Crash
  <2>20. ASSUME NEW c \in Children, RecoverSignal(i, c)
         PROVE  TypeOK'
    BY <2>20 DEF RecoverSignal
  <2>21. ASSUME NEW c \in Children, RecoverProven(i, c)
         PROVE  TypeOK'
    BY <2>21, <1>c DEF RecoverProven
  <2>22. ASSUME NEW c \in Children, RecoverUndetermined(i, c)
         PROVE  TypeOK'
    BY <2>22 DEF RecoverUndetermined
  <2> HIDE DEF TypeOK
  <2> QED
    BY <1>1, <2>1, <2>2, <2>3, <2>4, <2>5, <2>6, <2>7, <2>8, <2>9, <2>10, <2>11, <2>12,
           <2>13, <2>14, <2>15, <2>16, <2>17, <2>18, <2>19, <2>20, <2>21, <2>22 DEF
           StartStep, RecoverStep
<1>2. ASSUME NEW i \in Instances, NEW c \in Children, ChildStep(i, c)
      PROVE  TypeOK'
  <2> USE Values
  <2>1. CASE Spawn(i, c)
    BY <2>1 DEF Spawn
  <2>2. CASE Record(i, c)
    BY <2>2, StoreTypes DEF Record, StoreFails
  <2>3. CASE RecordFails(i, c)
    <3>1. CASE UNCHANGED <<disk, value>>
      BY <2>3, <3>1 DEF RecordFails
    <3>2. CASE Store(i, With(i, c)) /\ value' \in {value, [value EXCEPT ![i] = With(i, c)]}
      <4>1. file' \in Files /\ aside' \subseteq Children /\ kept' \subseteq Children
        <5> HIDE DEF TypeOK, disk
        <5> QED
          BY <3>2, StoreTypes DEF StoreFails
      <4>2. value' \in [Instances -> Records]
        <5>1. With(i, c) \in Records
          OBVIOUS
        <5>2. value' = value \/ value' = [value EXCEPT ![i] = With(i, c)]
          BY <3>2
        <5> QED
          BY <5>1, <5>2
      <4> QED
        BY <2>3, <4>1, <4>2 DEF RecordFails
    <3> QED
      BY <2>3, <3>1, <3>2 DEF RecordFails
  <2>4. CASE Release(i, c)
    BY <2>4 DEF Release
  <2>5. CASE ReleaseFails(i, c)
    BY <2>5 DEF ReleaseFails
  <2>6. CASE Retire(i, c)
    BY <2>6, <1>c DEF Retire
  <2>7. CASE Suspend(i, c)
    BY <2>7 DEF Suspend
  <2> HIDE DEF TypeOK
  <2> QED
    BY <1>2, <2>1, <2>2, <2>3, <2>4, <2>5, <2>6, <2>7 DEF ChildStep
<1>3. ASSUME NEW c \in Children, TraceLost(c) \/ Exit(c)
      PROVE  TypeOK'
  BY <1>3 DEF TraceLost, Exit
<1>4. CASE UNCHANGED vars
  BY <1>4
<1> HIDE DEF TypeOK
<1> QED
  BY <1>1, <1>2, <1>3, <1>4 DEF Next

\* What the steps below need of the types.
LEMMA Shapes ==
    ASSUME TypeOK
    PROVE  /\ DOMAIN pc = Instances /\ DOMAIN value = Instances /\ DOMAIN todo = Instances
           /\ DOMAIN child = Children /\ DOMAIN home = Children
           /\ \A c \in Children : home[c] \in Instances \cup {None}
           /\ \A j \in Instances : DOMAIN value[j].live = Children
           /\ clean \subseteq Instances
BY DEF TypeOK, Records, Live

-----------------------------------------------------------------------------
\* No instance but the one that holds the lock is past it.
LEMMA HolderAlone ==
    ASSUME HolderInv, NEW i \in Instances, NEW j \in Instances, pc[i] \in Up, j # i
    PROVE  pc[j] \notin Up /\ value[j] = Nothing
BY DEF HolderInv

\* HolderInv outlives a step that moves one instance on, if the lock follows.
LEMMA HolderMove ==
    ASSUME TypeOK, HolderInv, NEW i \in Instances, NEW l, Goto(i, l),
           lock' = IF l \in Up THEN i ELSE IF lock = i THEN None ELSE lock,
           l \in Up => pc[i] \in Up \/ lock = None,
           \A j \in Instances : j # i => value'[j] = value[j],
           l \notin Up => value'[i] = Nothing,
           \A j \in open' : \/ j = i /\ l = "holding" /\ sock' = i
                            \/ j # i /\ j \in open /\ sock' = sock,
           i \in Daemons /\ l \in Announced =>
               value'[i].owner = i /\ file'.owner = i /\ file'.era = Era[i],
           pc[i] \in Up \/ UNCHANGED file
    PROVE  HolderInv'
<1> USE Shapes
<1>1. \A j \in Instances : pc'[j] = IF j = i THEN l ELSE pc[j]
  BY DEF Goto
<1>2. None \notin Instances /\ Daemons \subseteq Instances /\ Announced \subseteq Up
  BY GenerationAssumption DEF Instances, Announced, Holding, Up
<1>3. \A j \in Instances : pc'[j] \in Up <=> lock' = j
  BY SMT, <1>1, <1>2 DEF HolderInv
<1>4. \A j \in Instances : pc'[j] \notin Up => value'[j] = Nothing
  BY <1>1 DEF HolderInv
<1>5. \A j \in open' : pc'[j] = "holding" /\ sock' = j
  <2>1. open \subseteq Instances
    BY <1>2 DEF TypeOK
  <2> QED
    BY SMT, <1>1, <2>1 DEF HolderInv
<1>6. ASSUME NEW j \in Daemons, pc'[j] \in Announced
      PROVE  value'[j].owner = j /\ file'.owner = j /\ file'.era = Era[j]
  <2>1. CASE j = i
    BY <1>1, <1>2, <1>6, <2>1
  <2>2. CASE j # i
    <3>1. j \in Instances /\ pc[j] \in Announced
      BY <1>1, <1>2, <1>6, <2>2
    <3>2. pc[i] \notin Up
      BY <1>2, <3>1, <2>2, HolderAlone
    <3> QED
      BY <1>6, <2>2, <3>1, <3>2 DEF HolderInv
  <2> QED
    BY <2>1, <2>2
<1> QED
  BY <1>3, <1>4, <1>5, <1>6 DEF HolderInv

\* So does a step in which the holder rewrites the records under its own name.
LEMMA HolderStay ==
    ASSUME TypeOK, HolderInv, NEW i \in Instances, pc[i] \in Up,
           UNCHANGED <<pc, lock, open, sock>>,
           \A j \in Instances : j # i => value'[j] = value[j],
           value'[i].owner = value[i].owner,
           \/ UNCHANGED file
           \/ file'.owner = value[i].owner /\ file'.era = Era[i]
    PROVE  HolderInv'
<1>1. ASSUME NEW j \in Daemons, pc[j] \in Announced
      PROVE  value'[j].owner = j /\ file'.owner = j /\ file'.era = Era[j]
  <2>1. j \in Instances /\ pc[j] \in Up
    BY <1>1 DEF Instances, Announced, Holding, Up
  <2>2. j = i
    BY <2>1, HolderAlone
  <2> QED
    BY <1>1, <2>2 DEF HolderInv
<1>2. \A j \in Instances : pc[j] \notin Up => value'[j] = Nothing
  BY DEF HolderInv
<1> QED
  BY <1>1, <1>2 DEF HolderInv

\* Every step keeps the lock, the path and the owner block with the holder.
LEMMA HolderStep ==
    ASSUME TypeOK, HolderInv, [Next]_vars
    PROVE  HolderInv'
<1> USE Shapes DEF vars, disk, procs
<1>a. /\ {"locked", "rescuing", "opened", "owned", "recovering", "recovered"} \subseteq Up
      /\ {"holding", "closing", "parked"} \subseteq Up
      /\ {"idle", "probed", "left", "dead"} \cap Up = {}
      /\ {"locked", "rescuing", "opened", "left", "dead", "probed"} \cap Announced = {}
      /\ {"owned", "recovering", "recovered", "holding", "closing", "parked"} \subseteq Announced
  BY DEF Up, Announced, Holding
<1>b. /\ \A i \in Instances : pc[i] \in Up <=> lock = i
      /\ \A i \in Instances : pc[i] \notin Up => value[i] = Nothing
      /\ \A j \in open : j \in Instances \ Scopes /\ pc[j] = "holding" /\ sock = j
      /\ \A i \in Daemons : pc[i] \in Announced =>
            value[i].owner = i /\ file.owner = i /\ file.era = Era[i]
      /\ None \notin Instances
  BY GenerationAssumption DEF HolderInv, TypeOK, Instances
<1>c. ASSUME NEW i \in Instances, NEW c \in Children, Retired(i, c), pc[i] \in Up,
             UNCHANGED <<pc, lock, open, sock>>
      PROVE  HolderInv'
  <2>1. /\ UNCHANGED disk \/ Store(i, Retained(value[i], c))
        /\ value' = value \/ value' = [value EXCEPT ![i] = Retained(value[i], c)]
    BY <1>c, RetiredEffect
  <2> QED
    BY SMT, <1>c, <2>1, HolderStay DEF Store, Retained
<1>1. ASSUME NEW i \in Instances,
             StartStep(i) \/ CloseIntake(i) \/ StoreClose(i) \/ Park(i) \/ Crash(i)
      PROVE  HolderInv'
  <2> USE <1>a, <1>b
  <2>a. ASSUME Leave(i), UNCHANGED open, i \notin open, sock' = sock \/ open = {},
               pc[i] \in Up \/ UNCHANGED file
        PROVE  HolderInv'
    <3>1. /\ Goto(i, "left") /\ lock' = IF lock = i THEN None ELSE lock
          /\ value'[i] = Nothing /\ \A j \in Instances : j # i => value'[j] = value[j]
      BY <2>a DEF Leave
    <3>2. "left" \notin Up \cup Announced
      OBVIOUS
    <3> HIDE <1>a, <1>b
    <3> QED
      BY SMT, <2>a, <3>1, <3>2, HolderMove
  <2>1. CASE ProbeIncumbent(i)
    BY SMT, <2>1, HolderMove DEF ProbeIncumbent
  <2>2. CASE AcquireLock(i)
    BY SMT, <2>2, HolderMove DEF AcquireLock, Ready
  <2>3. CASE LockExpires(i)
    BY <2>3, <2>a DEF LockExpires, Ready
  <2>4. CASE Load(i)
    BY SMT, <2>4, HolderMove DEF Load
  <2>5. CASE Archive(i)
    BY SMT, <2>5, HolderMove DEF Archive
  <2>6. CASE LoadFails(i)
    BY ZenonT(40), <2>6, <2>a DEF LoadFails
  <2>7. CASE Rescue(i)
    BY SMT, <2>7, HolderMove DEF Rescue
  <2>8. CASE RescueFails(i)
    BY ZenonT(40), <2>8, <2>a DEF RescueFails
  <2>9. CASE RecordOwner(i)
    BY SMT, <2>9, HolderMove DEF RecordOwner, Store, Owned
  <2>10. CASE RecordOwnerFails(i)
    BY ZenonT(40), <2>10, <2>a DEF RecordOwnerFails
  <2>11. CASE Snapshot(i)
    BY SMT, <2>11, HolderMove DEF Snapshot, Opened
  <2>12. CASE SnapshotFails(i)
    BY SMT, <2>12, HolderMove DEF SnapshotFails, Opened, Reclaimed
  <2>13. CASE RecoverReturns(i)
    BY SMT, <2>13, HolderMove DEF RecoverReturns, Reclaimed
  <2>14. CASE Bind(i)
    BY SMT, <2>14, HolderMove DEF Bind
  <2>15. CASE BindFails(i)
    BY SMT, <2>15, <2>a DEF BindFails
  <2>16. CASE CloseIntake(i)
    BY SMT, <2>16, HolderMove DEF CloseIntake
  <2>17. CASE StoreClose(i)
    BY <2>17, <2>a DEF StoreClose
  <2>18. CASE Park(i)
    BY SMT, <2>18, HolderMove DEF Park
  <2>19. CASE Crash(i)
    BY <2>19, HolderMove DEF Crash
  <2>20. ASSUME NEW c \in Children, RecoverSignal(i, c)
         PROVE  HolderInv'
    BY SMT, <2>20, HolderStay DEF RecoverSignal
  <2>21. ASSUME NEW c \in Children, RecoverProven(i, c)
         PROVE  HolderInv'
    BY SMT, <2>21, <1>c DEF RecoverProven
  <2>22. ASSUME NEW c \in Children, RecoverUndetermined(i, c)
         PROVE  HolderInv'
    BY SMT, <2>22, HolderStay DEF RecoverUndetermined
  <2> QED
    BY <1>1, <2>1, <2>2, <2>3, <2>4, <2>5, <2>6, <2>7, <2>8, <2>9, <2>10, <2>11, <2>12,
           <2>13, <2>14, <2>15, <2>16, <2>17, <2>18, <2>19, <2>20, <2>21, <2>22 DEF
           StartStep, RecoverStep
<1>2. ASSUME NEW i \in Instances, NEW c \in Children, ChildStep(i, c)
      PROVE  HolderInv'
  <2> USE <1>a
  <2>1. CASE Spawn(i, c)
    BY <2>1, HolderStay DEF Spawn
  <2>2. CASE Record(i, c)
    BY <2>2, HolderStay DEF Record, Store, With
  <2>3. CASE RecordFails(i, c)
    <3>1. CASE UNCHANGED <<disk, value>>
      BY <2>3, <3>1 DEF RecordFails, HolderInv
    <3>2. CASE /\ pc[i] # "left" /\ Store(i, With(i, c))
               /\ value' \in {value, [value EXCEPT ![i] = With(i, c)]}
      BY SMT, <2>3, <3>2, HolderStay DEF RecordFails, Store, With
    <3> QED
      BY <2>3, <3>1, <3>2 DEF RecordFails
  <2>4. CASE Release(i, c)
    BY <2>4 DEF Release, HolderInv
  <2>5. CASE ReleaseFails(i, c)
    BY <2>5 DEF ReleaseFails, HolderInv
  <2>6. CASE Retire(i, c)
    BY <2>6, <1>c DEF Retire
  <2>7. CASE Suspend(i, c)
    BY <2>7 DEF Suspend, HolderInv
  <2> QED
    BY <1>2, <2>1, <2>2, <2>3, <2>4, <2>5, <2>6, <2>7 DEF ChildStep
<1>3. ASSUME NEW c \in Children, TraceLost(c) \/ Exit(c)
      PROVE  HolderInv'
  BY <1>3 DEF TraceLost, Exit, HolderInv
<1>4. CASE UNCHANGED vars
  BY <1>4 DEF HolderInv
<1> QED
  BY <1>1, <1>2, <1>3, <1>4 DEF Next

-----------------------------------------------------------------------------
\* A child's generation got past its opening.  A child that is named was
\* recorded, and one to be spared has no TerminateOwned record.  Recover works
\* on the records of other generations.
SparedInv ==
    /\ \A c \in Children :
          /\ home[c] = None <=> child[c] = "idle"
          /\ home[c] # None => pc[home[c]] \in Holding \cup {"left", "dead"}
          /\ file.live[c] # "none" \/ c \in kept => child[c] \notin {"idle", "traced", "forked"}
          /\ c \in kept => file.live[c] # "terminate"
    /\ \A i \in Instances, c \in Children :
          /\ value[i].live[c] # "none" => child[c] \notin {"idle", "traced", "forked"}
          /\ c \in kept => value[i].live[c] # "terminate"
          /\ c \in todo[i] => /\ pc[i] = "recovering"
                             /\ home[c] \notin {None, i}
                             /\ value[i].live[c] # "none"

Inv == TypeOK /\ HolderInv /\ SparedInv

-----------------------------------------------------------------------------
\* A step that writes no file, forks nothing and records nothing new keeps
\* SparedInv: a value is loaded from the file, kept or dropped.
LEMMA SparedFrame ==
    ASSUME SparedInv, UNCHANGED <<file, kept, child, home>>,
           \A j \in Instances :
               pc[j] \in Holding \cup {"left", "dead"} => pc'[j] \in Holding \cup {"left", "dead"},
           \A c \in Children : home[c] \in Instances \cup {None},
           \A j \in Instances, c \in Children :
               \/ value'[j].live[c] \in {"none", value[j].live[c]}
               \/ value'[j].live[c] \in {"preserve", file.live[c]} /\ file.live[c] # "none",
           \A j \in Instances :
               \/ todo'[j] = {}
               \/ /\ todo'[j] \subseteq todo[j]
                  /\ pc'[j] = pc[j]
                  /\ \A c \in todo'[j] : value'[j].live[c] = value[j].live[c]
    PROVE  SparedInv'
<1>1. ASSUME NEW c \in Children
      PROVE  /\ home'[c] = None <=> child'[c] = "idle"
             /\ home'[c] # None => pc'[home'[c]] \in Holding \cup {"left", "dead"}
             /\ file'.live[c] # "none" \/ c \in kept' => child'[c] \notin {"idle", "traced", "forked"}
             /\ c \in kept' => file'.live[c] # "terminate"
  BY DEF SparedInv
<1>2. ASSUME NEW j \in Instances, NEW c \in Children
      PROVE  /\ value'[j].live[c] # "none" => child'[c] \notin {"idle", "traced", "forked"}
             /\ c \in kept' => value'[j].live[c] # "terminate"
  BY SMT DEF SparedInv
<1>3. ASSUME NEW j \in Instances, NEW c \in Children, c \in todo'[j]
      PROVE  pc'[j] = "recovering" /\ home'[c] \notin {None, j} /\ value'[j].live[c] # "none"
  BY SMT, <1>3 DEF SparedInv
<1> QED
  BY SMT, <1>1, <1>2, <1>3 DEF SparedInv

\* So does a step in which the holder writes its records, some of them dropped.
LEMMA SparedStore ==
    ASSUME SparedInv, HolderInv, NEW i \in Instances, NEW v, Store(i, v),
           UNCHANGED <<child, home>>, pc[i] \in Up,
           \A c \in Children : v.live[c] \in {"none", value[i].live[c]},
           \A c \in Children : value'[i].live[c] \in {"none", value[i].live[c]},
           \A j \in Instances : j # i => pc'[j] = pc[j] /\ value'[j] = value[j] /\ todo'[j] = todo[j],
           pc[i] \in Holding => pc'[i] \in Holding,
           \A c \in Children : home[c] \in Instances \cup {None},
           \/ todo'[i] = {}
           \/ /\ todo'[i] \subseteq todo[i]
              /\ pc'[i] = pc[i]
              /\ \A c \in todo'[i] : value'[i].live[c] = value[i].live[c]
    PROVE  SparedInv'
<1>1. /\ \A c \in Children : file'.live[c] = v.live[c]
      /\ \A c \in Children : c \in kept' <=> c \in kept \/ v.live[c] = "preserve"
  BY DEF Store
<1>2. ASSUME NEW c \in Children
      PROVE  /\ home'[c] = None <=> child'[c] = "idle"
             /\ file'.live[c] # "none" \/ c \in kept' => child'[c] \notin {"idle", "traced", "forked"}
             /\ c \in kept' => file'.live[c] # "terminate"
  BY SMT, <1>1 DEF SparedInv
<1>3. ASSUME NEW c \in Children, home'[c] # None
      PROVE  pc'[home'[c]] \in Holding \cup {"left", "dead"}
  <2>1. home[c] \in Instances /\ home'[c] = home[c]
    BY <1>3
  <2>2. pc[home[c]] \in Holding \cup {"left", "dead"}
    BY <2>1, <1>3 DEF SparedInv
  <2>3. pc[i] \notin {"left", "dead"}
    BY DEF Up
  <2> QED
    BY <2>1, <2>2, <2>3
<1>4. ASSUME NEW j \in Instances, j # i, NEW c \in Children
      PROVE  value'[j].live[c] = "none"
  BY SMT, <1>4, HolderAlone DEF Nothing, NoRecords
<1>5. ASSUME NEW j \in Instances, NEW c \in Children
      PROVE  /\ value'[j].live[c] # "none" => child'[c] \notin {"idle", "traced", "forked"}
             /\ c \in kept' => value'[j].live[c] # "terminate"
  <2>1. CASE j = i
    BY SMT, <1>1, <2>1 DEF SparedInv
  <2> QED
    BY <1>4, <2>1
<1>6. ASSUME NEW j \in Instances, NEW c \in Children, c \in todo'[j]
      PROVE  pc'[j] = "recovering" /\ home'[c] \notin {None, j} /\ value'[j].live[c] # "none"
  <2>1. CASE j = i
    BY SMT, <1>6, <2>1 DEF SparedInv
  <2>2. CASE j # i
    BY SMT, <1>6, <2>2 DEF SparedInv
  <2> QED
    BY <2>1, <2>2
<1> QED
  BY SMT, <1>2, <1>3, <1>5, <1>6 DEF SparedInv

\* Every step keeps what is recorded, and what is spared, recorded so.
LEMMA SparedStep ==
    ASSUME TypeOK, HolderInv, SparedInv, [Next]_vars
    PROVE  SparedInv'
<1> USE Shapes DEF vars, disk, procs, Goto, Leave, Nothing, NoRecords
<1>a. \A i \in Instances : todo[i] # {} => pc[i] = "recovering"
  BY ZenonT(40) DEF SparedInv, TypeOK
<1> DEFINE Writes(i) ==
        /\ UNCHANGED <<file, kept>> \/ Store(i, value[i]) \/ Store(i, Owned(i))
        /\ value'[i].live = value[i].live \/ value'[i].live = NoRecords
        /\ \A j \in Instances : j # i => pc'[j] = pc[j] /\ value'[j] = value[j] /\ todo'[j] = todo[j]
        /\ todo'[i] = {}
        /\ pc[i] \in {"rescuing", "opened"}
        /\ UNCHANGED <<child, home>>
<1>b. ASSUME NEW i \in Instances, Writes(i)
      PROVE  SparedInv'
  <2>1. CASE UNCHANGED <<file, kept>>
    BY SMT, <1>b, <2>1, SparedFrame DEF Holding
  <2>2. CASE Store(i, value[i])
    BY <1>b, <2>2, SparedStore DEF Holding, Up
  <2>3. CASE Store(i, Owned(i))
    BY SMT, <1>b, <2>3, SparedStore DEF Holding, Up, Owned
  <2> QED
    BY <1>b, <2>1, <2>2, <2>3
<1>c. ASSUME NEW i \in Instances, NEW c \in Children, Retired(i, c), child[c] = "gone",
             UNCHANGED <<pc, child, home>>, pc[i] \in Up,
             \A j \in Instances : todo'[j] = IF j = i THEN todo[j] \ {c} ELSE todo[j]
      PROVE  SparedInv'
  <2>1. /\ UNCHANGED disk \/ Store(i, Retained(value[i], c))
        /\ value' = value \/ value' = [value EXCEPT ![i] = Retained(value[i], c)]
    BY <1>c, RetiredEffect
  <2>2. \A k \in Children : Retained(value[i], c).live[k] =
                                IF k = c THEN "none" ELSE value[i].live[k]
    BY DEF Retained
  <2>3. \A k \in Children : k # c => value'[i].live[k] = value[i].live[k]
    BY <2>1, <2>2
  <2>4. value'[i].live[c] \in {"none", value[i].live[c]}
    BY <2>1, <2>2
  <2>5. \A j \in Instances : j # i => value'[j] = value[j] /\ todo'[j] = todo[j]
    BY <1>c, <2>1
  <2>6. todo'[i] = todo[i] \ {c}
    BY <1>c
  <2>7. \A k \in todo[i] : k \in Children
    BY DEF TypeOK
  <2>8. \A k \in todo'[i] : value'[i].live[k] = value[i].live[k]
    BY <2>3, <2>6, <2>7
  <2>9. \A k \in Children : value'[i].live[k] \in {"none", value[i].live[k]}
    BY <2>3, <2>4
  <2>10. CASE UNCHANGED disk
    <3>1. \A j \in Instances, k \in Children : value'[j].live[k] \in {"none", value[j].live[k]}
      BY <2>5, <2>9
    <3>2. \A j \in Instances : todo'[j] \subseteq todo[j]
      BY <2>5, <2>6
    <3>3. \A j \in Instances : \A k \in todo'[j] : value'[j].live[k] = value[j].live[k]
      BY <2>5, <2>8
    <3> QED
      BY <1>c, <2>10, <3>1, <3>2, <3>3, SparedFrame
  <2>11. CASE Store(i, Retained(value[i], c))
    BY SMT, <1>c, <2>2, <2>5, <2>6, <2>8, <2>9, <2>11, SparedStore
  <2> QED
    BY <2>1, <2>10, <2>11
<1>d. ASSUME NEW i \in Instances, MoveAside, pc[i] = "locked",
             UNCHANGED <<todo, child, home>>, todo[i] = {},
             \A j \in Instances : j # i => pc'[j] = pc[j] /\ value'[j] = value[j],
             \A c \in Children : \/ value'[i].live[c] = "none"
                                 \/ value'[i].live[c] = "preserve" /\ file.live[c] # "none"
      PROVE  SparedInv'
  <2>1. /\ \A c \in Children : file'.live[c] = "none"
        /\ \A c \in Children : c \in kept' <=> c \in kept \/ file.live[c] # "none"
    BY <1>d DEF MoveAside, Missing, Named
  <2>2. \A j \in Instances, c \in Children : j # i => value'[j].live[c] = "none"
    BY SMT, <1>d, HolderAlone DEF Up
  <2>3. ASSUME NEW c \in Children
        PROVE  /\ home'[c] = None <=> child'[c] = "idle"
               /\ home'[c] # None => pc'[home'[c]] \in Holding \cup {"left", "dead"}
               /\ c \in kept' => child'[c] \notin {"idle", "traced", "forked"}
    BY ZenonT(40), <1>d, <2>1 DEF SparedInv, Holding
  <2>4. ASSUME NEW j \in Instances, NEW c \in Children
        PROVE  /\ value'[j].live[c] # "none" => child'[c] \notin {"idle", "traced", "forked"}
               /\ value'[j].live[c] # "terminate"
    BY SMT, <1>d, <2>2 DEF SparedInv
  <2>5. ASSUME NEW j \in Instances, NEW c \in Children, c \in todo'[j]
        PROVE  pc'[j] = "recovering" /\ home'[c] \notin {None, j} /\ value'[j].live[c] # "none"
    BY SMT, <1>d, <2>5 DEF SparedInv
  <2> QED
    BY SMT, <2>1, <2>3, <2>4, <2>5 DEF SparedInv
<1>e. ASSUME NEW i \in Instances, NEW c \in Children, NEW l \in {"recorded", "aborted"},
             Store(i, With(i, c)), pc[i] \in Holding, child[c] = "forked",
             child' = [child EXCEPT ![c] = l], UNCHANGED <<pc, todo, home>>,
             value' \in {value, [value EXCEPT ![i] = With(i, c)]}
      PROVE  SparedInv'
  <2>1. /\ \A k \in Children : k # c => file'.live[k] = value[i].live[k]
        /\ file'.live[c] = Policy[i]
        /\ \A k \in Children : k \in kept' <=> k \in kept \/ file'.live[k] = "preserve"
    BY <1>e DEF Store, With
  <2>2. \A k \in Children : child'[k] = IF k = c THEN l ELSE child[k]
    BY <1>e
  <2>3. \A k \in Children : value'[i].live[k] \in {value[i].live[k], file'.live[k]}
    BY SMT, <1>e, <2>1 DEF With
  <2>4. \A j \in Instances, k \in Children : j # i => value'[j].live[k] = "none"
    BY SMT, <1>e, HolderAlone DEF Up, Holding
  <2>5. \A j \in Instances : todo[j] = {}
    BY ZenonT(40), <1>a, <1>e, HolderAlone DEF Up, Holding
  <2>6. c \notin kept /\ value[i].live[c] = "none"
    BY SMT, <1>e DEF SparedInv
  <2>7. ASSUME NEW k \in Children
        PROVE  /\ home'[k] = None <=> child'[k] = "idle"
               /\ home'[k] # None => pc'[home'[k]] \in Holding \cup {"left", "dead"}
               /\ file'.live[k] # "none" \/ k \in kept' => child'[k] \notin {"idle", "traced", "forked"}
               /\ k \in kept' => file'.live[k] # "terminate"
    BY SMT, <1>e, <2>1, <2>2, <2>6 DEF SparedInv
  <2>8. ASSUME NEW k \in Children
        PROVE  /\ value'[i].live[k] # "none" => child'[k] \notin {"idle", "traced", "forked"}
               /\ k \in kept' => value'[i].live[k] # "terminate"
    BY SMT, <1>e, <2>1, <2>2, <2>3, <2>6 DEF SparedInv
  <2> QED
    BY SMT, <1>e, <2>4, <2>5, <2>7, <2>8 DEF SparedInv
<1>1. ASSUME NEW i \in Instances,
             StartStep(i) \/ CloseIntake(i) \/ StoreClose(i) \/ Park(i) \/ Crash(i)
      PROVE  SparedInv'
  <2>1. CASE ProbeIncumbent(i)
    BY <2>1, <1>a, SparedFrame DEF ProbeIncumbent, Holding
  <2>2. CASE AcquireLock(i)
    BY <2>2, <1>a, SparedFrame DEF AcquireLock, Ready, Holding
  <2>3. CASE LockExpires(i)
    BY <2>3, <1>a, SparedFrame DEF LockExpires, Ready, Holding
  <2>4. CASE Load(i)
    <3>1. \A c \in Children : \/ value'[i].live[c] = "none"
                              \/ /\ value'[i].live[c] \in {"preserve", file.live[c]}
                                 /\ file.live[c] # "none"
      BY <2>4 DEF Load, Marked
    <3> QED
      BY <2>4, <3>1, <1>a, SparedFrame DEF Load, Holding
  <2>5. CASE Archive(i)
    <3>1. \A c \in Children : value'[i].live[c] = IF file.live[c] = "none" THEN "none"
                                                   ELSE "preserve"
      BY <2>5 DEF Archive, Rescued
    <3> QED
      BY <2>5, <3>1, <1>a, <1>d DEF Archive
  <2>6. CASE LoadFails(i)
    <3>1. CASE UNCHANGED disk
      BY <2>6, <3>1, <1>a, SparedFrame DEF LoadFails, Holding
    <3>2. CASE MoveAside
      BY <2>6, <3>2, <1>a, <1>d DEF LoadFails
    <3> QED
      BY <2>6, <3>1, <3>2 DEF LoadFails
  <2>7. CASE Rescue(i)
    BY <2>7, <1>a, <1>b DEF Rescue
  <2>8. CASE RescueFails(i)
    BY <2>8, <1>a, <1>b DEF RescueFails, StoreFails
  <2>9. CASE RecordOwner(i)
    BY <2>9, <1>a, <1>b DEF RecordOwner, Owned
  <2>10. CASE RecordOwnerFails(i)
    BY <2>10, <1>a, <1>b DEF RecordOwnerFails, StoreFails
  <2>11. CASE Snapshot(i)
    BY SMT, <2>11, <1>a DEF Snapshot, Opened, Named, SparedInv, Holding
  <2>12. CASE SnapshotFails(i)
    BY <2>12, <1>a, SparedFrame DEF SnapshotFails, Opened, Reclaimed, Holding
  <2>13. CASE RecoverReturns(i)
    BY <2>13, <1>a, SparedFrame DEF RecoverReturns, Reclaimed, Holding
  <2>14. CASE Bind(i)
    BY <2>14, <1>a, SparedFrame DEF Bind, Holding
  <2>15. CASE BindFails(i)
    BY <2>15, <1>a, SparedFrame DEF BindFails, Holding
  <2>16. CASE CloseIntake(i)
    BY <2>16, <1>a, SparedFrame DEF CloseIntake, Holding
  <2>17. CASE StoreClose(i)
    BY <2>17, <1>a, SparedFrame DEF StoreClose, Holding
  <2>18. CASE Park(i)
    BY <2>18, <1>a, SparedFrame DEF Park, Holding
  <2>19. CASE Crash(i)
    BY <2>19, <1>a, SparedFrame DEF Crash, Holding
  <2>20. ASSUME NEW c \in Children, RecoverSignal(i, c)
        PROVE  SparedInv'
    BY <2>20, SparedFrame DEF RecoverSignal
  <2>21. ASSUME NEW c \in Children, RecoverProven(i, c)
        PROVE  SparedInv'
    <3>1. \A j \in Instances : todo'[j] = IF j = i THEN todo[j] \ {c} ELSE todo[j]
      BY <2>21 DEF RecoverProven
    <3> QED
      BY <2>21, <3>1, <1>c DEF RecoverProven, Up
  <2>22. ASSUME NEW c \in Children, RecoverUndetermined(i, c)
        PROVE  SparedInv'
    BY <2>22, SparedFrame DEF RecoverUndetermined
  <2> QED
    BY <1>1, <2>1, <2>2, <2>3, <2>4, <2>5, <2>6, <2>7, <2>8, <2>9, <2>10, <2>11, <2>12,
           <2>13, <2>14, <2>15, <2>16, <2>17, <2>18, <2>19, <2>20, <2>21, <2>22 DEF
           StartStep, RecoverStep
<1>2. ASSUME NEW i \in Instances, NEW c \in Children, ChildStep(i, c)
      PROVE  SparedInv'
  <2>1. CASE Spawn(i, c)
    <3>1. home[c] = None /\ home'[c] = i /\ child'[c] = "traced" /\ pc[i] \in Holding
      BY SMT, <2>1 DEF Spawn, SparedInv, Holding
    <3>2. \A k \in Children : k # c => child'[k] = child[k] /\ home'[k] = home[k]
      BY <2>1 DEF Spawn
    <3>3. UNCHANGED <<pc, file, kept, value, todo>> /\ child[c] = "idle"
      BY <2>1 DEF Spawn
    <3>4. i # None
      BY GenerationAssumption
    <3> QED
      BY SMT, <3>1, <3>2, <3>3, <3>4 DEF SparedInv
  <2>2. CASE Record(i, c)
    BY <2>2, <1>e DEF Record, Holding
  <2>3. CASE RecordFails(i, c)
    <3>1. CASE UNCHANGED <<disk, value>>
      BY SMT, <2>3, <3>1 DEF RecordFails, SparedInv
    <3>2. CASE /\ pc[i] # "left" /\ Store(i, With(i, c))
               /\ value' \in {value, [value EXCEPT ![i] = With(i, c)]}
      BY <2>3, <3>2, <1>e DEF RecordFails, Holding
    <3> QED
      BY <2>3, <3>1, <3>2 DEF RecordFails
  <2>4. CASE Release(i, c)
    BY SMT, <2>4 DEF Release, SparedInv
  <2>5. CASE ReleaseFails(i, c)
    BY SMT, <2>5 DEF ReleaseFails, SparedInv
  <2>6. CASE Retire(i, c)
    <3>1. todo[i] = todo[i] \ {c}
      BY <2>6, <1>a DEF Retire
    <3> QED
      BY <2>6, <3>1, <1>c DEF Retire, Up
  <2>7. CASE Suspend(i, c)
    BY SMT, <2>7 DEF Suspend, SparedInv
  <2> QED
    BY <1>2, <2>1, <2>2, <2>3, <2>4, <2>5, <2>6, <2>7 DEF ChildStep
<1>3. ASSUME NEW c \in Children, TraceLost(c) \/ Exit(c)
      PROVE  SparedInv'
  BY SMT, <1>3 DEF TraceLost, Exit, SparedInv
<1>4. CASE UNCHANGED vars
  BY <1>4, SparedFrame
<1> QED
  BY <1>1, <1>2, <1>3, <1>4 DEF Next

\* The invariant holds before anything was opened.
LEMMA GenerationInit == Init => Inv
<1> SUFFICES ASSUME Init PROVE Inv
  OBVIOUS
<1> USE DEF Init, Nothing, NoRecords, Missing
<1>1. TypeOK
  BY DEF TypeOK, Live, Records, Files, Labels
<1>2. HolderInv
  BY GenerationAssumption DEF HolderInv, Up, Announced, Holding, Instances
<1>3. SparedInv
  BY DEF SparedInv
<1> QED
  BY <1>1, <1>2, <1>3 DEF Inv

\* A child is signalled by a Recover that has its record to do.
LEMMA SignalStep ==
    ASSUME [Next]_vars, NEW c \in signalled' \ signalled, signalled' \subseteq Children
    PROVE  \E i \in Instances : RecoverSignal(i, c)
<1> USE DEF procs
<1>1. ASSUME NEW i \in Instances,
             StartStep(i) \/ CloseIntake(i) \/ StoreClose(i) \/ Park(i) \/ Crash(i)
      PROVE  RecoverSignal(i, c)
  <2>1. ~ (CloseIntake(i) \/ StoreClose(i) \/ Park(i) \/ Crash(i))
    BY DEF CloseIntake, StoreClose, Park, Crash
  <2>2. ~ (ProbeIncumbent(i) \/ AcquireLock(i) \/ LockExpires(i) \/ Load(i) \/ Archive(i)
           \/ LoadFails(i))
    BY DEF ProbeIncumbent, AcquireLock, LockExpires, Load, Archive, LoadFails
  <2>3. ~ (Rescue(i) \/ RescueFails(i) \/ RecordOwner(i) \/ RecordOwnerFails(i) \/ Bind(i)
           \/ BindFails(i))
    BY DEF Rescue, RescueFails, RecordOwner, RecordOwnerFails, Bind, BindFails
  <2>4. ~ (Snapshot(i) \/ SnapshotFails(i) \/ RecoverReturns(i))
    BY DEF Snapshot, SnapshotFails, RecoverReturns
  <2>5. ASSUME NEW k \in Children
        PROVE  ~ RecoverProven(i, k) /\ ~ RecoverUndetermined(i, k)
    BY DEF RecoverProven, RecoverUndetermined
  <2>6. PICK k \in Children : RecoverSignal(i, k)
    BY <1>1, <2>1, <2>2, <2>3, <2>4, <2>5 DEF StartStep, RecoverStep
  <2> QED
    BY <2>6 DEF RecoverSignal
<1>2. ASSUME NEW i \in Instances, NEW k \in Children, ChildStep(i, k)
      PROVE  FALSE
  BY <1>2 DEF ChildStep, Spawn, Suspend, Record, RecordFails, Release, ReleaseFails, Retire
<1>3. ASSUME NEW k \in Children, TraceLost(k) \/ Exit(k)
      PROVE  FALSE
  BY <1>3 DEF TraceLost, Exit
<1>4. ~ UNCHANGED vars
  BY DEF vars
<1> QED
  BY <1>1, <1>2, <1>3, <1>4 DEF Next

\* The invariant is inductive.
THEOREM GenerationInvariant == Spec => []Inv
<1>1. Init => Inv
  BY GenerationInit
<1>2. Inv /\ [Next]_vars => Inv'
  BY TypeStep, HolderStep, SparedStep DEF Inv
<1> QED
  BY <1>1, <1>2, PTL DEF Spec

\* The type invariant of the generations.
THEOREM GenerationType == Spec => []TypeOK
<1>1. Inv => TypeOK
  BY DEF Inv
<1> QED
  BY <1>1, GenerationInvariant, PTL

\* For any daemons and scopes that come, go and crash over one label, the socket
\* path leads to the daemon that listens.
THEOREM ListenerReached == Spec => []PathLeadsToListener
<1>1. Inv => PathLeadsToListener
  BY DEF Inv, HolderInv, PathLeadsToListener
<1> QED
  BY <1>1, GenerationInvariant, PTL

\* The record file's owner block names the daemon that listens.
THEOREM OwnerNamed == Spec => []OwnerNamesListener
<1>1. Inv => OwnerNamesListener
  BY DEF Inv, TypeOK, HolderInv, OwnerNamesListener, Announced, Holding
<1> QED
  BY <1>1, GenerationInvariant, PTL

\* A client finds the daemon that listens by the socket path and by the owner
\* record, whatever the other calls of the label do.
THEOREM ListenerIsFound == Spec => []ListenerFound
BY ListenerReached, OwnerNamed, PTL DEF ListenerFound

\* Recover never signals a child of a generation that still holds its scope, and
\* none that was recorded under PreserveOwned or whose file was moved aside.
THEOREM RecoverSpares == Spec => ReclaimSpares
<1>1. Inv /\ (signalled \subseteq Children)' /\ [Next]_vars =>
          [\A c \in signalled' \ signalled : pc[home[c]] \in {"left", "dead"} /\ c \notin kept]_vars
  <2> SUFFICES ASSUME Inv, signalled' \subseteq Children, [Next]_vars,
                      NEW c \in signalled' \ signalled
               PROVE  pc[home[c]] \in {"left", "dead"} /\ c \notin kept
    OBVIOUS
  <2>1. PICK i \in Instances : RecoverSignal(i, c)
    BY SignalStep
  <2>2. /\ c \in Children
        /\ home[c] \in Instances \ {i}
        /\ pc[home[c]] \in Holding \cup {"left", "dead"}
        /\ pc[i] \in Up
    <3>1. pc[i] = "recovering" /\ c \in todo[i] /\ c \in Children
      BY <2>1 DEF RecoverSignal
    <3>2. home[c] \in Instances \ {i}
      BY SMT, <3>1, Shapes DEF Inv, SparedInv
    <3>3. pc[home[c]] \in Holding \cup {"left", "dead"}
      BY SMT, <3>1, <3>2 DEF Inv, SparedInv
    <3>4. pc[i] \in Up
      BY <3>1 DEF Up
    <3> QED
      BY <3>1, <3>2, <3>3, <3>4
  <2>3. pc[home[c]] \notin Up
    BY <2>2, HolderAlone DEF Inv
  <2>4. value[i].live[c] \in {"none", "terminate", "preserve"} \ {"preserve"}
    BY SMT, <2>1, <2>2 DEF RecoverSignal, Spares, Inv, TypeOK, Records, Live
  <2>5. c \notin kept
    BY SMT, <2>1, <2>2, <2>4 DEF RecoverSignal, Inv, SparedInv
  <2> QED
    BY <2>2, <2>3, <2>5 DEF Up, Holding
<1>2. Inv => signalled \subseteq Children
  BY DEF Inv, TypeOK
<1> QED
  BY <1>1, <1>2, GenerationInvariant, PTL DEF Spec, ReclaimSpares

-----------------------------------------------------------------------------
Bearing == {"recorded", "running"}      \* a child some record must name

\* A child that may run is named by the file and by the writer, unless a file
\* that named it was moved aside.
RecordInv ==
    \A c \in Children \ aside : child[c] \in Bearing =>
        /\ file.live[c] # "none"
        /\ \A i \in Instances : pc[i] \in Up \ {"locked"} => value[i].live[c] # "none"

\* What a clean Recover has not settled is still to do.
AloneInv ==
    \A i \in clean :
        /\ pc[i] \in {"recovering", "recovered", "left"} \cup Holding
        /\ pc[i] # "left" => \A c \in Children : child[c] \in Bearing =>
              home[c] = i \/ c \in todo[i] \/ c \in aside

-----------------------------------------------------------------------------
\* RecordInv outlives a step in which the file keeps its records or takes the
\* holder's, and no writer starts.
LEMMA RecordFrame ==
    ASSUME RecordInv, NEW i \in Instances,
           aside \subseteq aside',
           \A c \in Children : child'[c] \in Bearing => child[c] \in Bearing,
           file'.live = file.live \/ (pc[i] \in Up \ {"locked"} /\ file'.live = value[i].live),
           \A j \in Instances : pc'[j] \in Up \ {"locked"} =>
               pc[j] \in Up \ {"locked"} /\ value'[j].live = value[j].live
    PROVE  RecordInv'
BY DEF RecordInv

\* No record is dropped before the process it names is gone, but with its file
\* moved aside.
LEMMA RecordStep ==
    ASSUME TypeOK, HolderInv, RecordInv, [Next]_vars
    PROVE  RecordInv'
<1> USE Shapes DEF vars, disk, procs, Goto
<1>a. ASSUME MoveAside, UNCHANGED child
      PROVE  RecordInv'
  <2>1. \A c \in Children \ aside : child[c] \in Bearing => c \in Named(file.live)
    BY DEF RecordInv, Named
  <2> QED
    BY <1>a, <2>1 DEF MoveAside, RecordInv
<1>b. ASSUME NEW i \in Instances, NEW c \in Children, Retired(i, c), child[c] = "gone",
             UNCHANGED <<pc, child>>, pc[i] \in Up \ {"locked"}
      PROVE  RecordInv'
  <2>1. /\ UNCHANGED disk \/ Store(i, Retained(value[i], c))
        /\ value' = value \/ value' = [value EXCEPT ![i] = Retained(value[i], c)]
    BY <1>b, RetiredEffect
  <2>2. \A k \in Children : k # c => Retained(value[i], c).live[k] = value[i].live[k]
    BY DEF Retained
  <2>3. \A k \in Children : k # c => file'.live[k] \in {file.live[k], value[i].live[k]}
    BY SMT, <2>1, <2>2 DEF Store
  <2>4. \A j \in Instances, k \in Children : k # c => value'[j].live[k] = value[j].live[k]
    BY <2>1, <2>2
  <2>5. child[c] \notin Bearing
    BY <1>b DEF Bearing
  <2>6. aside' = aside
    BY <2>1 DEF Store
  <2> QED
    BY SMT, <1>b, <2>3, <2>4, <2>5, <2>6 DEF RecordInv
<1>c. ASSUME NEW i \in Instances, NEW c \in Children, NEW l, Store(i, With(i, c)),
             pc[i] \in Holding, child' = [child EXCEPT ![c] = l], UNCHANGED pc,
             \/ value' = value /\ l \notin Bearing
             \/ value' = [value EXCEPT ![i] = With(i, c)]
      PROVE  RecordInv'
  <2>1. Policy[i] # "none"
    BY GenerationAssumption
  <2>2. \A k \in Children : With(i, c).live[k] = IF k = c THEN Policy[i] ELSE value[i].live[k]
    BY DEF With
  <2>3. \A k \in Children : file'.live[k] = IF k = c THEN Policy[i] ELSE value[i].live[k]
    BY <1>c, <2>2 DEF Store
  <2>4. \A j \in Instances : j # i => pc[j] \notin Up
    BY <1>c, HolderAlone DEF Up, Holding
  <2>5. \A k \in Children : k # c => child'[k] = child[k] /\ value'[i].live[k] = value[i].live[k]
    BY <1>c, <2>2
  <2>6. child'[c] \in Bearing => value'[i].live[c] # "none"
    BY <1>c, <2>1, <2>2
  <2>7. pc[i] \in Up \ {"locked"}
    BY <1>c DEF Up, Holding
  <2>8. aside' = aside
    BY <1>c DEF Store
  <2> QED
    BY SMT, <1>c, <2>1, <2>3, <2>4, <2>5, <2>6, <2>7, <2>8 DEF RecordInv
<1>1. ASSUME NEW i \in Instances,
             StartStep(i) \/ CloseIntake(i) \/ StoreClose(i) \/ Park(i) \/ Crash(i)
      PROVE  RecordInv'
  <2>1. CASE ProbeIncumbent(i)
    BY <2>1, RecordFrame DEF ProbeIncumbent, Up
  <2>2. CASE AcquireLock(i)
    BY <2>2, RecordFrame DEF AcquireLock, Up
  <2>3. CASE LockExpires(i)
    BY <2>3, RecordFrame DEF LockExpires, Leave, Up
  <2>4. CASE Load(i)
    <3>1. \A c \in Children : file.live[c] # "none" => value'[i].live[c] # "none"
      BY <2>4 DEF Load, Marked
    <3>2. \A j \in Instances : j # i => pc'[j] = pc[j] /\ value'[j] = value[j]
      BY <2>4 DEF Load
    <3>3. UNCHANGED <<file, aside, child>>
      BY <2>4 DEF Load
    <3> QED
      BY SMT, <3>1, <3>2, <3>3 DEF RecordInv
  <2>5. CASE Archive(i)
    BY <2>5, <1>a DEF Archive
  <2>6. CASE LoadFails(i)
    <3>1. CASE UNCHANGED disk
      BY <2>6, <3>1, RecordFrame DEF LoadFails, Leave, Up
    <3>2. CASE MoveAside
      BY <2>6, <3>2, <1>a DEF LoadFails
    <3> QED
      BY <2>6, <3>1, <3>2 DEF LoadFails
  <2>7. CASE Rescue(i)
    BY <2>7, RecordFrame DEF Rescue, Store, Up
  <2>8. CASE RescueFails(i)
    BY SMT, <2>8, RecordFrame DEF RescueFails, StoreFails, Store, Leave, Up
  <2>9. CASE RecordOwner(i)
    BY <2>9, RecordFrame DEF RecordOwner, Store, Owned, Up
  <2>10. CASE RecordOwnerFails(i)
    BY SMT, <2>10, RecordFrame DEF RecordOwnerFails, StoreFails, Store, Owned, Leave, Up
  <2>11. CASE Snapshot(i)
    BY <2>11, RecordFrame DEF Snapshot, Opened, Up
  <2>12. CASE SnapshotFails(i)
    BY <2>12, RecordFrame DEF SnapshotFails, Opened, Up
  <2>13. CASE RecoverReturns(i)
    BY <2>13, RecordFrame DEF RecoverReturns, Up
  <2>14. CASE Bind(i)
    BY <2>14, RecordFrame DEF Bind, Up
  <2>15. CASE BindFails(i)
    BY <2>15, RecordFrame DEF BindFails, Leave, Up
  <2>16. CASE CloseIntake(i)
    BY <2>16, RecordFrame DEF CloseIntake, Up
  <2>17. CASE StoreClose(i)
    BY <2>17, RecordFrame DEF StoreClose, Leave, Up
  <2>18. CASE Park(i)
    BY <2>18, RecordFrame DEF Park, Up
  <2>19. CASE Crash(i)
    BY <2>19, RecordFrame DEF Crash, Up
  <2>20. ASSUME NEW c \in Children, RecoverSignal(i, c)
        PROVE  RecordInv'
    BY <2>20, RecordFrame DEF RecoverSignal
  <2>21. ASSUME NEW c \in Children, RecoverProven(i, c)
        PROVE  RecordInv'
    BY <2>21, <1>b DEF RecoverProven, Up
  <2>22. ASSUME NEW c \in Children, RecoverUndetermined(i, c)
        PROVE  RecordInv'
    BY <2>22, RecordFrame DEF RecoverUndetermined
  <2> QED
    BY <1>1, <2>1, <2>2, <2>3, <2>4, <2>5, <2>6, <2>7, <2>8, <2>9, <2>10, <2>11, <2>12,
           <2>13, <2>14, <2>15, <2>16, <2>17, <2>18, <2>19, <2>20, <2>21, <2>22 DEF
           StartStep, RecoverStep
<1>2. ASSUME NEW i \in Instances, NEW c \in Children, ChildStep(i, c)
      PROVE  RecordInv'
  <2>1. CASE Spawn(i, c)
    BY <2>1, RecordFrame DEF Spawn, Bearing
  <2>2. CASE Record(i, c)
    BY <2>2, <1>c DEF Record, Holding
  <2>3. CASE RecordFails(i, c)
    <3>1. CASE UNCHANGED <<disk, value>>
      BY <2>3, <3>1, RecordFrame DEF RecordFails, Bearing
    <3>2. CASE /\ pc[i] # "left" /\ Store(i, With(i, c))
               /\ value' \in {value, [value EXCEPT ![i] = With(i, c)]}
      BY <2>3, <3>2, <1>c DEF RecordFails, Holding, Bearing
    <3> QED
      BY <2>3, <3>1, <3>2 DEF RecordFails
  <2>4. CASE Release(i, c)
    BY <2>4, RecordFrame DEF Release, Bearing
  <2>5. CASE ReleaseFails(i, c)
    BY <2>5, RecordFrame DEF ReleaseFails, Bearing
  <2>6. CASE Retire(i, c)
    BY <2>6, <1>b DEF Retire, Up
  <2>7. CASE Suspend(i, c)
    BY <2>7, RecordFrame DEF Suspend, Bearing
  <2> QED
    BY <1>2, <2>1, <2>2, <2>3, <2>4, <2>5, <2>6, <2>7 DEF ChildStep
<1>3. ASSUME NEW c \in Children, TraceLost(c) \/ Exit(c)
      PROVE  RecordInv'
  BY <1>3 DEF TraceLost, Exit, RecordInv, Bearing
<1>4. CASE UNCHANGED vars
  BY <1>4 DEF RecordInv
<1> QED
  BY <1>1, <1>2, <1>3, <1>4 DEF Next

\* AloneInv outlives a step that moves one instance on, or away.
LEMMA AloneFrame ==
    ASSUME TypeOK, AloneInv, NEW i \in Instances, NEW l, Goto(i, l),
           UNCHANGED <<clean, todo, child, home>>, aside \subseteq aside',
           \/ i \notin clean
           \/ l = "left"
           \/ pc[i] # "left" /\ l \in {"recovering", "recovered"} \cup Holding
    PROVE  AloneInv'
BY Shapes DEF AloneInv, Goto

\* So does one in which the holder's own child changes, or one that may not run.
LEMMA AloneChild ==
    ASSUME TypeOK, HolderInv, AloneInv, NEW i \in Instances, NEW c \in Children, NEW l,
           home[c] = i, child' = [child EXCEPT ![c] = l],
           pc[i] \in Up \/ child[c] \in Bearing \/ l \notin Bearing,
           UNCHANGED <<pc, clean, todo, home>>, aside \subseteq aside'
    PROVE  AloneInv'
<1> USE Shapes
<1>1. ASSUME NEW j \in clean', pc'[j] # "left", NEW k \in Children, child'[k] \in Bearing
      PROVE  home'[k] = j \/ k \in todo'[j] \/ k \in aside'
  <2>1. CASE child[k] \in Bearing
    BY <1>1, <2>1 DEF AloneInv
  <2>2. CASE child[k] \notin Bearing
    <3>1. k = c /\ pc[i] \in Up
      BY <1>1, <2>2
    <3>2. pc[j] \in Up
      BY <1>1 DEF AloneInv, Up, Holding
    <3> QED
      BY <1>1, <3>1, <3>2, HolderAlone
  <2> QED
    BY <2>1, <2>2
<1> QED
  BY <1>1 DEF AloneInv

\* A Recover that reports no error has settled what it does not
\* have left to do.
LEMMA AloneStep ==
    ASSUME TypeOK, HolderInv, SparedInv, RecordInv, AloneInv, [Next]_vars
    PROVE  AloneInv'
<1> USE Shapes DEF vars, disk, procs
<1>a. \A i \in clean : pc[i] \in {"recovering", "recovered", "left"} \cup Holding
  BY DEF AloneInv
<1>b. ASSUME NEW i \in Instances, NEW c \in Children, child[c] \notin Bearing,
             todo' = [todo EXCEPT ![i] = @ \ {c}], UNCHANGED <<pc, clean, child, home>>,
             aside \subseteq aside'
      PROVE  AloneInv'
  BY <1>b DEF AloneInv
<1>1. ASSUME NEW i \in Instances,
             StartStep(i) \/ CloseIntake(i) \/ StoreClose(i) \/ Park(i) \/ Crash(i)
      PROVE  AloneInv'
  <2>1. CASE ProbeIncumbent(i)
    <3>1. i \notin clean /\ \E l \in {"probed", "left"} : Goto(i, l)
      BY <2>1, <1>a DEF ProbeIncumbent, Holding
    <3> QED
      BY <2>1, <3>1, AloneFrame DEF ProbeIncumbent
  <2>2. CASE AcquireLock(i)
    <3>1. i \notin clean
      BY <2>2, <1>a DEF AcquireLock, Ready, Holding
    <3> QED
      BY <2>2, <3>1, AloneFrame DEF AcquireLock
  <2>3. CASE LockExpires(i) \/ LoadFails(i) \/ RescueFails(i) \/ RecordOwnerFails(i)
             \/ BindFails(i) \/ StoreClose(i)
    <3>1. Leave(i)
      BY <2>3 DEF LockExpires, LoadFails, RescueFails, RecordOwnerFails, BindFails, StoreClose
    <3>2. UNCHANGED <<clean, todo, child, home>>
      BY <2>3 DEF LockExpires, LoadFails, RescueFails, RecordOwnerFails, BindFails, StoreClose
    <3>3. aside \subseteq aside'
      BY <2>3 DEF LockExpires, LoadFails, RescueFails, RecordOwnerFails, BindFails, StoreClose,
                  StoreFails, Store, MoveAside
    <3> QED
      BY <3>1, <3>2, <3>3, AloneFrame DEF Leave
  <2>4. CASE Load(i)
    BY <2>4, <1>a, AloneFrame DEF Load, Holding
  <2>5. CASE Archive(i)
    BY <2>5, <1>a, AloneFrame DEF Archive, MoveAside, Holding
  <2>6. CASE Rescue(i)
    BY <2>6, <1>a, AloneFrame DEF Rescue, Store, Holding
  <2>7. CASE RecordOwner(i)
    BY <2>7, <1>a, AloneFrame DEF RecordOwner, Store, Holding
  <2>8. CASE Snapshot(i)
    <3>1. /\ i \notin clean /\ pc' = [pc EXCEPT ![i] = "recovering"]
          /\ clean' = clean \cup {i} /\ UNCHANGED <<child, home, aside>>
          /\ \A j \in Instances : j # i => todo'[j] = todo[j]
      BY <2>8, <1>a DEF Snapshot, Goto, Opened, Holding
    <3>2. \A c \in Children : child[c] \in Bearing => home[c] = i \/ c \in todo'[i] \/ c \in aside
      <4>1. \A c \in Children : c \in todo'[i] <=> value[i].live[c] # "none" /\ home[c] # i
        BY <2>8 DEF Snapshot, Named
      <4>2. pc[i] \in Up \ {"locked"}
        BY <2>8 DEF Snapshot, Opened, Up
      <4> QED
        BY <4>1, <4>2 DEF RecordInv
    <3> QED
      BY <3>1, <3>2 DEF AloneInv
  <2>9. CASE SnapshotFails(i)
    BY <2>9, <1>a, AloneFrame DEF SnapshotFails, Opened, Holding
  <2>10. CASE RecoverReturns(i)
    BY <2>10, AloneFrame DEF RecoverReturns, Reclaimed, Holding
  <2>11. CASE Bind(i)
    BY <2>11, AloneFrame DEF Bind, Holding
  <2>12. CASE CloseIntake(i)
    BY <2>12, AloneFrame DEF CloseIntake, Holding
  <2>13. CASE Park(i)
    BY <2>13, AloneFrame DEF Park, Holding
  <2>14. CASE Crash(i)
    BY <2>14 DEF Crash, Goto, AloneInv
  <2>15. ASSUME NEW c \in Children, RecoverSignal(i, c)
         PROVE  AloneInv'
    BY <2>15 DEF RecoverSignal, AloneInv
  <2>16. ASSUME NEW c \in Children, RecoverProven(i, c)
         PROVE  AloneInv'
    BY <2>16, <1>b DEF RecoverProven, Retired, StoreFails, Store, Bearing
  <2>17. ASSUME NEW c \in Children, RecoverUndetermined(i, c)
         PROVE  AloneInv'
    BY <2>17 DEF RecoverUndetermined, AloneInv
  <2> QED
    BY <1>1, <2>1, <2>2, <2>3, <2>4, <2>5, <2>6, <2>7, <2>8, <2>9, <2>10, <2>11, <2>12,
           <2>13, <2>14, <2>15, <2>16, <2>17 DEF StartStep, RecoverStep
<1>2. ASSUME NEW i \in Instances, NEW c \in Children, ChildStep(i, c)
      PROVE  AloneInv'
  <2>1. CASE Spawn(i, c)
    <3>1. \A k \in Children : child'[k] \in Bearing => child[k] \in Bearing /\ home'[k] = home[k]
      BY <2>1 DEF Spawn, Bearing
    <3> QED
      BY <2>1, <3>1 DEF Spawn, AloneInv
  <2>2. CASE Record(i, c)
    BY <2>2, AloneChild DEF Record, Store, Up
  <2>3. CASE RecordFails(i, c)
    BY <2>3, AloneChild DEF RecordFails, Store, Bearing
  <2>4. CASE Release(i, c)
    BY <2>4, AloneChild DEF Release, Bearing
  <2>5. CASE ReleaseFails(i, c)
    BY <2>5, AloneChild DEF ReleaseFails, Bearing
  <2>6. CASE Retire(i, c)
    BY <2>6 DEF Retire, Retired, StoreFails, Store, AloneInv
  <2>7. CASE Suspend(i, c)
    BY <2>7, AloneChild DEF Suspend, Bearing
  <2> QED
    BY <1>2, <2>1, <2>2, <2>3, <2>4, <2>5, <2>6, <2>7 DEF ChildStep
<1>3. ASSUME NEW c \in Children, TraceLost(c) \/ Exit(c)
      PROVE  AloneInv'
  BY <1>3 DEF TraceLost, Exit, AloneInv, Bearing
<1>4. CASE UNCHANGED vars
  BY <1>4 DEF AloneInv
<1> QED
  BY <1>1, <1>2, <1>3, <1>4 DEF Next

\* The whole of what is known about the children's records.
RecordsInv == Inv /\ RecordInv /\ AloneInv

\* It is inductive, for any schemas of the generations.
THEOREM RecordsInvariant == Spec => []RecordsInv
<1>1. Init => RecordsInv
  <2>1. Init => RecordInv /\ AloneInv
    BY DEF Init, RecordInv, AloneInv, Bearing
  <2> QED
    BY <2>1, GenerationInit DEF RecordsInv
<1>2. RecordsInv /\ [Next]_vars => RecordsInv'
  BY TypeStep, HolderStep, SparedStep, RecordStep, AloneStep DEF Inv, RecordsInv
<1> QED
  BY <1>1, <1>2, PTL DEF Spec

\* Over any number of generations, schemas, crashes and failed writes, a child
\* that runs is named by the record file or by one that was moved aside.
THEOREM ChildrenOnDisk == Spec => []RunningOnDisk
<1>1. RecordsInv => RunningOnDisk
  BY DEF RecordsInv, RecordInv, RunningOnDisk, Named, Bearing
<1> QED
  BY <1>1, RecordsInvariant, PTL

\* Once a Recover returned without an error no child of an earlier generation
\* runs, but those of a file that was moved aside.
THEOREM RecoverLeavesNone == Spec => []RecoveredAlone
<1>1. RecordsInv => RecoveredAlone
  BY SMT DEF RecordsInv, Inv, TypeOK, SparedInv, AloneInv, RecoveredAlone, Bearing
<1> QED
  BY <1>1, RecordsInvariant, PTL

\* A file is moved aside only by a generation that reads another schema.
LEMMA AsideStep ==
    ASSUME TypeOK, \A j, k \in Instances : Era[j] = Era[k], aside = {}, [Next]_vars
    PROVE  aside' = {}
<1> USE DEF vars, disk
<1>a. \A i \in Instances : ~ Foreign(i)
  BY DEF TypeOK, Files, Eras, Foreign
<1>1. ASSUME NEW i \in Instances,
             StartStep(i) \/ CloseIntake(i) \/ StoreClose(i) \/ Park(i) \/ Crash(i)
      PROVE  aside' = {}
  <2>1. CASE ProbeIncumbent(i) \/ AcquireLock(i) \/ LockExpires(i) \/ Load(i)
    BY <2>1 DEF ProbeIncumbent, AcquireLock, LockExpires, Load
  <2>2. CASE Archive(i) \/ LoadFails(i)
    BY <2>2, <1>a DEF Archive, LoadFails
  <2>3. CASE Rescue(i) \/ RescueFails(i) \/ RecordOwner(i) \/ RecordOwnerFails(i)
    BY <2>3 DEF Rescue, RescueFails, RecordOwner, RecordOwnerFails, StoreFails, Store
  <2>4. CASE Snapshot(i) \/ SnapshotFails(i) \/ RecoverReturns(i) \/ Bind(i) \/ BindFails(i)
    BY <2>4 DEF Snapshot, SnapshotFails, RecoverReturns, Bind, BindFails
  <2>5. CASE CloseIntake(i) \/ StoreClose(i) \/ Park(i) \/ Crash(i)
    BY <2>5 DEF CloseIntake, StoreClose, Park, Crash
  <2>6. ASSUME NEW c \in Children,
               RecoverSignal(i, c) \/ RecoverProven(i, c) \/ RecoverUndetermined(i, c)
        PROVE  aside' = {}
    BY <2>6 DEF RecoverSignal, RecoverProven, RecoverUndetermined, Retired, StoreFails, Store
  <2> QED
    BY <1>1, <2>1, <2>2, <2>3, <2>4, <2>5, <2>6 DEF StartStep, RecoverStep
<1>2. ASSUME NEW i \in Instances, NEW c \in Children, ChildStep(i, c)
      PROVE  aside' = {}
  BY <1>2 DEF ChildStep, Spawn, Suspend, Record, RecordFails, Release, ReleaseFails, Retire, Retired,
              StoreFails, Store
<1>3. ASSUME NEW c \in Children, TraceLost(c) \/ Exit(c)
      PROVE  aside' = {}
  BY <1>3 DEF TraceLost, Exit
<1>4. CASE UNCHANGED vars
  BY <1>4
<1> QED
  BY <1>1, <1>2, <1>3, <1>4 DEF Next

\* While every generation writes one schema, a child that runs is named by the
\* record file itself, where the next Recover finds it.
THEOREM OneEraRecorded ==
    ASSUME \A j, k \in Instances : Era[j] = Era[k]
    PROVE  Spec => []RunningRecorded
<1>1. Init => aside = {}
  BY DEF Init
<1>2. RecordsInv /\ aside = {} /\ [Next]_vars => (aside = {})'
  BY AsideStep DEF RecordsInv, Inv
<1>3. RecordsInv /\ aside = {} => RunningRecorded
  BY DEF RecordsInv, RecordInv, RunningRecorded, Bearing
<1> QED
  BY <1>1, <1>2, <1>3, RecordsInvariant, PTL DEF Spec
=============================================================================
