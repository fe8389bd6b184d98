----------------------------- MODULE Generation -----------------------------
(***************************************************************************)
(* The generations of one label: the calls of Serve and of OwnProcesses,   *)
(* one process each, that come and go over one record file, its lock and   *)
(* one socket path, and may crash between any two steps.  Serve is the     *)
(* ladder of the module Serve and a scope is the module Scope; here are    *)
(* their first and last steps and what they leave on disk for the next.    *)
(*                                                                         *)
(* An instance is its own generation.  A child has at most one record, so  *)
(* the records of a file are a function from children to the policy its    *)
(* record carries.  Store is one step: a temporary file renamed over the   *)
(* old one; an error is returned before or after the rename.               *)
(***************************************************************************)
EXTENDS FiniteSets

CONSTANTS
    Daemons,    \* the calls of Serve
    Scopes,     \* the calls of OwnProcesses and OwnProcessesWithPolicy
    Children,   \* the processes they spawn
    Policy,     \* the ShutdownPolicy each instance opens its store with
    Era,        \* the record schema each instance reads and writes
    None        \* no instance; also the schema of a file that is missing

Instances == Daemons \cup Scopes
Eras == {Era[i] : i \in Instances}

ASSUME GenerationAssumption ==
    /\ Daemons \cap Scopes = {}
    /\ Policy \in [Instances -> {"terminate", "preserve"}]
    /\ \A i \in Daemons : Policy[i] = "terminate"
    /\ DOMAIN Era = Instances
    /\ None \notin Instances \cup Eras

VARIABLES
    pc,         \* how far each instance has come
    lock,       \* the holder of the record store's lock
    file,       \* the record file: its schema, its records and its owner
    aside,      \* children named by a file that was moved aside
    value,      \* the records each store's writer holds
    todo,       \* the records a Recover still has to settle
    clean,      \* the instances whose Recover returned no error
    sock,       \* whose listener the socket path leads to
    open,       \* the instances whose listener is open
    child,      \* the life of each child
    home,       \* the instance that spawned it
    signalled,  \* children a Recover has signalled
    kept        \* children to be spared: recorded under PreserveOwned, or aside

disk == <<file, aside, kept>>
procs == <<child, home, signalled>>
vars == <<pc, lock, disk, value, todo, clean, sock, open, procs>>

NoRecords == [c \in Children |-> "none"]
Nothing == [live |-> NoRecords, owner |-> None]
Missing == [era |-> None, live |-> NoRecords, owner |-> None]

Up == {"locked", "rescuing", "opened", "owned", "recovering", "recovered",
       "holding", "closing", "parked"}

Live == [Children -> {"none", "terminate", "preserve"}]
Records == [live : Live, owner : Instances \cup {None}]
Files == [era : Eras \cup {None}, live : Live, owner : Instances \cup {None}]
Labels == {"idle", "probed", "left", "dead"} \cup Up

\* Shapes: the sets the variables range over.
TypeOK ==
    /\ pc \in [Instances -> Labels]
    /\ lock \in Instances \cup {None}
    /\ file \in Files
    /\ aside \subseteq Children
    /\ value \in [Instances -> Records]
    /\ todo \in [Instances -> SUBSET Children]
    /\ clean \subseteq Instances
    /\ sock \in Instances \cup {None}
    /\ open \subseteq Daemons
    /\ child \in [Children -> {"idle", "traced", "forked", "recorded", "running", "aborted", "loose", "gone"}]
    /\ home \in [Children -> Instances \cup {None}]
    /\ signalled \subseteq Children
    /\ kept \subseteq Children

Init ==
    /\ pc = [i \in Instances |-> "idle"]
    /\ lock = None
    /\ file = Missing
    /\ aside = {}
    /\ value = [i \in Instances |-> Nothing]
    /\ todo = [i \in Instances |-> {}]
    /\ clean = {}
    /\ sock = None
    /\ open = {}
    /\ child = [c \in Children |-> "idle"]
    /\ home = [c \in Children |-> None]
    /\ signalled = {}
    /\ kept = {}

Named(live) == {c \in Children : live[c] # "none"}
Goto(i, label) == pc' = [pc EXCEPT ![i] = label]

\* The call returns an error; a lock it holds is released.
Leave(i) ==
    /\ Goto(i, "left")
    /\ lock' = IF lock = i THEN None ELSE lock
    /\ value' = [value EXCEPT ![i] = Nothing]

\* File.Store lands: this era's schema around the value.
Store(i, v) ==
    /\ file' = [era |-> Era[i], live |-> v.live, owner |-> v.owner]
    /\ kept' = kept \cup {c \in Children : v.live[c] = "preserve"}
    /\ UNCHANGED aside

\* File.Store answers an error: before its rename, or after it when the
\* directory could not be synced.
StoreFails(i, v) == UNCHANGED disk \/ Store(i, v)

-----------------------------------------------------------------------------
(***************************************************************************)
(* Opening: incumbent, lock, record file.                                  *)
(***************************************************************************)

\* A socket that accepts is a live incumbent; any other failure to dial than a
\* missing path or a refusal is an error too.
ProbeIncumbent(i) ==
    /\ i \in Daemons
    /\ pc[i] = "idle"
    /\ \/ sock \notin open /\ Goto(i, "probed")
       \/ Goto(i, "left")
    /\ UNCHANGED <<lock, disk, value, todo, clean, sock, open, procs>>

Ready(i) == IF i \in Daemons THEN pc[i] = "probed" ELSE pc[i] = "idle"

\* flock on the store's lock file, polled until it is free.
AcquireLock(i) ==
    /\ Ready(i)
    /\ lock = None
    /\ lock' = i
    /\ Goto(i, "locked")
    /\ UNCHANGED <<disk, value, todo, clean, sock, open, procs>>

\* Mutant of LockExpires: a daemon that lost removes the socket path as it leaves.
LockExpiresUnlinks(i) ==
    /\ Ready(i)
    /\ Leave(i)
    /\ sock' = IF i \in Daemons THEN None ELSE sock
    /\ UNCHANGED <<disk, todo, clean, open, procs>>

\* The budget of the poll ended, with contention or without.
LockExpires(i) ==
    /\ Ready(i)
    /\ Leave(i)
    /\ UNCHANGED <<disk, todo, clean, sock, open, procs>>

\* Opening under PreserveOwned marks every prior record so.
Marked(i, live) ==
    IF Policy[i] = "preserve"
    THEN [c \in Children |-> IF live[c] = "none" THEN "none" ELSE "preserve"]
    ELSE live

\* Mutant of Rescued: the cores become records of the store's own policy.
RescuedTerminate(live) ==
    [live |-> [c \in Children |-> IF live[c] = "none" THEN "none" ELSE "terminate"],
     owner |-> None]

\* The cores of a file moved aside become PreserveOwned records without owner.
Rescued(live) ==
    [live |-> [c \in Children |-> IF live[c] = "none" THEN "none" ELSE "preserve"],
     owner |-> None]

Foreign(i) == file.era \notin {None, Era[i]}

\* openLocked over a file this era reads, or over none.
Load(i) ==
    /\ pc[i] = "locked"
    /\ ~Foreign(i)
    /\ value' = [value EXCEPT ![i] = [live |-> Marked(i, file.live), owner |-> file.owner]]
    /\ Goto(i, IF Policy[i] = "preserve" THEN "rescuing" ELSE "opened")
    /\ UNCHANGED <<lock, disk, todo, clean, sock, open, procs>>

MoveAside ==
    /\ file' = Missing
    /\ aside' = aside \cup Named(file.live)
    /\ kept' = kept \cup Named(file.live)

\* openLocked over a file of another era: Load moves it aside and answers its
\* cores, which no file names until they are stored.
Archive(i) ==
    /\ pc[i] = "locked"
    /\ Foreign(i)
    /\ MoveAside
    /\ value' = [value EXCEPT ![i] = Rescued(file.live)]
    /\ Goto(i, "rescuing")
    /\ UNCHANGED <<lock, todo, clean, sock, open, procs>>

\* The read failed, or the move aside did, before its rename or after it.
LoadFails(i) ==
    /\ pc[i] = "locked"
    /\ UNCHANGED disk \/ (Foreign(i) /\ MoveAside)
    /\ Leave(i)
    /\ UNCHANGED <<todo, clean, sock, open, procs>>

\* The rescued or marked records are stored before the writer starts.
Rescue(i) ==
    /\ pc[i] = "rescuing"
    /\ Store(i, value[i])
    /\ Goto(i, "opened")
    /\ UNCHANGED <<lock, value, todo, clean, sock, open, procs>>

RescueFails(i) ==
    /\ pc[i] = "rescuing"
    /\ StoreFails(i, value[i])
    /\ Leave(i)
    /\ UNCHANGED <<todo, clean, sock, open, procs>>

Owned(i) == [live |-> value[i].live, owner |-> i]

\* Serve names itself the owner; the write is read back.
RecordOwner(i) ==
    /\ i \in Daemons
    /\ pc[i] = "opened"
    /\ Store(i, Owned(i))
    /\ value' = [value EXCEPT ![i] = Owned(i)]
    /\ Goto(i, "owned")
    /\ UNCHANGED <<lock, todo, clean, sock, open, procs>>

RecordOwnerFails(i) ==
    /\ i \in Daemons
    /\ pc[i] = "opened"
    /\ StoreFails(i, Owned(i))
    /\ Leave(i)
    /\ UNCHANGED <<todo, clean, sock, open, procs>>

-----------------------------------------------------------------------------
(***************************************************************************)
(* Recover: settle the records of the generations before this one.         *)
(***************************************************************************)

Opened(i) == IF i \in Daemons THEN pc[i] = "owned" ELSE pc[i] = "opened"

\* Serve has yet to bind its listener; a scope is open.
Reclaimed(i) == IF i \in Daemons THEN "recovered" ELSE "holding"

Snapshot(i) ==
    /\ Opened(i)
    /\ todo' = [todo EXCEPT ![i] = {c \in Named(value[i].live) : home[c] # i}]
    /\ clean' = clean \cup {i}
    /\ Goto(i, "recovering")
    /\ UNCHANGED <<lock, disk, value, sock, open, procs>>

\* The budget ended before the snapshot: Recover errs, its caller goes on.
SnapshotFails(i) ==
    /\ Opened(i)
    /\ Goto(i, Reclaimed(i))
    /\ UNCHANGED <<lock, disk, value, todo, clean, sock, open, procs>>

Spares(i, c) == Policy[i] = "preserve" \/ value[i].live[c] = "preserve"

\* Mutant of RecoverSignal: only the store's own policy is looked at.
RecoverSignalAny(i, c) ==
    /\ pc[i] = "recovering"
    /\ c \in todo[i]
    /\ Policy[i] = "terminate"
    /\ child[c] \in {"forked", "recorded", "running", "aborted"}
    /\ signalled' = signalled \cup {c}
    /\ UNCHANGED <<pc, lock, disk, value, todo, clean, sock, open, child, home>>

\* The reap ladder signals the recorded instance, or the members of its session,
\* unless the store or the record is PreserveOwned.
RecoverSignal(i, c) ==
    /\ pc[i] = "recovering"
    /\ c \in todo[i]
    /\ ~Spares(i, c)
    /\ child[c] \in {"forked", "recorded", "running", "aborted"}
    /\ signalled' = signalled \cup {c}
    /\ UNCHANGED <<pc, lock, disk, value, todo, clean, sock, open, child, home>>

\* Mutant of Retained: the rewritten records forget the owner block.
RetainedUnowned(v, c) == [live |-> [v.live EXCEPT ![c] = "none"], owner |-> None]

\* retained: the records without one, and the owner block.
Retained(v, c) == [live |-> [v.live EXCEPT ![c] = "none"], owner |-> v.owner]

\* retireContext: the record leaves the file and then the writer's value, or an
\* error of the write or of the re-read leaves it in the value.
Retired(i, c) ==
    LET v == Retained(value[i], c) IN
    \/ Store(i, v) /\ value' = [value EXCEPT ![i] = v]
    \/ StoreFails(i, v) /\ UNCHANGED value

\* Mutant of RecoverProven: an expired ladder retires the record as well.
RecoverUnproven(i, c) ==
    /\ pc[i] = "recovering"
    /\ c \in todo[i]
    /\ todo' = [todo EXCEPT ![i] = @ \ {c}]
    /\ Retired(i, c)
    /\ UNCHANGED <<pc, lock, clean, sock, open, procs>>

\* The process was observed gone: its record is retired.
RecoverProven(i, c) ==
    /\ pc[i] = "recovering"
    /\ c \in todo[i]
    /\ child[c] = "gone"
    /\ todo' = [todo EXCEPT ![i] = @ \ {c}]
    /\ Retired(i, c)
    /\ UNCHANGED <<pc, lock, clean, sock, open, procs>>

\* Mutant of RecoverUndetermined: a record left undecided is not an error.
RecoverUnreported(i, c) ==
    /\ pc[i] = "recovering"
    /\ c \in todo[i]
    /\ todo' = [todo EXCEPT ![i] = @ \ {c}]
    /\ UNCHANGED <<pc, lock, disk, value, clean, sock, open, procs>>

\* A probe failed, the ladder's deadline passed, or a spared process runs: the
\* record is kept and Recover errs.
RecoverUndetermined(i, c) ==
    /\ pc[i] = "recovering"
    /\ c \in todo[i]
    /\ todo' = [todo EXCEPT ![i] = @ \ {c}]
    /\ clean' = clean \ {i}
    /\ UNCHANGED <<pc, lock, disk, value, sock, open, procs>>

RecoverReturns(i) ==
    /\ pc[i] = "recovering"
    /\ todo[i] = {}
    /\ Goto(i, Reclaimed(i))
    /\ UNCHANGED <<lock, disk, value, todo, clean, sock, open, procs>>

-----------------------------------------------------------------------------
(***************************************************************************)
(* The listener and the end of a generation.                               *)
(***************************************************************************)

\* The stale path is removed, a listener bound in its place.
Bind(i) ==
    /\ pc[i] = "recovered"
    /\ i \in Daemons
    /\ sock' = i
    /\ open' = open \cup {i}
    /\ Goto(i, "holding")
    /\ UNCHANGED <<lock, disk, value, todo, clean, procs>>

\* Listen, chmod or the wire server failed; closing a listener unlinks its path.
BindFails(i) ==
    /\ pc[i] = "recovered"
    /\ i \in Daemons
    /\ sock' = None
    /\ Leave(i)
    /\ UNCHANGED <<disk, todo, clean, open, procs>>

\* The ladder closes intake: the path is unlinked by name, whoever bound it last.
CloseIntake(i) ==
    /\ i \in open
    /\ pc[i] = "holding"
    /\ open' = open \ {i}
    /\ sock' = None
    /\ Goto(i, "closing")
    /\ UNCHANGED <<lock, disk, value, todo, clean, procs>>

\* No call of the scope is pending and no child of it runs.  An abort that could
\* not be proven stays a pending call of a PreserveOwned scope only.
Quiet(i) ==
    \A c \in Children : home[c] = i =>
        /\ child[c] \notin {"traced", "forked", "recorded", "running"}
        /\ child[c] = "aborted" => Policy[i] = "terminate"

\* Store.Close.  Serve closes after a ladder that abandoned nothing, so over no
\* child of its own; Close of a TerminateOwned scope whatever it leaves behind;
\* Close of a PreserveOwned scope once every record was retired quiet.
StoreClose(i) ==
    /\ \/ i \in Daemons /\ pc[i] = "closing" /\ Quiet(i)
       \/ i \in Scopes /\ pc[i] = "holding" /\ Policy[i] = "terminate"
       \/ i \in Scopes /\ pc[i] = "holding" /\ Quiet(i) /\ Named(value[i].live) = {}
    /\ Leave(i)
    /\ UNCHANGED <<disk, todo, clean, sock, open, procs>>

\* Mutant of Park: the lock is released with a stage abandoned.
ParkReleases(i) ==
    /\ i \in Daemons
    /\ pc[i] = "closing"
    /\ Goto(i, "parked")
    /\ lock' = None
    /\ UNCHANGED <<disk, value, todo, clean, sock, open, procs>>

\* The ladder abandoned a stage: Serve keeps the lock until the process ends.
Park(i) ==
    /\ i \in Daemons
    /\ pc[i] = "closing"
    /\ Goto(i, "parked")
    /\ UNCHANGED <<lock, disk, value, todo, clean, sock, open, procs>>

\* The process ends without another step: the kernel drops its flock and closes
\* its listener, whose path stays.
Crash(i) ==
    /\ pc[i] \notin {"idle", "dead"}
    /\ Goto(i, "dead")
    /\ lock' = IF lock = i THEN None ELSE lock
    /\ value' = [value EXCEPT ![i] = Nothing]
    /\ todo' = [todo EXCEPT ![i] = {}]
    /\ clean' = clean \ {i}
    /\ open' = open \ {i}
    /\ UNCHANGED <<disk, sock, procs>>

-----------------------------------------------------------------------------
(***************************************************************************)
(* Children: suspended start, durable record, release, exit, retirement.   *)
(***************************************************************************)

\* startChild forks the child traced, to halt it before its first instruction.
Spawn(i, c) ==
    /\ pc[i] = "holding"
    /\ child[c] = "idle"
    /\ child' = [child EXCEPT ![c] = "traced"]
    /\ home' = [home EXCEPT ![c] = i]
    /\ UNCHANGED <<pc, lock, disk, value, todo, clean, sock, open, signalled>>

\* suspendAtEntry trades the trace for a plain stop, or fails and the child is
\* killed.
Suspend(i, c) ==
    /\ pc[i] # "dead"
    /\ home[c] = i
    /\ child[c] = "traced"
    /\ \E l \in {"forked", "aborted"} : child' = [child EXCEPT ![c] = l]
    /\ UNCHANGED <<pc, lock, disk, value, todo, clean, sock, open, home, signalled>>

\* The tracer died within startChild: linux lets the child go, and no record was
\* to name it yet.
TraceLost(c) ==
    /\ child[c] = "traced"
    /\ pc[home[c]] = "dead"
    /\ child' = [child EXCEPT ![c] = "loose"]
    /\ UNCHANGED <<pc, lock, disk, value, todo, clean, sock, open, home, signalled>>

With(i, c) ==
    [live |-> [value[i].live EXCEPT ![c] = Policy[i]], owner |-> value[i].owner]

\* Store.add: the record was written, read back and found.
Record(i, c) ==
    /\ pc[i] \in {"holding", "closing", "parked"}
    /\ home[c] = i
    /\ child[c] = "forked"
    /\ Store(i, With(i, c))
    /\ value' = [value EXCEPT ![i] = With(i, c)]
    /\ child' = [child EXCEPT ![c] = "recorded"]
    /\ UNCHANGED <<pc, lock, todo, clean, sock, open, home, signalled>>

\* Store.add failed, with the record in the file or not, or its deadline passed
\* and the rollback did not retire what the writer stored; a closed store takes
\* no write.  The child is aborted.
RecordFails(i, c) ==
    /\ pc[i] \in {"holding", "closing", "parked", "left"}
    /\ home[c] = i
    /\ child[c] = "forked"
    /\ \/ UNCHANGED <<disk, value>>
       \/ /\ pc[i] # "left"
          /\ Store(i, With(i, c))
          /\ value' \in {value, [value EXCEPT ![i] = With(i, c)]}
    /\ child' = [child EXCEPT ![c] = "aborted"]
    /\ UNCHANGED <<pc, lock, todo, clean, sock, open, home, signalled>>

\* releaseChild: the first instruction, which needs no store.
Release(i, c) ==
    /\ pc[i] # "dead"
    /\ home[c] = i
    /\ child[c] = "recorded"
    /\ child' = [child EXCEPT ![c] = "running"]
    /\ UNCHANGED <<pc, lock, disk, value, todo, clean, sock, open, home, signalled>>

ReleaseFails(i, c) ==
    /\ pc[i] # "dead"
    /\ home[c] = i
    /\ child[c] = "recorded"
    /\ child' = [child EXCEPT ![c] = "aborted"]
    /\ UNCHANGED <<pc, lock, disk, value, todo, clean, sock, open, home, signalled>>

\* A process ends by itself or of a signal; a suspended one only of a SIGKILL.
Exit(c) ==
    /\ \/ child[c] \in {"running", "aborted", "loose"}
       \/ child[c] \in {"forked", "recorded"} /\ c \in signalled
    /\ child' = [child EXCEPT ![c] = "gone"]
    /\ UNCHANGED <<pc, lock, disk, value, todo, clean, sock, open, home, signalled>>

\* The child's driver, or the RetireQuiet of a PreserveOwned scope, retires the
\* record of a process observed gone.
Retire(i, c) ==
    /\ pc[i] \in {"holding", "closing", "parked"}
    /\ home[c] = i \/ Policy[i] = "preserve"
    /\ child[c] = "gone"
    /\ value[i].live[c] # "none"
    /\ Retired(i, c)
    /\ UNCHANGED <<pc, lock, todo, clean, sock, open, procs>>

-----------------------------------------------------------------------------

RecoverStep(i) ==
    \/ Snapshot(i) \/ SnapshotFails(i) \/ RecoverReturns(i)
    \/ \E c \in Children :
        RecoverSignal(i, c) \/ RecoverProven(i, c) \/ RecoverUndetermined(i, c)

StartStep(i) ==
    \/ ProbeIncumbent(i) \/ AcquireLock(i) \/ LockExpires(i)
    \/ Load(i) \/ Archive(i) \/ LoadFails(i)
    \/ Rescue(i) \/ RescueFails(i)
    \/ RecordOwner(i) \/ RecordOwnerFails(i)
    \/ RecoverStep(i)
    \/ Bind(i) \/ BindFails(i)

ChildStep(i, c) ==
    \/ Spawn(i, c) \/ Suspend(i, c)
    \/ Record(i, c) \/ RecordFails(i, c)
    \/ Release(i, c) \/ ReleaseFails(i, c)
    \/ Retire(i, c)

Next ==
    \/ \E i \in Instances :
        \/ StartStep(i)
        \/ CloseIntake(i) \/ StoreClose(i) \/ Park(i)
        \/ Crash(i)
        \/ \E c \in Children : ChildStep(i, c)
    \/ \E c \in Children : TraceLost(c) \/ Exit(c)

Spec == Init /\ [][Next]_vars

-----------------------------------------------------------------------------

\* The socket path leads to the daemon that listens: the unlink before a bind and
\* the unlink by name at a listener's close never take another daemon's path.
PathLeadsToListener == \A i \in open : sock = i

\* The record file's owner block names the daemon that listens, in a schema it
\* wrote itself, through every later rewrite of the records: a client settles
\* the daemon it reads there without a session.
OwnerNamesListener == \A i \in open : file.owner = i /\ file.era = Era[i]

\* A client finds the daemon that listens both ways, by the path and by the owner
\* block of the record file.
ListenerFound == PathLeadsToListener /\ OwnerNamesListener

\* A child that runs is named by the record file, across generations, crashes
\* and failed writes, so that the next generation can reclaim it.
RunningRecorded == \A c \in Children : child[c] = "running" => file.live[c] # "none"

\* A child that runs is named by the record file, or held by the store that is
\* rescuing it: a file of a broken era can not "orphan the children it recorded".
NeverOrphaned ==
    \A c \in Children : child[c] = "running" =>
        \/ file.live[c] # "none"
        \/ \E i \in Instances : pc[i] = "rescuing" /\ value[i].live[c] # "none"

\* A child that runs is named by the record file, by one moved aside, or both; but
\* a child whose spawner died while it still traced it runs without any record.
RunningOnDisk ==
    \A c \in Children : child[c] = "running" => c \in aside \cup Named(file.live)

\* Once a Recover returned without an error, no child of an earlier generation
\* runs beside the children of this one, but those of a file moved aside and
\* those whose spawner died while it traced them.
RecoveredAlone ==
    \A i \in clean, c \in Children :
        pc[i] \in {"recovered", "holding", "closing"} /\ child[c] = "running" =>
            home[c] = i \/ c \in aside

\* Recover signals no child of a generation that still holds its scope ("a
\* reclaim that would kill a live daemon's children is not constructible"), none
\* that a record file named under PreserveOwned, and none whose file was moved
\* aside, whichever generations rewrote the records.
ReclaimSpares ==
    [][\A c \in signalled' \ signalled : pc[home[c]] \in {"left", "dead"} /\ c \notin kept]_vars

=============================================================================
