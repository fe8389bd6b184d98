# daemonkit in TLA+

Specifications of daemonkit, the Go kit a macOS or Linux daemon is built from:
process ownership, single-instance serving with a bounded shutdown, a session
protocol, convergence on one daemon per label, and the deployment of its bundle.
TLC checks each specification on a small instance; TLAPS proves safety
properties for every value of the constants.

`PROJECT.json` lists the components, the runs, the source lines each definition
stands for, the mutants, the hazards and the theorems.

## The system

A daemon calls `Serve` (`serve.go`). It takes the lock of its record store,
recovers what an earlier generation left, binds its socket, starts the wire
server and the product, and waits for a drain. The product starts processes
through its ownership scope (`own.go`): `Spawn`, `Run` and `Adopt`. Each child
is started suspended, recorded durably, and only then released
(`internal/proc/spawn.go`); a driver goroutine (`internal/proc/driver.go`) waits
for its exit, settles what is left of its session with the termination ladder
(`internal/proc/reap.go`) and retires the record. A drain runs the shutdown
ladder: close intake, settle requests, `product.Drain`, `product.Close`, settle
children. If every stage settled, `Serve` releases the lock and returns;
otherwise it parks, keeping the lock over half-done work.

Clients call the daemon over sessions (`internal/wire/client.go`,
`internal/wire/session.go`) that lanes hold and replace (`business.go`).
`Ensure` and `Stop` (`ensure.go`, `stop.go`) converge a label on "one ready
daemon of this build" or "none", through the service manager: launchd on macOS
(`launchd/`), a small supervisor on Linux (`supervise/`). `deploy/` swaps the
installed bundle with a pair of renames it can resume after a crash. `artifact/`
materialises pinned downloads. The Swift package is a client of the same
protocol.

Every part, modelled or not, is listed under `components` in `PROJECT.json`
with what is left out and why.

## Modules

| module | models | state and actions |
|---|---|---|
| `Scope` | `Owned`, `Store`, `Child`, `Tracked` | a *verb* is one call of Spawn/Run/Adopt; its reservation, process session, record and handle are functions of the verb; one action per critical section or system call |
| `Settle` | `Owned.Close` of a `TerminateOwned` scope | the three snapshots of `settle`, the join of calls still starting, the waits on children, the stops of adopted processes, one deadline for all; then the closing of the store, which waits for the operation its writer is in |
| `NaturalDrain` | `ownership_natural.go`, `proc/preserve.go` | leases, the observation in its three parts (reservations, records, one scope at a time), proofs, Commit, Abort, and `settleNatural` |
| `ScopeContract` | what a closing scope promises | abstract: pending calls, live processes, one answer |
| `Serve` | `Serve`, `serveRuntime`, the wire server | phase, accept loop, requests, ladder, children tail, signals, park; the scope is `ScopeContract` |
| `Generation` | `Serve` and `OwnProcessesWithPolicy` from entry to end, `proc/store.go`, `proc/owner.go`, `proc/reap.go`, `internal/state`, `internal/flock` | several calls, each its own generation, over one record file, lock and socket path; one action per write, lock, bind, settled record or step of a spawn; errors before and after a rename; a crash between any two |
| `Reap` | `ladder` of `proc/reap.go`, its callers, the probes | a process table with reusable PIDs, groups and sessions; one action per probe, listing, hold and signal; the other processes fork, move, exit and are buried between any two |
| `Session` | a session of `wire/client.go` and `wire/session.go` | requests with ids, the client's writer and reader, the server's intake and writer, bounded queues and sockets; the client and the server end it, or a write fails before, within or after a frame |
| `Stream` | one streamed call of the same files, `wire/stream.go` | chunks both ways with their sequence numbers, buffers, deliveries, cancellation and its settlement |
| `Lane` | `business.go` | lanes with their mutex and closed mark, sessions, callers at each step of call, ask, surrender and close |
| `Converge` | `ensure.go`, `stop.go`, `decide.go`, `control.go`, `program.go` | daemon instances, owner record, service layer and job, copied program; clients at each step of observe, decide, drain, terminate, prove, place, apply, wait |
| `Launchd` | `launchd/apply.go` | one label: the plist, what was moved aside, the job; one action per file operation or launchctl call |
| `Supervisor` | `supervise/` | the persisted service, the lock, the loop with its child (forked, recorded, released), timer and reply; clients that dial, wait, give up |
| `Deploy` | `deploy/` | the slots of a swap, the records, the daemon and what it runs from, the agents; one action per rename, record or launchctl step |
| `ScopeProofs` | | theorems about `Settle` and `NaturalDrain`, the two ways to close a `Scope` |
| `DaemonProofs` | | theorems about `Serve`, and about `Launchd`, which runs it |
| `ClientProofs` | | theorems about `Lane` and `Supervisor` |
| `GenerationProofs`, `ReapProofs`, `StreamProofs`, `ConvergeProofs`, `DeployProofs` | | theorems about the module of that name |
| `MC*` | | constants for TLC |

`Settle` implements `ScopeContract` (property `KeepsContract` of run `settle`,
theorem `SettleKeepsContract`), and `Serve` is specified over `ScopeContract`. So
a claim proved of `Serve` with the contract stands for the composed system.
`Generation` takes what `Serve` does between bind and close as two outcomes,
`StoreClose` and `Park`; `Converge` takes a daemon as what `Generation` shows it
to be: one holder of the lock, named by the owner record, at the socket.

Modules whose theorems share a proof module are extended together there, so their
specifications carry the component's name: `ServeInit`, `ServeNext`, `ServeSpec`,
`serveVars`, and likewise for `Settle`, `NaturalDrain` (`Drain...`), `Launchd`,
`Lane` and `Supervisor`. Nothing is composed by this: each theorem is about one
specification and leaves the other's variables alone.

Definitions whose comment begins with "Mutant of" are variants of the definition
after them with a plausible bug. They are not used by any specification. Each
names the property that must fail when it takes its original's place
(`mutants` in `PROJECT.json`): the property depends on the line changed.

### What is abstracted

**Processes in `Scope`.** A session is `none`, `suspended`, `solo` (leader only),
`multi` (leader and members), `survivors` (members without leader) or `gone`.
Death by signal and exit are one step: signals only make an exit more likely, so
a model in which a process may exit at any time, or never, contains every ladder.
What matters is who observed what before it published a terminal or dropped a
record. The ladder itself, with identities, is `Reap`.

**`Generation`.** A call of `Serve` is a member of `Daemons`, a call of
`OwnProcesses` a member of `Scopes`. The records of a file are a function from
children to the policy of their record, or `none`. `Store` is one step, because
the code renames a temporary file over the old one; it may answer an error with
the old or with the new contents in place, so the writer's copy (`value`) and the
file may disagree, as they do in the code. A file is of the reader's schema or of
another; one that does not decode takes the same path in `Load` as a foreign one.
A reap is "signal, then gone or undetermined". Adopted processes are left to
`Scope`. `signalled` and `kept` record history for the properties and are read by
no guard except that of `Exit`, where a suspended child dies only of a signal.
A child is forked traced, then suspended; on Linux a child whose spawner dies in
between is let go and runs without a record (`loose`), which the properties name
as an exception.

**`Serve`.** A request stands for a session and the single request it carries.
Shares of the shutdown budget are not measured: a wait bounded by a share may end
at any moment. `Drain` is one step although the code publishes the phase and then
cancels `stopped`: only the ladder waits for `stopped`, so the gap is a delay of
the ladder. Signals are registered per channel of capacity one, as `os/signal`
delivers them.

**`Session`, `Stream`.** A frame is its kind and id, a chunk its sequence number;
byte layout and descriptors are left out. A socket holds a bounded number of
frames. What may go wrong in a behaviour is chosen in its initial state (its
*course*), so that the checked instance has behaviours with one or two troubles
and many interleavings instead of all of both. A course of `Session` also fixes the
size of the server's queue, and may have all contexts end at once (`late`), all
requests refused by the gate (`refuse`), and writes that time out only when the
reader at the other end is held up (`stall`).

**`Reap`, `Converge`** use courses too: who calls, whether there is a session and a
process handle and which races occur; which clients run, what they find first and
whether there is a service layer. `Reap` leaves out records of an earlier boot.
`Converge` leaves out bundled and installed programs and a `Stop` without a
program; a daemon is a state (starting, serving, draining, gone) and a build. The
service layer is launchd, whose loaded job may have lost its plist, or a supervisor
that dies and comes back.

**`Deploy`, `Launchd`, `Supervisor`.** A signature, a digest, a plist and a service
specification are values; equality is what the code compares. A record write is
one step that happened or not, a launchctl call may answer a failure and take
effect. The removal of a tree may be cut short. A label has no lock: another actor
may write a plist between any two steps of a `Launchd` verb. A child of
`Supervisor` is `lost` when a kill falls between its fork and its record, or its
abort could not be proven: no supervisor knows of it.

## Runs

One run per component; bounds are in the `.cfg` files.

| run | instance | question |
|---|---|---|
| `settle` | 1 spawn, 1 adopt | is every process that outlives Close one of its faults, every running child recorded? does Close return, and does the scope keep its contract? |
| `natural_drain` | 1 spawn, 1 adopt, 2 leases, 2 proofs | is a committed drain, and a released lock, quiet, also under a proof of an earlier lease? |
| `serve` | 1 request, 1 call, 1 event | over what is the lock released? can a signal kill? can a handler run without product, or after its stage settled? does a drain end? |
| `generations` | 2 daemons of two schemas, 2 scopes of the two policies, 1 child | do path and owner block lead to the listener? is every running child named by some file? whom may a reclaim signal? |
| `deploy` | 2 builds, 2 labels, 2 starts, a crash or failure, a launch | is a swap always resumable, and resumed? which bytes may be destroyed, which seal may stand? |
| `launchd` | 2 definitions, 3 faults, 2 foreign plists, 3 attempts | what is loaded after an answer? is a foreign plist ever lost? |
| `supervisor` | 2 services, 1 client, 1 fault | is there one instance, recorded? does a verb do what it answered, and does the service run again? |
| `session` | up to 3 requests at once, queues of 1 and 2, up to 3 troubles | what may a client claim of a request? does the session keep its protocol, and can its loops wait for each other? |
| `reap` | 3 processes, every caller | is what it calls gone gone? whom does it strike? can it always go on past its deadline, and does every step lead out? |
| `converge` | 1 client and 3 instances, 2 clients and 1 instance | whom does it strike, when does it touch the service, what holds when it answers, does it end? |
| `stream` | 3 chunks up, 4 down, buffers of 1 and 2 | is a body that reads as complete complete? does the call return? |
| `lane` | 2 callers, the link, a lane, a single-session lane, 3 sessions | who holds, ends, replaces a session? does every operation return? |

Why these bounds. The scope's properties relate one call to the closing; calls
interact only through the closer's snapshots and the lease, so one call of each
kind already gives every overlap, and the proofs remove the bound. Two leases are
needed for a stale proof, two serials for a superseded one; a constraint
(`AdoptsOrLeasesAgain`) leaves out only the behaviours that do both. An event of
`serve` is a drain signal or a call into the scope: it triggers the drain, or
arrives in the park, or runs while the drain begins. Generations are a spawner,
one that rewrites or moves its records, and ones of each policy that reclaim. Two
builds let a swap find the bytes it brings already installed. Three faults of
launchctl are one more than an apply and its rollback can meet before they give
up. Three processes are a leader, a member and one more that forks from it or
takes over a number. Three instances of a daemon are an incumbent, the one that
launchd starts in its place and the one the client wanted; two clients meet over
one instance, since what they share is the start lock, the program and the job,
and the proofs hold for any number of both. Buffers of one and a
sequence space of two make every queue full and every number run out. In `session`
the capacities are smaller than any the server has (its queue holds at least two
requests, its channel four frames), so that three requests fill them: in the course
of three refused requests both read loops wait, the client's to acknowledge and the
server's to refuse, behind two full sockets. That course is followed until its
session ends (constraint `Followed`); the ends of sessions are in the others.

`settle`, `natural_drain`, `serve`, `generations`, `session`, `reap`, `converge`,
`stream` and `lane` switch the deadlock check off: their calls, generations or
requests are used up and the system stops. `session`, `reap` and `converge`
state instead who must be able to move: `NeverStuck`, `DeadlineEnds`,
`DeadlineFrees`. `deploy`, `launchd` and `supervisor` are checked for deadlock.

### Fairness

`Settle`: a Close that began runs on, and its context ends; the store's writer sees
the closed signal in the end, as Go's select picks among ready cases at random
(SF of `WriterLeaves`). Nothing is assumed of the calls, processes or drivers, nor of
the operation the writer is in, a file write without a deadline: `CloseReturns`
speaks of behaviours in which the writer is idle again and again. `Serve`: the goroutines of `Serve`, of the
wire server and of the children tail run on, because each of their waits ends by
a timer, a context or a channel they own; `DrainEnds` also assumes the product's
`Start` and handlers return, which is the product's side of the interface
(`SpecCooperative`; what happens without it is below). `Deploy` and `Supervisor`:
a caller that is not killed goes on, as every launchctl call, wait and dial is
bounded; crashes and faults are bounded and never assumed; in `Deploy` somebody
keeps calling verbs. `Stream`: the goroutines of both ends run on and
timers fire; a consumer may stop reading. `Lane`: a Go mutex does not starve a
waiter. `NaturalDrain`, `Generation`, `Launchd`, `Session`, `Reap` and `Converge` assume
none. In the last three, that nobody is stuck is an invariant, and in `Reap` and
`Converge` that a late call only moves on is the action property `DeadlineDescends`:
each step of a late call lowers the rank of its position (`Left`) or, in `Reap`, the
set it works off.

## Where code and comments part

Each of these is a definition in its module that states what a comment says. It
is in no run; added to the `INVARIANT` or `PROPERTY` of the module's run, TLC
answers with a behaviour of the code that contradicts it.

| definition | the comment | the code |
|---|---|---|
| `Serve!AbandonedParks` (under `ServeSpec`) | "A non-empty Abandoned deliberately retains the flock and parks the process" (`serve.go:104-107`) | a handler that outlives its cancellation also holds the wire server, for which `Serve` waits at `serve.go:295` before it looks at Abandoned: it neither parks nor returns |
| `Generation!NeverOrphaned` | the archive is there so that it can not "orphan the children it recorded" (`internal/state/state.go:7-9`) | `Load` renames the file aside before `openLocked` stores its cores (`internal/proc/store.go:142-159`); a crash, or a failed sync or store, between the two leaves no record file. The weaker `RunningOnDisk` holds: the file moved aside names the child, but nothing reads it |
| `Deploy!CandidateReclaimed` | an abandoned slot "is discarded rather than refused" (`deploy/swap.go:197-200`) | the discard removes a tree in place (`swap.go:250`); one cut short leaves a bundle that no longer verifies, and every later landing fails its inspection until Reset or Uninstall |
| `Deploy!SealEndsWithInstallation` | "A failure is the same window as a crash and gets the same cover" (`deploy/swap.go:172-175`) | `tombstone` joins both writes (`deploy.go:552`): the removal record is written although the activation could not be removed, and its seal outlives the application |
| `Launchd!Applied` | "A drifted, missing, or unloaded agent is written and reloaded" (`launchd/apply.go:56`) | the plist is written before the old job is booted out; cut there, the next Apply finds the plist equal and the label loaded and leaves the old definition running. `AnswersTrue` holds, which excepts it |
| `Supervisor!KeepsRunning` | "retry schedules the next policy start ..., failed ones included" (`supervise/supervisor.go:343`) | the start of an Apply that fails schedules none (`supervisor.go:236`): the service is desired and down for good |
| `Supervisor!RemoveStops` | "Remove stops and forgets the service" (`supervise/control.go:113`) | with no supervisor it only forgets; a child of a killed supervisor runs on until the next Run |
| `Session!IdleSparesRequests` | "The timer runs only between requests" (`internal/wire/session.go:177`) | `reclaimIdle` closes after it released the lock (`session.go:203`): a request admitted in between is cancelled |
| `Session!QueueFullMeansFull` | "ErrQueueFull means a bounded session queue cannot accept more work" (`internal/wire/runtime.go:13`) | a request beyond the window is refused before its id is recorded (`session.go:405-407`), so the id stays a gap; a later request that far past it is refused although nothing is queued |
| `Stream!ChunksCloseFirst` | Chunks "closes before Response returns" (`internal/wire/client.go:420`) | the delivery goroutine closes it later (`client.go:772`) |
| `Stream!CancelKeepsSession` | "Cancel requests cancellation without closing the session" (`client.go:495`) | a response chunk enqueued under the cancelled context fails and closes the session (`session.go:584`) |
| `Stream!SettlementMeansSilence` | ErrCancelSettlement "means a canceled request never produced a terminal response" (`client.go:17`) | the read loop blocks in `offer` for the cancelled call (`client.go:808`) and never reads the response behind it |
| `Lane!CloseHonorsDeadline` | Close "honors the one it is given" (`business.go:305`) | it first waits for the mutex, which a Call holds through its attach (`business.go:310`) |
| `Converge!NothingApplied` | ActionNothing means "its LaunchAgent was already exactly applied" (`decide.go:14`) | Ensure does not ask the service layer when the build serves (`ensure.go:163`) |
| `Converge!RefusesUnsupervised` | Ensure and Stop "refuse ... before they touch a live daemon" (`service_linux.go:91`) | Stop evicts without asking whether a supervisor runs (`stop.go:99`) |
| `Converge!BootsDrained` | "an incumbent is always drained first" (`ensure.go:81`) | launchd may relaunch the job between the proof of departure and Apply (`ensure.go:186`), which boots it out undrained |

Other points are exceptions inside a property that a run checks, named in its
comment: a session id that never reaches the server, or that the server refuses as beyond its
window, counts against the window for the life of the session (`KeptInStep`;
`client.go:364`, `session.go:405`); a scan of a session that
misses a child forked behind it, and a member that changes its group after the scan
when all groups the scan found are gone by the time they are signalled (`ProvenGone`;
`reap.go:309`, `366`); on a kernel without
process handles a number reused between the match and the signal, a group number
taken over by a stranger, and a number reused within one start-time tick
(`StrikesOwn`; `reap.go:139`, `366`, `218`); an ApplyFresh whose bootstrap answered
a failure and took effect (`AnswersTrue` and `RecordedServices`;
`launchd/apply.go:228`, `deploy/fresh.go:227`); a plist that another actor writes
between a look at the label and the write, or the removal, after it (`ForeignKept`,
`AnswersTrue`; `launchd/apply.go:306`, `240`); a child forked and not yet recorded
when its supervisor is killed, and one whose abort could not be proven (`OneRecorded`;
`supervise/supervisor.go:269`), and on Linux a child whose spawner dies while it
traces it (`RunningOnDisk`, `RecoveredAlone`; `internal/proc/forkexec_linux.go:35`); a
daemon that the service layer started again and that a Stop leaves running, because
its supervisor is gone or the plist of its loaded job is (`AnswerHolds`;
`supervise/control.go:154`, `launchd/apply.go:228`).

## Proofs

| theorem | of | statement |
|---|---|---|
| `CloseAccounts` | `Settle` | `SettleSpec => []SurvivorsFaulted` |
| `TerminateRecorded`, `PreserveRecorded` | `Settle`, `NaturalDrain` | `SettleSpec => []RecordedWhileRunning`, `DrainSpec => []RecordedWhileRunning` |
| `SettleKeepsContract` | `Settle` | `SettleSpec => KeepsContract` (refinement) |
| `CommitIsQuiet`, `ReleaseIsQuiet` | `NaturalDrain` | `DrainSpec => []CommittedQuiet`, `[]ReleasedQuiet` |
| `ServeReturnsClean`, `HandlersRunInTime`, `SignalsHandled` | `Serve` | `ServeSpec => []CleanReturn`, `[]HandlersInTime`, `[]NeverKilled` |
| `ForeignPlistsKept` | `Launchd` | `LaunchdSpec => []ForeignKept` |
| `AnswersAreTrue` | `Launchd` | `LaunchdSpec => AnswersTrue` (action property) |
| `ListenerIsFound` | `Generation` | `Spec => []ListenerFound` |
| `RecoverSpares` | `Generation` | `Spec => ReclaimSpares` (action property) |
| `ChildrenOnDisk`, `RecoverLeavesNone` | `Generation` | `Spec => []RunningOnDisk`, `[]RecoveredAlone` |
| `OneEraRecorded` | `Generation` | with one schema, `Spec => []RunningRecorded` |
| `LanesOwnSessions` | `Lane` | `LaneSpec => []SessionsOwned` |
| `ObservedBeforeStruck`, `IncumbentGone`, `AnswersHold` | `Converge` | `Spec => []StrikesObserved`, `[]GoneBeforeService`, `[]AnswerHolds` |
| `LateCallsDescend` | `Converge` | `Spec => DeadlineDescends` (action property) |
| `ProvenIsGone`, `SignalsStrikeOwn` | `Reap` | `Spec => []ProvenGone`, `[]StrikesOwn` |
| `LadderRunsDown` | `Reap` | `Spec => DeadlineDescends` (action property, half of `DeadlineEnds`) |
| `OneInstanceRecorded` | `Supervisor` | `SupervisorSpec => []OneRecorded` |
| `VerbsAreKept` | `Supervisor` | `SupervisorSpec => VerbsHold` (action property) |
| `BodiesAreWhole` | `Stream` | `Spec => []BodiesWhole` |
| `SwapsResume`, `SealsDescribe` | `Deploy` | `Spec => []SwapResumable`, `[]SealDescribesInstalled` |
| `ServicesAreRecorded`, `DestroysProvedOnly`, `SwapsLand` | `Deploy` | `Spec => RecordedServices`, `DestroysOnlyProved`, `SwapLands` (action properties) |
| `SettleType`, `DrainType`, `ServeType`, `GenerationType` | | type correctness |

Assumptions: the calls of Spawn and Adopt are disjoint sets, the policy is one of
two, the bounds are naturals, and the values that stand for nobody (`None`, and
the supervisor's name as a lock holder) are not among the clients, processes or
instances. In `Deploy` `None` is no tree, build or swap record, and no
build is the torn one. The PIDs are positive numbers with a least one, which the recorded process
bears. No set is assumed finite.

**Settle.** `SurvivorsFaulted` is not inductive: it speaks of the end. The
invariant follows each call that has, or may still bring up, a process: it is
in `starting`, or registered, or its terminal is proven; and once the closer has
taken its snapshot, each such call is still to be joined, awaited or stopped, or
is already a fault, or is gone. Admission is closed from the snapshot on, so
nothing escapes it. `RecordedWhileRunning` needs that a released child is
recorded before and that a proven terminal implies a session gone for good; a write
that lands after its call gave up changes no record of a child that runs.

**NaturalDrain.** The invariant carries an observation across its three parts: if
the lease holds and no reservation was pending when it began, then no call is in
flight until it ends, each process not yet looked at has a record, and each one
looked at is quiet and stays so, because producers are paused and a process that
is gone does not return. A proof of the lease's last serial is then as good as an
observation now.

**Serve.** `CleanReturn` rests on what each settled stage means: a settled requests
stage leaves no request that could still reach a handler, because the phase is
terminal before the stage begins; a settled children stage is a contract answer
without faults; and the wire server returns only over finished requests.

**Generation.** Four invariants, each resting on those before. `HolderInv`: an
instance past the lock is its holder, a listener is open only while its daemon
holds the lock, and from the owner record on both the file and the writer's copy
name the daemon and its schema. This gives `ListenerIsFound`. `SparedInv`: a
child's generation holds its scope, left or died; what a Recover has still to
settle is another generation's, so one that left or died, as the lock has one
holder; and a child in `kept` never stands in a TerminateOwned record, in the file
or in a copy. This gives `RecoverSpares`. `RecordInv`: a child
that may still run, and is not in a file that was moved aside, is in the file and
in the holder's copy, which bridges a write that failed after its rename.
`AloneInv`: during a recovery without error, such a child of another generation
is still in `todo`. A child that is traced or let go bears no record and is outside
both. These give `RunningOnDisk` and `RecoveredAlone`. With one
schema no file is moved aside, so a running child is in the record file itself;
with two, `NeverOrphaned` fails.

**Lane.** The invariant says where a caller's session can be: from the take to the
release the lane that the caller came by holds it under the mutex, or the caller
took it from a lane and is about to end it, and no two callers are about to end
the same one. `SparesOthers` follows because a retire compares under the mutex.

**Converge.** The invariant has a part about the world and one for each call. The
world: the owner record names an instance that was launched, and the recorded
build, where there is one, is the build at the program path. A call: it works
under the start lock; from its placement on the program holds the build it wants;
what it pinned it has observed, and from the rungs that prove a departure on, the
pinned instance is not live. Only the holder of the start lock touches program,
build record and job, and an instance only ages, so what one call knows survives
the steps of the others. `DeadlineDescends` takes a measure of the steps left
(`Left`): a pass that begins after the deadline fails at its observation.

**Supervisor.** `OneRecorded` needs to know where the store may still name something:
while the loop holds no child that is before `Reclaim` or after an unproven reap,
and otherwise the store names the loop's own child at most, and nothing once its
reap was proven. A start finds no child and an empty store, so it adds the only
name. A due restart implies that there is no child. For `VerbsHold` the invariant
says what an Apply has established at each of its steps: that a child left alone
runs the service asked for and had not exited when the verb was taken up, or that
the service is desired and the start is this verb's. The second half follows from
the lock: whoever deletes `service.json` without the supervisor holds it.

**Reap.** One part of the invariant is about the process table, whatever the ladder
does: the recorded instance bears the recorded PID and leads its session, a group
lies in one session, and the recorded PID goes to a stranger only when no process is
left in that session. The other parts say what the ladder's locals still tell after
the table moved: while PIDs are listed, read and read again, each live member is in
`todo` or `found`, and while groups are signalled its group is still to come or one
was not gone; a group that was found holds members only; a handle that is signalled
through is the recorded instance's; the driver's child is reaped by its driver alone.
`Moves` is what each part needs of a step it does not see, and `UnseenKept` shows
that this is enough, so a step of a process and a step of the ladder are never
considered together. Each return of a proof then has an empty scope.
`LadderRunsDown` needs the shapes of the ladder's state only: one lemma per step says
where it leads once the deadline has passed.

**Stream.** The invariant follows the chunks through every place that can hold one:
the sender, the frames under way, the read loop that offers, the buffer, the
consumer's hand. Each place continues the numbering of the one before it, with no
gap, as long as the stream's channel is open; the chunk that ends the body is the
last of its places; and the terminal response is the last frame down. A stream
that closed early is one whose call was cancelled or whose session is over, and
neither may claim a complete body. The sequence number that a failed `SendChunk`
spent leaves a gap, which the read loop of the other end refuses.

**Launchd.** Three parts: the step a call is at tells its verb; what the label holds
(an install that loads still has the plist it wrote, a plist of another actor is
never written over, and only `removePublished` has a file in its hand); and what
launchd holds (a job other than the plist's is one an install has yet to boot
out, or one that an install that was cut short left). `ForeignKept` counts the plists of
others, but those it excepts, and is inductive with these; `AnswersTrue` is read off each step that
answers.

**Deploy.** The invariant is a proof outline: for each region of the verbs' control
points, what the running verb still knows, in conjunction with what holds
wherever it is and so survives a crash (`Global`: a recorded swap can be resumed, a
prior is aside only for a swap that names it, a candidate is a copy and never the
installed tree itself, a seal describes what is installed unless a swap is
outstanding, no label is recorded while a swap is). The knowledge that matters is
`Inventoried`: every tree on the disk was found idle and launchd can start no daemon
without a label. It is gained at the inventory and must last to the destruction, which it
does because no swap is recorded while a label is. A crash forgets the outline and keeps
`Global`, so the verb that resumes starts from it alone. Each action has one lemma: from
the outline it preserves the invariant and obeys the three action properties.

Only model-checked: the liveness properties (`CloseReturns`, `DrainEnds`,
`SwapSettles`, `Restarts`, `CallSettles`, `OperationReturns`) and those that speak
of ENABLED (`NeverStuck`, `DeadlineFrees`, the first half of `DeadlineEnds`), which
this prover does not reach; and the two safety properties of `Session`, `ReplayableUndispatched` and
`KeepsProtocol`, for which no inductive invariant has been proved.

## Not covered

Under `TerminateOwned` a child whose abort `wait4` could not prove is resolved
(`own.go:201-207`), so Close does not answer for it: `Answerable` says so. Under
`PreserveOwned` its reservation is kept, and blocks the drain, by design.

After Accept fails for good, a session still in its handshake is not among those
`closeSessions` closes; the wire server waits for it to end by itself.

In `Converge` a process that a supervisor lost is not an instance of the job. A
second signal that waits in the triggers' channel when `park` drops it may be read by
nobody; no property asks for it to end the park.

In `Scope` and `Generation` a session observed empty is taken to be empty and
process ids are not reused; what the ladder proves of that is `Reap`.

In `Launchd` a death between the archive of a foreign plist and the write of
daemonkit's leaves a loaded job without a plist; `AnswersTrue` speaks of Removes
that found a plist. In `Stream` a handler that leaves its body unread holds the
session's reader until the acknowledgement timer closes the session. In `Lane`,
`ask` reads the failure of a session that its own retire has just aborted, so it
always asks once more.

Not modelled: byte layouts and descriptor passing, platform probes, plist and
bundle rendering, downloads and archives, the Swift client, generators and CI
tools. `components` in `PROJECT.json` gives the reason for each.
