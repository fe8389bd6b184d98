------------------------------ MODULE Converge ------------------------------
(***************************************************************************)
(* Client.Ensure and Client.Stop (ensure.go, stop.go) of concurrent        *)
(* clients over one label: the start lock, the placement of the program    *)
(* (program.go), the observation of the socket and of the owner record     *)
(* (internal/converge), the decision (decide.go), the eviction through     *)
(* Drain, Settle, Terminate and the inventory (control.go, client.go), the *)
(* service layer and WaitReady (waitready.go).  Between any two steps the  *)
(* daemon starts, becomes ready, fails, drains, hangs or crashes, and the  *)
(* service layer starts it again.  An instance of the daemon is known by   *)
(* its generation; the bytes it runs by the number of their placement.     *)
(***************************************************************************)
EXTENDS Naturals, FiniteSets

CONSTANTS
    Clients,
    Builds, Foreign,  \* builds, and those that speak another wire protocol
    MaxInstances,     \* instances that may ever run
    Courses,          \* what the clients call, and the world they find
    None

\* A course says what each client calls and for which build, which build is in
\* place at the start, which service layer the host has, "gone" for a supervisor
\* nobody runs, and how many instances of the daemon may run.
ASSUME ConvergeAssumption ==
    /\ Foreign \subseteq Builds
    /\ MaxInstances \in Nat \ {0}
    /\ Courses \subseteq [calls : [Clients -> {"ensure", "stop", "none"}],
                          wants : [Clients -> Builds \ Foreign],
                          first : Builds, layer : {"launchd", "supervisor", "gone"},
                          instances : 1..MaxInstances]
    /\ None \notin Builds \cup Clients

VARIABLES
    course,    \* the course of this behaviour
    inst,      \* the instances of the daemon
    record,    \* the owner record: a generation, 0 when there is none
    placed,    \* the program path: its build and the number of its placement
    note,      \* the build recorded for the program path
    layer,     \* the service layer: launchd, or a supervisor that may be gone
    job,       \* the LaunchAgent or the supervised service; "unlisted" is a
               \* LaunchAgent that launchd has loaded and whose plist is gone
    lock,      \* who holds the start lock
    client,    \* each client's call
    struck,    \* ghost: whom each client drained or signalled
    booted     \* ghost: whom each client's Apply booted out

world == <<course, inst, record, layer, job>>
program == <<placed, note>>
vars == <<world, program, lock, client, struck, booted>>

Instances == 1..MaxInstances
Alive == {"launched", "starting", "ready", "failed", "draining", "husk"}
Listening == {"starting", "ready", "failed", "draining"}
Live(n) == n # 0 /\ inst[n].state \in Alive
Holders == {n \in Instances : Live(n) /\ inst[n].state # "launched"}
Ours(n) == inst[n].build \notin Foreign
Unborn == [state |-> "unborn", build |-> None, placement |-> 0, job |-> FALSE]

Init ==
    /\ course \in Courses
    /\ placed = [build |-> course.first, placement |-> 1]
    /\ note = course.first
    /\ layer = course.layer
    /\ job \in {"none", "exact", "drifted"} \cup {j \in {"unlisted"} : layer = "launchd"}
    /\ \E s \in {"unborn", "gone", "ready", "husk"} :
          inst = [n \in Instances |-> IF n = 1 /\ s # "unborn"
                    THEN [state |-> s, build |-> course.first, placement |-> 1,
                          job |-> job # "none"]
                    ELSE Unborn]
    /\ record \in {0} \cup {n \in {1} : inst[n] # Unborn}
    /\ lock = None
    /\ struck = {} /\ booted = {}
    /\ client = [c \in Clients |->
          [op |-> course.calls[c], want |-> course.wants[c],
           at |-> IF course.calls[c] = "none" THEN "done" ELSE "lock", replaced |-> FALSE,
           attach |-> "none", session |-> 0, pinned |-> 0, target |-> 0, onward |-> <<>>,
           observed |-> {}, late |-> FALSE, did |-> "none", after |-> 0, ok |-> FALSE]]
-----------------------------------------------------------------------------
\* The daemon and its service layer.
Fresh(n) == n <= course.instances /\ inst[n] = Unborn /\ \A m \in Instances : inst[m] = Unborn => n <= m
Born == [state |-> "launched", build |-> placed.build, placement |-> placed.placement, job |-> TRUE]
JobRuns == \E n \in Instances : Live(n) /\ inst[n].job

\* What the service layer stops: the processes it runs for the job.
BootOut(n) == IF Live(n) /\ inst[n].job THEN [inst[n] EXCEPT !.state = "gone"] ELSE inst[n]

Relaunch ==
    /\ layer # "gone" /\ job # "none" /\ ~JobRuns
    /\ \E n \in Instances : Fresh(n) /\ inst' = [inst EXCEPT ![n] = Born]
    /\ UNCHANGED <<record, layer, job>>

\* A supervisor is killed and what it runs lives on; the next one settles that
\* before it serves.  A host that begins without one never gets one.
SupervisorTurns ==
    /\ course.layer = "supervisor"
    /\ \/ layer = "supervisor" /\ layer' = "gone" /\ UNCHANGED inst
       \/ layer = "gone" /\ layer' = "supervisor" /\ inst' = [n \in Instances |-> BootOut(n)]
    /\ UNCHANGED <<record, job>>

\* Somebody deletes the plist of a loaded LaunchAgent.
PlistLost ==
    /\ layer = "launchd" /\ job \in {"exact", "drifted"}
    /\ job' = "unlisted"
    /\ UNCHANGED <<inst, record, layer>>

\* Serve takes the state's lock and writes its owner record before it listens;
\* it refuses a live incumbent.
ServeStarts(n) ==
    /\ inst[n].state = "launched"
    /\ IF Holders = {}
       THEN inst' = [inst EXCEPT ![n].state = "starting"] /\ record' = n
       ELSE inst' = [inst EXCEPT ![n].state = "gone"] /\ UNCHANGED record
    /\ UNCHANGED <<layer, job>>

Turn(n) ==
    /\ \/ inst[n].state = "starting" /\ \E s \in {"ready", "failed"} : inst' = [inst EXCEPT ![n].state = s]
       \/ inst[n].state \in Listening \ {"draining"} /\ inst' = [inst EXCEPT ![n].state = "draining"]
       \/ inst[n].state = "draining" /\ inst' = [inst EXCEPT ![n].state = "husk"]
       \/ inst[n].state \in Alive /\ inst' = [inst EXCEPT ![n].state = "gone"]
    /\ UNCHANGED <<record, layer, job>>

World ==
    /\ \E c \in Clients : client[c].at # "done"
    /\ \/ Relaunch \/ SupervisorTurns \/ PlistLost
       \/ \E n \in Instances : ServeStarts(n) \/ Turn(n)
    /\ UNCHANGED <<course, program, lock, client, struck, booted>>
-----------------------------------------------------------------------------
At(c, step) == client[c].at = step
Put(c, fields) ==
    client' = [client EXCEPT ![c] = [f \in DOMAIN @ |-> IF f \in DOMAIN fields THEN fields[f] ELSE @[f]]]
Go(c, step) == Put(c, [at |-> step])
Ends(c, ok, did) == Put(c, [at |-> "return", ok |-> ok, did |-> did])
Fails(c) == Ends(c, FALSE, "none")
Strikes(c, n) == struck' = struck \cup {<<c, n>>}
\* A step that only moves the call on.
Quiet == UNCHANGED <<world, program, lock, struck, booted>>

\* The start lock is taken within the deadline or the call fails.
Acquire(c, step) ==
    /\ At(c, "lock")
    /\ \/ lock = None /\ lock' = c /\ Go(c, step)
       \/ client[c].late /\ Fails(c) /\ UNCHANGED lock
    /\ UNCHANGED <<world, program, struck, booted>>
EnsureStarts(c) == client[c].op = "ensure" /\ Acquire(c, "place")
StopStarts(c) == client[c].op = "stop" /\ Acquire(c, "socket")

\* The incumbent changed between an observation and the verb aimed at it: the
\* pass begins again, unless the deadline has passed.
Moved(c) == Go(c, "socket")

\* Mutant: the record of the build stays while the bytes are replaced.
PlaceOverNote(c) ==
    /\ At(c, "place")
    /\ IF note = client[c].want THEN Go(c, "socket") ELSE Go(c, "write")
    /\ UNCHANGED <<world, program, lock, struck, booted>>

\* copied.place: the record of the build leaves first, then the bytes land,
\* then the record returns.  Each write may fail.
Place(c) ==
    /\ At(c, "place")
    /\ IF note = client[c].want
       THEN Go(c, "socket") /\ UNCHANGED note
       ELSE \/ note' = None /\ Go(c, "write")
            \/ Fails(c) /\ UNCHANGED note
    /\ UNCHANGED <<world, placed, lock, struck, booted>>

WriteProgram(c) ==
    /\ At(c, "write")
    /\ \/ placed' = [build |-> client[c].want, placement |-> placed.placement + 1] /\ Go(c, "note")
       \/ Fails(c) /\ UNCHANGED placed
    /\ UNCHANGED <<world, note, lock, struck, booted>>

WriteNote(c) ==
    /\ At(c, "note")
    /\ \/ note' = client[c].want /\ Put(c, [at |-> "socket", replaced |-> TRUE])
       \/ Fails(c) /\ UNCHANGED note
    /\ UNCHANGED <<world, placed, lock, struck, booted>>

\* What the client's session, or a new attach when it has none that lives, says:
\* a draining daemon answers only on the session it already has.
Answers(c) ==
    LET up == {n \in Instances : inst[n].state \in Listening} IN
       {[attach |-> "serving", pinned |-> n] : n \in {m \in up :
            Ours(m) /\ (inst[m].state # "draining" \/ m = client[c].session)}}
       \cup {[attach |-> "draining", pinned |-> 0] : n \in {m \in up : Ours(m) /\ inst[m].state = "draining"}}
       \cup {[attach |-> "protocol", pinned |-> 0] : n \in {m \in up : ~Ours(m)}}
       \cup {[attach |-> "absent", pinned |-> 0] : n \in {m \in {0} : up = {}}}

\* Mutant: the observation ignores the caller's deadline.
ObserveSocketPatient(c) ==
    /\ At(c, "socket")
    /\ \E a \in Answers(c) :
          Put(c, [at |-> "record", attach |-> a.attach, pinned |-> a.pinned, session |-> a.pinned,
                  did |-> IF a.attach = "serving" THEN "observe" ELSE "started"])
    /\ Quiet

\* decide, on what a serving daemon reports of itself.
Decide(n, want) ==
    IF inst[n].build # want THEN "upgraded"
    ELSE CASE inst[n].state = "failed" -> "restarted"
           [] inst[n].state = "ready" -> "nothing"
           [] OTHER -> "observe"

\* converge.Observe, the socket first: servedHealth keeps its session.  The
\* decision on a serving daemon is taken on the phase it reports now.
ObserveSocket(c) ==
    /\ At(c, "socket")
    /\ \/ ~client[c].late /\ \E a \in Answers(c) :
             Put(c, [at |-> "record", attach |-> a.attach, pinned |-> a.pinned, session |-> a.pinned,
                     did |-> CASE a.attach = "serving" -> Decide(a.pinned, client[c].want)
                               [] a.attach = "protocol" -> "restarted"
                               [] OTHER -> "started"])
       \/ Fails(c)
    /\ Quiet

\* Where the pass goes once it knows whom it observed: owner is what the record
\* names.  No record names nobody, and leaves absence to the inventory.
Proving(c, owner) ==
    [pinned |-> owner, target |-> owner, onward |-> <<>>,
     observed |-> client[c].observed \cup ({owner} \ {0}),
     at |-> IF owner = 0 THEN "inventory"
            ELSE IF client[c].attach = "protocol" THEN "terminate" ELSE "settle"]
Evicting(c) ==
    LET n == client[c].pinned IN
    [pinned |-> n, target |-> n, onward |-> <<>>, observed |-> client[c].observed \cup {n}, at |-> "drain"]

\* converge.Observe then reads the record, and the call goes on: a serving
\* incumbent is evicted, any other proved gone from what the record names.
Onward(c) == IF client[c].attach = "serving" THEN Evicting(c) ELSE Proving(c, record)

\* settle and ensureOnce.  A transitional daemon is observed again until the
\* observation share is spent; bytes just replaced restart a ready one.
EnsureDecides(c) ==
    LET did == client[c].did
        restart == did = "observe" \/ (did = "nothing" /\ client[c].replaced)
    IN
    /\ At(c, "record") /\ client[c].op = "ensure"
    /\ \/ did = "observe" /\ Go(c, "socket")
       \/ /\ did = "nothing" /\ ~client[c].replaced
          /\ Put(c, [at |-> "return", ok |-> TRUE, after |-> client[c].pinned])
       \/ /\ restart \/ did \in {"started", "restarted", "upgraded"}
          /\ Put(c, [at |-> "reach", onward |-> Onward(c),
                     did |-> IF restart THEN "restarted" ELSE did])
    /\ Quiet

\* stopOnce never asks whether the service layer answers.
StopDecides(c) ==
    /\ At(c, "record") /\ client[c].op = "stop"
    /\ Put(c, Onward(c))
    /\ Quiet

\* Ensure asks before it evicts anybody.
ReachService(c) ==
    /\ At(c, "reach")
    /\ \/ layer # "gone" /\ Put(c, client[c].onward)
       \/ layer # "launchd" /\ Fails(c)
    /\ Quiet

\* What follows a proof that the observed incumbent left the process table.
Proved(c) == Go(c, IF client[c].op = "ensure" THEN "apply" ELSE "remove")

\* Drain pins whoever answers now and compares it with the observation; a
\* replacement is observed again.  No session, or none in time, leaves the
\* proof to the record.
PinDrain(c) ==
    /\ At(c, "drain")
    /\ \/ \E a \in Answers(c) :
             \/ a.attach = "serving" /\ a.pinned = client[c].target /\ Go(c, "dispatch")
             \/ a.attach = "serving" /\ a.pinned # client[c].target
                /\ Put(c, [at |-> "socket", session |-> a.pinned])
             \/ a.attach \in {"absent", "draining"} /\ Go(c, "settle")
             \/ a.attach = "protocol" /\ Fails(c)
       \/ Go(c, "settle")
       \/ Fails(c)
    /\ Quiet

\* dispatchDrain on the pinned session, which is then retired.  A verb that
\* may have landed is observed; one that certainly did not is the error.
DispatchDrain(c) ==
    LET n == client[c].target IN
    /\ At(c, "dispatch")
    /\ \/ /\ inst[n].state \in Listening
          /\ inst' = [inst EXCEPT ![n].state = "draining"]
          /\ Strikes(c, n)
          /\ Put(c, [at |-> "leaving", session |-> 0])
       \/ inst[n].state \notin Listening /\ Put(c, [at |-> "leaving", session |-> 0]) /\ UNCHANGED <<inst, struck>>
       \/ Ends(c, FALSE, "none") /\ UNCHANGED <<inst, struck>>
    /\ UNCHANGED <<course, record, layer, job, program, lock, booted>>

\* Mutant: a drain whose exit was not observed in time counts as settled.
ObserveGoneUnsettled(c) ==
    /\ At(c, "leaving")
    /\ Proved(c)
    /\ Quiet

\* Drain observes the pinned identity until it is gone or its slice ends.
ObserveGone(c) ==
    /\ At(c, "leaving")
    /\ IF Live(client[c].target) THEN Go(c, "settle") ELSE Proved(c)
    /\ Quiet

\* What the owner record says of the runtime a verb was called for.
RecordNames(c) == IF record = 0 THEN "nobody" ELSE IF record = client[c].target THEN "it" ELSE "another"

\* prove: Settle reads the record again and observes the identity it names;
\* one that stays past its slice is terminated.
Settle(c) ==
    /\ At(c, "settle")
    /\ \/ RecordNames(c) = "nobody" /\ Go(c, "inventory")
       \/ RecordNames(c) = "another" /\ Moved(c)
       \/ RecordNames(c) = "it" /\ IF Live(record) THEN Go(c, "terminate") ELSE Proved(c)
       \/ Fails(c)
    /\ Quiet

\* Mutant: Terminate signals whomever the record names.
TerminateReadsAny(c) ==
    /\ At(c, "terminate")
    /\ IF record = 0 THEN Fails(c) ELSE Put(c, [at |-> "term", target |-> record])
    /\ Quiet

\* Terminate reads the record once more, and signals only the runtime it was
\* called for.
TerminateReads(c) ==
    /\ At(c, "terminate")
    /\ \/ RecordNames(c) = "another" /\ Moved(c)
       \/ RecordNames(c) = "it" /\ Go(c, "term")
       \/ Fails(c)
    /\ Quiet

\* Mutant: a delivered SIGTERM counts as a departure.
TerminateSignalsOnce(c) ==
    LET n == client[c].target IN
    /\ client[c].at \in {"term", "kill"}
    /\ inst' = [inst EXCEPT ![n].state = IF @ \in Listening THEN "draining" ELSE @]
    /\ Strikes(c, n) /\ Proved(c)
    /\ UNCHANGED <<course, record, layer, job, program, lock, booted>>

\* proc.Terminate at the identity the record named: SIGTERM, then SIGKILL, then
\* observed absence.
TerminateSignals(c) ==
    LET n == client[c].target IN
    /\ client[c].at \in {"term", "kill"}
    /\ \/ ~Live(n) /\ Proved(c) /\ UNCHANGED <<inst, struck>>
       \/ /\ Live(n) /\ At(c, "term")
          /\ inst' = [inst EXCEPT ![n].state = IF @ \in Listening THEN "draining" ELSE @]
          /\ Strikes(c, n) /\ Go(c, "kill")
       \/ /\ Live(n) /\ At(c, "kill") /\ ~client[c].late
          /\ inst' = [inst EXCEPT ![n].state = "gone"]
          /\ Strikes(c, n) /\ UNCHANGED client
       \/ Live(n) /\ client[c].late /\ Fails(c) /\ UNCHANGED <<inst, struck>>
    /\ UNCHANGED <<course, record, layer, job, program, lock, booted>>

\* inventoryClear: nothing runs the program's present bytes, and what this pass
\* observed is gone.
InventoryClear(c) ==
    /\ At(c, "inventory")
    /\ IF Live(client[c].pinned) \/ \E n \in Instances : Live(n) /\ inst[n].placement = placed.placement
       THEN Fails(c) ELSE Proved(c)
    /\ Quiet

\* applyService: an exact job is kicked, any other is booted out and
\* bootstrapped; either way it runs afterwards.
ApplyService(c) ==
    LET jobs == {n \in Instances : Live(n) /\ inst[n].job}
        out == IF job = "exact" THEN {} ELSE jobs
        born == {n \in Instances : Fresh(n) /\ jobs \ out = {}}
    IN
    /\ At(c, "apply")
    /\ \/ /\ layer # "gone"
          /\ inst' = [n \in Instances |-> IF n \in out THEN [inst[n] EXCEPT !.state = "gone"]
                                          ELSE IF n \in born THEN Born ELSE inst[n]]
          /\ job' = "exact"
          /\ booted' = booted \cup {<<c, n>> : n \in out}
          /\ Go(c, "wait")
       \/ Fails(c) /\ UNCHANGED <<inst, job, booted>>
    /\ UNCHANGED <<course, record, layer, program, lock, struck>>

\* Mutant: the wait for readiness ignores the caller's deadline.
WaitReadyPatient(c) ==
    /\ At(c, "wait")
    /\ \E n \in Instances :
          /\ inst[n].state \in {"ready", "failed"} \/ (inst[n].state \in Listening /\ ~Ours(n))
          /\ IF inst[n].state = "ready" /\ inst[n].build = client[c].want
             THEN Put(c, [at |-> "return", ok |-> TRUE, after |-> n])
             ELSE Fails(c)
    /\ Quiet

\* WaitReady: absent and draining are waited out; ready, and the build the call
\* wanted, is the only success.
WaitReady(c) ==
    /\ At(c, "wait")
    /\ \/ \E n \in Instances :
             /\ inst[n].state \in {"ready", "failed"} \/ (inst[n].state \in Listening /\ ~Ours(n))
             /\ IF inst[n].state = "ready" /\ inst[n].build = client[c].want
                THEN Put(c, [at |-> "return", ok |-> TRUE, after |-> n])
                ELSE Fails(c)
       \/ client[c].late /\ Fails(c)
    /\ Quiet

\* launchd.Remove: a label without a plist is a success that boots nothing out.
RemoveLaunchd ==
    IF job \in {"none", "unlisted"} THEN UNCHANGED <<job, inst>>
    ELSE job' = "none" /\ inst' = [n \in Instances |-> BootOut(n)]

\* supervise.Remove: with no supervisor only the persisted service goes.
RemoveSupervised ==
    /\ job' = "none"
    /\ IF layer = "gone" THEN UNCHANGED inst ELSE inst' = [n \in Instances |-> BootOut(n)]

\* Mutant: the removal deletes the plist and boots nothing out.
RemoveAgentPlist(c) ==
    /\ At(c, "remove")
    /\ job' = "none" /\ Ends(c, TRUE, "none")
    /\ UNCHANGED <<course, inst, record, layer, program, lock, struck, booted>>

\* removeAgent, the last step of Stop.  A removal that fails may have booted the
\* job out and kept its file.
RemoveAgent(c) ==
    /\ At(c, "remove")
    /\ \/ (IF layer = "launchd" THEN RemoveLaunchd ELSE RemoveSupervised) /\ Ends(c, TRUE, "none")
       \/ Fails(c) /\ UNCHANGED <<job, inst>>
       \/ Fails(c) /\ layer # "gone" /\ inst' = [n \in Instances |-> BootOut(n)] /\ UNCHANGED job
    /\ UNCHANGED <<course, record, layer, program, lock, struck, booted>>

Return(c) ==
    /\ At(c, "return")
    /\ lock' = IF lock = c THEN None ELSE lock
    /\ Put(c, [at |-> "done", late |-> TRUE, replaced |-> FALSE, attach |-> "none",
               session |-> 0, pinned |-> 0, target |-> 0, onward |-> <<>>])
    /\ UNCHANGED <<world, program, struck, booted>>

\* The caller's deadline passes.
Expire(c) ==
    /\ client[c].at # "done" /\ ~client[c].late
    /\ Put(c, [late |-> TRUE])
    /\ Quiet

\* A killed client leaves what it did; the kernel drops its lock.
CrashClient(c) ==
    /\ client[c].at \notin {"lock", "return", "done"}
    /\ lock' = None
    /\ Ends(c, FALSE, "none")
    /\ UNCHANGED <<world, program, struck, booted>>

Step(c) ==
    \/ EnsureStarts(c) \/ StopStarts(c) \/ Place(c) \/ WriteProgram(c) \/ WriteNote(c)
    \/ ObserveSocket(c) \/ EnsureDecides(c) \/ StopDecides(c) \/ ReachService(c)
    \/ PinDrain(c) \/ DispatchDrain(c) \/ ObserveGone(c)
    \/ Settle(c) \/ TerminateReads(c) \/ TerminateSignals(c) \/ InventoryClear(c)
    \/ ApplyService(c) \/ WaitReady(c) \/ RemoveAgent(c) \/ Return(c)

Next == World \/ \E c \in Clients : Step(c) \/ Expire(c) \/ CrashClient(c)
Spec == Init /\ [][Next]_vars
-----------------------------------------------------------------------------
Steps == {"lock", "place", "write", "note", "socket", "record", "reach", "drain", "dispatch",
          "leaving", "settle", "terminate", "term", "kill", "inventory", "apply", "wait",
          "remove", "return", "done"}

\* The type invariant, with the two facts the steps rely on: one instance holds
\* the state's lock, and no client works on the label without the start lock.
TypeOK ==
    /\ inst \in [Instances -> [state : Alive \cup {"unborn", "gone"}, build : Builds \cup {None},
                               placement : 0..(Cardinality(Clients) + 1), job : BOOLEAN]]
    /\ record \in Instances \cup {0}
    /\ placed.build \in Builds /\ note \in Builds \cup {None}
    /\ \A c \in Clients : client[c].at \in Steps
    /\ Cardinality(Holders) <= 1
    /\ \A c \in Clients : client[c].at \notin {"lock", "return", "done"} => lock = c

\* ensure.go, Terminate and Expect: "a runtime this Ensure never observed is
\* never drained, never settled, and never signalled", whatever started or
\* replaced the record between the observation and the verb.
StrikesObserved == \A s \in struck : s[2] \in client[s[1]].observed

\* When Ensure applies the service and when Stop removes it, the incumbent this
\* pass observed has left the process table: eviction is proved by observation
\* on every rung of the ladder (evict, prove, Terminate, inventoryClear).
GoneBeforeService ==
    \A c \in Clients : client[c].at \in {"apply", "remove"} => ~Live(client[c].pinned)

\* A Stop that succeeded leaves the incumbent it observed gone, no file the job
\* could start from again, and nothing of it running, although the service layer
\* starts the daemon again at any moment before the removal.  A daemon started
\* again then runs on in two cases: over a loaded LaunchAgent whose plist is
\* gone, which launchd.Remove takes for a label never applied, and over a
\* supervisor that is gone, where supervise.Remove only deletes the service.
StoppedGone ==
    \A c \in Clients : client[c].at = "return" /\ client[c].op = "stop" /\ client[c].ok =>
        /\ ~Live(client[c].pinned)
        /\ job \in {"none", "unlisted"}
        /\ JobRuns => job = "unlisted" \/ layer = "gone"

\* An Ensure that succeeded saw the wanted build ready, and the program path
\* holds that build: the service layer's next start runs it too.  A client
\* killed, or failing, between the writes of place never makes a later Ensure
\* believe the record of the build over the bytes.
EnsuredPlaced ==
    \A c \in Clients : client[c].at = "return" /\ client[c].op = "ensure" /\ client[c].ok =>
        placed.build = client[c].want /\ inst[client[c].after].build = client[c].want

\* What a call that succeeded answered is so.
AnswerHolds == StoppedGone /\ EnsuredPlaced

\* How far each step of a call is from its return once the deadline has passed:
\* an observation begun then fails, so it leads nowhere but out.
Left == [done |-> 0, return |-> 1, socket |-> 2, remove |-> 3, wait |-> 4, apply |-> 5,
         inventory |-> 6, kill |-> 7, term |-> 8, terminate |-> 9, settle |-> 10, leaving |-> 11,
         dispatch |-> 12, drain |-> 13, reach |-> 14, record |-> 15, note |-> 16, write |-> 17,
         place |-> 18, lock |-> 19]

\* Once the caller's deadline has passed no wait of the ladder holds the call:
\* whatever the daemon, the record, the lock and the service layer do, it has a
\* step to take.
DeadlineFrees ==
    \A c \in Clients : client[c].late /\ client[c].at # "done" => ENABLED Step(c)

\* And every step it takes then is nearer its return, although a replaced
\* incumbent sends the pass back to the observation: a call cannot chase a
\* daemon that is started again and again past its deadline.
DeadlineDescends ==
    [][\A c \in Clients : client[c].late /\ client'[c].at # client[c].at =>
          Left[client'[c].at] < Left[client[c].at]]_vars

\* decide.go: "ActionNothing means the wanted build was already serving and
\* ready, and its LaunchAgent was already exactly applied".
NothingApplied ==
    \A c \in Clients : client[c].at = "return" /\ client[c].op = "ensure" /\ client[c].ok
                       /\ client[c].did = "nothing" => job = "exact"

\* service_linux.go: with no supervisor running Ensure and Stop "refuse with
\* [supervise.ErrNoSupervisor] before they touch a live daemon".
RefusesUnsupervised == course.layer = "gone" => struck = {}

\* ensure.go: applying "boots a live incumbent out - so an incumbent is always
\* drained first": no Apply boots out an instance its call did not drain.
BootsDrained == booted \subseteq struck
=============================================================================
