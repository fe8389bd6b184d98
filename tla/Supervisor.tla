----------------------------- MODULE Supervisor -----------------------------
(***************************************************************************)
(* The supervisor of one label on linux (supervise/supervisor.go) and the  *)
(* verbs that reach it (supervise/control.go): Run under the label's       *)
(* exclusive lock loads the persisted service, reclaims what a previous    *)
(* supervisor left, and serves Apply, Verify and Remove one at a time      *)
(* beside its child's exits and its own restart timer.  Clients dial, may  *)
(* give up on a verb that is handled later, and with no supervisor there   *)
(* delete the persisted service under the same lock.  The supervisor may   *)
(* be killed at any step; its child lives on.                              *)
(*                                                                         *)
(* A process is "lost" when no supervisor knows it any more: killed before *)
(* the child it forked was recorded, or an abort whose wait4 failed.  It   *)
(* may be stopped, run as the service, or end.                             *)
(***************************************************************************)
EXTENDS Naturals

CONSTANTS
    Services,    \* specifications under the label
    Policy,      \* their restart policies
    Clients, Pids,
    FailsAt,     \* what may fail: "apply", "policy" starts, "persist", "reap"
    MaxFaults,   \* failures and kills
    None

ASSUME SupervisorAssumption ==
    /\ Policy \in [Services -> {"always", "onFailure", "never"}]
    /\ None \notin Services \cup Clients \cup Pids \cup {"supervisor"}
    /\ "supervisor" \notin Clients
    /\ FailsAt \subseteq {"apply", "policy", "persist", "reap", "kill"}

VARIABLES
    spec,      \* service.json
    lock,      \* who holds the label's lock: a client, "supervisor" or None
    record,    \* processes the durable store names
    proc,      \* what became of each process
    failing,   \* the child exited with a failure, not yet delivered
    pc,        \* the supervisor's loop
    after,     \* where its stop, or its start, goes on
    desired, child, exit, restart,
    running,   \* the specification of the child; read only while there is one
    verb,      \* the request being handled
    pending,   \* requests accepted and not handled
    client,    \* each client's step, verb and service
    owed,      \* ghost: the child had exited when the Apply was taken up
    fresh,     \* ghost: that Apply started a child
    faults

world == <<spec, lock, record, proc, failing>>
state == <<desired, running, child, exit, restart>>
ghosts == <<owed, fresh>>
supervisorVars == <<world, pc, after, state, verb, pending, client, ghosts, faults>>

Ops == {"apply", "print", "remove"}
Requests == [from : Clients, op : Ops, service : Services]
NoVerb == [from |-> None, op |-> None, service |-> None]
Alive == {"gated", "running", "exited"}
Known == Alive \cup {"forked"}

Idle == [step |-> "idle", op |-> "print", service |-> CHOOSE s \in Services : TRUE]

SupervisorInit ==
    /\ spec = None
    /\ lock = None
    /\ record = {}
    /\ proc = [p \in Pids |-> "free"]
    /\ failing = FALSE
    /\ pc = "down"
    /\ after = None
    /\ desired = None
    /\ running = None
    /\ child = None
    /\ exit = "none"
    /\ restart = FALSE
    /\ verb = NoVerb
    /\ pending = {}
    /\ client = [c \in Clients |-> Idle]
    /\ owed = FALSE
    /\ fresh = FALSE
    /\ faults = 0

-----------------------------------------------------------------------------
Goto(label) == pc' = label
Fails(at) == at \in FailsAt /\ faults < MaxFaults /\ faults' = faults + 1
NoFault == UNCHANGED faults

\* The clients that still wait for an answer lose their connection.
Hangup == client' = [c \in Clients |-> IF client[c].step = "wait" THEN Idle ELSE client[c]]

\* The supervisor's process is gone: its lock is free and its verbs are dropped.
Gone ==
    /\ Goto("down")
    /\ lock' = None
    /\ after' = None
    /\ desired' = None /\ running' = None /\ child' = None /\ exit' = "none" /\ restart' = FALSE
    /\ verb' = NoVerb
    /\ pending' = {}
    /\ Hangup
    /\ owed' = FALSE /\ fresh' = FALSE

\* Nothing ties a child to the supervisor's life: a gated one stays stopped for the
\* next supervisor to reclaim, and a traced one that is not recorded is stopped or,
\* its tracer gone, runs.
Kill ==
    /\ pc # "down"
    /\ Fails("kill")
    /\ Gone
    /\ proc' = [p \in Pids |-> IF proc[p] = "forked" THEN "lost" ELSE proc[p]]
    /\ failing' = FALSE
    /\ UNCHANGED <<spec, record>>

\* The answer to the verb at hand goes to its caller if they still wait for it;
\* an unproven reap ends the supervisor after it.
Answer(how) ==
    /\ Goto(IF how = "unsettled" THEN "exit" ELSE "serve")
    /\ after' = None
    /\ verb' = NoVerb
    /\ client' = LET c == verb.from IN
          [client EXCEPT ![c] =
              IF @.step = "wait" /\ @.op = verb.op /\ @.service = verb.service
              THEN Idle ELSE @]
    /\ owed' = FALSE /\ fresh' = FALSE

-----------------------------------------------------------------------------
(***************************************************************************)
(* The child, its driver, and what outlives a supervisor.                  *)
(***************************************************************************)

\* The service's own process ends; members of its session may not have.
LeaderExits ==
    /\ \E p \in Pids :
          /\ proc[p] = "running"
          /\ proc' = [proc EXCEPT ![p] = "exited"]
          /\ failing' \in IF p = child THEN BOOLEAN ELSE {FALSE}
    /\ UNCHANGED <<spec, lock, record, pc, after, state, verb, pending, client, ghosts, faults>>

\* The driver settles the session of a child that exited and delivers its exit:
\* proven with the record retired, or unproven with the record kept.
Driver ==
    /\ child # None
    /\ exit = "none"
    /\ proc[child] = "exited"
    /\ \/ /\ proc' = [proc EXCEPT ![child] = "free"]
          /\ record' = record \ {child}
          /\ exit' = IF failing THEN "failed" ELSE "proven"
          /\ NoFault
       \/ exit' = "unproven" /\ Fails("reap") /\ UNCHANGED <<proc, record>>
    /\ failing' = FALSE
    /\ UNCHANGED <<spec, lock, pc, after, desired, running, child, restart, verb, pending, client, ghosts>>

\* What remains of a session nobody drives ends by itself, a lost process too.
OrphanEnds ==
    /\ \E p \in Pids :
          /\ proc[p] \in {"exited", "lost"}
          /\ p # child \/ exit = "unproven"
          /\ proc' = [proc EXCEPT ![p] = "free"]
    /\ UNCHANGED <<spec, lock, record, failing, pc, after, state, verb, pending, client, ghosts, faults>>

-----------------------------------------------------------------------------
(***************************************************************************)
(* Run: the lock, the persisted service, the previous child, the socket.   *)
(***************************************************************************)

Run ==
    /\ pc = "down"
    /\ lock = None
    /\ lock' = "supervisor"
    /\ Goto("load")
    /\ UNCHANGED <<spec, record, proc, failing, after, state, verb, pending, client, ghosts, faults>>

Load ==
    /\ pc = "load"
    /\ desired' = spec
    /\ Goto("reclaim")
    /\ UNCHANGED <<world, after, running, child, exit, restart, verb, pending, client, ghosts, faults>>

\* Every recorded process is proven gone before anything starts, or the label
\* is refused.
Reclaim ==
    /\ pc = "reclaim"
    /\ \/ /\ proc' = [p \in Pids |-> IF p \in record THEN "free" ELSE proc[p]]
          /\ record' = {}
          /\ Goto("bind")
          /\ NoFault
          /\ UNCHANGED <<lock, after, state, verb, pending, client, ghosts>>
       \/ Fails("reap") /\ Gone /\ UNCHANGED <<proc, record>>
    /\ UNCHANGED <<spec, failing>>

Bind ==
    /\ pc = "bind"
    /\ IF desired = None THEN Goto("serve") /\ UNCHANGED after
       ELSE Goto("spawn") /\ after' = "policy"
    /\ UNCHANGED <<world, state, verb, pending, client, ghosts, faults>>

-----------------------------------------------------------------------------
(***************************************************************************)
(* start: the child is recorded before it runs an instruction.  A start    *)
(* that fails is retried when the policy asked for it and answered when an *)
(* Apply did.                                                              *)
(***************************************************************************)

\* retry: no restart is due under a policy that has none.
Retry == restart' = (IF desired = None THEN restart ELSE Policy[desired] # "never" \/ restart)

StartFails ==
    IF after = "policy"
    THEN Retry /\ Goto("serve") /\ after' = None /\ UNCHANGED <<verb, client, ghosts>>
    ELSE Answer("error") /\ UNCHANGED restart

\* abortSpawn: the child is killed and reaped, with what its failed record or its
\* rollback left in the store, or wait4 failed and it is lost.
AbortSpawn(proven, unproven) ==
    /\ \/ Fails(after) /\ proc' = [proc EXCEPT ![child] = "free"] /\ record' \in proven
       \/ Fails("reap") /\ proc' = [proc EXCEPT ![child] = "lost"] /\ record' \in unproven
    /\ child' = None
    /\ StartFails
    /\ UNCHANGED <<desired, running, exit>>

\* The fork; on linux the child is traced to its exec and left stopped.
Spawn ==
    /\ pc = "spawn"
    /\ \/ \E p \in Pids :
             /\ proc[p] = "free" /\ p \notin record
             /\ proc' = [proc EXCEPT ![p] = "forked"]
             /\ child' = p
             /\ Goto("record")
             /\ NoFault
             /\ UNCHANGED <<after, restart, verb, client, ghosts>>
       \/ Fails(after) /\ StartFails /\ UNCHANGED <<proc, child>>
    /\ UNCHANGED <<spec, lock, record, failing, desired, running, exit, pending>>

\* Mutant of Record: the child is recorded once it runs.
RecordLater ==
    /\ pc = "record"
    /\ proc' = [proc EXCEPT ![child] = "gated"]
    /\ Goto("release")
    /\ UNCHANGED <<spec, lock, record, failing, after, state, verb, pending, client, ghosts, faults>>

\* The child is found suspended, a session leader, and recorded durably.
Record ==
    /\ pc = "record"
    /\ \/ /\ proc' = [proc EXCEPT ![child] = "gated"]
          /\ record' = record \cup {child}
          /\ Goto("release")
          /\ NoFault
          /\ UNCHANGED <<after, state, verb, client, ghosts>>
       \/ AbortSpawn({record, record \cup {child}}, {record, record \cup {child}})
    /\ UNCHANGED <<spec, lock, failing, pending>>

Release ==
    /\ pc = "release"
    /\ \/ /\ proc' = [proc EXCEPT ![child] = "running"]
          /\ running' = desired
          /\ exit' = "none"
          /\ NoFault
          /\ IF after = "policy"
             THEN Goto("serve") /\ after' = None /\ UNCHANGED <<verb, client, ghosts>>
             ELSE Goto("reply") /\ fresh' = TRUE /\ UNCHANGED <<after, verb, client, owed>>
          /\ UNCHANGED <<record, desired, child, restart>>
       \/ AbortSpawn({record, record \ {child}}, {record})
    /\ UNCHANGED <<spec, lock, failing, pending>>

-----------------------------------------------------------------------------
(***************************************************************************)
(* serve: one verb, one exit or one restart at a time, until the context   *)
(* ends or a reap goes unproven.                                           *)
(***************************************************************************)

\* stop: with a child, its exit is waited for.
Stop(next) ==
    IF child = None THEN Goto(next) /\ UNCHANGED after ELSE Goto("stop") /\ after' = next

Take ==
    /\ pc = "serve"
    /\ \E r \in pending :
          /\ verb' = r
          /\ pending' = pending \ {r}
          /\ owed' = (r.op = "apply" /\ child # None /\ proc[child] # "running")
          /\ CASE r.op = "apply" -> Goto("apply") /\ UNCHANGED after
               [] r.op = "remove" -> Stop("forget")
               [] r.op = "print" -> Goto("reply") /\ UNCHANGED after
    /\ UNCHANGED <<world, state, client, fresh, faults>>

\* Mutant of LiveChild: a child not yet released is a child that runs.
AnyChild == child # None

\* live: the child's own process is still running.
LiveChild == child # None /\ proc[child] = "running"

\* apply: a program that cannot run is refused, and so is a child that cannot be
\* observed; a child that runs the same service is left, any other is stopped.
Apply ==
    /\ pc = "apply"
    /\ \/ /\ IF LiveChild /\ running = verb.service
             THEN Goto("persist") /\ UNCHANGED after
             ELSE Stop("persist")
          /\ NoFault
          /\ UNCHANGED <<verb, client, ghosts>>
       \/ Fails("apply") /\ Answer("error")
    /\ UNCHANGED <<world, state, pending>>

\* The service is persisted, then desired; a policy's restart is cancelled.
Persist ==
    /\ pc = "persist"
    /\ \/ /\ spec' = verb.service
          /\ desired' = verb.service
          /\ restart' = FALSE
          /\ IF child # None THEN Goto("reply") /\ UNCHANGED after ELSE Goto("spawn") /\ after' = "apply"
          /\ NoFault
          /\ UNCHANGED <<verb, client, ghosts>>
       \/ /\ Fails("persist")
          /\ spec' \in {spec, verb.service}
          /\ Answer("error")
          /\ UNCHANGED <<desired, restart>>
    /\ UNCHANGED <<lock, record, proc, failing, running, child, exit, pending>>

\* remove: the service is forgotten once its child is gone.
Forget ==
    /\ pc = "forget"
    /\ \/ spec' = None /\ desired' = None /\ restart' = FALSE /\ Answer("ok") /\ NoFault
       \/ Fails("persist") /\ spec' \in {spec, None} /\ Answer("error") /\ UNCHANGED <<desired, restart>>
    /\ UNCHANGED <<lock, record, proc, failing, running, child, exit, pending>>

Reply ==
    /\ pc = "reply"
    /\ Answer("ok")
    /\ UNCHANGED <<world, state, pending, faults>>

\* TerminateBy: the ladder ends the service's process.
Terminate ==
    /\ pc = "stop"
    /\ proc[child] = "running"
    /\ proc' = [proc EXCEPT ![child] = "exited"]
    /\ failing' = TRUE
    /\ UNCHANGED <<spec, lock, record, pc, after, state, verb, pending, client, ghosts, faults>>

\* Mutant of Stopped: an unproven reap is a stop like any other.
StoppedAnyhow ==
    /\ pc = "stop"
    /\ exit # "none"
    /\ child' = None
    /\ exit' = "none"
    /\ running' = None
    /\ Goto(after) /\ after' = None /\ UNCHANGED <<verb, client, ghosts>>
    /\ UNCHANGED <<world, desired, restart, pending, faults>>

\* release: a child is given up only when its reap was proven.
Stopped ==
    /\ pc = "stop"
    /\ exit # "none"
    /\ child' = None
    /\ exit' = "none"
    /\ running' = None
    /\ IF exit = "unproven"
       THEN IF verb = NoVerb THEN Goto("exit") /\ UNCHANGED <<after, verb, client, ghosts>>
            ELSE Answer("unsettled")
       ELSE Goto(after) /\ after' = None /\ UNCHANGED <<verb, client, ghosts>>
    /\ UNCHANGED <<world, desired, restart, pending, faults>>

\* Mutant of Settled: only a failure is restarted.
SettledFailed ==
    /\ pc = "serve"
    /\ exit # "none"
    /\ child' = None
    /\ exit' = "none"
    /\ running' = None
    /\ restart' = (restart \/ (desired # None /\ Policy[desired] # "never" /\ exit = "failed"))
    /\ Goto(IF exit = "unproven" THEN "exit" ELSE "serve")
    /\ UNCHANGED <<world, after, desired, verb, pending, client, ghosts, faults>>

\* settled: the restart policy is applied to a child that exited by itself.
Settled ==
    /\ pc = "serve"
    /\ exit # "none"
    /\ child' = None
    /\ exit' = "none"
    /\ running' = None
    /\ IF exit = "unproven" THEN Goto("exit") /\ UNCHANGED restart
       ELSE /\ IF desired # None /\ (Policy[desired] = "always" \/ (Policy[desired] = "onFailure" /\ exit = "failed"))
               THEN Retry ELSE UNCHANGED restart
            /\ UNCHANGED pc
    /\ UNCHANGED <<world, after, desired, verb, pending, client, ghosts, faults>>

\* The throttle interval passed.
Restart ==
    /\ pc = "serve"
    /\ restart
    /\ restart' = FALSE
    /\ Goto("spawn")
    /\ after' = "policy"
    /\ UNCHANGED <<world, desired, running, child, exit, verb, pending, client, ghosts, faults>>

\* The context ends: the child is stopped and the service stays applied.
Cancel ==
    /\ pc = "serve"
    /\ Stop("exit")
    /\ UNCHANGED <<world, state, verb, pending, client, ghosts, faults>>

Exit ==
    /\ pc = "exit"
    /\ Gone
    /\ UNCHANGED <<spec, record, proc, failing, faults>>

-----------------------------------------------------------------------------
(***************************************************************************)
(* Clients.                                                                *)
(***************************************************************************)

Bound == pc \notin {"down", "load", "reclaim", "bind"}
At(c, step) == client[c].step = step
Move(c, step) == client' = [client EXCEPT ![c].step = step]
supervising == <<pc, after, state, verb, ghosts, faults>>

Call(c) ==
    /\ At(c, "idle")
    /\ \E o \in Ops, s \in Services :
          /\ o # "apply" => s = Idle.service
          /\ client' = [client EXCEPT ![c] = [step |-> "dial", op |-> o, service |-> s]]
    /\ UNCHANGED <<world, pending, supervising>>

\* A verb is accepted, or nobody answers: only Remove has something left to do.
Dial(c) ==
    /\ At(c, "dial")
    /\ \/ /\ Bound
          /\ Move(c, "wait")
          /\ pending' = pending \cup {[from |-> c, op |-> client[c].op, service |-> client[c].service]}
       \/ /\ ~Bound
          /\ IF client[c].op = "remove" THEN Move(c, "inspect") ELSE client' = [client EXCEPT ![c] = Idle]
          /\ UNCHANGED pending
    /\ UNCHANGED <<world, supervising>>

\* The caller's deadline passes; what it sent stays with the supervisor.
GiveUp(c) ==
    /\ At(c, "wait")
    /\ client' = [client EXCEPT ![c] = Idle]
    /\ UNCHANGED <<world, pending, supervising>>

\* removeUnsupervised: nothing persisted is success.
Inspect(c) ==
    /\ At(c, "inspect")
    /\ IF spec = None THEN client' = [client EXCEPT ![c] = Idle] ELSE Move(c, "lock")
    /\ UNCHANGED <<world, pending, supervising>>

\* Mutant of TryLock: the file is deleted without the supervisor's lock.
TryNoLock(c) ==
    /\ At(c, "lock")
    /\ Move(c, "forget")
    /\ UNCHANGED <<world, pending, supervising>>

\* A lock a supervisor holds sends the verb back to its socket.
TryLock(c) ==
    /\ At(c, "lock")
    /\ IF lock = None THEN lock' = c /\ Move(c, "forget") ELSE Move(c, "dial") /\ UNCHANGED lock
    /\ UNCHANGED <<spec, record, proc, failing, pending, supervising>>

ForgetUnsupervised(c) ==
    /\ At(c, "forget")
    /\ spec' = None
    /\ lock' = IF lock = c THEN None ELSE lock
    /\ client' = [client EXCEPT ![c] = Idle]
    /\ UNCHANGED <<record, proc, failing, pending, supervising>>

-----------------------------------------------------------------------------
Loop ==
    \/ Run \/ Load \/ Reclaim \/ Bind \/ Spawn \/ Record \/ Release
    \/ Take \/ Apply \/ Persist \/ Forget \/ Reply
    \/ Terminate \/ Stopped \/ Settled \/ Restart \/ Exit

Caller(c) ==
    \/ Call(c) \/ Dial(c) \/ GiveUp(c) \/ Inspect(c) \/ TryLock(c) \/ ForgetUnsupervised(c)

SupervisorNext ==
    \/ Loop \/ Cancel \/ Kill
    \/ LeaderExits \/ Driver \/ OrphanEnds
    \/ \E c \in Clients : Caller(c)

SupervisorSpec == SupervisorInit /\ [][SupervisorNext]_supervisorVars

\* The loop and the driver are goroutines of a live process, and the throttle
\* timer fires: a select that stays ready for a case takes it in the end.
SupervisorFairSpec ==
    /\ SupervisorSpec
    /\ WF_supervisorVars(Loop) /\ WF_supervisorVars(Driver)
    /\ SF_supervisorVars(Restart) /\ SF_supervisorVars(Settled) /\ SF_supervisorVars(Take)
    /\ \A c \in Clients : WF_supervisorVars(TryLock(c) \/ ForgetUnsupervised(c))

-----------------------------------------------------------------------------
\* A label runs one instance: over kills, unproven reaps and restarts no child
\* is started while an earlier one, or what is left of its session, lives.  A lost
\* process is the exception: nothing looks for one before the next start.
OneInstance == \A p, q \in Pids : proc[p] \in Known /\ proc[q] \in Known => p = q

\* Whatever lives is in the store, but a child forked and not yet recorded and a
\* lost one: the next supervisor can find what this one leaves, a child stopped
\* before its release included, and a record goes only with a proven reap.
Recorded == \A p \in Pids : proc[p] \in Alive => p \in record

\* A label runs one instance, and the store names it from before its first
\* instruction; what a kill between fork and record or an unproven abort loses is
\* outside both.
OneRecorded == OneInstance /\ Recorded

BetweenVerbs == pc \in {"reclaim", "bind", "serve"}

\* What the supervisor answered for holds.  An Apply that answered success has a
\* child of the service it asked for, a new one when the old had already exited.
\* And from one moment between verbs to the next what the supervisor would resume
\* after a restart stays what it runs: no Remove without a supervisor takes the
\* file from under one that already loaded it.  Steps of a verb of its own are not
\* constrained: its write may fail and part the two.
VerbsHold ==
    [][/\ pc = "reply" /\ verb.op = "apply" /\ pc' = "serve"
             => child # None /\ running = verb.service /\ (owed => fresh)
       /\ BetweenVerbs /\ desired = spec /\ BetweenVerbs' => desired' = spec']_supervisorVars

\* A service with policy "always" that exits by itself runs again, unless an
\* Apply or a Remove takes its restart over or its supervisor ends.
Restarts ==
    \A s \in Services :
       (pc = "serve" /\ desired = s /\ Policy[s] = "always" /\ exit \in {"proven", "failed"})
       ~> (desired # s \/ verb.op \in {"apply", "remove"} \/ (child # None /\ proc[child] = "running"))

\* A supervisor that serves a service of policy "always" runs it.
KeepsRunning ==
    \A s \in Services :
       (pc = "serve" /\ desired = s /\ Policy[s] = "always" /\ child = None)
       ~> (desired # s \/ child # None)

\* A Remove that answers success leaves no process of the service.
RemoveStops ==
    [][LET removed == \/ Forget /\ spec' = None /\ desired' = None
                      \/ \E c \in Clients : (Inspect(c) /\ spec = None) \/ ForgetUnsupervised(c)
       IN  removed => \A p \in Pids : proc[p] # "running"]_supervisorVars
=============================================================================
