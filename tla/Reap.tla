------------------------------- MODULE Reap --------------------------------
(***************************************************************************)
(* The reap ladder of internal/proc (reap.go, preserve.go, driver.go,      *)
(* adopt.go) at the granularity of one system call, over a process table   *)
(* that moves between any two of them: processes fork, change group,       *)
(* leave the session, exit, are reaped, and their PIDs are given to        *)
(* strangers.  One recorded process, with a session of its own or not, is  *)
(* settled by one of the ladder's callers.  A PID is known by its number,  *)
(* a process instance by the number of its start.                          *)
(***************************************************************************)
EXTENDS Naturals

CONSTANTS
    Pids,       \* PIDs of the table; the recorded process has the least
    MaxStarts,  \* processes that may ever be started
    Courses     \* bound: who settles what, on which kernel, and what may happen
                \* while the ladder is between reading the table and acting on it

Leader == CHOOSE p \in Pids : \A q \in Pids : p <= q

ASSUME ReapAssumption ==
    /\ Pids \subseteq Nat \ {0} /\ \E p \in Pids : \A q \in Pids : p <= q
    /\ MaxStarts \in Nat \ {0}
    /\ Courses \subseteq
          [caller : {"recover", "preserve", "stop", "terminate", "quiet", "drive"},
           session : BOOLEAN,    \* the record names a session
           pidfd : BOOLEAN,      \* the kernel hands out process handles (linux)
           races : SUBSET {"fork", "setpgid", "setsid", "reuse",
                           "tick"}]   \* a PID reused within the start stamp's resolution

VARIABLES
    table,     \* the kernel's process table
    starts,    \* processes started so far
    course,    \* the course this behaviour takes
    ladder,    \* the step the ladder is at and its locals
    late,      \* ctx is done
    waiter,    \* the driver's wait goroutine
    record,    \* the durable record
    outcome,   \* what the ladder proved: a Reap
    stray      \* ghost: a signal reached a process outside the record's scope

vars == <<table, starts, course, ladder, late, waiter, record, outcome, stray>>
caller == course.caller
session == course.session
Pidfd == course.pidfd
Races == course.races

world == <<table, starts>>
settled == <<record, outcome>>

NoProc == [inst |-> 0, start |-> 0, group |-> 0, session |-> 0, state |-> "free", kin |-> FALSE]
Recorded == 1   \* the instance the record names, and its start stamp

Present(p) == table[p].state # "free"
Live(p) == table[p].state \in {"running", "dying"}

\* identity.matches of a probe of p against a start stamp.
Matches(p, start) == Present(p) /\ table[p].start = start

At(step) == ladder.at = step
Goto(step) == ladder' = [ladder EXCEPT !.at = step]
Proven == {"absent", "reused", "terminated"}

Init ==
    /\ course \in Courses
    /\ caller = "terminate" => ~session
    /\ table = [p \in Pids |-> IF p = Leader
                  THEN [inst |-> Recorded, start |-> Recorded,
                        group |-> IF session THEN Leader ELSE 0,
                        session |-> IF session THEN Leader ELSE 0,
                        state |-> "running", kin |-> TRUE]
                  ELSE NoProc]
    /\ starts = 1
    /\ ladder = [at |-> IF caller = "drive" THEN "drive" ELSE "begin",
                 phase |-> "first", todo |-> {}, found |-> {}, groups |-> {},
                 gone |-> TRUE, held |-> 0, seen |-> FALSE, looks |-> 0,
                 reap |-> "absent"]
    /\ late = FALSE
    /\ waiter = "waiting"
    /\ record = "kept"
    /\ outcome = "undetermined"
    /\ stray = FALSE
-----------------------------------------------------------------------------
\* The process table.  A PID is free for a new process once no process bears
\* it, as its own number, its group's or its session's.
Reusable(p) == \A q \in Pids : Present(q) => p \notin {q, table[q].group, table[q].session}

Between == {"begin", "enumerate", "grace", "poll", "pause", "await", "drive", "dgrace", "dwait"}
May(race) ==
    \/ race \in Races
    \/ race = "reuse" /\ At("begin") /\ caller # "drive"
    \/ race # "reuse" /\ ladder.at \in Between

\* The recorded process and its descendants, while they are in its session.
InSession(p) == session /\ table[p].kin /\ table[p].session = Leader /\ table[p].state = "running"

Fork(p, q) ==
    /\ May("fork") /\ InSession(p) /\ Reusable(q) /\ starts < MaxStarts
    /\ starts' = starts + 1
    /\ table' = [table EXCEPT ![q] = [table[p] EXCEPT !.inst = starts', !.start = starts']]

Setpgid(p) ==
    /\ May("setpgid") /\ InSession(p) /\ p # Leader
    /\ \E g \in {p} \cup {table[q].group : q \in {r \in Pids : Present(r) /\ table[r].session = Leader}} :
          table[p].group # g /\ table' = [table EXCEPT ![p].group = g]
    /\ UNCHANGED starts

Setsid(p) ==
    /\ May("setsid") /\ InSession(p)
    /\ \A q \in Pids : Present(q) => table[q].group # p
    /\ table' = [table EXCEPT ![p].group = p, ![p].session = p]
    /\ UNCHANGED starts

\* A stranger is given a free PID; it may make itself a session leader.
Stranger(p) ==
    /\ May("reuse") /\ Reusable(p) /\ starts < MaxStarts
    /\ starts' = starts + 1
    /\ \E s \in {0, p}, t \in {starts'} \cup (IF "tick" \in Races /\ p = Leader THEN {Recorded} ELSE {}) :
          table' = [table EXCEPT ![p] = [inst |-> starts', start |-> t, group |-> p,
                                         session |-> s, state |-> "running", kin |-> FALSE]]

Exit(p) ==
    /\ Live(p)
    /\ table' = [table EXCEPT ![p].state = "zombie"]
    /\ UNCHANGED starts

\* A zombie is reaped by its parent, the driver's own child by the driver.
Buried(p) ==
    /\ table[p].state = "zombie"
    /\ ~(caller = "drive" /\ table[p].inst = Recorded)
    /\ table' = [table EXCEPT ![p] = NoProc]
    /\ UNCHANGED starts

World ==
    /\ ~At("done")
    /\ \E p \in Pids : \/ \E q \in Pids : Fork(p, q)
                       \/ Setpgid(p) \/ Setsid(p) \/ Stranger(p) \/ Exit(p) \/ Buried(p)
    /\ UNCHANGED <<course, ladder, late, waiter, settled, stray>>

Expire ==
    /\ ~late /\ ~At("done")
    /\ late' = TRUE
    /\ UNCHANGED <<world, course, ladder, waiter, settled, stray>>

\* The effect of a signal on the processes it reaches.
InScope(p) == IF session /\ ladder.groups # {} THEN table[p].kin /\ table[p].session = Leader
                                               ELSE table[p].inst = Recorded
Deliver(sig, reached) ==
    /\ table' = [p \in Pids |-> IF sig = "KILL" /\ p \in reached /\ table[p].state = "running"
                                THEN [table[p] EXCEPT !.state = "dying"] ELSE table[p]]
    /\ stray' = (stray \/ \E p \in reached : ~InScope(p))
    /\ UNCHANGED starts
-----------------------------------------------------------------------------
\* What a caller does with the outcome: it retires the record of a scope
\* proved gone, and the removal may fail.
Return(reap) ==
    /\ ladder' = [ladder EXCEPT !.at = IF reap \in Proven /\ caller # "terminate"
                                       THEN "retire" ELSE "done"]
    /\ outcome' = IF caller = "drive" /\ reap = "absent" THEN ladder.reap ELSE reap
    /\ UNCHANGED record

Quietly == UNCHANGED <<world, course, late, waiter, stray>>
Onward(step) == Goto(step) /\ UNCHANGED settled

Retire ==
    /\ At("retire")
    /\ record' \in {"removed", "kept"}
    /\ Goto("done")
    /\ UNCHANGED outcome
    /\ Quietly

\* Mutant: the leader's exit is taken for its session's.
BeginLeaderOnly ==
    /\ At("begin") /\ caller \in {"recover", "stop", "terminate", "drive"}
    /\ \/ session /\ ~Live(Leader) /\ Return("absent")
       \/ (session => Live(Leader))
          /\ ladder' = [ladder EXCEPT !.at = IF session THEN "enumerate" ELSE "verify",
                          !.held = IF Pidfd THEN table[Leader].inst ELSE 0]
          /\ UNCHANGED settled
    /\ Quietly

\* Mutant: the leader's PID is not compared with the record before its session is signalled.
BeginUnmatched ==
    /\ At("begin") /\ caller \in {"recover", "stop", "terminate", "drive"}
    /\ ladder' = [ladder EXCEPT !.at = IF session THEN "enumerate" ELSE "verify",
                    !.held = IF Pidfd THEN table[Leader].inst ELSE 0]
    /\ UNCHANGED settled
    /\ Quietly

\* reapIdentityWithGrace, for a record of this boot: with a session the leader
\* is probed first, without one the process is held and then probed.
Begin ==
    /\ At("begin") /\ caller \in {"recover", "stop", "terminate", "drive"}
    /\ \/ ~session
          /\ ladder' = [ladder EXCEPT !.at = "verify",
                          !.held = IF Pidfd THEN table[Leader].inst ELSE 0]
          /\ UNCHANGED settled
       \/ session /\ Present(Leader) /\ ~Matches(Leader, Recorded) /\ Return("reused")
       \/ session /\ (Present(Leader) => Matches(Leader, Recorded)) /\ Onward("enumerate")
    /\ Quietly

\* Mutant: the signal names the process by its number where a handle is held.
ReachedByNumber == {p \in {Leader} : Present(p)}

\* held.signal: through the handle the process it was opened on, by number
\* whoever bears the PID now.
Reached == {p \in {Leader} : Present(p) /\ (Pidfd => table[p].inst = ladder.held)}

Verify ==
    /\ At("verify")
    /\ CASE ~Present(Leader) -> Return("absent")
         [] Present(Leader) /\ ~Matches(Leader, Recorded) -> Return("reused")
         [] Matches(Leader, Recorded) /\ table[Leader].state = "zombie" -> Return("absent")
         [] OTHER -> Onward("term")
    /\ Quietly

\* reapOrphan: SIGTERM, polls through the grace share, SIGKILL.
Term ==
    /\ At("term")
    /\ IF Reached = {} THEN Return("absent") ELSE Onward("grace")
    /\ Deliver("TERM", Reached)
    /\ UNCHANGED <<course, late, waiter>>

Grace ==
    /\ At("grace")
    /\ \/ late /\ Return("undetermined")
       \/ CASE ~Present(Leader) -> Return("terminated")
            [] Present(Leader) /\ ~Matches(Leader, Recorded) -> Return("reused")
            [] Matches(Leader, Recorded) /\ table[Leader].state = "zombie" -> Return("terminated")
            [] OTHER -> Onward("kill")
    /\ Quietly

\* Mutant: a SIGKILL delivered is taken for a process gone.
KillAssumed ==
    /\ At("kill")
    /\ Return("terminated")
    /\ Deliver("KILL", Reached)
    /\ UNCHANGED <<course, late, waiter>>

Kill ==
    /\ At("kill")
    /\ IF Reached = {} THEN Return("terminated") ELSE Onward("await")
    /\ Deliver("KILL", Reached)
    /\ UNCHANGED <<course, late, waiter>>

\* Mutant: a killed process is waited for past the deadline.
AwaitUnbounded ==
    /\ At("await")
    /\ ~(Matches(Leader, Recorded) /\ Live(Leader)) /\ Return("terminated")
    /\ Quietly

AwaitSettlement ==
    /\ At("await")
    /\ \/ ~(Matches(Leader, Recorded) /\ Live(Leader)) /\ Return("terminated")
       \/ Matches(Leader, Recorded) /\ Live(Leader) /\ late /\ Return("undetermined")
    /\ Quietly
-----------------------------------------------------------------------------
\* Mutant: verifiedMembers does not look at the context before it lists.
EnumerateUndated ==
    /\ At("enumerate")
    /\ ladder' = [ladder EXCEPT !.at = "stat", !.found = {}, !.todo = {p \in Pids : Present(p)}]
    /\ UNCHANGED settled
    /\ Quietly

\* verifiedMembers: the table's PIDs are listed, each is read, and each one
\* found in the session is read again.
Enumerate ==
    /\ At("enumerate")
    /\ \/ late /\ Return("undetermined")
       \/ ~late /\ ladder' = [ladder EXCEPT !.at = "stat", !.found = {},
                                !.todo = {p \in Pids : Present(p)}]
          /\ UNCHANGED settled
    /\ Quietly

Stat ==
    /\ At("stat") /\ ladder.todo # {}
    /\ \E p \in ladder.todo :
          ladder' = [ladder EXCEPT !.todo = @ \ {p},
                       !.found = IF Live(p) /\ table[p].session = Leader
                                 THEN @ \cup {<<p, table[p].start>>} ELSE @]
    /\ UNCHANGED settled
    /\ Quietly

Listed ==
    /\ At("stat") /\ ladder.todo = {}
    /\ ladder' = [ladder EXCEPT !.at = "reprobe", !.todo = ladder.found, !.found = {}]
    /\ UNCHANGED settled
    /\ Quietly

Member(m) == Live(m[1]) /\ table[m[1]].session = Leader /\ Matches(m[1], m[2])

Reprobe ==
    /\ At("reprobe") /\ ladder.todo # {}
    /\ \/ late /\ Return("undetermined")
       \/ ~late /\ \E m \in ladder.todo :
                      ladder' = [ladder EXCEPT !.todo = @ \ {m},
                                   !.found = IF Member(m) THEN @ \cup {table[m[1]].group} ELSE @]
          /\ UNCHANGED settled
    /\ Quietly

\* What the caller of verifiedMembers does with its answer, of which only the
\* members' groups are kept.
Signalled(phase) == ladder' = [ladder EXCEPT !.at = "signal", !.phase = phase,
                                 !.groups = ladder.found, !.gone = TRUE]
Judge ==
    /\ At("reprobe") /\ ladder.todo = {} /\ ladder.phase # "observe"
    /\ CASE ladder.found = {} -> Return(IF ladder.phase \in {"first", "denied"} THEN "absent"
                                                                            ELSE "terminated")
         [] ladder.found # {} /\ ladder.phase = "first" -> Signalled("first") /\ UNCHANGED settled
         [] ladder.found # {} /\ ladder.phase = "grace" ->
               \/ Onward("poll")
               \/ ladder' = [ladder EXCEPT !.at = "enumerate", !.phase = "kill"] /\ UNCHANGED settled
         [] ladder.found # {} /\ ladder.phase = "kill" ->
               IF late THEN Return("undetermined") ELSE Signalled("kill") /\ UNCHANGED settled
         [] OTHER -> Return("undetermined")   \* a denied signal, and members left
    /\ Quietly

\* signalSessionGroups, one group in ascending order.  Darwin denies a signal
\* to a group of zombies, and the members are then verified afresh.
SignalGroup ==
    /\ At("signal") /\ ladder.groups # {} /\ ~late
    /\ \E g \in ladder.groups :
          LET reached == {p \in Pids : Live(p) /\ table[p].group = g}
              zombies == {p \in Pids : table[p].state = "zombie" /\ table[p].group = g}
          IN  /\ \A k \in ladder.groups : g <= k
              /\ ladder' =
                   IF reached = {} /\ zombies # {} /\ ~Pidfd
                   THEN [ladder EXCEPT !.at = "enumerate", !.phase = IF @ = "first" THEN "denied" ELSE "refused"]
                   ELSE [ladder EXCEPT !.groups = @ \ {g}, !.gone = @ /\ reached \cup zombies = {}]
              /\ Deliver(IF ladder.phase = "first" THEN "TERM" ELSE "KILL", reached)
    /\ UNCHANGED <<course, late, waiter, settled>>

Signalling ==
    /\ At("signal")
    /\ \/ ladder.groups # {} /\ late /\ Return("undetermined")
       \/ ladder.groups = {} /\ ladder.gone
          /\ Return(IF ladder.phase = "first" THEN "absent" ELSE "terminated")
       \/ ladder.groups = {} /\ ~ladder.gone /\ ladder.phase = "first"
          /\ ladder' = [ladder EXCEPT !.at = "poll", !.phase = "grace"]
          /\ UNCHANGED settled
       \/ ladder.groups = {} /\ ~ladder.gone /\ ladder.phase = "kill" /\ Onward("pause")
    /\ Quietly

Poll ==
    /\ At("poll")
    /\ \/ late /\ Return("undetermined")
       \/ Onward("enumerate")
    /\ Quietly

Pause ==
    /\ At("pause")
    /\ Onward("enumerate")
    /\ Quietly
-----------------------------------------------------------------------------
\* inspectScope: without a signal, the recorded process is probed and then its
\* session verified.
Look ==
    /\ At("begin") /\ caller \in {"preserve", "quiet"}
    /\ \/ late /\ Return("undetermined")
       \/ ~late /\ ladder' = [ladder EXCEPT !.at = IF session THEN "enumerate" ELSE "reprobe",
                                !.phase = "observe", !.todo = {}, !.found = {},
                                !.seen = Matches(Leader, Recorded) /\ Live(Leader),
                                !.reap = IF Present(Leader) /\ ~Matches(Leader, Recorded)
                                         THEN "reused" ELSE "absent"]
          /\ UNCHANGED settled
    /\ Quietly

\* recoverOne under PreserveOwned retires on one complete observation;
\* ObserveAndRetire polls for one and observes once more before it retires.
Looked ==
    /\ At("reprobe") /\ ladder.todo = {} /\ ladder.phase = "observe"
    /\ LET complete == ~ladder.seen /\ ladder.found = {}
           last == caller = "preserve" \/ ladder.looks = 1
       IN  \/ late /\ Return("undetermined")
           \/ ~late /\ last /\ Return(IF complete THEN ladder.reap ELSE "undetermined")
           \/ ~late /\ ~last
              /\ ladder' = [ladder EXCEPT !.at = "begin", !.looks = IF complete THEN 1 ELSE 0]
              /\ UNCHANGED settled
    /\ Quietly
-----------------------------------------------------------------------------
\* The driver of an owned child.  Its wait goroutine learns of the exit; on
\* linux the zombie stays until the driver is done, elsewhere the wait reaps it.
Wait ==
    /\ caller = "drive" /\ ~At("done")
    /\ \/ /\ waiter = "waiting" /\ Matches(Leader, Recorded) /\ table[Leader].state = "zombie"
          /\ IF Pidfd THEN waiter' = "told" /\ UNCHANGED table
                      ELSE waiter' = "reaped" /\ table' = [table EXCEPT ![Leader] = NoProc]
       \/ waiter = "reaped" /\ waiter' = "told" /\ UNCHANGED table
    /\ UNCHANGED <<starts, course, ladder, late, settled, stray>>

\* driveExit once the leader is gone: its session is settled, then its record
\* retired.
LeaderGone(reap) ==
    IF session THEN ladder' = [ladder EXCEPT !.at = "begin", !.reap = reap] /\ UNCHANGED settled
               ELSE Return(reap)

\* awaitTerminal, and terminateChild's look at the exit before any signal.
AwaitTerminal ==
    /\ \/ At("drive") /\ waiter = "told" /\ LeaderGone("absent")
       \/ At("drive") /\ Onward("demand")
       \/ At("demand") /\ waiter = "told" /\ LeaderGone("absent")
       \/ At("demand") /\ waiter # "told" /\ Onward("dterm")
       \/ At("dgrace") /\ waiter = "told" /\ LeaderGone("terminated")
       \/ At("dgrace") /\ Onward("dkill")
       \/ At("dwait") /\ waiter = "told" /\ LeaderGone("terminated")
       \/ At("dwait") /\ late /\ Return("undetermined")
    /\ Quietly

\* terminateChild's signals name the child by its PID.
SignalChild ==
    /\ \/ At("dterm") /\ Onward("dgrace") /\ Deliver("TERM", {p \in {Leader} : Present(p)})
       \/ At("dkill") /\ Onward("dwait") /\ Deliver("KILL", {p \in {Leader} : Present(p)})
    /\ UNCHANGED <<course, late, waiter>>
-----------------------------------------------------------------------------
Ladder ==
    \/ Begin \/ Verify \/ Term \/ Grace \/ Kill \/ AwaitSettlement
    \/ Enumerate \/ Stat \/ Listed \/ Reprobe \/ Judge \/ SignalGroup \/ Signalling \/ Poll \/ Pause
    \/ Look \/ Looked \/ AwaitTerminal \/ SignalChild \/ Retire

Next == World \/ Expire \/ Ladder \/ Wait

Spec == Init /\ [][Next]_vars
-----------------------------------------------------------------------------
\* Once the ladder answers that it proved the process gone, and wherever it
\* removed the record, the recorded instance is not running and neither is any
\* process of its session (Reap.Proven), as long as no member forks between the
\* readings of one scan, or changes its group between the scan and the signals:
\* a scan lists the PIDs once, and signalSessionGroups takes groups that are all
\* gone for a session that is.
ProvenGone ==
    /\ At("done") /\ (outcome \in Proven \/ record = "removed")
    /\ session => Races \cap {"fork", "setpgid"} = {}
    => \A p \in Pids : Live(p) /\ table[p].kin =>
           table[p].inst # Recorded /\ (session => table[p].session # Leader)

\* No signal of the ladder or of the driver reaches a process other than the
\* recorded one and, with a session, the processes in that session, as long as
\* what it addresses by number keeps its number: a group of the session, or any
\* process where the kernel has no handle; and as long as no stranger bears the
\* recorded PID and start stamp, by which alone identity.matches knows a process.
StrikesOwn ==
    stray => \/ session /\ Races \cap {"setpgid", "setsid", "reuse"} # {}
             \/ ~Pidfd /\ "reuse" \in Races
             \/ "tick" \in Races

\* How far each step is from the ladder's return, once its deadline has passed.
Left == [done |-> 0, retire |-> 1, enumerate |-> 2, poll |-> 3, pause |-> 3, signal |-> 4,
         reprobe |-> 5, stat |-> 6,
         await |-> 2, kill |-> 3, grace |-> 4, term |-> 5, verify |-> 6, begin |-> 7,
         dwait |-> 8, dkill |-> 9, dgrace |-> 10, dterm |-> 11, demand |-> 12, drive |-> 13]

\* Past its deadline every step of the ladder is nearer its return: it finishes the
\* scan it is in and begins no other, although members that appear, or that no
\* signal dislodges, would send its loops round again.
DeadlineDescends ==
    [][late /\ ladder' # ladder =>
          \/ Left[ladder'.at] < Left[ladder.at]
          \/ ladder'.at = ladder.at /\ ladder'.todo \subseteq ladder.todo /\ ladder'.todo # ladder.todo]_vars

\* The deadline ends the ladder: once it has passed, the ladder always has a next
\* step of its own, whatever the processes do, and the steps left, each nearer the
\* end, lead to its return.  A process that SIGKILL cannot dislodge does not hold
\* it.  The driver's wait for a child nobody asked to end has no deadline.
DeadlineEnds ==
    /\ [](late /\ ~At("drive") /\ ~At("done") => ENABLED Ladder)
    /\ DeadlineDescends
============================================================================
