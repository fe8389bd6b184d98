----------------------------- MODULE ReapProofs ----------------------------
(***************************************************************************)
(* The reap ladder against any process table: any number of processes,     *)
(* starts and courses.  The invariant says what the table can look like    *)
(* around the recorded process, what the ladder's locals still tell of     *)
(* the table after it moved on, and what each outcome rests on.            *)
(***************************************************************************)
EXTENDS Reap, TLAPS

USE Zenon

Steps == {"begin", "verify", "term", "grace", "kill", "await",
          "enumerate", "stat", "reprobe", "signal", "poll", "pause",
          "drive", "demand", "dterm", "dgrace", "dkill", "dwait", "retire", "done"}
Driving == {"drive", "demand", "dterm", "dgrace", "dkill", "dwait"}
Single == {"verify", "term", "grace", "kill", "await"}
Scanning == {"enumerate", "stat", "reprobe", "signal", "poll", "pause"}

\* What the proofs need of the shape of the state.
Shape ==
    /\ course \in Courses
    /\ DOMAIN table = Pids
    /\ \A p \in Pids :
          /\ DOMAIN table[p] = {"inst", "start", "group", "session", "state", "kin"}
          /\ table[p].state \in {"free", "running", "dying", "zombie"}
    /\ DOMAIN ladder = {"at", "phase", "todo", "found", "groups", "gone", "held", "seen",
                        "looks", "reap"}
    /\ ladder.at \in Steps /\ ladder.reap \in Proven
    /\ starts \in Nat /\ starts >= Recorded

\* The recorded instance, and a process of its session.
Original(p) == Present(p) /\ table[p].inst = Recorded
Own(p) == Live(p) /\ table[p].kin /\ table[p].session = Leader

\* One process of the table: the recorded instance bears the recorded PID and
\* stamp, and with a session leads it; without the reuse of a stamp, a stamp
\* tells instances apart; a stranger enters the session's number only as the
\* bearer of the recorded PID.
ProcInv(p) ==
    Present(p) =>
        /\ table[p].inst = Recorded =>
              /\ p = Leader /\ table[p].kin /\ table[p].start = Recorded
              /\ session => table[p].session = Leader /\ table[p].group = Leader
        /\ "tick" \notin Races => table[p].start = table[p].inst
        /\ session /\ table[p].session = Leader => table[p].kin \/ p = Leader

\* Two processes: a group lies in one session, that of the process whose
\* number it bears included.
PairInv(p, q) ==
    Present(p) /\ Present(q) =>
        /\ table[p].group = table[q].group => table[p].session = table[q].session
        /\ table[q].group = p => table[q].session = table[p].session

\* The recorded PID is not given away while a process is in its session.
TableInv ==
    /\ \A p \in Pids : ProcInv(p)
    /\ \A p, q \in Pids : PairInv(p, q)
    /\ session /\ Present(Leader) /\ table[Leader].inst # Recorded =>
          \A q \in Pids : ~(Present(q) /\ table[q].kin /\ table[q].session = Leader)

\* Where each course of the ladder can be.
PathInv ==
    /\ ladder.at \in Driving => caller = "drive" /\ ladder.groups = {}
    /\ ladder.at = "begin" /\ caller = "drive" => session
    /\ ladder.at \in Single => ~session
    /\ ladder.at \in Scanning =>
          session \/ (ladder.at = "reprobe" /\ ladder.phase = "observe" /\ ladder.todo = {})
    /\ ladder.phase = "observe" => caller \in {"preserve", "quiet"} /\ ladder.at # "signal"

\* The driver's child: what the wait goroutine saw, and that nobody else
\* reaps it.
DriveInv ==
    caller = "drive" =>
        /\ waiter \in {"waiting", "reaped", "told"}
        /\ waiter = "waiting" \/ Pidfd => Original(Leader)
        /\ waiter # "waiting" => ~(Live(Leader) /\ Original(Leader))
        /\ "reuse" \notin Races /\ Present(Leader) => Original(Leader)

\* A handle is the recorded instance's as long as that exists, and whenever a
\* signal goes through it.
HandleInv ==
    /\ ladder.at \in Single /\ Pidfd /\ Original(Leader) => ladder.held = Recorded
    /\ ladder.at \in {"term", "grace", "kill"} /\ "tick" \notin Races =>
          /\ Pidfd => ladder.held = Recorded
          /\ ~Pidfd /\ "reuse" \notin Races /\ Present(Leader) => Original(Leader)

\* A scan with a settled membership: what is listed covers the session, and a
\* look without a session saw the process gone.
Fixed == session => Races \cap {"fork", "setpgid"} = {}
ScanInv ==
    /\ ladder.at = "stat" =>
          ladder.todo \subseteq Pids /\ \A m \in ladder.found : m[1] \in Pids
    /\ ladder.at = "reprobe" => \A m \in ladder.todo : m[1] \in Pids
    /\ session /\ Fixed => \A p \in Pids : Own(p) =>
          /\ ladder.at = "stat" =>
                p \in ladder.todo \/ <<p, table[p].start>> \in ladder.found
          /\ ladder.at = "reprobe" =>
                <<p, table[p].start>> \in ladder.todo \/ table[p].group \in ladder.found
          /\ ladder.at = "signal" => table[p].group \in ladder.groups \/ ~ladder.gone
    /\ ~session /\ ladder.at = "reprobe" /\ ~ladder.seen => ~(Live(Leader) /\ Original(Leader))

\* A scan whose groups keep their numbers: each group it found lies in the
\* session.
Rooted == Races \cap {"setpgid", "setsid", "reuse", "tick"} = {}
Within(groups) ==
    \A p \in Pids : Present(p) /\ table[p].group \in groups => table[p].kin /\ table[p].session = Leader
GroupInv ==
    session /\ Rooted =>
        /\ ladder.at \in Scanning /\ ladder.phase # "observe" /\ Present(Leader) => Original(Leader)
        /\ ladder.at = "reprobe" /\ ladder.phase # "observe" => Within(ladder.found)
        /\ ladder.at = "signal" => Within(ladder.groups)

Empty == \A p \in Pids : Live(p) /\ table[p].kin =>
             table[p].inst # Recorded /\ (session => table[p].session # Leader)
ResultInv ==
    Fixed /\ (ladder.at = "retire" \/ outcome \in Proven \/ record = "removed") => Empty

Inv == Shape /\ TableInv /\ PathInv /\ DriveInv /\ HandleInv /\ ScanInv /\ GroupInv /\ ResultInv
       /\ StrikesOwn
-----------------------------------------------------------------------------
\* The recorded PID is one of the table's.
LEMMA LeaderInPids == Leader \in Pids
BY ReapAssumption DEF Leader

\* The fields of a course have their types.
LEMMA CourseFacts ==
    ASSUME Shape
    PROVE  /\ caller \in {"recover", "preserve", "stop", "terminate", "quiet", "drive"}
           /\ session \in BOOLEAN /\ Pidfd \in BOOLEAN
BY ReapAssumption, SMT DEF Shape, caller, session, Pidfd

\* The recorded process alone leads the scope it is recorded with.
LEMMA InitInv == Init => Inv
<1> SUFFICES ASSUME Init PROVE Inv
  OBVIOUS
<1> USE LeaderInPids
<1>1. /\ \A p \in Pids \ {Leader} : table[p] = NoProc
      /\ table[Leader].inst = Recorded /\ table[Leader].start = Recorded
      /\ table[Leader].kin = TRUE /\ table[Leader].state = "running"
      /\ session => table[Leader].session = Leader /\ table[Leader].group = Leader
  BY SMT DEF Init
<1>2. \A p \in Pids : Present(p) => p = Leader
  BY <1>1, SMT DEF Present, NoProc
<1>3. Shape
  BY SMT DEF Init, Shape, NoProc, Recorded, Steps, Proven
<1>4. TableInv
  <2>1. \A p \in Pids : ProcInv(p)
    BY <1>1, <1>2 DEF ProcInv
  <2>2. \A p, q \in Pids : PairInv(p, q)
    BY <1>2 DEF PairInv
  <2> QED
    BY <1>1, <2>1, <2>2 DEF TableInv
<1>5. PathInv
  BY SMT DEF Init, PathInv, Driving, Single, Scanning
<1>6. DriveInv
  BY <1>1, SMT DEF Init, DriveInv, Original, Present
<1>7. HandleInv /\ ScanInv /\ GroupInv
  BY SMT DEF Init, HandleInv, Single, ScanInv, GroupInv, Scanning
<1>8. ResultInv /\ StrikesOwn
  BY SMT DEF Init, ResultInv, StrikesOwn, Proven
<1> QED
  BY <1>3, <1>4, <1>5, <1>6, <1>7, <1>8 DEF Inv
-----------------------------------------------------------------------------
\* The table under the processes' own steps: entry q alone changes.
Changed(q) ==
    /\ DOMAIN table' = Pids
    /\ \A r \in Pids : r # q => table'[r] = table[r]
    /\ DOMAIN table'[q] = {"inst", "start", "group", "session", "state", "kin"}
    /\ table'[q].state \in {"free", "running", "dying", "zombie"}
    /\ starts' \in Nat /\ starts' >= starts

\* What is left to the ladder of a step it did not see.
Moves ==
    /\ \A p \in Pids : Original(p)' => Original(p)
    /\ \A p \in Pids : Live(p)' /\ Original(p)' => Live(p)
    /\ ~May("fork") /\ ~May("setpgid") => \A p \in Pids : Own(p)' =>
          Own(p) /\ table'[p].start = table[p].start /\ table'[p].group = table[p].group
    /\ ~May("reuse") /\ Present(Leader)' /\ ~Original(Leader)' =>
          Present(Leader) /\ ~Original(Leader)
    /\ ~May("setpgid") /\ ~May("setsid") /\ ~May("reuse") => \A p \in Pids : Present(p)' =>
          \E q \in Pids : /\ Present(q) /\ table'[p].group = table[q].group
                          /\ table'[p].session = table[q].session /\ table'[p].kin = table[q].kin
    /\ Empty => Empty'

\* A member forks: the child has its group and its session, and a number that
\* none of them bears.
LEMMA ForkMoves ==
    ASSUME Shape, TableInv, UNCHANGED course, NEW p \in Pids, NEW q \in Pids, Fork(p, q)
    PROVE  Changed(q) /\ TableInv' /\ Moves /\ (Original(Leader) => Original(Leader)')
<1> USE LeaderInPids, CourseFacts
<1>1. Changed(q)
  BY SMT DEF Fork, Shape, Changed
<1>2. /\ table'[q].inst = starts + 1 /\ table'[q].start = starts + 1 /\ starts + 1 # Recorded
      /\ table'[q].group = table[p].group /\ table'[q].session = Leader
      /\ table'[q].state = "running" /\ table'[q].kin
      /\ table[p].session = Leader /\ table[p].kin /\ table[p].state = "running" /\ session
      /\ starts + 1 # 0 /\ Present(p) /\ Live(p)
  BY SMT DEF Fork, InSession, Shape, Recorded, Present, Live
<1>3. q # p /\ q # Leader /\ \A r \in Pids : Present(r) => r # q /\ table[r].group # q /\ table[r].session # q
  BY <1>2 DEF Fork, Reusable
<1>4. Present(q)' /\ Live(q)' /\ ~Original(q)' /\ \A r \in Pids : r # q =>
         (Present(r)' <=> Present(r)) /\ (Live(r)' <=> Live(r)) /\ (Original(r)' <=> Original(r))
  BY <1>1, <1>2, SMT DEF Changed, Present, Live, Original
<1>5. session' = session /\ Races' = Races /\ May("fork")
  BY DEF session, Races, Fork
<1>6. TableInv'
  <2>1. ASSUME NEW r \in Pids PROVE ProcInv(r)'
    <3>1. ProcInv(r)
      BY DEF TableInv
    <3>2. CASE r = q
      BY <1>2, <1>4, <1>5, <3>2 DEF ProcInv
    <3>3. CASE r # q
      BY <1>1, <1>4, <1>5, <3>1, <3>3 DEF ProcInv, Changed
    <3> QED
      BY <3>2, <3>3
  <2>2. ASSUME NEW r \in Pids, NEW s \in Pids PROVE PairInv(r, s)'
    <3>1. PairInv(r, s) /\ PairInv(r, p) /\ PairInv(p, s) /\ PairInv(s, p)
      BY DEF TableInv
    <3> QED
      BY <1>1, <1>2, <1>3, <1>4, <3>1, SMT DEF PairInv, Changed
  <2>3. (session /\ Present(Leader) /\ table[Leader].inst # Recorded =>
           \A s \in Pids : ~(Present(s) /\ table[s].kin /\ table[s].session = Leader))'
    BY <1>1, <1>2, <1>3, <1>4, <1>5 DEF TableInv, Changed
  <2> QED
    BY <2>1, <2>2, <2>3 DEF TableInv
<1>7. Moves
  <2>1. \A r \in Pids : Present(r)' => \E s \in Pids :
           /\ Present(s) /\ table'[r].group = table[s].group
           /\ table'[r].session = table[s].session /\ table'[r].kin = table[s].kin
    <3> TAKE r \in Pids
    <3>1. CASE r = q
      BY <1>2, <3>1
    <3>2. CASE r # q
      BY <1>1, <1>4, <3>2 DEF Changed
    <3> QED
      BY <3>1, <3>2
  <2>2. ~Empty
    BY <1>2 DEF Empty
  <2> QED
    BY <1>3, <1>4, <1>5, <2>1, <2>2 DEF Moves
<1> QED
  BY <1>1, <1>3, <1>4, <1>6, <1>7

\* A member moves to another group of its session.
LEMMA SetpgidMoves ==
    ASSUME Shape, TableInv, UNCHANGED course, NEW p \in Pids, Setpgid(p)
    PROVE  Changed(p) /\ TableInv' /\ Moves /\ (Original(Leader) => Original(Leader)')
<1> USE LeaderInPids, CourseFacts
<1>1. PICK g \in {p} \cup {table[q].group : q \in {r \in Pids : Present(r) /\ table[r].session = Leader}} :
         table' = [table EXCEPT ![p].group = g]
  BY DEF Setpgid
<1>2. Changed(p)
  BY <1>1, SMT DEF Setpgid, Shape, Changed
<1>3. /\ table'[p].inst = table[p].inst /\ table'[p].start = table[p].start
      /\ table'[p].group = g /\ table'[p].session = table[p].session
      /\ table'[p].state = table[p].state /\ table'[p].kin = table[p].kin
  BY <1>1, SMT DEF Shape
<1>4. table[p].session = Leader /\ table[p].kin /\ Present(p) /\ Live(p) /\ p # Leader
  BY DEF Setpgid, InSession, Present, Live
<1>5. \A r \in Pids : /\ Present(r)' <=> Present(r)
                      /\ Live(r)' <=> Live(r)
                      /\ Original(r)' <=> Original(r)
                      /\ table'[r].session = table[r].session
                      /\ table'[r].kin = table[r].kin
                      /\ table'[r].inst = table[r].inst
                      /\ table'[r].start = table[r].start
                      /\ r # p => table'[r].group = table[r].group
  BY <1>2, <1>3, SMT DEF Changed, Present, Live, Original
<1>6. session' = session /\ Races' = Races /\ May("setpgid")
  BY DEF session, Races, Setpgid
<1>7. TableInv'
  <2>1. ASSUME NEW r \in Pids PROVE ProcInv(r)'
    BY <1>4, <1>5, <1>6, SMT DEF TableInv, ProcInv
  <2>2. ASSUME NEW r \in Pids, NEW s \in Pids PROVE PairInv(r, s)'
    <3>1. PairInv(r, s) /\ PairInv(p, r) /\ PairInv(p, s) /\ PairInv(r, p) /\ PairInv(s, p)
      BY DEF TableInv
    <3>2. CASE g = p
      BY <1>3, <1>4, <1>5, <3>1, <3>2, SMT DEF PairInv
    <3>3. CASE g # p
      <4>1. PICK k \in Pids : Present(k) /\ table[k].session = Leader /\ g = table[k].group
        BY <3>3
      <4>2. PairInv(r, k) /\ PairInv(s, k)
        BY DEF TableInv
      <4> QED
        BY <1>3, <1>4, <1>5, <3>1, <4>1, <4>2, SMT DEF PairInv
    <3> QED
      BY <3>2, <3>3
  <2>3. (session /\ Present(Leader) /\ table[Leader].inst # Recorded =>
           \A s \in Pids : ~(Present(s) /\ table[s].kin /\ table[s].session = Leader))'
    BY <1>5, <1>6 DEF TableInv
  <2> QED
    BY <2>1, <2>2, <2>3 DEF TableInv
<1>8. Moves
  <2>1. ~Empty
    BY <1>4, <1>6 DEF Empty, Setpgid, InSession
  <2> QED
    BY <1>5, <1>6, <2>1 DEF Moves
<1> QED
  BY <1>2, <1>5, <1>7, <1>8

\* A member other than the leader leaves for a session of its own.
LEMMA SetsidMoves ==
    ASSUME Shape, TableInv, UNCHANGED course, NEW p \in Pids, Setsid(p)
    PROVE  Changed(p) /\ TableInv' /\ Moves /\ (Original(Leader) => Original(Leader)')
<1> USE LeaderInPids, CourseFacts
<1>1. Changed(p)
  BY SMT DEF Setsid, Shape, Changed
<1>2. /\ table'[p].inst = table[p].inst /\ table'[p].start = table[p].start
      /\ table'[p].group = p /\ table'[p].session = p
      /\ table'[p].state = table[p].state /\ table'[p].kin = table[p].kin
  BY SMT DEF Setsid, Shape
<1>3. session /\ table[p].session = Leader /\ table[p].kin /\ Present(p) /\ Live(p)
  BY DEF Setsid, InSession, Present, Live
<1>4. \A q \in Pids : Present(q) => table[q].group # p
  BY DEF Setsid
<1>5. p # Leader
  BY <1>3, <1>4 DEF TableInv, ProcInv
<1>6. \A r \in Pids : /\ Present(r)' <=> Present(r)
                      /\ Live(r)' <=> Live(r)
                      /\ Original(r)' <=> Original(r)
                      /\ table'[r].kin = table[r].kin
                      /\ table'[r].inst = table[r].inst
                      /\ table'[r].start = table[r].start
                      /\ r # p => table'[r].session = table[r].session /\ table'[r].group = table[r].group
  BY <1>1, <1>2, SMT DEF Changed, Present, Live, Original
<1>7. session' = session /\ Races' = Races /\ May("setsid")
  BY DEF session, Races, Setsid
<1>8. TableInv'
  <2>1. ASSUME NEW r \in Pids PROVE ProcInv(r)'
    BY <1>2, <1>5, <1>6, <1>7, SMT DEF TableInv, ProcInv
  <2>2. ASSUME NEW r \in Pids, NEW s \in Pids PROVE PairInv(r, s)'
    <3>1. PairInv(r, s)
      BY DEF TableInv
    <3> QED
      BY <1>2, <1>4, <1>6, <3>1, SMT DEF PairInv
  <2>3. (session /\ Present(Leader) /\ table[Leader].inst # Recorded =>
           \A s \in Pids : ~(Present(s) /\ table[s].kin /\ table[s].session = Leader))'
    BY <1>2, <1>5, <1>6, <1>7, SMT DEF TableInv
  <2> QED
    BY <2>1, <2>2, <2>3 DEF TableInv
<1>9. Moves
  <2>1. ~Empty
    BY <1>3 DEF Empty
  <2>2. \A r \in Pids : Own(r)' => r # p
    BY <1>2, <1>5 DEF Own
  <2> QED
    BY <1>6, <1>7, <2>1, <2>2 DEF Moves, Own
<1> QED
  BY <1>1, <1>6, <1>8, <1>9

\* A stranger takes a number that nobody bears.
LEMMA StrangerMoves ==
    ASSUME Shape, TableInv, UNCHANGED course, NEW p \in Pids, Stranger(p)
    PROVE  Changed(p) /\ TableInv' /\ Moves /\ (Original(Leader) => Original(Leader)')
<1> USE LeaderInPids, CourseFacts
<1>1. PICK s \in {0, p}, t \in {starts'} \cup (IF "tick" \in Races /\ p = Leader THEN {Recorded} ELSE {}) :
         table' = [table EXCEPT ![p] = [inst |-> starts', start |-> t, group |-> p,
                                        session |-> s, state |-> "running", kin |-> FALSE]]
  BY DEF Stranger
<1>2. Changed(p)
  BY <1>1, SMT DEF Stranger, Shape, Changed
<1>3. /\ table'[p].inst = starts + 1 /\ starts + 1 # Recorded
      /\ table'[p].start = t /\ table'[p].group = p /\ table'[p].session = s
      /\ table'[p].state = "running" /\ ~table'[p].kin
  BY <1>1, SMT DEF Stranger, Shape, Recorded
<1>4. "tick" \notin Races => t = starts + 1
  BY DEF Stranger
<1>5. s = Leader => p = Leader
  BY ReapAssumption, SMT
<1>6. \A q \in Pids : Present(q) => q # p /\ table[q].group # p /\ table[q].session # p
  BY DEF Stranger, Reusable
<1>7. Present(p)' /\ ~Original(p)' /\ ~Own(p)' /\ \A r \in Pids : r # p =>
         /\ table'[r] = table[r] /\ (Present(r)' <=> Present(r)) /\ (Live(r)' <=> Live(r))
         /\ (Original(r)' <=> Original(r)) /\ (Own(r)' <=> Own(r))
  BY <1>2, <1>3, SMT DEF Changed, Present, Live, Original, Own
<1>8. session' = session /\ Races' = Races /\ May("reuse")
  BY DEF session, Races, Stranger
<1>9. TableInv'
  <2>1. ASSUME NEW r \in Pids PROVE ProcInv(r)'
    <3>1. ProcInv(r)
      BY DEF TableInv
    <3>2. CASE r = p
      BY <1>3, <1>4, <1>5, <1>8, <3>2 DEF ProcInv
    <3>3. CASE r # p
      BY <1>7, <1>8, <3>1, <3>3 DEF ProcInv
    <3> QED
      BY <3>2, <3>3
  <2>2. ASSUME NEW r \in Pids, NEW k \in Pids PROVE PairInv(r, k)'
    <3>1. PairInv(r, k)
      BY DEF TableInv
    <3> QED
      BY <1>3, <1>6, <1>7, <3>1, SMT DEF PairInv
  <2>3. (session /\ Present(Leader) /\ table[Leader].inst # Recorded =>
           \A k \in Pids : ~(Present(k) /\ table[k].kin /\ table[k].session = Leader))'
    BY <1>3, <1>6, <1>7, <1>8, SMT DEF TableInv
  <2> QED
    BY <2>1, <2>2, <2>3 DEF TableInv
<1>10. Moves
  <2>1. Empty => Empty'
    BY <1>3, <1>7, <1>8 DEF Empty
  <2> QED
    BY <1>7, <1>8, <2>1 DEF Moves
<1> QED
  BY <1>2, <1>6, <1>7, <1>9, <1>10 DEF Original

\* A process dies, or a dead one is reaped.
LEMMA DeathMoves ==
    ASSUME Shape, TableInv, UNCHANGED <<course, starts>>, NEW p \in Pids,
           \/ Live(p) /\ table' = [table EXCEPT ![p].state = "zombie"]
           \/ table[p].state = "zombie" /\ table' = [table EXCEPT ![p] = NoProc]
    PROVE  Changed(p) /\ TableInv' /\ Moves
<1> USE LeaderInPids, CourseFacts
<1>1. Changed(p)
  BY SMT DEF Shape, Changed, NoProc
<1>2. Present(p)' => /\ table'[p].inst = table[p].inst /\ table'[p].start = table[p].start
                     /\ table'[p].group = table[p].group /\ table'[p].session = table[p].session
                     /\ table'[p].kin = table[p].kin
  BY SMT DEF Shape, NoProc, Present
<1>3. ~Live(p)' /\ Present(p)
  BY SMT DEF Shape, NoProc, Live, Present
<1>4. \A r \in Pids : /\ Present(r)' => Present(r)
                      /\ Live(r)' => Live(r)
                      /\ Original(r)' => Original(r)
                      /\ r # p => table'[r] = table[r]
  BY <1>1, <1>2, <1>3, SMT DEF Changed, Present, Live, Original
<1>5. \A r \in Pids : Present(r)' =>
         /\ table'[r].inst = table[r].inst /\ table'[r].start = table[r].start
         /\ table'[r].group = table[r].group /\ table'[r].session = table[r].session
         /\ table'[r].kin = table[r].kin
  BY <1>2, <1>4
<1>6. session' = session /\ Races' = Races
  BY DEF session, Races
<1>7. TableInv'
  <2>1. ASSUME NEW r \in Pids PROVE ProcInv(r)'
    <3>1. ProcInv(r)
      BY DEF TableInv
    <3> QED
      BY <1>4, <1>5, <1>6, <3>1, SMT DEF ProcInv
  <2>2. ASSUME NEW r \in Pids, NEW k \in Pids PROVE PairInv(r, k)'
    <3>1. PairInv(r, k)
      BY DEF TableInv
    <3> QED
      BY <1>4, <1>5, <3>1, SMT DEF PairInv
  <2>3. (session /\ Present(Leader) /\ table[Leader].inst # Recorded =>
           \A k \in Pids : ~(Present(k) /\ table[k].kin /\ table[k].session = Leader))'
    BY <1>4, <1>5, <1>6, SMT DEF TableInv
  <2> QED
    BY <2>1, <2>2, <2>3 DEF TableInv
<1>8. Moves
  <2>1. \A r \in Pids : Live(r)' => Present(r)'
    BY DEF Live, Present
  <2>2. Empty => Empty'
    BY <1>4, <1>5, <1>6, <2>1, SMT DEF Empty
  <2>3. \A r \in Pids : Own(r)' =>
           Own(r) /\ table'[r].start = table[r].start /\ table'[r].group = table[r].group
    BY <1>4, <1>5, <2>1, SMT DEF Own
  <2>4. Present(Leader)' /\ ~Original(Leader)' => Present(Leader) /\ ~Original(Leader)
    BY <1>4, <1>5, SMT DEF Original
  <2> QED
    BY <1>4, <1>5, <2>2, <2>3, <2>4 DEF Moves
<1> QED
  BY <1>1, <1>7, <1>8

\* Every step of the processes leaves the table as it can be, and the ladder
\* what it relies on; nobody but the driver reaps its child.
LEMMA WorldMoves ==
    ASSUME Shape, TableInv, World
    PROVE  /\ Shape' /\ TableInv' /\ Moves
           /\ caller = "drive" /\ Original(Leader) => Original(Leader)'
<1>1. PICK p \in Pids : (\E q \in Pids : Fork(p, q)) \/ Setpgid(p) \/ Setsid(p) \/ Stranger(p)
                            \/ Exit(p) \/ Buried(p)
  BY DEF World
<1>2. UNCHANGED course
  BY DEF World
<1>3. CASE Exit(p)
  <2>1. UNCHANGED starts /\ Live(p) /\ table' = [table EXCEPT ![p].state = "zombie"]
    BY <1>3 DEF Exit
  <2>2. Changed(p) /\ TableInv' /\ Moves
    BY <1>2, <2>1, DeathMoves
  <2>3. Original(Leader) => Original(Leader)'
    BY <2>1, LeaderInPids, SMT DEF Original, Present, Shape
  <2> QED
    BY <1>2, <2>2, <2>3, SMT DEF World, Shape, Changed, Recorded
<1>4. CASE Buried(p)
  <2>1. UNCHANGED starts /\ table[p].state = "zombie" /\ table' = [table EXCEPT ![p] = NoProc]
    BY <1>4 DEF Buried
  <2>2. Changed(p) /\ TableInv' /\ Moves
    BY <1>2, <2>1, DeathMoves
  <2>3. caller = "drive" /\ Original(Leader) => Leader # p
    BY <1>4 DEF Buried, Original
  <2>4. caller = "drive" /\ Original(Leader) => Original(Leader)'
    BY <2>2, <2>3, LeaderInPids, SMT DEF Original, Present, Changed
  <2> QED
    BY <1>2, <2>2, <2>4, SMT DEF World, Shape, Changed, Recorded
<1>5. CASE (\E q \in Pids : Fork(p, q)) \/ Setpgid(p) \/ Setsid(p) \/ Stranger(p)
  <2>1. PICK r \in Pids : Changed(r) /\ TableInv' /\ Moves /\ (Original(Leader) => Original(Leader)')
    BY <1>2, <1>5, ForkMoves, SetpgidMoves, SetsidMoves, StrangerMoves
  <2> QED
    BY <1>2, <2>1, SMT DEF World, Shape, Changed, Recorded
<1> QED
  BY <1>1, <1>3, <1>4, <1>5

\* What the ladder holds stays true of a table that moved: each part asks
\* only for what cannot happen at the steps it speaks of.
LEMMA UnseenKept ==
    ASSUME Inv, Moves, ~At("done"), UNCHANGED <<course, ladder, settled, stray>>
    PROVE  PathInv' /\ HandleInv' /\ ScanInv' /\ GroupInv' /\ ResultInv' /\ StrikesOwn'
<1> USE LeaderInPids
<1>1. /\ session' = session /\ Races' = Races /\ Pidfd' = Pidfd /\ caller' = caller
      /\ (Fixed' <=> Fixed) /\ (Rooted' <=> Rooted)
  BY DEF session, Races, Pidfd, caller, Fixed, Rooted
<1>2. ladder.at # "begin" /\ "reuse" \notin Races => ~May("reuse")
  BY DEF May, At
<1>3. ladder.at \in {"stat", "reprobe", "signal"} /\ session /\ Fixed =>
         ~May("fork") /\ ~May("setpgid")
  BY SMT DEF May, At, Between, Fixed
<1>4. ladder.at \in {"reprobe", "signal"} /\ Rooted =>
         ~May("setpgid") /\ ~May("setsid") /\ ~May("reuse")
  BY SMT DEF May, At, Between, Rooted
<1>5. PathInv'
  BY <1>1 DEF Inv, PathInv
<1>6. HandleInv'
  <2>1. ladder.at \in {"term", "grace", "kill"} => ladder.at # "begin"
    OBVIOUS
  <2> QED
    BY <1>1, <1>2, <2>1, SMT DEF Inv, HandleInv, Moves
<1>7. ScanInv'
  <2>1. ASSUME session, Fixed, NEW p \in Pids, Own(p)'
        PROVE  /\ ladder.at = "stat" =>
                      p \in ladder.todo \/ <<p, table'[p].start>> \in ladder.found
               /\ ladder.at = "reprobe" =>
                      <<p, table'[p].start>> \in ladder.todo \/ table'[p].group \in ladder.found
               /\ ladder.at = "signal" => table'[p].group \in ladder.groups \/ ~ladder.gone
    <3>1. ladder.at \in {"stat", "reprobe", "signal"} =>
             Own(p) /\ table'[p].start = table[p].start /\ table'[p].group = table[p].group
      BY <1>3, <2>1 DEF Moves
    <3> QED
      BY <2>1, <3>1, SMT DEF Inv, ScanInv
  <2>2. ~session /\ ladder.at = "reprobe" /\ ~ladder.seen => ~(Live(Leader)' /\ Original(Leader)')
    BY DEF Moves, Inv, ScanInv
  <2> QED
    BY <1>1, <2>1, <2>2 DEF Inv, ScanInv
<1>8. GroupInv'
  <2>1. ASSUME NEW G, Rooted, ladder.at \in {"reprobe", "signal"}, Within(G)
        PROVE  Within(G)'
    <3> SUFFICES ASSUME NEW p \in Pids, Present(p)', table'[p].group \in G
                 PROVE  table'[p].kin /\ table'[p].session = Leader
      BY DEF Within
    <3>1. PICK q \in Pids : /\ Present(q) /\ table'[p].group = table[q].group
                            /\ table'[p].session = table[q].session /\ table'[p].kin = table[q].kin
      BY <1>4, <2>1 DEF Moves
    <3> QED
      BY <2>1, <3>1 DEF Within
  <2>2. ladder.at \in Scanning => ladder.at # "begin"
    BY DEF Scanning
  <2>3. Rooted => "reuse" \notin Races
    BY SMT DEF Rooted
  <2> QED
    BY <1>1, <1>2, <2>1, <2>2, <2>3, SMT DEF Inv, GroupInv, Moves
<1>9. ResultInv' /\ StrikesOwn'
  BY <1>1 DEF Inv, ResultInv, StrikesOwn, Moves, settled
<1> QED
  BY <1>5, <1>6, <1>7, <1>8, <1>9

\* The processes' steps keep the invariant.
LEMMA WorldInv ==
    ASSUME Inv, World
    PROVE  Inv'
<1> USE LeaderInPids
<1>1. Shape /\ TableInv /\ ~At("done") /\ UNCHANGED <<course, ladder, late, waiter, settled, stray>>
  BY DEF Inv, World
<1>2. Shape' /\ TableInv' /\ Moves /\ (caller = "drive" /\ Original(Leader) => Original(Leader)')
  BY <1>1, WorldMoves
<1>3. PathInv' /\ HandleInv' /\ ScanInv' /\ GroupInv' /\ ResultInv' /\ StrikesOwn'
  BY <1>1, <1>2, UnseenKept
<1>4. caller' = caller /\ Races' = Races /\ Pidfd' = Pidfd
  BY <1>1 DEF caller, Races, Pidfd
<1>5. caller = "drive" /\ "reuse" \notin Races => ~May("reuse")
  BY DEF May
<1>6. DriveInv'
  BY <1>1, <1>2, <1>4, <1>5, SMT DEF Inv, DriveInv, Moves
<1> QED
  BY <1>2, <1>3, <1>6 DEF Inv

\* A step of the ladder: the table keeps all but the difference between a
\* process that runs and one that SIGKILL has reached.
Steady ==
    /\ DOMAIN table' = Pids /\ starts' = starts /\ course' = course
    /\ \A p \in Pids :
          /\ DOMAIN table'[p] = {"inst", "start", "group", "session", "state", "kin"}
          /\ table'[p].state = table[p].state \/ (table[p].state = "running" /\ table'[p].state = "dying")
          /\ table'[p].inst = table[p].inst /\ table'[p].start = table[p].start
          /\ table'[p].group = table[p].group /\ table'[p].session = table[p].session
          /\ table'[p].kin = table[p].kin

\* Under such a step nothing that the invariant says of the table changes.
LEMMA SteadyTable ==
    ASSUME Shape, TableInv, Steady
    PROVE  /\ TableInv'
           /\ session' = session /\ Races' = Races /\ Pidfd' = Pidfd /\ caller' = caller
           /\ (Fixed' <=> Fixed) /\ (Rooted' <=> Rooted) /\ (Empty' <=> Empty)
           /\ \A p \in Pids : /\ (Present(p)' <=> Present(p)) /\ (Live(p)' <=> Live(p))
                              /\ (Original(p)' <=> Original(p)) /\ (Own(p)' <=> Own(p))
           /\ starts' = starts /\ course' \in Courses /\ DOMAIN table' = Pids
           /\ \A p \in Pids :
                 /\ DOMAIN table'[p] = {"inst", "start", "group", "session", "state", "kin"}
                 /\ table'[p].state \in {"free", "running", "dying", "zombie"}
                 /\ table'[p].inst = table[p].inst /\ table'[p].start = table[p].start
                 /\ table'[p].group = table[p].group /\ table'[p].session = table[p].session
                 /\ table'[p].kin = table[p].kin
<1> USE LeaderInPids
<1>1. /\ session' = session /\ Races' = Races /\ Pidfd' = Pidfd /\ caller' = caller
      /\ (Fixed' <=> Fixed) /\ (Rooted' <=> Rooted)
  BY DEF Steady, session, Races, Pidfd, caller, Fixed, Rooted
<1>2. \A p \in Pids : (Present(p)' <=> Present(p)) /\ (Live(p)' <=> Live(p))
  BY SMT DEF Steady, Present, Live
<1>3. \A p \in Pids : (Original(p)' <=> Original(p)) /\ (Own(p)' <=> Own(p))
  BY <1>2 DEF Steady, Original, Own
<1>4. Empty' <=> Empty
  BY <1>1, <1>2, SMT DEF Steady, Empty
<1>5. TableInv'
  <2>1. ASSUME NEW p \in Pids PROVE ProcInv(p)'
    <3>1. ProcInv(p)
      BY DEF TableInv
    <3> QED
      BY <1>1, <1>2, <3>1, SMT DEF ProcInv, Steady
  <2>2. ASSUME NEW p \in Pids, NEW q \in Pids PROVE PairInv(p, q)'
    <3>1. PairInv(p, q)
      BY DEF TableInv
    <3> QED
      BY <1>2, <3>1, SMT DEF PairInv, Steady
  <2>3. (session /\ Present(Leader) /\ table[Leader].inst # Recorded =>
           \A q \in Pids : ~(Present(q) /\ table[q].kin /\ table[q].session = Leader))'
    BY <1>1, <1>2, SMT DEF TableInv, Steady
  <2> QED
    BY <2>1, <2>2, <2>3 DEF TableInv
<1>6. \A p \in Pids : table'[p].state \in {"free", "running", "dying", "zombie"}
  BY SMT DEF Shape, Steady
<1> QED
  BY <1>1, <1>2, <1>3, <1>4, <1>5, <1>6 DEF Steady, Shape

\* The driver's wait goroutine keeps it: what it reports as dead is.
LEMMA WaitInv ==
    ASSUME Inv, Wait
    PROVE  Inv'
<1> USE LeaderInPids
<1>1. /\ Shape /\ TableInv /\ DriveInv /\ ~At("done") /\ caller = "drive"
      /\ UNCHANGED <<starts, course, ladder, settled, stray>>
  BY DEF Inv, Wait
<1>2. caller' = caller /\ Races' = Races /\ Pidfd' = Pidfd
  BY <1>1 DEF caller, Races, Pidfd
<1>3. CASE table' = table
  <2>1. Shape' /\ TableInv' /\ Moves
    <3>1. Shape' /\ TableInv'
      BY <1>1, <1>3, SteadyTable DEF Steady, Shape
    <3>2. Moves
      BY <1>1, <1>3 DEF Moves, Original, Own, Present, Live, Empty, session
    <3> QED
      BY <3>1, <3>2
  <2>2. PathInv' /\ HandleInv' /\ ScanInv' /\ GroupInv' /\ ResultInv' /\ StrikesOwn'
    BY <1>1, <2>1, UnseenKept
  <2>3. /\ waiter' = "told" /\ (Original(Leader)' <=> Original(Leader))
        /\ (Live(Leader)' <=> Live(Leader)) /\ (Present(Leader)' <=> Present(Leader))
        /\ waiter = "reaped" \/ (Pidfd /\ waiter = "waiting" /\ ~Live(Leader))
    <3>1. /\ (Original(Leader)' <=> Original(Leader))
          /\ (Live(Leader)' <=> Live(Leader)) /\ (Present(Leader)' <=> Present(Leader))
      BY <1>3 DEF Original, Present, Live
    <3>2. CASE waiter = "reaped"
      BY <3>1, <3>2 DEF Wait
    <3>3. CASE waiter # "reaped"
      <4>1. waiter = "waiting" /\ table[Leader].state = "zombie" /\ ~Live(Leader)
        BY <3>3, SMT DEF Wait, Live
      <4>2. Pidfd /\ waiter' = "told"
        <5>1. ~Pidfd => table'[Leader].state = "free"
          BY <1>1, <3>3, SMT DEF Wait, NoProc, Shape
        <5> QED
          BY <1>3, <3>3, <4>1, <5>1 DEF Wait
      <4> QED
        BY <3>1, <4>1, <4>2
    <3> QED
      BY <3>2, <3>3
  <2>4. DriveInv'
    BY <1>1, <1>2, <2>3, SMT DEF DriveInv
  <2> QED
    BY <2>1, <2>2, <2>4 DEF Inv
<1>4. CASE table' # table
  <2>1. /\ ~Pidfd /\ waiter = "waiting" /\ waiter' = "reaped" /\ table[Leader].state = "zombie"
        /\ table' = [table EXCEPT ![Leader] = NoProc]
    BY <1>4 DEF Wait
  <2>2. Changed(Leader) /\ TableInv' /\ Moves
    BY <1>1, <2>1, DeathMoves
  <2>3. Shape'
    BY <1>1, <2>2, SMT DEF Shape, Changed
  <2>4. PathInv' /\ HandleInv' /\ ScanInv' /\ GroupInv' /\ ResultInv' /\ StrikesOwn'
    BY <1>1, <2>2, UnseenKept
  <2>5. ~Present(Leader)' /\ ~Live(Leader)'
    BY <1>1, <2>1, SMT DEF Shape, Present, Live, NoProc
  <2>6. DriveInv'
    BY <1>1, <1>2, <2>1, <2>5 DEF DriveInv
  <2> QED
    BY <2>2, <2>3, <2>4, <2>6 DEF Inv
<1> QED
  BY <1>3, <1>4
-----------------------------------------------------------------------------
\* The ladder's steps leave the table steady, with or without a signal.
LEMMA QuietSteady ==
    ASSUME Shape, UNCHANGED <<world, course>>
    PROVE  Steady
BY DEF Shape, Steady, world

\* A delivered signal too.
LEMMA DeliverSteady ==
    ASSUME Shape, NEW sig, NEW reached, Deliver(sig, reached), UNCHANGED course
    PROVE  Steady
<1>1. DOMAIN table' = Pids /\ starts' = starts
  BY DEF Deliver
<1>2. ASSUME NEW p \in Pids
      PROVE  \/ table'[p] = table[p]
             \/ table[p].state = "running" /\ table'[p] = [table[p] EXCEPT !.state = "dying"]
  BY <1>2 DEF Deliver
<1>3. ASSUME NEW p \in Pids
      PROVE  /\ DOMAIN table'[p] = {"inst", "start", "group", "session", "state", "kin"}
             /\ table'[p].state = table[p].state \/ (table[p].state = "running" /\ table'[p].state = "dying")
             /\ table'[p].inst = table[p].inst /\ table'[p].start = table[p].start
             /\ table'[p].group = table[p].group /\ table'[p].session = table[p].session
             /\ table'[p].kin = table[p].kin
  <2>1. DOMAIN table[p] = {"inst", "start", "group", "session", "state", "kin"}
    BY DEF Shape
  <2>2. CASE table'[p] = table[p]
    BY <2>1, <2>2
  <2>3. CASE table[p].state = "running" /\ table'[p] = [table[p] EXCEPT !.state = "dying"]
    BY <2>1, <2>3, SMT
  <2> QED
    BY <1>2, <2>2, <2>3
<1> QED
  BY <1>1, <1>3 DEF Steady

\* A return keeps the invariant if what it answers is so: the scope is empty
\* where the answer is a proof.
LEMMA Returned ==
    ASSUME Inv, Steady, UNCHANGED waiter, StrikesOwn', NEW reap, Return(reap),
           reap \in Proven /\ Fixed => Empty
    PROVE  Inv'
<1> USE LeaderInPids
<1>1. Shape /\ TableInv
  BY DEF Inv
<1>2. /\ ladder'.at \in {"retire", "done"} /\ (ladder'.at = "retire" => reap \in Proven)
      /\ \A f \in {"phase", "todo", "found", "groups", "gone", "held", "seen", "looks", "reap"} :
            ladder'[f] = ladder[f]
      /\ DOMAIN ladder' = DOMAIN ladder
  BY <1>1, SMT DEF Return, Shape
<1>3. Shape'
  <2>1. ladder'.reap = ladder.reap /\ ladder'.at \in Steps
    BY <1>2, SMT DEF Steps
  <2> QED
    BY <1>1, <1>2, <2>1, SteadyTable DEF Shape
<1>4. PathInv'
  BY <1>1, <1>2, SteadyTable, SMT DEF Inv, PathInv, Driving, Single, Scanning
<1>5. DriveInv'
  BY <1>1, SteadyTable DEF Inv, DriveInv
<1>6. HandleInv' /\ ScanInv' /\ GroupInv'
  BY <1>2, SMT DEF HandleInv, ScanInv, GroupInv, Single, Scanning
<1>7. ResultInv'
  <2>1. outcome' \in Proven => reap \in Proven
    BY DEF Return, Proven
  <2>2. record' = record
    BY DEF Return
  <2> QED
    BY <1>1, <1>2, <2>1, <2>2, SteadyTable DEF Inv, ResultInv
<1> QED
  BY <1>1, <1>3, <1>4, <1>5, <1>6, <1>7, SteadyTable DEF Inv

\* A step on the way keeps it if it keeps what the ladder's locals tell.
LEMMA Moved ==
    ASSUME Inv, Steady, UNCHANGED <<waiter, settled>>, StrikesOwn',
           DOMAIN ladder' = DOMAIN ladder, ladder'.at \in Steps, ladder'.at # "retire",
           ladder'.reap \in Proven,
           PathInv', HandleInv', ScanInv', GroupInv'
    PROVE  Inv'
<1>1. Shape /\ TableInv
  BY DEF Inv
<1>2. Shape' /\ TableInv'
  BY <1>1, SteadyTable DEF Shape
<1>3. DriveInv'
  BY <1>1, SteadyTable, LeaderInPids DEF Inv, DriveInv
<1>4. ResultInv'
  BY <1>1, SteadyTable DEF Inv, ResultInv, settled
<1> QED
  BY <1>2, <1>3, <1>4 DEF Inv

\* A step without a signal.
LEMMA QuietFacts ==
    ASSUME Inv, Quietly
    PROVE  Steady /\ UNCHANGED waiter /\ StrikesOwn'
<1>1. Steady
  BY QuietSteady DEF Inv, Quietly
<1> QED
  BY <1>1 DEF Inv, Quietly, StrikesOwn, session, Pidfd, Races

\* A step that only goes on.
LEMMA OnwardFacts ==
    ASSUME Shape, NEW step, Onward(step)
    PROVE  /\ DOMAIN ladder' = DOMAIN ladder /\ ladder'.at = step
           /\ ladder'.phase = ladder.phase /\ ladder'.todo = ladder.todo
           /\ ladder'.found = ladder.found /\ ladder'.groups = ladder.groups
           /\ ladder'.gone = ladder.gone /\ ladder'.held = ladder.held
           /\ ladder'.seen = ladder.seen /\ ladder'.reap = ladder.reap
           /\ UNCHANGED settled
BY SMT DEF Shape, Onward, Goto

\* What a probe of the recorded PID tells of the recorded instance.
LEMMA ProbeFacts ==
    ASSUME Shape, TableInv
    PROVE  /\ ~Matches(Leader, Recorded) => ~Original(Leader)
           /\ "tick" \notin Races /\ Matches(Leader, Recorded) => Original(Leader)
           /\ table[Leader].state = "zombie" => ~Live(Leader)
           /\ ~Present(Leader) => ~Live(Leader) /\ ~Original(Leader)
<1>1. ProcInv(Leader)
  BY LeaderInPids DEF TableInv
<1> QED
  BY <1>1, SMT DEF ProcInv, Matches, Original, Present, Live

\* Without a session the scope is the recorded instance, with one it is that
\* session's processes.
LEMMA EmptyFacts ==
    ASSUME Shape, TableInv
    PROVE  /\ ~session /\ ~(Live(Leader) /\ Original(Leader)) => Empty
           /\ session /\ (\A p \in Pids : ~Own(p)) => Empty
           /\ session /\ Present(Leader) /\ ~Original(Leader) => Empty
<1>1. \A p \in Pids : Live(p) => Present(p)
  BY SMT DEF Live, Present
<1>2. \A p \in Pids : Live(p) /\ table[p].inst = Recorded =>
         p = Leader /\ Original(p) /\ (session => table[p].session = Leader)
  BY <1>1 DEF TableInv, ProcInv, Original
<1>3. session /\ Present(Leader) /\ ~Original(Leader) => \A p \in Pids : ~Own(p)
  BY <1>1 DEF TableInv, Original, Own
<1>4. session /\ (\A p \in Pids : ~Own(p)) => Empty
  BY <1>2 DEF Empty, Own
<1>5. ~session /\ ~(Live(Leader) /\ Original(Leader)) => Empty
  BY <1>2 DEF Empty
<1> QED
  BY <1>3, <1>4, <1>5

\* The first probe, for a session and for a single process.
LEMMA BeginInv ==
    ASSUME Inv, Begin
    PROVE  Inv'
<1> USE LeaderInPids
<1>1. Shape /\ TableInv /\ ladder.at = "begin" /\ Quietly
  BY DEF Inv, Begin, At
<1>2. Steady /\ UNCHANGED waiter /\ StrikesOwn'
  BY <1>1, QuietFacts
<1>3. CASE ~session
  <2>1. /\ DOMAIN ladder' = DOMAIN ladder /\ ladder'.at = "verify"
        /\ ladder'.held = (IF Pidfd THEN table[Leader].inst ELSE 0)
        /\ ladder'.phase = ladder.phase /\ ladder'.reap = ladder.reap /\ UNCHANGED settled
    <3>1. /\ ladder' = [ladder EXCEPT !.at = "verify", !.held = IF Pidfd THEN table[Leader].inst ELSE 0]
          /\ UNCHANGED settled
      BY <1>3 DEF Begin
    <3> QED
      BY <1>1, <3>1, SMT DEF Shape
  <2>2. PathInv'
    BY <1>1, <1>2, <1>3, <2>1, SteadyTable, SMT DEF Inv, PathInv, Driving, Single, Scanning
  <2>3. HandleInv'
    BY <1>1, <1>2, <2>1, SteadyTable, SMT DEF HandleInv, Original
  <2>4. ScanInv' /\ GroupInv'
    BY <1>1, <1>2, <1>3, <2>1, SteadyTable, SMT DEF ScanInv, GroupInv, Scanning
  <2>5. ladder'.at \in Steps /\ ladder'.at # "retire" /\ ladder'.reap \in Proven
    BY <1>1, <2>1, SMT DEF Steps, Shape
  <2> QED
    BY <1>2, <2>1, <2>2, <2>3, <2>4, <2>5, Moved
<1>4. CASE session /\ Present(Leader) /\ ~Matches(Leader, Recorded) /\ Return("reused")
  <2>1. Empty
    BY <1>1, <1>4, ProbeFacts, EmptyFacts
  <2> QED
    BY <1>2, <1>4, <2>1, Returned
<1>5. CASE session /\ (Present(Leader) => Matches(Leader, Recorded)) /\ Onward("enumerate")
  <2>1. /\ DOMAIN ladder' = DOMAIN ladder /\ ladder'.at = "enumerate" /\ UNCHANGED settled
        /\ ladder'.phase = ladder.phase /\ ladder'.groups = ladder.groups /\ ladder'.reap = ladder.reap
    BY <1>1, <1>5, OnwardFacts
  <2>2. PathInv'
    <3>1. session' /\ caller' = caller
      BY <1>1, <1>2, <1>5, SteadyTable
    <3> QED
      BY <2>1, <3>1, SMT DEF Inv, PathInv, Driving, Single, Scanning
  <2>3. HandleInv' /\ ScanInv'
    BY <1>1, <1>2, <1>5, <2>1, SteadyTable, SMTT(30) DEF HandleInv, ScanInv, Single
  <2>4. GroupInv'
    <3>1. Rooted => "tick" \notin Races
      BY SMT DEF Rooted
    <3>2. "tick" \notin Races /\ Present(Leader) => Original(Leader)
      BY <1>1, <1>5, ProbeFacts
    <3> QED
      BY <1>1, <1>2, <2>1, <3>1, <3>2, SteadyTable, SMT DEF GroupInv
  <2>5. ladder'.at \in Steps /\ ladder'.at # "retire" /\ ladder'.reap \in Proven
    BY <1>1, <2>1, SMT DEF Steps, Shape
  <2> QED
    BY <1>2, <2>1, <2>2, <2>3, <2>4, <2>5, Moved
<1> QED
  BY <1>3, <1>4, <1>5 DEF Begin

\* reapOrphan's probes and waits: it returns over a process that is not the
\* recorded instance, or is dead, and goes on over the recorded one.
LEMMA SingleMoved ==
    ASSUME Inv, Steady, UNCHANGED waiter, StrikesOwn', ~session,
           NEW step \in {"term", "grace", "kill", "await"}, Onward(step),
           ladder.at \in Single,
           step # "await" /\ "tick" \notin Races =>
               /\ Pidfd => ladder.held = Recorded
               /\ ~Pidfd /\ "reuse" \notin Races /\ Present(Leader) => Original(Leader)
    PROVE  Inv'
<1> USE LeaderInPids
<1>1. Shape /\ TableInv
  BY DEF Inv
<1>2. /\ DOMAIN ladder' = DOMAIN ladder /\ ladder'.at = step /\ UNCHANGED settled
      /\ ladder'.phase = ladder.phase /\ ladder'.held = ladder.held /\ ladder'.reap = ladder.reap
  BY <1>1, OnwardFacts
<1>3. ~session' /\ caller' = caller /\ Races' = Races /\ Pidfd' = Pidfd
  <2>1. session' = session /\ caller' = caller /\ Races' = Races /\ Pidfd' = Pidfd
    BY <1>1, SteadyTable
  <2> QED
    BY <2>1, SMT
<1>4. PathInv'
  BY <1>2, <1>3, SMT DEF Inv, PathInv, Driving, Single, Scanning
<1>5. HandleInv'
  <2>1. (Original(Leader)' <=> Original(Leader)) /\ (Present(Leader)' <=> Present(Leader))
    BY <1>1, SteadyTable
  <2> QED
    BY <1>2, <1>3, <2>1, SMT DEF Inv, HandleInv
<1>6. ScanInv' /\ GroupInv'
  BY <1>2, <1>3, SMT DEF ScanInv, GroupInv
<1>7. ladder'.at \in Steps /\ ladder'.at # "retire" /\ ladder'.reap \in Proven
  BY <1>1, <1>2, SMT DEF Steps, Shape
<1> QED
  BY <1>2, <1>4, <1>5, <1>6, <1>7, Moved

\* The probe that precedes a signal.
LEMMA VerifyInv ==
    ASSUME Inv, Verify
    PROVE  Inv'
<1>1. Shape /\ TableInv /\ ladder.at = "verify" /\ Quietly /\ ~session /\ ladder.at \in Single
  BY DEF Inv, Verify, At, PathInv, Single
<1>2. Steady /\ UNCHANGED waiter /\ StrikesOwn'
  BY <1>1, QuietFacts
<1>3. CASE ~(Matches(Leader, Recorded) /\ table[Leader].state # "zombie")
  <2>1. Return("absent") \/ Return("reused")
    BY <1>3, SMT DEF Verify, Matches
  <2>2. Empty
    BY <1>1, <1>3, ProbeFacts, EmptyFacts
  <2> QED
    BY <1>2, <2>1, <2>2, Returned
<1>4. CASE Matches(Leader, Recorded) /\ table[Leader].state # "zombie"
  <2>1. Onward("term")
    BY <1>4, SMT DEF Verify, Matches
  <2>2. "tick" \notin Races => Original(Leader) /\ (Pidfd => ladder.held = Recorded)
    BY <1>1, <1>4, ProbeFacts DEF Inv, HandleInv
  <2> QED
    BY <1>1, <1>2, <2>1, <2>2, SingleMoved
<1> QED
  BY <1>3, <1>4

\* The probe after the grace share.
LEMMA GraceInv ==
    ASSUME Inv, Grace
    PROVE  Inv'
<1>1. Shape /\ TableInv /\ ladder.at = "grace" /\ Quietly /\ ~session /\ ladder.at \in Single
  BY DEF Inv, Grace, At, PathInv, Single
<1>2. Steady /\ UNCHANGED waiter /\ StrikesOwn'
  BY <1>1, QuietFacts
<1>3. CASE Return("undetermined")
  BY <1>2, <1>3, Returned DEF Proven
<1>4. CASE ~Return("undetermined") /\ ~(Matches(Leader, Recorded) /\ table[Leader].state # "zombie")
  <2>1. Return("terminated") \/ Return("reused")
    BY <1>4, SMT DEF Grace, Matches
  <2>2. Empty
    BY <1>1, <1>4, ProbeFacts, EmptyFacts
  <2> QED
    BY <1>2, <2>1, <2>2, Returned
<1>5. CASE ~Return("undetermined") /\ Matches(Leader, Recorded) /\ table[Leader].state # "zombie"
  <2>1. Onward("kill")
    BY <1>5, SMT DEF Grace, Matches
  <2> QED
    BY <1>1, <1>2, <2>1, SingleMoved DEF Inv, HandleInv
<1> QED
  BY <1>3, <1>4, <1>5

\* The signals of reapOrphan reach the recorded instance only, and where they
\* reach nobody it is gone.
LEMMA TermKillInv ==
    ASSUME Inv, Term \/ Kill
    PROVE  Inv'
<1> USE LeaderInPids
<1>1. /\ Shape /\ TableInv /\ ladder.at \in {"term", "kill"} /\ ~session /\ ladder.at \in Single
      /\ UNCHANGED <<course, late, waiter>>
      /\ Deliver("TERM", Reached) \/ Deliver("KILL", Reached)
  BY DEF Inv, Term, Kill, At, PathInv, Single
<1>2. Steady /\ stray' = (stray \/ \E p \in Reached : ~InScope(p))
  <2>1. CASE Deliver("TERM", Reached)
    BY <1>1, <2>1, DeliverSteady DEF Deliver
  <2>2. CASE Deliver("KILL", Reached)
    BY <1>1, <2>2, DeliverSteady DEF Deliver
  <2> QED
    BY <1>1, <2>1, <2>2
<1>3. StrikesOwn'
  <2>1. "tick" \notin Races =>
           /\ Pidfd => ladder.held = Recorded
           /\ ~Pidfd /\ "reuse" \notin Races /\ Present(Leader) => Original(Leader)
    BY <1>1, SMT DEF Inv, HandleInv
  <2>2. "tick" \notin Races /\ ~(~Pidfd /\ "reuse" \in Races) => \A p \in Reached : InScope(p)
    BY <1>1, <2>1, SMT DEF Reached, InScope, Original
  <2>3. Races' = Races /\ Pidfd' = Pidfd
    BY <1>1 DEF Races, Pidfd
  <2> QED
    BY <1>1, <1>2, <2>2, <2>3 DEF Inv, StrikesOwn
<1>4. CASE Reached = {}
  <2>1. Return("absent") \/ Return("terminated")
    BY <1>4 DEF Term, Kill
  <2>2. ~Original(Leader)
    <3>1. ASSUME Original(Leader) PROVE Leader \in Reached
      <4>1. Pidfd => ladder.held = Recorded
        BY <1>1, <3>1 DEF Inv, HandleInv
      <4> QED
        BY <3>1, <4>1 DEF Reached, Original
    <3> QED
      BY <1>4, <3>1
  <2>3. Empty
    BY <1>1, <2>2, EmptyFacts
  <2> QED
    BY <1>1, <1>2, <1>3, <2>1, <2>3, Returned
<1>5. CASE Reached # {}
  <2>1. (Term /\ Onward("grace")) \/ (Kill /\ Onward("await"))
    BY <1>5 DEF Term, Kill
  <2>2. CASE Onward("grace")
    BY <1>1, <1>2, <1>3, <2>2, SingleMoved DEF Inv, HandleInv
  <2>3. CASE Onward("await")
    BY <1>1, <1>2, <1>3, <2>3, SingleMoved
  <2> QED
    BY <2>1, <2>2, <2>3
<1> QED
  BY <1>4, <1>5

\* The wait after SIGKILL ends over a process that is not the recorded one.
LEMMA AwaitInv ==
    ASSUME Inv, AwaitSettlement
    PROVE  Inv'
<1>1. Shape /\ TableInv /\ ladder.at = "await" /\ Quietly /\ ~session
  BY DEF Inv, AwaitSettlement, At, PathInv, Single
<1>2. Steady /\ UNCHANGED waiter /\ StrikesOwn'
  BY <1>1, QuietFacts
<1>3. CASE Return("undetermined")
  BY <1>2, <1>3, Returned DEF Proven
<1>4. CASE ~(Matches(Leader, Recorded) /\ Live(Leader)) /\ Return("terminated")
  <2>1. Empty
    BY <1>1, <1>4, ProbeFacts, EmptyFacts
  <2> QED
    BY <1>2, <1>4, <2>1, Returned
<1> QED
  BY <1>3, <1>4 DEF AwaitSettlement
-----------------------------------------------------------------------------
\* A step within a session's settlement keeps the invariant if what its locals
\* hold next covers the session, and its groups lie in it.
LEMMA ScanMoved ==
    ASSUME Inv, Steady, UNCHANGED <<waiter, settled>>, StrikesOwn', session,
           ladder.at \in Scanning, ladder'.at \in Scanning,
           DOMAIN ladder' = DOMAIN ladder, ladder'.reap = ladder.reap,
           ladder'.phase = "observe" <=> ladder.phase = "observe",
           ladder'.at = "signal" => ladder.phase # "observe",
           ladder'.at = "stat" =>
               ladder'.todo \subseteq Pids /\ \A m \in ladder'.found : m[1] \in Pids,
           ladder'.at = "reprobe" => \A m \in ladder'.todo : m[1] \in Pids,
           Fixed => \A p \in Pids : Own(p) =>
               /\ ladder'.at = "stat" =>
                     p \in ladder'.todo \/ <<p, table[p].start>> \in ladder'.found
               /\ ladder'.at = "reprobe" =>
                     <<p, table[p].start>> \in ladder'.todo \/ table[p].group \in ladder'.found
               /\ ladder'.at = "signal" => table[p].group \in ladder'.groups \/ ~ladder'.gone,
           Rooted /\ ladder'.at = "reprobe" /\ ladder.phase # "observe" => Within(ladder'.found),
           Rooted /\ ladder'.at = "signal" => Within(ladder'.groups)
    PROVE  Inv'
<1> USE LeaderInPids
<1>1. Shape /\ TableInv
  BY DEF Inv
<1>2. /\ session' = session /\ caller' = caller /\ Races' = Races /\ Pidfd' = Pidfd
      /\ (Fixed' <=> Fixed) /\ (Rooted' <=> Rooted)
      /\ \A p \in Pids : /\ (Present(p)' <=> Present(p)) /\ (Live(p)' <=> Live(p))
                         /\ (Original(p)' <=> Original(p)) /\ (Own(p)' <=> Own(p))
                         /\ table'[p].start = table[p].start /\ table'[p].group = table[p].group
                         /\ table'[p].session = table[p].session /\ table'[p].kin = table[p].kin
  BY <1>1, SteadyTable
<1>3. ladder'.at \notin Driving /\ ladder'.at \notin Single /\ ladder'.at # "begin"
  BY SMTT(30) DEF Driving, Single, Scanning
<1>4. PathInv'
  BY <1>2, <1>3, SMT DEF Inv, PathInv
<1>5. HandleInv'
  BY <1>3, SMT DEF HandleInv, Single
<1>6. ScanInv'
  BY <1>2, SMT DEF ScanInv
<1>7. ASSUME NEW G, Within(G) PROVE Within(G)'
  BY <1>2, <1>7 DEF Within
<1>8. GroupInv'
  <2>1. Rooted /\ Present(Leader) /\ ladder.phase # "observe" => Original(Leader)
    BY DEF Inv, GroupInv
  <2> QED
    BY <1>2, <1>7, <2>1 DEF GroupInv
<1>9. ladder'.at \in Steps /\ ladder'.at # "retire" /\ ladder'.reap \in Proven
  BY <1>1, SMT DEF Scanning, Steps, Shape
<1> QED
  BY <1>4, <1>5, <1>6, <1>8, <1>9, Moved

\* A listing starts: the PIDs of all processes there are.
LEMMA EnumerateInv ==
    ASSUME Inv, Enumerate
    PROVE  Inv'
<1>1. Shape /\ TableInv /\ ladder.at = "enumerate" /\ ladder.at \in Scanning /\ Quietly /\ session
  BY SMT DEF Inv, Enumerate, At, PathInv, Scanning
<1>2. Steady /\ UNCHANGED waiter /\ StrikesOwn'
  BY <1>1, QuietFacts
<1>3. CASE Return("undetermined")
  BY <1>2, <1>3, Returned DEF Proven
<1>4. CASE ~Return("undetermined")
  <2>1. /\ ladder' = [ladder EXCEPT !.at = "stat", !.found = {}, !.todo = {p \in Pids : Present(p)}]
        /\ UNCHANGED settled
    BY <1>4 DEF Enumerate
  <2>2. /\ DOMAIN ladder' = DOMAIN ladder /\ ladder'.at = "stat" /\ ladder'.found = {}
        /\ ladder'.todo = {p \in Pids : Present(p)}
        /\ ladder'.phase = ladder.phase /\ ladder'.reap = ladder.reap
    BY <1>1, <2>1, SMT DEF Shape
  <2>3. \A p \in Pids : Own(p) => p \in ladder'.todo
    BY <2>2, SMT DEF Own, Live, Present
  <2>4. ladder'.at \in Scanning
    BY <2>2 DEF Scanning
  <2> QED
    BY <1>1, <1>2, <2>1, <2>2, <2>3, <2>4, ScanMoved
<1> QED
  BY <1>3, <1>4

\* One process is read: a member is kept with its start stamp.
LEMMA StatInv ==
    ASSUME Inv, Stat
    PROVE  Inv'
<1>1. Shape /\ TableInv /\ ladder.at = "stat" /\ ladder.at \in Scanning /\ Quietly /\ session
  BY SMT DEF Inv, Stat, At, PathInv, Scanning
<1>2. Steady /\ UNCHANGED <<waiter, settled>> /\ StrikesOwn'
  BY <1>1, QuietFacts DEF Stat
<1>3. PICK p \in ladder.todo :
         ladder' = [ladder EXCEPT !.todo = @ \ {p},
                      !.found = IF Live(p) /\ table[p].session = Leader
                                THEN @ \cup {<<p, table[p].start>>} ELSE @]
  BY DEF Stat
<1>4. /\ DOMAIN ladder' = DOMAIN ladder /\ ladder'.at = "stat" /\ ladder'.todo = ladder.todo \ {p}
      /\ ladder'.found = (IF Live(p) /\ table[p].session = Leader
                          THEN ladder.found \cup {<<p, table[p].start>>} ELSE ladder.found)
      /\ ladder'.phase = ladder.phase /\ ladder'.reap = ladder.reap
  BY <1>1, <1>3, SMT DEF Shape
<1>5. ladder'.todo \subseteq Pids /\ \A m \in ladder'.found : m[1] \in Pids
  BY <1>1, <1>4, SMT DEF Inv, ScanInv
<1>6. Fixed => \A q \in Pids : Own(q) =>
         q \in ladder'.todo \/ <<q, table[q].start>> \in ladder'.found
  <2> SUFFICES ASSUME Fixed, NEW q \in Pids, Own(q)
               PROVE  q \in ladder'.todo \/ <<q, table[q].start>> \in ladder'.found
    OBVIOUS
  <2>1. q \in ladder.todo \/ <<q, table[q].start>> \in ladder.found
    BY <1>1 DEF Inv, ScanInv
  <2>2. CASE q = p
    BY <1>4, <2>2 DEF Own
  <2>3. CASE q # p
    BY <1>4, <2>1, <2>3
  <2> QED
    BY <2>2, <2>3
<1>7. ladder'.at \in Scanning
  BY <1>4 DEF Scanning
<1> QED
  BY <1>1, <1>2, <1>4, <1>5, <1>6, <1>7, ScanMoved

\* The listing is complete, and each member is to be read again.
LEMMA ListedInv ==
    ASSUME Inv, Listed
    PROVE  Inv'
<1>1. /\ Shape /\ TableInv /\ ladder.at = "stat" /\ ladder.todo = {} /\ ladder.at \in Scanning
      /\ Quietly /\ session
  BY SMT DEF Inv, Listed, At, PathInv, Scanning
<1>2. Steady /\ UNCHANGED <<waiter, settled>> /\ StrikesOwn'
  BY <1>1, QuietFacts DEF Listed
<1>3. /\ DOMAIN ladder' = DOMAIN ladder /\ ladder'.at = "reprobe" /\ ladder'.todo = ladder.found
      /\ ladder'.found = {} /\ ladder'.phase = ladder.phase /\ ladder'.reap = ladder.reap
  <2>1. ladder' = [ladder EXCEPT !.at = "reprobe", !.todo = ladder.found, !.found = {}]
    BY DEF Listed
  <2> QED
    BY <1>1, <2>1, SMT DEF Shape
<1>4. /\ \A m \in ladder.found : m[1] \in Pids
      /\ Fixed => \A p \in Pids : Own(p) => <<p, table[p].start>> \in ladder.found
  BY <1>1, SMT DEF Inv, ScanInv
<1>5. Within({})
  BY DEF Within
<1>6. ladder'.at \in Scanning
  BY <1>3 DEF Scanning
<1> QED
  BY <1>1, <1>2, <1>3, <1>4, <1>5, <1>6, ScanMoved

\* One member is read again, and its group kept if it is still one: all who
\* are in that group are in the session.
LEMMA ReprobeInv ==
    ASSUME Inv, Reprobe
    PROVE  Inv'
<1>1. Shape /\ TableInv /\ ladder.at = "reprobe" /\ ladder.at \in Scanning /\ Quietly /\ session
  <2>1. Shape /\ TableInv /\ PathInv /\ ladder.at = "reprobe" /\ ladder.todo # {} /\ Quietly
    BY DEF Inv, Reprobe, At
  <2> QED
    BY <2>1, SMT DEF PathInv, Scanning
<1>2. Steady /\ UNCHANGED waiter /\ StrikesOwn'
  BY <1>1, QuietFacts
<1>3. CASE Return("undetermined")
  BY <1>2, <1>3, Returned DEF Proven
<1>4. CASE ~Return("undetermined")
  <2>1. PICK m \in ladder.todo :
           /\ ladder' = [ladder EXCEPT !.todo = @ \ {m},
                           !.found = IF Member(m) THEN @ \cup {table[m[1]].group} ELSE @]
           /\ UNCHANGED settled
    BY <1>4 DEF Reprobe
  <2>2. /\ DOMAIN ladder' = DOMAIN ladder /\ ladder'.at = "reprobe" /\ ladder'.todo = ladder.todo \ {m}
        /\ ladder'.found = (IF Member(m) THEN ladder.found \cup {table[m[1]].group} ELSE ladder.found)
        /\ ladder'.phase = ladder.phase /\ ladder'.reap = ladder.reap
    BY <1>1, <2>1, SMT DEF Shape
  <2>3. \A k \in ladder.todo : k[1] \in Pids
    BY <1>1 DEF Inv, ScanInv
  <2>4. Fixed => \A q \in Pids : Own(q) =>
           <<q, table[q].start>> \in ladder'.todo \/ table[q].group \in ladder'.found
    <3> SUFFICES ASSUME Fixed, NEW q \in Pids, Own(q)
                 PROVE  <<q, table[q].start>> \in ladder'.todo \/ table[q].group \in ladder'.found
      OBVIOUS
    <3>1. <<q, table[q].start>> \in ladder.todo \/ table[q].group \in ladder.found
      BY <1>1 DEF Inv, ScanInv
    <3>2. CASE m = <<q, table[q].start>>
      <4>1. m[1] = q /\ m[2] = table[q].start
        BY <3>2
      <4>2. Member(m)
        BY <4>1, SMT DEF Member, Own, Matches, Live, Present
      <4> QED
        BY <2>2, <4>1, <4>2
    <3>3. CASE m # <<q, table[q].start>>
      BY <2>2, <3>1, <3>3
    <3> QED
      BY <3>2, <3>3
  <2>5. Rooted /\ ladder.phase # "observe" => Within(ladder'.found)
    <3> SUFFICES ASSUME Rooted, ladder.phase # "observe", NEW p \in Pids, Present(p),
                        table[p].group \in ladder'.found
                 PROVE  table[p].kin /\ table[p].session = Leader
      BY DEF Within
    <3>1. CASE table[p].group \in ladder.found
      BY <1>1, <3>1 DEF Inv, GroupInv, Within
    <3>2. CASE table[p].group \notin ladder.found
      <4>1. Member(m) /\ table[p].group = table[m[1]].group
        BY <2>2, <3>2
      <4>2. m[1] \in Pids /\ Present(m[1]) /\ table[m[1]].session = Leader
        BY <2>3, <4>1, SMT DEF Member, Matches
      <4>3. table[p].session = Leader
        BY <1>1, <4>1, <4>2 DEF TableInv, PairInv
      <4>4. Present(Leader) => Original(Leader)
        BY <1>1 DEF Inv, GroupInv
      <4> QED
        BY <1>1, <4>3, <4>4 DEF TableInv, ProcInv, Original
    <3> QED
      BY <3>1, <3>2
  <2>6. \A k \in ladder'.todo : k[1] \in Pids
    BY <2>2, <2>3
  <2>7. ladder'.at \in Scanning
    BY <2>2 DEF Scanning
  <2> QED
    BY <1>1, <1>2, <2>1, <2>2, <2>4, <2>5, <2>6, <2>7, ScanMoved
<1> QED
  BY <1>3, <1>4

\* The steps back to another listing.
LEMMA ScanAgain ==
    ASSUME Inv, Steady, UNCHANGED <<waiter, settled>>, StrikesOwn', session,
           ladder.at \in Scanning, ladder'.at \in {"enumerate", "poll", "pause"},
           DOMAIN ladder' = DOMAIN ladder, ladder'.reap = ladder.reap,
           ladder'.phase = "observe" <=> ladder.phase = "observe"
    PROVE  Inv'
<1>1. /\ ladder'.at \in Scanning
      /\ ladder'.at # "stat" /\ ladder'.at # "reprobe" /\ ladder'.at # "signal"
  BY SMT DEF Scanning
<1> QED
  BY <1>1, ScanMoved

\* The members are signalled, whose groups were found.
LEMMA SignalledInv ==
    ASSUME Inv, Quietly, UNCHANGED settled, session, ladder.at = "reprobe", ladder.todo = {},
           NEW phase \in {"first", "kill"}, ladder.phase = phase, Signalled(phase)
    PROVE  Inv'
<1>1. Shape /\ TableInv /\ ladder.at \in Scanning
  BY DEF Inv, Scanning
<1>2. Steady /\ UNCHANGED waiter /\ StrikesOwn'
  BY QuietFacts
<1>3. /\ DOMAIN ladder' = DOMAIN ladder /\ ladder'.at = "signal" /\ ladder'.groups = ladder.found
      /\ ladder'.phase = phase /\ ladder'.reap = ladder.reap
  BY <1>1, SMT DEF Shape, Signalled
<1>4. Fixed => \A p \in Pids : Own(p) => table[p].group \in ladder.found
  BY SMT DEF Inv, ScanInv
<1>5. phase # "observe" /\ ladder'.at \in Scanning
  BY <1>3, SMT DEF Scanning
<1>6. Rooted => Within(ladder.found)
  BY <1>5 DEF Inv, GroupInv
<1> QED
  BY <1>1, <1>2, <1>3, <1>4, <1>5, <1>6, ScanMoved

\* verifiedMembers has answered: an empty answer is the proof of an empty
\* session.
LEMMA JudgeInv ==
    ASSUME Inv, Judge
    PROVE  Inv'
<1>1. /\ Shape /\ TableInv /\ ladder.at = "reprobe" /\ ladder.todo = {} /\ ladder.phase # "observe"
      /\ ladder.at \in Scanning /\ Quietly /\ session
  BY SMT DEF Inv, Judge, At, PathInv, Scanning
<1>2. Steady /\ UNCHANGED waiter /\ StrikesOwn'
  BY <1>1, QuietFacts
<1>3. CASE ladder.found = {}
  <2>1. Return("absent") \/ Return("terminated")
    <3>1. Return(IF ladder.phase \in {"first", "denied"} THEN "absent" ELSE "terminated")
      BY <1>3 DEF Judge
    <3> QED
      BY <3>1
  <2>2. Fixed => \A p \in Pids : ~Own(p)
    BY <1>1, <1>3 DEF Inv, ScanInv
  <2>3. Fixed => Empty
    BY <1>1, <2>2, EmptyFacts
  <2> QED
    BY <1>2, <2>1, <2>3, Returned
<1>4. CASE ladder.found # {}
  <2>1. CASE ladder.phase = "first"
    <3>1. Signalled("first") /\ UNCHANGED settled
      BY <1>4, <2>1 DEF Judge
    <3> QED
      BY <1>1, <2>1, <3>1, SignalledInv
  <2>2. CASE ladder.phase = "grace"
    <3>1. \/ Onward("poll")
          \/ ladder' = [ladder EXCEPT !.at = "enumerate", !.phase = "kill"] /\ UNCHANGED settled
      BY <1>4, <2>2 DEF Judge
    <3>2. CASE Onward("poll")
      BY <1>1, <1>2, <3>2, OnwardFacts, ScanAgain
    <3>3. CASE ladder' = [ladder EXCEPT !.at = "enumerate", !.phase = "kill"] /\ UNCHANGED settled
      <4>1. /\ DOMAIN ladder' = DOMAIN ladder /\ ladder'.at = "enumerate"
            /\ ladder'.phase = "kill" /\ ladder'.reap = ladder.reap
        BY <1>1, <3>3, SMT DEF Shape
      <4> QED
        BY <1>1, <1>2, <3>3, <4>1, ScanAgain
    <3> QED
      BY <3>1, <3>2, <3>3
  <2>3. CASE ladder.phase = "kill"
    <3>1. Return("undetermined") \/ (Signalled("kill") /\ UNCHANGED settled)
      BY <1>4, <2>3 DEF Judge
    <3>2. CASE Return("undetermined")
      BY <1>2, <3>2, Returned DEF Proven
    <3>3. CASE Signalled("kill") /\ UNCHANGED settled
      BY <1>1, <2>3, <3>3, SignalledInv
    <3> QED
      BY <3>1, <3>2, <3>3
  <2>4. CASE ladder.phase \notin {"first", "grace", "kill"}
    <3>1. Return("undetermined")
      BY <1>4, <2>4 DEF Judge
    <3> QED
      BY <1>2, <3>1, Returned DEF Proven
  <2> QED
    BY <2>1, <2>2, <2>3, <2>4
<1> QED
  BY <1>3, <1>4

\* One group is signalled: its processes are the session's, and a group with
\* a process in it is not taken for gone.
LEMMA SignalGroupInv ==
    ASSUME Inv, SignalGroup
    PROVE  Inv'
<1> USE LeaderInPids
<1>1. /\ Shape /\ TableInv /\ PathInv /\ ladder.at = "signal" /\ ladder.groups # {}
      /\ UNCHANGED <<course, waiter, settled>>
  BY DEF Inv, SignalGroup, At
<1>2. ladder.at \in Scanning /\ session /\ ladder.phase # "observe"
  BY <1>1, SMT DEF PathInv, Scanning
<1> DEFINE reached(g) == {p \in Pids : Live(p) /\ table[p].group = g}
           zombies(g) == {p \in Pids : table[p].state = "zombie" /\ table[p].group = g}
           denied(g) == reached(g) = {} /\ zombies(g) # {} /\ ~Pidfd
<1>3. PICK g \in ladder.groups :
         /\ ladder' =
              IF denied(g)
              THEN [ladder EXCEPT !.at = "enumerate", !.phase = IF @ = "first" THEN "denied" ELSE "refused"]
              ELSE [ladder EXCEPT !.groups = @ \ {g}, !.gone = @ /\ reached(g) \cup zombies(g) = {}]
         /\ Deliver(IF ladder.phase = "first" THEN "TERM" ELSE "KILL", reached(g))
  BY DEF SignalGroup
<1>4. Steady /\ stray' = (stray \/ \E p \in reached(g) : ~InScope(p))
  <2> HIDE DEF reached
  <2>1. ASSUME NEW sig, Deliver(sig, reached(g))
        PROVE  Steady /\ stray' = (stray \/ \E p \in reached(g) : ~InScope(p))
    <3>1. Steady
      BY <1>1, <2>1, DeliverSteady
    <3> QED
      BY <2>1, <3>1 DEF Deliver
  <2> QED
    BY <1>3, <2>1
<1>5. StrikesOwn'
  <2>1. Rooted => \A p \in reached(g) : InScope(p)
    <3>1. \A p \in reached(g) : p \in Pids /\ Present(p) /\ table[p].group \in ladder.groups
      BY SMT DEF Live, Present
    <3> HIDE DEF reached
    <3> QED
      BY <1>1, <1>2, <3>1 DEF Inv, GroupInv, Within, InScope
  <2>2. ~Rooted => Races \cap {"setpgid", "setsid", "reuse"} # {} \/ "tick" \in Races
    BY SMT DEF Rooted
  <2>3. Races' = Races /\ session' = session /\ Pidfd' = Pidfd
    BY <1>1 DEF Races, session, Pidfd
  <2> HIDE DEF reached
  <2> QED
    BY <1>2, <1>4, <2>1, <2>2, <2>3 DEF Inv, StrikesOwn
<1>6. CASE denied(g)
  <2>1. ladder' = [ladder EXCEPT !.at = "enumerate", !.phase = IF @ = "first" THEN "denied" ELSE "refused"]
    BY <1>3, <1>6
  <2>2. /\ DOMAIN ladder' = DOMAIN ladder /\ ladder'.at = "enumerate" /\ ladder'.phase # "observe"
        /\ ladder'.reap = ladder.reap
    BY <1>1, <2>1, SMT DEF Shape
  <2> QED
    BY <1>1, <1>2, <1>4, <1>5, <2>2, ScanAgain
<1>7. CASE ~denied(g)
  <2>1. ladder' = [ladder EXCEPT !.groups = @ \ {g}, !.gone = @ /\ reached(g) \cup zombies(g) = {}]
    BY <1>3, <1>7
  <2>2. /\ DOMAIN ladder' = DOMAIN ladder /\ ladder'.at = "signal" /\ ladder'.phase = ladder.phase
        /\ ladder'.groups = ladder.groups \ {g} /\ ladder'.reap = ladder.reap
        /\ ladder'.gone = (ladder.gone /\ reached(g) \cup zombies(g) = {})
    <3> HIDE DEF reached, zombies
    <3> QED
      BY <1>1, <2>1, SMT DEF Shape
  <2>3. Fixed => \A p \in Pids : Own(p) => table[p].group \in ladder'.groups \/ ~ladder'.gone
    <3> SUFFICES ASSUME Fixed, NEW p \in Pids, Own(p)
                 PROVE  table[p].group \in ladder'.groups \/ ~ladder'.gone
      OBVIOUS
    <3>1. table[p].group \in ladder.groups \/ ~ladder.gone
      BY <1>1, <1>2 DEF Inv, ScanInv
    <3>2. CASE table[p].group = g
      <4>1. p \in reached(g)
        BY <3>2 DEF Own
      <4> HIDE DEF reached, zombies
      <4> QED
        BY <2>2, <4>1
    <3>3. CASE table[p].group # g
      BY <2>2, <3>1, <3>3
    <3> QED
      BY <3>2, <3>3
  <2>4. Rooted => Within(ladder'.groups)
    BY <1>1, <1>2, <2>2 DEF Inv, GroupInv, Within
  <2>5. ladder'.at \in Scanning
    BY <2>2 DEF Scanning
  <2> QED
    BY <1>1, <1>2, <1>4, <1>5, <2>2, <2>3, <2>4, <2>5, ScanMoved
<1> QED
  BY <1>6, <1>7

\* All groups were signalled: groups that were all gone are a session that is.
LEMMA SignallingInv ==
    ASSUME Inv, Signalling
    PROVE  Inv'
<1>1. Shape /\ TableInv /\ PathInv /\ ladder.at = "signal" /\ Quietly
  BY DEF Inv, Signalling, At
<1>2. ladder.at \in Scanning /\ session /\ ladder.phase # "observe"
  BY <1>1, SMT DEF PathInv, Scanning
<1>3. Steady /\ UNCHANGED waiter /\ StrikesOwn'
  BY <1>1, QuietFacts
<1>4. CASE Return("undetermined")
  BY <1>3, <1>4, Returned DEF Proven
<1>5. CASE ladder.groups = {} /\ ladder.gone /\ (Return("absent") \/ Return("terminated"))
  <2>1. Fixed => \A p \in Pids : ~Own(p)
    BY <1>1, <1>2, <1>5 DEF Inv, ScanInv
  <2>2. Fixed => Empty
    BY <1>1, <1>2, <2>1, EmptyFacts
  <2> QED
    BY <1>3, <1>5, <2>2, Returned
<1>6. CASE ladder' = [ladder EXCEPT !.at = "poll", !.phase = "grace"] /\ UNCHANGED settled
  <2>1. /\ DOMAIN ladder' = DOMAIN ladder /\ ladder'.at = "poll" /\ ladder'.phase = "grace"
        /\ ladder'.reap = ladder.reap
    BY <1>1, <1>6, SMT DEF Shape
  <2> QED
    BY <1>2, <1>3, <1>6, <2>1, ScanAgain
<1>7. CASE Onward("pause")
  BY <1>1, <1>2, <1>3, <1>7, OnwardFacts, ScanAgain
<1> QED
  BY <1>4, <1>5, <1>6, <1>7 DEF Signalling

\* The waits between two listings.
LEMMA PollInv ==
    ASSUME Inv, Poll \/ Pause
    PROVE  Inv'
<1>1. Shape /\ TableInv /\ PathInv /\ ladder.at \in {"poll", "pause"} /\ Quietly
  BY DEF Inv, Poll, Pause, At
<1>2. ladder.at \in Scanning /\ session
  BY <1>1, SMT DEF PathInv, Scanning
<1>3. Steady /\ UNCHANGED waiter /\ StrikesOwn'
  BY <1>1, QuietFacts
<1>4. CASE Return("undetermined")
  BY <1>3, <1>4, Returned DEF Proven
<1>5. CASE Onward("enumerate")
  BY <1>1, <1>2, <1>3, <1>5, OnwardFacts, ScanAgain
<1> QED
  BY <1>4, <1>5 DEF Poll, Pause
-----------------------------------------------------------------------------
\* A look notes whether the recorded instance runs.
LEMMA LookInv ==
    ASSUME Inv, Look
    PROVE  Inv'
<1> USE LeaderInPids
<1>1. Shape /\ TableInv /\ PathInv /\ ladder.at = "begin" /\ Quietly /\ caller \in {"preserve", "quiet"}
  BY DEF Inv, Look, At
<1>2. Steady /\ UNCHANGED waiter /\ StrikesOwn'
  BY <1>1, QuietFacts
<1>3. CASE Return("undetermined")
  BY <1>2, <1>3, Returned DEF Proven
<1>4. CASE ~Return("undetermined")
  <2>1. /\ ladder' = [ladder EXCEPT !.at = IF session THEN "enumerate" ELSE "reprobe",
                        !.phase = "observe", !.todo = {}, !.found = {},
                        !.seen = Matches(Leader, Recorded) /\ Live(Leader),
                        !.reap = IF Present(Leader) /\ ~Matches(Leader, Recorded)
                                 THEN "reused" ELSE "absent"]
        /\ UNCHANGED settled
    BY <1>4 DEF Look
  <2>2. /\ DOMAIN ladder' = DOMAIN ladder /\ ladder'.at = (IF session THEN "enumerate" ELSE "reprobe")
        /\ ladder'.phase = "observe" /\ ladder'.todo = {} /\ ladder'.reap \in Proven
        /\ ladder'.seen = (Matches(Leader, Recorded) /\ Live(Leader))
    BY <1>1, <2>1, SMT DEF Shape, Proven
  <2>3. ~ladder'.seen => ~(Live(Leader) /\ Original(Leader))
    BY <1>1, <2>2, ProbeFacts
  <2>4. /\ session' = session /\ caller' = caller
        /\ (Live(Leader)' <=> Live(Leader)) /\ (Original(Leader)' <=> Original(Leader))
    BY <1>1, <1>2, SteadyTable
  <2>5. ladder'.at \in {"enumerate", "reprobe"} /\ (session => ladder'.at = "enumerate")
        /\ (~session => ladder'.at = "reprobe")
    BY <2>2
  <2>6. PathInv'
    BY <1>1, <2>2, <2>4, <2>5, SMTT(30) DEF PathInv, Driving, Single, Scanning
  <2>7. HandleInv' /\ GroupInv'
    BY <2>2, <2>5, SMTT(30) DEF HandleInv, GroupInv, Single
  <2>8. ScanInv'
    BY <2>2, <2>3, <2>4, <2>5, SMT DEF ScanInv
  <2>9. ladder'.at \in Steps /\ ladder'.at # "retire"
    BY <2>5, SMT DEF Steps
  <2> QED
    BY <1>2, <2>1, <2>2, <2>6, <2>7, <2>8, <2>9, Moved
<1> QED
  BY <1>3, <1>4

\* A complete look is the proof of an empty scope.
LEMMA LookedInv ==
    ASSUME Inv, Looked
    PROVE  Inv'
<1>1. /\ Shape /\ TableInv /\ PathInv /\ ladder.at = "reprobe" /\ ladder.todo = {}
      /\ ladder.phase = "observe" /\ Quietly
  BY DEF Inv, Looked, At
<1>2. Steady /\ UNCHANGED waiter /\ StrikesOwn'
  BY <1>1, QuietFacts
<1>3. CASE Return("undetermined")
  BY <1>2, <1>3, Returned DEF Proven
<1>4. CASE ~ladder.seen /\ ladder.found = {} /\ Return(ladder.reap)
  <2>1. CASE session
    <3>1. Fixed => \A p \in Pids : ~Own(p)
      BY <1>1, <1>4, <2>1 DEF Inv, ScanInv
    <3> QED
      BY <1>1, <1>2, <1>4, <2>1, <3>1, EmptyFacts, Returned
  <2>2. CASE ~session
    <3>1. ~(Live(Leader) /\ Original(Leader))
      BY <1>1, <1>4, <2>2 DEF Inv, ScanInv
    <3> QED
      BY <1>1, <1>2, <1>4, <2>2, <3>1, EmptyFacts, Returned
  <2> QED
    BY <2>1, <2>2
<1>5. CASE /\ \E n : ladder' = [ladder EXCEPT !.at = "begin", !.looks = n]
           /\ UNCHANGED settled
  <2>1. /\ DOMAIN ladder' = DOMAIN ladder /\ ladder'.at = "begin" /\ ladder'.phase = ladder.phase
        /\ ladder'.reap = ladder.reap
    BY <1>1, <1>5, SMT DEF Shape
  <2>2. caller' = caller
    BY <1>1, <1>2, SteadyTable
  <2>3. PathInv'
    BY <1>1, <2>1, <2>2, SMT DEF PathInv, Driving, Single, Scanning
  <2>4. HandleInv' /\ ScanInv' /\ GroupInv'
    BY <2>1, SMT DEF HandleInv, ScanInv, GroupInv, Single, Scanning
  <2>5. ladder'.at \in Steps /\ ladder'.at # "retire" /\ ladder'.reap \in Proven
    BY <1>1, <2>1, SMT DEF Steps, Shape
  <2> QED
    BY <1>2, <1>5, <2>1, <2>3, <2>4, <2>5, Moved
<1> QED
  BY <1>3, <1>4, <1>5 DEF Looked

\* The driver goes on within its own steps.
LEMMA DriveMoved ==
    ASSUME Inv, Steady, UNCHANGED waiter, StrikesOwn',
           NEW step \in Driving, Onward(step), ladder.at \in Driving
    PROVE  Inv'
<1>1. Shape /\ TableInv /\ PathInv
  BY DEF Inv
<1>2. /\ DOMAIN ladder' = DOMAIN ladder /\ ladder'.at = step /\ UNCHANGED settled
      /\ ladder'.phase = ladder.phase /\ ladder'.groups = ladder.groups /\ ladder'.reap = ladder.reap
  BY <1>1, OnwardFacts
<1>3. caller' = caller
  BY <1>1, SteadyTable
<1>4. PathInv'
  BY <1>1, <1>2, <1>3, SMT DEF PathInv, Driving, Single, Scanning
<1>5. HandleInv' /\ ScanInv' /\ GroupInv'
  BY <1>2, SMT DEF HandleInv, ScanInv, GroupInv, Driving, Single, Scanning
<1>6. ladder'.at \in Steps /\ ladder'.at # "retire" /\ ladder'.reap \in Proven
  BY <1>1, <1>2, SMT DEF Driving, Steps, Shape
<1> QED
  BY <1>2, <1>4, <1>5, <1>6, Moved

\* The driver acts on the report of its wait goroutine.
LEMMA AwaitTerminalInv ==
    ASSUME Inv, AwaitTerminal
    PROVE  Inv'
<1> USE LeaderInPids
<1>1. Shape /\ TableInv /\ PathInv /\ ladder.at \in Driving /\ Quietly
  BY DEF Inv, AwaitTerminal, At, Driving
<1>2. Steady /\ UNCHANGED waiter /\ StrikesOwn'
  BY <1>1, QuietFacts
<1>3. CASE Return("undetermined")
  BY <1>2, <1>3, Returned DEF Proven
<1>4. CASE \E step \in Driving : Onward(step)
  BY <1>1, <1>2, <1>4, DriveMoved
<1>5. ASSUME NEW reap \in {"absent", "terminated"}, waiter = "told", LeaderGone(reap)
      PROVE  Inv'
  <2>1. CASE ~session
    <3>1. Return(reap)
      BY <1>5, <2>1 DEF LeaderGone
    <3>2. ~(Live(Leader) /\ Original(Leader))
      BY <1>1, <1>5, SMT DEF Inv, DriveInv, PathInv
    <3> QED
      BY <1>1, <1>2, <2>1, <3>1, <3>2, EmptyFacts, Returned
  <2>2. CASE session
    <3>1. ladder' = [ladder EXCEPT !.at = "begin", !.reap = reap] /\ UNCHANGED settled
      BY <1>5, <2>2 DEF LeaderGone
    <3>2. /\ DOMAIN ladder' = DOMAIN ladder /\ ladder'.at = "begin" /\ ladder'.phase = ladder.phase
          /\ ladder'.reap = reap
      BY <1>1, <3>1, SMT DEF Shape
    <3>3. caller' = caller /\ session' = session
      BY <1>1, <1>2, SteadyTable
    <3>4. PathInv'
      BY <1>1, <2>2, <3>2, <3>3, SMT DEF PathInv, Driving, Single, Scanning
    <3>5. HandleInv' /\ ScanInv' /\ GroupInv'
      BY <3>2, SMT DEF HandleInv, ScanInv, GroupInv, Single, Scanning
    <3>6. ladder'.at \in Steps /\ ladder'.at # "retire" /\ ladder'.reap \in Proven
      BY <1>5, <3>2, SMT DEF Steps, Proven
    <3> QED
      BY <1>2, <3>1, <3>2, <3>4, <3>5, <3>6, Moved
  <2> QED
    BY <2>1, <2>2
<1>6. {"demand", "dterm", "dkill"} \subseteq Driving
  BY DEF Driving
<1> QED
  BY <1>3, <1>4, <1>5, <1>6 DEF AwaitTerminal

\* terminateChild's signals go to a child that only the driver reaps.
LEMMA SignalChildInv ==
    ASSUME Inv, SignalChild
    PROVE  Inv'
<1> USE LeaderInPids
<1> DEFINE named == {p \in {Leader} : Present(p)}
<1>1. /\ Shape /\ TableInv /\ PathInv /\ ladder.at \in {"dterm", "dkill"} /\ ladder.at \in Driving
      /\ UNCHANGED <<course, waiter>>
      /\ \E step \in Driving : Onward(step)
      /\ Deliver("TERM", named) \/ Deliver("KILL", named)
  BY DEF Inv, SignalChild, At, Driving
<1>2. caller = "drive" /\ ladder.groups = {}
  BY <1>1 DEF PathInv
<1>3. ASSUME NEW sig, Deliver(sig, named) PROVE Inv'
  <2>1. Steady
    <3> HIDE DEF named
    <3> QED
      BY <1>1, <1>3, DeliverSteady
  <2>2. stray' = (stray \/ \E p \in named : ~InScope(p))
    BY <1>3 DEF Deliver
  <2>3. StrikesOwn'
    <3>1. Pidfd \/ "reuse" \notin Races => \A p \in named : InScope(p)
      BY <1>2, SMT DEF Inv, DriveInv, InScope, Original
    <3>2. Races' = Races /\ session' = session /\ Pidfd' = Pidfd
      BY <1>1 DEF Races, session, Pidfd
    <3> HIDE DEF named
    <3> QED
      BY <2>2, <3>1, <3>2 DEF Inv, StrikesOwn
  <2> QED
    BY <1>1, <2>1, <2>3, DriveMoved
<1> QED
  BY <1>1, <1>3

\* The record of a scope proved empty is removed, or its removal fails.
LEMMA RetireInv ==
    ASSUME Inv, Retire
    PROVE  Inv'
<1>1. Shape /\ TableInv /\ PathInv /\ ladder.at = "retire" /\ Quietly
  BY DEF Inv, Retire, At
<1>2. Steady /\ UNCHANGED waiter /\ StrikesOwn'
  BY <1>1, QuietFacts
<1>3. /\ DOMAIN ladder' = DOMAIN ladder /\ ladder'.at = "done" /\ ladder'.phase = ladder.phase
      /\ ladder'.reap = ladder.reap /\ outcome' = outcome
  BY <1>1, SMT DEF Retire, Goto, Shape
<1>4. Shape'
  <2>1. ladder'.at \in Steps
    BY <1>3 DEF Steps
  <2> QED
    BY <1>1, <1>2, <1>3, <2>1, SteadyTable DEF Shape
<1>5. PathInv'
  <2>1. caller' = caller
    BY <1>1, <1>2, SteadyTable
  <2> QED
    BY <1>1, <1>3, <2>1, SMT DEF PathInv, Driving, Single, Scanning
<1>6. HandleInv' /\ ScanInv' /\ GroupInv'
  BY <1>3, SMT DEF HandleInv, ScanInv, GroupInv, Single, Scanning
<1>7. DriveInv'
  BY <1>1, <1>2, SteadyTable, LeaderInPids DEF Inv, DriveInv
<1>8. ResultInv'
  BY <1>1, <1>2, SteadyTable DEF Inv, ResultInv
<1>9. TableInv'
  BY <1>1, <1>2, SteadyTable
<1> QED
  BY <1>2, <1>4, <1>5, <1>6, <1>7, <1>8, <1>9 DEF Inv

\* The deadline, and a step of nobody, touch nothing of it.
LEMMA StillInv ==
    ASSUME Inv, UNCHANGED <<table, starts, course, ladder, waiter, record, outcome, stray>>
    PROVE  Inv'
<1>1. Shape' /\ PathInv'
  BY DEF Inv, Shape, PathInv, caller, session
<1>2. TableInv'
  BY QuietSteady, SteadyTable DEF Inv, world
<1>3. DriveInv' /\ HandleInv'
  BY DEF Inv, DriveInv, HandleInv, Original, Present, Live, caller, Pidfd, Races
<1>4. ScanInv' /\ GroupInv'
  BY DEF Inv, ScanInv, GroupInv, Own, Original, Within, Present, Live, Fixed, Rooted, session, Races
<1>5. ResultInv' /\ StrikesOwn'
  BY DEF Inv, ResultInv, StrikesOwn, Empty, Live, Fixed, session, Pidfd, Races
<1> QED
  BY <1>1, <1>2, <1>3, <1>4, <1>5 DEF Inv
-----------------------------------------------------------------------------
\* Every step of the ladder, of its driver and of the processes around it keeps
\* the invariant, for any number of processes and any course.
THEOREM ReapInvariant == Spec => []Inv
<1>1. Inv /\ [Next]_vars => Inv'
  <2> SUFFICES ASSUME Inv, [Next]_vars PROVE Inv'
    OBVIOUS
  <2>1. CASE World
    BY <2>1, WorldInv
  <2>2. CASE Expire
    BY <2>2, StillInv DEF Expire, world, settled
  <2>3. CASE Ladder
    BY <2>3, BeginInv, VerifyInv, TermKillInv, GraceInv, AwaitInv, EnumerateInv, StatInv, ListedInv,
       ReprobeInv, JudgeInv, SignalGroupInv, SignallingInv, PollInv, LookInv, LookedInv,
       AwaitTerminalInv, SignalChildInv, RetireInv DEF Ladder
  <2>4. CASE Wait
    BY <2>4, WaitInv
  <2>5. CASE UNCHANGED vars
    BY <2>5, StillInv DEF vars
  <2> QED
    BY <2>1, <2>2, <2>3, <2>4, <2>5 DEF Next
<1> QED
  BY InitInv, <1>1, PTL DEF Spec

\* A ladder that answers with a proof, or removed the record, left no process
\* of the recorded scope running.
THEOREM ProvenIsGone == Spec => []ProvenGone
<1>1. Inv => ProvenGone
  BY DEF Inv, ResultInv, ProvenGone, Fixed, Empty
<1> QED
  BY ReapInvariant, <1>1, PTL

\* No signal of the ladder or the driver reaches a process outside the scope.
THEOREM SignalsStrikeOwn == Spec => []StrikesOwn
<1>1. Inv => StrikesOwn
  BY DEF Inv
<1> QED
  BY ReapInvariant, <1>1, PTL
-----------------------------------------------------------------------------
(***************************************************************************)
(* After the deadline.                                                     *)
(***************************************************************************)

Down ==
    \/ Left[ladder'.at] < Left[ladder.at]
    \/ ladder'.at = ladder.at /\ ladder'.todo \subseteq ladder.todo /\ ladder'.todo # ladder.todo

\* The distances, one by one.
LEMMA Lefts ==
    /\ Left["done"] = 0 /\ Left["retire"] = 1 /\ Left["enumerate"] = 2 /\ Left["poll"] = 3
    /\ Left["pause"] = 3 /\ Left["signal"] = 4 /\ Left["reprobe"] = 5 /\ Left["stat"] = 6
    /\ Left["await"] = 2 /\ Left["kill"] = 3 /\ Left["grace"] = 4 /\ Left["term"] = 5
    /\ Left["verify"] = 6 /\ Left["begin"] = 7 /\ Left["dwait"] = 8 /\ Left["dkill"] = 9
    /\ Left["dgrace"] = 10 /\ Left["dterm"] = 11 /\ Left["demand"] = 12 /\ Left["drive"] = 13
BY SMT DEF Left

\* A return is nearer the end than whatever it returns from.
LEMMA ReturnDown ==
    ASSUME Shape, NEW reap, Return(reap), ladder.at \notin {"retire", "done"}
    PROVE  Down
<1>1. ladder'.at \in {"retire", "done"}
  BY SMT DEF Shape, Return
<1>2. ladder.at \in Steps
  BY DEF Shape
<1> QED
  BY <1>1, <1>2, Lefts, SMT DEF Steps, Down

\* So is a step forward.
LEMMA StepDown ==
    ASSUME Shape, NEW step, ladder' = [ladder EXCEPT !.at = step], Left[step] < Left[ladder.at]
    PROVE  Down
<1>1. ladder'.at = step
  BY SMT DEF Shape
<1> QED
  BY <1>1 DEF Down

\* Where the ladder is after each kind of update of its locals.
LEMMA ArrivesAt ==
    ASSUME Shape
    PROVE  /\ \A s : ladder' = [ladder EXCEPT !.at = s] => ladder'.at = s
           /\ \A s, x : ladder' = [ladder EXCEPT !.at = s, !.phase = x] => ladder'.at = s
           /\ \A x : Signalled(x) => ladder'.at = "signal"
           /\ \A r : Return(r) => ladder'.at \in {"retire", "done"}
<1>1. ASSUME NEW s, ladder' = [ladder EXCEPT !.at = s] PROVE ladder'.at = s
  BY <1>1, SMT DEF Shape
<1>2. ASSUME NEW s, NEW x, ladder' = [ladder EXCEPT !.at = s, !.phase = x] PROVE ladder'.at = s
  BY <1>2, SMT DEF Shape
<1>3. ASSUME NEW x, Signalled(x) PROVE ladder'.at = "signal"
  BY <1>3, SMT DEF Shape, Signalled
<1>4. ASSUME NEW reap, Return(reap) PROVE ladder'.at \in {"retire", "done"}
  BY <1>4, SMT DEF Shape, Return
<1> QED
  BY <1>1, <1>2, <1>3, <1>4

\* Past the deadline no step of the ladder, nor of the driver, goes back.
LEMMA LadderDown ==
    ASSUME Shape, late, Ladder
    PROVE  Down
<1> USE DEF At, Goto, Onward
<1>1. CASE Begin
  <2>1. ladder'.at \in {"retire", "done", "verify", "enumerate"}
    <3>1. CASE ladder' = [ladder EXCEPT !.at = "verify", !.held = IF Pidfd THEN table[Leader].inst ELSE 0]
      BY <3>1, SMT DEF Shape
    <3>2. CASE Return("reused") \/ Onward("enumerate")
      BY <3>2, ArrivesAt
    <3> QED
      BY <1>1, <3>1, <3>2 DEF Begin
  <2> QED
    BY <1>1, <2>1, Lefts, SMT DEF Begin, Down
<1>2. CASE Verify
  BY <1>2, ReturnDown, StepDown, Lefts, SMT DEF Verify
<1>3. CASE Term
  BY <1>3, ReturnDown, StepDown, Lefts, SMT DEF Term
<1>4. CASE Grace
  BY <1>4, ReturnDown, StepDown, Lefts, SMT DEF Grace
<1>5. CASE Kill
  BY <1>5, ReturnDown, StepDown, Lefts, SMT DEF Kill
<1>6. CASE AwaitSettlement
  BY <1>6, ReturnDown DEF AwaitSettlement
<1>7. CASE Enumerate
  BY <1>7, ReturnDown DEF Enumerate
<1>8. CASE Stat
  <2>1. PICK p \in ladder.todo : ladder'.todo = ladder.todo \ {p} /\ ladder'.at = ladder.at
    BY <1>8, SMT DEF Stat, Shape
  <2> QED
    BY <2>1, SMT DEF Down
<1>9. CASE Listed
  <2>1. ladder'.at = "reprobe"
    BY <1>9, SMT DEF Listed, Shape
  <2> QED
    BY <1>9, <2>1, Lefts, SMT DEF Listed, Down
<1>10. CASE Reprobe
  BY <1>10, ReturnDown DEF Reprobe
<1>11. CASE Judge
  <2>1. ladder'.at \in {"retire", "done", "signal", "poll", "enumerate"}
    BY <1>11, ArrivesAt DEF Judge
  <2> QED
    BY <1>11, <2>1, Lefts, SMT DEF Judge, Down
<1>12. CASE SignalGroup
  BY <1>12 DEF SignalGroup
<1>13. CASE Signalling
  <2>1. ladder'.at \in {"retire", "done", "poll", "pause"}
    <3>1. CASE ladder' = [ladder EXCEPT !.at = "poll", !.phase = "grace"]
      BY <3>1, SMT DEF Shape
    <3>2. CASE \/ Return("undetermined") \/ Onward("pause")
               \/ Return(IF ladder.phase = "first" THEN "absent" ELSE "terminated")
      BY <3>2, ArrivesAt
    <3> QED
      BY <1>13, <3>1, <3>2 DEF Signalling
  <2> QED
    BY <1>13, <2>1, Lefts, SMT DEF Signalling, Down
<1>14. CASE Poll
  BY <1>14, ReturnDown, StepDown, Lefts, SMT DEF Poll
<1>15. CASE Pause
  BY <1>15, StepDown, Lefts, SMT DEF Pause
<1>16. CASE Look
  BY <1>16, ReturnDown DEF Look
<1>17. CASE Looked
  BY <1>17, ReturnDown DEF Looked
<1>18. CASE AwaitTerminal
  <2>1. \/ At("drive") /\ ladder'.at \in {"retire", "done", "begin", "demand"}
        \/ At("demand") /\ ladder'.at \in {"retire", "done", "begin", "dterm"}
        \/ At("dgrace") /\ ladder'.at \in {"retire", "done", "begin", "dkill"}
        \/ At("dwait") /\ ladder'.at \in {"retire", "done", "begin"}
    <3>1. ASSUME NEW reap, LeaderGone(reap) PROVE ladder'.at \in {"retire", "done", "begin"}
      <4>1. CASE session
        <5>1. ladder' = [ladder EXCEPT !.at = "begin", !.reap = reap]
          BY <3>1, <4>1 DEF LeaderGone
        <5> QED
          BY <5>1, SMT DEF Shape
      <4>2. CASE ~session
        BY <3>1, <4>2, ArrivesAt DEF LeaderGone
      <4> QED
        BY <4>1, <4>2
    <3>2. ASSUME NEW s, Onward(s) PROVE ladder'.at = s
      BY <3>2, ArrivesAt
    <3>3. Return("undetermined") => ladder'.at \in {"retire", "done"}
      BY ArrivesAt
    <3> HIDE DEF Onward
    <3> QED
      BY <1>18, <3>1, <3>2, <3>3 DEF AwaitTerminal
  <2> QED
    BY <2>1, Lefts, SMT DEF Down
<1>19. CASE SignalChild
  BY <1>19, StepDown, Lefts, SMT DEF SignalChild
<1>20. CASE Retire
  BY <1>20, StepDown, Lefts, SMT DEF Retire
<1> QED
  BY <1>1, <1>2, <1>3, <1>4, <1>5, <1>6, <1>7, <1>8, <1>9, <1>10, <1>11, <1>12, <1>13,
     <1>14, <1>15, <1>16, <1>17, <1>18, <1>19, <1>20 DEF Ladder

\* settleSession, awaitSessionSettlement and verifiedMembers, reap.go: past its
\* deadline the ladder goes round none of its loops again, whatever the process
\* table does.  That it is never held up is only model-checked.
THEOREM LadderRunsDown == Spec => DeadlineDescends
<1>1. Inv /\ [Next]_vars => [late /\ ladder' # ladder => Down]_vars
  <2> SUFFICES ASSUME Inv, Next, late, ladder' # ladder PROVE Down
    OBVIOUS
  <2>1. Ladder
    BY DEF Next, World, Expire, Wait
  <2> QED
    BY <2>1, LadderDown DEF Inv
<1> QED
  BY <1>1, ReapInvariant, PTL DEF Spec, DeadlineDescends, Down
=============================================================================
