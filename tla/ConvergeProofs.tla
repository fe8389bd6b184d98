--------------------------- MODULE ConvergeProofs ---------------------------
(***************************************************************************)
(* Ensure and Stop for any number of clients, builds and instances.  The   *)
(* inductive invariant has a part on the instances, a part on the program  *)
(* path and three on a client: the start lock it works under, what it has  *)
(* placed, and whom it has pinned.                                         *)
(***************************************************************************)
EXTENDS Converge, TLAPS

USE Zenon

Fields == {"op", "want", "at", "replaced", "attach", "session", "pinned", "target", "onward",
           "observed", "late", "did", "after", "ok"}

ClientShape ==
    /\ client = [c \in Clients |-> client[c]]
    /\ \A c \in Clients : DOMAIN client[c] = Fields

InstShape ==
    /\ inst = [n \in Instances |-> inst[n]]
    /\ \A n \in Instances : DOMAIN inst[n] = {"state", "build", "placement", "job"}

\* An instance that has been launched.
Known(n) == n \in Instances /\ inst[n].state # "unborn"

\* A service layer that is there runs nothing for a job it does not have.
Idle == job = "none" /\ layer # "gone" => ~JobRuns

\* The record names a launched instance.
WorldInv ==
    /\ record = 0 \/ Known(record)
    /\ Idle

\* No file is left that the job could start from again.
Bare == job \in {"none", "unlisted"}

\* The recorded build is the build at the program path.
ProgramInv == note = None \/ note = placed.build

\* The steps at which the call works on the label, after its placement.
Past == {"socket", "record", "reach", "drain", "dispatch", "leaving", "settle", "terminate",
         "term", "kill", "inventory", "apply", "wait"}

\* A call works, and answers success, under the start lock.
LockInv(c) ==
    /\ client[c].at \in Steps
    /\ client[c].want \in Builds
    /\ client[c].at # "done" => client[c].op \in {"ensure", "stop"}
    /\ client[c].at \in {"place", "write", "note", "reach", "apply", "wait"} => client[c].op = "ensure"
    /\ client[c].at = "remove" => client[c].op = "stop"
    /\ client[c].at \notin {"lock", "return", "done"} => lock = c
    /\ client[c].at = "return" /\ client[c].ok => lock = c

\* While the bytes are replaced no build is recorded; afterwards it is the one
\* this Ensure wants.
PlacedInv(c) ==
    /\ client[c].at \in {"write", "note"} => note = None
    /\ client[c].at = "note" => placed.build = client[c].want
    /\ client[c].op = "ensure" /\ (client[c].at \in Past \/ (client[c].at = "return" /\ client[c].ok))
          => note = client[c].want

\* Whom a call aims at: an instance it pinned, observed and will not lose.
Aimed(k) ==
    k.at \in {"drain", "dispatch", "leaving", "settle", "terminate", "term", "kill"} =>
        k.target = k.pinned /\ k.target # 0 /\ k.target \in k.observed

PinInv(c) ==
    /\ client[c].pinned = 0 \/ Known(client[c].pinned)
    /\ Aimed(client[c])
    /\ client[c].at = "record" /\ client[c].attach = "serving" => Known(client[c].pinned)
    /\ client[c].at = "record" /\ client[c].did = "nothing" =>
          Known(client[c].pinned) /\ inst[client[c].pinned].build = client[c].want
    /\ client[c].at = "reach" =>
          /\ DOMAIN client[c].onward = {"pinned", "target", "onward", "observed", "at"}
          /\ client[c].onward.at \in {"inventory", "drain", "settle", "terminate"}
          /\ Aimed(client[c].onward)
          /\ client[c].onward.pinned = 0 \/ Known(client[c].onward.pinned)
          /\ client[c].observed \subseteq client[c].onward.observed
    /\ client[c].at \in {"apply", "remove"} => ~Live(client[c].pinned)

\* What a call that succeeded answered.
AnswerInv(c) ==
    client[c].at = "return" /\ client[c].ok =>
        /\ client[c].op = "stop" => Bare /\ ~Live(client[c].pinned)
        /\ client[c].op = "ensure" => Known(client[c].after) /\ inst[client[c].after].build = client[c].want

StruckInv == \A s \in struck : s[1] \in Clients /\ s[2] \in client[s[1]].observed

ClientInv(c) == LockInv(c) /\ PlacedInv(c) /\ PinInv(c) /\ AnswerInv(c)

Inv ==
    /\ ClientShape /\ InstShape
    /\ WorldInv /\ ProgramInv /\ StruckInv
    /\ \A c \in Clients : ClientInv(c)

-----------------------------------------------------------------------------
(* What an assignment to the fields of a call leaves alone. *)

Others(c) == \A d \in Clients \ {c} : client'[d] = client[d]

\* Fields of a call that most steps leave alone.
Kept(c) ==
    /\ client'[c].op = client[c].op
    /\ client'[c].want = client[c].want

\* Whom the call pinned.
KeptPin(c) ==
    /\ client'[c].pinned = client[c].pinned
    /\ client'[c].target = client[c].target
    /\ client'[c].observed = client[c].observed

\* Put assigns the fields it names.
LEMMA PutEffect ==
    ASSUME ClientShape, NEW c \in Clients, NEW fields, Put(c, fields)
    PROVE  /\ ClientShape' /\ Others(c)
           /\ \A f \in Fields : client'[c][f] = IF f \in DOMAIN fields THEN fields[f] ELSE client[c][f]
BY DEF ClientShape, Put, Others

\* Go moves the call on, and changes nothing else of it.
LEMMA GoEffect ==
    ASSUME ClientShape, NEW c \in Clients, NEW step, Go(c, step)
    PROVE  /\ ClientShape' /\ Others(c) /\ Kept(c) /\ KeptPin(c)
           /\ client'[c].at = step /\ client'[c].ok = client[c].ok
           /\ client'[c].onward = client[c].onward /\ client'[c].after = client[c].after
           /\ client'[c].attach = client[c].attach /\ client'[c].did = client[c].did
<1>1. Put(c, [at |-> step])
  BY DEF Go
<1>2. DOMAIN [at |-> step] = {"at"}
  OBVIOUS
<1> QED
  BY ZenonT(40), <1>1, <1>2, PutEffect DEF Fields, Kept, KeptPin

\* A call that ends keeps what it pinned.
LEMMA EndsEffect ==
    ASSUME ClientShape, NEW c \in Clients, NEW ok, NEW did, Ends(c, ok, did)
    PROVE  /\ ClientShape' /\ Others(c) /\ Kept(c) /\ KeptPin(c)
           /\ client'[c].at = "return" /\ client'[c].ok = ok
           /\ client'[c].after = client[c].after
<1>1. Put(c, [at |-> "return", ok |-> ok, did |-> did])
  BY DEF Ends
<1>2. DOMAIN [at |-> "return", ok |-> ok, did |-> did] = {"at", "ok", "did"}
  OBVIOUS
<1> QED
  BY ZenonT(40), <1>1, <1>2, PutEffect DEF Fields, Kept, KeptPin

-----------------------------------------------------------------------------
(* Instances age: none comes back, none changes its build. *)

Ages ==
    \A n \in Instances :
        Known(n) => /\ Known(n)'
                    /\ inst'[n].build = inst[n].build
                    /\ ~Live(n) => ~Live(n)'

\* No instance is launched in the step.
NoBirth == \A n \in Instances : inst'[n].job = inst[n].job /\ (~Live(n) => ~Live(n)')

\* No instance is live under the name of none.
LEMMA ZeroNotLive == ~Live(0)
BY DEF Live

\* A live instance was launched.
LEMMA LiveKnown == \A n \in Instances : Live(n) => Known(n)
BY DEF Live, Known, Alive

\* An instance that changes its state, being alive.
LEMMA StateAges ==
    ASSUME InstShape, NEW n \in Instances, inst[n].state \in Alive, NEW s \in Alive \cup {"gone"},
           inst' = [inst EXCEPT ![n].state = s]
    PROVE  InstShape' /\ Ages /\ NoBirth
<1>1. InstShape'
  BY DEF InstShape
<1>2. \A m \in Instances : /\ inst'[m].build = inst[m].build
                           /\ inst'[m].job = inst[m].job
                           /\ inst'[m].state = IF m = n THEN s ELSE inst[m].state
  BY DEF InstShape
<1>3. NoBirth
  BY <1>2 DEF NoBirth, Live, Alive
<1>4. Ages
  BY <1>2 DEF Ages, Known, Live, Alive
<1> QED
  BY <1>1, <1>3, <1>4

\* An unchanged world has aged.
LEMMA SameAges ==
    ASSUME InstShape, UNCHANGED inst
    PROVE  InstShape' /\ Ages /\ NoBirth
BY DEF InstShape, Ages, NoBirth, Known, Live

\* A step that launches nothing starts nothing of the job.
LEMMA NoBirthJobs ==
    ASSUME NoBirth, ~JobRuns
    PROVE  ~JobRuns'
BY DEF NoBirth, JobRuns

-----------------------------------------------------------------------------
(* A client that does not move keeps its part of the invariant as long as   *)
(* only the holder of the start lock touches program and job.               *)

\* What a call knows survives a step of another call or of the daemons.
LEMMA OtherClient ==
    ASSUME Inv, NEW d \in Clients, client'[d] = client[d], Ages,
           lock = d => lock' = d /\ note' = note /\ placed' = placed,
           lock = d /\ Bare => Bare'
    PROVE  ClientInv(d)'
<1> USE DEF Inv, ClientInv
<1>1. LockInv(d)'
  BY DEF LockInv
<1>2. PlacedInv(d)'
  BY DEF LockInv, PlacedInv, Past
<1>3. PinInv(d)'
  <2>1. client[d].pinned = 0 \/ Known(client[d].pinned)'
    BY DEF PinInv, Ages, Known
  <2>2. client[d].at \in {"apply", "remove"} => ~Live(client[d].pinned)'
    BY ZeroNotLive DEF PinInv, Ages, Known, Live
  <2>3. client[d].at = "record" /\ client[d].attach = "serving" => Known(client[d].pinned)'
    BY DEF PinInv, Ages, Known
  <2>4. client[d].at = "record" /\ client[d].did = "nothing" =>
          Known(client[d].pinned)' /\ inst'[client[d].pinned].build = client[d].want
    BY DEF PinInv, Ages, Known
  <2>5. client[d].at = "reach" =>
           client[d].onward.pinned = 0 \/ Known(client[d].onward.pinned)'
    BY DEF PinInv, Ages, Known
  <2> QED
    BY <2>1, <2>2, <2>3, <2>4, <2>5 DEF PinInv, Aimed
<1>4. AnswerInv(d)'
  <2> SUFFICES ASSUME client[d].at = "return", client[d].ok
               PROVE  /\ client[d].op = "stop" => Bare' /\ ~Live(client[d].pinned)'
                      /\ client[d].op = "ensure" =>
                            Known(client[d].after)' /\ inst'[client[d].after].build = client[d].want
    BY DEF AnswerInv
  <2>1. lock = d
    BY DEF LockInv
  <2>2. client[d].op = "stop" => Bare'
    BY <2>1 DEF AnswerInv
  <2>3. client[d].op = "stop" => ~Live(client[d].pinned)'
    BY ZenonT(40) DEF AnswerInv, PinInv, Ages, Known, Live
  <2>4. client[d].op = "ensure" =>
            Known(client[d].after)' /\ inst'[client[d].after].build = client[d].want
    BY DEF AnswerInv, Ages, Known
  <2> QED
    BY <2>2, <2>3, <2>4
<1> QED
  BY <1>1, <1>2, <1>3, <1>4

\* A call that fails owes nothing.
LEMMA FailsInv ==
    ASSUME Inv, NEW c \in Clients, client[c].at # "done", Fails(c), Ages
    PROVE  ClientShape' /\ Others(c) /\ KeptPin(c) /\ ClientInv(c)'
<1>1. /\ ClientShape' /\ Others(c) /\ Kept(c) /\ KeptPin(c)
      /\ client'[c].at = "return" /\ client'[c].ok = FALSE
  BY EndsEffect DEF Fails, Inv
<1>2. (client[c].pinned = 0 \/ Known(client[c].pinned))'
  BY <1>1 DEF KeptPin, Inv, ClientInv, PinInv, Ages, Known
<1>3. LockInv(c)'
  BY <1>1 DEF Inv, ClientInv, LockInv, Kept, Steps
<1>5. PlacedInv(c)' /\ AnswerInv(c)'
  BY <1>1 DEF PlacedInv, AnswerInv, Past
<1>4. PinInv(c)'
  BY <1>1, <1>2 DEF PinInv, KeptPin, Aimed
<1> QED
  BY <1>1, <1>3, <1>4, <1>5 DEF ClientInv

\* What a step of one call has to show.
StepInv(c) ==
    /\ ClientShape' /\ Others(c) /\ ClientInv(c)'
    /\ client[c].observed \subseteq client'[c].observed

\* A step that changes only the call.
LEMMA QuietInv ==
    ASSUME Inv, NEW c \in Clients, Quiet, StepInv(c)
    PROVE  Inv'
<1>1. InstShape' /\ Ages /\ NoBirth
  BY SameAges DEF Inv, Quiet, world
<1>2. WorldInv' /\ ProgramInv'
  BY DEF Inv, Quiet, world, program, WorldInv, ProgramInv, Known, Idle, JobRuns, Live
<1>3. StruckInv'
  BY DEF Inv, Quiet, StepInv, Others, StruckInv
<1>4. ASSUME NEW d \in Clients \ {c} PROVE ClientInv(d)'
  <2>1. client'[d] = client[d]
    BY DEF StepInv, Others
  <2> QED
    BY <1>1, <2>1, OtherClient DEF Quiet, world, program, Bare
<1> QED
  BY <1>1, <1>2, <1>3, <1>4 DEF Inv, StepInv

-----------------------------------------------------------------------------
(* The steps of a call, one by one. *)

\* A quiet step that fails the call.
LEMMA QuietFails ==
    ASSUME Inv, NEW c \in Clients, client[c].at # "done", Fails(c), Quiet
    PROVE  Inv'
<1>1. Ages
  BY SameAges DEF Inv, Quiet, world
<1>2. StepInv(c)
  BY <1>1, FailsInv DEF StepInv, KeptPin
<1> QED
  BY <1>2, QuietInv

\* A quiet step to a place where the call owes no more than it did.
LEMMA QuietGo ==
    ASSUME Inv, NEW c \in Clients, NEW step, Go(c, step), Quiet,
           lock = c, client[c].op = "ensure" => note = client[c].want,
           client[c].op \in {"ensure", "stop"},
           step \in {"socket", "inventory", "dispatch", "settle", "leaving", "terminate", "term", "kill",
                     "apply", "remove"},
           step \in {"dispatch", "settle", "leaving", "terminate", "term", "kill"} =>
              client[c].target = client[c].pinned /\ client[c].target # 0
              /\ client[c].target \in client[c].observed,
           step = "apply" => client[c].op = "ensure",
           step = "remove" => client[c].op = "stop",
           step \in {"apply", "remove"} => ~Live(client[c].pinned)
    PROVE  Inv'
<1>1. /\ ClientShape' /\ Others(c) /\ Kept(c) /\ KeptPin(c)
      /\ client'[c].at = step
  BY GoEffect DEF Inv
<1>2. UNCHANGED <<inst, lock, note, placed, job>>
  BY DEF Quiet, world, program
<1>3. LockInv(c)'
  BY <1>1, <1>2 DEF Inv, ClientInv, LockInv, Kept, Steps
<1>4. PlacedInv(c)'
  BY <1>1, <1>2 DEF PlacedInv, Kept
<1>5. AnswerInv(c)'
  BY <1>1 DEF AnswerInv
<1>6. (client[c].pinned = 0 \/ Known(client[c].pinned))'
  BY <1>1, <1>2 DEF Inv, ClientInv, PinInv, Known, KeptPin
<1>7. step \in {"apply", "remove"} => (~Live(client[c].pinned))'
  BY <1>1, <1>2 DEF Live, KeptPin
<1>8. Aimed(client[c])'
  BY <1>1 DEF Aimed, KeptPin
<1>9. PinInv(c)'
  BY <1>1, <1>6, <1>7, <1>8 DEF PinInv
<1> QED
  BY <1>1, <1>3, <1>4, <1>5, <1>9, QuietInv DEF StepInv, ClientInv, KeptPin

\* What a call past its placement can rely on.
LEMMA Working ==
    ASSUME Inv, NEW c \in Clients, client[c].at \in Past
    PROVE  /\ lock = c
           /\ client[c].op \in {"ensure", "stop"}
           /\ client[c].op = "ensure" => note = client[c].want
BY DEF Inv, ClientInv, LockInv, PlacedInv, Past

\* What a call that aims at somebody can rely on.
LEMMA Aiming ==
    ASSUME Inv, NEW c \in Clients,
           client[c].at \in {"drain", "dispatch", "leaving", "settle", "terminate", "term", "kill"}
    PROVE  /\ client[c].target = client[c].pinned /\ client[c].target # 0
           /\ client[c].target \in client[c].observed
           /\ Known(client[c].target)
BY DEF Inv, ClientInv, PinInv, Aimed

\* The proof of a departure leads to the service.
LEMMA ProvedInv ==
    ASSUME Inv, NEW c \in Clients, client[c].at \in Past, Proved(c), Quiet, ~Live(client[c].pinned)
    PROVE  Inv'
<1> DEFINE step == IF client[c].op = "ensure" THEN "apply" ELSE "remove"
<1>1. Go(c, step)
  BY DEF Proved
<1>2. lock = c /\ client[c].op \in {"ensure", "stop"} /\ (client[c].op = "ensure" => note = client[c].want)
  BY Working
<1>3. /\ step \in {"apply", "remove"}
      /\ step = "apply" => client[c].op = "ensure"
      /\ step = "remove" => client[c].op = "stop"
  BY <1>2
<1> HIDE DEF step
<1> QED
  BY <1>1, <1>2, <1>3, QuietGo

\* Pinning the observed incumbent for its drain keeps the invariant.
LEMMA PinDrainInv ==
    ASSUME Inv, NEW c \in Clients, PinDrain(c)
    PROVE  Inv'
<1>1. client[c].at = "drain" /\ client[c].at \in Past
  BY DEF PinDrain, At, Past
<1>2. lock = c /\ client[c].op \in {"ensure", "stop"} /\ (client[c].op = "ensure" => note = client[c].want)
  BY <1>1, Working
<1>3. /\ client[c].target = client[c].pinned /\ client[c].target # 0
      /\ client[c].target \in client[c].observed
  BY <1>1, Aiming
<1>4. Quiet
  BY DEF PinDrain
<1>5. CASE Go(c, "dispatch") \/ Go(c, "settle")
  BY <1>2, <1>3, <1>4, <1>5, QuietGo
<1>6. CASE Fails(c)
  BY <1>1, <1>4, <1>6, QuietFails
<1>7. ASSUME NEW n, Put(c, [at |-> "socket", session |-> n])
      PROVE  Inv'
  <2>1. DOMAIN [at |-> "socket", session |-> n] = {"at", "session"}
    OBVIOUS
  <2>2. ClientShape' /\ Others(c) /\ Kept(c) /\ KeptPin(c) /\ client'[c].at = "socket"
    BY <1>7, <2>1, PutEffect DEF Inv, Fields, Kept, KeptPin
  <2>3. LockInv(c)' /\ PlacedInv(c)'
    BY <1>2, <1>4, <2>2 DEF Inv, ClientInv, LockInv, PlacedInv, Kept, Steps, Quiet, program
  <2>4. AnswerInv(c)'
    BY <2>2 DEF AnswerInv
  <2>5. (client[c].pinned = 0 \/ Known(client[c].pinned))'
    BY <1>4, <2>2 DEF Inv, ClientInv, PinInv, Known, KeptPin, Quiet, world
  <2>6. PinInv(c)'
    BY <2>2, <2>5 DEF PinInv, Aimed
  <2> QED
    BY <1>4, <2>2, <2>3, <2>4, <2>6, QuietInv DEF StepInv, ClientInv, KeptPin
<1> QED
  BY <1>5, <1>6, <1>7 DEF PinDrain

\* So does the observation that the incumbent has left.
LEMMA ObserveGoneInv ==
    ASSUME Inv, NEW c \in Clients, ObserveGone(c)
    PROVE  Inv'
<1>1. client[c].at = "leaving" /\ client[c].at \in Past /\ Quiet
  BY DEF ObserveGone, At, Past
<1>2. lock = c /\ client[c].op \in {"ensure", "stop"} /\ (client[c].op = "ensure" => note = client[c].want)
  BY <1>1, Working
<1>3. /\ client[c].target = client[c].pinned /\ client[c].target # 0
      /\ client[c].target \in client[c].observed
  BY <1>1, Aiming
<1>4. CASE Go(c, "settle")
  BY <1>1, <1>2, <1>3, <1>4, QuietGo
<1>5. CASE ~Live(client[c].target) /\ Proved(c)
  BY <1>1, <1>3, <1>5, ProvedInv
<1> QED
  BY <1>4, <1>5 DEF ObserveGone

\* So does settle, whether it proves the departure or not.
LEMMA SettleInv ==
    ASSUME Inv, NEW c \in Clients, Settle(c)
    PROVE  Inv'
<1>1. client[c].at = "settle" /\ client[c].at \in Past /\ Quiet
  BY DEF Settle, At, Past
<1>2. lock = c /\ client[c].op \in {"ensure", "stop"} /\ (client[c].op = "ensure" => note = client[c].want)
  BY <1>1, Working
<1>3. /\ client[c].target = client[c].pinned /\ client[c].target # 0
      /\ client[c].target \in client[c].observed
  BY <1>1, Aiming
<1>4. CASE Go(c, "inventory") \/ Go(c, "socket") \/ Go(c, "terminate")
  BY <1>1, <1>2, <1>3, <1>4, QuietGo
<1>5. CASE RecordNames(c) = "it" /\ ~Live(record) /\ Proved(c)
  <2>1. record = client[c].pinned
    BY <1>3, <1>5 DEF RecordNames
  <2> QED
    BY <1>1, <1>5, <2>1, ProvedInv
<1>6. CASE Fails(c)
  BY <1>1, <1>6, QuietFails
<1> QED
  BY <1>4, <1>5, <1>6 DEF Settle, Moved

\* So does Terminate's read of the owner record.
LEMMA TerminateReadsInv ==
    ASSUME Inv, NEW c \in Clients, TerminateReads(c)
    PROVE  Inv'
<1>1. client[c].at = "terminate" /\ client[c].at \in Past /\ Quiet
  BY DEF TerminateReads, At, Past
<1>2. lock = c /\ client[c].op \in {"ensure", "stop"} /\ (client[c].op = "ensure" => note = client[c].want)
  BY <1>1, Working
<1>3. /\ client[c].target = client[c].pinned /\ client[c].target # 0
      /\ client[c].target \in client[c].observed
  BY <1>1, Aiming
<1>4. CASE Go(c, "socket") \/ Go(c, "term")
  BY <1>1, <1>2, <1>3, <1>4, QuietGo
<1>5. CASE Fails(c)
  BY <1>1, <1>5, QuietFails
<1> QED
  BY <1>4, <1>5 DEF TerminateReads, Moved

\* So does the inventory that must be clear before the service layer is touched.
LEMMA InventoryClearInv ==
    ASSUME Inv, NEW c \in Clients, InventoryClear(c)
    PROVE  Inv'
<1>1. client[c].at = "inventory" /\ client[c].at \in Past /\ Quiet
  BY DEF InventoryClear, At, Past
<1>2. CASE ~Live(client[c].pinned) /\ Proved(c)
  BY <1>1, <1>2, ProvedInv
<1>3. CASE Fails(c)
  BY <1>1, <1>3, QuietFails
<1> QED
  BY <1>2, <1>3 DEF InventoryClear

\* Whoever answers as serving is an instance that runs.
LEMMA AnswerKnown ==
    ASSUME NEW c \in Clients, NEW a \in Answers(c)
    PROVE  /\ a.pinned = 0 \/ Known(a.pinned)
           /\ a.attach = "serving" => Known(a.pinned)
BY SMT DEF Answers, Known, Listening

\* decide answers "nothing" only for the build that is wanted.
LEMMA DecideNothing ==
    ASSUME NEW n, NEW want, Decide(n, want) = "nothing"
    PROVE  inst[n].build = want
BY DEF Decide

\* So does the observation of the socket, with its answers and failures.
LEMMA ObserveSocketInv ==
    ASSUME Inv, NEW c \in Clients, ObserveSocket(c)
    PROVE  Inv'
<1>1. client[c].at = "socket" /\ client[c].at \in Past /\ Quiet
  BY DEF ObserveSocket, At, Past
<1>2. lock = c /\ client[c].op \in {"ensure", "stop"} /\ (client[c].op = "ensure" => note = client[c].want)
  BY <1>1, Working
<1>3. CASE Fails(c)
  BY <1>1, <1>3, QuietFails
<1>4. ASSUME NEW a \in Answers(c), NEW did,
             did = "nothing" => a.attach = "serving" /\ Decide(a.pinned, client[c].want) = "nothing",
             Put(c, [at |-> "record", attach |-> a.attach, pinned |-> a.pinned, session |-> a.pinned,
                     did |-> did])
      PROVE  Inv'
  <2>1. DOMAIN [at |-> "record", attach |-> a.attach, pinned |-> a.pinned, session |-> a.pinned,
                did |-> did] = {"at", "attach", "pinned", "session", "did"}
    OBVIOUS
  <2>2. /\ ClientShape' /\ Others(c) /\ Kept(c)
        /\ client'[c].at = "record" /\ client'[c].attach = a.attach
        /\ client'[c].pinned = a.pinned /\ client'[c].did = did
        /\ client'[c].observed = client[c].observed
    BY SMT, <1>4, <2>1, PutEffect DEF Inv, Fields, Kept
  <2>3. LockInv(c)' /\ PlacedInv(c)'
    BY <1>1, <1>2, <2>2 DEF Inv, ClientInv, LockInv, PlacedInv, Kept, Steps, Quiet, program
  <2>4. AnswerInv(c)'
    BY <2>2 DEF AnswerInv
  <2>5. /\ a.pinned = 0 \/ Known(a.pinned)
        /\ a.attach = "serving" => Known(a.pinned)
        /\ did = "nothing" => a.attach = "serving" /\ inst[a.pinned].build = client[c].want
    BY <1>4, AnswerKnown, DecideNothing
  <2>6. PinInv(c)'
    BY <1>1, <2>2, <2>5 DEF PinInv, Aimed, Quiet, world, Known, Kept
  <2> QED
    BY <1>1, <2>2, <2>3, <2>4, <2>6, QuietInv DEF StepInv, ClientInv
<1>5. CASE ~Fails(c)
  <2>1. PICK a \in Answers(c) :
           Put(c, [at |-> "record", attach |-> a.attach, pinned |-> a.pinned, session |-> a.pinned,
                   did |-> CASE a.attach = "serving" -> Decide(a.pinned, client[c].want)
                             [] a.attach = "protocol" -> "restarted"
                             [] OTHER -> "started"])
    BY <1>5 DEF ObserveSocket
  <2> DEFINE did == CASE a.attach = "serving" -> Decide(a.pinned, client[c].want)
                      [] a.attach = "protocol" -> "restarted"
                      [] OTHER -> "started"
  <2>2. did = "nothing" => a.attach = "serving" /\ Decide(a.pinned, client[c].want) = "nothing"
    OBVIOUS
  <2>3. Put(c, [at |-> "record", attach |-> a.attach, pinned |-> a.pinned, session |-> a.pinned,
                did |-> did])
    BY <2>1
  <2> HIDE DEF did
  <2> QED
    BY <1>4, <2>2, <2>3
<1> QED
  BY <1>3, <1>5

\* Where a pass goes next, and whom it then aims at.
LEMMA OnwardAims ==
    ASSUME Inv, NEW c \in Clients, client[c].at = "record"
    PROVE  LET o == Onward(c) IN
           /\ DOMAIN o = {"pinned", "target", "onward", "observed", "at"}
           /\ o.at \in {"inventory", "drain", "settle", "terminate"}
           /\ Aimed(o)
           /\ o.pinned = 0 \/ Known(o.pinned)
           /\ client[c].observed \subseteq o.observed
<1>1. CASE client[c].attach = "serving"
  <2>1. Known(client[c].pinned) /\ client[c].pinned # 0
    BY SMT, <1>1, ConvergeAssumption DEF Inv, ClientInv, PinInv, Known, Instances
  <2>2. Onward(c) = [pinned |-> client[c].pinned, target |-> client[c].pinned, onward |-> <<>>,
                     observed |-> client[c].observed \cup {client[c].pinned}, at |-> "drain"]
    BY <1>1 DEF Onward, Evicting
  <2> QED
    BY SMT, <2>1, <2>2 DEF Aimed
<1>2. CASE client[c].attach # "serving"
  <2> DEFINE at == IF record = 0 THEN "inventory"
                   ELSE IF client[c].attach = "protocol" THEN "terminate" ELSE "settle"
  <2>1. Onward(c) = [pinned |-> record, target |-> record, onward |-> <<>>,
                     observed |-> client[c].observed \cup ({record} \ {0}), at |-> at]
    BY <1>2 DEF Onward, Proving
  <2>2. record = 0 \/ Known(record)
    BY DEF Inv, WorldInv
  <2>3. at \in {"inventory", "settle", "terminate"} /\ (at # "inventory" => record # 0)
    OBVIOUS
  <2> HIDE DEF at
  <2> QED
    BY SMT, <2>1, <2>2, <2>3 DEF Aimed
<1> QED
  BY <1>1, <1>2

\* A pass that goes on: at once, or after the service layer answered.
LEMMA OnwardInv ==
    ASSUME Inv, NEW c \in Clients, client[c].at \in {"record", "reach"}, Quiet, NEW o, Put(c, o),
           DOMAIN o = {"pinned", "target", "onward", "observed", "at"},
           o.at \in {"inventory", "drain", "settle", "terminate"}, Aimed(o),
           o.pinned = 0 \/ Known(o.pinned),
           client[c].observed \subseteq o.observed
    PROVE  Inv'
<1>1. lock = c /\ client[c].op \in {"ensure", "stop"} /\ (client[c].op = "ensure" => note = client[c].want)
  BY Working DEF Past
<1>2. /\ ClientShape' /\ Others(c) /\ Kept(c)
      /\ client'[c].at = o.at /\ client'[c].pinned = o.pinned
      /\ client'[c].target = o.target /\ client'[c].observed = o.observed
  BY ZenonT(40), PutEffect DEF Inv, Fields, Kept
<1>3. LockInv(c)' /\ PlacedInv(c)'
  BY <1>1, <1>2 DEF Inv, ClientInv, LockInv, PlacedInv, Kept, Steps, Quiet, program
<1>4. AnswerInv(c)'
  BY <1>2 DEF AnswerInv
<1>5. PinInv(c)'
  BY <1>2 DEF PinInv, Aimed, Quiet, world, Known
<1> QED
  BY <1>2, <1>3, <1>4, <1>5, QuietInv DEF StepInv, ClientInv

\* So does Stop's decision over what it observed.
LEMMA StopDecidesInv ==
    ASSUME Inv, NEW c \in Clients, StopDecides(c)
    PROVE  Inv'
<1>1. client[c].at = "record" /\ Quiet /\ Put(c, Onward(c))
  BY DEF StopDecides, At
<1> QED
  BY <1>1, OnwardAims, OnwardInv

\* So does the query of the service layer, which resumes what was decided.
LEMMA ReachServiceInv ==
    ASSUME Inv, NEW c \in Clients, ReachService(c)
    PROVE  Inv'
<1>1. client[c].at = "reach" /\ Quiet
  BY DEF ReachService, At
<1>2. CASE Fails(c)
  BY <1>1, <1>2, QuietFails
<1>3. CASE Put(c, client[c].onward)
  <2>1. /\ DOMAIN client[c].onward = {"pinned", "target", "onward", "observed", "at"}
        /\ client[c].onward.at \in {"inventory", "drain", "settle", "terminate"}
        /\ Aimed(client[c].onward)
        /\ client[c].onward.pinned = 0 \/ Known(client[c].onward.pinned)
        /\ client[c].observed \subseteq client[c].onward.observed
    BY <1>1 DEF Inv, ClientInv, PinInv
  <2> QED
    BY <1>1, <1>3, <2>1, OnwardInv
<1> QED
  BY <1>2, <1>3 DEF ReachService

\* A call that returns with an answer it has seen to be so.
LEMMA EnsuredInv ==
    ASSUME Inv, NEW c \in Clients, client[c].at \in Past, client[c].op = "ensure", Quiet, NEW n,
           Put(c, [at |-> "return", ok |-> TRUE, after |-> n]),
           Known(n), inst[n].build = client[c].want
    PROVE  Inv'
<1>1. lock = c /\ note = client[c].want
  BY Working
<1>2. DOMAIN [at |-> "return", ok |-> TRUE, after |-> n] = {"at", "ok", "after"}
  OBVIOUS
<1>3. /\ ClientShape' /\ Others(c) /\ Kept(c) /\ KeptPin(c)
      /\ client'[c].at = "return" /\ client'[c].ok = TRUE /\ client'[c].after = n
  BY ZenonT(40), <1>2, PutEffect DEF Inv, Fields, Kept, KeptPin
<1>4. LockInv(c)' /\ PlacedInv(c)'
  BY <1>1, <1>3 DEF Inv, ClientInv, LockInv, PlacedInv, Kept, Steps, Quiet, program
<1>5. AnswerInv(c)'
  BY <1>3 DEF AnswerInv, Quiet, world, Known, Kept
<1>6. (client[c].pinned = 0 \/ Known(client[c].pinned))'
  BY <1>3 DEF Inv, ClientInv, PinInv, Known, KeptPin, Quiet, world
<1>7. PinInv(c)'
  BY <1>3, <1>6 DEF PinInv, Aimed
<1> QED
  BY <1>3, <1>4, <1>5, <1>7, QuietInv DEF StepInv, ClientInv, KeptPin

\* So does Ensure's decision over what it observed.
LEMMA EnsureDecidesInv ==
    ASSUME Inv, NEW c \in Clients, EnsureDecides(c)
    PROVE  Inv'
<1>1. client[c].at = "record" /\ client[c].at \in Past /\ client[c].op = "ensure" /\ Quiet
  BY DEF EnsureDecides, At, Past
<1>2. lock = c /\ note = client[c].want
  BY <1>1, Working
<1>3. CASE Go(c, "socket")
  BY <1>1, <1>2, <1>3, QuietGo
<1>4. CASE /\ client[c].did = "nothing"
           /\ Put(c, [at |-> "return", ok |-> TRUE, after |-> client[c].pinned])
  <2>1. Known(client[c].pinned) /\ inst[client[c].pinned].build = client[c].want
    BY <1>1, <1>4 DEF Inv, ClientInv, PinInv
  <2> QED
    BY <1>1, <1>4, <2>1, EnsuredInv
<1>5. ASSUME NEW did, Put(c, [at |-> "reach", onward |-> Onward(c), did |-> did])
      PROVE  Inv'
  <2> DEFINE o == Onward(c)
  <2>1. DOMAIN [at |-> "reach", onward |-> o, did |-> did] = {"at", "onward", "did"}
    OBVIOUS
  <2>2. /\ ClientShape' /\ Others(c) /\ Kept(c) /\ KeptPin(c)
        /\ client'[c].at = "reach" /\ client'[c].onward = o
    BY ZenonT(40), <1>5, <2>1, PutEffect DEF Inv, Fields, Kept, KeptPin
  <2>3. LockInv(c)' /\ PlacedInv(c)'
    BY <1>1, <1>2, <2>2 DEF Inv, ClientInv, LockInv, PlacedInv, Kept, Steps, Quiet, program
  <2>4. AnswerInv(c)'
    BY <2>2 DEF AnswerInv
  <2>5. (client[c].pinned = 0 \/ Known(client[c].pinned))'
    BY <1>1, <2>2 DEF Inv, ClientInv, PinInv, Known, KeptPin, Quiet, world
  <2>6. /\ DOMAIN o = {"pinned", "target", "onward", "observed", "at"}
        /\ o.at \in {"inventory", "drain", "settle", "terminate"}
        /\ Aimed(o)
        /\ o.pinned = 0 \/ Known(o.pinned)
        /\ client[c].observed \subseteq o.observed
    BY <1>1, OnwardAims
  <2> HIDE DEF o
  <2>7. PinInv(c)'
    BY <1>1, <2>2, <2>5, <2>6 DEF PinInv, Aimed, Quiet, world, Known, KeptPin
  <2> QED
    BY <1>1, <2>2, <2>3, <2>4, <2>7, QuietInv DEF StepInv, ClientInv, KeptPin
<1> QED
  BY <1>3, <1>4, <1>5 DEF EnsureDecides

\* So does the wait for the wanted build to be ready.
LEMMA WaitReadyInv ==
    ASSUME Inv, NEW c \in Clients, WaitReady(c)
    PROVE  Inv'
<1>1. client[c].at = "wait" /\ client[c].at \in Past /\ Quiet
  BY DEF WaitReady, At, Past
<1>2. client[c].op = "ensure"
  BY <1>1 DEF Inv, ClientInv, LockInv
<1>3. CASE Fails(c)
  BY <1>1, <1>3, QuietFails
<1>4. CASE ~Fails(c)
  <2>1. PICK n \in Instances : /\ inst[n].state = "ready" /\ inst[n].build = client[c].want
                               /\ Put(c, [at |-> "return", ok |-> TRUE, after |-> n])
    BY <1>4 DEF WaitReady
  <2>2. Known(n)
    BY <2>1 DEF Known
  <2> QED
    BY <1>1, <1>2, <2>1, <2>2, EnsuredInv
<1> QED
  BY <1>3, <1>4

\* So does the deadline of a call.
LEMMA ExpireInv ==
    ASSUME Inv, NEW c \in Clients, Expire(c)
    PROVE  Inv'
<1>1. Put(c, [late |-> TRUE]) /\ Quiet
  BY DEF Expire
<1>2. DOMAIN [late |-> TRUE] = {"late"}
  OBVIOUS
<1>3. /\ ClientShape' /\ Others(c) /\ Kept(c) /\ KeptPin(c)
      /\ client'[c].at = client[c].at /\ client'[c].ok = client[c].ok
      /\ client'[c].onward = client[c].onward /\ client'[c].after = client[c].after
      /\ client'[c].attach = client[c].attach /\ client'[c].did = client[c].did
  BY <1>1, <1>2, PutEffect DEF Inv, Fields, Kept, KeptPin
<1>4. LockInv(c)' /\ PlacedInv(c)'
  BY ZenonT(40), <1>1, <1>3 DEF Inv, ClientInv, LockInv, PlacedInv, Kept, Quiet, program
<1>5. AnswerInv(c)'
  BY <1>1, <1>3 DEF Inv, ClientInv, AnswerInv, Kept, KeptPin, Quiet, world, Known, Live, Bare
<1>6. PinInv(c)'
  BY ZenonT(40), <1>1, <1>3 DEF Inv, ClientInv, PinInv, Aimed, Kept, KeptPin, Quiet, world, Known, Live
<1> QED
  BY <1>1, <1>3, <1>4, <1>5, <1>6, QuietInv DEF StepInv, ClientInv, KeptPin

-----------------------------------------------------------------------------
(* Steps that change the label: they are taken under the start lock, or     *)
(* leave the label to whoever holds it.                                     *)

\* A step of a call that holds the start lock keeps what the others know.
LEMMA BusyInv ==
    ASSUME Inv, NEW c \in Clients, StepInv(c), InstShape', Ages, WorldInv', ProgramInv',
           struck' = struck \/ (struck' = struck \cup {<<c, client[c].target>>}
                                /\ client[c].target \in client[c].observed),
           lock # c =>
              /\ lock # None => lock' = lock
              /\ UNCHANGED <<note, placed, job>>
    PROVE  Inv'
<1>1. StruckInv'
  <2> SUFFICES ASSUME NEW s \in struck' PROVE s[1] \in Clients /\ s[2] \in client'[s[1]].observed
    BY DEF StruckInv
  <2>1. CASE s \in struck
    BY <2>1 DEF Inv, StepInv, Others, StruckInv
  <2>2. CASE s = <<c, client[c].target>> /\ client[c].target \in client[c].observed
    BY <2>2 DEF StepInv
  <2> QED
    BY <2>1, <2>2
<1>2. ASSUME NEW d \in Clients \ {c} PROVE ClientInv(d)'
  <2>1. client'[d] = client[d]
    BY DEF StepInv, Others
  <2>2. lock = d => lock # c /\ lock # None
    BY ConvergeAssumption
  <2> QED
    BY <2>1, <2>2, OtherClient DEF Bare
<1> QED
  BY <1>1, <1>2 DEF Inv, StepInv

\* A failing step that leaves everything but the call and, perhaps, the program.
LEMMA FailsQuietly ==
    ASSUME Inv, NEW c \in Clients, client[c].at # "done", Fails(c),
           UNCHANGED <<world, program, lock, struck, booted>>
    PROVE  Inv'
BY QuietFails DEF Quiet

\* So does taking the start lock.
LEMMA AcquireInv ==
    ASSUME Inv, NEW c \in Clients, NEW step \in {"place", "socket"}, Acquire(c, step),
           client[c].op = IF step = "place" THEN "ensure" ELSE "stop"
    PROVE  Inv'
<1>1. client[c].at = "lock" /\ UNCHANGED <<world, program, struck, booted>>
  BY DEF Acquire, At
<1>2. CASE Fails(c) /\ UNCHANGED lock
  BY <1>1, <1>2, FailsQuietly
<1>3. CASE lock = None /\ lock' = c /\ Go(c, step)
  <2>1. /\ ClientShape' /\ Others(c) /\ Kept(c) /\ KeptPin(c)
        /\ client'[c].at = step
    BY <1>3, GoEffect DEF Inv
  <2>2. InstShape' /\ Ages /\ NoBirth
    BY <1>1, SameAges DEF Inv, world
  <2>3. WorldInv' /\ ProgramInv'
    BY <1>1 DEF Inv, world, program, WorldInv, ProgramInv, Known, Idle, JobRuns, Live
  <2>4. LockInv(c)'
    BY <1>3, <2>1 DEF Inv, ClientInv, LockInv, Kept, Steps
  <2>5. PlacedInv(c)' /\ AnswerInv(c)'
    BY <2>1 DEF PlacedInv, AnswerInv, Kept, Past
  <2>6. (client[c].pinned = 0 \/ Known(client[c].pinned))'
    BY <1>1, <2>1 DEF Inv, ClientInv, PinInv, Known, KeptPin, world
  <2>7. PinInv(c)'
    BY <2>1, <2>6 DEF PinInv, Aimed
  <2>8. StepInv(c)
    BY <2>1, <2>4, <2>5, <2>7 DEF StepInv, ClientInv, KeptPin
  <2>9. struck' = struck /\ UNCHANGED <<note, placed, job>>
    BY <1>1 DEF world, program
  <2> QED
    BY <1>3, <2>2, <2>3, <2>8, <2>9, BusyInv
<1> QED
  BY <1>2, <1>3 DEF Acquire

\* A step of the placement, under the lock: from here on the call has pinned
\* nobody.
LEMMA PlacingInv ==
    ASSUME Inv, NEW c \in Clients, client[c].at \in {"place", "write", "note"},
           UNCHANGED <<world, lock, struck, booted>>, ProgramInv',
           ClientShape', Others(c), Kept(c), KeptPin(c),
           client'[c].at \in {"write", "note", "socket"},
           client'[c].at \in {"write", "note"} => note' = None,
           client'[c].at = "note" => placed'.build = client[c].want,
           client'[c].at = "socket" => note' = client[c].want
    PROVE  Inv'
<1>1. InstShape' /\ Ages /\ NoBirth
  BY SameAges DEF Inv, world
<1>2. WorldInv'
  BY DEF Inv, world, WorldInv, Known, Idle, JobRuns, Live
<1>3. lock = c /\ client[c].op = "ensure"
  BY DEF Inv, ClientInv, LockInv
<1>4. LockInv(c)'
  BY <1>3 DEF Inv, ClientInv, LockInv, Kept, Steps
<1>5. PlacedInv(c)' /\ AnswerInv(c)'
  BY DEF PlacedInv, AnswerInv, Kept, Past
<1>6. (client[c].pinned = 0 \/ Known(client[c].pinned))'
  BY DEF Inv, ClientInv, PinInv, Known, KeptPin, world
<1>7. PinInv(c)'
  BY <1>6 DEF PinInv, Aimed
<1>8. StepInv(c)
  BY <1>4, <1>5, <1>7 DEF StepInv, ClientInv, KeptPin
<1>9. struck' = struck
  OBVIOUS
<1> QED
  BY <1>1, <1>2, <1>3, <1>8, <1>9, BusyInv

\* So does place, which drops the build record before it writes.
LEMMA PlaceInv ==
    ASSUME Inv, NEW c \in Clients, Place(c)
    PROVE  Inv'
<1>1. client[c].at = "place" /\ UNCHANGED <<world, placed, lock, struck, booted>>
  BY DEF Place, At
<1>2. CASE Fails(c) /\ UNCHANGED note
  BY <1>1, <1>2, FailsQuietly DEF program
<1>3. CASE note = client[c].want /\ Go(c, "socket") /\ UNCHANGED note
  <2>1. ClientShape' /\ Others(c) /\ Kept(c) /\ KeptPin(c) /\ client'[c].at = "socket"
    BY <1>3, GoEffect DEF Inv
  <2>2. ProgramInv'
    BY <1>1, <1>3 DEF Inv, ProgramInv
  <2> QED
    BY <1>1, <1>3, <2>1, <2>2, PlacingInv
<1>4. CASE note' = None /\ Go(c, "write")
  <2>1. ClientShape' /\ Others(c) /\ Kept(c) /\ KeptPin(c) /\ client'[c].at = "write"
    BY <1>4, GoEffect DEF Inv
  <2> QED
    BY <1>1, <1>4, <2>1, PlacingInv DEF ProgramInv
<1> QED
  BY <1>2, <1>3, <1>4 DEF Place

\* So does the write of the program's bytes, with no build recorded over them.
LEMMA WriteProgramInv ==
    ASSUME Inv, NEW c \in Clients, WriteProgram(c)
    PROVE  Inv'
<1>1. client[c].at = "write" /\ UNCHANGED <<world, note, lock, struck, booted>>
  BY DEF WriteProgram, At
<1>2. CASE Fails(c) /\ UNCHANGED placed
  BY <1>1, <1>2, FailsQuietly DEF program
<1>3. CASE /\ placed' = [build |-> client[c].want, placement |-> placed.placement + 1]
           /\ Go(c, "note")
  <2>1. ClientShape' /\ Others(c) /\ Kept(c) /\ KeptPin(c) /\ client'[c].at = "note"
    BY <1>3, GoEffect DEF Inv
  <2>2. note = None /\ placed'.build = client[c].want
    BY <1>1, <1>3 DEF Inv, ClientInv, PlacedInv
  <2> QED
    BY <1>1, <2>1, <2>2, PlacingInv DEF ProgramInv
<1> QED
  BY <1>2, <1>3 DEF WriteProgram

\* So does the build record, written after the bytes.
LEMMA WriteNoteInv ==
    ASSUME Inv, NEW c \in Clients, WriteNote(c)
    PROVE  Inv'
<1>1. client[c].at = "note" /\ UNCHANGED <<world, placed, lock, struck, booted>>
  BY DEF WriteNote, At
<1>2. CASE Fails(c) /\ UNCHANGED note
  BY <1>1, <1>2, FailsQuietly DEF program
<1>3. CASE note' = client[c].want /\ Put(c, [at |-> "socket", replaced |-> TRUE])
  <2>1. DOMAIN [at |-> "socket", replaced |-> TRUE] = {"at", "replaced"}
    OBVIOUS
  <2>2. ClientShape' /\ Others(c) /\ Kept(c) /\ KeptPin(c) /\ client'[c].at = "socket"
    BY <1>3, <2>1, PutEffect DEF Inv, Fields, Kept, KeptPin
  <2>3. placed.build = client[c].want
    BY <1>1 DEF Inv, ClientInv, PlacedInv
  <2> QED
    BY <1>1, <1>3, <2>2, <2>3, PlacingInv DEF ProgramInv
<1> QED
  BY <1>2, <1>3 DEF WriteNote

\* A verb delivered to the target: the call stays aimed at it.
LEMMA StrikeInv ==
    ASSUME Inv, NEW c \in Clients, client[c].at \in {"dispatch", "term", "kill"},
           InstShape', Ages, NoBirth,
           UNCHANGED <<course, record, layer, job, program, lock, booted>>,
           struck' = struck \/ struck' = struck \cup {<<c, client[c].target>>},
           ClientShape', Others(c), Kept(c), KeptPin(c), client'[c].at \in {"leaving", "kill"}
    PROVE  Inv'
<1>1. lock = c /\ client[c].op \in {"ensure", "stop"} /\ (client[c].op = "ensure" => note = client[c].want)
  BY Working DEF Past
<1>2. /\ client[c].target = client[c].pinned /\ client[c].target # 0
      /\ client[c].target \in client[c].observed /\ Known(client[c].target)
  BY Aiming
<1>3. WorldInv'
  BY NoBirthJobs DEF Inv, WorldInv, Ages, Known, Idle
<1>4. ProgramInv' /\ note' = note /\ placed' = placed
  BY DEF Inv, ProgramInv, program
<1>5. LockInv(c)'
  BY <1>1 DEF Inv, ClientInv, LockInv, Kept, Steps
<1>6. PlacedInv(c)' /\ AnswerInv(c)'
  BY <1>1, <1>4 DEF PlacedInv, AnswerInv, Kept
<1>7. (client[c].pinned = 0 \/ Known(client[c].pinned))'
  BY <1>2 DEF Ages, KeptPin, Known
<1>8. Aimed(client[c])'
  BY <1>2 DEF Aimed, KeptPin
<1>9. PinInv(c)'
  BY <1>7, <1>8 DEF PinInv
<1>10. StepInv(c)
  BY <1>5, <1>6, <1>9 DEF StepInv, ClientInv, KeptPin
<1>11. struck' = struck \/ (struck' = struck \cup {<<c, client[c].target>>}
                            /\ client[c].target \in client[c].observed)
  BY <1>2
<1> QED
  BY <1>1, <1>3, <1>4, <1>10, <1>11, BusyInv

\* So does the drain verb, sent to an incumbent that was observed.
LEMMA DispatchDrainInv ==
    ASSUME Inv, NEW c \in Clients, DispatchDrain(c)
    PROVE  Inv'
<1> DEFINE n == client[c].target
<1>1. client[c].at = "dispatch" /\ UNCHANGED <<course, record, layer, job, program, lock, booted>>
  BY DEF DispatchDrain, At
<1>2. n \in Instances
  BY <1>1, Aiming DEF Known
<1>3. CASE Fails(c) /\ UNCHANGED <<inst, struck>>
  BY <1>1, <1>3, FailsQuietly DEF world
<1>4. ASSUME Put(c, [at |-> "leaving", session |-> 0])
      PROVE  ClientShape' /\ Others(c) /\ Kept(c) /\ KeptPin(c) /\ client'[c].at = "leaving"
  <2>1. DOMAIN [at |-> "leaving", session |-> 0] = {"at", "session"}
    OBVIOUS
  <2> QED
    BY ZenonT(40), <1>4, <2>1, PutEffect DEF Inv, Fields, Kept, KeptPin
<1>5. CASE /\ inst[n].state \in Listening
           /\ inst' = [inst EXCEPT ![n].state = "draining"]
           /\ Strikes(c, n)
           /\ Put(c, [at |-> "leaving", session |-> 0])
  <2>1. inst[n].state \in Alive /\ "draining" \in Alive \cup {"gone"}
    BY <1>5 DEF Listening, Alive
  <2>2. InstShape' /\ Ages /\ NoBirth
    BY <1>2, <1>5, <2>1, StateAges DEF Inv
  <2>3. struck' = struck \cup {<<c, client[c].target>>}
    BY <1>5 DEF Strikes
  <2> QED
    BY <1>1, <1>4, <1>5, <2>2, <2>3, StrikeInv
<1>6. CASE Put(c, [at |-> "leaving", session |-> 0]) /\ UNCHANGED <<inst, struck>>
  <2>1. InstShape' /\ Ages /\ NoBirth
    BY <1>6, SameAges DEF Inv
  <2> QED
    BY <1>1, <1>4, <1>6, <2>1, StrikeInv
<1> QED
  BY <1>3, <1>5, <1>6 DEF DispatchDrain, Fails

\* So do Terminate's signals, sent to an incumbent that was observed.
LEMMA TerminateSignalsInv ==
    ASSUME Inv, NEW c \in Clients, TerminateSignals(c)
    PROVE  Inv'
<1> DEFINE n == client[c].target
<1>1. /\ client[c].at \in {"term", "kill"} /\ client[c].at \in Past
      /\ UNCHANGED <<course, record, layer, job, program, lock, booted>>
  BY DEF TerminateSignals, Past
<1>2. n \in Instances /\ n = client[c].pinned
  BY <1>1, Aiming DEF Known
<1>3. CASE Fails(c) /\ UNCHANGED <<inst, struck>>
  BY <1>1, <1>3, FailsQuietly DEF world
<1>4. CASE ~Live(n) /\ Proved(c) /\ UNCHANGED <<inst, struck>>
  <2>1. Quiet
    BY <1>1, <1>4 DEF Quiet, world
  <2> QED
    BY <1>1, <1>2, <1>4, <2>1, ProvedInv
<1>5. CASE /\ Live(n)
           /\ inst' = [inst EXCEPT ![n].state = IF @ \in Listening THEN "draining" ELSE @]
           /\ Strikes(c, n) /\ Go(c, "kill")
  <2> DEFINE s == IF inst[n].state \in Listening THEN "draining" ELSE inst[n].state
  <2>1. inst[n].state \in Alive /\ s \in Alive \cup {"gone"}
    BY <1>5 DEF Live, Alive
  <2>2. inst' = [inst EXCEPT ![n].state = s]
    BY <1>2, <1>5 DEF Inv, InstShape
  <2> HIDE DEF s
  <2>3. InstShape' /\ Ages /\ NoBirth
    BY <1>2, <2>1, <2>2, StateAges DEF Inv
  <2>4. struck' = struck \cup {<<c, client[c].target>>}
    BY <1>5 DEF Strikes
  <2>5. ClientShape' /\ Others(c) /\ Kept(c) /\ KeptPin(c) /\ client'[c].at = "kill"
    BY <1>5, GoEffect DEF Inv
  <2> QED
    BY <1>1, <2>3, <2>4, <2>5, StrikeInv
<1>6. CASE /\ Live(n) /\ At(c, "kill")
           /\ inst' = [inst EXCEPT ![n].state = "gone"]
           /\ Strikes(c, n) /\ UNCHANGED client
  <2>1. InstShape' /\ Ages /\ NoBirth
    BY <1>2, <1>6, StateAges DEF Inv, Live
  <2>2. struck' = struck \cup {<<c, client[c].target>>}
    BY <1>6 DEF Strikes
  <2>3. ClientShape' /\ Others(c) /\ Kept(c) /\ KeptPin(c) /\ client'[c].at = "kill"
    BY <1>6 DEF Inv, ClientShape, Others, Kept, KeptPin, At
  <2> QED
    BY <1>1, <2>1, <2>2, <2>3, StrikeInv
<1> QED
  BY <1>3, <1>4, <1>5, <1>6 DEF TerminateSignals

\* So does applying the service over a departed incumbent.
LEMMA ApplyServiceInv ==
    ASSUME Inv, NEW c \in Clients, ApplyService(c)
    PROVE  Inv'
<1>1. client[c].at = "apply" /\ UNCHANGED <<course, record, layer, program, lock, struck>>
  BY DEF ApplyService, At
<1>2. CASE Fails(c) /\ UNCHANGED <<inst, job, booted>>
  BY <1>1, <1>2, FailsQuietly DEF world
<1>3. CASE job' = "exact" /\ Go(c, "wait") /\ ~(Fails(c) /\ UNCHANGED <<inst, job, booted>>)
  <2> DEFINE jobs == {n \in Instances : Live(n) /\ inst[n].job}
             out == IF job = "exact" THEN {} ELSE jobs
             born == {n \in Instances : Fresh(n) /\ jobs \ out = {}}
  <2>1. inst' = [n \in Instances |-> IF n \in out THEN [inst[n] EXCEPT !.state = "gone"]
                                     ELSE IF n \in born THEN Born ELSE inst[n]]
    BY <1>3 DEF ApplyService
  <2>2. \A n \in born : inst[n] = Unborn
    BY DEF Fresh
  <2> HIDE DEF jobs, out, born
  <2>3. InstShape'
    BY <2>1 DEF Inv, InstShape, Born
  <2>4. \A n \in Instances : Known(n) =>
           /\ inst'[n].build = inst[n].build
           /\ inst'[n].state = inst[n].state \/ inst'[n].state = "gone"
    BY SMT, <2>1, <2>2 DEF Inv, InstShape, Known, Unborn
  <2>5. Ages
    BY <2>4 DEF Ages, Known, Live, Alive
  <2>6. WorldInv' /\ ProgramInv' /\ note' = note
    BY <1>1, <1>3, <2>5 DEF Inv, WorldInv, ProgramInv, program, Ages, Known, Idle
  <2>7. ClientShape' /\ Others(c) /\ Kept(c) /\ KeptPin(c) /\ client'[c].at = "wait"
    BY <1>3, GoEffect DEF Inv
  <2>8. lock = c /\ client[c].op = "ensure" /\ note = client[c].want
    BY <1>1 DEF Inv, ClientInv, LockInv, PlacedInv, Past
  <2>9. LockInv(c)' /\ PlacedInv(c)' /\ AnswerInv(c)'
    BY <1>1, <2>6, <2>7, <2>8 DEF Inv, ClientInv, LockInv, PlacedInv, AnswerInv, Kept, Steps
  <2>10. (client[c].pinned = 0 \/ Known(client[c].pinned))'
    BY <2>5, <2>7 DEF Inv, ClientInv, PinInv, Ages, KeptPin, Known
  <2>11. PinInv(c)'
    BY <2>7, <2>10 DEF PinInv, Aimed
  <2>12. StepInv(c)
    BY <2>7, <2>9, <2>11 DEF StepInv, ClientInv, KeptPin
  <2>13. struck' = struck
    BY <1>1
  <2> QED
    BY <2>3, <2>5, <2>6, <2>8, <2>12, <2>13, BusyInv
<1> QED
  BY <1>2, <1>3 DEF ApplyService

\* What a boot-out leaves: nothing of the job runs, and nothing else changed.
LEMMA BootOutEffect ==
    ASSUME InstShape, inst' = [n \in Instances |-> BootOut(n)]
    PROVE  InstShape' /\ Ages /\ ~JobRuns'
<1>1. InstShape'
  BY DEF InstShape, BootOut
<1>2. \A n \in Instances :
         /\ inst'[n].build = inst[n].build /\ inst'[n].job = inst[n].job
         /\ inst'[n].state = IF Live(n) /\ inst[n].job THEN "gone" ELSE inst[n].state
  BY DEF InstShape, BootOut
<1>3. Ages
  BY <1>2, LiveKnown DEF Ages, Known, Live, Alive
<1>4. ~JobRuns'
  BY <1>2 DEF JobRuns, Live, Alive
<1> QED
  BY <1>1, <1>3, <1>4

\* Removing the job leaves no file it could start from: the service layer
\* boots out what it runs, or is gone, or has no file of it.
LEMMA RemoveAgentInv ==
    ASSUME Inv, NEW c \in Clients, RemoveAgent(c)
    PROVE  Inv'
<1>1. client[c].at = "remove" /\ UNCHANGED <<course, record, layer, program, lock, struck, booted>>
  BY DEF RemoveAgent, At
<1>2. CASE Fails(c) /\ UNCHANGED <<job, inst>>
  BY <1>1, <1>2, FailsQuietly DEF world
<1>3. lock = c /\ client[c].op = "stop"
  BY <1>1 DEF Inv, ClientInv, LockInv
<1>4. ASSUME InstShape', Ages, Idle'
      PROVE  WorldInv' /\ ProgramInv'
  BY <1>1, <1>4 DEF Inv, WorldInv, ProgramInv, program, Ages, Known
<1>5. CASE Fails(c) /\ inst' = [n \in Instances |-> BootOut(n)]
  <2>1. InstShape' /\ Ages /\ Idle'
    BY <1>5, BootOutEffect DEF Inv, Idle
  <2>2. StepInv(c)
    BY <1>1, <1>5, <2>1, FailsInv DEF StepInv, KeptPin
  <2> QED
    BY <1>1, <1>3, <1>4, <2>1, <2>2, BusyInv
<1>6. ASSUME InstShape', Ages, Idle', Bare', Ends(c, TRUE, "none")
      PROVE  Inv'
  <2>1. /\ ClientShape' /\ Others(c) /\ Kept(c) /\ KeptPin(c)
        /\ client'[c].at = "return" /\ client'[c].ok = TRUE
    BY <1>6, EndsEffect DEF Inv
  <2>2. LockInv(c)' /\ PlacedInv(c)'
    BY <1>1, <1>3, <2>1 DEF Inv, ClientInv, LockInv, PlacedInv, Kept, Steps
  <2>3. (client[c].pinned = 0 \/ Known(client[c].pinned))' /\ (~Live(client[c].pinned))'
    BY ZenonT(40), <1>1, <1>6, <2>1, ZeroNotLive DEF Inv, ClientInv, PinInv, Ages, KeptPin, Known, Live
  <2>4. PinInv(c)'
    BY <2>1, <2>3 DEF PinInv, Aimed
  <2>5. AnswerInv(c)'
    BY <1>3, <1>6, <2>1, <2>3 DEF AnswerInv, Kept
  <2>6. StepInv(c)
    BY <2>1, <2>2, <2>4, <2>5 DEF StepInv, ClientInv, KeptPin
  <2> QED
    BY <1>1, <1>3, <1>4, <1>6, <2>6, BusyInv
<1>7. CASE UNCHANGED <<job, inst>> /\ Bare /\ Ends(c, TRUE, "none")
  <2>1. InstShape' /\ Ages /\ Idle' /\ Bare'
    BY <1>1, <1>7, SameAges DEF Inv, WorldInv, Idle, JobRuns, Live, Bare
  <2> QED
    BY <1>6, <1>7, <2>1
<1>8. CASE job' = "none" /\ inst' = [n \in Instances |-> BootOut(n)] /\ Ends(c, TRUE, "none")
  BY <1>6, <1>8, BootOutEffect DEF Inv, Idle, Bare
<1>9. CASE job' = "none" /\ layer = "gone" /\ UNCHANGED inst /\ Ends(c, TRUE, "none")
  BY <1>1, <1>6, <1>9, SameAges DEF Inv, Idle, Bare
<1> QED
  BY <1>2, <1>5, <1>7, <1>8, <1>9 DEF RemoveAgent, RemoveLaunchd, RemoveSupervised, Bare

\* The lock is dropped by the client that holds it.
LEMMA ReturnInv ==
    ASSUME Inv, NEW c \in Clients, Return(c)
    PROVE  Inv'
<1> DEFINE fields == [at |-> "done", late |-> TRUE, replaced |-> FALSE, attach |-> "none",
                      session |-> 0, pinned |-> 0, target |-> 0, onward |-> <<>>]
<1>1. /\ client[c].at = "return" /\ UNCHANGED <<world, program, struck, booted>>
      /\ lock' = (IF lock = c THEN None ELSE lock) /\ Put(c, fields)
  BY DEF Return, At
<1>2. DOMAIN fields = {"at", "late", "replaced", "attach", "session", "pinned", "target", "onward"}
  OBVIOUS
<1>3. fields["at"] = "done" /\ fields["pinned"] = 0
  OBVIOUS
<1> HIDE DEF fields
<1>4. /\ ClientShape' /\ Others(c) /\ Kept(c) /\ client'[c].observed = client[c].observed
      /\ client'[c].at = "done" /\ client'[c].pinned = 0
  BY SMT, <1>1, <1>2, <1>3, PutEffect DEF Inv, Fields, Kept
<1>5. InstShape' /\ Ages /\ NoBirth
  BY <1>1, SameAges DEF Inv, world
<1>6. WorldInv' /\ ProgramInv'
  BY <1>1 DEF Inv, world, program, WorldInv, ProgramInv, Known, Idle, JobRuns, Live
<1>7. LockInv(c)' /\ PlacedInv(c)' /\ AnswerInv(c)' /\ PinInv(c)'
  BY <1>4 DEF Inv, ClientInv, LockInv, PlacedInv, AnswerInv, PinInv, Aimed, Kept, Steps, Past
<1>8. StepInv(c)
  BY <1>4, <1>7 DEF StepInv, ClientInv
<1>9. struck' = struck /\ UNCHANGED <<note, placed, job>>
  BY <1>1 DEF world, program
<1> QED
  BY <1>1, <1>5, <1>6, <1>8, <1>9, BusyInv

\* So does the death of a client, which frees its start lock.
LEMMA CrashClientInv ==
    ASSUME Inv, NEW c \in Clients, CrashClient(c)
    PROVE  Inv'
<1>1. /\ client[c].at \notin {"lock", "return", "done"} /\ UNCHANGED <<world, program, struck, booted>>
      /\ Fails(c)
  BY DEF CrashClient, Fails
<1>2. lock = c
  BY <1>1 DEF Inv, ClientInv, LockInv
<1>3. InstShape' /\ Ages /\ NoBirth
  BY <1>1, SameAges DEF Inv, world
<1>4. WorldInv' /\ ProgramInv'
  BY <1>1 DEF Inv, world, program, WorldInv, ProgramInv, Known, Idle, JobRuns, Live
<1>5. StepInv(c)
  BY <1>1, <1>3, FailsInv DEF StepInv, KeptPin
<1>6. struck' = struck
  BY <1>1
<1> QED
  BY <1>2, <1>3, <1>4, <1>5, <1>6, BusyInv

\* The daemon and its service layer move: a job is started only while one is
\* kept, and a plist that is lost is not there to start from.
LEMMA WorldStepInv ==
    ASSUME Inv, World
    PROVE  Inv'
<1>1. UNCHANGED <<course, program, lock, client, struck, booted>>
  BY DEF World
<1>2. ASSUME InstShape', Ages, WorldInv', Bare => Bare'
      PROVE  Inv'
  <2>1. ASSUME NEW d \in Clients PROVE ClientInv(d)'
    <3>1. client'[d] = client[d] /\ UNCHANGED <<lock, note, placed>>
      BY <1>1 DEF program
    <3> QED
      BY <1>2, <3>1, OtherClient
  <2>2. ClientShape' /\ ProgramInv' /\ StruckInv'
    BY <1>1 DEF Inv, ClientShape, ProgramInv, StruckInv, program
  <2> QED
    BY <1>2, <2>1, <2>2 DEF Inv
<1>3. CASE Relaunch
  <2>1. PICK n \in Instances : inst[n] = Unborn /\ inst' = [inst EXCEPT ![n] = Born]
    BY <1>3 DEF Relaunch, Fresh
  <2>2. InstShape'
    BY <2>1 DEF Inv, InstShape, Born
  <2>3. Ages
    BY SMT, <2>1 DEF Inv, InstShape, Ages, Known, Live, Unborn
  <2>4. WorldInv'
    BY <1>3, <2>3 DEF Inv, WorldInv, Relaunch, Ages, Known, Idle
  <2> QED
    BY <1>2, <1>3, <2>2, <2>3, <2>4 DEF Relaunch, Bare
<1>7. CASE SupervisorTurns
  <2>1. CASE layer' = "gone" /\ UNCHANGED <<inst, record, job>>
    <3>1. InstShape' /\ Ages
      BY <2>1, SameAges DEF Inv
    <3>2. WorldInv'
      BY <2>1 DEF Inv, WorldInv, Known, Idle
    <3> QED
      BY <1>2, <2>1, <3>1, <3>2 DEF Bare
  <2>2. CASE inst' = [n \in Instances |-> BootOut(n)] /\ UNCHANGED <<record, job>>
    <3>1. InstShape' /\ Ages /\ ~JobRuns'
      BY <2>2, BootOutEffect DEF Inv
    <3>2. WorldInv'
      BY <2>2, <3>1 DEF Inv, WorldInv, Ages, Known, Idle
    <3> QED
      BY <1>2, <2>2, <3>1, <3>2 DEF Bare
  <2> QED
    BY <1>7, <2>1, <2>2 DEF SupervisorTurns
<1>8. CASE PlistLost
  <2>1. InstShape' /\ Ages
    BY <1>8, SameAges DEF Inv, PlistLost
  <2>2. WorldInv'
    BY <1>8 DEF Inv, PlistLost, WorldInv, Known, Idle
  <2> QED
    BY <1>2, <1>8, <2>1, <2>2 DEF PlistLost, Bare
<1>4. ASSUME InstShape', Ages, NoBirth, record' = record \/ Known(record)', UNCHANGED <<layer, job>>
      PROVE  Inv'
  <2>1. WorldInv'
    BY <1>4, NoBirthJobs DEF Inv, WorldInv, Ages, Known, Idle
  <2> QED
    BY <1>2, <1>4, <2>1 DEF Bare
<1>5. ASSUME NEW n \in Instances, ServeStarts(n)
      PROVE  Inv'
  <2>1. inst[n].state \in Alive /\ UNCHANGED <<layer, job>>
    BY <1>5 DEF ServeStarts, Alive
  <2>2. CASE inst' = [inst EXCEPT ![n].state = "starting"] /\ record' = n
    <3>1. InstShape' /\ Ages /\ NoBirth
      BY <2>1, <2>2, StateAges DEF Inv, Alive
    <3>2. inst'[n].state = "starting"
      BY <2>2 DEF Inv, InstShape
    <3> QED
      BY <1>4, <2>1, <2>2, <3>1, <3>2 DEF Known
  <2>3. CASE inst' = [inst EXCEPT ![n].state = "gone"] /\ UNCHANGED record
    <3>1. InstShape' /\ Ages /\ NoBirth
      BY <2>1, <2>3, StateAges DEF Inv
    <3> QED
      BY <1>4, <2>1, <2>3, <3>1
  <2> QED
    BY <1>5, <2>2, <2>3 DEF ServeStarts
<1>6. ASSUME NEW n \in Instances, Turn(n)
      PROVE  Inv'
  <2>1. inst[n].state \in Alive /\ UNCHANGED <<record, layer, job>>
    BY <1>6 DEF Turn, Alive, Listening
  <2>2. PICK s \in Alive \cup {"gone"} : inst' = [inst EXCEPT ![n].state = s]
    BY <1>6 DEF Turn, Alive
  <2>3. InstShape' /\ Ages /\ NoBirth
    BY <2>1, <2>2, StateAges DEF Inv
  <2> QED
    BY <1>4, <2>1, <2>3
<1> QED
  BY <1>3, <1>5, <1>6, <1>7, <1>8 DEF World

-----------------------------------------------------------------------------
\* The invariant holds before any call.
LEMMA InitInv ==
    ASSUME Init
    PROVE  Inv
<1>1. /\ course \in Courses /\ lock = None /\ struck = {}
      /\ placed = [build |-> course.first, placement |-> 1] /\ note = course.first
  BY DEF Init
<1>2. /\ course.calls \in [Clients -> {"ensure", "stop", "none"}]
      /\ course.wants \in [Clients -> Builds]
  BY <1>1, ConvergeAssumption
<1>3. client = [c \in Clients |->
          [op |-> course.calls[c], want |-> course.wants[c],
           at |-> IF course.calls[c] = "none" THEN "done" ELSE "lock", replaced |-> FALSE,
           attach |-> "none", session |-> 0, pinned |-> 0, target |-> 0, onward |-> <<>>,
           observed |-> {}, late |-> FALSE, did |-> "none", after |-> 0, ok |-> FALSE]]
  BY DEF Init
<1>4. ClientShape
  BY <1>3 DEF ClientShape, Fields
<1>5. ASSUME NEW c \in Clients
      PROVE  /\ client[c].op = course.calls[c] /\ client[c].want = course.wants[c]
             /\ client[c].at = IF course.calls[c] = "none" THEN "done" ELSE "lock"
             /\ client[c].pinned = 0
  BY <1>3
<1>6. ASSUME NEW c \in Clients PROVE ClientInv(c)
  <2>1. client[c].at = "lock" \/ client[c].at = "done"
    BY <1>5
  <2>2. client[c].want \in Builds /\ (client[c].at # "done" => client[c].op \in {"ensure", "stop"})
    BY <1>2, <1>5
  <2> QED
    BY <1>5, <2>1, <2>2 DEF ClientInv, LockInv, PlacedInv, PinInv, AnswerInv, Aimed, Past, Steps
<1>7. PICK s \in {"unborn", "gone", "ready", "husk"} :
          inst = [n \in Instances |-> IF n = 1 /\ s # "unborn"
                    THEN [state |-> s, build |-> course.first, placement |-> 1,
                          job |-> job # "none"]
                    ELSE Unborn]
  BY DEF Init
<1>8. InstShape
  BY <1>7 DEF InstShape, Unborn
<1>9. 1 \in Instances
  BY SMT, ConvergeAssumption DEF Instances
<1>10. record = 0 \/ Known(record)
  <2>1. record = 0 \/ (record = 1 /\ inst[1] # Unborn)
    BY DEF Init
  <2> QED
    BY <1>7, <1>9, <2>1 DEF Known
<1>11. Idle
  BY <1>7 DEF Idle, JobRuns, Unborn
<1> QED
  BY <1>1, <1>4, <1>6, <1>8, <1>10, <1>11 DEF Inv, WorldInv, ProgramInv, StruckInv

\* Every step of a call keeps the invariant.
LEMMA StepKeepsInv ==
    ASSUME Inv, NEW c \in Clients, Step(c)
    PROVE  Inv'
<1>1. ASSUME EnsureStarts(c) PROVE Inv'
  BY <1>1, AcquireInv DEF EnsureStarts
<1>2. ASSUME StopStarts(c) PROVE Inv'
  BY <1>2, AcquireInv DEF StopStarts
<1> QED
  BY <1>1, <1>2, PlaceInv, WriteProgramInv, WriteNoteInv, ObserveSocketInv, EnsureDecidesInv,
     StopDecidesInv, ReachServiceInv, PinDrainInv, DispatchDrainInv, ObserveGoneInv, SettleInv,
     TerminateReadsInv, TerminateSignalsInv, InventoryClearInv, ApplyServiceInv, WaitReadyInv,
     RemoveAgentInv, ReturnInv DEF Step

\* Every step of the label's clients and of its daemon keeps the invariant.
THEOREM ConvergeInvariant == Spec => []Inv
<1>1. Init => Inv
  BY InitInv
<1>2. Inv /\ [Next]_vars => Inv'
  <2> SUFFICES ASSUME Inv, [Next]_vars PROVE Inv'
    OBVIOUS
  <2>1. CASE UNCHANGED vars
    <3>1. UNCHANGED <<course, inst, record, layer, job, placed, note, lock, client, struck>>
      BY <2>1 DEF vars, world, program
    <3>2. InstShape' /\ Ages /\ NoBirth
      BY <3>1, SameAges DEF Inv
    <3>3. ClientShape' /\ WorldInv' /\ ProgramInv' /\ StruckInv'
      BY <3>1 DEF Inv, ClientShape, WorldInv, ProgramInv, StruckInv, Known, Idle, JobRuns, Live
    <3>4. ASSUME NEW d \in Clients PROVE ClientInv(d)'
      BY <3>1, <3>2, OtherClient DEF Bare
    <3> QED
      BY <3>2, <3>3, <3>4 DEF Inv
  <2>2. CASE World
    BY <2>2, WorldStepInv
  <2>3. ASSUME NEW c \in Clients, Step(c) \/ Expire(c) \/ CrashClient(c) PROVE Inv'
    BY <2>3, StepKeepsInv, ExpireInv, CrashClientInv
  <2> QED
    BY <2>1, <2>2, <2>3 DEF Next
<1> QED
  BY <1>1, <1>2, PTL DEF Spec

-----------------------------------------------------------------------------
\* ensure.go: a runtime the call never observed is never drained and never
\* signalled by it, whoever replaces the incumbent or the record in between.
THEOREM ObservedBeforeStruck == Spec => []StrikesObserved
<1>1. Inv => StrikesObserved
  BY DEF Inv, StruckInv, StrikesObserved
<1> QED
  BY <1>1, ConvergeInvariant, PTL

\* evict and prove: Ensure applies the service, and Stop removes it, only after
\* the incumbent this pass observed has left the process table.
THEOREM IncumbentGone == Spec => []GoneBeforeService
<1>1. Inv => GoneBeforeService
  BY DEF Inv, ClientInv, PinInv, GoneBeforeService
<1> QED
  BY <1>1, ConvergeInvariant, PTL

\* A successful Stop leaves its incumbent gone and no file of the job, and nothing
\* of it running but over a supervisor that is gone or a LaunchAgent whose plist
\* was deleted; a successful Ensure saw the wanted build ready and leaves it at the program path, although
\* clients are killed between the writes of place.
THEOREM AnswersHold == Spec => []AnswerHolds
<1>1. Inv => StoppedGone
  BY DEF Inv, ClientInv, AnswerInv, StoppedGone, WorldInv, Idle, Bare
<1>2. Inv => EnsuredPlaced
  <2> SUFFICES ASSUME Inv, NEW c \in Clients, client[c].at = "return", client[c].op = "ensure", client[c].ok
               PROVE  placed.build = client[c].want /\ inst[client[c].after].build = client[c].want
    BY DEF EnsuredPlaced
  <2>1. note = client[c].want /\ client[c].want # None
    BY ConvergeAssumption DEF Inv, ClientInv, PlacedInv, LockInv
  <2> QED
    BY <2>1 DEF Inv, ProgramInv, ClientInv, AnswerInv
<1> QED
  BY <1>1, <1>2, ConvergeInvariant, PTL DEF AnswerHolds

-----------------------------------------------------------------------------
\* The moves a call may make go down.
LEMMA LeftFalls ==
    /\ Left["place"] < Left["lock"] /\ Left["socket"] < Left["lock"]
    /\ Left["write"] < Left["place"] /\ Left["socket"] < Left["place"]
    /\ Left["note"] < Left["write"] /\ Left["socket"] < Left["note"]
    /\ Left["socket"] < Left["record"] /\ Left["return"] < Left["record"]
    /\ Left["reach"] < Left["record"] /\ Left["inventory"] < Left["record"]
    /\ Left["drain"] < Left["record"] /\ Left["settle"] < Left["record"]
    /\ Left["terminate"] < Left["record"] /\ Left["inventory"] < Left["reach"]
    /\ Left["drain"] < Left["reach"] /\ Left["settle"] < Left["reach"]
    /\ Left["terminate"] < Left["reach"] /\ Left["dispatch"] < Left["drain"]
    /\ Left["settle"] < Left["drain"] /\ Left["socket"] < Left["drain"]
    /\ Left["leaving"] < Left["dispatch"] /\ Left["settle"] < Left["leaving"]
    /\ Left["apply"] < Left["leaving"] /\ Left["remove"] < Left["leaving"]
    /\ Left["inventory"] < Left["settle"] /\ Left["socket"] < Left["settle"]
    /\ Left["terminate"] < Left["settle"] /\ Left["apply"] < Left["settle"]
    /\ Left["remove"] < Left["settle"] /\ Left["socket"] < Left["terminate"]
    /\ Left["term"] < Left["terminate"] /\ Left["apply"] < Left["term"]
    /\ Left["remove"] < Left["term"] /\ Left["kill"] < Left["term"]
    /\ Left["apply"] < Left["kill"] /\ Left["remove"] < Left["kill"]
    /\ Left["apply"] < Left["inventory"] /\ Left["remove"] < Left["inventory"]
    /\ Left["wait"] < Left["apply"] /\ Left["return"] < Left["wait"]
    /\ Left["return"] < Left["remove"] /\ Left["done"] < Left["return"]
BY SMT DEF Left

\* Returning is the last move but one.
LEMMA ReturnLeast == \A s \in Steps \ {"return", "done"} : Left["return"] < Left[s]
BY SMT DEF Left, Steps

\* What a step of a call that is past its deadline leaves: less than before.
Nearer(c) == Left[client'[c].at] < Left[client[c].at]

\* A call that fails is nearer its return.
LEMMA FailsNearer ==
    ASSUME Inv, NEW c \in Clients, Fails(c), client[c].at \notin {"return", "done"}
    PROVE  Nearer(c)
<1>1. client'[c].at = "return"
  BY EndsEffect DEF Inv, Fails
<1>2. client[c].at \in Steps \ {"return", "done"}
  BY DEF Inv, ClientInv, LockInv
<1> QED
  BY <1>1, <1>2, ReturnLeast DEF Nearer

\* A call that goes on is nearer its return when its next step is.
LEMMA GoNearer ==
    ASSUME Inv, NEW c \in Clients, NEW step, Go(c, step), Left[step] < Left[client[c].at]
    PROVE  Nearer(c)
BY GoEffect DEF Inv, Nearer

\* An assignment that moves the call on.
LEMMA PutNearer ==
    ASSUME Inv, NEW c \in Clients, NEW fields, Put(c, fields), "at" \in DOMAIN fields,
           Left[fields.at] < Left[client[c].at]
    PROVE  Nearer(c)
BY PutEffect DEF Inv, Nearer, Fields

\* What follows the read of the owner record is nearer the return.
LEMMA OnwardNearer ==
    ASSUME NEW c \in Clients, client[c].at = "record"
    PROVE  "at" \in DOMAIN Onward(c) /\ Left[Onward(c).at] < Left[client[c].at]
<1>1. CASE client[c].attach = "serving"
  BY SMT, <1>1, LeftFalls DEF Onward, Evicting
<1>2. CASE client[c].attach # "serving"
  BY SMT, <1>2, LeftFalls DEF Onward, Proving
<1> QED
  BY <1>1, <1>2

\* Every step of a late call is nearer its return.
LEMMA StepNearer ==
    ASSUME Inv, NEW c \in Clients, Step(c), client[c].late, client'[c].at # client[c].at
    PROVE  Nearer(c)
<1>1. CASE EnsureStarts(c) \/ StopStarts(c)
  <2>1. client[c].at = "lock" /\ (Go(c, "place") \/ Go(c, "socket") \/ Fails(c))
    BY <1>1 DEF EnsureStarts, StopStarts, Acquire, At
  <2> QED
    BY <2>1, GoNearer, FailsNearer, LeftFalls
<1>2. CASE Place(c)
  <2>1. client[c].at = "place" /\ (Go(c, "write") \/ Go(c, "socket") \/ Fails(c))
    BY <1>2 DEF Place, At
  <2> QED
    BY <2>1, GoNearer, FailsNearer, LeftFalls
<1>3. CASE WriteProgram(c)
  <2>1. client[c].at = "write" /\ (Go(c, "note") \/ Fails(c))
    BY <1>3 DEF WriteProgram, At
  <2> QED
    BY <2>1, GoNearer, FailsNearer, LeftFalls
<1>4. CASE WriteNote(c)
  <2>1. client[c].at = "note" /\ (Put(c, [at |-> "socket", replaced |-> TRUE]) \/ Fails(c))
    BY <1>4 DEF WriteNote, At
  <2> QED
    BY <2>1, PutNearer, FailsNearer, LeftFalls
<1>5. CASE ObserveSocket(c)
  <2>1. client[c].at = "socket" /\ Fails(c)
    BY <1>5 DEF ObserveSocket, At
  <2> QED
    BY <2>1, FailsNearer
<1>6. CASE EnsureDecides(c)
  <2>1. client[c].at = "record"
    BY <1>6 DEF EnsureDecides, At
  <2>2. \/ Go(c, "socket")
        \/ Put(c, [at |-> "return", ok |-> TRUE, after |-> client[c].pinned])
        \/ \E onward, did : Put(c, [at |-> "reach", onward |-> onward, did |-> did])
    BY <1>6 DEF EnsureDecides
  <2>3. ASSUME NEW onward, NEW did, Put(c, [at |-> "reach", onward |-> onward, did |-> did])
        PROVE  Nearer(c)
    BY <2>1, <2>3, PutNearer, LeftFalls
  <2>4. CASE Go(c, "socket")
    BY <2>1, <2>4, GoNearer, LeftFalls
  <2>5. CASE Put(c, [at |-> "return", ok |-> TRUE, after |-> client[c].pinned])
    BY <2>1, <2>5, PutNearer, LeftFalls
  <2> QED
    BY <2>2, <2>3, <2>4, <2>5
<1>7. CASE StopDecides(c)
  <2>1. client[c].at = "record" /\ Put(c, Onward(c))
    BY <1>7 DEF StopDecides, At
  <2> QED
    BY <2>1, OnwardNearer, PutNearer
<1>8. CASE ReachService(c)
  <2>1. client[c].at = "reach" /\ (Put(c, client[c].onward) \/ Fails(c))
    BY <1>8 DEF ReachService, At
  <2>2. /\ "at" \in DOMAIN client[c].onward
        /\ client[c].onward.at \in {"inventory", "drain", "settle", "terminate"}
    BY <2>1 DEF Inv, ClientInv, PinInv
  <2>3. Left[client[c].onward.at] < Left["reach"]
    BY <2>2, LeftFalls
  <2> QED
    BY <2>1, <2>2, <2>3, PutNearer, FailsNearer
<1>9. CASE PinDrain(c)
  <2>1. client[c].at = "drain"
    BY <1>9 DEF PinDrain, At
  <2>2. \/ Go(c, "dispatch") \/ Go(c, "settle") \/ Fails(c)
        \/ \E n : Put(c, [at |-> "socket", session |-> n])
    BY <1>9 DEF PinDrain
  <2>3. ASSUME NEW n, Put(c, [at |-> "socket", session |-> n])
        PROVE  Nearer(c)
    BY <2>1, <2>3, PutNearer, LeftFalls
  <2>4. CASE Go(c, "dispatch") \/ Go(c, "settle")
    BY <2>1, <2>4, GoNearer, LeftFalls
  <2> QED
    BY <2>1, <2>2, <2>3, <2>4, FailsNearer
<1>10. CASE DispatchDrain(c)
  <2>1. client[c].at = "dispatch" /\ (Put(c, [at |-> "leaving", session |-> 0]) \/ Fails(c))
    BY <1>10 DEF DispatchDrain, At, Fails
  <2> QED
    BY <2>1, PutNearer, FailsNearer, LeftFalls
<1>11. CASE ObserveGone(c)
  <2>1. client[c].at = "leaving" /\ (Go(c, "settle") \/ Go(c, "apply") \/ Go(c, "remove"))
    BY <1>11 DEF ObserveGone, Proved, At
  <2> QED
    BY <2>1, GoNearer, LeftFalls
<1>12. CASE Settle(c)
  <2>1. /\ client[c].at = "settle"
        /\ \/ Go(c, "inventory") \/ Go(c, "socket") \/ Go(c, "terminate") \/ Fails(c)
           \/ Go(c, "apply") \/ Go(c, "remove")
    BY <1>12 DEF Settle, Moved, Proved, At
  <2> QED
    BY <2>1, GoNearer, FailsNearer, LeftFalls
<1>13. CASE TerminateReads(c)
  <2>1. client[c].at = "terminate" /\ (Go(c, "socket") \/ Go(c, "term") \/ Fails(c))
    BY <1>13 DEF TerminateReads, Moved, At
  <2> QED
    BY <2>1, GoNearer, FailsNearer, LeftFalls
<1>14. CASE TerminateSignals(c)
  <2>1. /\ client[c].at = "term" \/ client[c].at = "kill"
        /\ \/ Go(c, "apply") \/ Go(c, "remove") \/ Fails(c)
           \/ client[c].at = "term" /\ Go(c, "kill")
    BY <1>14 DEF TerminateSignals, Proved, At
  <2> QED
    BY <2>1, GoNearer, FailsNearer, LeftFalls
<1>15. CASE InventoryClear(c)
  <2>1. client[c].at = "inventory" /\ (Go(c, "apply") \/ Go(c, "remove") \/ Fails(c))
    BY <1>15 DEF InventoryClear, Proved, At
  <2> QED
    BY <2>1, GoNearer, FailsNearer, LeftFalls
<1>16. CASE ApplyService(c)
  <2>1. client[c].at = "apply" /\ (Go(c, "wait") \/ Fails(c))
    BY <1>16 DEF ApplyService, At
  <2> QED
    BY <2>1, GoNearer, FailsNearer, LeftFalls
<1>17. CASE WaitReady(c)
  <2>1. /\ client[c].at = "wait"
        /\ Fails(c) \/ \E n : Put(c, [at |-> "return", ok |-> TRUE, after |-> n])
    BY <1>17 DEF WaitReady, At
  <2>2. ASSUME NEW n, Put(c, [at |-> "return", ok |-> TRUE, after |-> n])
        PROVE  Nearer(c)
    BY <2>1, <2>2, PutNearer, LeftFalls
  <2> QED
    BY <2>1, <2>2, FailsNearer
<1>18. CASE RemoveAgent(c)
  <2>1. client[c].at = "remove" /\ (Ends(c, TRUE, "none") \/ Fails(c))
    BY <1>18 DEF RemoveAgent, At
  <2> QED
    BY <2>1, PutNearer, FailsNearer, LeftFalls DEF Ends
<1>19. CASE Return(c)
  <2>1. /\ client[c].at = "return"
        /\ Put(c, [at |-> "done", late |-> TRUE, replaced |-> FALSE, attach |-> "none",
                   session |-> 0, pinned |-> 0, target |-> 0, onward |-> <<>>])
    BY <1>19 DEF Return, At
  <2> QED
    BY <2>1, PutNearer, LeftFalls
<1> QED
  BY <1>1, <1>2, <1>3, <1>4, <1>5, <1>6, <1>7, <1>8, <1>9, <1>10, <1>11, <1>12, <1>13, <1>14, <1>15,
     <1>16, <1>17, <1>18, <1>19 DEF Step

\* Once its deadline has passed a call only comes nearer its return: a daemon
\* that is started again and again cannot keep Ensure or Stop in their loops.
THEOREM LateCallsDescend == Spec => DeadlineDescends
<1>1. ASSUME Inv, [Next]_vars
      PROVE  [\A c \in Clients : client[c].late /\ client'[c].at # client[c].at =>
                Left[client'[c].at] < Left[client[c].at]]_vars
  <2> SUFFICES ASSUME NEW c \in Clients, client[c].late, client'[c].at # client[c].at
               PROVE  Nearer(c)
    BY DEF Nearer
  <2>1. client' # client
    OBVIOUS
  <2>2. PICK d \in Clients : Step(d) \/ Expire(d) \/ CrashClient(d)
    BY <1>1, <2>1 DEF Next, World, vars
  <2>3. Others(d)
    <3>1. \E fields : Put(d, fields)
      BY <2>1, <2>2 DEF Step, Expire, CrashClient, EnsureStarts, StopStarts, Acquire, Place,
         WriteProgram, WriteNote, ObserveSocket, EnsureDecides, StopDecides, ReachService, PinDrain,
         DispatchDrain, ObserveGone, Settle, TerminateReads, TerminateSignals, InventoryClear,
         ApplyService, WaitReady, RemoveAgent, Return, Go, Ends, Fails, Moved, Proved
    <3> QED
      BY <1>1, <3>1, PutEffect DEF Inv
  <2>4. d = c
    BY <2>3 DEF Others
  <2>5. CASE Step(c)
    BY <1>1, <2>5, StepNearer
  <2>6. CASE Expire(c)
    <3>1. ~client[c].late
      BY <2>6 DEF Expire
    <3> QED
      BY <3>1
  <2>7. CASE CrashClient(c)
    BY <1>1, <2>7, FailsNearer DEF CrashClient, Fails
  <2> QED
    BY <2>2, <2>4, <2>5, <2>6, <2>7
<1> QED
  BY <1>1, ConvergeInvariant, PTL DEF Spec, DeadlineDescends
=============================================================================
