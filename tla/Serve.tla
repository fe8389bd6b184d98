------------------------------- MODULE Serve -------------------------------
(***************************************************************************)
(* One call of Serve, from the bound listener to its return: the runtime's *)
(* phase, the wire server's accept loop and request admission, the drain   *)
(* triggers, the shutdown ladder, and the park over abandoned stages.      *)
(*                                                                         *)
(* A request stands for a session and the one request it carries.  Shares  *)
(* of the shutdown budget are not measured: a wait that a share bounds may *)
(* end at any moment.  The product (Start, Handle, Drain, Close and what   *)
(* they spawn) does whatever it likes; the ownership scope is known by     *)
(* what ScopeContract promises.                                            *)
(***************************************************************************)
EXTENDS Naturals, FiniteSets

CONSTANTS
    Requests,       \* sessions, each with one request
    Verbs,          \* the product's calls of Spawn, Run and Adopt
    Concurrency,    \* capacity of handleSem
    MaxEvents       \* bound: drain signals delivered and calls into the scope

ASSUME ServeAssumption == Concurrency \in Nat /\ MaxEvents \in Nat

VARIABLES
    phase,          \* serveRuntime.snapshot.Phase
    stopped,        \* serveRuntime.stopped is done
    product,        \* serveRuntime.product is set
    server,         \* wire Server.Serve: "unstarted", "accepting", "holding", "closing", "done"
    intakeClosed,   \* Server.intakeClosed
    listening,      \* the listener accepts
    serveCancelled, \* serveCtx is done
    req,            \* how far each session and its request have come
    cancelled,      \* requests whose context is done
    main,           \* Serve's own goroutine
    acks,           \* requests Server.Settle has yet to look at
    work,           \* product.Drain and product.Close
    tail,           \* the goroutine of the children stage
    settled,        \* Drained.Settled
    abandoned,      \* Drained.Abandoned
    lock,           \* the record store's lock is held
    triggers,       \* the channel signals: "off", "empty", "full"
    parked,         \* the channel parked of park
    forwarder,      \* the goroutine that turns a signal into a drain
    sent,           \* signals delivered and calls into the scope so far
    killed          \* a signal met the default disposition

VARIABLES closed, pending, live, answered, faulted

Scope == INSTANCE ScopeContract

rtVars == <<phase, stopped, product>>
wireVars == <<server, intakeClosed, listening, serveCancelled>>
requestVars == <<req, cancelled>>
ladderVars == <<main, acks, work, tail, settled, abandoned, lock>>
signalVars == <<triggers, parked, forwarder, sent, killed>>
scopeVars == <<closed, pending, live, answered, faulted>>
serveVars == <<rtVars, wireVars, requestVars, ladderVars, signalVars, scopeVars>>

Phases == {"starting", "ready", "draining", "failed"}
Stages == {"intake", "requests", "drain", "close", "children"}
ProductStages == {"drain", "close"}
Active == {"admitted", "gated", "waiting", "handling", "answering", "written"}
RequestState == {"none", "handshake", "connected", "done"} \cup Active
Channel == {"off", "empty", "full"}
MainState ==
    {"activating", "publishing", "running", "cancelling", "acking", "leaving", "joining",
     "parking", "dropping", "parked", "returned", "left"} \cup Stages

ServeTypeOK ==
    /\ phase \in Phases
    /\ stopped \in BOOLEAN
    /\ product \in BOOLEAN
    /\ server \in {"unstarted", "accepting", "holding", "closing", "done"}
    /\ intakeClosed \in BOOLEAN
    /\ listening \in BOOLEAN
    /\ serveCancelled \in BOOLEAN
    /\ req \in [Requests -> RequestState]
    /\ cancelled \subseteq Requests
    /\ main \in MainState
    /\ acks \subseteq Requests
    /\ work \in [ProductStages -> {"idle", "running", "returned"}]
    /\ tail \in {"idle", "settling", "acking", "proven", "failed"}
    /\ settled \subseteq Stages
    /\ abandoned \subseteq Stages
    /\ lock \in BOOLEAN
    /\ triggers \in Channel
    /\ parked \in Channel
    /\ forwarder \in {"armed", "fired", "stopped"}
    /\ sent \in 0 .. MaxEvents
    /\ killed \in BOOLEAN
    /\ closed \in BOOLEAN
    /\ pending \subseteq Verbs
    /\ live \subseteq Verbs
    /\ answered \in BOOLEAN
    /\ faulted \subseteq Verbs

ServeInit ==
    /\ phase = "starting"
    /\ stopped = FALSE
    /\ product = FALSE
    /\ server = "unstarted"
    /\ intakeClosed = FALSE
    /\ listening = TRUE
    /\ serveCancelled = FALSE
    /\ req = [r \in Requests |-> "none"]
    /\ cancelled = {}
    /\ main = "activating"
    /\ acks = {}
    /\ work = [s \in ProductStages |-> "idle"]
    /\ tail = "idle"
    /\ settled = {}
    /\ abandoned = {}
    /\ lock = TRUE
    /\ triggers = "empty"
    /\ parked = "off"
    /\ forwarder = "armed"
    /\ sent = 0
    /\ killed = FALSE
    /\ Scope!Init

-----------------------------------------------------------------------------
(***************************************************************************)
(* The runtime: one phase, never overwritten once terminal.                *)
(***************************************************************************)

Terminal == {"draining", "failed"}

publish(p) == phase' = IF phase \in Terminal THEN phase ELSE p

\* Drain publishes the phase and then cancels stopped.  Only the ladder waits for
\* stopped, so a delay between the two is a delay of the ladder: one step.
Drain == publish("draining") /\ stopped' = TRUE

\* The caller's context ended, or the product called Ctx.Stop.
TriggerDrain ==
    /\ main \notin {"returned", "left"}
    /\ Drain
    /\ UNCHANGED <<product, wireVars, requestVars, ladderVars, signalVars, scopeVars>>

-----------------------------------------------------------------------------
(***************************************************************************)
(* Sessions and requests.                                                  *)
(***************************************************************************)

\* Mutant of InFlight: a request counts only from its Handle on.
InHandle == {r \in Requests : req[r] \in {"handling", "answering", "written"}}

InFlight == {r \in Requests : req[r] \in Active}

Move(r, state) == req' = [req EXCEPT ![r] = state]

\* admitSession, under Server.mu.  The earlier draining check may be stale here.
Connect(r) ==
    /\ req[r] = "none"
    /\ server = "accepting"
    /\ listening
    /\ ~intakeClosed
    /\ Move(r, "handshake")
    /\ UNCHANGED <<rtVars, wireVars, cancelled, ladderVars, signalVars, scopeVars>>

\* The ack is written and addSession makes the session visible to closeSessions.
CompleteHandshake(r) ==
    /\ req[r] = "handshake"
    /\ Move(r, "connected")
    /\ UNCHANGED <<rtVars, wireVars, cancelled, ladderVars, signalVars, scopeVars>>

\* A failed handshake; or a session with no request ends: its peer left, it was
\* idle, or the serve context closed its transport.
EndSession(r) ==
    /\ req[r] \in {"handshake", "connected"}
    /\ Move(r, "done")
    /\ UNCHANGED <<rtVars, wireVars, cancelled, ladderVars, signalVars, scopeVars>>

\* receiveRequest: counted in admitted before its dispatch can run.  Its context
\* descends from the serve context.
Receive(r) ==
    /\ req[r] = "connected"
    /\ Move(r, "admitted")
    /\ cancelled' = IF serveCancelled THEN cancelled \cup {r} ELSE cancelled
    /\ UNCHANGED <<rtVars, wireVars, ladderVars, signalVars, scopeVars>>

\* The peer cancels or disconnects, or the request's own deadline passes.
CancelRequest(r) ==
    /\ r \in InFlight
    /\ cancelled' = cancelled \cup {r}
    /\ UNCHANGED <<rtVars, wireVars, req, ladderVars, signalVars, scopeVars>>

\* dispatch of the daemon's own verbs.
ExecuteHealth(r) ==
    /\ req[r] = "admitted"
    /\ Move(r, "answering")
    /\ UNCHANGED <<rtVars, wireVars, cancelled, ladderVars, signalVars, scopeVars>>

ExecuteDrain(r) ==
    /\ req[r] = "admitted"
    /\ Move(r, "answering")
    /\ Drain
    /\ UNCHANGED <<product, wireVars, cancelled, ladderVars, signalVars, scopeVars>>

\* gatePhase reads intakeClosed under the lock, then the phase.
GateIntake(r) ==
    /\ req[r] = "admitted"
    /\ Move(r, IF intakeClosed THEN "answering" ELSE "gated")
    /\ UNCHANGED <<rtVars, wireVars, cancelled, ladderVars, signalVars, scopeVars>>

\* Mutant of GatePhase: only a terminal phase refuses.
GateTerminal(r) ==
    /\ req[r] = "gated"
    /\ Move(r, IF phase \in Terminal THEN "answering" ELSE "waiting")
    /\ UNCHANGED <<rtVars, wireVars, cancelled, ladderVars, signalVars, scopeVars>>

GatePhase(r) ==
    /\ req[r] = "gated"
    /\ Move(r, IF phase = "ready" THEN "waiting" ELSE "answering")
    /\ UNCHANGED <<rtVars, wireVars, cancelled, ladderVars, signalVars, scopeVars>>

\* A place in handleSem, then Handle.
Handle(r) ==
    /\ req[r] = "waiting"
    /\ Cardinality({q \in Requests : req[q] = "handling"}) < Concurrency
    /\ Move(r, "handling")
    /\ UNCHANGED <<rtVars, wireVars, cancelled, ladderVars, signalVars, scopeVars>>

GiveUp(r) ==
    /\ req[r] = "waiting"
    /\ r \in cancelled
    /\ Move(r, "answering")
    /\ UNCHANGED <<rtVars, wireVars, cancelled, ladderVars, signalVars, scopeVars>>

\* The product's handler returns, which nothing but the product decides.
HandlerReturns(r) ==
    /\ req[r] = "handling"
    /\ Move(r, "answering")
    /\ UNCHANGED <<rtVars, wireVars, cancelled, ladderVars, signalVars, scopeVars>>

\* The terminal is written, or the session is closed because it cannot be.
WriteTerminal(r) ==
    /\ req[r] = "answering"
    /\ Move(r, "written") \/ Move(r, "done")
    /\ UNCHANGED <<rtVars, wireVars, cancelled, ladderVars, signalVars, scopeVars>>

\* The peer's acknowledgement, the write timeout or the session's end.
Acknowledge(r) ==
    /\ req[r] = "written"
    /\ Move(r, "done")
    /\ UNCHANGED <<rtVars, wireVars, cancelled, ladderVars, signalVars, scopeVars>>

-----------------------------------------------------------------------------
(***************************************************************************)
(* The wire server's goroutine.                                            *)
(***************************************************************************)

ServerStarts ==
    /\ server = "unstarted"
    /\ server' = "accepting"
    /\ UNCHANGED <<rtVars, intakeClosed, listening, serveCancelled, requestVars, ladderVars,
                   signalVars, scopeVars>>

\* closeSessions: every session of the map ends, every request of one is cancelled.
CloseSessions ==
    /\ req' = [r \in Requests |-> IF req[r] = "connected" THEN "done" ELSE req[r]]
    /\ cancelled' = cancelled \cup InFlight

\* Mutant of AcceptClosed: the end of the serve context does not close the listener.
AcceptIntakeClosed ==
    /\ server = "accepting"
    /\ ~listening
    /\ server' = "holding"
    /\ intakeClosed' = TRUE
    /\ listening' = FALSE
    /\ UNCHANGED <<rtVars, serveCancelled, requestVars, ladderVars, signalVars, scopeVars>>

\* The listener was closed, by CloseIntake or at the end of the serve context.
AcceptClosed ==
    /\ server = "accepting"
    /\ ~listening \/ serveCancelled
    /\ server' = "holding"
    /\ intakeClosed' = TRUE
    /\ listening' = FALSE
    /\ UNCHANGED <<rtVars, serveCancelled, requestVars, ladderVars, signalVars, scopeVars>>

\* Accepted sessions live on until the serve context ends.
HoldEnds ==
    /\ server = "holding"
    /\ serveCancelled
    /\ server' = "closing"
    /\ CloseSessions
    /\ UNCHANGED <<rtVars, intakeClosed, listening, serveCancelled, ladderVars, signalVars,
                   scopeVars>>

\* Accept failed for good: intake and sessions are closed at once.
AcceptFails ==
    /\ server = "accepting"
    /\ listening
    /\ server' = "closing"
    /\ intakeClosed' = TRUE
    /\ listening' = FALSE
    /\ CloseSessions
    /\ UNCHANGED <<rtVars, serveCancelled, ladderVars, signalVars, scopeVars>>

\* pendingWG, sessionWG and each session's requestWG.
ServerReturns ==
    /\ server = "closing"
    /\ \A r \in Requests : req[r] \in {"none", "done"}
    /\ server' = "done"
    /\ UNCHANGED <<rtVars, intakeClosed, listening, serveCancelled, requestVars, ladderVars,
                   signalVars, scopeVars>>

-----------------------------------------------------------------------------
(***************************************************************************)
(* Serve's goroutine: activation, the wait for a drain, the ladder.        *)
(***************************************************************************)

\* Start returned a product: ready stores it, then publishes the phase.
StartReturns ==
    /\ main = "activating"
    /\ product' = TRUE
    /\ main' = "publishing"
    /\ UNCHANGED <<phase, stopped, wireVars, requestVars, acks, work, tail, settled,
                   abandoned, lock, signalVars, scopeVars>>

PublishReady ==
    /\ main = "publishing"
    /\ publish("ready")
    /\ main' = "running"
    /\ UNCHANGED <<stopped, product, wireVars, requestVars, acks, work, tail, settled,
                   abandoned, lock, signalVars, scopeVars>>

\* Start failed: the phase says so and the ladder runs without a product.
StartFails ==
    /\ main = "activating"
    /\ publish("failed")
    /\ main' = "intake"
    /\ UNCHANGED <<stopped, product, wireVars, requestVars, acks, work, tail, settled,
                   abandoned, lock, signalVars, scopeVars>>

DrainBegins ==
    /\ main = "running"
    /\ stopped
    /\ main' = "intake"
    /\ UNCHANGED <<rtVars, wireVars, requestVars, acks, work, tail, settled, abandoned, lock,
                   signalVars, scopeVars>>

\* The wire server returned by itself.
ServeReturned ==
    /\ main = "running"
    /\ server = "done"
    /\ Drain
    /\ main' = "intake"
    /\ UNCHANGED <<product, wireVars, requestVars, acks, work, tail, settled, abandoned, lock,
                   signalVars, scopeVars>>

\* A stage's verdict and the stage after it.
Verdict(s, ok, next) ==
    /\ settled' = IF ok THEN settled \cup {s} ELSE settled
    /\ abandoned' = IF ok THEN abandoned ELSE abandoned \cup {s}
    /\ main' = next

\* CloseIntake: the server knows its listener only once it was started, and closing
\* the listener may fail.
CloseIntake ==
    /\ main = "intake"
    /\ intakeClosed' = TRUE
    /\ listening' = (listening /\ server = "unstarted")
    /\ \E ok \in {TRUE, ~listening \/ server = "unstarted"} : Verdict("intake", ok, "requests")
    /\ UNCHANGED <<rtVars, server, serveCancelled, requestVars, acks, work, tail, lock,
                   signalVars, scopeVars>>

\* awaitInFlight found nothing admitted: the terminals written so far are next.
RequestsJoined ==
    /\ main \in {"requests", "cancelling"}
    /\ InFlight = {}
    /\ main' = "acking"
    /\ acks' = Requests
    /\ UNCHANGED <<rtVars, wireVars, requestVars, work, tail, settled, abandoned, lock,
                   signalVars, scopeVars>>

\* The work window of the requests share ran out.
CancelRequests ==
    /\ main = "requests"
    /\ cancelled' = cancelled \cup InFlight
    /\ main' = "cancelling"
    /\ UNCHANGED <<rtVars, wireVars, req, acks, work, tail, settled, abandoned, lock,
                   signalVars, scopeVars>>

\* So did its tail: a handler outlived its cancellation.
RequestsAbandoned ==
    /\ main = "cancelling"
    /\ Verdict("requests", FALSE, "drain")
    /\ UNCHANGED <<rtVars, wireVars, requestVars, acks, work, tail, lock, signalVars, scopeVars>>

\* Server.Settle: a terminal it finds written must be acknowledged.
SettleAck(r) ==
    /\ main = "acking" \/ tail = "acking"
    /\ r \in acks
    /\ req[r] # "written"
    /\ acks' = acks \ {r}
    /\ UNCHANGED <<rtVars, wireVars, requestVars, main, work, tail, settled, abandoned, lock,
                   signalVars, scopeVars>>

RequestsSettled ==
    /\ main = "acking"
    /\ acks = {}
    /\ Verdict("requests", TRUE, "drain")
    /\ UNCHANGED <<rtVars, wireVars, requestVars, acks, work, tail, lock, signalVars, scopeVars>>

AcksExpire ==
    /\ main = "acking"
    /\ \E r \in acks : req[r] \in {"written", "done"}
    /\ Verdict("requests", FALSE, "drain")
    /\ UNCHANGED <<rtVars, wireVars, requestVars, acks, work, tail, lock, signalVars, scopeVars>>

After(s) == IF s = "drain" THEN "close" ELSE "children"

\* runStage of product.Drain and product.Close; without a product neither is run.
SkipStage(s) ==
    /\ main = s
    /\ ~product
    /\ main' = After(s)
    /\ UNCHANGED <<rtVars, wireVars, requestVars, acks, work, tail, settled, abandoned, lock,
                   signalVars, scopeVars>>

BeginStage(s) ==
    /\ main = s
    /\ product
    /\ work[s] = "idle"
    /\ work' = [work EXCEPT ![s] = "running"]
    /\ UNCHANGED <<rtVars, wireVars, requestVars, main, acks, tail, settled, abandoned, lock,
                   signalVars, scopeVars>>

ProductReturns(s) ==
    /\ work[s] = "running"
    /\ work' = [work EXCEPT ![s] = "returned"]
    /\ UNCHANGED <<rtVars, wireVars, requestVars, main, acks, tail, settled, abandoned, lock,
                   signalVars, scopeVars>>

StageReturns(s) ==
    /\ main = s
    /\ work[s] = "returned"
    /\ Verdict(s, TRUE, After(s))
    /\ UNCHANGED <<rtVars, wireVars, requestVars, acks, work, tail, lock, signalVars, scopeVars>>

\* The share was spent before the stage began, while it ran, or as it returned.
StageExpires(s) ==
    /\ main = s
    /\ product
    /\ Verdict(s, FALSE, After(s))
    /\ UNCHANGED <<rtVars, wireVars, requestVars, acks, work, tail, lock, signalVars, scopeVars>>

-----------------------------------------------------------------------------
(***************************************************************************)
(* The children tail, the way out, and the park.                           *)
(***************************************************************************)

BeginChildren ==
    /\ main = "children"
    /\ tail = "idle"
    /\ tail' = "settling"
    /\ Scope!Close
    /\ UNCHANGED <<rtVars, wireVars, requestVars, main, acks, work, settled, abandoned, lock,
                   signalVars>>

\* owned.settle answers, then server.Settle looks at every session.
ScopeSettles ==
    /\ tail = "settling"
    /\ Scope!Answer
    /\ tail' = "acking"
    /\ acks' = Requests
    /\ UNCHANGED <<rtVars, wireVars, requestVars, main, work, settled, abandoned, lock,
                   signalVars>>

TailProves ==
    /\ tail = "acking"
    /\ acks = {}
    /\ tail' = IF faulted = {} THEN "proven" ELSE "failed"
    /\ UNCHANGED <<rtVars, wireVars, requestVars, main, acks, work, settled, abandoned, lock,
                   signalVars, scopeVars>>

TailExpires ==
    /\ tail = "acking"
    /\ \E r \in acks : req[r] \in {"written", "done"}
    /\ tail' = "failed"
    /\ UNCHANGED <<rtVars, wireVars, requestVars, main, acks, work, settled, abandoned, lock,
                   signalVars, scopeVars>>

\* Mutant of ChildrenReturn: as runStage, which looks at the time and not the error.
ChildrenReturnInTime ==
    /\ main = "children"
    /\ tail \in {"proven", "failed"}
    /\ Verdict("children", TRUE, "leaving")
    /\ UNCHANGED <<rtVars, wireVars, requestVars, acks, work, tail, lock, signalVars, scopeVars>>

\* provenStage: the error is the verdict.
ChildrenReturn ==
    /\ main = "children"
    /\ tail \in {"proven", "failed"}
    /\ Verdict("children", tail = "proven", "leaving")
    /\ UNCHANGED <<rtVars, wireVars, requestVars, acks, work, tail, lock, signalVars, scopeVars>>

ChildrenExpire ==
    /\ main = "children"
    /\ Verdict("children", FALSE, "leaving")
    /\ UNCHANGED <<rtVars, wireVars, requestVars, acks, work, tail, lock, signalVars, scopeVars>>

\* cancelServe: every request's context descends from the serve context.
CancelServe ==
    /\ main = "leaving"
    /\ serveCancelled' = TRUE
    /\ cancelled' = cancelled \cup InFlight
    /\ main' = "joining"
    /\ UNCHANGED <<rtVars, server, intakeClosed, listening, req, acks, work, tail, settled,
                   abandoned, lock, signalVars, scopeVars>>

\* The wire server returned and nothing was abandoned: the store is closed and the
\* deferred signal.Stop runs.
Return ==
    /\ main = "joining"
    /\ server = "done"
    /\ abandoned = {}
    /\ lock' = FALSE
    /\ triggers' = "off"
    /\ main' = "returned"
    /\ UNCHANGED <<rtVars, wireVars, requestVars, acks, work, tail, settled, abandoned, parked,
                   forwarder, sent, killed, scopeVars>>

\* Mutant of Park: the triggers' channel is dropped before park has its own.
ParkUnregistered ==
    /\ main = "joining"
    /\ server = "done"
    /\ abandoned # {}
    /\ triggers' = "off"
    /\ main' = "parking"
    /\ UNCHANGED <<rtVars, wireVars, requestVars, acks, work, tail, settled, abandoned, lock,
                   parked, forwarder, sent, killed, scopeVars>>

\* park registers its own channel,
Park ==
    /\ main = "joining"
    /\ server = "done"
    /\ abandoned # {}
    /\ parked' = "empty"
    /\ main' = "parking"
    /\ UNCHANGED <<rtVars, wireVars, requestVars, acks, work, tail, settled, abandoned, lock,
                   triggers, forwarder, sent, killed, scopeVars>>

\* drops the triggers',
DropTriggers ==
    /\ main = "parking"
    /\ triggers' = "off"
    /\ main' = "dropping"
    /\ UNCHANGED <<rtVars, wireVars, requestVars, acks, work, tail, settled, abandoned, lock,
                   parked, forwarder, sent, killed, scopeVars>>

\* stops the forwarder, if it still waits, and waits for a signal.
StopForwarder ==
    /\ main = "dropping"
    /\ forwarder' = IF forwarder = "armed" THEN "stopped" ELSE forwarder
    /\ main' = "parked"
    /\ UNCHANGED <<rtVars, wireVars, requestVars, acks, work, tail, settled, abandoned, lock,
                   triggers, parked, sent, killed, scopeVars>>

Unpark ==
    /\ main = "parked"
    /\ parked = "full"
    /\ parked' = "off"
    /\ main' = "left"
    /\ UNCHANGED <<rtVars, wireVars, requestVars, acks, work, tail, settled, abandoned, lock,
                   triggers, forwarder, sent, killed, scopeVars>>

-----------------------------------------------------------------------------
(***************************************************************************)
(* Signals, and what the product does with its scope.                      *)
(***************************************************************************)

Deliver(channel) == IF channel = "empty" THEN "full" ELSE channel

Signal ==
    /\ sent < MaxEvents
    /\ main \notin {"returned", "left"}
    /\ sent' = sent + 1
    /\ triggers' = Deliver(triggers)
    /\ parked' = Deliver(parked)
    /\ killed' = (killed \/ (triggers = "off" /\ parked = "off"))
    /\ UNCHANGED <<rtVars, wireVars, requestVars, ladderVars, forwarder, scopeVars>>

Forward ==
    /\ forwarder = "armed"
    /\ triggers = "full"
    /\ forwarder' = "fired"
    /\ triggers' = "empty"
    /\ Drain
    /\ UNCHANGED <<product, wireVars, requestVars, ladderVars, parked, sent, killed, scopeVars>>

ProductWorks ==
    /\ \/ \E v \in Verbs : Scope!Admit(v) /\ sent < MaxEvents /\ sent' = sent + 1
       \/ Scope!Work /\ UNCHANGED sent
    /\ UNCHANGED <<rtVars, wireVars, requestVars, ladderVars, triggers, forwarder, parked, killed>>

-----------------------------------------------------------------------------

\* Steps the wire server's goroutines take by themselves.
RequestStep(r) ==
    \/ CompleteHandshake(r)
    \/ ExecuteHealth(r) \/ ExecuteDrain(r)
    \/ GateIntake(r) \/ GatePhase(r)
    \/ Handle(r) \/ GiveUp(r)
    \/ WriteTerminal(r) \/ Acknowledge(r)
    \/ SettleAck(r)

ServerStep == ServerStarts \/ AcceptClosed \/ HoldEnds \/ ServerReturns

StartStep == StartReturns \/ StartFails

MainStep ==
    \/ PublishReady \/ DrainBegins \/ ServeReturned
    \/ CloseIntake
    \/ RequestsJoined \/ CancelRequests \/ RequestsAbandoned \/ RequestsSettled \/ AcksExpire
    \/ \E s \in ProductStages : SkipStage(s) \/ BeginStage(s) \/ StageReturns(s) \/ StageExpires(s)
    \/ BeginChildren \/ ChildrenReturn \/ ChildrenExpire
    \/ CancelServe \/ Return
    \/ Park \/ DropTriggers \/ StopForwarder \/ Unpark

TailStep == ScopeSettles \/ TailProves \/ TailExpires

\* Steps of peers, of the kernel and of the product.
OtherStep ==
    \/ TriggerDrain \/ Signal \/ AcceptFails \/ ProductWorks
    \/ \E r \in Requests : Connect(r) \/ EndSession(r) \/ Receive(r) \/ CancelRequest(r)
    \/ \E s \in ProductStages : ProductReturns(s)

ServeNext ==
    \/ StartStep \/ MainStep \/ TailStep
    \/ ServerStep \/ Forward
    \/ \E r \in Requests : RequestStep(r) \/ HandlerReturns(r)
    \/ OtherStep

\* Goroutines of Serve and of the wire server run on: every wait of theirs has a
\* timer, a context or a channel that ends it, except a handler's own time.
Fairness ==
    /\ WF_serveVars(MainStep)
    /\ WF_serveVars(TailStep)
    /\ WF_serveVars(ServerStep)
    /\ WF_serveVars(Forward)
    /\ \A r \in Requests : WF_serveVars(RequestStep(r)) /\ WF_serveVars(serveCancelled /\ EndSession(r))

ServeSpec == ServeInit /\ [][ServeNext]_serveVars /\ Fairness

\* A product that keeps its side: handlers return, and so does Start.
Cooperative == WF_serveVars(StartStep) /\ \A r \in Requests : WF_serveVars(HandlerReturns(r))

SpecCooperative == ServeSpec /\ Cooperative

-----------------------------------------------------------------------------

\* Handle never runs on a runtime without a product, however a drain, a failing
\* Start and requests that arrive before readiness interleave.
HandlesProduct == \A r \in Requests : req[r] = "handling" => product

\* Once the requests stage settled, no handler runs or waits for a place ever again,
\* although sessions stay open and requests keep arriving on them.
RequestsStaySettled ==
    "requests" \in settled => \A r \in Requests : req[r] \notin {"waiting", "handling"}

\* A handler runs only between the two: after Start returned the product and before
\* the requests stage settled.
HandlersInTime == HandlesProduct /\ RequestsStaySettled

\* Serve gives up the record lock, while its process still lives, only over nothing:
\* no request in flight, neither product.Drain nor product.Close running, admission
\* of the scope closed and every process of it gone.
CleanReturn ==
    ~lock =>
        /\ InFlight = {}
        /\ \A s \in ProductStages : work[s] # "running"
        /\ closed /\ pending = {} /\ live = {}
        /\ phase \in Terminal

\* No signal meets the default disposition before Serve returned, not even between
\* the two registrations of park.
NeverKilled == ~killed

\* A drain ends: whatever triggered it, Serve returns or parks.
DrainEnds == stopped ~> main \in {"returned", "parked", "left"}

\* Abandoned stages park the process.
AbandonedParks ==
    (main = "joining" /\ abandoned # {}) ~> main \in {"parked", "left"}
=============================================================================
