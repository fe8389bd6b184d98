---------------------------- MODULE DaemonProofs ----------------------------
(***************************************************************************)
(* The daemon as launchd runs it: the call of Serve its job makes (Serve), *)
(* and the agent verbs that install, replace and remove the job (Launchd). *)
(***************************************************************************)
EXTENDS Serve, Launchd, TLAPS

USE Zenon

(***************************************************************************)
(* One call of Serve, for any number of sessions, calls, places in the     *)
(* concurrency semaphore and signals.                                      *)
(***************************************************************************)
Before == {"activating", "publishing", "running"}
Out == {"leaving", "joining", "parking", "dropping", "parked", "returned", "left"}

\* ServeTypeOK, one group of variables at a time.
RtType == phase \in Phases /\ stopped \in BOOLEAN /\ product \in BOOLEAN

WireType ==
    /\ server \in {"unstarted", "accepting", "holding", "closing", "done"}
    /\ intakeClosed \in BOOLEAN /\ listening \in BOOLEAN /\ serveCancelled \in BOOLEAN

RequestType == req \in [Requests -> RequestState] /\ cancelled \subseteq Requests

LadderType ==
    /\ main \in MainState
    /\ acks \subseteq Requests
    /\ work \in [ProductStages -> {"idle", "running", "returned"}]
    /\ tail \in {"idle", "settling", "acking", "proven", "failed"}
    /\ settled \subseteq Stages
    /\ abandoned \subseteq Stages
    /\ lock \in BOOLEAN

SignalType ==
    /\ triggers \in Channel
    /\ parked \in Channel
    /\ forwarder \in {"armed", "fired", "stopped"}
    /\ sent \in 0 .. MaxEvents
    /\ killed \in BOOLEAN

ScopeType ==
    /\ closed \in BOOLEAN
    /\ pending \subseteq Verbs
    /\ live \subseteq Verbs
    /\ answered \in BOOLEAN
    /\ faulted \subseteq Verbs

Typed ==
    /\ RtType /\ WireType /\ RequestType
    /\ LadderType /\ SignalType /\ ScopeType

\* A handler runs only behind a phase that said ready, so behind a product.
ProductInv ==
    /\ phase = "ready" \/ main = "publishing" => product
    /\ \A r \in Requests : req[r] \in {"waiting", "handling"} => product
    /\ \A s \in ProductStages : work[s] # "idle" => product

\* The ladder runs behind a terminal phase and a closed intake.
PhaseInv ==
    /\ stopped \/ main \notin Before => phase \in Terminal
    /\ main \notin Before \cup {"intake"} => intakeClosed

\* A join that found nothing in flight behind a closed intake is final.
JoinInv ==
    /\ main = "acking" \/ "requests" \in settled =>
          /\ intakeClosed
          /\ \A r \in Requests : req[r] \notin {"gated", "waiting", "handling"}
    /\ server = "done" => \A r \in Requests : req[r] \in {"none", "done"}

\* A stage that is over and not abandoned left nothing running.
StageInv ==
    /\ \A s \in ProductStages : work[s] = "running" => main = s \/ s \in abandoned
    /\ main \in Out => tail = "proven" \/ abandoned # {}
    /\ tail \in {"acking", "proven"} => answered
    /\ tail = "proven" => faulted = {}
    /\ ~lock => main = "returned"
    /\ main = "returned" => abandoned = {} /\ server = "done"

\* What the contract of the scope keeps.
ScopeInv ==
    /\ answered => closed
    /\ answered => pending \cup live \subseteq faulted

\* One of the two channels is registered as long as Serve runs.
SignalInv ==
    /\ ~killed
    /\ triggers = "off" => main \in {"dropping", "parked", "left", "returned"}
    /\ main \in {"parking", "dropping", "parked"} => parked # "off"

ServeInv ==
    /\ Typed
    /\ ProductInv
    /\ PhaseInv
    /\ JoinInv
    /\ StageInv
    /\ ScopeInv
    /\ SignalInv

USE DEF Phases, Stages, ProductStages, Active, RequestState, Channel, MainState, Terminal,
        Before, Out

\* A group that does not change keeps its type.
LEMMA TypeFrame ==
    /\ RtType /\ UNCHANGED rtVars => RtType'
    /\ WireType /\ UNCHANGED wireVars => WireType'
    /\ RequestType /\ UNCHANGED requestVars => RequestType'
    /\ LadderType /\ UNCHANGED ladderVars => LadderType'
    /\ SignalType /\ UNCHANGED signalVars => SignalType'
    /\ ScopeType /\ UNCHANGED scopeVars => ScopeType'
BY DEF RtType, WireType, RequestType, LadderType, SignalType, ScopeType,
       rtVars, wireVars, requestVars, ladderVars, signalVars, scopeVars

\* The invariant holds when the listener is bound.
LEMMA ServeInitInv == ServeInit => ServeInv
<1> SUFFICES ASSUME ServeInit PROVE ServeInv
  OBVIOUS
<1> USE DEF ServeInit, Scope!Init
<1>1. Typed
  <2>1. sent \in 0 .. MaxEvents
    BY SMT, ServeAssumption
  <2>2. /\ req \in [Requests -> RequestState]
        /\ work \in [ProductStages -> {"idle", "running", "returned"}]
    OBVIOUS
  <2> QED
    BY <2>1, <2>2 DEF Typed, RtType, WireType, RequestType, LadderType, SignalType, ScopeType
<1>2. ProductInv /\ PhaseInv /\ JoinInv
  BY DEF ProductInv, PhaseInv, JoinInv
<1>3. StageInv /\ ScopeInv /\ SignalInv
  BY DEF StageInv, ScopeInv, SignalInv
<1> QED
  BY <1>1, <1>2, <1>3 DEF ServeInv

\* Steps that move one request, and nothing else but perhaps the phase and the
\* requests whose context is done, keep the invariant.
LEMMA RequestInv ==
    ASSUME ServeInv, NEW r \in Requests,
           \/ RequestStep(r) /\ ~SettleAck(r)
           \/ HandlerReturns(r)
           \/ Connect(r) \/ EndSession(r) \/ Receive(r) \/ CancelRequest(r)
    PROVE  ServeInv'
<1>1. /\ UNCHANGED <<product, wireVars, ladderVars, signalVars, scopeVars>>
      /\ \A q \in Requests \ {r} : req'[q] = req[q]
      /\ req' \in [Requests -> RequestState]
      /\ cancelled' \subseteq Requests
  <2> USE DEF ServeInv, Typed, RequestType, Move, rtVars
  <2>1. CASE RequestStep(r) /\ ~SettleAck(r)
    BY <2>1 DEF RequestStep, CompleteHandshake, ExecuteHealth, ExecuteDrain, GateIntake,
                GatePhase, Handle, GiveUp, WriteTerminal, Acknowledge
  <2>2. CASE HandlerReturns(r) \/ Connect(r) \/ EndSession(r) \/ Receive(r) \/ CancelRequest(r)
    BY <2>2 DEF HandlerReturns, Connect, EndSession, Receive, CancelRequest, InFlight
  <2> QED
    BY <2>1, <2>2
<1>2. (phase' = phase /\ stopped' = stopped) \/ (phase' \in Terminal /\ stopped' = TRUE)
  BY DEF RequestStep, CompleteHandshake, ExecuteHealth, ExecuteDrain, GateIntake,
         GatePhase, Handle, GiveUp, WriteTerminal, Acknowledge, HandlerReturns, Connect,
         EndSession, Receive, CancelRequest, rtVars, Drain, publish
<1>3. /\ req'[r] \in {"waiting", "handling"} => product
      /\ req'[r] \in {"gated", "waiting", "handling"} =>
            req[r] \in {"gated", "waiting", "handling"} \/ ~intakeClosed
      /\ req[r] \in {"none", "done"} => req'[r] = req[r] \/ server = "accepting"
  <2> USE DEF ServeInv, Typed, RequestType, ProductInv, Move
  <2>1. CASE RequestStep(r) /\ ~SettleAck(r)
    BY <2>1 DEF RequestStep, CompleteHandshake, ExecuteHealth, ExecuteDrain, GateIntake,
                GatePhase, Handle, GiveUp, WriteTerminal, Acknowledge
  <2>2. CASE HandlerReturns(r) \/ Connect(r) \/ EndSession(r) \/ Receive(r) \/ CancelRequest(r)
    BY <2>2 DEF HandlerReturns, Connect, EndSession, Receive, CancelRequest, InFlight
  <2> QED
    BY <2>1, <2>2
<1>4. UNCHANGED <<product, server, intakeClosed, listening, serveCancelled, main, acks, work,
                  tail, settled, abandoned, lock, triggers, parked, forwarder, sent, killed,
                  closed, pending, live, answered, faulted>>
  BY <1>1 DEF wireVars, ladderVars, signalVars, scopeVars
<1>5. Typed'
  <2>1. RtType' /\ RequestType'
    BY <1>1, <1>2 DEF ServeInv, Typed, RtType, RequestType
  <2> QED
    BY <1>1, <2>1, TypeFrame DEF ServeInv, Typed
<1>6. ProductInv' /\ PhaseInv'
  BY SMT, <1>1, <1>2, <1>3, <1>4 DEF ServeInv, ProductInv, PhaseInv
<1>7. JoinInv'
  BY <1>1, <1>3, <1>4 DEF ServeInv, JoinInv
<1>8. StageInv' /\ ScopeInv' /\ SignalInv'
  BY <1>4 DEF ServeInv, StageInv, ScopeInv, SignalInv
<1> QED
  BY <1>5, <1>6, <1>7, <1>8 DEF ServeInv

\* The triggers of a drain and the delivery of signals keep it.
LEMMA TriggerInv ==
    ASSUME ServeInv, TriggerDrain \/ Signal \/ Forward
    PROVE  ServeInv'
<1>1. /\ UNCHANGED <<product, wireVars, requestVars, ladderVars, scopeVars>>
      /\ triggers' \in Channel /\ parked' \in Channel
      /\ triggers' = "off" <=> triggers = "off"
      /\ parked' = "off" <=> parked = "off"
  BY DEF TriggerDrain, Signal, Forward, rtVars, signalVars, Deliver, ServeInv, Typed, SignalType
<1>2. UNCHANGED <<product, server, intakeClosed, listening, serveCancelled, req, cancelled,
                  main, acks, work, tail, settled, abandoned, lock,
                  closed, pending, live, answered, faulted>>
  BY <1>1 DEF wireVars, requestVars, ladderVars, scopeVars
<1>3. (phase' = phase /\ stopped' = stopped) \/ (phase' \in Terminal /\ stopped' = TRUE)
  BY DEF TriggerDrain, Signal, Forward, rtVars, Drain, publish
<1>4. /\ forwarder' \in {"armed", "fired", "stopped"}
      /\ sent' \in 0 .. MaxEvents
      /\ ~killed' /\ killed' \in BOOLEAN
  <2> USE DEF ServeInv, Typed, SignalType, SignalInv
  <2>1. CASE TriggerDrain
    BY <2>1 DEF TriggerDrain, signalVars
  <2>2. CASE Signal
    <3>1. forwarder' = forwarder /\ sent' = sent + 1 /\ sent < MaxEvents
      BY <2>2 DEF Signal
    <3>2. ~(triggers = "off" /\ parked = "off") /\ ~killed
      BY <2>2 DEF Signal
    <3>3. killed' = FALSE
      BY <2>2, <3>2 DEF Signal
    <3>4. sent' \in 0 .. MaxEvents
      BY SMT, <3>1, ServeAssumption
    <3> QED
      BY <3>1, <3>3, <3>4
  <2>3. CASE Forward
    BY <2>3 DEF Forward
  <2> QED
    BY <2>1, <2>2, <2>3
<1>5. Typed'
  <2>1. RtType' /\ SignalType'
    BY <1>1, <1>3, <1>4 DEF ServeInv, Typed, RtType, SignalType
  <2> QED
    BY <1>1, <2>1, TypeFrame DEF ServeInv, Typed
<1>6. ProductInv' /\ PhaseInv' /\ JoinInv' /\ StageInv' /\ ScopeInv'
  BY SMT, <1>2, <1>3 DEF ServeInv, ProductInv, PhaseInv, JoinInv, StageInv, ScopeInv
<1>7. SignalInv'
  BY <1>1, <1>2, <1>4 DEF ServeInv, SignalInv
<1> QED
  BY <1>5, <1>6, <1>7 DEF ServeInv

\* So do the steps of the accept loop: sessions it closes only come to an end.
LEMMA ServerInv ==
    ASSUME ServeInv, ServerStep \/ AcceptFails
    PROVE  ServeInv'
<1> USE DEF ServerStep, ServerStarts, AcceptClosed, HoldEnds, ServerReturns, AcceptFails
<1>1. UNCHANGED <<rtVars, ladderVars, signalVars, scopeVars, serveCancelled>>
  OBVIOUS
<1>2. UNCHANGED <<phase, stopped, product, main, acks, work, tail, settled, abandoned, lock,
                  triggers, parked, forwarder, sent, killed,
                  closed, pending, live, answered, faulted>>
  BY <1>1 DEF rtVars, ladderVars, signalVars, scopeVars
<1>3. /\ req' \in [Requests -> RequestState]
      /\ cancelled' \subseteq Requests
      /\ \A r \in Requests : req'[r] = req[r] \/ req'[r] = "done"
  BY DEF CloseSessions, requestVars, InFlight, ServeInv, Typed, RequestType
<1>4. /\ server' \in {"unstarted", "accepting", "holding", "closing", "done"}
      /\ server # "done" \/ server' = "done"
      /\ server' = "done" => server = "closing" /\ \A r \in Requests : req[r] \in {"none", "done"}
  OBVIOUS
<1>5. /\ intakeClosed' = intakeClosed \/ intakeClosed' = TRUE
      /\ listening' = listening \/ listening' = FALSE
  <2>1. CASE ServerStarts \/ HoldEnds \/ ServerReturns
    BY <2>1
  <2>2. CASE AcceptClosed
    BY <2>2
  <2>3. CASE AcceptFails
    BY <2>3
  <2> QED
    BY <2>1, <2>2, <2>3
<1> HIDE DEF ServerStep, AcceptFails
<1>6. Typed'
  <2>1. WireType' /\ RequestType'
    BY <1>1, <1>3, <1>4, <1>5 DEF ServeInv, Typed, WireType, RequestType
  <2> QED
    BY <1>1, <2>1, TypeFrame DEF ServeInv, Typed
<1>7. ProductInv' /\ PhaseInv' /\ ScopeInv' /\ SignalInv'
  BY SMT, <1>2, <1>3, <1>5 DEF ServeInv, ProductInv, PhaseInv, ScopeInv, SignalInv
<1>8. JoinInv' /\ StageInv'
  BY SMT, <1>2, <1>3, <1>4, <1>5 DEF ServeInv, JoinInv, StageInv
<1> QED
  BY <1>6, <1>7, <1>8 DEF ServeInv

\* The product's own steps keep it: what its scope does is what the contract allows,
\* and a closed scope admits nothing.
LEMMA ProductStepInv ==
    ASSUME ServeInv, ProductWorks \/ \E s \in ProductStages : ProductReturns(s)
    PROVE  ServeInv'
<1>1. CASE ProductWorks
  <2>1. /\ UNCHANGED <<phase, stopped, product, server, intakeClosed, listening, serveCancelled,
                       req, cancelled, main, acks, work, tail, settled, abandoned, lock,
                       triggers, parked, forwarder, killed, closed, answered, faulted>>
        /\ UNCHANGED <<rtVars, wireVars, requestVars, ladderVars>>
    BY <1>1 DEF ProductWorks, rtVars, wireVars, requestVars, ladderVars, signalVars,
                Scope!Admit, Scope!Work
  <2>2. /\ pending' \subseteq Verbs /\ live' \subseteq Verbs
        /\ closed => pending' \cup live' \subseteq pending \cup live
    BY <1>1 DEF ProductWorks, Scope!Admit, Scope!Work, ServeInv, Typed, ScopeType
  <2>3. sent' \in 0 .. MaxEvents
    BY SMT, <1>1, ServeAssumption DEF ProductWorks, ServeInv, Typed, SignalType
  <2>4. SignalType' /\ ScopeType'
    BY <2>1, <2>2, <2>3 DEF ServeInv, Typed, SignalType, ScopeType
  <2>5. ProductInv' /\ PhaseInv' /\ JoinInv'
    BY <2>1 DEF ServeInv, ProductInv, PhaseInv, JoinInv
  <2>6. StageInv' /\ SignalInv'
    BY <2>1 DEF ServeInv, StageInv, SignalInv
  <2>7. ScopeInv'
    BY <2>1, <2>2 DEF ServeInv, ScopeInv
  <2> QED
    BY <2>1, <2>4, <2>5, <2>6, <2>7, TypeFrame DEF ServeInv, Typed
<1>2. ASSUME NEW s \in ProductStages, ProductReturns(s) PROVE ServeInv'
  <2> USE DEF ProductReturns
  <2>1. LadderType'
    BY <1>2 DEF ServeInv, Typed, LadderType
  <2>2. UNCHANGED <<phase, stopped, product, server, intakeClosed, req, main, tail, settled,
                    abandoned, lock, triggers, parked, killed, closed, pending, live,
                    answered, faulted>>
    BY <1>2 DEF rtVars, wireVars, requestVars, signalVars, scopeVars
  <2>3. \A u \in ProductStages : work'[u] # "idle" => work[u] # "idle"
    BY <1>2 DEF ServeInv, Typed, LadderType
  <2>4. \A u \in ProductStages : work'[u] = "running" => work[u] = "running"
    BY <1>2 DEF ServeInv, Typed, LadderType
  <2>5. ProductInv' /\ PhaseInv' /\ JoinInv'
    BY <2>2, <2>3 DEF ServeInv, ProductInv, PhaseInv, JoinInv
  <2>6. StageInv' /\ ScopeInv' /\ SignalInv'
    BY <2>2, <2>4 DEF ServeInv, StageInv, ScopeInv, SignalInv
  <2> QED
    BY <1>2, <2>1, <2>5, <2>6, TypeFrame DEF ServeInv, Typed
<1> QED
  BY <1>1, <1>2

\* Settling the children keeps it: a tail that proved its scope has its answer.
LEMMA TailInv ==
    ASSUME ServeInv, TailStep \/ \E r \in Requests : SettleAck(r)
    PROVE  ServeInv'
<1> USE DEF rtVars, wireVars, requestVars, signalVars, scopeVars,
            ServeInv, ProductInv, PhaseInv, JoinInv, StageInv, ScopeInv, SignalInv
<1>1. CASE ScopeSettles
  <2>1. LadderType' /\ ScopeType'
    BY <1>1 DEF Typed, LadderType, ScopeType, ScopeSettles, Scope!Answer
  <2>2. ProductInv' /\ PhaseInv' /\ JoinInv'
    BY <1>1 DEF ScopeSettles, Scope!Answer
  <2>3. StageInv' /\ ScopeInv' /\ SignalInv'
    BY <1>1 DEF ScopeSettles, Scope!Answer
  <2> QED
    BY <1>1, <2>1, <2>2, <2>3, TypeFrame DEF Typed, ScopeSettles
<1>2. CASE TailProves
  <2>1. LadderType'
    BY <1>2 DEF Typed, LadderType, TailProves
  <2>2. ProductInv' /\ PhaseInv' /\ JoinInv'
    BY <1>2 DEF TailProves
  <2>3. StageInv' /\ ScopeInv' /\ SignalInv'
    BY <1>2 DEF TailProves
  <2> QED
    BY <1>2, <2>1, <2>2, <2>3, TypeFrame DEF Typed, TailProves
<1>3. CASE TailExpires
  <2>1. LadderType'
    BY <1>3 DEF Typed, LadderType, TailExpires
  <2>2. ProductInv' /\ PhaseInv' /\ JoinInv'
    BY <1>3 DEF TailExpires
  <2>3. StageInv' /\ ScopeInv' /\ SignalInv'
    BY <1>3 DEF TailExpires
  <2> QED
    BY <1>3, <2>1, <2>2, <2>3, TypeFrame DEF Typed, TailExpires
<1>4. ASSUME NEW r \in Requests, SettleAck(r) PROVE ServeInv'
  <2>1. LadderType'
    BY <1>4 DEF Typed, LadderType, SettleAck
  <2>2. ProductInv' /\ PhaseInv' /\ JoinInv'
    BY <1>4 DEF SettleAck
  <2>3. StageInv' /\ ScopeInv' /\ SignalInv'
    BY <1>4 DEF SettleAck
  <2> QED
    BY <1>4, <2>1, <2>2, <2>3, TypeFrame DEF Typed, SettleAck
<1> QED
  BY <1>1, <1>2, <1>3, <1>4 DEF TailStep

\* Activation keeps it.
LEMMA StartInv ==
    ASSUME ServeInv, StartStep \/ PublishReady \/ DrainBegins \/ ServeReturned
    PROVE  ServeInv'
<1> USE DEF rtVars, wireVars, requestVars, signalVars, scopeVars,
            ServeInv, ProductInv, PhaseInv, JoinInv, StageInv, ScopeInv, SignalInv
<1>1. CASE StartReturns
  <2>1. LadderType' /\ RtType'
    BY <1>1 DEF Typed, LadderType, RtType, StartReturns
  <2>2. ProductInv' /\ PhaseInv' /\ JoinInv'
    BY <1>1 DEF StartReturns
  <2>3. StageInv' /\ ScopeInv' /\ SignalInv'
    BY <1>1 DEF StartReturns
  <2> QED
    BY <1>1, <2>1, <2>2, <2>3, TypeFrame DEF Typed, StartReturns
<1>2. CASE StartFails
  <2>1. LadderType' /\ RtType'
    BY <1>2 DEF Typed, LadderType, RtType, StartFails, publish
  <2>2. ProductInv' /\ PhaseInv' /\ JoinInv'
    BY <1>2 DEF StartFails, publish
  <2>3. StageInv' /\ ScopeInv' /\ SignalInv'
    BY <1>2 DEF StartFails, publish
  <2> QED
    BY <1>2, <2>1, <2>2, <2>3, TypeFrame DEF Typed, StartFails
<1>3. CASE PublishReady
  <2>1. LadderType' /\ RtType'
    BY <1>3 DEF Typed, LadderType, RtType, PublishReady, publish
  <2>2. ProductInv' /\ PhaseInv' /\ JoinInv'
    BY <1>3 DEF PublishReady, publish
  <2>3. StageInv' /\ ScopeInv' /\ SignalInv'
    BY <1>3 DEF PublishReady, publish
  <2> QED
    BY <1>3, <2>1, <2>2, <2>3, TypeFrame DEF Typed, PublishReady
<1>4. CASE DrainBegins
  <2>1. LadderType'
    BY <1>4 DEF Typed, LadderType, DrainBegins
  <2>2. ProductInv' /\ PhaseInv' /\ JoinInv'
    BY <1>4 DEF DrainBegins
  <2>3. StageInv' /\ ScopeInv' /\ SignalInv'
    BY <1>4 DEF DrainBegins
  <2> QED
    BY <1>4, <2>1, <2>2, <2>3, TypeFrame DEF Typed, DrainBegins
<1>5. CASE ServeReturned
  <2>1. LadderType' /\ RtType'
    BY <1>5 DEF Typed, LadderType, RtType, ServeReturned, Drain, publish
  <2>2. ProductInv' /\ PhaseInv' /\ JoinInv'
    BY <1>5 DEF ServeReturned, Drain, publish
  <2>3. StageInv' /\ ScopeInv' /\ SignalInv'
    BY <1>5 DEF ServeReturned, Drain, publish
  <2> QED
    BY <1>5, <2>1, <2>2, <2>3, TypeFrame DEF Typed, ServeReturned
<1> QED
  BY <1>1, <1>2, <1>3, <1>4, <1>5 DEF StartStep

\* Every stage of the ladder keeps it.
LEMMA LadderInv ==
    ASSUME ServeInv,
           \/ CloseIntake
           \/ RequestsJoined \/ CancelRequests \/ RequestsAbandoned \/ RequestsSettled
           \/ AcksExpire
           \/ \E s \in ProductStages :
                 SkipStage(s) \/ BeginStage(s) \/ StageReturns(s) \/ StageExpires(s)
           \/ BeginChildren \/ ChildrenReturn \/ ChildrenExpire
    PROVE  ServeInv'
<1> USE DEF rtVars, wireVars, requestVars, signalVars, scopeVars, Verdict, After, InFlight,
            ServeInv, ProductInv, PhaseInv, JoinInv, StageInv, ScopeInv, SignalInv
<1>1. CASE CloseIntake
  <2>1. LadderType' /\ WireType'
    BY <1>1 DEF Typed, LadderType, WireType, CloseIntake
  <2>2. ProductInv' /\ PhaseInv' /\ JoinInv'
    BY <1>1 DEF CloseIntake
  <2>3. StageInv' /\ ScopeInv' /\ SignalInv'
    BY <1>1 DEF CloseIntake
  <2> QED
    BY <1>1, <2>1, <2>2, <2>3, TypeFrame DEF Typed, CloseIntake
<1>2. CASE RequestsJoined
  <2>1. LadderType'
    BY <1>2 DEF Typed, LadderType, RequestsJoined
  <2>2. ProductInv' /\ PhaseInv' /\ JoinInv'
    BY <1>2 DEF RequestsJoined
  <2>3. StageInv' /\ ScopeInv' /\ SignalInv'
    BY <1>2 DEF RequestsJoined
  <2> QED
    BY <1>2, <2>1, <2>2, <2>3, TypeFrame DEF Typed, RequestsJoined
<1>3. CASE CancelRequests
  <2>1. LadderType' /\ RequestType'
    BY <1>3 DEF Typed, LadderType, RequestType, CancelRequests
  <2>2. ProductInv' /\ PhaseInv' /\ JoinInv'
    BY <1>3 DEF CancelRequests
  <2>3. StageInv' /\ ScopeInv' /\ SignalInv'
    BY <1>3 DEF CancelRequests
  <2> QED
    BY <1>3, <2>1, <2>2, <2>3, TypeFrame DEF Typed, CancelRequests
<1>4. CASE RequestsAbandoned
  <2>1. LadderType'
    BY <1>4 DEF Typed, LadderType, RequestsAbandoned
  <2>2. ProductInv' /\ PhaseInv' /\ JoinInv'
    BY <1>4 DEF RequestsAbandoned
  <2>3. StageInv' /\ ScopeInv' /\ SignalInv'
    BY <1>4 DEF RequestsAbandoned
  <2> QED
    BY <1>4, <2>1, <2>2, <2>3, TypeFrame DEF Typed, RequestsAbandoned
<1>5. CASE RequestsSettled
  <2>1. LadderType'
    BY <1>5 DEF Typed, LadderType, RequestsSettled
  <2>2. ProductInv' /\ PhaseInv' /\ JoinInv'
    BY <1>5 DEF RequestsSettled
  <2>3. StageInv' /\ ScopeInv' /\ SignalInv'
    BY <1>5 DEF RequestsSettled
  <2> QED
    BY <1>5, <2>1, <2>2, <2>3, TypeFrame DEF Typed, RequestsSettled
<1>6. CASE AcksExpire
  <2>1. LadderType'
    BY <1>6 DEF Typed, LadderType, AcksExpire
  <2>2. ProductInv' /\ PhaseInv' /\ JoinInv'
    BY <1>6 DEF AcksExpire
  <2>3. StageInv' /\ ScopeInv' /\ SignalInv'
    BY <1>6 DEF AcksExpire
  <2> QED
    BY <1>6, <2>1, <2>2, <2>3, TypeFrame DEF Typed, AcksExpire
<1>7. ASSUME NEW s \in ProductStages, SkipStage(s) PROVE ServeInv'
  <2>1. LadderType'
    BY <1>7 DEF Typed, LadderType, SkipStage
  <2>2. ProductInv' /\ PhaseInv' /\ JoinInv'
    BY <1>7 DEF SkipStage
  <2>3. StageInv' /\ ScopeInv' /\ SignalInv'
    BY <1>7 DEF SkipStage
  <2> QED
    BY <1>7, <2>1, <2>2, <2>3, TypeFrame DEF Typed, SkipStage
<1>8. ASSUME NEW s \in ProductStages, BeginStage(s) PROVE ServeInv'
  <2>1. LadderType'
    BY <1>8 DEF Typed, LadderType, BeginStage
  <2>2. ProductInv' /\ PhaseInv' /\ JoinInv'
    BY <1>8 DEF BeginStage, Typed, LadderType
  <2>3. StageInv' /\ ScopeInv' /\ SignalInv'
    BY <1>8 DEF BeginStage, Typed, LadderType
  <2> QED
    BY <1>8, <2>1, <2>2, <2>3, TypeFrame DEF Typed, BeginStage
<1>9. ASSUME NEW s \in ProductStages, StageReturns(s) PROVE ServeInv'
  <2>1. LadderType'
    BY <1>9 DEF Typed, LadderType, StageReturns
  <2>2. ProductInv' /\ PhaseInv' /\ JoinInv'
    BY <1>9 DEF StageReturns
  <2>3. StageInv' /\ ScopeInv' /\ SignalInv'
    BY <1>9 DEF StageReturns
  <2> QED
    BY <1>9, <2>1, <2>2, <2>3, TypeFrame DEF Typed, StageReturns
<1>10. ASSUME NEW s \in ProductStages, StageExpires(s) PROVE ServeInv'
  <2>1. LadderType'
    BY <1>10 DEF Typed, LadderType, StageExpires
  <2>2. ProductInv' /\ PhaseInv' /\ JoinInv'
    BY <1>10 DEF StageExpires
  <2>3. StageInv' /\ ScopeInv' /\ SignalInv'
    BY <1>10 DEF StageExpires
  <2> QED
    BY <1>10, <2>1, <2>2, <2>3, TypeFrame DEF Typed, StageExpires
<1>11. CASE BeginChildren
  <2>1. LadderType' /\ ScopeType'
    BY <1>11 DEF Typed, LadderType, ScopeType, BeginChildren, Scope!Close
  <2>2. ProductInv' /\ PhaseInv' /\ JoinInv'
    BY <1>11 DEF BeginChildren, Scope!Close
  <2>3. StageInv' /\ ScopeInv' /\ SignalInv'
    BY <1>11 DEF BeginChildren, Scope!Close
  <2> QED
    BY <1>11, <2>1, <2>2, <2>3, TypeFrame DEF Typed, BeginChildren
<1>12. CASE ChildrenReturn
  <2>1. LadderType'
    BY <1>12 DEF Typed, LadderType, ChildrenReturn
  <2>2. ProductInv' /\ PhaseInv' /\ JoinInv'
    BY <1>12 DEF ChildrenReturn
  <2>3. StageInv' /\ ScopeInv' /\ SignalInv'
    BY <1>12 DEF ChildrenReturn
  <2> QED
    BY <1>12, <2>1, <2>2, <2>3, TypeFrame DEF Typed, ChildrenReturn
<1>13. CASE ChildrenExpire
  <2>1. LadderType'
    BY <1>13 DEF Typed, LadderType, ChildrenExpire
  <2>2. ProductInv' /\ PhaseInv' /\ JoinInv'
    BY <1>13 DEF ChildrenExpire
  <2>3. StageInv' /\ ScopeInv' /\ SignalInv'
    BY <1>13 DEF ChildrenExpire
  <2> QED
    BY <1>13, <2>1, <2>2, <2>3, TypeFrame DEF Typed, ChildrenExpire
<1> QED
  BY <1>1, <1>2, <1>3, <1>4, <1>5, <1>6, <1>7, <1>8, <1>9, <1>10, <1>11, <1>12, <1>13

\* The way out keeps it, with a return or with a park.
LEMMA LeaveInv ==
    ASSUME ServeInv, CancelServe \/ Return \/ Park \/ DropTriggers \/ StopForwarder \/ Unpark
    PROVE  ServeInv'
<1> USE DEF rtVars, wireVars, requestVars, signalVars, scopeVars, InFlight,
            ServeInv, ProductInv, PhaseInv, JoinInv, StageInv, ScopeInv, SignalInv
<1>1. CASE CancelServe
  <2>1. LadderType' /\ WireType' /\ RequestType'
    BY <1>1 DEF Typed, LadderType, WireType, RequestType, CancelServe
  <2>2. ProductInv' /\ PhaseInv' /\ JoinInv'
    BY <1>1 DEF CancelServe
  <2>3. StageInv' /\ ScopeInv' /\ SignalInv'
    BY <1>1 DEF CancelServe
  <2> QED
    BY <1>1, <2>1, <2>2, <2>3, TypeFrame DEF Typed, CancelServe
<1>2. CASE Return
  <2>1. LadderType' /\ SignalType'
    BY <1>2 DEF Typed, LadderType, SignalType, Return
  <2>2. ProductInv' /\ PhaseInv' /\ JoinInv'
    BY <1>2 DEF Return
  <2>3. StageInv' /\ ScopeInv' /\ SignalInv'
    BY <1>2 DEF Return
  <2> QED
    BY <1>2, <2>1, <2>2, <2>3, TypeFrame DEF Typed, Return
<1>3. CASE Park
  <2>1. LadderType' /\ SignalType'
    BY <1>3 DEF Typed, LadderType, SignalType, Park
  <2>2. ProductInv' /\ PhaseInv' /\ JoinInv'
    BY <1>3 DEF Park
  <2>3. StageInv' /\ ScopeInv' /\ SignalInv'
    BY <1>3 DEF Park
  <2> QED
    BY <1>3, <2>1, <2>2, <2>3, TypeFrame DEF Typed, Park
<1>4. CASE DropTriggers
  <2>1. LadderType' /\ SignalType'
    BY <1>4 DEF Typed, LadderType, SignalType, DropTriggers
  <2>2. ProductInv' /\ PhaseInv' /\ JoinInv'
    BY <1>4 DEF DropTriggers
  <2>3. StageInv' /\ ScopeInv' /\ SignalInv'
    BY <1>4 DEF DropTriggers
  <2> QED
    BY <1>4, <2>1, <2>2, <2>3, TypeFrame DEF Typed, DropTriggers
<1>5. CASE StopForwarder
  <2>1. LadderType' /\ SignalType'
    BY <1>5 DEF Typed, LadderType, SignalType, StopForwarder
  <2>2. ProductInv' /\ PhaseInv' /\ JoinInv'
    BY <1>5 DEF StopForwarder
  <2>3. StageInv' /\ ScopeInv' /\ SignalInv'
    BY <1>5 DEF StopForwarder
  <2> QED
    BY <1>5, <2>1, <2>2, <2>3, TypeFrame DEF Typed, StopForwarder
<1>6. CASE Unpark
  <2>1. LadderType' /\ SignalType'
    BY <1>6 DEF Typed, LadderType, SignalType, Unpark
  <2>2. ProductInv' /\ PhaseInv' /\ JoinInv'
    BY <1>6 DEF Unpark
  <2>3. StageInv' /\ ScopeInv' /\ SignalInv'
    BY <1>6 DEF Unpark
  <2> QED
    BY <1>6, <2>1, <2>2, <2>3, TypeFrame DEF Typed, Unpark
<1> QED
  BY <1>1, <1>2, <1>3, <1>4, <1>5, <1>6

\* The inductive invariant of a call of Serve.
THEOREM ServeInvariant == ServeSpec => []ServeInv
<1>1. ServeInv /\ [ServeNext]_serveVars => ServeInv'
  <2> SUFFICES ASSUME ServeInv, [ServeNext]_serveVars PROVE ServeInv'
    OBVIOUS
  <2>1. CASE StartStep \/ MainStep
    BY <2>1, StartInv, LadderInv, LeaveInv DEF MainStep
  <2>2. CASE TailStep
    BY <2>2, TailInv
  <2>3. CASE ServerStep \/ Forward
    BY <2>3, ServerInv, TriggerInv
  <2>4. ASSUME NEW r \in Requests, RequestStep(r) \/ HandlerReturns(r) PROVE ServeInv'
    BY <2>4, RequestInv, TailInv
  <2>5. CASE OtherStep
    BY <2>5, TriggerInv, ServerInv, ProductStepInv, RequestInv DEF OtherStep
  <2>6. CASE UNCHANGED serveVars
    <3>1. Typed'
      BY <2>6, TypeFrame DEF serveVars, ServeInv, Typed
    <3> USE DEF serveVars, rtVars, wireVars, requestVars, ladderVars, signalVars, scopeVars
    <3>2. ProductInv' /\ PhaseInv' /\ JoinInv'
      BY <2>6 DEF ServeInv, ProductInv, PhaseInv, JoinInv
    <3>3. StageInv' /\ ScopeInv' /\ SignalInv'
      BY <2>6 DEF ServeInv, StageInv, ScopeInv, SignalInv
    <3> QED
      BY <3>1, <3>2, <3>3 DEF ServeInv
  <2> QED
    BY <2>1, <2>2, <2>3, <2>4, <2>5, <2>6 DEF ServeNext
<1> QED
  BY ServeInitInv, <1>1, PTL DEF ServeSpec

\* Serve gives up the record lock only over nothing.
THEOREM ServeReturnsClean == ServeSpec => []CleanReturn
<1>1. ServeInv => CleanReturn
  BY DEF ServeInv, CleanReturn, JoinInv, StageInv, ScopeInv, PhaseInv, InFlight
<1> QED
  BY ServeInvariant, <1>1, PTL

\* A settled requests stage stays settled.
THEOREM SettledRequestsStay == ServeSpec => []RequestsStaySettled
<1>1. ServeInv => RequestsStaySettled
  BY DEF ServeInv, RequestsStaySettled, JoinInv
<1> QED
  BY ServeInvariant, <1>1, PTL

\* A handler runs over the product that Serve started.
THEOREM HandlersHaveProduct == ServeSpec => []HandlesProduct
<1>1. ServeInv => HandlesProduct
  BY DEF ServeInv, HandlesProduct, ProductInv
<1> QED
  BY ServeInvariant, <1>1, PTL

\* A handler runs only after Start returned the product and before the requests
\* stage settled.
THEOREM HandlersRunInTime == ServeSpec => []HandlersInTime
BY HandlersHaveProduct, SettledRequestsStay, PTL DEF HandlersInTime

\* No signal meets the default disposition while Serve has not returned.
THEOREM SignalsHandled == ServeSpec => []NeverKilled
<1>1. ServeInv => NeverKilled
  BY DEF ServeInv, NeverKilled, SignalInv
<1> QED
  BY ServeInvariant, <1>1, PTL

\* The type invariant of a call of Serve.
THEOREM ServeType == ServeSpec => []ServeTypeOK
<1>1. ServeInv => ServeTypeOK
  BY SMT DEF ServeInv, Typed, ServeTypeOK, RtType, WireType, RequestType, LadderType, SignalType, ScopeType
<1> QED
  BY ServeInvariant, <1>1, PTL

-----------------------------------------------------------------------------
(***************************************************************************)
(* Proofs about one LaunchAgent label (Launchd.tla), for any definitions,  *)
(* any number of attempts and faults, and whenever other actors write at   *)
(* the label: no plist of theirs is lost but one put there after the look  *)
(* of Apply or Remove (ForeignKept), and what a verb that succeeded        *)
(* answered is so (AnswersTrue).                                           *)
(***************************************************************************)
-----------------------------------------------------------------------------
(***************************************************************************)
(* The inductive invariant.                                                *)
(***************************************************************************)

Installing == {"archive", "write", "bootout", "bootstrap", "loadKick", "kick"}
Fresh == {"absent", "absentPrint", "publish", "freshBootstrap", "freshKick", "setAside", "compare"}
Removing == {"remove", "removeBootout", "removePlist"}

\* Where a call is tells its verb.
CallInv ==
    /\ pc \in {"idle", "verify", "print"} \cup Installing \cup Fresh \cup Removing
    /\ pc # "idle" => call.def \in Defs
    /\ pc \in {"verify", "print"} => call.verb \in {"apply", "verify"}
    /\ pc \in Installing => call.verb = "apply"
    /\ pc \in Fresh => call.verb \in {"fresh", "absent"}
    /\ pc \in Removing => call.verb = "remove"

\* What the label holds, as long as nobody writes there after the call looked: the
\* file an install wrote stays while it loads it, what another actor wrote is
\* never written over.  Whoever writes late leaves no plist of ours.  Only the
\* comparison of removePublished has a file in hand.
DiskInv ==
    /\ plist \in Defs \cup {None, Foreign}
    /\ aside \in Nat /\ foreign \in Nat
    /\ held # None => pc = "compare"
    /\ look \in {"fresh", "stale"} /\ (look = "stale" => plist \notin Defs /\ pc \in Looked \cup {"archive"})
    /\ pc = "write" /\ look = "fresh" => plist # Foreign
    /\ pc \in {"print", "bootout", "bootstrap", "loadKick", "kick"} /\ look = "fresh" => plist = call.def
    /\ pc \in {"removeBootout", "removePlist"} /\ look = "fresh" => plist \in Defs

\* What launchd holds: a job that is not the plist's is one an install has yet to
\* boot out, or one an install that was cut short left.
JobInv ==
    /\ job \in Defs \cup {None, Foreign}
    /\ running \in BOOLEAN /\ (running => job # None)
    /\ cut \in BOOLEAN
    /\ pc \in {"bootstrap", "loadKick"} /\ look = "fresh" => job \in {None, plist}
    /\ pc = "removePlist" => job \in {None, Foreign}
    /\ pc = "publish" => job \in {None, Foreign} /\ (plist = None => job = None)
    /\ plist \in Defs /\ job \notin {None, plist} /\ pc # "bootout" => cut

AgentInv == CallInv /\ DiskInv /\ JobInv /\ ForeignKept

\* What a step that ends a call with success may say: AnswersTrue, of one step.
Truthful ==
    Answered(TRUE) =>
        /\ call.verb = "apply" => running'
        /\ call.verb = "apply" /\ look = "fresh" => plist' = call.def /\ (job' = call.def \/ cut)
        /\ call.verb = "remove" /\ plist \in Defs => job' \notin Defs

-----------------------------------------------------------------------------
(***************************************************************************)
(* What the helpers of the actions do.                                     *)
(***************************************************************************)

\* One launchctl call leaves the job it found or does its work, and answers its
\* kind only having done it.
LEMMA OutcomeOf ==
    ASSUME NEW effect, NEW kind, NEW o \in Outcomes(effect, kind)
    PROVE  /\ o.job \in {job, effect}
           /\ o.kind \in {kind, "inFlux", "failed"}
           /\ kind \notin {"inFlux", "failed"} /\ o.kind = kind => o.job = effect
  BY SMT DEF Outcomes

\* So does a bootstrap, whose work is to load the plist there is into a label
\* launchd does not hold.
LEMMA BootstrappingOf ==
    ASSUME NEW o \in Bootstrapping
    PROVE  /\ o.job = job \/ (job = None /\ plist # None /\ o.job = plist)
           /\ o.kind \in {"loaded", "notLoaded", "inFlux", "failed"}
           /\ o.kind = "loaded" => job = None /\ plist # None /\ o.job = plist
<1>1. CASE job # None \/ plist = None
  BY SMT, <1>1 DEF Bootstrapping
<1>2. CASE job = None /\ plist # None
  <2>1. o \in Outcomes(plist, "loaded")
    BY <1>2 DEF Bootstrapping
  <2> QED
    BY <2>1, <1>2, OutcomeOf, SMT
<1> QED
  BY <1>1, <1>2

\* An end that does not succeed leaves the invariant: what a reloading Apply
\* leaves loaded is remembered.
LEMMA FailKeeps ==
    ASSUME AgentInv, Fail, UNCHANGED disk, held = None,
           job' \in Defs \cup {None, Foreign}, running' \in BOOLEAN, running' => job' # None,
           job' \in {job, None} \/ (pc \in {"bootstrap", "loadKick"} /\ job' \in {None, plist})
    PROVE  AgentInv' /\ Truthful
<1>1. /\ pc' = "idle" /\ held' = None /\ look' = "fresh" /\ answer' = "error" /\ UNCHANGED <<plist, aside, foreign>>
      /\ cut' = (cut \/ (Reloading /\ job' \notin {None, plist, call.def}))
  BY DEF Fail, End, disk
<1>2. CallInv' /\ Truthful
  BY SMT, <1>1 DEF CallInv, Installing, Fresh, Removing, Looked, Truthful, Answered
<1>3. DiskInv' /\ ForeignKept'
  BY SMT, <1>1, LaunchdAssumption DEF AgentInv, DiskInv, ForeignKept, Looked
<1>4. cut' \in BOOLEAN /\ (cut' <=> cut \/ (Reloading /\ job' \notin {None, plist, call.def}))
  BY <1>1 DEF AgentInv, JobInv
<1>5. JobInv'
  BY SMT, <1>1, <1>4 DEF AgentInv, CallInv, DiskInv, JobInv, Reloading, Installing
<1> QED
  BY <1>2, <1>3, <1>5 DEF AgentInv

-----------------------------------------------------------------------------
(***************************************************************************)
(* The steps.                                                              *)
(***************************************************************************)

\* Apply and Verify compare the file with the definition.
LEMMA VerifyKeeps == ASSUME AgentInv, Verify PROVE AgentInv' /\ Truthful
  BY SMT, LaunchdAssumption
  DEF AgentInv, CallInv, DiskInv, JobInv, ForeignKept, Installing, Fresh, Removing, Looked, disk, launchd, NoCall,
     Truthful, Answered, Verify, Goto, ReturnAnswer, End

\* launchctl print changes nothing.
LEMMA PrintAgentKeeps == ASSUME AgentInv, PrintAgent PROVE AgentInv' /\ Truthful
  BY SMT, LaunchdAssumption
  DEF AgentInv, CallInv, DiskInv, JobInv, ForeignKept, Installing, Fresh, Removing, Looked, disk, launchd, NoCall,
     Truthful, Answered, PrintAgent, Goto, ReturnAnswer, End, NoFault

\* A foreign plist moves from the label to the side.
LEMMA ArchiveForeignPlistKeeps == ASSUME AgentInv, ArchiveForeignPlist PROVE AgentInv' /\ Truthful
  BY SMT, LaunchdAssumption
  DEF AgentInv, CallInv, DiskInv, JobInv, ForeignKept, Installing, Fresh, Removing, Looked, disk, launchd, NoCall,
     Truthful, Answered, ArchiveForeignPlist

\* No foreign plist is left to write over but one that came late.
LEMMA WritePlistKeeps == ASSUME AgentInv, WritePlist PROVE AgentInv' /\ Truthful
  BY SMT, LaunchdAssumption
  DEF AgentInv, CallInv, DiskInv, JobInv, ForeignKept, Installing, Fresh, Removing, Looked, disk, launchd, NoCall,
     Truthful, Answered, WritePlist, Overtaken

\* RequireAbsent looks at the file.
LEMMA RequireAbsentKeeps == ASSUME AgentInv, RequireAbsent PROVE AgentInv' /\ Truthful
  BY SMT, LaunchdAssumption
  DEF AgentInv, CallInv, DiskInv, JobInv, ForeignKept, Installing, Fresh, Removing, Looked, disk, launchd, NoCall,
     Truthful, Answered, RequireAbsent, Goto, ReturnAnswer, End

\* And at launchd: what is absent then is absent, or foreign, at the publication.
LEMMA PrintAbsentKeeps == ASSUME AgentInv, PrintAbsent PROVE AgentInv' /\ Truthful
  BY SMT, LaunchdAssumption
  DEF AgentInv, CallInv, DiskInv, JobInv, ForeignKept, Installing, Fresh, Removing, Looked, disk, launchd, NoCall,
     Truthful, Answered, PrintAbsent, Goto, ReturnAnswer, End, NoFault

\* The publication replaces nothing, and there is no job of another definition.
LEMMA PublishKeeps == ASSUME AgentInv, Publish PROVE AgentInv' /\ Truthful
  BY SMT, LaunchdAssumption
  DEF AgentInv, CallInv, DiskInv, JobInv, ForeignKept, Installing, Fresh, Removing, Looked, disk, launchd, NoCall,
     Truthful, Answered, Publish, Goto, ReturnAnswer, End, NoFault

\* removePublished takes the file in hand,
LEMMA SetAsideKeeps == ASSUME AgentInv, SetAside PROVE AgentInv' /\ Truthful
  BY SMT, LaunchdAssumption
  DEF AgentInv, CallInv, DiskInv, JobInv, ForeignKept, Installing, Fresh, Removing, Looked, disk, launchd, NoCall,
     Truthful, Answered, SetAside, ReturnAnswer, End

\* and puts a foreign one back or leaves it aside.
LEMMA RemovePublishedKeeps == ASSUME AgentInv, RemovePublished PROVE AgentInv' /\ Truthful
  BY SMT, LaunchdAssumption
  DEF AgentInv, CallInv, DiskInv, JobInv, ForeignKept, Installing, Fresh, Removing, Looked, disk, launchd, NoCall,
     Truthful, Answered, RemovePublished, ReturnAnswer, End

\* The plist leaves after its job.
LEMMA RemovePlistKeeps == ASSUME AgentInv, RemovePlist PROVE AgentInv' /\ Truthful
  BY SMT, LaunchdAssumption
  DEF AgentInv, CallInv, DiskInv, JobInv, ForeignKept, Installing, Fresh, Removing, Looked, disk, launchd, NoCall,
     Truthful, Answered, RemovePlist, Overtaken, ReturnAnswer, End

\* launchd runs a job it holds.
LEMMA JobTurnsKeeps == ASSUME AgentInv, JobTurns PROVE AgentInv' /\ Truthful
  BY SMT, LaunchdAssumption
  DEF AgentInv, CallInv, DiskInv, JobInv, ForeignKept, Installing, Fresh, Removing, Looked, disk, launchd, NoCall,
     Truthful, Answered, JobTurns

\* Another actor that writes where a call relies on its look is late,
LEMMA WriteForeignKeeps == ASSUME AgentInv, WriteForeign PROVE AgentInv' /\ Truthful
  BY SMT, LaunchdAssumption
  DEF AgentInv, CallInv, DiskInv, JobInv, ForeignKept, Installing, Fresh, Removing, Looked, disk, launchd, NoCall,
     Truthful, Answered, WriteForeign, Looked

\* takes away only its own,
LEMMA TakeForeignKeeps == ASSUME AgentInv, TakeForeign PROVE AgentInv' /\ Truthful
  BY SMT, LaunchdAssumption
  DEF AgentInv, CallInv, DiskInv, JobInv, ForeignKept, Installing, Fresh, Removing, Looked, disk, launchd, NoCall,
     Truthful, Answered, TakeForeign

\* and loads only its own.
LEMMA LoadForeignKeeps == ASSUME AgentInv, LoadForeign PROVE AgentInv' /\ Truthful
  BY SMT, LaunchdAssumption
  DEF AgentInv, CallInv, DiskInv, JobInv, ForeignKept, Installing, Fresh, Removing, Looked, disk, launchd, NoCall,
     Truthful, Answered, LoadForeign

\* A call begins at its first step.
LEMMA BeginKeeps == ASSUME AgentInv, Begin PROVE AgentInv' /\ Truthful
<1>1. PICK c \in Calls :
        /\ call' = c
        /\ pc' = CASE c.verb \in {"apply", "verify"} -> "verify"
                   [] c.verb \in {"fresh", "absent"} -> "absent"
                   [] c.verb = "remove" -> "remove"
  BY DEF Begin
<1>2. /\ c.verb \in AgentVerbs /\ c.def \in Defs
      /\ pc = "idle" /\ UNCHANGED <<plist, aside, foreign, job, running, held, look, cut>>
  BY DEF Begin, Calls, disk, launchd
<1>3. \/ c.verb \in {"apply", "verify"} /\ pc' = "verify"
      \/ c.verb \in {"fresh", "absent"} /\ pc' = "absent"
      \/ c.verb = "remove" /\ pc' = "remove"
  BY SMT, <1>1, <1>2 DEF AgentVerbs
<1> QED
  BY SMT, <1>1, <1>2, <1>3
  DEF AgentInv, CallInv, DiskInv, JobInv, ForeignKept, Installing, Fresh, Removing, Looked, Truthful, Answered

\* The process dies: a file in its hands stays aside.
LEMMA CrashKeeps == ASSUME AgentInv, Crash PROVE AgentInv' /\ Truthful
<1>1. /\ pc' = "idle" /\ held' = None /\ look' = "fresh" /\ answer' = "error" /\ UNCHANGED <<plist, foreign, job, running>>
      /\ aside' = IF held = Foreign THEN aside + 1 ELSE aside
      /\ cut' = (cut \/ (Reloading /\ job' \notin {None, plist, call.def}))
  BY DEF Crash, Fail, End, launchd
<1>2. CallInv' /\ Truthful
  BY SMT, <1>1 DEF CallInv, Installing, Fresh, Removing, Looked, Truthful, Answered
<1>3. DiskInv' /\ ForeignKept'
  BY SMT, <1>1, LaunchdAssumption DEF AgentInv, DiskInv, ForeignKept, Looked
<1>4. cut' \in BOOLEAN /\ (cut' <=> cut \/ (Reloading /\ job' \notin {None, plist, call.def}))
  BY <1>1 DEF AgentInv, JobInv
<1>5. JobInv'
  BY SMT, <1>1, <1>4 DEF AgentInv, CallInv, DiskInv, JobInv, Reloading, Installing
<1> QED
  BY <1>2, <1>3, <1>5 DEF AgentInv

\* A bootout leaves no job, or is tried again, or fails.
LEMMA BootoutKeeps == ASSUME AgentInv, Bootout PROVE AgentInv' /\ Truthful
<1> DEFINE kind == IF job = None THEN "notLoaded" ELSE "loaded"
<1>1. PICK o \in Outcomes(None, kind) :
        /\ job' = o.job
        /\ running' = (running /\ o.job # None)
        /\ IF o.kind \in {"loaded", "notLoaded"}
           THEN pc' = "bootstrap" /\ cut' = FALSE /\ UNCHANGED <<call, attempt, held, look, answer>>
           ELSE SettleCall(o, "bootout", FALSE)
  BY DEF Bootout
<1>2. pc = "bootout" /\ UNCHANGED <<plist, aside, foreign>> /\ UNCHANGED disk
  BY DEF Bootout, disk
<1>3. kind \notin {"inFlux", "failed"}
  BY SMT
<1> HIDE DEF kind
<1>4. o.job \in {job, None} /\ (o.kind \in {"loaded", "notLoaded"} => o.job = None)
  BY SMT, <1>3, OutcomeOf
<1>running. running' \in BOOLEAN /\ (running' => job' # None)
  BY <1>1 DEF AgentInv, JobInv
<1>5. held = None /\ job' \in Defs \cup {None, Foreign} /\ job' \in {job, None}
  BY <1>1, <1>2, <1>4 DEF AgentInv, DiskInv, JobInv
<1>6. CASE o.kind \in {"loaded", "notLoaded"}
  <2>1. pc' = "bootstrap" /\ cut' \in BOOLEAN /\ job' = None /\ UNCHANGED <<call, held, look, answer>>
    BY <1>1, <1>4, <1>6
  <2>2. CallInv' /\ DiskInv' /\ ForeignKept' /\ Truthful
    BY SMT, <1>2, <2>1
    DEF AgentInv, CallInv, DiskInv, ForeignKept, Installing, Fresh, Removing, Looked, Truthful, Answered
  <2>3. JobInv'
    BY SMT, <2>1, <1>running DEF JobInv
  <2> QED
    BY <2>2, <2>3 DEF AgentInv
<1>7. CASE o.kind \notin {"loaded", "notLoaded"}
  <2>1. \/ pc' = "bootout" /\ UNCHANGED <<call, held, look, cut, answer>>
        \/ Fail
    BY <1>1, <1>7 DEF SettleCall
  <2>2. CASE Fail
    BY <2>2, <1>2, <1>5, <1>running, FailKeeps
  <2>3. CASE pc' = "bootout" /\ UNCHANGED <<call, held, look, cut, answer>>
    BY SMT, <2>3, <1>2, <1>5, <1>running, LaunchdAssumption
    DEF AgentInv, CallInv, DiskInv, JobInv, ForeignKept, Installing, Fresh, Removing, Looked, Truthful, Answered
  <2> QED
    BY <2>1, <2>2, <2>3
<1> QED
  BY <1>6, <1>7

\* A bootstrap loads the plist that was written, or starts over, or fails.
LEMMA BootstrapKeeps == ASSUME AgentInv, Bootstrap PROVE AgentInv' /\ Truthful
<1>1. PICK o \in Bootstrapping :
        /\ job' = o.job
        /\ running' = (running \/ o.job # job)
        /\ SettleCall(o, "bootout", Goto("loadKick"))
  BY DEF Bootstrap
<1>2. pc = "bootstrap" /\ UNCHANGED <<plist, aside, foreign>> /\ UNCHANGED disk
  BY DEF Bootstrap, disk
<1>3. /\ held = None /\ plist \in Defs \cup {None, Foreign}
      /\ look = "fresh" => job \in {None, plist}
  BY <1>2 DEF AgentInv, DiskInv, JobInv
<1>4. o.job \in {job, plist} /\ (o.kind = "loaded" => o.job = plist) /\ (o.job # job => o.job # None)
  BY SMT, BootstrappingOf
<1>5. /\ running' \in BOOLEAN /\ (running' => job' # None)
      /\ job' \in Defs \cup {None, Foreign} /\ job' \in {job, plist}
      /\ look = "fresh" => job' \in {None, plist}
  BY SMT, <1>1, <1>3, <1>4 DEF AgentInv, JobInv
<1>6. \/ pc' \in {"bootout", "loadKick"} /\ UNCHANGED <<call, held, look, cut, answer>>
      \/ Fail
  BY <1>1 DEF SettleCall, Goto
<1>7. CASE Fail
  BY <1>7, <1>2, <1>3, <1>5, FailKeeps
<1>8. CASE pc' \in {"bootout", "loadKick"} /\ UNCHANGED <<call, held, look, cut, answer>>
  BY SMT, <1>8, <1>2, <1>3, <1>5, LaunchdAssumption
  DEF AgentInv, CallInv, DiskInv, JobInv, ForeignKept, Installing, Fresh, Removing, Looked, Truthful, Answered
<1> QED
  BY <1>6, <1>7, <1>8

\* A kickstart that succeeded found a job and left it running.
LEMMA KickstartKeeps == ASSUME AgentInv, Kickstart PROVE AgentInv' /\ Truthful
<1> DEFINE kind == IF job = None THEN "notLoaded" ELSE "loaded"
<1> DEFINE first == IF pc = "loadKick" THEN "bootout" ELSE pc
<1>1. PICK o \in Outcomes(job, kind) :
        /\ running' = (job # None /\ (running \/ o.kind = "loaded"))
        /\ SettleCall(o, first, ReturnAnswer(TRUE))
  BY DEF Kickstart
<1>2. /\ pc \in {"kick", "loadKick", "freshKick"} /\ UNCHANGED <<job, plist, aside, foreign>> /\ UNCHANGED disk
      /\ first \in {"bootout", "kick", "freshKick"} /\ (first = "bootout" <=> pc = "loadKick")
      /\ (first # "bootout" => first = pc)
  BY SMT DEF Kickstart, disk
<1>3. o.kind = "loaded" => job # None
  BY SMT, OutcomeOf
<1> HIDE DEF kind, first
<1>4. held = None /\ running' \in BOOLEAN /\ (running' => job' # None)
      /\ job' \in Defs \cup {None, Foreign} /\ job' \in {job, None}
  BY SMT, <1>1, <1>2 DEF AgentInv, DiskInv, JobInv
<1>5. \/ o.kind = "loaded" /\ ReturnAnswer(TRUE)
      \/ pc' = first /\ UNCHANGED <<call, held, look, cut, answer>>
      \/ Fail
  BY <1>1 DEF SettleCall
<1>6. CASE Fail
  BY <1>6, <1>2, <1>4, FailKeeps
<1>7. CASE pc' = first /\ UNCHANGED <<call, held, look, cut, answer>>
  BY SMT, <1>7, <1>2, <1>4, LaunchdAssumption
  DEF AgentInv, CallInv, DiskInv, JobInv, ForeignKept, Installing, Fresh, Removing, Looked, Truthful, Answered
<1>8. CASE o.kind = "loaded" /\ ReturnAnswer(TRUE)
  <2>1. /\ pc' = "idle" /\ held' = None /\ look' = "fresh" /\ UNCHANGED cut /\ running'
    BY <1>1, <1>3, <1>8 DEF ReturnAnswer, End
  <2>2. CallInv' /\ DiskInv' /\ ForeignKept'
    BY SMT, <1>2, <1>4, <2>1, LaunchdAssumption
    DEF AgentInv, CallInv, DiskInv, ForeignKept, Installing, Fresh, Removing, Looked
  <2>3. JobInv'
    BY SMT, <1>2, <1>4, <2>1 DEF AgentInv, JobInv
  <2>4. call.verb = "apply" /\ look = "fresh" => plist = call.def /\ (job = call.def \/ cut)
    BY SMT, <1>2, <1>3, <1>8, LaunchdAssumption
    DEF AgentInv, CallInv, DiskInv, JobInv, Installing, Fresh
  <2>5. call.verb # "remove"
    BY SMT, <1>2 DEF AgentInv, CallInv, Installing, Fresh
  <2>6. Truthful
    BY <1>2, <2>1, <2>4, <2>5 DEF Truthful
  <2> QED
    BY <2>2, <2>3, <2>6 DEF AgentInv
<1> QED
  BY <1>5, <1>6, <1>7, <1>8

\* A fresh bootstrap loads whatever file is there; its failure goes on to
\* removePublished.
LEMMA BootstrapFreshKeeps == ASSUME AgentInv, BootstrapFresh PROVE AgentInv' /\ Truthful
<1>1. PICK o \in Bootstrapping :
        /\ job' = o.job
        /\ running' = (running \/ o.job # job)
        /\ IF o.kind = "inFlux" /\ attempt < Attempts
           THEN attempt' = attempt + 1 /\ UNCHANGED <<pc, call, held, look, cut, answer>>
           ELSE IF o.kind = "loaded"
           THEN /\ pc' = "freshKick"
                /\ attempt' = 1
                /\ UNCHANGED <<call, held, look, cut, answer>>
           ELSE Goto("setAside")
  BY DEF BootstrapFresh
<1>2. pc = "freshBootstrap" /\ UNCHANGED <<plist, aside, foreign>>
  BY DEF BootstrapFresh, disk
<1>3. pc' \in {"freshBootstrap", "freshKick", "setAside"} /\ UNCHANGED <<call, held, look, cut, answer>>
  BY <1>1, <1>2 DEF Goto
<1>4. o.job = job \/ (job = None /\ plist # None /\ o.job = plist)
  BY BootstrappingOf
<1> QED
  BY SMT, <1>1, <1>2, <1>3, <1>4, LaunchdAssumption
  DEF AgentInv, CallInv, DiskInv, JobInv, ForeignKept, Installing, Fresh, Removing, Looked, Truthful, Answered

\* Remove goes on only at a plist of daemonkit's.
LEMMA RemoveKeeps == ASSUME AgentInv, Remove PROVE AgentInv' /\ Truthful
<1>1. /\ pc = "remove" /\ UNCHANGED <<plist, aside, foreign, job, running>>
      /\ CASE plist = None -> ReturnAnswer(TRUE)
           [] plist = Foreign -> ReturnAnswer(FALSE)
           [] plist \in Defs -> Goto("removeBootout")
      /\ plist \in Defs \cup {None, Foreign}
  BY DEF Remove, disk, launchd, AgentInv, DiskInv
<1>2. CASE plist = None
  <2>1. ReturnAnswer(TRUE)
    BY <1>1, <1>2, LaunchdAssumption
  <2> QED
    BY SMT, <1>1, <1>2, <2>1, LaunchdAssumption
    DEF AgentInv, CallInv, DiskInv, JobInv, ForeignKept, Installing, Fresh, Removing, Looked, Truthful, Answered,
        ReturnAnswer, End
<1>3. CASE plist = Foreign
  <2>1. ReturnAnswer(FALSE)
    BY <1>1, <1>3, LaunchdAssumption
  <2> QED
    BY SMT, <1>1, <1>3, <2>1, LaunchdAssumption
    DEF AgentInv, CallInv, DiskInv, JobInv, ForeignKept, Installing, Fresh, Removing, Looked, Truthful, Answered,
        ReturnAnswer, End
<1>4. CASE plist \in Defs
  <2>1. Goto("removeBootout")
    BY <1>1, <1>4, LaunchdAssumption
  <2> QED
    BY SMT, <1>1, <1>4, <2>1, LaunchdAssumption
    DEF AgentInv, CallInv, DiskInv, JobInv, ForeignKept, Installing, Fresh, Removing, Looked, Truthful, Answered, Goto
<1> QED
  BY <1>1, <1>2, <1>3, <1>4

\* And on to the file only when launchd holds no job any more.
LEMMA RemoveBootoutKeeps == ASSUME AgentInv, RemoveBootout PROVE AgentInv' /\ Truthful
<1> DEFINE kind == IF job = None THEN "notLoaded" ELSE "loaded"
<1>1. PICK o \in Outcomes(None, kind) :
        /\ job' = o.job
        /\ running' = (running /\ o.job # None)
        /\ IF o.kind \in {"loaded", "notLoaded"} THEN Goto("removePlist") ELSE ReturnAnswer(FALSE)
  BY DEF RemoveBootout
<1>2. pc = "removeBootout" /\ UNCHANGED <<plist, aside, foreign>>
  BY DEF RemoveBootout, disk
<1>3. kind \notin {"inFlux", "failed"}
  BY SMT
<1> HIDE DEF kind
<1>4. o.job \in {job, None} /\ (o.kind \in {"loaded", "notLoaded"} => o.job = None)
  BY SMT, <1>3, OutcomeOf
<1>running. running' \in BOOLEAN /\ (running' => job' # None)
  BY <1>1 DEF AgentInv, JobInv
<1>5. \/ o.job = None /\ Goto("removePlist")
      \/ ReturnAnswer(FALSE)
  BY <1>1, <1>4
<1>6. /\ call.verb = "remove" /\ call.def \in Defs /\ held = None
      /\ job' \in Defs \cup {None, Foreign} /\ job' \in {job, None}
  <2>1. call.verb = "remove" /\ call.def \in Defs
    BY SMT, <1>2 DEF AgentInv, CallInv, Removing
  <2>2. held = None
    BY <1>2 DEF AgentInv, DiskInv
  <2> QED
    BY <1>1, <1>4, <2>1, <2>2 DEF AgentInv, JobInv
<1>7. CASE o.job = None /\ Goto("removePlist")
  <2>1. pc' = "removePlist" /\ job' = None /\ UNCHANGED <<call, held, look, cut, answer>>
    BY <1>1, <1>7 DEF Goto
  <2>2. CallInv'
    BY SMT, <1>6, <2>1 DEF CallInv, Installing, Fresh, Removing, Looked
  <2>3. DiskInv' /\ ForeignKept'
    BY <1>2, <1>6, <2>1 DEF AgentInv, DiskInv, ForeignKept, Looked
  <2>4. JobInv'
    BY <1>running, <1>6, <2>1 DEF AgentInv, JobInv
  <2> QED
    BY <2>1, <2>2, <2>3, <2>4 DEF AgentInv, Truthful, Answered
<1>8. CASE ReturnAnswer(FALSE)
  <2>1. pc' = "idle" /\ held' = None /\ look' = "fresh" /\ answer' = "error" /\ cut' = cut
    BY <1>8 DEF ReturnAnswer, End
  <2>2. CallInv'
    BY SMT, <2>1 DEF CallInv, Installing, Fresh, Removing, Looked
  <2>3. DiskInv' /\ ForeignKept'
    BY <1>2, <1>6, <2>1 DEF AgentInv, DiskInv, ForeignKept, Looked
  <2>4. JobInv'
    BY <1>2, <1>running, <1>6, <2>1 DEF AgentInv, JobInv
  <2> QED
    BY <2>1, <2>2, <2>3, <2>4 DEF AgentInv, Truthful, Answered
<1> QED
  BY <1>5, <1>7, <1>8

\* Every step of the label.
LEMMA NextKeeps == ASSUME AgentInv, LaunchdNext PROVE AgentInv' /\ Truthful
  BY BeginKeeps, VerifyKeeps, PrintAgentKeeps, ArchiveForeignPlistKeeps, WritePlistKeeps,
     BootoutKeeps, BootstrapKeeps, KickstartKeeps, RequireAbsentKeeps, PrintAbsentKeeps,
     PublishKeeps, BootstrapFreshKeeps, SetAsideKeeps, RemovePublishedKeeps, RemoveKeeps,
     RemoveBootoutKeeps, RemovePlistKeeps, CrashKeeps, JobTurnsKeeps, WriteForeignKeeps,
     TakeForeignKeeps, LoadForeignKeeps
  DEF LaunchdNext, Step

\* A label nobody has used.
LEMMA InitHolds == LaunchdInit => AgentInv
<1> SUFFICES ASSUME LaunchdInit PROVE AgentInv
  OBVIOUS
<1>1. CallInv
  BY SMT DEF LaunchdInit, CallInv, Installing, Fresh, Removing, Looked
<1>2. DiskInv /\ ForeignKept
  BY SMT, LaunchdAssumption DEF LaunchdInit, DiskInv, ForeignKept, Looked
<1>3. JobInv
  BY LaunchdAssumption DEF LaunchdInit, JobInv
<1> QED
  BY <1>1, <1>2, <1>3 DEF AgentInv

\* Stuttering.
LEMMA StutterKeeps == ASSUME AgentInv, UNCHANGED launchdVars PROVE AgentInv'
  BY SMT DEF AgentInv, CallInv, DiskInv, JobInv, ForeignKept, launchdVars, disk, launchd

\* The inductive invariant: where a call of launchd/apply.go is tells what the
\* file at the label and launchd's job are, whatever failed or died before.
THEOREM LaunchdInvariant == LaunchdSpec => []AgentInv
<1>1. AgentInv /\ [LaunchdNext]_launchdVars => AgentInv'
  BY NextKeeps, StutterKeeps
<1> QED
  BY <1>1, InitHolds, PTL DEF LaunchdSpec

\* ForeignKept: archiveForeignPlist, WriteFileNew and removePublished lose no
\* plist another actor wrote, for any number of faults and of foreign writes and
\* whenever these are made, but one put at the label between the look of Apply or
\* Remove and its write or removal.
THEOREM ForeignPlistsKept == LaunchdSpec => []ForeignKept
<1>1. AgentInv => ForeignKept
  BY DEF AgentInv
<1> QED
  BY <1>1, LaunchdInvariant, PTL

\* AnswersTrue: a success of Apply or of Remove describes the label, for any
\* definitions, attempts and faults.
THEOREM AnswersAreTrue == LaunchdSpec => AnswersTrue
<1>1. AgentInv /\ [LaunchdNext]_launchdVars =>
        [Answered(TRUE) =>
           /\ call.verb = "apply" => running'
           /\ call.verb = "apply" /\ look = "fresh" => plist' = call.def /\ (job' = call.def \/ cut)
           /\ call.verb = "remove" /\ plist \in Defs => job' \notin Defs]_launchdVars
  BY NextKeeps DEF Truthful
<1> QED
  BY <1>1, LaunchdInvariant, PTL DEF LaunchdSpec, AnswersTrue
=============================================================================
