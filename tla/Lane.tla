-------------------------------- MODULE Lane --------------------------------
(***************************************************************************)
(* The lanes of business.go: the client's own link, which Health, Drain,   *)
(* WaitReady and Ensure ride, the business lanes that may take its session *)
(* over, and single-session lanes over a connection handed to them.        *)
(* Concurrent callers acquire, use, retire and close sessions; a lane's    *)
(* mutex is held from the look at its session to the end of the attach.    *)
(***************************************************************************)
EXTENDS Naturals, FiniteSets

CONSTANTS
    Link,           \* the client's own lane
    Lanes,          \* business lanes of that client
    Singles,        \* single-session lanes
    Callers,
    MaxSessions,    \* sessions that may ever open
    Attempts,       \* attachAttempts
    Nobody

ASSUME LaneAssumption ==
    /\ Link \notin Lanes \cup Singles /\ Lanes \cap Singles = {}
    /\ MaxSessions \in Nat /\ Cardinality(Singles) <= MaxSessions
    /\ Attempts \in Nat \ {0} /\ Nobody \notin Callers

VARIABLES
    sess,      \* each session: unused, open, broken, or ended by this side
    lane,      \* each lane's session (0 for none) and whether it is closed
    mutex,     \* who holds each lane's mutex
    caller,    \* each caller's operation
    cut        \* ghost: sessions ended while another lane held them

laneVars == <<sess, lane, mutex, caller, cut>>

AllLanes == {Link} \cup Lanes \cup Singles
Sessions == 1..MaxSessions
Failed(s) == sess[s] \in {"broken", "ended"}

\* A single-session lane is made with its session; the others perform no I/O
\* before their first use.  "ask" is Health, Drain or an observation, on the link.
LaneInit ==
    /\ \E made \in [Singles -> Sessions] :
          /\ \A a, b \in Singles : a # b => made[a] # made[b]
          /\ sess = [s \in Sessions |-> IF \E a \in Singles : made[a] = s THEN "open" ELSE "unused"]
          /\ lane = [l \in AllLanes |-> [session |-> IF l \in Singles THEN made[l] ELSE 0, closed |-> FALSE]]
    /\ mutex = [l \in AllLanes |-> Nobody]
    /\ \E on \in [Callers -> AllLanes], op \in [Callers -> {"call", "ask", "close"}] :
          /\ \A k \in Callers : op[k] = "ask" => on[k] = Link
          /\ \A k \in Callers : op[k] = "call" => on[k] # Link
          /\ caller = [k \in Callers |-> [op |-> op[k], lane |-> on[k], at |-> "start", session |-> 0,
                                          tries |-> 1, again |-> FALSE, late |-> FALSE, was |-> "none"]]
    /\ cut = {}

Goes(k, step) == caller' = [caller EXCEPT ![k].at = step]
Uses(k, s) == caller' = [caller EXCEPT ![k].at = "use", ![k].session = s]
Leaves(k, was) == caller' = [caller EXCEPT ![k].at = "done", ![k].was = was]
Of(k) == caller[k].lane
Held(k) == lane[Of(k)].session
Free(l) == mutex[l] = Nobody
HeldByOther(s, l) == \E m \in AllLanes \ {l} : lane[m].session = s

\* A caller ends session s on behalf of lane l.
EndSession(s, l) ==
    /\ sess' = [sess EXCEPT ![s] = "ended"]
    /\ cut' = IF HeldByOther(s, l) THEN cut \cup {s} ELSE cut
-----------------------------------------------------------------------------
\* acquire under the mutex: a session that has not failed is used; a failed one
\* is aborted, unless it is all a single-session lane has.
AcquireHeld(k) ==
    /\ caller[k].op # "close" /\ caller[k].at = "start" /\ Free(Of(k))
    /\ Held(k) # 0 /\ (Of(k) \in Singles \/ ~Failed(Held(k)))
    /\ Uses(k, Held(k))
    /\ UNCHANGED <<sess, lane, mutex, cut>>

\* Mutant: a closed lane attaches again.
AcquireReopens(k) ==
    /\ caller[k].op # "close" /\ caller[k].at = "start" /\ Free(Of(k))
    /\ IF Held(k) = 0 THEN UNCHANGED <<sess, cut>>
       ELSE Failed(Held(k)) /\ Of(k) \notin Singles /\ EndSession(Held(k), Of(k))
    /\ lane' = [lane EXCEPT ![Of(k)].session = 0]
    /\ mutex' = [mutex EXCEPT ![Of(k)] = k]
    /\ caller' = [caller EXCEPT ![k].at = "attach", ![k].tries = 1]

Acquire(k) ==
    /\ caller[k].op # "close" /\ caller[k].at = "start" /\ Free(Of(k))
    /\ IF Held(k) = 0 THEN UNCHANGED <<sess, cut>>
       ELSE Failed(Held(k)) /\ Of(k) \notin Singles /\ EndSession(Held(k), Of(k))
    /\ lane' = [lane EXCEPT ![Of(k)].session = 0]
    /\ IF lane[Of(k)].closed
       THEN Leaves(k, "closed") /\ UNCHANGED mutex
       ELSE mutex' = [mutex EXCEPT ![Of(k)] = k] /\ caller' = [caller EXCEPT ![k].at = "attach", ![k].tries = 1]

\* surrender gives away a session that has not failed.
Surrendered == lane[Link].session # 0 /\ ~Failed(lane[Link].session)

\* Mutant: the link keeps the session it surrenders.
SurrenderCopied(k) ==
    /\ caller[k].at = "attach"
    /\ \/ /\ Of(k) \in Lanes /\ Free(Link)
          /\ IF Surrendered
             THEN /\ lane' = [lane EXCEPT ![Of(k)].session = lane[Link].session]
                  /\ mutex' = [mutex EXCEPT ![Of(k)] = Nobody]
                  /\ Uses(k, lane[Link].session)
             ELSE Goes(k, "dial") /\ UNCHANGED <<lane, mutex>>
       \/ Of(k) = Link /\ Goes(k, "dial") /\ UNCHANGED <<lane, mutex>>
    /\ UNCHANGED <<sess, cut>>

\* A business lane first takes over the session of the link, under the link's
\* mutex too.
Surrender(k) ==
    /\ caller[k].at = "attach"
    /\ \/ /\ Of(k) \in Lanes /\ Free(Link)
          /\ IF Surrendered
             THEN /\ lane' = [lane EXCEPT ![Of(k)].session = lane[Link].session, ![Link].session = 0]
                  /\ mutex' = [mutex EXCEPT ![Of(k)] = Nobody]
                  /\ Uses(k, lane[Link].session)
             ELSE Goes(k, "dial") /\ UNCHANGED <<lane, mutex>>
       \/ Of(k) = Link /\ Goes(k, "dial") /\ UNCHANGED <<lane, mutex>>
    /\ UNCHANGED <<sess, cut>>

\* attachSocket opens a session.
AttachSocket(k) ==
    /\ \E s \in Sessions :
          /\ sess[s] = "unused" /\ \A r \in Sessions : sess[r] = "unused" => s <= r
          /\ sess' = [sess EXCEPT ![s] = "open"]
          /\ lane' = [lane EXCEPT ![Of(k)].session = s]
          /\ Uses(k, s)
    /\ mutex' = [mutex EXCEPT ![Of(k)] = Nobody]

\* Mutant: a full slot table is tried again for ever.
DialAgain(k) ==
    /\ caller[k].at = "dial"
    /\ Goes(k, "attach")
    /\ UNCHANGED <<sess, lane, mutex, cut>>

\* The attach: a session, a refusal, or a full slot table that is tried again
\* a bounded number of times within the caller's deadline.
DialLane(k) ==
    /\ caller[k].at = "dial"
    /\ \/ ~caller[k].late /\ AttachSocket(k)
       \/ /\ ~caller[k].late /\ caller[k].tries < Attempts
          /\ caller' = [caller EXCEPT ![k].at = "attach", ![k].tries = caller[k].tries + 1]
          /\ UNCHANGED <<sess, lane, mutex>>
       \/ /\ Leaves(k, "refused")
          /\ mutex' = [mutex EXCEPT ![Of(k)] = Nobody]
          /\ UNCHANGED <<sess, lane>>
    /\ UNCHANGED cut

\* Call and ask on the session acquired.  A call retires it when it has failed
\* or may have half-written a frame; ask retires it on any failed read.
Use(k) ==
    LET s == caller[k].session IN
    /\ caller[k].at = "use"
    /\ \/ ~Failed(s) /\ Leaves(k, "answered")
       \/ caller[k].op = "call" /\ ~Failed(s) /\ caller[k].late /\ Leaves(k, "expired")
       \/ caller' = [caller EXCEPT ![k].at = "retire", ![k].was = "failed"]
    /\ UNCHANGED <<sess, lane, mutex, cut>>

\* What follows a retirement: ask reads the session's failure only now, when
\* the retirement itself may have caused it, and asks once more.
Retired(k) ==
    caller' = [caller EXCEPT ![k] =
                 IF @.op = "ask" /\ sess'[@.session] \in {"broken", "ended"} /\ ~@.again
                 THEN [@ EXCEPT !.at = "start", !.again = TRUE, !.session = 0]
                 ELSE [@ EXCEPT !.at = "done"]]

\* Mutants: the session a caller failed on is aborted whoever holds it, or is
\* let go and never aborted.
RetireAny(k) ==
    /\ caller[k].at = "retire" /\ Free(Of(k))
    /\ lane' = [lane EXCEPT ![Of(k)] = IF Held(k) = caller[k].session THEN [@ EXCEPT !.session = 0] ELSE @]
    /\ Goes(k, "abort")
    /\ UNCHANGED <<sess, mutex, cut>>
RetireForgets(k) ==
    /\ caller[k].at = "retire" /\ Free(Of(k))
    /\ lane' = [lane EXCEPT ![Of(k)] = IF Held(k) = caller[k].session THEN [@ EXCEPT !.session = 0] ELSE @]
    /\ UNCHANGED <<sess, mutex, cut>>
    /\ Retired(k)

\* retire drops the session if it is still the lane's; a single-session lane
\* closes with it.  The abort follows outside the mutex.
Retire(k) ==
    /\ caller[k].at = "retire" /\ Free(Of(k))
    /\ UNCHANGED <<sess, mutex, cut>>
    /\ IF Held(k) = caller[k].session
       THEN /\ lane' = [lane EXCEPT ![Of(k)].session = 0, ![Of(k)].closed = @ \/ Of(k) \in Singles]
            /\ Goes(k, "abort")
       ELSE Retired(k) /\ UNCHANGED lane

Abort(k) ==
    /\ caller[k].at = "abort"
    /\ EndSession(caller[k].session, Of(k))
    /\ Retired(k)
    /\ UNCHANGED <<lane, mutex>>

\* Close takes the session away under the mutex and ends it outside.
CloseLane(k) ==
    /\ caller[k].op = "close" /\ caller[k].at = "start" /\ Free(Of(k))
    /\ lane' = [lane EXCEPT ![Of(k)] = [session |-> 0, closed |-> TRUE]]
    /\ caller' = [caller EXCEPT ![k].at = IF Held(k) = 0 THEN "done" ELSE "end", ![k].session = Held(k)]
    /\ UNCHANGED <<sess, mutex, cut>>

CloseSession(k) ==
    /\ caller[k].at = "end"
    /\ EndSession(caller[k].session, Of(k))
    /\ Goes(k, "done")
    /\ UNCHANGED <<lane, mutex>>

\* The peer goes away, or a caller's deadline passes.
Break(s) ==
    /\ sess[s] = "open" /\ \E k \in Callers : caller[k].at # "done"
    /\ sess' = [sess EXCEPT ![s] = "broken"]
    /\ UNCHANGED <<lane, mutex, caller, cut>>
Expire(k) ==
    /\ caller[k].at # "done" /\ ~caller[k].late
    /\ caller' = [caller EXCEPT ![k].late = TRUE]
    /\ UNCHANGED <<sess, lane, mutex, cut>>

Step(k) ==
    \/ AcquireHeld(k) \/ Acquire(k) \/ Surrender(k) \/ DialLane(k) \/ Use(k)
    \/ Retire(k) \/ Abort(k) \/ CloseLane(k) \/ CloseSession(k)
LaneNext == (\E k \in Callers : Step(k) \/ Expire(k)) \/ \E s \in Sessions : Break(s)
LaneSpec == LaneInit /\ [][LaneNext]_laneVars
LaneFairSpec == LaneSpec /\ \A k \in Callers : SF_laneVars(Step(k)) /\ WF_laneVars(Expire(k))
-----------------------------------------------------------------------------
\* A session belongs to one lane: a business lane that takes the link's session
\* over leaves the link without it.
OneHolder == \A l, m \in AllLanes : l # m /\ lane[l].session # 0 => lane[l].session # lane[m].session

\* client.go: "A business lane that took the session over keeps it until its own
\* Close": no retire, abort or Close of a caller that came by another lane ends
\* a session that lane still holds.
SparesOthers == cut = {}

\* Once a lane is closed it holds no session and acquires none, whatever calls
\* were in flight when Close ran.
ClosedHoldsNothing == \A l \in AllLanes : lane[l].closed => lane[l].session = 0

\* No session is left open by nobody: one that is open or broken is some lane's,
\* or a caller is about to end it.
NoneLeaked ==
    \A s \in Sessions : sess[s] \in {"open", "broken"} =>
        \/ \E l \in AllLanes : lane[l].session = s
        \/ \E k \in Callers : caller[k].at \in {"abort", "end"} /\ caller[k].session = s

\* Every session has exactly one lane to answer for it, which alone ends it.
SessionsOwned == OneHolder /\ SparesOthers /\ ClosedHoldsNothing /\ NoneLeaked

\* Every operation on a lane returns.
OperationReturns == \A k \in Callers : <>(caller[k].at = "done")

\* business.go: Close "refuses a context without a deadline, and it honors the
\* one it is given": it does not wait past its deadline for a call that has time
\* left.
CloseHonorsDeadline ==
    \A k \in Callers : caller[k].op = "close" /\ caller[k].at = "start" /\ caller[k].late =>
        Free(Of(k)) \/ caller[mutex[Of(k)]].late
=============================================================================
