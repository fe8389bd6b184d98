---------------------------- MODULE ClientProofs ----------------------------
(***************************************************************************)
(* What the clients of a daemon count on: the lanes their calls share      *)
(* (Lane), and the supervisor that keeps the daemon up under its label on  *)
(* linux (Supervisor).                                                     *)
(***************************************************************************)
EXTENDS Lane, Supervisor, TLAPS

USE Zenon

(***************************************************************************)
(* The lanes, for any number of lanes, callers and sessions: a session has *)
(* one lane, only its lane ends it, a closed lane holds none, and none is  *)
(* left open by nobody.                                                    *)
(***************************************************************************)
Places == {"start", "attach", "dial", "use", "retire", "abort", "end", "done"}

CallerType ==
    [op : {"call", "ask", "close"}, lane : AllLanes, at : Places, session : Sessions \cup {0},
     tries : Nat, again : BOOLEAN, late : BOOLEAN,
     was : {"none", "closed", "refused", "answered", "expired", "failed"}]

LaneType ==
    /\ sess \in [Sessions -> {"unused", "open", "broken", "ended"}]
    /\ lane \in [AllLanes -> [session : Sessions \cup {0}, closed : BOOLEAN]]
    /\ mutex \in [AllLanes -> Callers \cup {Nobody}]
    /\ caller \in [Callers -> CallerType]

\* A lane holds only sessions that were opened.
HeldOpened == \A l \in AllLanes : lane[l].session # 0 => sess[lane[l].session] # "unused"

\* Whoever attaches has the mutex of a lane that is not closed and has no session.
Attaching ==
    \A k \in Callers : caller[k].at \in {"attach", "dial"} =>
        mutex[Of(k)] = k /\ lane[Of(k)].session = 0 /\ ~lane[Of(k)].closed

\* A session taken from its lane to be ended is no lane's any more.
Detached ==
    \A k \in Callers : caller[k].at \in {"abort", "end"} =>
        /\ caller[k].session \in Sessions
        /\ sess[caller[k].session] # "unused"
        /\ \A l \in AllLanes : lane[l].session # caller[k].session

\* A session in use was opened.
UsedOpened ==
    \A k \in Callers : caller[k].at \in {"use", "retire"} =>
        caller[k].session \in Sessions /\ sess[caller[k].session] # "unused"

LaneInv ==
    /\ LaneType /\ HeldOpened /\ Attaching /\ Detached /\ UsedOpened
    /\ OneHolder /\ SparesOthers /\ ClosedHoldsNothing /\ NoneLeaked
-----------------------------------------------------------------------------
\* The initial states.
LEMMA LaneInitInv == LaneInit => LaneInv
<1> SUFFICES ASSUME LaneInit
             PROVE  LaneInv
  OBVIOUS
<1>1. PICK made \in [Singles -> Sessions] :
        /\ \A a, b \in Singles : a # b => made[a] # made[b]
        /\ sess = [s \in Sessions |-> IF \E a \in Singles : made[a] = s THEN "open" ELSE "unused"]
        /\ lane = [l \in AllLanes |-> [session |-> IF l \in Singles THEN made[l] ELSE 0, closed |-> FALSE]]
  BY DEF LaneInit
<1>2. PICK on \in [Callers -> AllLanes], op \in [Callers -> {"call", "ask", "close"}] :
        /\ \A k \in Callers : op[k] = "ask" => on[k] = Link
        /\ \A k \in Callers : op[k] = "call" => on[k] # Link
        /\ caller = [k \in Callers |-> [op |-> op[k], lane |-> on[k], at |-> "start", session |-> 0,
                                        tries |-> 1, again |-> FALSE, late |-> FALSE, was |-> "none"]]
  BY Zenon DEF LaneInit
<1>3. \A l \in Singles : l \in AllLanes
  BY DEF AllLanes
<1>4. \A l \in AllLanes : /\ lane[l].session = IF l \in Singles THEN made[l] ELSE 0
                          /\ lane[l].closed = FALSE
  BY <1>1
<1>5. \A k \in Callers : caller[k].at = "start"
  BY <1>2
<1>6. 0 \notin Sessions
  BY SMT DEF Sessions
<1>7. LaneType
  <2>1. lane \in [AllLanes -> [session : Sessions \cup {0}, closed : BOOLEAN]]
    BY <1>1
  <2>2. sess \in [Sessions -> {"unused", "open", "broken", "ended"}]
    BY <1>1
  <2>3. mutex \in [AllLanes -> Callers \cup {Nobody}]
    BY DEF LaneInit
  <2>4. caller \in [Callers -> CallerType]
    BY <1>2 DEF CallerType, Places
  <2> QED
    BY <2>1, <2>2, <2>3, <2>4 DEF LaneType
<1>8. HeldOpened
  BY <1>1, <1>4 DEF HeldOpened
<1>9. Attaching /\ Detached /\ UsedOpened
  BY <1>5 DEF Attaching, Detached, UsedOpened
<1>10. OneHolder
  BY <1>1, <1>4 DEF OneHolder
<1>11. SparesOthers /\ ClosedHoldsNothing
  BY <1>4 DEF LaneInit, SparesOthers, ClosedHoldsNothing
<1>12. NoneLeaked
  BY <1>1, <1>3, <1>4 DEF NoneLeaked
<1> QED
  BY <1>7, <1>8, <1>9, <1>10, <1>11, <1>12 DEF LaneInv

\* A step of caller k leaves the others, and brings k to p with session s.
Moves(k, p, s) ==
    /\ caller' \in [Callers -> CallerType]
    /\ \A j \in Callers : j # k => caller'[j] = caller[j]
    /\ caller'[k].lane = caller[k].lane /\ caller'[k].at = p /\ caller'[k].session = s

\* A record written at k alone.
LEMMA Put ==
    ASSUME NEW k \in Callers, caller \in [Callers -> CallerType], NEW q \in CallerType,
           q.lane = caller[k].lane, caller' = [caller EXCEPT ![k] = q]
    PROVE  Moves(k, q.at, q.session)
BY DEF Moves

\* The ways a step writes a caller's record.
LEMMA Movings ==
    ASSUME LaneType, NEW k \in Callers, NEW p \in Places, NEW s \in Sessions \cup {0}, NEW n \in Nat,
           NEW w \in {"closed", "refused", "answered", "expired", "failed"}
    PROVE  /\ Goes(k, p) => Moves(k, p, caller[k].session)
           /\ Leaves(k, w) => Moves(k, "done", caller[k].session)
           /\ caller' = [caller EXCEPT ![k].at = p, ![k].session = s] => Moves(k, p, s)
           /\ caller' = [caller EXCEPT ![k].at = p, ![k].was = w] => Moves(k, p, caller[k].session)
           /\ caller' = [caller EXCEPT ![k].at = p, ![k].tries = n] => Moves(k, p, caller[k].session)
           /\ caller' = [caller EXCEPT ![k].late = TRUE] => Moves(k, caller[k].at, caller[k].session)
           /\ Retired(k) => Moves(k, "start", 0) \/ Moves(k, "done", caller[k].session)
<1>0. caller \in [Callers -> CallerType] /\ caller[k] \in CallerType
  BY DEF LaneType
<1>p. "done" \in Places /\ "start" \in Places /\ 0 \in Sessions \cup {0}
  BY DEF Places
<1>1. ASSUME Goes(k, p) PROVE Moves(k, p, caller[k].session)
  <2> DEFINE q == [caller[k] EXCEPT !.at = p]
  <2>1. q \in CallerType /\ q.lane = caller[k].lane
        /\ q.at = p /\ q.session = caller[k].session
    BY <1>0, <1>p DEF CallerType
  <2>2. caller' = [caller EXCEPT ![k] = q]
    BY <1>1 DEF Goes, Leaves
  <2> HIDE DEF q
  <2> QED
    BY <2>1, <2>2, <1>0, Put
<1>2. ASSUME Leaves(k, w) PROVE Moves(k, "done", caller[k].session)
  <2> DEFINE q == [caller[k] EXCEPT !.at = "done", !.was = w]
  <2>1. q \in CallerType /\ q.lane = caller[k].lane
        /\ q.at = "done" /\ q.session = caller[k].session
    BY <1>0, <1>p DEF CallerType
  <2>2. caller' = [caller EXCEPT ![k] = q]
    BY <1>2 DEF Goes, Leaves
  <2> HIDE DEF q
  <2> QED
    BY <2>1, <2>2, <1>0, Put
<1>3. ASSUME caller' = [caller EXCEPT ![k].at = p, ![k].session = s] PROVE Moves(k, p, s)
  <2> DEFINE q == [caller[k] EXCEPT !.at = p, !.session = s]
  <2>1. q \in CallerType /\ q.lane = caller[k].lane
        /\ q.at = p /\ q.session = s
    BY <1>0, <1>p DEF CallerType
  <2>2. caller' = [caller EXCEPT ![k] = q]
    BY <1>3 DEF Goes, Leaves
  <2> HIDE DEF q
  <2> QED
    BY <2>1, <2>2, <1>0, Put
<1>4. ASSUME caller' = [caller EXCEPT ![k].at = p, ![k].was = w] PROVE Moves(k, p, caller[k].session)
  <2> DEFINE q == [caller[k] EXCEPT !.at = p, !.was = w]
  <2>1. q \in CallerType /\ q.lane = caller[k].lane
        /\ q.at = p /\ q.session = caller[k].session
    BY <1>0, <1>p DEF CallerType
  <2>2. caller' = [caller EXCEPT ![k] = q]
    BY <1>4 DEF Goes, Leaves
  <2> HIDE DEF q
  <2> QED
    BY <2>1, <2>2, <1>0, Put
<1>5. ASSUME caller' = [caller EXCEPT ![k].at = p, ![k].tries = n] PROVE Moves(k, p, caller[k].session)
  <2> DEFINE q == [caller[k] EXCEPT !.at = p, !.tries = n]
  <2>1. q \in CallerType /\ q.lane = caller[k].lane
        /\ q.at = p /\ q.session = caller[k].session
    BY <1>0, <1>p DEF CallerType
  <2>2. caller' = [caller EXCEPT ![k] = q]
    BY <1>5 DEF Goes, Leaves
  <2> HIDE DEF q
  <2> QED
    BY <2>1, <2>2, <1>0, Put
<1>6. ASSUME caller' = [caller EXCEPT ![k].late = TRUE] PROVE Moves(k, caller[k].at, caller[k].session)
  <2> DEFINE q == [caller[k] EXCEPT !.late = TRUE]
  <2>1. q \in CallerType /\ q.lane = caller[k].lane
        /\ q.at = caller[k].at /\ q.session = caller[k].session
    BY <1>0, <1>p DEF CallerType
  <2>2. caller' = [caller EXCEPT ![k] = q]
    BY <1>6 DEF Goes, Leaves
  <2> HIDE DEF q
  <2> QED
    BY <2>1, <2>2, <1>0, Put
<1>7. ASSUME caller' = [caller EXCEPT
                           ![k] = [caller[k] EXCEPT !.at = "start", !.again = TRUE, !.session = 0]]
      PROVE  Moves(k, "start", 0)
  <2> DEFINE q == [caller[k] EXCEPT !.at = "start", !.again = TRUE, !.session = 0]
  <2>1. q \in CallerType /\ q.lane = caller[k].lane
        /\ q.at = "start" /\ q.session = 0
    BY <1>0, <1>p DEF CallerType
  <2>2. caller' = [caller EXCEPT ![k] = q]
    BY <1>7 DEF Goes, Leaves
  <2> HIDE DEF q
  <2> QED
    BY <2>1, <2>2, <1>0, Put
<1>8. ASSUME caller' = [caller EXCEPT ![k] = [caller[k] EXCEPT !.at = "done"]] PROVE Moves(k, "done", caller[k].session)
  <2> DEFINE q == [caller[k] EXCEPT !.at = "done"]
  <2>1. q \in CallerType /\ q.lane = caller[k].lane
        /\ q.at = "done" /\ q.session = caller[k].session
    BY <1>0, <1>p DEF CallerType
  <2>2. caller' = [caller EXCEPT ![k] = q]
    BY <1>8 DEF Goes, Leaves
  <2> HIDE DEF q
  <2> QED
    BY <2>1, <2>2, <1>0, Put
<1>9. Retired(k) => Moves(k, "start", 0) \/ Moves(k, "done", caller[k].session)
  BY <1>7, <1>8 DEF Retired
<1> QED
  BY <1>1, <1>2, <1>3, <1>4, <1>5, <1>6, <1>9

\* A step that moves one caller and touches neither lanes nor sessions keeps the
\* invariant, if it brings that caller to a place whose facts hold.
LEMMA CallerStep ==
    ASSUME LaneInv, NEW k \in Callers, NEW p, NEW s, Moves(k, p, s),
           UNCHANGED <<sess, lane, mutex, cut>>,
           caller[k].at \notin {"abort", "end"}, p \notin {"abort", "end"},
           p \in {"attach", "dial"} => caller[k].at \in {"attach", "dial"},
           p \in {"use", "retire"} => s \in Sessions /\ sess[s] # "unused"
    PROVE  LaneInv'
<1> USE DEF LaneInv, Moves, Of
<1>0. LaneType'
  BY DEF LaneType
<1>1. HeldOpened' /\ OneHolder' /\ SparesOthers' /\ ClosedHoldsNothing'
  BY DEF HeldOpened, OneHolder, SparesOthers, ClosedHoldsNothing
<1>2. Attaching'
  BY ZenonT(40) DEF Attaching
<1>3. Detached'
  BY DEF Detached
<1>4. UsedOpened'
  BY DEF UsedOpened
<1>5. NoneLeaked'
  BY SMT DEF NoneLeaked
<1> QED
  BY <1>0, <1>1, <1>2, <1>3, <1>4, <1>5

\* A session is ended by a caller on whose behalf no lane holds it any more.
LEMMA EndStep ==
    ASSUME LaneInv, NEW k \in Callers, NEW p \in {"start", "done"}, NEW s, Moves(k, p, s),
           caller[k].at \in {"abort", "end"}, EndSession(caller[k].session, Of(k)),
           UNCHANGED <<lane, mutex>>
    PROVE  LaneInv'
<1> USE DEF LaneInv, Moves, Of
<1> DEFINE e == caller[k].session
<1>e. /\ e \in Sessions /\ \A l \in AllLanes : lane[l].session # e
      /\ sess' = [sess EXCEPT ![e] = "ended"]
  BY DEF Detached, EndSession
<1>s. DOMAIN sess = Sessions
  BY DEF LaneType
<1>0. LaneType'
  BY <1>e DEF LaneType
<1>1. HeldOpened'
  BY SMT, <1>e, <1>s DEF HeldOpened
<1>2. OneHolder' /\ ClosedHoldsNothing'
  BY DEF OneHolder, ClosedHoldsNothing
<1>3. SparesOthers'
  BY <1>e DEF SparesOthers, EndSession, HeldByOther
<1>4. Attaching'
  BY DEF Attaching
<1>5. Detached'
  BY <1>e, <1>s DEF Detached
<1>6. UsedOpened'
  BY <1>e, <1>s DEF UsedOpened
<1>7. NoneLeaked'
  BY SMT, <1>e, <1>s DEF NoneLeaked
<1> QED
  BY <1>0, <1>1, <1>2, <1>3, <1>4, <1>5, <1>6, <1>7

\* The peer goes away.
LEMMA BreakStep ==
    ASSUME LaneInv, NEW s \in Sessions, Break(s)
    PROVE  LaneInv'
<1> USE DEF LaneInv, Of, Break
<1>s. DOMAIN sess = Sessions
  BY DEF LaneType
<1>0. LaneType'
  BY DEF LaneType
<1>1. HeldOpened' /\ OneHolder' /\ ClosedHoldsNothing' /\ SparesOthers' /\ Attaching'
  BY SMT, <1>s DEF HeldOpened, OneHolder, ClosedHoldsNothing, SparesOthers, Attaching
<1>2. Detached'
  BY <1>s DEF Detached
<1>3. UsedOpened'
  BY <1>s DEF UsedOpened
<1>4. NoneLeaked'
  BY ZenonT(40), <1>s DEF NoneLeaked
<1> QED
  BY <1>0, <1>1, <1>2, <1>3, <1>4

\* Whoever takes a free mutex is not in the way of an attach.
LEMMA FreeLane ==
    ASSUME LaneInv, NEW l \in AllLanes, Free(l), NEW j \in Callers, caller[j].at \in {"attach", "dial"}
    PROVE  Of(j) # l
BY LaneAssumption DEF LaneInv, Attaching, Free

\* acquire drops a failed session, and ends it, before it attaches.
LEMMA AcquireStep ==
    ASSUME LaneInv, NEW k \in Callers, Acquire(k)
    PROVE  LaneInv'
<1> DEFINE l == Of(k)
           e == lane[l].session
<1>l. l \in AllLanes /\ e \in Sessions \cup {0} /\ 0 \notin Sessions
  BY SMT DEF LaneInv, LaneType, CallerType, Of, Sessions
<1>t. LaneType /\ caller[k].at = "start"
  BY DEF LaneInv, Acquire
<1>f. \A j \in Callers : caller[j].at \in {"attach", "dial"} => Of(j) # l
  BY <1>l, FreeLane DEF Acquire
<1>n. /\ \A m \in AllLanes : lane'[m].closed = lane[m].closed
      /\ \A m \in AllLanes \ {l} : lane'[m].session = lane[m].session
      /\ lane'[l].session = 0
      /\ lane' \in [AllLanes -> [session : Sessions \cup {0}, closed : BOOLEAN]]
  BY SMT, <1>l, <1>t DEF Acquire, LaneType
<1>e. \/ e = 0 /\ UNCHANGED <<sess, cut>>
      \/ /\ e # 0 /\ e \in Sessions
         /\ sess' = [sess EXCEPT ![e] = "ended"]
         /\ cut' = IF HeldByOther(e, l) THEN cut \cup {e} ELSE cut
  BY <1>l DEF Acquire, EndSession, Held
<1>o. ~HeldByOther(e, l) \/ e = 0
  BY <1>l DEF HeldByOther, LaneInv, OneHolder
<1>m. \/ Moves(k, "done", caller[k].session) /\ UNCHANGED mutex
      \/ /\ Moves(k, "attach", caller[k].session) /\ ~lane[l].closed
         /\ mutex' = [mutex EXCEPT ![l] = k]
  <2>1. "attach" \in Places /\ 1 \in Nat
    BY DEF Places
  <2> QED
    BY <1>t, <2>1, Movings DEF Acquire
<1>s. DOMAIN sess = Sessions /\ DOMAIN mutex = AllLanes
  BY <1>t DEF LaneType
<1>d. \A x \in Sessions : sess'[x] = sess[x] \/ (x = e /\ sess'[x] = "ended")
  BY <1>e, <1>s
<1> HIDE DEF l, e
<1> USE DEF LaneInv, Moves
<1>0. LaneType'
  BY <1>m, <1>n, <1>e, <1>l DEF LaneType
<1>1. HeldOpened'
  BY <1>n, <1>d, <1>l DEF HeldOpened, LaneType
<1>2. OneHolder' /\ ClosedHoldsNothing'
  BY ZenonT(40), <1>n, <1>l DEF OneHolder, ClosedHoldsNothing
<1>3. SparesOthers'
  BY <1>e, <1>o DEF SparesOthers
<1>4. Attaching'
  <2> SUFFICES ASSUME NEW j \in Callers, caller'[j].at \in {"attach", "dial"}
               PROVE  /\ mutex'[caller'[j].lane] = j /\ lane'[caller'[j].lane].session = 0
                      /\ ~lane'[caller'[j].lane].closed
    BY DEF Attaching, Of
  <2>1. CASE j = k
    <3>1. caller'[j].lane = l
      BY <2>1, <1>m DEF l, Of
    <3> QED
      BY <2>1, <3>1, <1>m, <1>n, <1>s, <1>l
  <2>2. CASE j # k
    <3>1. caller'[j] = caller[j] /\ Of(j) # l /\ Of(j) \in AllLanes
      BY <2>2, <1>f, <1>m DEF LaneType, CallerType, Of
    <3>2. mutex[Of(j)] = j /\ lane[Of(j)].session = 0 /\ ~lane[Of(j)].closed
      BY <3>1 DEF Attaching
    <3>3. mutex'[Of(j)] = mutex[Of(j)]
      BY <3>1, <1>m, <1>s
    <3> QED
      BY <3>1, <3>2, <3>3, <1>n DEF Of
  <2> QED
    BY <2>1, <2>2
<1>5. Detached'
  BY SMT, <1>m, <1>n, <1>d, <1>l DEF Detached
<1>6. UsedOpened'
  BY <1>m, <1>d DEF UsedOpened
<1>7. NoneLeaked'
  <2> SUFFICES ASSUME NEW x \in Sessions, sess'[x] \in {"open", "broken"}
               PROVE  \/ \E m \in AllLanes : lane'[m].session = x
                      \/ \E j \in Callers : caller'[j].at \in {"abort", "end"} /\ caller'[j].session = x
    BY DEF NoneLeaked
  <2>1. x # e /\ sess'[x] = sess[x]
    BY <1>d, <1>e, <1>s, <1>l
  <2>2. CASE \E m \in AllLanes : lane[m].session = x
    BY <2>1, <2>2, <1>n DEF e
  <2>3. CASE \E j \in Callers : caller[j].at \in {"abort", "end"} /\ caller[j].session = x
    BY <2>3, <1>m, <1>t
  <2> QED
    BY <2>1, <2>2, <2>3 DEF NoneLeaked
<1> QED
  BY <1>0, <1>1, <1>2, <1>3, <1>4, <1>5, <1>6, <1>7

\* A lane's session is dropped, to be ended by the caller that dropped it.
LEMMA DropStep ==
    ASSUME LaneInv, NEW k \in Callers, NEW p \in {"abort", "end", "done"}, NEW e,
           e = lane[Of(k)].session, Moves(k, p, e), Free(Of(k)),
           caller[k].at \notin {"abort", "end", "attach", "dial"},
           p = "done" => e = 0, p # "done" => e # 0,
           UNCHANGED <<sess, mutex, cut>>,
           lane' \in [AllLanes -> [session : Sessions \cup {0}, closed : BOOLEAN]],
           lane'[Of(k)].session = 0,
           \A m \in AllLanes \ {Of(k)} : lane'[m] = lane[m]
    PROVE  LaneInv'
<1> USE DEF LaneInv, Moves
<1>l. Of(k) \in AllLanes /\ e \in Sessions \cup {0} /\ 0 \notin Sessions
  BY SMT DEF LaneType, CallerType, Of, Sessions
<1>f. \A j \in Callers : caller[j].at \in {"attach", "dial"} => Of(j) # Of(k)
  BY <1>l, FreeLane
<1>0. LaneType'
  BY DEF LaneType
<1>1. HeldOpened'
  BY DEF HeldOpened
<1>2. OneHolder' /\ ClosedHoldsNothing' /\ SparesOthers'
  BY SMT, <1>l DEF OneHolder, ClosedHoldsNothing, SparesOthers
<1>3. Attaching'
  <2> SUFFICES ASSUME NEW j \in Callers, caller'[j].at \in {"attach", "dial"}
               PROVE  /\ mutex'[caller'[j].lane] = j /\ lane'[caller'[j].lane].session = 0
                      /\ ~lane'[caller'[j].lane].closed
    BY DEF Attaching, Of
  <2>1. j # k
    OBVIOUS
  <2>2. caller'[j] = caller[j] /\ Of(j) # Of(k) /\ Of(j) \in AllLanes
    BY <2>1, <1>f DEF LaneType, CallerType, Of
  <2> QED
    BY SMTT(30), <2>2 DEF Attaching, Of
<1>4. Detached'
  BY SMT, <1>l DEF Detached, HeldOpened, OneHolder
<1>5. UsedOpened'
  BY DEF UsedOpened
<1>6. NoneLeaked'
  BY SMT, <1>l DEF NoneLeaked
<1> QED
  BY <1>0, <1>1, <1>2, <1>3, <1>4, <1>5, <1>6

\* A session comes to the lane whose caller attaches: a new one, or the link's,
\* which then has none.
Gains(k, s) ==
    /\ Moves(k, "use", s) /\ caller[k].at \in {"attach", "dial"}
    /\ mutex' = [mutex EXCEPT ![Of(k)] = Nobody] /\ UNCHANGED cut
    /\ sess' \in [Sessions -> {"unused", "open", "broken", "ended"}]
    /\ sess'[s] # "unused" /\ \A x \in Sessions \ {s} : sess'[x] = sess[x]
    /\ lane' \in [AllLanes -> [session : Sessions \cup {0}, closed : BOOLEAN]]
    /\ lane'[Of(k)].session = s
    /\ \A m \in AllLanes : lane'[m].closed = lane[m].closed
    /\ \A m \in AllLanes \ {Of(k)} :
           lane'[m].session # s /\ lane'[m].session \in {0, lane[m].session}
    /\ \A x \in Sessions \ {s} : \A m \in AllLanes : lane[m].session = x => lane'[m].session = x
    /\ \A j \in Callers : caller[j].at \in {"abort", "end"} => caller[j].session # s

\* A step in which a lane gains a session keeps the invariant.
LEMMA GainStep ==
    ASSUME LaneInv, NEW k \in Callers, NEW s \in Sessions, Gains(k, s)
    PROVE  LaneInv'
<1> USE DEF LaneInv, Moves, Gains
<1>l. /\ Of(k) \in AllLanes /\ 0 \notin Sessions /\ DOMAIN mutex = AllLanes
      /\ mutex[Of(k)] = k /\ lane[Of(k)].session = 0 /\ ~lane[Of(k)].closed
  BY SMT DEF LaneType, CallerType, Of, Sessions, Attaching
<1>0. LaneType'
  BY DEF LaneType
<1>1. HeldOpened'
  BY SMT DEF HeldOpened, LaneType
<1>2. OneHolder'
  BY SMT, <1>l DEF OneHolder
<1>3. ClosedHoldsNothing' /\ SparesOthers'
  BY SMT, <1>l DEF ClosedHoldsNothing, SparesOthers
<1>4. Attaching'
  <2> SUFFICES ASSUME NEW j \in Callers, caller'[j].at \in {"attach", "dial"}
               PROVE  /\ mutex'[caller'[j].lane] = j /\ lane'[caller'[j].lane].session = 0
                      /\ ~lane'[caller'[j].lane].closed
    BY DEF Attaching, Of
  <2>1. caller'[j] = caller[j] /\ j # k
    OBVIOUS
  <2>2. Of(j) \in AllLanes /\ mutex[Of(j)] = j /\ lane[Of(j)].session = 0 /\ ~lane[Of(j)].closed
    BY <2>1 DEF Attaching, LaneType, CallerType, Of
  <2>3. Of(j) # Of(k)
    BY <2>1, <2>2, <1>l
  <2> QED
    BY SMT, <2>1, <2>2, <2>3, <1>l DEF Of
<1>5. Detached'
  BY SMT, <1>l DEF Detached
<1>6. UsedOpened'
  BY SMT DEF UsedOpened
<1>7. NoneLeaked'
  <2> SUFFICES ASSUME NEW x \in Sessions, x # s, sess'[x] \in {"open", "broken"}
               PROVE  \/ \E m \in AllLanes : lane'[m].session = x
                      \/ \E j \in Callers : caller'[j].at \in {"abort", "end"} /\ caller'[j].session = x
    BY SMT, <1>l DEF NoneLeaked
  <2>2. CASE \E m \in AllLanes : lane[m].session = x
    BY <2>2
  <2>3. CASE \E j \in Callers : caller[j].at \in {"abort", "end"} /\ caller[j].session = x
    BY <2>3
  <2> QED
    BY ZenonT(40), <2>2, <2>3 DEF NoneLeaked
<1> QED
  BY <1>0, <1>1, <1>2, <1>3, <1>4, <1>5, <1>6, <1>7

\* A business lane takes the link's session over, or goes on to dial.
LEMMA SurrenderStep ==
    ASSUME LaneInv, NEW k \in Callers, Surrender(k)
    PROVE  LaneInv'
<1>t. LaneType /\ caller[k].at = "attach" /\ UNCHANGED <<sess, cut>>
  BY DEF LaneInv, Surrender
<1>p. "dial" \in Places /\ "use" \in Places
  BY DEF Places
<1>1. CASE Goes(k, "dial") /\ UNCHANGED <<lane, mutex>>
  <2>1. Moves(k, "dial", caller[k].session)
    BY <1>1, <1>t, <1>p, Movings
  <2> QED
    BY SMT, <1>1, <1>t, <2>1, CallerStep
<1>2. CASE ~(Goes(k, "dial") /\ UNCHANGED <<lane, mutex>>)
  <2> DEFINE s == lane[Link].session
  <2>1. /\ Of(k) \in Lanes /\ s # 0 /\ ~Failed(s)
        /\ lane' = [lane EXCEPT ![Of(k)].session = s, ![Link].session = 0]
        /\ mutex' = [mutex EXCEPT ![Of(k)] = Nobody]
        /\ Uses(k, s)
    BY <1>2 DEF Surrender, Surrendered
  <2>2. Link \in AllLanes /\ Of(k) \in AllLanes /\ Of(k) # Link /\ s \in Sessions
    BY <2>1, <1>t, LaneAssumption DEF AllLanes, LaneType
  <2>3. Moves(k, "use", s)
    BY <2>1, <2>2, <1>t, <1>p, Movings DEF Uses
  <2>4. /\ lane' \in [AllLanes -> [session : Sessions \cup {0}, closed : BOOLEAN]]
        /\ lane'[Of(k)].session = s /\ lane'[Link].session = 0
        /\ \A m \in AllLanes : lane'[m].closed = lane[m].closed
        /\ \A m \in AllLanes \ {Of(k), Link} : lane'[m] = lane[m]
    BY ZenonT(40), <2>1, <2>2, <1>t DEF LaneType
  <2>5. \A m \in AllLanes \ {Link} : lane[m].session # s
    BY <2>1, <2>2 DEF LaneInv, OneHolder
  <2>6. sess[s] # "unused"
    BY <2>1, <2>2 DEF LaneInv, HeldOpened
  <2>7. lane[Of(k)].session = 0 /\ 0 \notin Sessions
    BY SMT, <1>t DEF LaneInv, Attaching, Sessions
  <2>8. \A j \in Callers : caller[j].at \in {"abort", "end"} => caller[j].session # s
    BY <2>2 DEF LaneInv, Detached
  <2>9. sess' \in [Sessions -> {"unused", "open", "broken", "ended"}]
    BY <1>t DEF LaneType
  <2>10. \A m \in AllLanes \ {Of(k)} :
             lane'[m].session # s /\ lane'[m].session \in {0, lane[m].session}
    BY <2>1, <2>2, <2>4, <2>5
  <2>11. \A x \in Sessions \ {s} : \A m \in AllLanes : lane[m].session = x => lane'[m].session = x
    BY <2>2, <2>4, <2>7
  <2> HIDE DEF s
  <2>12. Gains(k, s)
    BY <1>t, <2>1, <2>2, <2>3, <2>4, <2>6, <2>8, <2>9, <2>10, <2>11 DEF Gains
  <2> QED
    BY <2>2, <2>12, GainStep
<1> QED
  BY <1>1, <1>2

\* The attach: a new session, another try, or a refusal.
LEMMA DialStep ==
    ASSUME LaneInv, NEW k \in Callers, DialLane(k)
    PROVE  LaneInv'
<1>t. LaneType /\ caller[k].at = "dial" /\ UNCHANGED cut
  BY DEF LaneInv, DialLane
<1>p. "use" \in Places /\ "attach" \in Places
  BY DEF Places
<1>l. Of(k) \in AllLanes /\ lane[Of(k)].session = 0 /\ mutex[Of(k)] = k /\ 0 \notin Sessions
  BY SMT, <1>t DEF LaneInv, Attaching, LaneType, CallerType, Of, Sessions
<1>1. CASE AttachSocket(k)
  <2>1. PICK s \in Sessions : /\ sess[s] = "unused"
                              /\ sess' = [sess EXCEPT ![s] = "open"]
                              /\ lane' = [lane EXCEPT ![Of(k)].session = s]
                              /\ Uses(k, s)
    BY <1>1 DEF AttachSocket
  <2>2. Moves(k, "use", s)
    BY <2>1, <1>t, <1>p, Movings DEF Uses
  <2>3. mutex' = [mutex EXCEPT ![Of(k)] = Nobody]
    BY <1>1 DEF AttachSocket
  <2>4. /\ lane' \in [AllLanes -> [session : Sessions \cup {0}, closed : BOOLEAN]]
        /\ lane'[Of(k)].session = s
        /\ \A m \in AllLanes : lane'[m].closed = lane[m].closed
    BY <2>1, <1>l, <1>t DEF LaneType
  <2>b. \A m \in AllLanes \ {Of(k)} : lane'[m] = lane[m]
    BY <2>1, <1>l, <1>t DEF LaneType
  <2>5. /\ sess' \in [Sessions -> {"unused", "open", "broken", "ended"}]
        /\ sess'[s] # "unused" /\ \A x \in Sessions \ {s} : sess'[x] = sess[x]
    BY <2>1, <1>t DEF LaneType
  <2>6. \A m \in AllLanes : lane[m].session # s
    BY <2>1, <1>l DEF LaneInv, HeldOpened
  <2>7. \A j \in Callers : caller[j].at \in {"abort", "end"} => caller[j].session # s
    BY <2>1 DEF LaneInv, Detached
  <2>8. \A m \in AllLanes \ {Of(k)} :
             lane'[m].session # s /\ lane'[m].session \in {0, lane[m].session}
    BY <2>b, <2>6
  <2>9. \A x \in Sessions \ {s} : \A m \in AllLanes : lane[m].session = x => lane'[m].session = x
    BY <2>b, <1>l
  <2>10. caller[k].at \in {"attach", "dial"} /\ cut' = cut
    BY <1>t
  <2>11. Gains(k, s)
    BY <2>2, <2>3, <2>4, <2>5, <2>7, <2>8, <2>9, <2>10 DEF Gains
  <2> QED
    BY <2>11, GainStep
<1>2. CASE /\ caller' = [caller EXCEPT ![k].at = "attach", ![k].tries = caller[k].tries + 1]
           /\ UNCHANGED <<sess, lane, mutex>>
  <2>1. caller[k].tries + 1 \in Nat
    BY SMT, <1>t DEF LaneType, CallerType
  <2>2. Moves(k, "attach", caller[k].session)
    BY <1>2, <1>t, <1>p, <2>1, Movings
  <2> QED
    BY SMT, <1>2, <1>t, <2>2, CallerStep
<1>3. CASE Leaves(k, "refused") /\ mutex' = [mutex EXCEPT ![Of(k)] = Nobody] /\ UNCHANGED <<sess, lane>>
  <2>1. Moves(k, "done", caller[k].session)
    BY <1>3, <1>t, <1>p, Movings
  <2> USE <1>3, <1>t, <2>1 DEF LaneInv, Moves
  <2>2. LaneType'
    BY <1>l DEF LaneType
  <2>3. HeldOpened' /\ OneHolder' /\ SparesOthers' /\ ClosedHoldsNothing'
    BY DEF HeldOpened, OneHolder, SparesOthers, ClosedHoldsNothing
  <2>4. Attaching'
    <3> SUFFICES ASSUME NEW j \in Callers, caller'[j].at \in {"attach", "dial"}
                 PROVE  /\ mutex'[caller'[j].lane] = j /\ lane'[caller'[j].lane].session = 0
                        /\ ~lane'[caller'[j].lane].closed
      BY DEF Attaching, Of
    <3>1. caller'[j] = caller[j] /\ j # k
      OBVIOUS
    <3>2. Of(j) \in AllLanes /\ mutex[Of(j)] = j /\ lane[Of(j)].session = 0 /\ ~lane[Of(j)].closed
      BY <3>1 DEF Attaching, LaneType, CallerType, Of
    <3>3. Of(j) # Of(k)
      BY <3>1, <3>2, <1>l
    <3>4. mutex'[Of(j)] = mutex[Of(j)]
      BY <3>2, <3>3, <1>l DEF LaneType
    <3> QED
      BY <3>1, <3>2, <3>4 DEF Of
  <2>5. Detached' /\ UsedOpened'
    BY DEF Detached, UsedOpened
  <2>6. NoneLeaked'
    BY SMT DEF NoneLeaked
  <2> QED
    BY <2>2, <2>3, <2>4, <2>5, <2>6
<1> QED
  BY <1>1, <1>2, <1>3 DEF DialLane

\* The session a caller failed on is dropped if it is still the lane's.
LEMMA RetireStep ==
    ASSUME LaneInv, NEW k \in Callers, Retire(k)
    PROVE  LaneInv'
<1>t. LaneType /\ caller[k].at = "retire" /\ Free(Of(k)) /\ UNCHANGED <<sess, mutex, cut>>
  BY DEF LaneInv, Retire
<1>l. Of(k) \in AllLanes /\ caller[k].session \in Sessions /\ 0 \notin Sessions
  BY SMT, <1>t DEF LaneInv, UsedOpened, LaneType, CallerType, Of, Sessions
<1>1. CASE Held(k) = caller[k].session
  <2>1. /\ lane' = [lane EXCEPT ![Of(k)].session = 0, ![Of(k)].closed = @ \/ Of(k) \in Singles]
        /\ Goes(k, "abort")
    BY <1>1 DEF Retire
  <2>2. Moves(k, "abort", caller[k].session)
    BY <2>1, <1>t, Movings DEF Places
  <2>3. (lane[Of(k)].closed \/ Of(k) \in Singles) \in BOOLEAN
    OBVIOUS
  <2>4. /\ lane' \in [AllLanes -> [session : Sessions \cup {0}, closed : BOOLEAN]]
        /\ lane'[Of(k)].session = 0
        /\ \A m \in AllLanes \ {Of(k)} : lane'[m] = lane[m]
    BY ZenonT(40), <2>1, <2>3, <1>l, <1>t DEF LaneType
  <2> QED
    BY <1>1, <1>l, <1>t, <2>2, <2>4, DropStep DEF Held
<1>2. CASE Held(k) # caller[k].session
  <2>1. Retired(k) /\ UNCHANGED lane
    BY <1>2 DEF Retire
  <2>2. CASE Moves(k, "start", 0)
    BY <1>t, <2>1, <2>2, CallerStep
  <2>3. CASE Moves(k, "done", caller[k].session)
    <3>1. /\ caller[k].at \notin {"abort", "end"} /\ "done" \notin {"abort", "end"}
          /\ "done" \notin {"attach", "dial"} /\ "done" \notin {"use", "retire"}
      BY <1>t
    <3> QED
      BY <1>t, <2>1, <2>3, <3>1, CallerStep
  <2>4. Moves(k, "start", 0) \/ Moves(k, "done", caller[k].session)
    BY <1>t, <2>1, Movings DEF Places
  <2> QED
    BY <2>2, <2>3, <2>4
<1> QED
  BY <1>1, <1>2

\* Close takes the session away from the lane.
LEMMA CloseStep ==
    ASSUME LaneInv, NEW k \in Callers, CloseLane(k)
    PROVE  LaneInv'
<1> DEFINE e == lane[Of(k)].session
           p == IF Held(k) = 0 THEN "done" ELSE "end"
<1>t. LaneType /\ caller[k].at = "start" /\ Free(Of(k)) /\ UNCHANGED <<sess, mutex, cut>>
  BY DEF LaneInv, CloseLane
<1>l. Of(k) \in AllLanes /\ e \in Sessions \cup {0} /\ p \in Places
  BY <1>t DEF LaneType, CallerType, Of, Places
<1>1. Moves(k, p, e)
  <2>1. caller' = [caller EXCEPT ![k].at = p, ![k].session = e]
    BY DEF CloseLane, Held
  <2> QED
    BY <2>1, <1>t, <1>l, Movings
<1>2. /\ lane' \in [AllLanes -> [session : Sessions \cup {0}, closed : BOOLEAN]]
      /\ lane'[Of(k)].session = 0
      /\ \A m \in AllLanes \ {Of(k)} : lane'[m] = lane[m]
  BY <1>l, <1>t DEF CloseLane, LaneType
<1>3. p \in {"abort", "end", "done"} /\ (p = "done" => e = 0) /\ (p # "done" => e # 0)
  BY DEF Held
<1> QED
  BY <1>1, <1>2, <1>3, <1>t, DropStep

\* A deadline passes.
LEMMA LateStep ==
    ASSUME LaneInv, NEW k \in Callers, Moves(k, caller[k].at, caller[k].session),
           UNCHANGED <<sess, lane, mutex, cut>>
    PROVE  LaneInv'
<1>1. \A j \in Callers : /\ caller'[j].at = caller[j].at /\ caller'[j].lane = caller[j].lane
                         /\ caller'[j].session = caller[j].session
  BY DEF Moves
<1> USE <1>1 DEF LaneInv, Of
<1>2. LaneType'
  BY DEF LaneType, Moves
<1>3. HeldOpened' /\ OneHolder' /\ SparesOthers' /\ ClosedHoldsNothing'
  BY DEF HeldOpened, OneHolder, SparesOthers, ClosedHoldsNothing
<1>4. Attaching' /\ UsedOpened'
  BY ZenonT(40) DEF Attaching, UsedOpened
<1>5. Detached'
  BY DEF Detached
<1>6. NoneLeaked'
  <2>1. NoneLeaked
    OBVIOUS
  <2> QED
    BY ONLY <1>1, <2>1, UNCHANGED <<sess, lane>> DEF NoneLeaked
<1> QED
  BY <1>2, <1>3, <1>4, <1>5, <1>6

\* Every step keeps the invariant.
LEMMA LaneStep ==
    ASSUME LaneInv, [LaneNext]_laneVars
    PROVE  LaneInv'
<1>t. LaneType
  BY DEF LaneInv
<1>1. ASSUME NEW k \in Callers, AcquireHeld(k) PROVE LaneInv'
  <2>1. Held(k) \in Sessions /\ sess[Held(k)] # "unused" /\ caller[k].at = "start"
    BY ZenonT(40), <1>1, <1>t DEF AcquireHeld, Held, LaneInv, HeldOpened, LaneType, CallerType, Of
  <2>2. Moves(k, "use", Held(k))
    BY <1>1, <1>t, <2>1, Movings DEF AcquireHeld, Uses, Places
  <2> QED
    BY <1>1, <2>1, <2>2, CallerStep DEF AcquireHeld
<1>2. ASSUME NEW k \in Callers, Use(k) PROVE LaneInv'
  <2>0. caller[k].at = "use" /\ UNCHANGED <<sess, lane, mutex, cut>>
    BY <1>2 DEF Use
  <2>1. caller[k].session \in Sessions /\ sess[caller[k].session] # "unused"
    BY <2>0 DEF LaneInv, UsedOpened
  <2>2. Moves(k, "done", caller[k].session) \/ Moves(k, "retire", caller[k].session)
    BY <1>2, <1>t, Movings DEF Use, Places
  <2>3. CASE Moves(k, "done", caller[k].session)
    BY SMT, <2>0, <2>3, CallerStep
  <2>4. CASE Moves(k, "retire", caller[k].session)
    BY SMT, <2>0, <2>1, <2>4, CallerStep
  <2> QED
    BY <2>2, <2>3, <2>4
<1>3. ASSUME NEW k \in Callers, Abort(k) PROVE LaneInv'
  <2>1. Moves(k, "start", 0) \/ Moves(k, "done", caller[k].session)
    BY <1>3, <1>t, Movings DEF Abort, Places
  <2>2. CASE Moves(k, "start", 0)
    BY <1>3, <2>2, EndStep DEF Abort
  <2>3. CASE Moves(k, "done", caller[k].session)
    BY <1>3, <2>3, EndStep DEF Abort
  <2> QED
    BY <2>1, <2>2, <2>3
<1>4. ASSUME NEW k \in Callers, CloseSession(k) PROVE LaneInv'
  <2>1. Moves(k, "done", caller[k].session)
    BY <1>4, <1>t, Movings DEF CloseSession, Places
  <2> QED
    BY <1>4, <2>1, EndStep DEF CloseSession
<1>5. ASSUME NEW k \in Callers, Expire(k) PROVE LaneInv'
  <2>1. Moves(k, caller[k].at, caller[k].session) /\ UNCHANGED <<sess, lane, mutex, cut>>
    BY <1>5, <1>t, Movings DEF Expire, Places
  <2> QED
    BY <2>1, LateStep
<1>6. CASE UNCHANGED laneVars
  BY ZenonT(40), <1>6 DEF laneVars, LaneInv, LaneType, HeldOpened, Attaching, Detached, UsedOpened, OneHolder,
              SparesOthers, ClosedHoldsNothing, NoneLeaked, Of
<1> QED
  BY <1>1, <1>2, <1>3, <1>4, <1>5, <1>6, AcquireStep, SurrenderStep, DialStep, RetireStep, CloseStep,
     BreakStep DEF LaneNext, Step

\* The lanes of business.go, for any number of them, of callers and of sessions:
\* a session is one lane's, and a lane that took the link's session over leaves
\* the link without it.
THEOREM SessionHasOneLane == LaneSpec => []OneHolder
<1>1. LaneInv => OneHolder
  BY DEF LaneInv
<1> QED
  BY <1>1, LaneInitInv, LaneStep, PTL DEF LaneSpec

\* client.go: a business lane that took the session over keeps it until its own
\* Close; no caller that came by another lane ends it.
THEOREM OnlyItsLaneEnds == LaneSpec => []SparesOthers
<1>1. LaneInv => SparesOthers
  BY DEF LaneInv
<1> QED
  BY <1>1, LaneInitInv, LaneStep, PTL DEF LaneSpec

\* A closed lane holds no session and acquires none, whatever was in flight when
\* Close ran.
THEOREM ClosedStaysEmpty == LaneSpec => []ClosedHoldsNothing
<1>1. LaneInv => ClosedHoldsNothing
  BY DEF LaneInv
<1> QED
  BY <1>1, LaneInitInv, LaneStep, PTL DEF LaneSpec

\* A session that is open or broken is some lane's, or a caller is about to end
\* it.
THEOREM NoSessionLeaked == LaneSpec => []NoneLeaked
<1>1. LaneInv => NoneLeaked
  BY DEF LaneInv
<1> QED
  BY <1>1, LaneInitInv, LaneStep, PTL DEF LaneSpec

\* Every session has one lane to answer for it, which alone ends it.
THEOREM LanesOwnSessions == LaneSpec => []SessionsOwned
BY SessionHasOneLane, OnlyItsLaneEnds, ClosedStaysEmpty, NoSessionLeaked, PTL DEF SessionsOwned

-----------------------------------------------------------------------------
(***************************************************************************)
(* Proofs about the supervisor of one label (Supervisor.tla), for any      *)
(* services and policies, any clients and processes, and any number of     *)
(* kills and failures: one instance, always recorded (OneRecorded), and    *)
(* what the verbs answered for (VerbsHold).                                *)
(***************************************************************************)
-----------------------------------------------------------------------------
(***************************************************************************)
(* The inductive invariant.                                                *)
(***************************************************************************)

\* Where the loop holds no child of its own and the store still names what an
\* earlier supervisor, or an unproven reap, left behind.
Leftover == {"down", "load", "reclaim", "exit"}
Steps ==
    Leftover \cup {"bind", "spawn", "record", "release", "serve", "apply", "persist", "forget", "reply", "stop"}

\* Where the loop is with its child, its restart timer and its next step.
LoopInv ==
    /\ pc \in Steps
    /\ child = None \/ child \in Pids
    /\ exit \in {"none", "proven", "failed", "unproven"}
    /\ pc \in Leftover \cup {"bind", "spawn", "forget"} => child = None
    /\ pc \in {"record", "release", "stop"} => child # None
    /\ pc = "stop" => after \in {"forget", "persist", "exit"}
    /\ pc \in {"spawn", "record", "release"} => after \in {"policy", "apply"}
    /\ pc \in {"down", "load", "reclaim", "bind", "spawn", "record", "release"} => ~restart
    /\ restart => child = None
    /\ child = None \/ pc \in {"record", "release"} => exit = "none"

\* The store names what lives, and one process at most is not lost: none when the
\* loop serves without a child or after a proven reap, its own child otherwise.
RecordInv ==
    /\ DOMAIN proc = Pids
    /\ record \subseteq Pids
    /\ \A p \in Pids : proc[p] \in Alive => p \in record
    /\ \A p, q \in Pids : proc[p] \in Known /\ proc[q] \in Known => p = q
    /\ child = None /\ pc \notin Leftover => \A p \in Pids : proc[p] \notin Known
    /\ child # None => \A p \in Pids : proc[p] \in Known => p = child
    /\ child # None /\ exit \in {"proven", "failed"} => \A p \in Pids : proc[p] \notin Known
    /\ \A p \in Pids : proc[p] = "forked" => pc = "record"
    /\ pc = "record" => proc[child] = "forked"
    /\ pc = "release" => child \in record /\ proc[child] = "gated"

\* A client has one of the three verbs in hand, and so has each request.
ClientInv ==
    /\ DOMAIN client = Clients
    /\ \A c \in Clients : DOMAIN client[c] = {"step", "op", "service"} /\ client[c].op \in Ops
    /\ \A r \in pending : r.op \in Ops

\* The lock is the supervisor's while it is up, and a client's that deletes
\* service.json.
LockInv ==
    /\ pc # "down" => lock = "supervisor"
    /\ \A c \in Clients : client[c].step = "forget" => lock = c

\* What an Apply has established by the time it reaches each of its steps.
VerbInv ==
    /\ pc = "apply" /\ owed /\ child # None => proc[child] # "running"
    /\ pc = "persist" /\ child # None => running = verb.service /\ ~owed
    /\ pc \in {"spawn", "record", "release"} /\ after = "apply" => desired = verb.service
    /\ pc = "reply" /\ verb.op = "apply" => child # None /\ running = verb.service /\ (owed => fresh)

SupervisorInv == LoopInv /\ RecordInv /\ ClientInv /\ LockInv /\ VerbInv

-----------------------------------------------------------------------------
(***************************************************************************)
(* What taking up a verb and answering it come to.                         *)
(***************************************************************************)

\* A client that is idle.
LEMMA IdleShape ==
    DOMAIN Idle = {"step", "op", "service"} /\ Idle.step = "idle" /\ Idle.op = "print"
  BY SMT DEF Idle

\* A step of the supervisor moves no client to a new verb, nor to the file.
Tame ==
    /\ DOMAIN client' = Clients
    /\ \A c \in Clients :
          /\ DOMAIN client'[c] = {"step", "op", "service"} /\ client'[c].op \in Ops
          /\ client'[c].step = "forget" => client[c].step = "forget"

\* An answer leaves every client where it was, or idle.
LEMMA AnswerTame ==
  ASSUME ClientInv, NEW how, Answer(how)
  PROVE  Tame
<1>1. DOMAIN client' = Clients
    BY SMT DEF Answer, ClientInv
<1>2. ASSUME NEW c \in Clients
      PROVE client'[c] = client[c] \/ client'[c] = Idle
    BY SMT DEF Answer, ClientInv
<1>3. QED
    BY <1>1, <1>2, IdleShape, SMT DEF Tame, ClientInv, Ops

\* A step that is none of the clients' leaves them all.
LEMMA Unmoved ==
  ASSUME ClientInv, client' = client
  PROVE  Tame
  BY DEF ClientInv, Tame

\* The requests a supervisor accepted are dropped with it.
LEMMA HangupTame ==
  ASSUME ClientInv, Hangup
  PROVE  Tame
<1>1. DOMAIN client' = Clients
    BY DEF Hangup
<1>2. ASSUME NEW c \in Clients
      PROVE client'[c] = client[c] \/ client'[c] = Idle
    BY SMT DEF Hangup
<1>3. QED
    BY <1>1, <1>2, IdleShape, SMT DEF Tame, ClientInv, Ops

Taken(r) ==
    /\ verb' = r
    /\ pending' = pending \ {r}
    /\ owed' = (r.op = "apply" /\ child # None /\ proc[child] # "running")
    /\ CASE r.op = "apply" -> Goto("apply") /\ UNCHANGED after
         [] r.op = "remove" -> Stop("forget")
         [] r.op = "print" -> Goto("reply") /\ UNCHANGED after

\* serve dispatches a verb by its name.
LEMMA TakenEffect ==
  ASSUME NEW r, Taken(r)
  PROVE  /\ verb' = r /\ pending' = pending \ {r}
         /\ r.op = "apply" => /\ pc' = "apply" /\ after' = after
                              /\ owed' => child # None /\ proc[child] # "running"
         /\ r.op = "remove" => Stop("forget")
         /\ r.op = "print" => pc' = "reply" /\ after' = after
<1>1. CASE r.op = "apply"
  <2>1. Goto("apply") /\ UNCHANGED after
      BY <1>1, SMT DEF Taken
  <2>2. QED
      BY <1>1, <2>1 DEF Taken, Goto
<1>2. CASE r.op = "remove"
    BY <1>2, SMT DEF Taken, Goto
<1>3. CASE r.op = "print"
    BY <1>3, SMT DEF Taken, Goto
<1>4. QED
    BY <1>1, <1>2, <1>3 DEF Taken

\* What the supervisor, its child and its driver do.
Ours == Loop \/ Cancel \/ Kill \/ LeaderExits \/ Driver \/ OrphanEnds

\* Clients are left where they are or sent back to idle, and no request is added.
LEMMA OursTame == ClientInv /\ Ours => Tame /\ pending' \subseteq pending
<1> SUFFICES ASSUME ClientInv, Ours PROVE Tame /\ pending' \subseteq pending
    OBVIOUS
<1>1. CASE Run
    BY <1>1, Unmoved DEF Run
<1>2. CASE Load
    BY <1>2, Unmoved DEF Load
<1>3. CASE Reclaim
    BY <1>3, HangupTame, Unmoved DEF Reclaim, Gone
<1>4. CASE Bind
    BY <1>4, Unmoved DEF Bind
<1>5. CASE Spawn
    BY <1>5, AnswerTame, Unmoved DEF Spawn, StartFails
<1>0. CASE Record
    BY <1>0, AnswerTame, Unmoved DEF Record, AbortSpawn, StartFails
<1>6. CASE Release
    BY <1>6, AnswerTame, Unmoved DEF Release, AbortSpawn, StartFails
<1>7. CASE Take
    BY <1>7, Unmoved DEF Take
<1>8. CASE Apply
    BY <1>8, AnswerTame, Unmoved DEF Apply
<1>9. CASE Persist
    BY <1>9, AnswerTame, Unmoved DEF Persist
<1>10. CASE Forget
    BY <1>10, AnswerTame DEF Forget
<1>11. CASE Reply
    BY <1>11, AnswerTame DEF Reply
<1>12. CASE Terminate
    BY <1>12, Unmoved DEF Terminate
<1>13. CASE Stopped
    BY <1>13, AnswerTame, Unmoved DEF Stopped
<1>14. CASE Settled
    BY <1>14, Unmoved DEF Settled
<1>15. CASE Restart
    BY <1>15, Unmoved DEF Restart
<1>16. CASE Exit
    BY <1>16, HangupTame DEF Exit, Gone
<1>17. CASE Cancel
    BY <1>17, Unmoved DEF Cancel
<1>18. CASE Kill
    BY <1>18, HangupTame DEF Kill, Gone
<1>19. CASE LeaderExits
    BY <1>19, Unmoved DEF LeaderExits
<1>20. CASE Driver
    BY <1>20, Unmoved DEF Driver
<1>21. CASE OrphanEnds
    BY <1>21, Unmoved DEF OrphanEnds
<1>22. QED
    BY <1>0, <1>1, <1>2, <1>3, <1>4, <1>5, <1>6, <1>7, <1>8, <1>9, <1>10, <1>11, <1>12, <1>13,
       <1>14, <1>15, <1>16, <1>17, <1>18, <1>19, <1>20, <1>21
       DEF Ours, Loop

-----------------------------------------------------------------------------
(***************************************************************************)
(* Each part of the invariant is preserved by every action.                *)
(***************************************************************************)

\* Clients come by their verbs from Call, and requests from their clients.
LEMMA ClientKept == ClientInv /\ SupervisorNext => ClientInv'
<1> SUFFICES ASSUME ClientInv, SupervisorNext PROVE ClientInv'
    OBVIOUS
<1>1. CASE Ours
    BY <1>1, OursTame DEF Tame, ClientInv
<1>2. ASSUME NEW c \in Clients, Caller(c) PROVE ClientInv'
  <2>1. CASE Call(c)
      BY <2>1, IdleShape, SMT DEF Call, At, ClientInv, Ops
  <2>2. CASE Dial(c)
      BY <2>2, IdleShape, SMT DEF Dial, At, Move, ClientInv, Ops
  <2>3. CASE GiveUp(c)
      BY <2>3, IdleShape, SMT DEF GiveUp, At, ClientInv, Ops
  <2>4. CASE Inspect(c)
      BY <2>4, IdleShape, SMT DEF Inspect, At, Move, ClientInv, Ops
  <2>5. CASE TryLock(c)
      BY <2>5, IdleShape, SMT DEF TryLock, At, Move, ClientInv, Ops
  <2>6. CASE ForgetUnsupervised(c)
      BY <2>6, IdleShape, SMT DEF ForgetUnsupervised, At, ClientInv, Ops
  <2>7. QED
      BY <1>2, <2>1, <2>2, <2>3, <2>4, <2>5, <2>6 DEF Caller
<1>3. QED
    BY <1>1, <1>2 DEF SupervisorNext, Ours

\* Run, serve and the handlers keep the child, the timer and the next step together.
LEMMA LoopKept == ClientInv /\ LoopInv /\ RecordInv /\ SupervisorNext => LoopInv'
<1> SUFFICES ASSUME ClientInv, LoopInv, RecordInv, SupervisorNext PROVE LoopInv'
    OBVIOUS
<1>1. CASE Run
    BY SupervisorAssumption, <1>1, SMT DEF Run, Goto, state, LoopInv, Leftover, Steps
<1>2. CASE Load
    BY SupervisorAssumption, <1>2, SMT DEF Load, Goto, world, LoopInv, Leftover, Steps
<1>3. CASE Reclaim
    BY SupervisorAssumption, <1>3, SMT
       DEF Reclaim, Gone, Hangup, Goto, state, LoopInv, Leftover, Steps
<1>4. CASE Bind
    BY SupervisorAssumption, <1>4, SMT
       DEF Bind, Goto, world, state, LoopInv, Leftover, Steps
<1>5. CASE Spawn
    BY SupervisorAssumption, <1>5, SMT
       DEF Spawn, StartFails, Answer, Retry, Goto, LoopInv, Leftover, Steps
<1>0. CASE Record
    BY SupervisorAssumption, <1>0, SMT
       DEF Record, AbortSpawn, StartFails, Answer, Retry, Goto, state, LoopInv, Leftover, Steps
<1>6. CASE Release
    BY SupervisorAssumption, <1>6, SMT DEF Release, AbortSpawn, StartFails, Answer, Retry, Goto, LoopInv, Leftover, Steps
<1>7. CASE Take
  <2>1. PICK r \in pending : Taken(r)
      BY <1>7 DEF Take, Taken
  <2>2. r.op \in Ops
      BY <2>1 DEF ClientInv
  <2>3. CASE r.op = "apply"
      BY <1>7, <2>1, <2>3, TakenEffect, SMT DEF Take, world, state, LoopInv, Leftover, Steps
  <2>4. CASE r.op = "remove"
      BY <1>7, <2>1, <2>4, TakenEffect, SMT
         DEF Take, Stop, Goto, world, state, LoopInv, Leftover, Steps
  <2>5. CASE r.op = "print"
      BY <1>7, <2>1, <2>5, TakenEffect, SMT DEF Take, world, state, LoopInv, Leftover, Steps
  <2>6. QED
      BY <2>2, <2>3, <2>4, <2>5 DEF Ops
<1>8. CASE Apply
    BY SupervisorAssumption, <1>8, SMT
       DEF Apply, LiveChild, Stop, Answer, Goto, world, state, LoopInv, Leftover, Steps
<1>9. CASE Persist
    BY SupervisorAssumption, <1>9, SMT DEF Persist, Answer, Goto, LoopInv, Leftover, Steps
<1>10. CASE Forget
    BY SupervisorAssumption, <1>10, SMT DEF Forget, Answer, Goto, LoopInv, Leftover, Steps
<1>11. CASE Reply
    BY SupervisorAssumption, <1>11, SMT
       DEF Reply, Answer, Goto, world, state, LoopInv, Leftover, Steps
<1>12. CASE Terminate
    BY SupervisorAssumption, <1>12, SMT DEF Terminate, state, LoopInv, Leftover, Steps
<1>13. CASE Stopped
    BY SupervisorAssumption, <1>13, SMT
       DEF Stopped, Answer, Goto, world, LoopInv, Leftover, Steps
<1>14. CASE Settled
    BY SupervisorAssumption, <1>14, SMT
       DEF Settled, Retry, Goto, world, LoopInv, Leftover, Steps
<1>15. CASE Restart
    BY SupervisorAssumption, <1>15, SMT DEF Restart, Goto, world, LoopInv, Leftover, Steps
<1>16. CASE Exit
    BY SupervisorAssumption, <1>16, SMT
       DEF Exit, Gone, Hangup, Goto, LoopInv, Leftover, Steps
<1>17. CASE Cancel
    BY SupervisorAssumption, <1>17, SMT
       DEF Cancel, Stop, Goto, world, state, LoopInv, Leftover, Steps
<1>18. CASE Kill
    BY SupervisorAssumption, <1>18, SMT
       DEF Kill, Gone, Hangup, Goto, LoopInv, Leftover, Steps
<1>19. CASE LeaderExits
    BY SupervisorAssumption, <1>19, SMT DEF LeaderExits, state, LoopInv, Leftover, Steps
<1>20. CASE Driver
    BY SupervisorAssumption, <1>20, SMT DEF Driver, LoopInv, RecordInv, Leftover, Steps
<1>21. CASE OrphanEnds
    BY SupervisorAssumption, <1>21, SMT DEF OrphanEnds, state, LoopInv, Leftover, Steps
<1>22. ASSUME NEW c \in Clients, Caller(c) PROVE LoopInv'
  <2>1. CASE Call(c)
      BY SupervisorAssumption, <2>1, SMT
         DEF Call, At, world, state, supervising, LoopInv, Leftover, Steps
  <2>2. CASE Dial(c)
      BY SupervisorAssumption, <2>2, SMT
         DEF Dial, At, Move, Bound, world, state, supervising, LoopInv, Leftover, Steps
  <2>3. CASE GiveUp(c)
      BY SupervisorAssumption, <2>3, SMT
         DEF GiveUp, At, world, state, supervising, LoopInv, Leftover, Steps
  <2>4. CASE Inspect(c)
      BY SupervisorAssumption, <2>4, SMT
         DEF Inspect, At, Move, world, state, supervising, LoopInv, Leftover, Steps
  <2>5. CASE TryLock(c)
      BY SupervisorAssumption, <2>5, SMT
         DEF TryLock, At, Move, state, supervising, LoopInv, Leftover, Steps
  <2>6. CASE ForgetUnsupervised(c)
      BY SupervisorAssumption, <2>6, SMT
         DEF ForgetUnsupervised, At, state, supervising, LoopInv, Leftover, Steps
  <2>7. QED
      BY <1>22, <2>1, <2>2, <2>3, <2>4, <2>5, <2>6 DEF Caller
<1>23. QED
    BY <1>0, <1>1, <1>2, <1>3, <1>4, <1>5, <1>6, <1>7, <1>8, <1>9, <1>10, <1>11, <1>12, <1>13,
       <1>14, <1>15, <1>16, <1>17, <1>18, <1>19, <1>20, <1>21, <1>22
       DEF SupervisorNext, Loop

\* Only a start adds to the store and only a proven reap takes from it.
LEMMA RecordKept == ClientInv /\ LoopInv /\ RecordInv /\ SupervisorNext => RecordInv'
<1> SUFFICES ASSUME ClientInv, LoopInv, RecordInv, SupervisorNext PROVE RecordInv'
    OBVIOUS
<1>1. CASE Run
    BY SupervisorAssumption, <1>1, SMT
       DEF Run, Goto, state, LoopInv, RecordInv, Leftover, Steps, Alive, Known
<1>2. CASE Load
    BY SupervisorAssumption, <1>2, SMT
       DEF Load, Goto, world, LoopInv, RecordInv, Leftover, Steps, Alive, Known
<1>3. CASE Reclaim
    BY SupervisorAssumption, <1>3, SMT
       DEF Reclaim, Gone, Hangup, Goto, state, LoopInv, RecordInv, Leftover, Steps, Alive, Known
<1>4. CASE Bind
    BY SupervisorAssumption, <1>4, SMT
       DEF Bind, Goto, world, state, LoopInv, RecordInv, Leftover, Steps, Alive, Known
<1>5. CASE Spawn
    BY SupervisorAssumption, <1>5, SMT
       DEF Spawn, StartFails, Answer, Retry, Goto, LoopInv, RecordInv, Leftover, Steps, Alive, Known
<1>0. CASE Record
    BY SupervisorAssumption, <1>0, SMT
       DEF Record, AbortSpawn, StartFails, Answer, Retry, Goto, state, LoopInv, RecordInv, Leftover, Steps,
           Alive, Known
<1>6. CASE Release
    BY SupervisorAssumption, <1>6, SMT
       DEF Release, AbortSpawn, StartFails, Answer, Retry, Goto, LoopInv, RecordInv, Leftover, Steps, Alive, Known
<1>7. CASE Take
  <2>1. PICK r \in pending : Taken(r)
      BY <1>7 DEF Take, Taken
  <2>2. r.op \in Ops
      BY <2>1 DEF ClientInv
  <2>3. CASE r.op = "apply"
      BY <1>7, <2>1, <2>3, TakenEffect, SMT
         DEF Take, world, state, LoopInv, RecordInv, Leftover, Steps, Alive, Known
  <2>4. CASE r.op = "remove"
      BY <1>7, <2>1, <2>4, TakenEffect, SMT
         DEF Take, Stop, Goto, world, state, LoopInv, RecordInv, Leftover, Steps, Alive, Known
  <2>5. CASE r.op = "print"
      BY <1>7, <2>1, <2>5, TakenEffect, SMT
         DEF Take, world, state, LoopInv, RecordInv, Leftover, Steps, Alive, Known
  <2>6. QED
      BY <2>2, <2>3, <2>4, <2>5 DEF Ops
<1>8. CASE Apply
    BY SupervisorAssumption, <1>8, SMT
       DEF Apply, LiveChild, Stop, Answer, Goto, world, state, LoopInv, RecordInv, Leftover,
           Steps, Alive, Known
<1>9. CASE Persist
    BY SupervisorAssumption, <1>9, SMT
       DEF Persist, Answer, Goto, LoopInv, RecordInv, Leftover, Steps, Alive, Known
<1>10. CASE Forget
    BY SupervisorAssumption, <1>10, SMT
       DEF Forget, Answer, Goto, LoopInv, RecordInv, Leftover, Steps, Alive, Known
<1>11. CASE Reply
    BY SupervisorAssumption, <1>11, SMT
       DEF Reply, Answer, Goto, world, state, LoopInv, RecordInv, Leftover, Steps, Alive, Known
<1>12. CASE Terminate
    BY SupervisorAssumption, <1>12, SMT
       DEF Terminate, state, LoopInv, RecordInv, Leftover, Steps, Alive, Known
<1>13. CASE Stopped
    BY SupervisorAssumption, <1>13, SMT
       DEF Stopped, Answer, Goto, world, LoopInv, RecordInv, Leftover, Steps, Alive, Known
<1>14. CASE Settled
    BY SupervisorAssumption, <1>14, SMT
       DEF Settled, Retry, Goto, world, LoopInv, RecordInv, Leftover, Steps, Alive, Known
<1>15. CASE Restart
    BY SupervisorAssumption, <1>15, SMT
       DEF Restart, Goto, world, LoopInv, RecordInv, Leftover, Steps, Alive, Known
<1>16. CASE Exit
    BY SupervisorAssumption, <1>16, SMT
       DEF Exit, Gone, Hangup, Goto, LoopInv, RecordInv, Leftover, Steps, Alive, Known
<1>17. CASE Cancel
    BY SupervisorAssumption, <1>17, SMT
       DEF Cancel, Stop, Goto, world, state, LoopInv, RecordInv, Leftover, Steps, Alive, Known
<1>18. CASE Kill
    BY SupervisorAssumption, <1>18, SMT
       DEF Kill, Gone, Hangup, Goto, LoopInv, RecordInv, Leftover, Steps, Alive, Known
<1>19. CASE LeaderExits
    BY SupervisorAssumption, <1>19, SMT
       DEF LeaderExits, state, LoopInv, RecordInv, Leftover, Steps, Alive, Known
<1>20. CASE Driver
    BY SupervisorAssumption, <1>20, SMT
       DEF Driver, LoopInv, RecordInv, Leftover, Steps, Alive, Known
<1>21. CASE OrphanEnds
    BY SupervisorAssumption, <1>21, SMT
       DEF OrphanEnds, state, LoopInv, RecordInv, Leftover, Steps, Alive, Known
<1>22. ASSUME NEW c \in Clients, Caller(c) PROVE RecordInv'
  <2>1. CASE Call(c)
      BY SupervisorAssumption, <2>1, SMT
         DEF Call, At, world, state, supervising, LoopInv, RecordInv, Leftover, Steps, Alive, Known
  <2>2. CASE Dial(c)
      BY SupervisorAssumption, <2>2, SMT
         DEF Dial, At, Move, Bound, world, state, supervising, LoopInv, RecordInv, Leftover,
             Steps, Alive, Known
  <2>3. CASE GiveUp(c)
      BY SupervisorAssumption, <2>3, SMT
         DEF GiveUp, At, world, state, supervising, LoopInv, RecordInv, Leftover, Steps,
             Alive, Known
  <2>4. CASE Inspect(c)
      BY SupervisorAssumption, <2>4, SMT
         DEF Inspect, At, Move, world, state, supervising, LoopInv, RecordInv, Leftover,
             Steps, Alive, Known
  <2>5. CASE TryLock(c)
      BY SupervisorAssumption, <2>5, SMT
         DEF TryLock, At, Move, state, supervising, LoopInv, RecordInv, Leftover, Steps,
             Alive, Known
  <2>6. CASE ForgetUnsupervised(c)
      BY SupervisorAssumption, <2>6, SMT
         DEF ForgetUnsupervised, At, state, supervising, LoopInv, RecordInv, Leftover,
             Steps, Alive, Known
  <2>7. QED
      BY <1>22, <2>1, <2>2, <2>3, <2>4, <2>5, <2>6 DEF Caller
<1>23. QED
    BY <1>0, <1>1, <1>2, <1>3, <1>4, <1>5, <1>6, <1>7, <1>8, <1>9, <1>10, <1>11, <1>12, <1>13,
       <1>14, <1>15, <1>16, <1>17, <1>18, <1>19, <1>20, <1>21, <1>22
       DEF SupervisorNext, Loop

\* The lock: left by a supervisor that is up, taken when free, freed as it ends.
LockMoves ==
    \/ lock' = lock /\ (pc # "down" \/ pc' = pc)
    \/ lock = None /\ lock' = "supervisor"
    \/ lock' = None /\ pc # "down" /\ pc' = "down"

\* Run takes the label's lock when it is free, and only its end frees it.
LEMMA OursLock == Ours => LockMoves
<1> SUFFICES ASSUME Ours PROVE LockMoves
    OBVIOUS
<1>1. CASE Run
    BY <1>1 DEF LockMoves, Run
<1>2. CASE Load
    BY <1>2 DEF LockMoves, Load, world
<1>3. CASE Reclaim
    BY <1>3 DEF LockMoves, Reclaim, Gone, Goto
<1>4. CASE Bind
    BY <1>4 DEF LockMoves, Bind, world
<1>5. CASE Spawn
    BY <1>5 DEF LockMoves, Spawn
<1>0. CASE Record
    BY <1>0 DEF LockMoves, Record
<1>6. CASE Release
    BY <1>6 DEF LockMoves, Release
<1>7. CASE Take
    BY <1>7 DEF LockMoves, Take, world
<1>8. CASE Apply
    BY <1>8 DEF LockMoves, Apply, world
<1>9. CASE Persist
    BY <1>9 DEF LockMoves, Persist
<1>10. CASE Forget
    BY <1>10 DEF LockMoves, Forget
<1>11. CASE Reply
    BY <1>11 DEF LockMoves, Reply, world
<1>12. CASE Terminate
    BY <1>12 DEF LockMoves, Terminate
<1>13. CASE Stopped
    BY <1>13 DEF LockMoves, Stopped, world
<1>14. CASE Settled
    BY <1>14 DEF LockMoves, Settled, world
<1>15. CASE Restart
    BY <1>15 DEF LockMoves, Restart, world
<1>16. CASE Exit
    BY <1>16 DEF LockMoves, Exit, Gone, Goto
<1>17. CASE Cancel
    BY <1>17 DEF LockMoves, Cancel, world
<1>18. CASE Kill
    BY <1>18 DEF LockMoves, Kill, Gone, Goto
<1>19. CASE LeaderExits
    BY <1>19 DEF LockMoves, LeaderExits
<1>20. CASE Driver
    BY <1>20 DEF LockMoves, Driver
<1>21. CASE OrphanEnds
    BY <1>21 DEF LockMoves, OrphanEnds
<1>22. QED
    BY <1>0, <1>1, <1>2, <1>3, <1>4, <1>5, <1>6, <1>7, <1>8, <1>9, <1>10, <1>11, <1>12, <1>13,
       <1>14, <1>15, <1>16, <1>17, <1>18, <1>19, <1>20, <1>21
       DEF Ours, Loop

\* The lock changes hands only through its free state.
LEMMA LockKept == ClientInv /\ LockInv /\ SupervisorNext => LockInv'
<1> SUFFICES ASSUME ClientInv, LockInv, SupervisorNext PROVE LockInv'
    OBVIOUS
<1>1. CASE Ours
  <2>1. Tame /\ LockMoves
      BY <1>1, OursTame, OursLock
  <2>2. QED
      BY <2>1, SupervisorAssumption, SMT DEF Tame, LockMoves, LockInv
<1>2. ASSUME NEW c \in Clients, Caller(c) PROVE LockInv'
  <2>1. CASE Call(c)
      BY <2>1, SupervisorAssumption, IdleShape, SMT
         DEF Call, At, supervising, world, ClientInv, LockInv
  <2>2. CASE Dial(c)
      BY <2>2, SupervisorAssumption, IdleShape, SMT
         DEF Dial, At, Move, supervising, world, ClientInv, LockInv
  <2>3. CASE GiveUp(c)
      BY <2>3, SupervisorAssumption, IdleShape, SMT
         DEF GiveUp, At, supervising, world, ClientInv, LockInv
  <2>4. CASE Inspect(c)
      BY <2>4, SupervisorAssumption, IdleShape, SMT
         DEF Inspect, At, Move, supervising, world, ClientInv, LockInv
  <2>5. CASE TryLock(c)
      BY <2>5, SupervisorAssumption, IdleShape, SMT
         DEF TryLock, At, Move, supervising, ClientInv, LockInv
  <2>6. CASE ForgetUnsupervised(c)
      BY <2>6, SupervisorAssumption, IdleShape, SMT
         DEF ForgetUnsupervised, At, supervising, ClientInv, LockInv
  <2>7. QED
      BY <1>2, <2>1, <2>2, <2>3, <2>4, <2>5, <2>6 DEF Caller
<1>3. QED
    BY <1>1, <1>2 DEF SupervisorNext, Ours

\* The steps of an Apply establish, one after the other, what its answer says.
LEMMA VerbKept == ClientInv /\ LoopInv /\ RecordInv /\ VerbInv /\ SupervisorNext => VerbInv'
<1> SUFFICES ASSUME ClientInv, LoopInv, RecordInv, VerbInv, SupervisorNext PROVE VerbInv'
    OBVIOUS
<1>1. CASE Run
    BY SupervisorAssumption, <1>1, SMT
       DEF Run, Goto, state, ghosts, LoopInv, RecordInv, VerbInv, Leftover, Steps, Alive, Known
<1>2. CASE Load
    BY SupervisorAssumption, <1>2, SMT
       DEF Load, Goto, world, ghosts, LoopInv, RecordInv, VerbInv, Leftover, Steps, Alive, Known
<1>3. CASE Reclaim
    BY SupervisorAssumption, <1>3, SMT
       DEF Reclaim, Gone, Hangup, Goto, state, ghosts, LoopInv, RecordInv, VerbInv,
           Leftover, Steps, Alive, Known
<1>4. CASE Bind
    BY SupervisorAssumption, <1>4, SMT
       DEF Bind, Goto, world, state, ghosts, LoopInv, RecordInv, VerbInv, Leftover, Steps,
           Alive, Known
<1>5. CASE Spawn
    BY SupervisorAssumption, <1>5, SMT
       DEF Spawn, StartFails, Answer, Retry, Goto, ghosts, LoopInv, RecordInv, VerbInv, Leftover, Steps,
           Alive, Known
<1>0. CASE Record
    BY SupervisorAssumption, <1>0, SMT
       DEF Record, AbortSpawn, StartFails, Answer, Retry, Goto, state, ghosts, LoopInv, RecordInv, VerbInv,
           Leftover, Steps, Alive, Known
<1>6. CASE Release
    BY SupervisorAssumption, <1>6, SMT
       DEF Release, AbortSpawn, StartFails, Answer, Retry, Goto, ghosts, LoopInv, RecordInv, VerbInv, Leftover, Steps, Alive, Known
<1>7. CASE Take
  <2>1. PICK r \in pending : Taken(r)
      BY <1>7 DEF Take, Taken
  <2>2. r.op \in Ops
      BY <2>1 DEF ClientInv
  <2>3. CASE r.op = "apply"
      BY <1>7, <2>1, <2>3, TakenEffect, SMT
         DEF Take, world, state, LoopInv, RecordInv, VerbInv, Leftover, Steps, Alive, Known
  <2>4. CASE r.op = "remove"
      BY <1>7, <2>1, <2>4, TakenEffect, SMT
         DEF Take, Stop, Goto, world, state, LoopInv, RecordInv, VerbInv, Leftover, Steps,
             Alive, Known
  <2>5. CASE r.op = "print"
      BY <1>7, <2>1, <2>5, TakenEffect, SMT
         DEF Take, world, state, LoopInv, RecordInv, VerbInv, Leftover, Steps, Alive, Known
  <2>6. QED
      BY <2>2, <2>3, <2>4, <2>5 DEF Ops
<1>8. CASE Apply
    BY SupervisorAssumption, <1>8, SMT
       DEF Apply, LiveChild, Stop, Answer, Goto, world, state, ghosts, LoopInv, RecordInv,
           VerbInv, Leftover, Steps, Alive, Known
<1>9. CASE Persist
    BY SupervisorAssumption, <1>9, SMT
       DEF Persist, Answer, Goto, ghosts, LoopInv, RecordInv, VerbInv, Leftover, Steps,
           Alive, Known
<1>10. CASE Forget
    BY SupervisorAssumption, <1>10, SMT
       DEF Forget, Answer, Goto, LoopInv, RecordInv, VerbInv, Leftover, Steps, Alive, Known
<1>11. CASE Reply
    BY SupervisorAssumption, <1>11, SMTT(30)
       DEF Reply, Answer, Goto, world, state, LoopInv, RecordInv, VerbInv, Leftover, Steps,
           Alive, Known
<1>12. CASE Terminate
    BY SupervisorAssumption, <1>12, SMT
       DEF Terminate, state, ghosts, LoopInv, RecordInv, VerbInv, Leftover, Steps, Alive, Known
<1>13. CASE Stopped
    BY SupervisorAssumption, <1>13, SMT
       DEF Stopped, Answer, Goto, world, ghosts, LoopInv, RecordInv, VerbInv, Leftover,
           Steps, Alive, Known
<1>14. CASE Settled
    BY SupervisorAssumption, <1>14, SMT
       DEF Settled, Retry, Goto, world, ghosts, LoopInv, RecordInv, VerbInv, Leftover,
           Steps, Alive, Known
<1>15. CASE Restart
    BY SupervisorAssumption, <1>15, SMTT(30)
       DEF Restart, Goto, world, ghosts, LoopInv, RecordInv, VerbInv, Leftover, Steps, Alive, Known
<1>16. CASE Exit
    BY SupervisorAssumption, <1>16, SMTT(30)
       DEF Exit, Gone, Hangup, Goto, LoopInv, RecordInv, VerbInv, Leftover, Steps, Alive, Known
<1>17. CASE Cancel
    BY SupervisorAssumption, <1>17, SMTT(30)
       DEF Cancel, Stop, Goto, world, state, ghosts, LoopInv, RecordInv, VerbInv, Leftover,
           Steps, Alive, Known
<1>18. CASE Kill
    BY SupervisorAssumption, <1>18, SMT
       DEF Kill, Gone, Hangup, Goto, LoopInv, RecordInv, VerbInv, Leftover, Steps, Alive, Known
<1>19. CASE LeaderExits
    BY SupervisorAssumption, <1>19, SMT
       DEF LeaderExits, state, ghosts, LoopInv, RecordInv, VerbInv, Leftover, Steps, Alive, Known
<1>20. CASE Driver
    BY SupervisorAssumption, <1>20, SMTT(30)
       DEF Driver, ghosts, LoopInv, RecordInv, VerbInv, Leftover, Steps, Alive, Known
<1>21. CASE OrphanEnds
    BY SupervisorAssumption, <1>21, SMT
       DEF OrphanEnds, state, ghosts, LoopInv, RecordInv, VerbInv, Leftover, Steps, Alive, Known
<1>22. ASSUME NEW c \in Clients, Caller(c) PROVE VerbInv'
  <2>1. CASE Call(c)
      BY SupervisorAssumption, <2>1, SMT
         DEF Call, At, world, state, ghosts, supervising, LoopInv, RecordInv, VerbInv,
             Leftover, Steps, Alive, Known
  <2>2. CASE Dial(c)
      BY SupervisorAssumption, <2>2, SMTT(30)
         DEF Dial, At, Move, Bound, world, state, ghosts, supervising, LoopInv, RecordInv,
             VerbInv, Leftover, Steps, Alive, Known
  <2>3. CASE GiveUp(c)
      BY SupervisorAssumption, <2>3, SMT
         DEF GiveUp, At, world, state, ghosts, supervising, LoopInv, RecordInv, VerbInv,
             Leftover, Steps, Alive, Known
  <2>4. CASE Inspect(c)
      BY SupervisorAssumption, <2>4, SMT
         DEF Inspect, At, Move, world, state, ghosts, supervising, LoopInv, RecordInv,
             VerbInv, Leftover, Steps, Alive, Known
  <2>5. CASE TryLock(c)
      BY SupervisorAssumption, <2>5, SMT
         DEF TryLock, At, Move, state, ghosts, supervising, LoopInv, RecordInv, VerbInv,
             Leftover, Steps, Alive, Known
  <2>6. CASE ForgetUnsupervised(c)
      BY SupervisorAssumption, <2>6, SMT
         DEF ForgetUnsupervised, At, state, ghosts, supervising, LoopInv, RecordInv,
             VerbInv, Leftover, Steps, Alive, Known
  <2>7. QED
      BY <1>22, <2>1, <2>2, <2>3, <2>4, <2>5, <2>6 DEF Caller
<1>23. QED
    BY <1>0, <1>1, <1>2, <1>3, <1>4, <1>5, <1>6, <1>7, <1>8, <1>9, <1>10, <1>11, <1>12, <1>13,
       <1>14, <1>15, <1>16, <1>17, <1>18, <1>19, <1>20, <1>21, <1>22
       DEF SupervisorNext, Loop

-----------------------------------------------------------------------------
(***************************************************************************)
(* The theorems.                                                           *)
(***************************************************************************)

\* The invariant of the supervisor holds in every state it can reach.
THEOREM SupervisorInvariant == SupervisorSpec => []SupervisorInv
<1>1. SupervisorInit => SupervisorInv
  <2> SUFFICES ASSUME SupervisorInit PROVE SupervisorInv
      OBVIOUS
  <2>1. LoopInv
      BY SMT DEF SupervisorInit, LoopInv, Steps, Leftover
  <2>2. RecordInv
      BY SMT DEF SupervisorInit, RecordInv, Alive, Known
  <2>3. ClientInv
      BY IdleShape, SMT DEF SupervisorInit, ClientInv, Ops
  <2>4. LockInv
      BY IdleShape, SMT DEF SupervisorInit, LockInv
  <2>5. VerbInv
      BY SMT DEF SupervisorInit, VerbInv
  <2>6. QED
      BY <2>1, <2>2, <2>3, <2>4, <2>5 DEF SupervisorInv
<1>2. SupervisorInv /\ [SupervisorNext]_supervisorVars => SupervisorInv'
  <2> SUFFICES ASSUME SupervisorInv, [SupervisorNext]_supervisorVars PROVE SupervisorInv'
      OBVIOUS
  <2>1. CASE SupervisorNext
      BY <2>1, LoopKept, RecordKept, ClientKept, LockKept, VerbKept DEF SupervisorInv
  <2>2. CASE UNCHANGED supervisorVars
      BY ZenonT(40), <2>2
         DEF supervisorVars, world, state, ghosts, SupervisorInv, LoopInv, RecordInv, ClientInv,
             LockInv, VerbInv
  <2>3. QED
      BY <2>1, <2>2
<1>3. QED
    BY <1>1, <1>2, PTL DEF SupervisorSpec

\* OneRecorded: over any number of kills, unproven reaps, failed starts and
\* restarts the label has one living instance at most, and the store names it from
\* before its release on.  The processes a kill between fork and record or an
\* unproven abort lost are not counted.
THEOREM OneInstanceRecorded == SupervisorSpec => []OneRecorded
<1>1. SupervisorInv => OneRecorded
  <2> SUFFICES ASSUME SupervisorInv PROVE OneRecorded
      OBVIOUS
  <2>1. Recorded
      BY DEF SupervisorInv, RecordInv, Recorded
  <2>2. OneInstance
      BY DEF SupervisorInv, RecordInv, OneInstance
  <2>3. QED
      BY <2>1, <2>2 DEF OneRecorded
<1>2. QED
    BY <1>1, SupervisorInvariant, PTL

\* The two formulas VerbsHold is about.
ApplyHolds ==
    pc = "reply" /\ verb.op = "apply" /\ pc' = "serve"
      => child # None /\ running = verb.service /\ (owed => fresh)
SpecKept == BetweenVerbs /\ desired = spec /\ BetweenVerbs' => desired' = spec'

\* Between two verbs neither service.json nor what the loop runs from it moves:
\* Load and the three handlers that write them are verbs, and a client deletes
\* the file only under a lock that the supervisor holds.
LEMMA SpecStays == LockInv /\ SupervisorNext => SpecKept
<1> SUFFICES ASSUME LockInv, SupervisorNext, BetweenVerbs, BetweenVerbs', desired = spec
             PROVE  desired' = spec'
    BY DEF SpecKept
<1>1. CASE Run
    BY <1>1, SMT DEF Run, Goto, state, BetweenVerbs
<1>2. CASE Load
    BY <1>2, SMT DEF Load, Goto, world, BetweenVerbs
<1>3. CASE Reclaim
    BY <1>3, SMT DEF Reclaim, Gone, Goto, state, BetweenVerbs
<1>4. CASE Bind
    BY <1>4, SMT DEF Bind, Goto, world, state, BetweenVerbs
<1>5. CASE Spawn
    BY <1>5, SMT DEF Spawn, StartFails, Answer, Goto, BetweenVerbs
<1>0. CASE Record
    BY <1>0, SMT DEF Record, Goto, BetweenVerbs, AbortSpawn, StartFails, Answer, state
<1>6. CASE Release
    BY <1>6, SMT DEF Release, AbortSpawn, StartFails, Answer, Retry, Goto, BetweenVerbs
<1>7. CASE Take
    BY <1>7, SMT DEF Take, Goto, world, state, BetweenVerbs
<1>8. CASE Apply
    BY <1>8, SMT DEF Apply, Answer, Goto, world, state, BetweenVerbs
<1>9. CASE Persist
    BY <1>9, SMT DEF Persist, Answer, Goto, BetweenVerbs
<1>10. CASE Forget
    BY <1>10, SMT DEF Forget, Answer, Goto, BetweenVerbs
<1>11. CASE Reply
    BY <1>11, SMT DEF Reply, Answer, Goto, world, state, BetweenVerbs
<1>12. CASE Terminate
    BY <1>12, SMT DEF Terminate, Goto, state, BetweenVerbs
<1>13. CASE Stopped
    BY <1>13, SMT DEF Stopped, Answer, Goto, world, BetweenVerbs
<1>14. CASE Settled
    BY <1>14, SMT DEF Settled, Goto, world, BetweenVerbs
<1>15. CASE Restart
    BY <1>15, SMT DEF Restart, Goto, world, BetweenVerbs
<1>16. CASE Exit
    BY <1>16, SMT DEF Exit, Gone, Goto, BetweenVerbs
<1>17. CASE Cancel
    BY <1>17, SMT DEF Cancel, Goto, world, state, BetweenVerbs
<1>18. CASE Kill
    BY <1>18, SMT DEF Kill, Gone, Goto, BetweenVerbs
<1>19. CASE LeaderExits
    BY <1>19, SMT DEF LeaderExits, Goto, state, BetweenVerbs
<1>20. CASE Driver
    BY <1>20, SMT DEF Driver, Goto, BetweenVerbs
<1>21. CASE OrphanEnds
    BY <1>21, SMT DEF OrphanEnds, Goto, state, BetweenVerbs
<1>22. ASSUME NEW c \in Clients, Caller(c) PROVE desired' = spec'
  <2>1. CASE ForgetUnsupervised(c)
      BY <2>1, SupervisorAssumption, SMT DEF ForgetUnsupervised, At, LockInv, BetweenVerbs
  <2>2. CASE TryLock(c)
      BY <2>2 DEF TryLock, supervising, state
  <2>3. CASE Call(c) \/ Dial(c) \/ GiveUp(c) \/ Inspect(c)
      BY <2>3 DEF Call, Dial, GiveUp, Inspect, supervising, state, world
  <2>4. QED
      BY <1>22, <2>1, <2>2, <2>3 DEF Caller
<1>23. QED
    BY <1>0, <1>1, <1>2, <1>3, <1>4, <1>5, <1>6, <1>7, <1>8, <1>9, <1>10, <1>11, <1>12, <1>13,
       <1>14, <1>15, <1>16, <1>17, <1>18, <1>19, <1>20, <1>21, <1>22
       DEF SupervisorNext, Loop

\* VerbsHold: an Apply answers success only with a child of its service, a new one
\* when the old had exited as it was taken up, and what a restarted supervisor
\* would load stays what this one runs.
THEOREM VerbsAreKept == SupervisorSpec => VerbsHold
<1>1. SupervisorInv /\ [SupervisorNext]_supervisorVars => [ApplyHolds /\ SpecKept]_supervisorVars
  <2> SUFFICES ASSUME SupervisorInv, SupervisorNext PROVE ApplyHolds /\ SpecKept
      OBVIOUS
  <2>1. ApplyHolds
      BY DEF ApplyHolds, SupervisorInv, VerbInv
  <2>2. SpecKept
      BY SpecStays DEF SupervisorInv
  <2>3. QED
      BY <2>1, <2>2
<1>2. QED
    BY <1>1, SupervisorInvariant, PTL DEF SupervisorSpec, VerbsHold, ApplyHolds, SpecKept
=============================================================================
