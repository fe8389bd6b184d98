---------------------------- MODULE StreamProofs ----------------------------
(***************************************************************************)
(* Proofs about the streamed bodies of one call (Stream.tla), for bodies   *)
(* of any length, any capacity, any window and any last sequence number:   *)
(* no chunk is lost, repeated or reordered unnoticed (BodiesWhole).        *)
(***************************************************************************)
EXTENDS Stream, TLAPS

USE Zenon

-----------------------------------------------------------------------------
(***************************************************************************)
(* The inductive invariant.                                                *)
(***************************************************************************)

Chunks == [kind : {"stream"}, sequence : Nat, value : Nat, end : BOOLEAN]
Frames == Chunks \cup {[kind |-> "cancel"], [kind |-> "ack"], [kind |-> "response"]}

\* A bounded stream, the client's call and the server's request.
IsInbound(in) ==
    /\ DOMAIN in = {"buffer", "closed", "done", "held", "channel", "offered", "next", "got"}
    /\ in.buffer \in Seq(Chunks) /\ in.held \in Seq(Chunks) /\ in.offered \in Seq(Chunks)
    /\ in.closed \in BOOLEAN /\ in.done \in BOOLEAN /\ in.channel \in {"open", "closed"}
    /\ in.next \in Nat /\ in.got \in Seq(Nat)
CallType ==
    /\ DOMAIN call = {"sequence", "submitted", "sending", "ended", "canceled", "receiveEnded",
                      "ready", "returned"}
    /\ call.sequence \in Nat /\ call.submitted \in Nat /\ call.sending \in Seq(Chunks)
    /\ call.ended \in BOOLEAN /\ call.receiveEnded \in BOOLEAN /\ call.returned \in BOOLEAN
    /\ call.canceled \in {"no", "send", "await"} /\ call.ready \in {"no", "delivered", "failed"}
ReqType ==
    /\ DOMAIN req = {"at", "ended", "error", "canceled", "emitted", "complete", "endSeen"}
    /\ req.at \in {"handle", "emit", "terminal", "await", "over"} /\ req.emitted \in Nat
    /\ req.ended \in BOOLEAN /\ req.error \in BOOLEAN /\ req.canceled \in BOOLEAN
    /\ req.complete \in BOOLEAN /\ req.endSeen \in BOOLEAN

StreamType ==
    /\ up \in Seq(Frames) /\ down \in Seq(Frames)
    /\ CallType /\ ReqType /\ IsInbound(inC) /\ IsInbound(inS)

\* The chunks of a bounded stream, from the consumer's hand to the read loop's.
Within(in) ==
    {in.held[i] : i \in 1..Len(in.held)} \cup {in.buffer[i] : i \in 1..Len(in.buffer)}
       \cup {in.offered[i] : i \in 1..Len(in.offered)}

\* They are numbered one after the other behind what was consumed, and the read
\* loop expects the next.
Ordered(s, from) == \A i \in 1..Len(s) : s[i].sequence = from + i - 1
InOrder(in) ==
    /\ Ordered(in.held, Len(in.got))
    /\ Ordered(in.buffer, Len(in.got) + Len(in.held))
    /\ Ordered(in.offered, Len(in.got) + Len(in.held) + Len(in.buffer))
    /\ in.next = Len(in.got) + Len(in.held) + Len(in.buffer) + Len(in.offered)

\* A stream whose consumer saw its end, or whose channel closed, gives no more.
Pipe(in, seen) ==
    /\ Len(in.held) <= 1 /\ Len(in.offered) <= 1
    /\ \A i \in 1..Len(in.got) : in.got[i] = i
    /\ in.channel = "open" /\ ~seen => InOrder(in)

\* The chunk that ends the request body is the last: nothing is submitted, and
\* nothing accepted, behind it.
Submitted(f) == IF f.end THEN f.sequence = call.submitted /\ call.ended ELSE f.value = f.sequence + 1
Emitted(f) == ~f.end /\ f.value = f.sequence + 1

RequestInv ==
    /\ Pipe(inS, req.endSeen)
    /\ ~call.ended => call.sequence = call.submitted
    /\ \A i \in 1..Len(call.sending) : Submitted(call.sending[i])
    /\ \A i \in 1..Len(up) : up[i].kind = "stream" => up[i] \in Chunks /\ Submitted(up[i])
    /\ \A f \in Within(inS) : Submitted(f) /\ (f.end => req.ended)
    /\ \A i \in 1..Len(inS.held) : inS.held[i].end => inS.buffer = <<>> /\ inS.offered = <<>>
    /\ \A i \in 1..Len(inS.buffer) : inS.buffer[i].end => i = Len(inS.buffer) /\ inS.offered = <<>>
    /\ Live /\ inS.closed => inS.offered = <<>> /\ req.ended
    /\ req.endSeen =>
          /\ Len(inS.got) = call.submitted /\ call.ended /\ req.ended
          /\ inS.held = <<>> /\ inS.buffer = <<>> /\ inS.offered = <<>>

\* The frames on their way to the client carry on where its read loop is, with
\* the terminal behind them.
Underway ==
    /\ req.at \in {"handle", "emit", "terminal"} =>
          /\ call.ready = "no" /\ req.emitted = inC.next + Len(down)
          /\ \A i \in 1..Len(down) : down[i].kind = "stream"
    /\ req.at = "await" /\ call.ready = "no" =>
          /\ Len(down) > 0 /\ req.emitted + 1 = inC.next + Len(down)
          /\ \A i \in 1..Len(down) : down[i].kind = IF i = Len(down) THEN "response" ELSE "stream"
    /\ req.at = "over" => call.ready = "delivered"
    /\ call.ready = "delivered" => down = <<>> /\ req.emitted = inC.next
    /\ call.ready # "failed"
    /\ \A i \in 1..Len(up) : up[i].kind = "ack" => call.ready = "delivered"

\* The client's stream closes behind the terminal, and its channel only with the
\* stream read to its end, unless the call is cancelled.
ResponseInv ==
    /\ Pipe(inC, FALSE)
    /\ \A f \in Within(inC) : Emitted(f)
    /\ \A i \in 1..Len(down) : down[i].kind = "stream" =>
          down[i] \in Chunks /\ Emitted(down[i]) /\ down[i].sequence = inC.next + i - 1
    /\ Live =>
          /\ Underway
          /\ inC.closed => call.ready = "delivered" /\ inC.offered = <<>>
          /\ inC.done => call.canceled # "no"
          /\ inC.channel = "closed" /\ ~inC.done => inC.closed /\ Len(inC.got) = inC.next

Inv == StreamType /\ RequestInv /\ ResponseInv

-----------------------------------------------------------------------------
(***************************************************************************)
(* What the operations on a bounded stream do.                             *)
(***************************************************************************)

\* One more at the end, and one less at the front.
LEMMA EmptySeq ==
    ASSUME NEW S
    PROVE  <<>> \in Seq(S) /\ Len(<<>>) = 0 /\ \A s \in Seq(S) : s = <<>> <=> Len(s) = 0
  BY SMT

LEMMA AppendOne ==
    ASSUME NEW S, NEW s \in Seq(S), NEW e \in S
    PROVE  /\ Append(s, e) \in Seq(S) /\ Len(Append(s, e)) = Len(s) + 1
           /\ Append(s, e)[Len(s) + 1] = e
           /\ \A i \in 1..Len(s) : Append(s, e)[i] = s[i]
  BY SMT

LEMMA AppendFrom ==
    ASSUME NEW S, NEW s \in Seq(S), NEW e \in S, NEW t, t = Append(s, e)
    PROVE  /\ t \in Seq(S) /\ Len(t) = Len(s) + 1 /\ t[Len(s) + 1] = e
           /\ \A i \in 1..Len(s) : t[i] = s[i]
           /\ \A i \in 1..Len(t) : t[i] = e \/ \E j \in 1..Len(s) : t[i] = s[j]
<1>1. /\ t \in Seq(S) /\ \A i \in 1..Len(t) : i = Len(s) + 1 \/ i \in 1..Len(s)
  BY SMT
<1>a. /\ Len(t) = Len(s) + 1 /\ t[Len(s) + 1] = e
      /\ \A i \in 1..Len(s) : t[i] = s[i]
  BY SMT, AppendOne
<1>2. ASSUME NEW i \in 1..Len(t)
      PROVE  t[i] = e \/ \E j \in 1..Len(s) : t[i] = s[j]
  <2>1. CASE i = Len(s) + 1
    BY <2>1, <1>a
  <2>2. CASE i \in 1..Len(s)
    BY <2>2, <1>a
  <2> QED
    BY <1>1, <2>1, <2>2
<1> QED
  BY <1>1, <1>2, <1>a

LEMMA ChunkShape ==
    ASSUME NEW f \in Chunks
    PROVE  /\ f.kind = "stream" /\ f.sequence \in Nat /\ f.value \in Nat /\ f.end \in BOOLEAN
  BY SMT DEF Chunks

LEMMA One ==
    ASSUME NEW S, NEW e \in S
    PROVE  <<e>> \in Seq(S) /\ Len(<<e>>) = 1 /\ <<e>>[1] = e /\ <<e>> # <<>>
  BY SMT

LEMMA First ==
    ASSUME NEW S, NEW s \in Seq(S), s # <<>>
    PROVE  /\ Head(s) = s[1] /\ Head(s) \in S /\ Len(s) \in Nat \ {0} /\ 1 \in 1..Len(s)
           /\ Tail(s) \in Seq(S) /\ Len(Tail(s)) = Len(s) - 1
           /\ \A i \in 1..Len(Tail(s)) : i + 1 \in 1..Len(s) /\ Tail(s)[i] = s[i + 1]
<1>1. Len(s) \in Nat \ {0} /\ Head(s) \in S /\ Tail(s) \in Seq(S) /\ Len(Tail(s)) = Len(s) - 1
  BY SMT, EmptySeq
<1>2. \A i \in 1..Len(Tail(s)) : Tail(s)[i] = s[i + 1]
  BY SMT
<1>3. Head(s) = s[1]
  BY SMT
<1>4. 1 \in 1..Len(s) /\ \A i \in 1..Len(Tail(s)) : i + 1 \in 1..Len(s)
  BY SMT, <1>1
<1> QED
  BY <1>1, <1>2, <1>3, <1>4

LEMMA TailFrom ==
    ASSUME NEW S, NEW s \in Seq(S), s # <<>>, NEW t, t = Tail(s)
    PROVE  /\ t \in Seq(S) /\ Len(s) = Len(t) + 1 /\ Len(t) \in Nat
           /\ Head(s) = s[1] /\ s[1] \in S /\ 1 \in 1..Len(s)
           /\ \A i \in 1..Len(t) : i + 1 \in 1..Len(s) /\ t[i] = s[i + 1]
           /\ \A i \in 1..Len(t) : \E j \in 1..Len(s) : t[i] = s[j]
<1>1. /\ t \in Seq(S) /\ Len(s) = Len(t) + 1 /\ Len(t) \in Nat
      /\ Head(s) = s[1] /\ s[1] \in S /\ 1 \in 1..Len(s)
      /\ \A i \in 1..Len(t) : i + 1 \in 1..Len(s) /\ t[i] = s[i + 1]
  BY SMT, First
<1> QED
  BY <1>1

LEMMA Empty ==
    ASSUME NEW S, NEW s \in Seq(S)
    PROVE  Len(s) \in Nat /\ (s = <<>> <=> Len(s) = 0)
  BY SMT, EmptySeq

LEMMA Single ==
    ASSUME NEW S, NEW s \in Seq(S), s # <<>>, Len(s) <= 1
    PROVE  Len(s) = 1 /\ Head(s) = s[1] /\ Head(s) \in S /\ Tail(s) = <<>> /\ s[1] \in S
<1>1. Len(s) \in Nat \ {0} /\ Head(s) = s[1] /\ Head(s) \in S
      /\ Tail(s) \in Seq(S) /\ Len(Tail(s)) = Len(s) - 1
  BY First
<1>2. \A n \in Nat \ {0} : n <= 1 => n = 1 /\ n - 1 = 0
  BY SMT
<1>3. Len(s) = 1 /\ Len(Tail(s)) = 0
  BY <1>1, <1>2
<1> QED
  BY <1>1, <1>3, Empty

LEMMA OrderedEmpty == ASSUME NEW n PROVE Ordered(<<>>, n)
  BY SMT DEF Ordered

LEMMA OrderedOne ==
    ASSUME NEW f \in Chunks PROVE Ordered(<<f>>, f.sequence)
  BY SMT, One DEF Ordered, Chunks

LEMMA OrderedAppend ==
    ASSUME NEW s \in Seq(Chunks), NEW n \in Nat, NEW f \in Chunks,
           Ordered(s, n), f.sequence = n + Len(s)
    PROVE  Ordered(Append(s, f), n)
<1> DEFINE t == Append(s, f)
<1>1. Len(s) \in Nat /\ Len(t) = Len(s) + 1 /\ t[Len(s) + 1] = f /\ \A i \in 1..Len(s) : t[i] = s[i]
  BY SMT
<1> HIDE DEF t
<1>2. ASSUME NEW i \in 1..Len(t) PROVE t[i].sequence = n + i - 1
  <2>1. i \in 1..Len(s) \/ i = Len(s) + 1
    BY SMT, <1>1
  <2>2. CASE i = Len(s) + 1
    BY SMT, <1>1, <2>2
  <2>3. CASE i \in 1..Len(s)
    BY <1>1, <2>3 DEF Ordered
  <2> QED
    BY <2>1, <2>2, <2>3
<1> QED
  BY <1>2 DEF Ordered, t

LEMMA OrderedTail ==
    ASSUME NEW s \in Seq(Chunks), NEW n \in Nat, s # <<>>, Ordered(s, n)
    PROVE  Head(s).sequence = n /\ Ordered(Tail(s), n + 1)
<1>1. /\ Head(s) = s[1] /\ 1 \in 1..Len(s) /\ Len(s) \in Nat
      /\ \A i \in 1..Len(Tail(s)) : i + 1 \in 1..Len(s) /\ Tail(s)[i] = s[i + 1]
  BY First
<1>2. Head(s).sequence = n
  BY SMT, <1>1 DEF Ordered
<1>3. ASSUME NEW i \in 1..Len(Tail(s)) PROVE Tail(s)[i].sequence = n + 1 + i - 1
  <2>1. Tail(s)[i].sequence = n + (i + 1) - 1
    BY <1>1 DEF Ordered
  <2> QED
    BY SMT, <2>1
<1> QED
  BY <1>2, <1>3 DEF Ordered

\* The read loop takes up the chunk it expected.
Accept(in, f) == [in EXCEPT !.next = @ + 1, !.offered = <<f>>]

LEMMA AcceptPipe ==
    ASSUME NEW in, IsInbound(in), NEW seen \in BOOLEAN, NEW f \in Chunks,
           Pipe(in, seen), in.offered = <<>>, f.sequence = in.next
    PROVE  LET to == Accept(in, f) IN
           /\ IsInbound(to) /\ Pipe(to, seen) /\ Within(to) \subseteq Within(in) \cup {f}
           /\ to.offered = <<f>> /\ to.next = in.next + 1
           /\ to.buffer = in.buffer /\ to.held = in.held /\ to.got = in.got
           /\ to.closed = in.closed /\ to.done = in.done /\ to.channel = in.channel
<1> DEFINE to == Accept(in, f)
<1>1. <<f>> \in Seq(Chunks) /\ Len(<<f>>) = 1 /\ <<f>>[1] = f
  BY One
<1>2. /\ IsInbound(to) /\ to.offered = <<f>> /\ to.next = in.next + 1
      /\ to.buffer = in.buffer /\ to.held = in.held /\ to.got = in.got
      /\ to.closed = in.closed /\ to.done = in.done /\ to.channel = in.channel
  BY SMT, <1>1 DEF Accept, IsInbound
<1> HIDE DEF to
<1>3. Len(in.offered) = 0 /\ Len(in.held) \in Nat /\ Len(in.buffer) \in Nat /\ Len(in.got) \in Nat
  BY SMT, Empty DEF IsInbound
<1>4. ASSUME InOrder(in) PROVE InOrder(to)
  <2>1. in.next = Len(in.got) + Len(in.held) + Len(in.buffer)
    BY SMT, <1>3, <1>4 DEF InOrder
  <2>2. Ordered(<<f>>, Len(in.got) + Len(in.held) + Len(in.buffer))
    BY <2>1, OrderedOne
  <2>3. to.next = Len(to.got) + Len(to.held) + Len(to.buffer) + Len(to.offered)
    BY SMT, <1>1, <1>2, <1>3, <2>1
  <2> QED
    BY <1>2, <1>4, <2>2, <2>3 DEF InOrder
<1>5. Pipe(to, seen)
  BY SMT, <1>1, <1>2, <1>4 DEF Pipe
<1>6. Within(to) \subseteq Within(in) \cup {f}
  BY SMT, <1>1, <1>2 DEF Within
<1> QED
  BY <1>2, <1>5, <1>6 DEF to

\* offer, with room.
LEMMA OfferPipe ==
    ASSUME NEW in, IsInbound(in), NEW seen \in BOOLEAN,
           Pipe(in, seen), in.offered # <<>>, ~in.closed
    PROVE  LET to == Offer(in) IN
           /\ IsInbound(to) /\ Pipe(to, seen) /\ Within(to) \subseteq Within(in)
           /\ in.offered[1] \in Within(in)
           /\ to.offered = <<>> /\ to.next = in.next
           /\ to.buffer = Append(in.buffer, in.offered[1]) /\ to.held = in.held /\ to.got = in.got
           /\ to.closed = in.offered[1].end /\ to.done = in.done /\ to.channel = in.channel
<1> DEFINE to == Offer(in)  f == in.offered[1]
<1>1. Len(in.offered) = 1 /\ Head(in.offered) = f /\ f \in Chunks
  BY Single DEF Pipe, IsInbound
<1>2. /\ Append(in.buffer, f) \in Seq(Chunks) /\ Len(Append(in.buffer, f)) = Len(in.buffer) + 1
      /\ Append(in.buffer, f)[Len(in.buffer) + 1] = f
      /\ \A i \in 1..Len(in.buffer) : Append(in.buffer, f)[i] = in.buffer[i]
  BY SMT, <1>1 DEF IsInbound
<1>3. to = [in EXCEPT !.offered = <<>>, !.buffer = Append(@, f), !.closed = f.end]
  BY <1>1 DEF Offer
<1>a. f.end \in BOOLEAN
  BY SMT, <1>1 DEF Chunks
<1>4. <<>> \in Seq(Chunks) /\ Len(<<>>) = 0 /\ f.end \in BOOLEAN
  BY <1>a, EmptySeq
<1>5. /\ IsInbound(to) /\ to.offered = <<>> /\ to.next = in.next
      /\ to.buffer = Append(in.buffer, f) /\ to.held = in.held /\ to.got = in.got
      /\ to.closed = f.end /\ to.done = in.done /\ to.channel = in.channel
  BY SMT, <1>2, <1>3, <1>4 DEF IsInbound
<1> HIDE DEF to
<1>6. Len(in.held) \in Nat /\ Len(in.buffer) \in Nat /\ Len(in.got) \in Nat
  BY SMT, Empty DEF IsInbound
<1>7. ASSUME InOrder(in) PROVE InOrder(to)
  <2>1. f.sequence = Len(in.got) + Len(in.held) + Len(in.buffer)
    BY SMT, <1>1, <1>6, <1>7 DEF InOrder, Ordered, IsInbound
  <2>2. Ordered(to.buffer, Len(in.got) + Len(in.held))
    <3>1. Len(in.got) + Len(in.held) \in Nat
      BY SMT, <1>6 DEF IsInbound
    <3> QED
      BY ZenonT(40), <3>1, <2>1, <1>1, <1>5, <1>7, OrderedAppend DEF InOrder, IsInbound
  <2>3. Ordered(to.offered, Len(to.got) + Len(to.held) + Len(to.buffer))
    BY <1>5, OrderedEmpty
  <2>4. to.next = Len(to.got) + Len(to.held) + Len(to.buffer) + Len(to.offered)
    BY SMT, <1>1, <1>2, <1>4, <1>5, <1>6, <1>7 DEF InOrder, IsInbound
  <2> QED
    BY <1>5, <1>7, <2>2, <2>3, <2>4 DEF InOrder
<1>8. Pipe(to, seen)
  BY SMT, <1>4, <1>5, <1>7 DEF Pipe
<1>9. Within(to) \subseteq Within(in) /\ f \in Within(in)
  BY SMT, <1>1, <1>2, <1>4, <1>5, <1>6 DEF Within
<1> QED
  BY <1>5, <1>8, <1>9 DEF to

\* Delivery takes the oldest chunk in hand.
LEMMA TakePipe ==
    ASSUME NEW in, IsInbound(in), NEW seen \in BOOLEAN, Pipe(in, seen), CanTake(in)
    PROVE  LET to == Take(in) IN
           /\ IsInbound(to) /\ Pipe(to, seen) /\ Within(to) \subseteq Within(in)
           /\ to.held = <<in.buffer[1]>> /\ to.buffer = Tail(in.buffer) /\ in.buffer[1] \in Chunks
           /\ to.offered = in.offered /\ to.next = in.next /\ to.got = in.got
           /\ to.closed = in.closed /\ to.done = in.done /\ to.channel = in.channel
<1> DEFINE to == Take(in)  f == in.buffer[1]
<1>1. /\ in.buffer \in Seq(Chunks) /\ in.held = <<>> /\ in.channel = "open" /\ in.buffer # <<>>
  BY DEF CanTake, IsInbound
<1>2. /\ Head(in.buffer) = f /\ f \in Chunks /\ 1 \in 1..Len(in.buffer)
      /\ Tail(in.buffer) \in Seq(Chunks) /\ Len(Tail(in.buffer)) = Len(in.buffer) - 1
      /\ \A i \in 1..Len(Tail(in.buffer)) : i + 1 \in 1..Len(in.buffer) /\ Tail(in.buffer)[i] = in.buffer[i + 1]
  BY <1>1, First
<1>3. <<f>> \in Seq(Chunks) /\ Len(<<f>>) = 1 /\ <<f>>[1] = f
  BY <1>2, One
<1>4. to = [in EXCEPT !.held = <<f>>, !.buffer = Tail(in.buffer)]
  BY <1>2 DEF Take
<1>5. /\ IsInbound(to) /\ to.held = <<f>> /\ to.buffer = Tail(in.buffer)
      /\ to.offered = in.offered /\ to.next = in.next /\ to.got = in.got
      /\ to.closed = in.closed /\ to.done = in.done /\ to.channel = in.channel
  BY SMT, <1>2, <1>3, <1>4 DEF IsInbound
<1> HIDE DEF to
<1>6. Len(in.held) = 0 /\ Len(in.offered) \in Nat /\ Len(in.buffer) \in Nat /\ Len(in.got) \in Nat
  BY SMT, <1>1, Empty DEF IsInbound
<1>7. ASSUME InOrder(in) PROVE InOrder(to)
  <2>1. Ordered(in.buffer, Len(in.got))
    BY SMT, <1>6, <1>7 DEF InOrder, IsInbound
  <2>2. f.sequence = Len(in.got) /\ Ordered(Tail(in.buffer), Len(in.got) + 1)
    BY ZenonT(40), <1>1, <1>2, <1>6, <2>1, OrderedTail
  <2>3. Ordered(to.held, Len(to.got))
    BY <1>2, <1>5, <2>2, OrderedOne
  <2>4. Ordered(to.buffer, Len(to.got) + Len(to.held))
    BY <1>3, <1>5, <2>2
  <2>5. /\ Len(to.got) + Len(to.held) + Len(to.buffer) = Len(in.got) + Len(in.held) + Len(in.buffer)
        /\ to.next = Len(to.got) + Len(to.held) + Len(to.buffer) + Len(to.offered)
    BY SMT, <1>2, <1>3, <1>5, <1>6, <1>7 DEF InOrder, IsInbound
  <2> QED
    BY <1>5, <1>7, <2>3, <2>4, <2>5 DEF InOrder
<1>8. Pipe(to, seen)
  BY SMT, <1>3, <1>5, <1>7 DEF Pipe
<1>9. Within(to) \subseteq Within(in)
  BY SMT, <1>2, <1>3, <1>5 DEF Within
<1> QED
  BY <1>2, <1>5, <1>8, <1>9 DEF to

\* The consumer reads the chunk in hand: it is the one after what it has.
LEMMA ConsumePipe ==
    ASSUME NEW in, IsInbound(in), Pipe(in, FALSE), in.channel = "open", in.held # <<>>,
           in.held[1].value = in.held[1].sequence + 1
    PROVE  LET to == Consume(in) IN
           /\ IsInbound(to) /\ Pipe(to, FALSE) /\ Within(to) \subseteq Within(in)
           /\ to.held = <<>> /\ to.buffer = in.buffer
           /\ to.offered = in.offered /\ to.next = in.next
           /\ to.closed = in.closed /\ to.done = in.done /\ to.channel = in.channel
<1> DEFINE to == Consume(in)  f == in.held[1]
<1>1. Len(in.held) = 1 /\ Head(in.held) = f /\ f \in Chunks
  BY Single DEF Pipe, IsInbound
<1>2. f.value \in Nat /\ f.sequence \in Nat
  BY SMT, <1>1 DEF Chunks
<1>3. /\ Append(in.got, f.value) \in Seq(Nat) /\ Len(Append(in.got, f.value)) = Len(in.got) + 1
      /\ Append(in.got, f.value)[Len(in.got) + 1] = f.value
      /\ \A i \in 1..Len(in.got) : Append(in.got, f.value)[i] = in.got[i]
  BY SMT, <1>2 DEF IsInbound
<1>4. to = [in EXCEPT !.held = <<>>, !.got = Append(in.got, f.value)]
  BY <1>1 DEF Consume
<1>5. <<>> \in Seq(Chunks) /\ Len(<<>>) = 0
  BY EmptySeq
<1>6. /\ IsInbound(to) /\ to.held = <<>> /\ to.buffer = in.buffer /\ to.got = Append(in.got, f.value)
      /\ to.offered = in.offered /\ to.next = in.next
      /\ to.closed = in.closed /\ to.done = in.done /\ to.channel = in.channel
  BY SMT, <1>3, <1>4, <1>5 DEF IsInbound
<1> HIDE DEF to
<1>7. Len(in.buffer) \in Nat /\ Len(in.got) \in Nat /\ Len(in.offered) \in Nat
  BY SMT, Empty DEF IsInbound
<1>8. InOrder(in)
  BY DEF Pipe
<1>9. f.sequence = Len(in.got)
  BY SMT, <1>1, <1>7, <1>8 DEF InOrder, Ordered, IsInbound
<1>10. \A i \in 1..Len(to.got) : to.got[i] = i
  BY SMT, <1>2, <1>3, <1>6, <1>7, <1>9 DEF Pipe, IsInbound
<1>11. InOrder(to)
  <2>1. Ordered(to.held, Len(to.got))
    BY <1>6, OrderedEmpty
  <2>2. /\ Len(to.got) + Len(to.held) = Len(in.got) + Len(in.held)
        /\ Len(to.got) + Len(to.held) + Len(to.buffer) = Len(in.got) + Len(in.held) + Len(in.buffer)
        /\ to.next = Len(to.got) + Len(to.held) + Len(to.buffer) + Len(to.offered)
    BY SMT, <1>1, <1>3, <1>5, <1>6, <1>7, <1>8 DEF InOrder, IsInbound
  <2> QED
    BY <1>6, <1>8, <2>1, <2>2 DEF InOrder
<1>12. Pipe(to, FALSE)
  <2>1. Len(to.held) <= 1 /\ Len(to.offered) <= 1
    BY SMT, <1>5, <1>6 DEF Pipe, IsInbound
  <2> QED
    BY <2>1, <1>10, <1>11 DEF Pipe
<1>13. Within(to) \subseteq Within(in)
  BY SMT, <1>5, <1>6 DEF Within
<1> QED
  BY <1>6, <1>12, <1>13 DEF to

\* Delivery ends.
LEMMA FinishPipe ==
    ASSUME NEW in, IsInbound(in), NEW seen \in BOOLEAN, Pipe(in, seen)
    PROVE  LET to == Finish(in) IN
           /\ IsInbound(to) /\ Pipe(to, seen) /\ Within(to) \subseteq Within(in)
           /\ to.held = <<>> /\ to.channel = "closed" /\ to.buffer = in.buffer /\ to.offered = in.offered
           /\ to.next = in.next /\ to.got = in.got /\ to.closed = in.closed /\ to.done = in.done
<1> DEFINE to == Finish(in)
<1>1. <<>> \in Seq(Chunks) /\ Len(<<>>) = 0
  BY EmptySeq
<1>2. /\ IsInbound(to) /\ to.held = <<>> /\ to.channel = "closed" /\ to.buffer = in.buffer
      /\ to.offered = in.offered
      /\ to.next = in.next /\ to.got = in.got /\ to.closed = in.closed /\ to.done = in.done
  BY SMT, <1>1 DEF IsInbound, Finish
<1> HIDE DEF to
<1>3. Len(to.held) <= 1 /\ Len(to.offered) <= 1
  BY SMT, <1>1, <1>2 DEF Pipe, IsInbound
<1>4. Pipe(to, seen)
  BY <1>2, <1>3 DEF Pipe
<1>5. Within(to) \subseteq Within(in)
  BY SMT, <1>1, <1>2 DEF Within
<1> QED
  BY <1>2, <1>4, <1>5 DEF to

SameStream(in, to) ==
    /\ to.held = in.held /\ to.buffer = in.buffer /\ to.offered = in.offered
    /\ to.got = in.got /\ to.next = in.next /\ to.channel = in.channel

LEMMA SamePipe ==
    ASSUME NEW in, NEW to, SameStream(in, to)
    PROVE  /\ \A seen : Pipe(in, seen) => Pipe(to, seen)
           /\ Within(to) = Within(in)
<1>1. InOrder(in) => InOrder(to)
  BY DEF SameStream, InOrder
<1>2. \A seen : Pipe(in, seen) => Pipe(to, seen)
  BY <1>1 DEF SameStream, Pipe
<1>3. Within(to) = Within(in)
  BY DEF SameStream, Within
<1> QED
  BY <1>2, <1>3

\* A stream that was shut, or whose delivery was stopped, has the chunks it had.
LEMMA ShutPipe ==
    ASSUME NEW in, IsInbound(in), NEW seen \in BOOLEAN, Pipe(in, seen), NEW to,
           to = Shut(in) \/ to = [in EXCEPT !.done = TRUE] \/ to = [in EXCEPT !.closed = TRUE]
    PROVE  /\ IsInbound(to) /\ Pipe(to, seen) /\ Within(to) = Within(in)
           /\ to.held = in.held /\ to.channel = in.channel /\ to.buffer = in.buffer
           /\ to.offered = in.offered /\ to.next = in.next /\ to.got = in.got
<1>a. ASSUME to = Shut(in) PROVE IsInbound(to) /\ SameStream(in, to)
  BY SMT, <1>a DEF IsInbound, Shut, SameStream
<1>b. ASSUME to = [in EXCEPT !.done = TRUE] PROVE IsInbound(to) /\ SameStream(in, to)
  BY SMT, <1>b DEF IsInbound, SameStream
<1>c. ASSUME to = [in EXCEPT !.closed = TRUE] PROVE IsInbound(to) /\ SameStream(in, to)
  BY SMT, <1>c DEF IsInbound, SameStream
<1>1. IsInbound(to) /\ SameStream(in, to)
  BY <1>a, <1>b, <1>c
<1> QED
  BY <1>1, SamePipe DEF SameStream
-----------------------------------------------------------------------------
(***************************************************************************)
(* Steps that leave one of the two bodies alone.                           *)
(***************************************************************************)
RequestStep ==
    /\ SameStream(inS, inS')
    /\ Live' /\ inS'.closed => inS.offered = <<>> /\ req'.ended
    /\ req'.endSeen = req.endSeen
    /\ req.ended => req'.ended
    /\ call'.submitted = call.submitted /\ call'.sequence = call.sequence
    /\ call.ended => call'.ended
    /\ call'.sending = call.sending \/ call'.sending = <<>>
    /\ \A i \in 1..Len(up') : up'[i].kind = "stream" => \E j \in 1..Len(up) : up'[i] = up[j]

Early == {"handle", "emit", "terminal"}
ResponseStep ==
    /\ SameStream(inC, inC')
    /\ down' = down
    /\ Live' => Live
    /\ call'.ready = call.ready
    /\ call.canceled # "no" => call'.canceled # "no"
    /\ req'.emitted = req.emitted
    /\ req'.at = req.at \/ (req.at \in Early /\ req'.at \in Early)
    /\ inC'.closed = inC.closed
    /\ inC'.done = inC.done \/ call'.canceled # "no"
    /\ inC.done => inC'.done
    /\ \A i \in 1..Len(up') : up'[i].kind = "ack" => \E j \in 1..Len(up) : up[j].kind = "ack"

LEMMA RequestKept ==
    ASSUME Inv, StreamType', RequestStep
    PROVE  RequestInv'
<1>1. \A f : Submitted(f) => Submitted(f)'
  BY DEF RequestStep, Submitted
<1>2. Pipe(inS', req'.endSeen) /\ Within(inS') = Within(inS)
  BY SamePipe DEF Inv, RequestInv, RequestStep
<1>3. ~call'.ended => call'.sequence = call'.submitted
  BY DEF Inv, RequestInv, RequestStep
<1>4. (\A i \in 1..Len(call.sending) : Submitted(call.sending[i]))'
  <2>1. CASE call'.sending = call.sending
    BY <1>1, <2>1 DEF Inv, RequestInv
  <2>2. CASE call'.sending = <<>>
    BY SMT, <2>2
  <2> QED
    BY <2>1, <2>2 DEF RequestStep
<1>5. (\A i \in 1..Len(up) : up[i].kind = "stream" => up[i] \in Chunks /\ Submitted(up[i]))'
  BY <1>1 DEF Inv, RequestInv, RequestStep
<1>6. \A f \in Within(inS') : Submitted(f)' /\ (f.end => req'.ended)
  BY <1>1, <1>2 DEF Inv, RequestInv, RequestStep
<1>7. /\ \A i \in 1..Len(inS'.held) : inS'.held[i].end => inS'.buffer = <<>> /\ inS'.offered = <<>>
      /\ \A i \in 1..Len(inS'.buffer) :
            inS'.buffer[i].end => i = Len(inS'.buffer) /\ inS'.offered = <<>>
      /\ Live' /\ inS'.closed => inS'.offered = <<>> /\ req'.ended
      /\ req'.endSeen =>
            /\ Len(inS'.got) = call'.submitted /\ call'.ended /\ req'.ended
            /\ inS'.held = <<>> /\ inS'.buffer = <<>> /\ inS'.offered = <<>>
  BY DEF Inv, RequestInv, RequestStep, SameStream
<1> QED
  BY <1>2, <1>3, <1>4, <1>5, <1>6, <1>7 DEF RequestInv

LEMMA ResponseKept ==
    ASSUME Inv, StreamType', ResponseStep
    PROVE  ResponseInv'
<1>1. Pipe(inC', FALSE) /\ Within(inC') = Within(inC)
  BY SamePipe DEF Inv, ResponseInv, ResponseStep
<1>2. /\ \A f \in Within(inC') : Emitted(f)
      /\ \A i \in 1..Len(down') : down'[i].kind = "stream" =>
            down'[i] \in Chunks /\ Emitted(down'[i]) /\ down'[i].sequence = inC'.next + i - 1
  BY <1>1 DEF Inv, ResponseInv, ResponseStep, SameStream
<1>3. ASSUME Live' PROVE Underway'
  BY <1>3 DEF Inv, ResponseInv, ResponseStep, SameStream, Early, Underway
<1>4. ASSUME Live'
      PROVE  /\ inC'.closed => call'.ready = "delivered" /\ inC'.offered = <<>>
             /\ inC'.done => call'.canceled # "no"
             /\ inC'.channel = "closed" /\ ~inC'.done => inC'.closed /\ Len(inC'.got) = inC'.next
  BY <1>4 DEF Inv, ResponseInv, ResponseStep, SameStream
<1> QED
  BY <1>1, <1>2, <1>3, <1>4 DEF ResponseInv, Emitted
-----------------------------------------------------------------------------
(***************************************************************************)
(* The session's end.                                                      *)
(***************************************************************************)
LEMMA EndKeeps ==
    ASSUME Inv, NEW why, why # "no", End(why)
    PROVE  Inv'
<1>a. IsInbound(inC) /\ Pipe(inC, FALSE) /\ IsInbound(inS) /\ Pipe(inS, req.endSeen)
  BY DEF Inv, StreamType, RequestInv, ResponseInv
<1>b. req.endSeen \in BOOLEAN
  BY DEF Inv, StreamType, ReqType
<1>c. inS' = Shut(inS) /\ (inC' = Shut(inC) \/ inC' = inC)
  BY DEF End
<1>1. IsInbound(inC') /\ SameStream(inC, inC')
  <2>1. CASE inC' = Shut(inC)
    BY <1>a, <2>1, ShutPipe DEF SameStream
  <2>2. CASE inC' = inC
    BY <1>a, <2>2 DEF SameStream
  <2> QED
    BY <1>c, <2>1, <2>2
<1>2. IsInbound(inS') /\ SameStream(inS, inS')
  BY ZenonT(40), <1>a, <1>b, <1>c, ShutPipe DEF SameStream
<1>3. CallType' /\ call'.sequence = call.sequence /\ call'.submitted = call.submitted
      /\ call'.sending = call.sending /\ call'.ended = call.ended
  BY SMT DEF End, Inv, StreamType, CallType
<1>4. ReqType' /\ req'.ended = req.ended /\ req'.endSeen = req.endSeen
  BY SMT DEF End, Inv, StreamType, ReqType
<1>5. up' = <<>> /\ down' = <<>> /\ ~Live'
  BY DEF End, Live
<1>6. up' \in Seq(Frames) /\ down' \in Seq(Frames) /\ Len(up') = 0 /\ Len(down') = 0
  BY <1>5, EmptySeq
<1>7. StreamType'
  BY <1>1, <1>2, <1>3, <1>4, <1>6 DEF StreamType
<1>8. \A i \in 1..Len(up') : FALSE
  BY SMT, <1>6
<1>9. RequestStep
  BY <1>2, <1>3, <1>4, <1>5, <1>8 DEF RequestStep
<1>10. RequestInv'
  BY <1>7, <1>9, RequestKept
<1>11. Pipe(inC', FALSE) /\ Within(inC') = Within(inC)
  BY <1>1, SamePipe DEF Inv, ResponseInv
<1>12. \A i \in 1..Len(down') : FALSE
  BY SMT, <1>6
<1>13. ResponseInv'
  BY <1>5, <1>11, <1>12 DEF Inv, ResponseInv, Emitted
<1> QED
  BY <1>7, <1>10, <1>13 DEF Inv
-----------------------------------------------------------------------------
(***************************************************************************)
(* The caller.                                                             *)
(***************************************************************************)
LEMMA SendChunkKeeps ==
    ASSUME Inv, SendChunk
    PROVE  Inv'
<1> DEFINE f == Chunk(call.sequence, call.submitted + 1, FALSE)
<1>1. /\ up' = up /\ down' = down /\ inS' = inS /\ inC' = inC /\ req' = req /\ over' = over
  BY DEF SendChunk, server
<1>2. f \in Chunks /\ f.sequence = call.sequence /\ f.value = call.submitted + 1 /\ f.end = FALSE
  BY SMT DEF Inv, StreamType, CallType, Chunks, Chunk
<1>3. <<f>> \in Seq(Chunks) /\ Len(<<f>>) = 1 /\ <<f>>[1] = f
  BY <1>2, One
<1>4. ~call.ended /\ call' = [call EXCEPT !.sequence = @ + 1, !.submitted = @ + 1, !.sending = <<f>>]
  BY DEF SendChunk, CanSend
<1> HIDE DEF f
<1>5. /\ CallType' /\ call'.sending = <<f>> /\ call'.ended = call.ended
      /\ call'.sequence = call.sequence + 1 /\ call'.submitted = call.submitted + 1
      /\ call'.ready = call.ready /\ call'.canceled = call.canceled
  BY SMT, <1>3, <1>4 DEF Inv, StreamType, CallType
<1>6. StreamType'
  BY <1>1, <1>5 DEF Inv, StreamType, ReqType
<1>7. ResponseInv'
  <2>1. ResponseStep
    BY <1>1, <1>5 DEF ResponseStep, SameStream, Live
  <2> QED
    BY <1>6, <2>1, ResponseKept
<1>8. call.sequence = call.submitted
  BY <1>4 DEF Inv, RequestInv
<1>9. \A g : Submitted(g) => ~g.end /\ Submitted(g)'
  BY <1>4 DEF Submitted
<1>10. \A g : g = f => Submitted(g)'
  BY <1>2, <1>8 DEF Submitted
<1>11. (\A i \in 1..Len(call.sending) : Submitted(call.sending[i]))'
  <2>1. \A i \in 1..Len(call'.sending) : call'.sending[i] = f
    BY SMT, <1>3, <1>5
  <2> QED
    BY <1>10, <2>1
<1>12. (~call.ended => call.sequence = call.submitted)'
  BY <1>5, <1>8
<1>13. Pipe(inS', req'.endSeen)
  BY <1>1 DEF Inv, RequestInv
<1>14. (\A i \in 1..Len(up) : up[i].kind = "stream" => up[i] \in Chunks /\ Submitted(up[i]))'
  BY <1>1, <1>9 DEF Inv, RequestInv
<1>15. (\A g \in Within(inS) : Submitted(g) /\ (g.end => req.ended))'
  BY <1>1, <1>9 DEF Inv, RequestInv
<1>16. ~req.endSeen
  BY <1>4 DEF Inv, RequestInv
<1>17. RequestInv'
  BY <1>1, <1>11, <1>12, <1>13, <1>14, <1>15, <1>16 DEF Inv, RequestInv, Live
<1> QED
  BY <1>6, <1>7, <1>17 DEF Inv

LEMMA CloseSendKeeps ==
    ASSUME Inv, CloseSend
    PROVE  Inv'
<1> DEFINE f == Chunk(call.sequence, 0, TRUE)
<1>1. /\ up' = up /\ down' = down /\ inS' = inS /\ inC' = inC /\ req' = req /\ over' = over
  BY DEF CloseSend, server
<1>2. f \in Chunks /\ f.sequence = call.sequence /\ f.end = TRUE
  BY SMT DEF Inv, StreamType, CallType, Chunks, Chunk
<1>3. <<f>> \in Seq(Chunks) /\ Len(<<f>>) = 1 /\ <<f>>[1] = f
  BY <1>2, One
<1>4. ~call.ended /\ call' = [call EXCEPT !.sequence = @ + 1, !.ended = TRUE, !.sending = <<f>>]
  BY DEF CloseSend, CanSend
<1> HIDE DEF f
<1>5. /\ CallType' /\ call'.sending = <<f>> /\ call'.ended
      /\ call'.submitted = call.submitted
      /\ call'.ready = call.ready /\ call'.canceled = call.canceled
  BY SMT, <1>3, <1>4 DEF Inv, StreamType, CallType
<1>6. StreamType'
  BY <1>1, <1>5 DEF Inv, StreamType, ReqType
<1>7. ResponseInv'
  <2>1. ResponseStep
    BY <1>1, <1>5 DEF ResponseStep, SameStream, Live
  <2> QED
    BY <1>6, <2>1, ResponseKept
<1>8. call.sequence = call.submitted
  BY <1>4 DEF Inv, RequestInv
<1>9. \A g : Submitted(g) => Submitted(g)'
  BY <1>4, <1>5 DEF Submitted
<1>10. \A g : g = f => Submitted(g)'
  BY <1>2, <1>5, <1>8 DEF Submitted
<1>11. (\A i \in 1..Len(call.sending) : Submitted(call.sending[i]))'
  <2>1. \A i \in 1..Len(call'.sending) : call'.sending[i] = f
    BY SMT, <1>3, <1>5
  <2> QED
    BY <1>10, <2>1
<1>13. Pipe(inS', req'.endSeen)
  BY <1>1 DEF Inv, RequestInv
<1>14. (\A i \in 1..Len(up) : up[i].kind = "stream" => up[i] \in Chunks /\ Submitted(up[i]))'
  BY <1>1, <1>9 DEF Inv, RequestInv
<1>15. (\A g \in Within(inS) : Submitted(g) /\ (g.end => req.ended))'
  BY <1>1, <1>9 DEF Inv, RequestInv
<1>16. ~req.endSeen
  BY <1>4 DEF Inv, RequestInv
<1>17. RequestInv'
  BY <1>1, <1>5, <1>11, <1>13, <1>14, <1>15, <1>16 DEF Inv, RequestInv, Live
<1> QED
  BY <1>6, <1>7, <1>17 DEF Inv

LEMMA SendFrameKeeps ==
    ASSUME Inv, SendFrame
    PROVE  Inv'
<1>1. /\ down' = down /\ inS' = inS /\ inC' = inC /\ req' = req /\ over' = over
      /\ call' = [call EXCEPT !.sending = <<>>]
      /\ up' = up \o call.sending \/ up' = up
  BY DEF SendFrame, server
<1>2. <<>> \in Seq(Chunks)
  BY EmptySeq
<1>3. /\ CallType' /\ call'.sending = <<>> /\ call'.ended = call.ended
      /\ call'.submitted = call.submitted /\ call'.sequence = call.sequence
      /\ call'.ready = call.ready /\ call'.canceled = call.canceled
  BY SMT, <1>1, <1>2 DEF Inv, StreamType, CallType
<1>4. call.sending \in Seq(Frames) /\ up \in Seq(Frames)
  BY SMT DEF Inv, StreamType, CallType, Frames
<1>5. /\ up' \in Seq(Frames)
      /\ \A i \in 1..Len(up') :
            \/ \E j \in 1..Len(up) : up'[i] = up[j]
            \/ \E j \in 1..Len(call.sending) : up'[i] = call.sending[j]
  <2>1. CASE up' = up
    BY <1>4, <2>1
  <2>2. CASE up' = up \o call.sending
    <3>1. /\ up' \in Seq(Frames) /\ Len(up') = Len(up) + Len(call.sending)
          /\ Len(up) \in Nat /\ Len(call.sending) \in Nat
      BY SMT, <1>4, <2>2
    <3>2. \A i \in 1..Len(up') : up'[i] = IF i <= Len(up) THEN up[i] ELSE call.sending[i - Len(up)]
      BY SMT, <1>4, <2>2
    <3>3. \A i \in 1..Len(up') : IF i <= Len(up) THEN i \in 1..Len(up) ELSE i - Len(up) \in 1..Len(call.sending)
      BY SMT, <3>1
    <3> QED
      BY <3>1, <3>2, <3>3
  <2> QED
    BY <1>1, <2>1, <2>2
<1>6. StreamType'
  BY <1>1, <1>3, <1>5 DEF Inv, StreamType, ReqType
<1>7. \A i \in 1..Len(call.sending) : call.sending[i] \in Chunks /\ call.sending[i].kind = "stream"
  <2>1. \A i \in 1..Len(call.sending) : call.sending[i] \in Chunks
    BY SMT DEF Inv, StreamType, CallType
  <2> QED
    BY <2>1, ChunkShape
<1>8. ResponseInv'
  <2>1. \A i \in 1..Len(up') : up'[i].kind = "ack" => \E j \in 1..Len(up) : up[j].kind = "ack"
    BY <1>5, <1>7
  <2>2. ResponseStep
    BY <1>1, <1>3, <2>1 DEF ResponseStep, SameStream, Live
  <2> QED
    BY <1>6, <2>2, ResponseKept
<1>9. \A g : Submitted(g) => Submitted(g)'
  BY <1>3 DEF Submitted
<1>10. (\A i \in 1..Len(up) : up[i].kind = "stream" => up[i] \in Chunks /\ Submitted(up[i]))'
  BY <1>5, <1>7, <1>9 DEF Inv, RequestInv
<1>11. (\A i \in 1..Len(call.sending) : Submitted(call.sending[i]))'
  BY SMT, <1>3
<1>12. (\A g \in Within(inS) : Submitted(g) /\ (g.end => req.ended))'
  BY <1>1, <1>9 DEF Inv, RequestInv
<1>13. RequestInv'
  BY <1>1, <1>3, <1>10, <1>11, <1>12 DEF Inv, RequestInv, Live
<1> QED
  BY <1>6, <1>8, <1>13 DEF Inv

LEMMA CancelKeeps ==
    ASSUME Inv, Cancel
    PROVE  Inv'
<1>1. /\ up' = up /\ down' = down /\ inS' = inS /\ req' = req /\ over' = over
      /\ inC' = [inC EXCEPT !.done = TRUE]
      /\ call' = [call EXCEPT !.canceled = "send", !.ended = TRUE]
  BY DEF Cancel, server
<1>2. /\ CallType' /\ call'.sending = call.sending /\ call'.ended
      /\ call'.submitted = call.submitted /\ call'.sequence = call.sequence
      /\ call'.ready = call.ready /\ call'.canceled = "send"
  BY SMT, <1>1 DEF Inv, StreamType, CallType
<1>3. IsInbound(inC') /\ SameStream(inC, inC') /\ inC'.closed = inC.closed /\ inC'.done
  BY SMT, <1>1 DEF Inv, StreamType, IsInbound, SameStream
<1>4. StreamType'
  BY <1>1, <1>2, <1>3 DEF Inv, StreamType, ReqType
<1>5. RequestStep
  BY <1>1, <1>2 DEF RequestStep, SameStream, Live, Inv, RequestInv
<1>6. ResponseStep
  BY <1>1, <1>2, <1>3 DEF ResponseStep, Live
<1> QED
  BY <1>4, <1>5, <1>6, RequestKept, ResponseKept DEF Inv

LEMMA SendCancelKeeps ==
    ASSUME Inv, SendCancel
    PROVE  Inv'
<1> DEFINE f == [kind |-> "cancel"]
<1>1. /\ up' = Append(up, f) /\ down' = down /\ inS' = inS /\ inC' = inC /\ req' = req /\ over' = over
      /\ call' = [call EXCEPT !.canceled = "await"]
  BY DEF SendCancel, server
<1>2. /\ CallType' /\ call'.sending = call.sending /\ call'.ended = call.ended
      /\ call'.submitted = call.submitted /\ call'.sequence = call.sequence
      /\ call'.ready = call.ready /\ call'.canceled = "await"
  BY SMT, <1>1 DEF Inv, StreamType, CallType
<1>3. f \in Frames /\ f.kind = "cancel"
  BY DEF Frames
<1> HIDE DEF f
<1>a. up \in Seq(Frames) /\ up' = Append(up, f)
  BY <1>1 DEF Inv, StreamType
<1>4. up' \in Seq(Frames) /\ \A i \in 1..Len(up') : up'[i] = f \/ \E j \in 1..Len(up) : up'[i] = up[j]
  BY SMT, <1>a, <1>3, AppendFrom
<1>5. StreamType'
  BY <1>1, <1>2, <1>4 DEF Inv, StreamType, ReqType
<1>6. RequestStep
  BY <1>1, <1>2, <1>3, <1>4 DEF RequestStep, SameStream, Live, Inv, RequestInv
<1>7. ResponseStep
  BY <1>1, <1>2, <1>3, <1>4 DEF ResponseStep, SameStream, Live
<1> QED
  BY <1>5, <1>6, <1>7, RequestKept, ResponseKept DEF Inv

LEMMA ResponseKeeps ==
    ASSUME Inv, Response
    PROVE  Inv'
<1>1. /\ up' = up /\ down' = down /\ inS' = inS /\ inC' = inC /\ req' = req /\ over' = over
      /\ call' = [call EXCEPT !.returned = TRUE]
  BY DEF Response, server
<1>2. /\ CallType' /\ call'.sending = call.sending /\ call'.ended = call.ended
      /\ call'.submitted = call.submitted /\ call'.sequence = call.sequence
      /\ call'.ready = call.ready /\ call'.canceled = call.canceled
  BY SMT, <1>1 DEF Inv, StreamType, CallType
<1>3. StreamType'
  BY <1>1, <1>2 DEF Inv, StreamType, ReqType
<1>4. RequestStep
  BY <1>1, <1>2 DEF RequestStep, SameStream, Live, Inv, RequestInv
<1>5. ResponseStep
  BY <1>1, <1>2 DEF ResponseStep, SameStream, Live
<1> QED
  BY <1>3, <1>4, <1>5, RequestKept, ResponseKept DEF Inv
-----------------------------------------------------------------------------
(***************************************************************************)
(* The client's loops.                                                     *)
(***************************************************************************)
LEMMA ClientOnly ==
    ASSUME Inv, UNCHANGED <<up, down, call, server, over>>,
           IsInbound(inC'), Pipe(inC', FALSE), Within(inC') \subseteq Within(inC),
           inC'.next = inC.next, inC'.done = inC.done, inC'.closed = inC.closed,
           inC.offered = <<>> => inC'.offered = <<>>,
           Live /\ inC'.channel = "closed" /\ ~inC.done => inC.closed /\ Len(inC'.got) = inC.next
    PROVE  Inv'
<1>1. up' = up /\ down' = down /\ call' = call /\ req' = req /\ inS' = inS /\ over' = over
  BY DEF server
<1>2. StreamType'
  BY <1>1 DEF Inv, StreamType, CallType, ReqType
<1>3. RequestInv'
  <2>1. RequestStep
    BY <1>1 DEF RequestStep, SameStream, Live, Inv, RequestInv
  <2> QED
    BY <1>2, <2>1, RequestKept
<1>4. /\ (Live /\ inC.closed => call.ready = "delivered" /\ inC.offered = <<>>)'
      /\ (Live /\ inC.done => call.canceled # "no")'
      /\ (Live /\ inC.channel = "closed" /\ ~inC.done => inC.closed /\ Len(inC.got) = inC.next)'
  BY <1>1 DEF Inv, ResponseInv, Live
<1>a. (\A f \in Within(inC) : Emitted(f))'
  BY DEF Inv, ResponseInv, Emitted
<1>b. (\A i \in 1..Len(down) : down[i].kind = "stream" =>
         down[i] \in Chunks /\ Emitted(down[i]) /\ down[i].sequence = inC.next + i - 1)'
  BY <1>1 DEF Inv, ResponseInv, Emitted
<1>c. (Live => Underway)'
  BY ZenonT(40), <1>1 DEF Inv, ResponseInv, Live, Underway
<1>5. ResponseInv'
  BY <1>4, <1>a, <1>b, <1>c DEF ResponseInv
<1> QED
  BY <1>2, <1>3, <1>5 DEF Inv

LEMMA OfferClientKeeps ==
    ASSUME Inv, OfferClient
    PROVE  Inv'
<1>1. /\ Live /\ inC.offered # <<>> /\ inC' = Offer(inC) /\ IsInbound(inC) /\ Pipe(inC, FALSE)
  BY DEF OfferClient, CanOffer, Inv, StreamType, ResponseInv
<1>2. ~inC.closed
  BY <1>1 DEF Inv, ResponseInv
<1>3. /\ IsInbound(inC') /\ Pipe(inC', FALSE) /\ Within(inC') \subseteq Within(inC)
      /\ inC.offered[1] \in Within(inC) /\ inC'.offered = <<>> /\ inC'.next = inC.next
      /\ inC'.closed = inC.offered[1].end /\ inC'.done = inC.done /\ inC'.channel = inC.channel
      /\ inC'.got = inC.got
  BY <1>1, <1>2, OfferPipe
<1>4. inC'.closed = inC.closed
  <2>1. ~inC.offered[1].end
    BY <1>3 DEF Inv, ResponseInv, Emitted
  <2>2. inC.closed \in BOOLEAN /\ inC'.closed \in BOOLEAN
    BY <1>1, <1>3 DEF IsInbound
  <2> QED
    BY <1>2, <1>3, <2>1, <2>2
<1>5. Live /\ inC'.channel = "closed" /\ ~inC.done => inC.closed /\ Len(inC'.got) = inC.next
  BY <1>1, <1>3 DEF Inv, ResponseInv
<1>6. UNCHANGED <<up, down, call, server, over>>
  BY DEF OfferClient
<1> QED
  BY <1>3, <1>4, <1>5, <1>6, ClientOnly

LEMMA DeliverClientKeeps ==
    ASSUME Inv, DeliverClient
    PROVE  Inv'
<1>1. IsInbound(inC) /\ Pipe(inC, FALSE) /\ UNCHANGED <<up, down, call, server, over>>
  BY DEF DeliverClient, Inv, StreamType, ResponseInv
<1>2. CASE CanTake(inC) /\ inC' = Take(inC)
  <2>1. /\ IsInbound(inC') /\ Pipe(inC', FALSE) /\ Within(inC') \subseteq Within(inC)
        /\ inC'.offered = inC.offered /\ inC'.next = inC.next
        /\ inC'.closed = inC.closed /\ inC'.done = inC.done /\ inC'.channel = inC.channel
    BY <1>1, <1>2, TakePipe
  <2>2. inC'.channel = "open"
    BY <1>2, <2>1 DEF CanTake
  <2> QED
    BY <1>1, <2>1, <2>2, ClientOnly
<1>3. CASE CanFinish(inC) /\ inC' = Finish(inC)
  <2>1. /\ IsInbound(inC') /\ Pipe(inC', FALSE) /\ Within(inC') \subseteq Within(inC)
        /\ inC'.offered = inC.offered /\ inC'.next = inC.next /\ inC'.got = inC.got
        /\ inC'.closed = inC.closed /\ inC'.done = inC.done
    BY <1>1, <1>3, FinishPipe
  <2>2. ASSUME Live, ~inC.done PROVE inC.closed /\ Len(inC'.got) = inC.next
    <3>1. inC.channel = "open" /\ inC.closed /\ inC.buffer = <<>> /\ inC.held = <<>>
      BY <1>3, <2>2 DEF CanFinish
    <3>2. inC.offered = <<>> /\ InOrder(inC)
      BY <1>1, <2>2, <3>1 DEF Inv, ResponseInv, Pipe
    <3>3. inC.next = Len(inC.got)
      BY SMT, <1>1, <3>1, <3>2 DEF InOrder, IsInbound
    <3> QED
      BY <2>1, <3>1, <3>3
  <2> QED
    BY <1>1, <2>1, <2>2, ClientOnly
<1> QED
  BY <1>2, <1>3 DEF DeliverClient

LEMMA ReadChunksKeeps ==
    ASSUME Inv, ReadChunks
    PROVE  Inv'
<1>1. /\ IsInbound(inC) /\ Pipe(inC, FALSE) /\ UNCHANGED <<up, down, call, server, over>>
      /\ inC.channel = "open" /\ inC.held # <<>> /\ inC' = Consume(inC)
  BY DEF ReadChunks, Inv, StreamType, ResponseInv
<1>2. inC.held[1] \in Within(inC)
  BY SMT, <1>1 DEF Within, IsInbound
<1>3. inC.held[1].value = inC.held[1].sequence + 1
  BY <1>2 DEF Inv, ResponseInv, Emitted
<1>4. /\ IsInbound(inC') /\ Pipe(inC', FALSE) /\ Within(inC') \subseteq Within(inC)
      /\ inC'.offered = inC.offered /\ inC'.next = inC.next
      /\ inC'.closed = inC.closed /\ inC'.done = inC.done /\ inC'.channel = inC.channel
  BY <1>1, <1>3, ConsumePipe
<1> QED
  BY <1>1, <1>4, ClientOnly

LEMMA ReceiveChunkKeeps ==
    ASSUME Inv, ReceiveChunk
    PROVE  Inv'
<1> DEFINE f == down[1]
<1>1. /\ Live /\ inC.offered = <<>> /\ down # <<>> /\ Head(down).kind = "stream"
      /\ down \in Seq(Frames) /\ IsInbound(inC) /\ Pipe(inC, FALSE)
  BY DEF ReceiveChunk, Inv, StreamType, ResponseInv
<1>2. /\ Tail(down) \in Seq(Frames) /\ Len(down) = Len(Tail(down)) + 1 /\ Len(Tail(down)) \in Nat
      /\ Head(down) = f /\ 1 \in 1..Len(down)
      /\ \A i \in 1..Len(Tail(down)) : i + 1 \in 1..Len(down) /\ Tail(down)[i] = down[i + 1]
  BY SMT, <1>1, TailFrom
<1>3. CASE End("order")
  BY <1>3, EndKeeps
<1>4. CASE /\ Head(down).sequence = inC.next
           /\ inC' = [inC EXCEPT !.next = @ + 1, !.offered = <<Head(down)>>]
           /\ down' = Tail(down)
           /\ UNCHANGED <<up, call, server, over>>
  <2>1. /\ up' = up /\ call' = call /\ req' = req /\ inS' = inS /\ over' = over /\ down' = Tail(down)
    BY <1>4 DEF server
  <2>2. f \in Chunks /\ Emitted(f) /\ f.sequence = inC.next /\ f.kind = "stream"
    BY <1>1, <1>2, <1>4 DEF Inv, ResponseInv
  <2>3. inC' = Accept(inC, f)
    BY <1>2, <1>4 DEF Accept
  <2>4. /\ IsInbound(inC') /\ Pipe(inC', FALSE) /\ Within(inC') \subseteq Within(inC) \cup {f}
        /\ inC'.next = inC.next + 1 /\ inC'.got = inC.got
        /\ inC'.closed = inC.closed /\ inC'.done = inC.done /\ inC'.channel = inC.channel
    BY <1>1, <2>2, <2>3, AcceptPipe
  <2>5. StreamType'
    <3>1. down' \in Seq(Frames)
      BY <1>2, <2>1
    <3>2. CallType'
      BY <2>1 DEF Inv, StreamType, CallType
    <3>3. ReqType'
      BY <2>1 DEF Inv, StreamType, ReqType
    <3> QED
      BY <2>1, <2>4, <3>1, <3>2, <3>3 DEF Inv, StreamType
  <2>6. RequestInv'
    <3>1. RequestStep
      BY <2>1 DEF RequestStep, SameStream, Live, Inv, RequestInv
    <3> QED
      BY <2>5, <3>1, RequestKept
  <2>7. (\A g \in Within(inC) : Emitted(g))'
    BY <2>2, <2>4 DEF Inv, ResponseInv, Emitted
  <2>8. (\A i \in 1..Len(down) : down[i].kind = "stream" =>
           down[i] \in Chunks /\ Emitted(down[i]) /\ down[i].sequence = inC.next + i - 1)'
    <3> SUFFICES ASSUME NEW i \in 1..Len(Tail(down)), down[i + 1].kind = "stream"
                 PROVE  down[i + 1] \in Chunks /\ Emitted(down[i + 1])
                        /\ down[i + 1].sequence = inC.next + 1 + i - 1
      BY <1>2, <2>1, <2>4 DEF Emitted
    <3>1. /\ down[i + 1] \in Chunks /\ Emitted(down[i + 1])
          /\ down[i + 1].sequence = inC.next + (i + 1) - 1
      BY <1>2 DEF Inv, ResponseInv
    <3>2. inC.next \in Nat
      BY <1>1 DEF IsInbound
    <3> QED
      BY SMT, <3>1, <3>2
  <2>9. call.ready # "delivered" /\ Underway
    BY <1>1 DEF Inv, ResponseInv, Underway
  <2>10. Underway'
    <3>1. ASSUME req.at \in {"handle", "emit", "terminal"}
          PROVE  /\ call.ready = "no" /\ req.emitted = inC.next + Len(down)
                 /\ \A i \in 1..Len(down) : down[i].kind = "stream"
      BY <2>9, <3>1 DEF Underway
    <3>2. req.emitted = inC.next + Len(down) => req.emitted = inC'.next + Len(down')
      BY SMT, <1>1, <1>2, <2>1, <2>4 DEF IsInbound
    <3>3. ASSUME req.at = "await", call.ready = "no"
          PROVE  /\ Len(down') > 0 /\ req.emitted + 1 = inC'.next + Len(down')
                 /\ \A i \in 1..Len(down') : down'[i].kind = IF i = Len(down') THEN "response" ELSE "stream"
      <4>1. /\ Len(down) > 0 /\ req.emitted + 1 = inC.next + Len(down)
            /\ \A i \in 1..Len(down) : down[i].kind = IF i = Len(down) THEN "response" ELSE "stream"
        BY <2>9, <3>3 DEF Underway
      <4>2. Len(down) # 1
        BY <1>2, <2>2, <4>1
      <4>a. inC.next \in Nat /\ req.emitted \in Nat /\ Len(down') = Len(Tail(down)) /\ inC'.next = inC.next + 1
        BY <1>1, <2>1, <2>4 DEF IsInbound, Inv, StreamType, ReqType
      <4>3. Len(down') > 0 /\ req.emitted + 1 = inC'.next + Len(down')
        <5>1. /\ Len(down) = Len(Tail(down)) + 1 /\ Len(Tail(down)) \in Nat
              /\ req.emitted + 1 = inC.next + Len(down)
          BY <1>2, <4>1
        <5>2. /\ req.emitted + 1 = inC.next + (Len(Tail(down)) + 1) /\ Len(Tail(down)) + 1 # 1
          BY <4>2, <5>1
        <5>3. \A a, n, d \in Nat :
                 a + 1 = n + (d + 1) /\ d + 1 # 1 => d > 0 /\ a + 1 = (n + 1) + d
          BY SMT
        <5>4. Len(Tail(down)) > 0 /\ req.emitted + 1 = (inC.next + 1) + Len(Tail(down))
          BY <4>a, <5>1, <5>2, <5>3
        <5> QED
          BY <4>a, <5>4
      <4>4. \A i \in 1..Len(Tail(down)) : (i + 1 = Len(down)) <=> (i = Len(Tail(down)))
        BY SMT, <1>2
      <4> QED
        BY ZenonT(40), <1>2, <2>1, <4>1, <4>3, <4>4
    <3> QED
      BY <1>2, <2>1, <2>9, <3>1, <3>2, <3>3 DEF Underway
  <2>11. ~inC.closed /\ (inC.done => call.canceled # "no") /\ (inC.channel = "closed" => inC.done)
    BY <1>1, <2>9 DEF Inv, ResponseInv
  <2>12. ResponseInv'
    BY <2>1, <2>4, <2>7, <2>8, <2>10, <2>11 DEF ResponseInv
  <2> QED
    BY <2>5, <2>6, <2>12 DEF Inv
<1> QED
  BY <1>3, <1>4 DEF ReceiveChunk

LEMMA ReceiveResponseKeeps ==
    ASSUME Inv, ReceiveResponse
    PROVE  Inv'
<1> DEFINE f == [kind |-> "ack"]
<1>1. /\ Live /\ inC.offered = <<>> /\ down # <<>> /\ Head(down).kind = "response"
      /\ down \in Seq(Frames) /\ up \in Seq(Frames) /\ IsInbound(inC) /\ Pipe(inC, FALSE)
  BY DEF ReceiveResponse, Inv, StreamType, ResponseInv
<1>2. /\ Tail(down) \in Seq(Frames) /\ Len(down) = Len(Tail(down)) + 1 /\ Len(Tail(down)) \in Nat
      /\ Head(down) = down[1] /\ 1 \in 1..Len(down)
  BY ZenonT(40), <1>1, TailFrom
<1>3. /\ down' = Tail(down) /\ up' = Append(up, f)
      /\ req' = req /\ inS' = inS /\ over' = over
      /\ call' = [call EXCEPT !.receiveEnded = TRUE, !.ended = TRUE, !.ready = "delivered"]
      /\ inC' = [inC EXCEPT !.closed = TRUE]
  BY DEF ReceiveResponse, server
<1>4. f \in Frames /\ f.kind = "ack"
  BY DEF Frames
<1> HIDE DEF f
<1>5. up' \in Seq(Frames) /\ \A i \in 1..Len(up') : up'[i] = f \/ \E j \in 1..Len(up) : up'[i] = up[j]
  BY SMT, <1>1, <1>3, <1>4, AppendFrom
<1>6. /\ CallType' /\ call'.sending = call.sending /\ call'.ended
      /\ call'.submitted = call.submitted /\ call'.sequence = call.sequence
      /\ call'.ready = "delivered" /\ call'.canceled = call.canceled
  BY SMT, <1>3 DEF Inv, StreamType, CallType
<1>7. IsInbound(inC') /\ SameStream(inC, inC') /\ inC'.done = inC.done
  <2>1. inC' = [inC EXCEPT !.closed = TRUE] /\ IsInbound(inC)
    BY <1>1, <1>3
  <2> QED
    BY SMT, <2>1 DEF IsInbound, SameStream
<1>8. StreamType'
  BY <1>2, <1>3, <1>5, <1>6, <1>7 DEF Inv, StreamType, ReqType
<1>9. RequestInv'
  <2>1. RequestStep
    BY <1>3, <1>4, <1>5, <1>6 DEF RequestStep, SameStream, Live, Inv, RequestInv
  <2> QED
    BY <1>8, <2>1, RequestKept
<1>10. Underway /\ down[1].kind = "response"
  BY <1>1, <1>2 DEF Inv, ResponseInv
<1>11. call.ready = "no" /\ req.at = "await"
  BY <1>1, <1>2, <1>10 DEF Underway, Inv, StreamType, CallType, ReqType
<1>12. Len(down) = 1 /\ req.emitted + 1 = inC.next + Len(down)
  BY <1>2, <1>10, <1>11 DEF Underway
<1>13. down' = <<>> /\ Len(down') = 0 /\ req.emitted = inC.next
  <2>1. inC.next \in Nat /\ req.emitted \in Nat /\ down' = Tail(down)
    BY <1>1, <1>3 DEF IsInbound, Inv, StreamType, ReqType
  <2> QED
    BY SMT, <1>2, <1>12, <2>1
<1>14. Underway'
  BY <1>3, <1>6, <1>7, <1>11, <1>13 DEF Underway, SameStream
<1>15. Pipe(inC', FALSE) /\ Within(inC') = Within(inC)
  BY <1>1, <1>7, SamePipe
<1>16. \A i \in 1..Len(down') : FALSE
  BY SMT, <1>13
<1>17. (inC.done => call.canceled # "no") /\ (inC.channel = "closed" => inC.done)
  BY <1>1, <1>11 DEF Inv, ResponseInv
<1>18. ResponseInv'
  BY <1>1, <1>6, <1>7, <1>14, <1>15, <1>16, <1>17 DEF Inv, ResponseInv, Emitted, SameStream
<1> QED
  BY <1>8, <1>9, <1>18 DEF Inv
-----------------------------------------------------------------------------
(***************************************************************************)
(* The server's loops.                                                     *)
(***************************************************************************)

\* The read loop takes a frame that it does not pass on.
LEMMA FrameDropped ==
    ASSUME Inv, up # <<>>, up' = Tail(up), UNCHANGED <<down, client, over>>,
           ReqType', IsInbound(inS'), SameStream(inS, inS'),
           req'.endSeen = req.endSeen, req'.emitted = req.emitted, req.ended => req'.ended,
           Live /\ inS'.closed => inS.offered = <<>> /\ req'.ended,
           req'.at = req.at \/ (req'.at = "over" /\ (Live => call.ready = "delivered"))
    PROVE  Inv'
<1>1. down' = down /\ call' = call /\ inC' = inC /\ over' = over
  BY DEF client
<1>2. up \in Seq(Frames)
  BY DEF Inv, StreamType
<1>3. up' \in Seq(Frames) /\ \A i \in 1..Len(up') : \E j \in 1..Len(up) : up'[i] = up[j]
  BY SMT, <1>2, TailFrom
<1>4. StreamType'
  <2>1. CallType'
    BY <1>1 DEF Inv, StreamType, CallType
  <2> QED
    BY <1>1, <1>3, <2>1 DEF Inv, StreamType
<1>5. RequestInv'
  <2>1. RequestStep
    BY <1>1, <1>3 DEF RequestStep, Live
  <2> QED
    BY <1>4, <2>1, RequestKept
<1>6. ResponseInv'
  <2>1. CASE req'.at = req.at
    <3>1. ResponseStep
      BY <1>1, <1>3, <2>1 DEF ResponseStep, SameStream, Live
    <3> QED
      BY <1>4, <3>1, ResponseKept
  <2>2. CASE req'.at = "over" /\ (Live => call.ready = "delivered")
    <3>1. (Live => Underway)'
      BY <1>1, <2>2 DEF Inv, ResponseInv, Underway, Live
    <3>2. /\ (\A g \in Within(inC) : Emitted(g))'
          /\ (\A i \in 1..Len(down) : down[i].kind = "stream" =>
                down[i] \in Chunks /\ Emitted(down[i]) /\ down[i].sequence = inC.next + i - 1)'
      BY <1>1 DEF Inv, ResponseInv, Emitted
    <3> QED
      BY <1>1, <3>1, <3>2 DEF Inv, ResponseInv, Live
  <2> QED
    BY <2>1, <2>2
<1> QED
  BY <1>4, <1>5, <1>6 DEF Inv

LEMMA ShutServer ==
    ASSUME Inv, inS' = Shut(inS)
    PROVE  IsInbound(inS') /\ SameStream(inS, inS')
<1>1. IsInbound(inS) /\ Pipe(inS, req.endSeen) /\ req.endSeen \in BOOLEAN
  BY DEF Inv, StreamType, RequestInv, ReqType
<1> QED
  BY ZenonT(40), <1>1, ShutPipe DEF SameStream

LEMMA ReceiveCancelKeeps ==
    ASSUME Inv, ReceiveCancel
    PROVE  Inv'
<1>1. inS.offered = <<>> /\ up # <<>> /\ up' = Tail(up) /\ UNCHANGED <<down, client, over>>
  BY DEF ReceiveCancel
<1>2. CASE UNCHANGED server
  <2>1. req' = req /\ inS' = inS
    BY <1>2 DEF server
  <2>2. ReqType' /\ IsInbound(inS') /\ SameStream(inS, inS')
    BY <2>1 DEF Inv, StreamType, ReqType, SameStream
  <2> QED
    BY <1>1, <2>1, <2>2, FrameDropped DEF Inv, RequestInv
<1>3. CASE req' = [req EXCEPT !.canceled = TRUE, !.ended = TRUE] /\ inS' = Shut(inS)
  <2>1. ReqType' /\ req'.ended /\ req'.endSeen = req.endSeen /\ req'.emitted = req.emitted /\ req'.at = req.at
    BY SMT, <1>3 DEF Inv, StreamType, ReqType
  <2> QED
    BY <1>1, <1>3, <2>1, ShutServer, FrameDropped
<1> QED
  BY <1>2, <1>3 DEF ReceiveCancel

LEMMA ReceiveAckKeeps ==
    ASSUME Inv, ReceiveAck
    PROVE  Inv'
<1>1. /\ Live /\ inS.offered = <<>> /\ up # <<>> /\ Head(up).kind = "ack"
      /\ up' = Tail(up) /\ UNCHANGED <<down, client, over>> /\ inS' = Shut(inS)
      /\ req' = [req EXCEPT !.at = "over", !.canceled = TRUE, !.ended = TRUE]
  BY DEF ReceiveAck
<1>2. ReqType' /\ req'.ended /\ req'.endSeen = req.endSeen /\ req'.emitted = req.emitted /\ req'.at = "over"
  BY SMT, <1>1 DEF Inv, StreamType, ReqType
<1>3. Head(up) = up[1] /\ 1 \in 1..Len(up)
  BY SMT, <1>1, TailFrom DEF Inv, StreamType
<1>4. call.ready = "delivered"
  BY <1>1, <1>3 DEF Inv, ResponseInv, Underway
<1> QED
  BY <1>1, <1>2, <1>4, ShutServer, FrameDropped

LEMMA ReceiveStreamKeeps ==
    ASSUME Inv, ReceiveStream
    PROVE  Inv'
<1> DEFINE f == up[1]
<1>1. /\ Live /\ inS.offered = <<>> /\ up # <<>> /\ Head(up).kind = "stream"
      /\ up' = Tail(up) /\ UNCHANGED <<down, client, over>>
  BY DEF ReceiveStream
<1>2. up \in Seq(Frames) /\ IsInbound(inS) /\ Pipe(inS, req.endSeen)
  BY DEF Inv, StreamType, RequestInv
<1>3. /\ Head(up) = f /\ 1 \in 1..Len(up) /\ up' \in Seq(Frames)
      /\ \A i \in 1..Len(up') : \E j \in 1..Len(up) : up'[i] = up[j]
  BY SMT, <1>1, <1>2, TailFrom
<1>4. CASE UNCHANGED server
  <2>1. req' = req /\ inS' = inS
    BY <1>4 DEF server
  <2>2. ReqType' /\ IsInbound(inS') /\ SameStream(inS, inS')
    BY <2>1 DEF Inv, StreamType, ReqType, SameStream
  <2> QED
    BY <1>1, <2>1, <2>2, FrameDropped DEF Inv, RequestInv
<1>5. CASE req' = [req EXCEPT !.error = TRUE, !.canceled = TRUE, !.ended = TRUE] /\ inS' = Shut(inS)
  <2>1. ReqType' /\ req'.ended /\ req'.endSeen = req.endSeen /\ req'.emitted = req.emitted /\ req'.at = req.at
    BY SMT, <1>5 DEF Inv, StreamType, ReqType
  <2> QED
    BY <1>1, <1>5, <2>1, ShutServer, FrameDropped
<1>6. CASE /\ ~req.ended /\ Head(up).sequence = inS.next
           /\ req' = [req EXCEPT !.ended = Head(up).end]
           /\ inS' = [inS EXCEPT !.next = @ + 1, !.offered = <<Head(up)>>]
  <2>1. down' = down /\ call' = call /\ inC' = inC /\ over' = over
    BY <1>1 DEF client
  <2>2. f \in Chunks /\ Submitted(f) /\ f.sequence = inS.next
    BY <1>1, <1>3, <1>6 DEF Inv, RequestInv
  <2>3. f.end \in BOOLEAN /\ f.kind = "stream"
    BY <2>2, ChunkShape
  <2>4. inS' = Accept(inS, f) /\ req' = [req EXCEPT !.ended = f.end]
    BY <1>3, <1>6 DEF Accept
  <2>5. ReqType' /\ req'.ended = f.end /\ req'.endSeen = req.endSeen /\ req'.emitted = req.emitted /\ req'.at = req.at
    BY SMT, <2>3, <2>4 DEF Inv, StreamType, ReqType
  <2>6. ~req.endSeen /\ ~inS.closed
    BY <1>1, <1>6 DEF Inv, RequestInv
  <2>7. req.endSeen \in BOOLEAN
    BY DEF Inv, StreamType, ReqType
  <2>8. /\ IsInbound(inS') /\ Pipe(inS', req.endSeen) /\ Within(inS') \subseteq Within(inS) \cup {f}
        /\ inS'.offered = <<f>> /\ inS'.buffer = inS.buffer /\ inS'.held = inS.held /\ inS'.got = inS.got
        /\ inS'.closed = inS.closed
    BY ZenonT(40), <1>1, <1>2, <2>2, <2>4, <2>7, AcceptPipe
  <2>9. StreamType'
    <3>1. CallType'
      BY <2>1 DEF Inv, StreamType, CallType
    <3> QED
      BY <1>3, <2>1, <2>5, <2>8, <3>1 DEF Inv, StreamType
  <2>10. ResponseInv'
    <3>1. ResponseStep
      BY <1>3, <2>1, <2>5 DEF ResponseStep, SameStream, Live
    <3> QED
      BY <2>9, <3>1, ResponseKept
  <2>11. \A g : Submitted(g) => Submitted(g)'
    BY <2>1 DEF Submitted
  <2>12. \A g \in Within(inS) : ~g.end
    BY <1>6 DEF Inv, RequestInv
  <2>13. (\A g \in Within(inS) : Submitted(g) /\ (g.end => req.ended))'
    <3> SUFFICES ASSUME NEW g \in Within(inS') PROVE Submitted(g)' /\ (g.end => req'.ended)
      OBVIOUS
    <3>1. CASE g = f
      BY <2>2, <2>5, <2>11, <3>1
    <3>2. CASE g \in Within(inS)
      BY <2>11, <2>12, <3>2 DEF Inv, RequestInv
    <3> QED
      BY <2>8, <3>1, <3>2
  <2>14. /\ \A i \in 1..Len(inS.held) : inS.held[i] \in Within(inS)
         /\ \A i \in 1..Len(inS.buffer) : inS.buffer[i] \in Within(inS)
    BY DEF Within
  <2>15. /\ (\A i \in 1..Len(inS.held) : inS.held[i].end => inS.buffer = <<>> /\ inS.offered = <<>>)'
         /\ (\A i \in 1..Len(inS.buffer) : inS.buffer[i].end => i = Len(inS.buffer) /\ inS.offered = <<>>)'
    BY <2>8, <2>12, <2>14
  <2>16. (\A i \in 1..Len(up) : up[i].kind = "stream" => up[i] \in Chunks /\ Submitted(up[i]))'
    BY <1>3, <2>11 DEF Inv, RequestInv
  <2>17. /\ (\A i \in 1..Len(call.sending) : Submitted(call.sending[i]))'
         /\ (~call.ended => call.sequence = call.submitted)'
    BY <2>1, <2>11 DEF Inv, RequestInv
  <2>18. RequestInv'
    BY <2>5, <2>6, <2>8, <2>13, <2>15, <2>16, <2>17 DEF RequestInv
  <2> QED
    BY <2>9, <2>10, <2>18 DEF Inv
<1> QED
  BY <1>4, <1>5, <1>6 DEF ReceiveStream

\* A step of the server's stream and of nothing else.
LEMMA ServerOnly ==
    ASSUME Inv, UNCHANGED <<up, down, client, over>>,
           ReqType', req'.at = req.at, req'.emitted = req.emitted, req'.ended = req.ended,
           IsInbound(inS'), Pipe(inS', req'.endSeen), Within(inS') \subseteq Within(inS),
           Live /\ inS'.closed => inS'.offered = <<>> /\ req.ended,
           \A i \in 1..Len(inS'.held) : inS'.held[i].end => inS'.buffer = <<>> /\ inS'.offered = <<>>,
           \A i \in 1..Len(inS'.buffer) : inS'.buffer[i].end => i = Len(inS'.buffer) /\ inS'.offered = <<>>,
           req'.endSeen =>
              /\ Len(inS'.got) = call.submitted /\ call.ended /\ req.ended
              /\ inS'.held = <<>> /\ inS'.buffer = <<>> /\ inS'.offered = <<>>
    PROVE  Inv'
<1>1. up' = up /\ down' = down /\ call' = call /\ inC' = inC /\ over' = over
  BY DEF client
<1>2. CallType'
  BY <1>1 DEF Inv, StreamType, CallType
<1>3. StreamType'
  BY <1>1, <1>2 DEF Inv, StreamType
<1>4. ResponseInv'
  <2>1. ResponseStep
    BY <1>1 DEF ResponseStep, SameStream, Live
  <2> QED
    BY <1>3, <2>1, ResponseKept
<1>5. \A g : Submitted(g) => Submitted(g)'
  BY <1>1 DEF Submitted
<1>6. (\A g \in Within(inS) : Submitted(g) /\ (g.end => req.ended))'
  BY <1>5 DEF Inv, RequestInv
<1>7. /\ (\A i \in 1..Len(up) : up[i].kind = "stream" => up[i] \in Chunks /\ Submitted(up[i]))'
      /\ (\A i \in 1..Len(call.sending) : Submitted(call.sending[i]))'
      /\ (~call.ended => call.sequence = call.submitted)'
  BY <1>1, <1>5 DEF Inv, RequestInv
<1>8. RequestInv'
  BY <1>1, <1>6, <1>7 DEF RequestInv, Live
<1> QED
  BY <1>3, <1>4, <1>8 DEF Inv

LEMMA OfferServerKeeps ==
    ASSUME Inv, OfferServer
    PROVE  Inv'
<1> DEFINE f == inS.offered[1]
<1>1. /\ Live /\ inS.offered # <<>> /\ inS' = Offer(inS) /\ IsInbound(inS) /\ Pipe(inS, req.endSeen)
      /\ req' = req /\ UNCHANGED <<up, down, client, over>>
  BY DEF OfferServer, CanOffer, Inv, StreamType, RequestInv
<1>2. ~inS.closed /\ ~req.endSeen
  BY <1>1 DEF Inv, RequestInv
<1>3. ReqType' /\ req.endSeen \in BOOLEAN
  BY <1>1 DEF Inv, StreamType, ReqType
<1>4. /\ IsInbound(inS') /\ Pipe(inS', req.endSeen) /\ Within(inS') \subseteq Within(inS)
      /\ f \in Within(inS) /\ inS'.offered = <<>> /\ inS'.buffer = Append(inS.buffer, f)
      /\ inS'.held = inS.held /\ inS'.closed = f.end
  BY <1>1, <1>2, <1>3, OfferPipe
<1>5. /\ \A i \in 1..Len(inS.held) : ~inS.held[i].end
      /\ \A i \in 1..Len(inS.buffer) : ~inS.buffer[i].end
  BY <1>1 DEF Inv, RequestInv
<1>6. f \in Chunks /\ inS.buffer \in Seq(Chunks)
  BY <1>1, Single DEF IsInbound, Pipe
<1>7. \A i \in 1..Len(inS'.buffer) :
         i = Len(inS'.buffer) \/ (i \in 1..Len(inS.buffer) /\ inS'.buffer[i] = inS.buffer[i])
  <2>1. /\ Len(inS'.buffer) = Len(inS.buffer) + 1 /\ Len(inS.buffer) \in Nat
        /\ \A i \in 1..Len(inS.buffer) : inS'.buffer[i] = inS.buffer[i]
    BY SMT, <1>4, <1>6
  <2> QED
    BY SMT, <2>1
<1>8. f.end => req.ended
  BY <1>4 DEF Inv, RequestInv
<1> QED
  BY <1>1, <1>2, <1>3, <1>4, <1>5, <1>7, <1>8, ServerOnly

LEMMA DeliverServerKeeps ==
    ASSUME Inv, DeliverServer
    PROVE  Inv'
<1>1. /\ IsInbound(inS) /\ Pipe(inS, req.endSeen) /\ req' = req /\ UNCHANGED <<up, down, client, over>>
  BY DEF DeliverServer, Inv, StreamType, RequestInv
<1>2. ReqType' /\ req.endSeen \in BOOLEAN
  BY <1>1 DEF Inv, StreamType, ReqType
<1>3. CASE CanTake(inS) /\ inS' = Take(inS)
  <2>1. /\ IsInbound(inS') /\ Pipe(inS', req.endSeen) /\ Within(inS') \subseteq Within(inS)
        /\ inS'.held = <<inS.buffer[1]>> /\ inS'.buffer = Tail(inS.buffer)
        /\ inS'.offered = inS.offered /\ inS'.closed = inS.closed
    BY <1>1, <1>2, <1>3, TakePipe
  <2>2. inS.buffer \in Seq(Chunks) /\ inS.buffer # <<>>
    BY <1>1, <1>3 DEF CanTake, IsInbound
  <2>3. ~req.endSeen
    BY <2>2 DEF Inv, RequestInv
  <2>4. /\ Len(inS.buffer) = Len(inS'.buffer) + 1 /\ Len(inS'.buffer) \in Nat /\ 1 \in 1..Len(inS.buffer)
        /\ \A i \in 1..Len(inS'.buffer) : i + 1 \in 1..Len(inS.buffer) /\ inS'.buffer[i] = inS.buffer[i + 1]
        /\ Len(inS'.buffer) = 0 => inS'.buffer = <<>>
    <3>1. inS'.buffer = Tail(inS.buffer)
      BY <2>1
    <3>2. inS'.buffer \in Seq(Chunks)
      BY SMT, <2>2, <3>1
    <3>3. Len(inS'.buffer) = 0 => inS'.buffer = <<>>
      BY SMT, <3>2
    <3> QED
      BY SMT, <2>2, <3>1, <3>3, TailFrom
  <2>5. \A i \in 1..Len(inS.buffer) : inS.buffer[i].end => i = Len(inS.buffer) /\ inS.offered = <<>>
    BY DEF Inv, RequestInv
  <2>6. \A i \in 1..Len(inS'.held) : inS'.held[i].end => inS'.buffer = <<>> /\ inS'.offered = <<>>
    <3>1. \A i \in 1..Len(inS'.held) : inS'.held[i] = inS.buffer[1]
      BY SMT, <2>1
    <3>2. inS.buffer[1].end => 1 = Len(inS.buffer) /\ inS.offered = <<>>
      BY <2>4, <2>5
    <3>3. 1 = Len(inS.buffer) => inS'.buffer = <<>>
      BY SMT, <2>4
    <3> QED
      BY <2>1, <3>1, <3>2, <3>3
  <2>7. \A i \in 1..Len(inS'.buffer) : inS'.buffer[i].end => i = Len(inS'.buffer) /\ inS'.offered = <<>>
    <3>1. \A i \in 1..Len(inS'.buffer) : i + 1 = Len(inS.buffer) => i = Len(inS'.buffer)
      BY SMT, <2>4
    <3> QED
      BY <2>1, <2>4, <2>5, <3>1
  <2>8. Live /\ inS'.closed => inS'.offered = <<>> /\ req.ended
    BY <2>1 DEF Inv, RequestInv
  <2> QED
    BY <1>1, <1>2, <2>1, <2>3, <2>6, <2>7, <2>8, ServerOnly
<1>4. CASE CanFinish(inS) /\ inS' = Finish(inS)
  <2>1. /\ IsInbound(inS') /\ Pipe(inS', req.endSeen) /\ Within(inS') \subseteq Within(inS)
        /\ inS'.held = <<>> /\ inS'.buffer = inS.buffer /\ inS'.offered = inS.offered
        /\ inS'.got = inS.got /\ inS'.closed = inS.closed
    BY <1>1, <1>2, <1>4, FinishPipe
  <2>2. \A i \in 1..Len(inS'.held) : FALSE
    BY SMT, <2>1
  <2>3. /\ Live /\ inS'.closed => inS'.offered = <<>> /\ req.ended
        /\ \A i \in 1..Len(inS'.buffer) : inS'.buffer[i].end => i = Len(inS'.buffer) /\ inS'.offered = <<>>
        /\ req.endSeen =>
              /\ Len(inS'.got) = call.submitted /\ call.ended /\ req.ended
              /\ inS'.held = <<>> /\ inS'.buffer = <<>> /\ inS'.offered = <<>>
    BY <2>1 DEF Inv, RequestInv
  <2> QED
    BY <1>1, <1>2, <2>1, <2>2, <2>3, ServerOnly
<1> QED
  BY <1>3, <1>4 DEF DeliverServer

LEMMA HandlerReadsKeeps ==
    ASSUME Inv, HandlerReads
    PROVE  Inv'
<1> DEFINE f == inS.held[1]
<1>1. /\ IsInbound(inS) /\ Pipe(inS, req.endSeen) /\ UNCHANGED <<up, down, client, over>>
      /\ inS.channel = "open" /\ inS.held # <<>>
  BY DEF HandlerReads, Inv, StreamType, RequestInv
<1>2. ~req.endSeen /\ req.endSeen \in BOOLEAN
  BY <1>1 DEF Inv, RequestInv, StreamType, ReqType
<1>3. Head(inS.held) = f /\ 1 \in 1..Len(inS.held) /\ f \in Within(inS)
  BY SMT, <1>1 DEF Within, IsInbound
<1>4. Submitted(f) /\ Pipe(inS, FALSE)
  BY <1>1, <1>2, <1>3 DEF Inv, RequestInv
<1>5. CASE f.end /\ inS' = [inS EXCEPT !.held = <<>>] /\ req' = [req EXCEPT !.endSeen = TRUE]
  <2>1. /\ ReqType' /\ req'.at = req.at /\ req'.emitted = req.emitted /\ req'.ended = req.ended /\ req'.endSeen
    BY SMT, <1>5 DEF Inv, StreamType, ReqType
  <2>2. <<>> \in Seq(Chunks) /\ Len(<<>>) = 0
    BY EmptySeq
  <2>3. /\ IsInbound(inS') /\ inS'.held = <<>> /\ inS'.buffer = inS.buffer /\ inS'.offered = inS.offered
        /\ inS'.got = inS.got /\ inS'.closed = inS.closed
    BY SMT, <1>1, <1>5, <2>2 DEF IsInbound
  <2>4. Len(inS'.held) <= 1 /\ Len(inS'.offered) <= 1 /\ \A i \in 1..Len(inS'.held) : FALSE
    BY SMT, <1>1, <2>2, <2>3 DEF Pipe
  <2>5. Pipe(inS', req'.endSeen)
    BY <1>1, <2>1, <2>3, <2>4 DEF Pipe
  <2>6. Within(inS') \subseteq Within(inS)
    BY <2>3, <2>4 DEF Within
  <2>7. inS.buffer = <<>> /\ inS.offered = <<>> /\ req.ended /\ f.sequence = call.submitted /\ call.ended
    BY <1>3, <1>4, <1>5 DEF Inv, RequestInv, Submitted
  <2>8. f.sequence = Len(inS.got)
    BY SMT, <1>1, <1>3, <1>4 DEF Pipe, InOrder, Ordered, IsInbound
  <2>9. \A i \in 1..Len(inS'.buffer) : inS'.buffer[i].end => i = Len(inS'.buffer) /\ inS'.offered = <<>>
    BY <2>3 DEF Inv, RequestInv
  <2> QED
    BY <1>1, <2>1, <2>3, <2>4, <2>5, <2>6, <2>7, <2>8, <2>9, ServerOnly
<1>6. CASE ~f.end /\ inS' = Consume(inS) /\ req' = req
  <2>1. ReqType'
    BY <1>6 DEF Inv, StreamType, ReqType
  <2>2. f.value = f.sequence + 1
    BY <1>4, <1>6 DEF Submitted
  <2>3. /\ IsInbound(inS') /\ Pipe(inS', FALSE) /\ Within(inS') \subseteq Within(inS)
        /\ inS'.held = <<>> /\ inS'.buffer = inS.buffer
        /\ inS'.offered = inS.offered /\ inS'.closed = inS.closed
    BY <1>1, <1>4, <1>6, <2>2, ConsumePipe
  <2>4. \A i \in 1..Len(inS'.held) : FALSE
    BY SMT, <2>3
  <2>5. /\ Live /\ inS'.closed => inS'.offered = <<>> /\ req.ended
        /\ \A i \in 1..Len(inS'.buffer) : inS'.buffer[i].end => i = Len(inS'.buffer) /\ inS'.offered = <<>>
    BY <2>3 DEF Inv, RequestInv
  <2>6. Pipe(inS', req'.endSeen) /\ ~req'.endSeen
    BY <1>2, <1>6, <2>3
  <2> QED
    BY <1>1, <1>6, <2>1, <2>3, <2>4, <2>5, <2>6, ServerOnly
<1> QED
  BY <1>3, <1>5, <1>6 DEF HandlerReads

\* The handler's result becomes the next thing to send.
LEMMA TurnKeeps ==
    ASSUME Inv, UNCHANGED <<up, down, client, inS, over>>, req.at \in Early, NEW at \in Early,
           \/ req' = [req EXCEPT !.at = at]
           \/ req' = [req EXCEPT !.at = at, !.complete = TRUE]
    PROVE  Inv'
<1>1. /\ ReqType' /\ req'.at \in Early /\ req'.emitted = req.emitted
      /\ req'.ended = req.ended /\ req'.endSeen = req.endSeen
  <2>1. CASE req' = [req EXCEPT !.at = at]
    BY SMT, <2>1 DEF Inv, StreamType, ReqType, Early
  <2>2. CASE req' = [req EXCEPT !.at = at, !.complete = TRUE]
    BY SMT, <2>2 DEF Inv, StreamType, ReqType, Early
  <2> QED
    BY <2>1, <2>2
<1>2. up' = up /\ down' = down /\ call' = call /\ inC' = inC /\ inS' = inS /\ over' = over
  BY DEF client
<1>3. CallType'
  BY <1>2 DEF Inv, StreamType, CallType
<1>4. StreamType'
  BY <1>1, <1>2, <1>3 DEF Inv, StreamType
<1>5. RequestStep
  BY <1>1, <1>2 DEF RequestStep, SameStream, Live, Inv, RequestInv
<1>6. ResponseStep
  BY <1>1, <1>2 DEF ResponseStep, SameStream, Live
<1> QED
  BY <1>4, <1>5, <1>6, RequestKept, ResponseKept DEF Inv

LEMMA HandlerReturnsKeeps ==
    ASSUME Inv, HandlerReturns
    PROVE  Inv'
<1>1. /\ UNCHANGED <<up, down, client, inS, over>> /\ req.at \in Early
      /\ req' = [req EXCEPT !.at = "emit"] \/ req' = [req EXCEPT !.at = "terminal"]
  BY DEF HandlerReturns, Early
<1>2. "emit" \in Early /\ "terminal" \in Early
  BY DEF Early
<1> QED
  BY <1>1, <1>2, TurnKeeps

\* The server queues a frame for the client.
LEMMA QueueType ==
    ASSUME Inv, NEW f \in Frames, down' = Append(down, f), UNCHANGED <<up, client, inS, over>>,
           ReqType', req'.ended = req.ended, req'.endSeen = req.endSeen
    PROVE  /\ StreamType' /\ RequestInv'
           /\ up' = up /\ call' = call /\ inC' = inC /\ over' = over
           /\ down \in Seq(Frames) /\ Len(down') = Len(down) + 1 /\ Len(down) \in Nat
           /\ down'[Len(down) + 1] = f /\ \A i \in 1..Len(down) : down'[i] = down[i]
           /\ \A i \in 1..Len(down') : i = Len(down) + 1 \/ i \in 1..Len(down)
<1>1. up' = up /\ call' = call /\ inC' = inC /\ inS' = inS /\ over' = over /\ down \in Seq(Frames)
  BY DEF client, Inv, StreamType
<1>2. /\ down' \in Seq(Frames) /\ Len(down') = Len(down) + 1 /\ Len(down) \in Nat
      /\ down'[Len(down) + 1] = f /\ \A i \in 1..Len(down) : down'[i] = down[i]
      /\ \A i \in 1..Len(down') : i = Len(down) + 1 \/ i \in 1..Len(down)
  BY SMT, <1>1
<1>3. CallType'
  BY <1>1 DEF Inv, StreamType, CallType
<1>4. StreamType'
  BY <1>1, <1>2, <1>3 DEF Inv, StreamType
<1>5. RequestStep
  BY <1>1 DEF RequestStep, SameStream, Live, Inv, RequestInv
<1> QED
  BY <1>1, <1>2, <1>4, <1>5, RequestKept

LEMMA EmitKeeps ==
    ASSUME Inv, Emit
    PROVE  Inv'
<1>1. Live /\ req.at \in Early /\ "terminal" \in Early
  BY DEF Emit, Early
<1>2. CASE End("request") \/ End("exhausted")
  BY <1>2, EndKeeps
<1>3. CASE /\ UNCHANGED <<up, down, client, inS, over>>
           /\ \/ req' = [req EXCEPT !.at = "terminal"]
              \/ req' = [req EXCEPT !.at = "terminal", !.complete = TRUE]
  BY <1>1, <1>3, TurnKeeps
<1>4. CASE /\ down' = Append(down, Chunk(req.emitted, req.emitted + 1, FALSE))
           /\ req' = [req EXCEPT !.emitted = @ + 1]
           /\ UNCHANGED <<up, client, inS, over>>
  <2> DEFINE f == Chunk(req.emitted, req.emitted + 1, FALSE)
  <2>1. f \in Chunks /\ f.sequence = req.emitted /\ f.value = f.sequence + 1 /\ f.end = FALSE
    BY SMT DEF Inv, StreamType, ReqType, Chunks, Chunk
  <2>2. /\ ReqType' /\ req'.ended = req.ended /\ req'.endSeen = req.endSeen /\ req'.at = req.at
        /\ req'.emitted = req.emitted + 1
    BY SMT, <1>4 DEF Inv, StreamType, ReqType
  <2>3. f \in Frames /\ f.kind = "stream"
    BY <2>1, ChunkShape DEF Frames
  <2> HIDE DEF f
  <2>4. down' = Append(down, f) /\ UNCHANGED <<up, client, inS, over>>
    BY <1>4 DEF f
  <2>5. /\ StreamType' /\ RequestInv'
        /\ up' = up /\ call' = call /\ inC' = inC /\ over' = over
        /\ Len(down') = Len(down) + 1 /\ Len(down) \in Nat
        /\ down'[Len(down) + 1] = f /\ \A i \in 1..Len(down) : down'[i] = down[i]
        /\ \A i \in 1..Len(down') : i = Len(down) + 1 \/ i \in 1..Len(down)
    BY <2>2, <2>3, <2>4, QueueType
  <2>6. /\ call.ready = "no" /\ req.emitted = inC.next + Len(down)
        /\ \A i \in 1..Len(down) : down[i].kind = "stream"
        /\ \A i \in 1..Len(up) : up[i].kind = "ack" => call.ready = "delivered"
    BY <1>1 DEF Inv, ResponseInv, Underway, Early
  <2>7. f.sequence = inC.next + (Len(down) + 1) - 1 /\ req'.emitted = inC'.next + Len(down')
    <3>1. inC.next \in Nat /\ inC'.next = inC.next
      BY <2>5 DEF Inv, StreamType, IsInbound
    <3>2. \A e, n, d \in Nat : e = n + d => e = n + (d + 1) - 1 /\ e + 1 = n + (d + 1)
      BY SMT
    <3>3. req.emitted \in Nat
      BY DEF Inv, StreamType, ReqType
    <3>4. Len(down) \in Nat /\ req.emitted = inC.next + Len(down)
      BY <2>5, <2>6
    <3>5. /\ req.emitted = inC.next + (Len(down) + 1) - 1
          /\ req.emitted + 1 = inC.next + (Len(down) + 1)
      BY <3>1, <3>2, <3>3, <3>4
    <3> QED
      BY <2>1, <2>2, <2>5, <3>1, <3>5
  <2>8. (\A i \in 1..Len(down) : down[i].kind = "stream" =>
           down[i] \in Chunks /\ Emitted(down[i]) /\ down[i].sequence = inC.next + i - 1)'
    <3> SUFFICES ASSUME NEW i \in 1..Len(down')
                 PROVE  down'[i] \in Chunks /\ ~down'[i].end /\ down'[i].value = down'[i].sequence + 1
                        /\ down'[i].sequence = inC.next + i - 1
      BY <2>5 DEF Emitted
    <3>1. CASE i = Len(down) + 1
      BY <2>1, <2>5, <2>7, <3>1
    <3>2. CASE i \in 1..Len(down)
      <4>1. down[i] \in Chunks /\ Emitted(down[i]) /\ down[i].sequence = inC.next + i - 1
        BY <2>6, <3>2 DEF Inv, ResponseInv
      <4> QED
        BY <2>5, <3>2, <4>1 DEF Emitted
    <3> QED
      BY <2>5, <3>1, <3>2
  <2>9. \A i \in 1..Len(down') : down'[i].kind = "stream"
    BY <2>3, <2>5, <2>6
  <2>10. Underway'
    BY <1>1, <2>2, <2>5, <2>6, <2>7, <2>9 DEF Underway, Early
  <2>11. (\A g \in Within(inC) : Emitted(g))'
    BY <2>5 DEF Inv, ResponseInv, Emitted
  <2>12. ResponseInv'
    BY <1>1, <2>5, <2>8, <2>10, <2>11 DEF Inv, ResponseInv
  <2> QED
    BY <2>5, <2>12 DEF Inv
<1> QED
  BY <1>2, <1>3, <1>4 DEF Emit

LEMMA SendTerminalKeeps ==
    ASSUME Inv, SendTerminal
    PROVE  Inv'
<1> DEFINE f == [kind |-> "response"]
<1>1. /\ Live /\ req.at = "terminal" /\ down' = Append(down, f)
      /\ req' = [req EXCEPT !.at = "await"] /\ UNCHANGED <<up, client, inS, over>>
  BY DEF SendTerminal
<1>2. f \in Frames /\ f.kind = "response"
  BY DEF Frames
<1> HIDE DEF f
<1>3. /\ ReqType' /\ req'.ended = req.ended /\ req'.endSeen = req.endSeen /\ req'.at = "await"
      /\ req'.emitted = req.emitted
  BY SMT, <1>1 DEF Inv, StreamType, ReqType
<1>4. /\ StreamType' /\ RequestInv'
      /\ up' = up /\ call' = call /\ inC' = inC /\ over' = over
      /\ Len(down') = Len(down) + 1 /\ Len(down) \in Nat
      /\ down'[Len(down) + 1] = f /\ \A i \in 1..Len(down) : down'[i] = down[i]
      /\ \A i \in 1..Len(down') : i = Len(down) + 1 \/ i \in 1..Len(down)
  BY <1>1, <1>2, <1>3, QueueType
<1>5. /\ call.ready = "no" /\ req.emitted = inC.next + Len(down)
      /\ \A i \in 1..Len(down) : down[i].kind = "stream"
      /\ \A i \in 1..Len(up) : up[i].kind = "ack" => call.ready = "delivered"
  BY <1>1 DEF Inv, ResponseInv, Underway
<1>6. Len(down') > 0 /\ req'.emitted + 1 = inC'.next + Len(down')
  <2>1. inC.next \in Nat /\ inC'.next = inC.next /\ req.emitted \in Nat
    BY <1>4 DEF Inv, StreamType, IsInbound, ReqType
  <2>2. \A e, n, d \in Nat : e = n + d => d + 1 > 0 /\ e + 1 = n + (d + 1)
    BY SMT
  <2>3. Len(down) \in Nat /\ req.emitted = inC.next + Len(down)
    BY <1>4, <1>5
  <2>4. Len(down) + 1 > 0 /\ req.emitted + 1 = inC.next + (Len(down) + 1)
    BY <2>1, <2>2, <2>3
  <2> QED
    BY <1>3, <1>4, <2>1, <2>4
<1>7. \A i \in 1..Len(down) : i # Len(down')
  BY SMT, <1>4
<1>8. \A i \in 1..Len(down') : down'[i].kind = IF i = Len(down') THEN "response" ELSE "stream"
  BY <1>2, <1>4, <1>5, <1>7
<1>9. Underway'
  BY <1>3, <1>4, <1>5, <1>6, <1>8 DEF Underway
<1>10. (\A i \in 1..Len(down) : down[i].kind = "stream" =>
          down[i] \in Chunks /\ Emitted(down[i]) /\ down[i].sequence = inC.next + i - 1)'
  BY <1>2, <1>4 DEF Inv, ResponseInv, Emitted
<1>11. (\A g \in Within(inC) : Emitted(g))'
  BY <1>4 DEF Inv, ResponseInv, Emitted
<1>12. ResponseInv'
  BY <1>1, <1>4, <1>9, <1>10, <1>11 DEF Inv, ResponseInv
<1> QED
  BY <1>4, <1>12 DEF Inv
-----------------------------------------------------------------------------
(***************************************************************************)
(* The theorems.                                                           *)
(***************************************************************************)
LEMMA InitHolds ==
    ASSUME Init
    PROVE  Inv
<1>1. /\ <<>> \in Seq(Chunks) /\ <<>> \in Seq(Nat) /\ <<>> \in Seq(Frames) /\ Len(<<>>) = 0
      /\ \A i \in 1..Len(<<>>) : FALSE
  <2>1. <<>> \in Seq(Chunks) /\ <<>> \in Seq(Nat) /\ <<>> \in Seq(Frames) /\ Len(<<>>) = 0
    BY EmptySeq
  <2> QED
    BY SMT, <2>1
<1>2. /\ IsInbound(Inbound) /\ Inbound.held = <<>> /\ Inbound.buffer = <<>> /\ Inbound.offered = <<>>
      /\ Inbound.got = <<>> /\ Inbound.next = 0 /\ Inbound.closed = FALSE /\ Inbound.done = FALSE
      /\ Inbound.channel = "open"
  BY SMT, <1>1 DEF IsInbound, Inbound
<1>3. /\ inC = Inbound /\ inS = Inbound /\ up = <<>> /\ down = <<>>
  BY DEF Init
<1>4. /\ CallType /\ call.sequence = 0 /\ call.submitted = 0 /\ call.sending = <<>>
      /\ call.ended = FALSE /\ call.ready = "no"
  BY SMT, <1>1 DEF Init, CallType
<1>5. /\ ReqType /\ req.at = "handle" /\ req.emitted = 0 /\ req.endSeen = FALSE
  BY SMT DEF Init, ReqType
<1>6. StreamType
  BY <1>1, <1>2, <1>3, <1>4, <1>5 DEF StreamType
<1>7. Pipe(Inbound, FALSE) /\ Within(Inbound) = {}
  <2>1. InOrder(Inbound)
    BY SMT, <1>1, <1>2, OrderedEmpty DEF InOrder
  <2>2. Len(Inbound.held) <= 1 /\ Len(Inbound.offered) <= 1
    BY SMT, <1>1, <1>2
  <2> QED
    BY <1>1, <1>2, <2>1, <2>2 DEF Pipe, Within
<1>8. RequestInv
  BY <1>1, <1>2, <1>3, <1>4, <1>5, <1>7 DEF RequestInv
<1>9. req.emitted = inC.next + Len(down)
  BY SMT, <1>1, <1>2, <1>3, <1>5
<1>10. ResponseInv
  BY <1>1, <1>2, <1>3, <1>4, <1>5, <1>7, <1>9 DEF ResponseInv, Underway
<1> QED
  BY <1>6, <1>8, <1>10 DEF Inv

LEMMA NextKeeps ==
    ASSUME Inv, [Next]_vars
    PROVE  Inv'
<1>1. CASE Caller \/ ClientLoops
  BY <1>1, SendChunkKeeps, CloseSendKeeps, SendFrameKeeps, CancelKeeps, ReadChunksKeeps, SendCancelKeeps,
     ResponseKeeps, ReceiveChunkKeeps, ReceiveResponseKeeps, OfferClientKeeps, DeliverClientKeeps
     DEF Caller, ClientLoops
<1>2. CASE ServerLoops \/ Handler
  BY <1>2, ReceiveStreamKeeps, ReceiveCancelKeeps, ReceiveAckKeeps, OfferServerKeeps, DeliverServerKeeps,
     HandlerReadsKeeps, HandlerReturnsKeeps, EmitKeeps, SendTerminalKeeps
     DEF ServerLoops, Handler
<1>3. CASE Timers
  <2>1. CASE SettlementExpires
    <3>1. End("settlement after terminal") \/ End("settlement")
      BY <2>1 DEF SettlementExpires
    <3> QED
      BY <3>1, EndKeeps
  <2>2. CASE AckExpires
    BY <2>2, EndKeeps DEF AckExpires
  <2> QED
    BY <1>3, <2>1, <2>2 DEF Timers
<1>4. CASE UNCHANGED vars
  <2>1. /\ up' = up /\ down' = down /\ call' = call /\ req' = req /\ inC' = inC /\ inS' = inS /\ over' = over
    BY <1>4 DEF vars
  <2>2. ReqType'
    BY <2>1 DEF Inv, StreamType, ReqType
  <2>a. CallType'
    BY <2>1 DEF Inv, StreamType, CallType
  <2>3. StreamType'
    BY <2>1, <2>2, <2>a DEF Inv, StreamType
  <2>4. RequestStep /\ ResponseStep
    BY <2>1 DEF RequestStep, ResponseStep, SameStream, Live, Inv, RequestInv
  <2> QED
    BY <2>3, <2>4, RequestKept, ResponseKept DEF Inv
<1> QED
  BY <1>1, <1>2, <1>3, <1>4 DEF Next

\* For bodies of any length, any capacity, window and last sequence number: the
\* chunks in hand, buffered, offered and on the way carry consecutive numbers
\* behind what the consumer has read, on both sides of the call.
THEOREM StreamInvariant == Spec => []Inv
<1>1. Init => Inv
  BY InitHolds
<1>2. Inv /\ [Next]_vars => Inv'
  BY NextKeeps
<1> QED
  BY <1>1, <1>2, PTL DEF Spec

\* boundedStream, the delivery goroutines and the sequence checks: what the
\* handler and the caller read is a prefix of what was submitted and emitted,
\* nothing missing and nothing twice; a handler that saw the end read it all, and
\* so did a caller whose answered, uncancelled call closed its channel.
THEOREM BodiesAreWhole == Spec => []BodiesWhole
<1>1. ASSUME Inv PROVE BodiesWhole
  <2>1. ASSUME NEW s \in Seq(Nat), \A i \in 1..Len(s) : s[i] = i
        PROVE  s = Upto(Len(s))
    BY SMT, <2>1 DEF Upto
  <2>2. /\ inS.got \in Seq(Nat) /\ \A i \in 1..Len(inS.got) : inS.got[i] = i
        /\ inC.got \in Seq(Nat) /\ \A i \in 1..Len(inC.got) : inC.got[i] = i
    BY <1>1 DEF Inv, StreamType, IsInbound, RequestInv, ResponseInv, Pipe
  <2>3. RequestWhole
    BY <1>1, <2>1, <2>2 DEF RequestWhole, Inv, RequestInv
  <2>4. ASSUME inC.channel = "closed", call.ready = "delivered", call.canceled = "no", Live
        PROVE  Len(inC.got) = req.emitted
    BY <1>1, <2>4 DEF Inv, ResponseInv, Underway
  <2>5. ResponseWhole
    BY <2>1, <2>2, <2>4 DEF ResponseWhole
  <2> QED
    BY <2>3, <2>5 DEF BodiesWhole
<1> QED
  BY <1>1, StreamInvariant, PTL
=============================================================================
