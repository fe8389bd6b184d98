------------------------------- MODULE Stream -------------------------------
(***************************************************************************)
(* The streamed bodies of one call of internal/wire: the client sends      *)
(* request chunks and reads response chunks (client.go, ClientCall), the   *)
(* server feeds the handler and emits what it returns (session.go,         *)
(* requestState and sendValue).  Each end has one read loop, which waits   *)
(* in boundedStream.offer while the consumer is behind (stream.go), one    *)
(* delivery goroutine, and a bounded way to the peer.  A chunk is the      *)
(* number of the payload it carries.  Opening, terminal outcomes and the   *)
(* closing of the session are the module Session.                          *)
(***************************************************************************)
EXTENDS Naturals, Sequences

CONSTANTS
    MaxIn, MaxOut,    \* payloads the caller submits, the handler emits
    Capacity,         \* of a bounded stream: the session's concurrency
    Window,           \* frames in the outbound queue and the socket
    MaxSequence,      \* the last sequence number: math.MaxUint32
    Faults            \* subset of {"send", "enqueue"}: see SendFrame and Emit

ASSUME StreamAssumption ==
    /\ MaxIn \in Nat /\ MaxOut \in Nat
    /\ Capacity \in Nat \ {0} /\ Window \in Nat \ {0} /\ MaxSequence \in Nat
    /\ Faults \subseteq {"send", "enqueue"}

VARIABLES
    up, down,    \* frames on their way to the server, to the client
    call,        \* the client's ClientCall
    req,         \* the server's requestState
    inC, inS,    \* the inbound bounded streams and their delivery goroutines
    over         \* why the session ended, "no" while it lives

vars == <<up, down, call, req, inC, inS, over>>
client == <<call, inC>>
server == <<req, inS>>

\* A bounded stream, the goroutine that empties it and the channel that
\* goroutine feeds.  offered is the chunk the read loop waits with.
Inbound == [buffer |-> <<>>, closed |-> FALSE, done |-> FALSE, held |-> <<>>,
            channel |-> "open", offered |-> <<>>, next |-> 0, got |-> <<>>]

Init ==
    /\ up = <<>> /\ down = <<>> /\ over = "no"
    /\ call = [sequence |-> 0, submitted |-> 0, sending |-> <<>>, ended |-> FALSE, canceled |-> "no",
               receiveEnded |-> FALSE, ready |-> "no", returned |-> FALSE]
    /\ req = [at |-> "handle", ended |-> FALSE, error |-> FALSE, canceled |-> FALSE,
              emitted |-> 0, complete |-> FALSE, endSeen |-> FALSE]
    /\ inC = Inbound
    /\ inS = Inbound

Chunk(sequence, value, end) == [kind |-> "stream", sequence |-> sequence, value |-> value, end |-> end]
Live == over = "no"

\* streamSequence.take: the numbers run out after the last, they never wrap.
Exhausted(sequence) == sequence > MaxSequence
-----------------------------------------------------------------------------
\* boundedStream.offer, with the chunk the read loop holds: it waits for room
\* and gives up when the stream closes.  The chunk that ends the input closes
\* the stream behind it.
Offer(in) ==
    LET chunk == Head(in.offered) IN
    IF in.closed THEN [in EXCEPT !.offered = <<>>]
    ELSE [in EXCEPT !.offered = <<>>, !.buffer = Append(@, chunk), !.closed = chunk.end]
CanOffer(in) == in.offered # <<>> /\ (in.closed \/ Len(in.buffer) < Capacity)

\* deliverChunks and deliverRequestChunks: one chunk in hand; the channel closes
\* when the stream is closed and empty, when delivery is done, or with the session.
CanTake(in) == in.channel = "open" /\ in.held = <<>> /\ in.buffer # <<>>
Take(in) == [in EXCEPT !.held = <<Head(in.buffer)>>, !.buffer = Tail(@)]
CanFinish(in) ==
    /\ in.channel = "open"
    /\ in.done \/ ~Live \/ (in.closed /\ in.buffer = <<>> /\ in.held = <<>>)
Finish(in) == [in EXCEPT !.channel = "closed", !.held = <<>>]
Consume(in) == [in EXCEPT !.held = <<>>, !.got = Append(@, Head(in.held).value)]

\* requestState.close and ClientCall.stopDelivery with inbound.close.
Shut(in) == [in EXCEPT !.closed = TRUE, !.done = TRUE]

\* The session ends: both ends shut their streams, and a call without its
\* terminal fails.
End(why) ==
    /\ over' = why
    /\ call' = [call EXCEPT !.ready = IF @ = "no" THEN "failed" ELSE @, !.receiveEnded = TRUE]
    /\ inC' = IF call.ready = "no" THEN Shut(inC) ELSE inC
    /\ inS' = Shut(inS)
    /\ req' = [req EXCEPT !.at = "over", !.canceled = TRUE]
    /\ up' = <<>> /\ down' = <<>>
-----------------------------------------------------------------------------
\* The caller.  SendChunk and CloseSend hold sendMu: they take a sequence
\* number, and then send whatever has become of the call.  A send that ends with
\* its context before the frame is queued has spent the number.
CanSend ==
    /\ Live /\ call.ready = "no" /\ call.canceled = "no" /\ ~call.ended
    /\ call.sending = <<>> /\ ~Exhausted(call.sequence)

SendChunk ==
    /\ CanSend /\ call.submitted < MaxIn
    /\ call' = [call EXCEPT !.sequence = @ + 1, !.submitted = @ + 1,
                            !.sending = <<Chunk(call.sequence, call.submitted + 1, FALSE)>>]
    /\ UNCHANGED <<up, down, server, inC, over>>

CloseSend ==
    /\ CanSend
    /\ call' = [call EXCEPT !.sequence = @ + 1, !.ended = TRUE,
                            !.sending = <<Chunk(call.sequence, 0, TRUE)>>]
    /\ UNCHANGED <<up, down, server, inC, over>>

SendFrame ==
    /\ Live /\ call.sending # <<>>
    /\ \/ Len(up) < Window /\ up' = up \o call.sending
       \/ "send" \in Faults /\ UNCHANGED up
    /\ call' = [call EXCEPT !.sending = <<>>]
    /\ UNCHANGED <<down, server, inC, over>>

\* The caller, or the end of the call's context, cancels once: delivery stops,
\* and a goroutine sends the frame.
Cancel ==
    /\ Live /\ call.canceled = "no" /\ call.ready = "no"
    /\ call' = [call EXCEPT !.canceled = "send", !.ended = TRUE]
    /\ inC' = [inC EXCEPT !.done = TRUE]
    /\ UNCHANGED <<up, down, server, over>>

SendCancel ==
    /\ Live /\ call.canceled = "send" /\ Len(up) < Window
    /\ up' = Append(up, [kind |-> "cancel"])
    /\ call' = [call EXCEPT !.canceled = "await"]
    /\ UNCHANGED <<down, server, inC, over>>

Response ==
    /\ call.ready # "no" /\ ~call.returned
    /\ call' = [call EXCEPT !.returned = TRUE]
    /\ UNCHANGED <<up, down, server, inC, over>>

\* Mutant: the terminal stops the delivery of chunks still buffered.
ReceiveResponseStops ==
    /\ Live /\ inC.offered = <<>> /\ down # <<>> /\ Head(down).kind = "response"
    /\ Len(up) < Window
    /\ up' = Append(up, [kind |-> "ack"])
    /\ down' = Tail(down)
    /\ call' = [call EXCEPT !.receiveEnded = TRUE, !.ended = TRUE, !.ready = "delivered"]
    /\ inC' = Shut(inC)
    /\ UNCHANGED <<server, over>>

\* The client's read loop.
ReceiveChunk ==
    /\ Live /\ inC.offered = <<>> /\ down # <<>> /\ Head(down).kind = "stream"
    /\ IF call.receiveEnded \/ Head(down).sequence # inC.next
       THEN End("order")
       ELSE /\ inC' = [inC EXCEPT !.next = @ + 1, !.offered = <<Head(down)>>]
            /\ down' = Tail(down)
            /\ UNCHANGED <<up, call, server, over>>

ReceiveResponse ==
    /\ Live /\ inC.offered = <<>> /\ down # <<>> /\ Head(down).kind = "response"
    /\ Len(up) < Window
    /\ up' = Append(up, [kind |-> "ack"])
    /\ down' = Tail(down)
    /\ call' = [call EXCEPT !.receiveEnded = TRUE, !.ended = TRUE, !.ready = "delivered"]
    /\ inC' = [inC EXCEPT !.closed = TRUE]
    /\ UNCHANGED <<server, over>>

OfferClient == Live /\ CanOffer(inC) /\ inC' = Offer(inC) /\ UNCHANGED <<up, down, call, server, over>>

DeliverClient ==
    /\ \/ CanTake(inC) /\ inC' = Take(inC)
       \/ CanFinish(inC) /\ inC' = Finish(inC)
    /\ UNCHANGED <<up, down, call, server, over>>

ReadChunks ==
    /\ inC.channel = "open" /\ inC.held # <<>>
    /\ inC' = Consume(inC)
    /\ UNCHANGED <<up, down, call, server, over>>

\* The settlement timer of a cancelled call.  The peer answers well within it,
\* so it fires only when the client's read loop cannot move.
Wedged == inC.offered # <<>> /\ ~CanOffer(inC) /\ inC.channel = "closed"
\* Mutant: a cancelled call waits for its terminal without a timer.
SettlementNever == FALSE /\ UNCHANGED vars
SettlementExpires ==
    /\ Live /\ call.canceled = "await" /\ call.ready = "no" /\ Wedged
    /\ End(IF \E i \in DOMAIN down : down[i].kind = "response" THEN "settlement after terminal" ELSE "settlement")
-----------------------------------------------------------------------------
\* Mutant: the server counts chunks and does not compare their numbers.
ReceiveStreamUnordered ==
    /\ Live /\ inS.offered = <<>> /\ up # <<>> /\ Head(up).kind = "stream"
    /\ up' = Tail(up)
    /\ IF req.at = "over" \/ req.ended THEN UNCHANGED server
       ELSE /\ req' = [req EXCEPT !.ended = Head(up).end]
            /\ inS' = [inS EXCEPT !.next = @ + 1, !.offered = <<Head(up)>>]
    /\ UNCHANGED <<down, client, over>>

\* The server's read loop.  A frame out of order ends the request, not the
\* session.
ReceiveStream ==
    LET frame == Head(up)
        inactive == req.at = "over"
        broken == req.ended \/ frame.sequence # inS.next
    IN
    /\ Live /\ inS.offered = <<>> /\ up # <<>> /\ frame.kind = "stream"
    /\ up' = Tail(up)
    /\ \/ inactive /\ UNCHANGED server
       \/ /\ ~inactive /\ broken
          /\ req' = [req EXCEPT !.error = TRUE, !.canceled = TRUE, !.ended = TRUE]
          /\ inS' = Shut(inS)
       \/ /\ ~inactive /\ ~broken
          /\ req' = [req EXCEPT !.ended = frame.end]
          /\ inS' = [inS EXCEPT !.next = @ + 1, !.offered = <<frame>>]
    /\ UNCHANGED <<down, client, over>>

ReceiveCancel ==
    /\ Live /\ inS.offered = <<>> /\ up # <<>> /\ Head(up).kind = "cancel"
    /\ up' = Tail(up)
    /\ IF req.at = "over" THEN UNCHANGED server
       ELSE req' = [req EXCEPT !.canceled = TRUE, !.ended = TRUE] /\ inS' = Shut(inS)
    /\ UNCHANGED <<down, client, over>>

\* The acknowledgement settles the request: execute closes and removes it.
ReceiveAck ==
    /\ Live /\ inS.offered = <<>> /\ up # <<>> /\ Head(up).kind = "ack"
    /\ up' = Tail(up)
    /\ req' = [req EXCEPT !.at = "over", !.canceled = TRUE, !.ended = TRUE]
    /\ inS' = Shut(inS)
    /\ UNCHANGED <<down, client, over>>

OfferServer == Live /\ CanOffer(inS) /\ inS' = Offer(inS) /\ UNCHANGED <<up, down, client, req, over>>

DeliverServer ==
    /\ \/ CanTake(inS) /\ inS' = Take(inS)
       \/ CanFinish(inS) /\ inS' = Finish(inS)
    /\ UNCHANGED <<up, down, client, req, over>>

\* The handler reads what it likes of its input, then returns a stream of chunks
\* or an error; the end of its context or of its input decides for it.
HandlerReads ==
    /\ Live /\ req.at = "handle" /\ inS.channel = "open" /\ inS.held # <<>>
    /\ IF Head(inS.held).end
       THEN inS' = [inS EXCEPT !.held = <<>>] /\ req' = [req EXCEPT !.endSeen = TRUE]
       ELSE inS' = Consume(inS) /\ UNCHANGED req
    /\ UNCHANGED <<up, down, client, over>>

HandlerReturns ==
    /\ Live /\ req.at = "handle"
    /\ \/ ~req.canceled /\ req' = [req EXCEPT !.at = "emit"]
       \/ req' = [req EXCEPT !.at = "terminal"]
    /\ UNCHANGED <<up, down, client, inS, over>>

\* sendValue: a chunk is enqueued under the request's context; the context's
\* end becomes the terminal error when it is seen between two chunks, and an
\* error of the whole session when it is seen while one is enqueued.
Emit ==
    /\ Live /\ req.at = "emit"
    /\ \/ /\ req.emitted < MaxOut /\ Len(down) < Window /\ ~Exhausted(req.emitted)
          /\ down' = Append(down, Chunk(req.emitted, req.emitted + 1, FALSE))
          /\ req' = [req EXCEPT !.emitted = @ + 1]
          /\ UNCHANGED <<up, client, inS, over>>
       \/ /\ req.canceled
          /\ req' = [req EXCEPT !.at = "terminal"]
          /\ UNCHANGED <<up, down, client, inS, over>>
       \/ /\ "enqueue" \in Faults /\ req.canceled /\ req.emitted < MaxOut
          /\ End("request")
       \/ /\ req.emitted < MaxOut /\ Exhausted(req.emitted)
          /\ End("exhausted")
       \/ /\ req' = [req EXCEPT !.at = "terminal", !.complete = TRUE]
          /\ UNCHANGED <<up, down, client, inS, over>>

SendTerminal ==
    /\ Live /\ req.at = "terminal" /\ Len(down) < Window
    /\ down' = Append(down, [kind |-> "response"])
    /\ req' = [req EXCEPT !.at = "await"]
    /\ UNCHANGED <<up, client, inS, over>>

\* The acknowledgement's timeout, which only a read loop that cannot move meets:
\* the handler left a body it did not read.
AckExpires ==
    /\ Live /\ req.at = "await" /\ inS.offered # <<>> /\ ~CanOffer(inS)
    /\ End("acknowledgement")
-----------------------------------------------------------------------------
Caller == SendChunk \/ CloseSend \/ SendFrame \/ Cancel \/ ReadChunks
ClientLoops == SendCancel \/ Response \/ ReceiveChunk \/ ReceiveResponse \/ OfferClient \/ DeliverClient
ServerLoops == ReceiveStream \/ ReceiveCancel \/ ReceiveAck \/ OfferServer \/ DeliverServer
Handler == HandlerReads \/ HandlerReturns \/ Emit \/ SendTerminal
Timers == SettlementExpires \/ AckExpires

Next == Caller \/ ClientLoops \/ ServerLoops \/ Handler \/ Timers
Spec == Init /\ [][Next]_vars
FairSpec ==
    /\ Spec
    /\ WF_vars(Cancel) /\ WF_vars(SendFrame)
    /\ WF_vars(SendCancel) /\ WF_vars(Response)
    /\ WF_vars(ReceiveChunk \/ ReceiveResponse \/ OfferClient) /\ WF_vars(DeliverClient)
    /\ WF_vars(ReceiveStream \/ ReceiveCancel \/ ReceiveAck \/ OfferServer) /\ WF_vars(DeliverServer)
    /\ WF_vars(HandlerReturns \/ Emit \/ SendTerminal)
    /\ WF_vars(Timers)
-----------------------------------------------------------------------------
Upto(n) == [i \in 1..n |-> i]

\* What the handler has read is a prefix of what the caller submitted, none
\* missing and none twice, although SendChunk may fail and be called again; and
\* a handler that saw the end of its input read everything that was submitted.
RequestWhole ==
    /\ inS.got = Upto(Len(inS.got))
    /\ req.endSeen => Len(inS.got) = call.submitted

\* The response chunks a caller has read are a prefix of what the handler
\* emitted; once the channel of a call that was answered, and neither cancelled
\* nor cut off with its session, has closed, they are all of it.
ResponseWhole ==
    /\ inC.got = Upto(Len(inC.got))
    /\ inC.channel = "closed" /\ call.ready = "delivered" /\ call.canceled = "no" /\ Live
          => Len(inC.got) = req.emitted

\* No chunk is lost, repeated or reordered unnoticed, in either direction.
BodiesWhole == RequestWhole /\ ResponseWhole

\* Every call ends: whichever read loop waits for a consumer that has gone, a
\* timer or the call's context ends the wait.
CallSettles == <>(call.returned)

\* client.go: Chunks "closes before Response returns".
ChunksCloseFirst == call.returned => inC.channel = "closed"

\* client.go: "Cancel requests cancellation without closing the session."
CancelKeepsSession == call.canceled # "no" => over # "request"

\* client.go: "ErrCancelSettlement means a canceled request never produced a
\* terminal response."
SettlementMeansSilence == over # "settlement after terminal"
=============================================================================
