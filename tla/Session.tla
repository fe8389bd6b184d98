------------------------------ MODULE Session ------------------------------
(***************************************************************************)
(* Both ends of one persistent wire session: the client that multiplexes   *)
(* calls onto it (internal/wire/client.go) and the server's session        *)
(* (internal/wire/session.go), joined by the two directions of a socket    *)
(* that holds a few frames.  A request is known by its id.  Every          *)
(* goroutine of the code is here as a step of its own: a caller in open    *)
(* and Response, its cancel, Close, the write and the read loop of each    *)
(* side, the execution of each request and the idle timer.  The streamed   *)
(* bodies of a call are the module Stream.                                 *)
(***************************************************************************)
EXTENDS Naturals, FiniteSets, Sequences

CONSTANTS
    MaxID,        \* requests the client may open
    Callers,      \* callers with a call open at one time
    Outbound,     \* capacity of the client's outbound channel
    Replies,      \* capacity of the session's outbound channel
    Socket,       \* frames one direction of the socket holds
    Courses       \* bound: how many requests a behaviour opens, the queue of its
                  \* server, and which of Troubles befall it

\* Callers' contexts end, each at any moment or late, all at once when their
\* requests were sent; the server's gate refuses every request; and what may end
\* the session: a write that times out on a full socket whose reader is held up
\* (a stall), or fails anyhow, among others.
Troubles == {"expire", "late", "refuse", "abort", "close", "ack", "cancel", "idle", "server", "stall", "write"}

ASSUME SessionAssumption ==
    /\ {MaxID, Callers, Outbound, Replies, Socket} \subseteq Nat \ {0}
    /\ Courses \subseteq [requests : 1..MaxID, queue : Nat \ {0}, trouble : SUBSET Troubles]

VARIABLES
    course,     \* the course this behaviour takes
    nextID,     \* Client.nextID
    call,       \* ClientCall of each id: its caller, terminal and cancel
    expired,    \* ids whose caller's context is done
    pending,    \* Client.pending
    out,        \* Client.outbound
    failed,     \* Client.fail ran
    drained,    \* writeLoop returned and closeWriter ran
    reader,     \* the client's readLoop, or the response it acknowledges
    closer,     \* Close
    toServer, toClient,   \* the socket
    watermark, seen,
    active,     \* session.active: the step of each admitted request
    doomed,     \* admitted requests whose context was cancelled
    replies,    \* session.outbound
    intake,     \* the session's readLoop
    stopped,    \* session.stop ran
    hungup,     \* the session closed its socket
    reclaim,    \* the idle timer's callback
    dispatched, \* ghost: requests Runtime.Handle was called with
    cause,      \* ghost: what ended the session
    starved,    \* ghost: requests refused as beyond the queue with none queued
    overtaken,  \* ghost: requests refused so while others were on the session
    cut         \* ghost: requests an idle reclaim found admitted

client == <<course, nextID, call, expired, pending, out, failed, drained, reader, closer>>
server == <<watermark, seen, active, doomed, replies, intake, stopped, hungup, reclaim>>
refusals == <<starved, overtaken>>
ghosts == <<dispatched, cause, refusals, cut>>
sessionVars == <<client, toServer, toClient, server, ghosts>>

Ids == 1..MaxID
QueueLimit == course.queue   \* Server.inboundQueue
Fresh == [at |-> "unopened", ready |-> "no", cancel |-> "none", outcome |-> "none"]
Reading == [at |-> "read", id |-> 0, rejected |-> FALSE]
Frame(kind, id) == [kind |-> kind, id |-> id]
Answer(id, rejected, ack) == [kind |-> "response", id |-> id, rejected |-> rejected, ack |-> ack]

SessionInit ==
    /\ course \in Courses
    /\ nextID = 0 /\ call = [i \in Ids |-> Fresh] /\ expired = {} /\ pending = {}
    /\ out = <<>> /\ failed = FALSE /\ drained = FALSE /\ reader = Reading /\ closer = "open"
    /\ toServer = <<>> /\ toClient = <<>>
    /\ watermark = 0 /\ seen = {} /\ active = [i \in Ids |-> "none"] /\ doomed = {}
    /\ replies = <<>> /\ intake = Reading /\ stopped = FALSE /\ hungup = FALSE /\ reclaim = "no"
    /\ dispatched = {} /\ cause = "none" /\ starved = {} /\ overtaken = {} /\ cut = {}

Blame(c) == cause' = IF cause = "none" THEN c ELSE cause
GoAwayStarted == closer \in {"send", "queued", "await", "over"}

\* sendFrameState puts a frame on the channel while the writer takes frames.
Enqueue(f) ==
    /\ ~drained /\ Len(out) < Outbound
    /\ f.kind # "goaway" => ~GoAwayStarted
    /\ out' = Append(out, f)
NotEnqueued == (failed \/ GoAwayStarted) /\ UNCHANGED out

\* Mutant of Stalls: a write has no deadline.
StallsNever(way, peer) == FALSE

\* Codec.WriteTimeout ends a write to a full socket.
Stalls(way, peer) ==
    /\ Len(way) = Socket
    /\ "write" \in course.trouble \/ ("stall" \in course.trouble /\ peer.at # "read")

-----------------------------------------------------------------------------
(* The client.  Its operators take the calls as the step so far left them. *)


\* finish: the first terminal of a call is the one it keeps.
Finished(calls, i, terminal) ==
    [calls EXCEPT ![i].ready = IF @ = "no" THEN terminal ELSE @]

\* The terminal the read loop holds.
Received == IF reader.rejected THEN "rejected" ELSE "delivered"

\* fail: once; every pending call ends as a failure after its send.
Fail(calls) ==
    /\ failed' = TRUE /\ pending' = {}
    /\ call' = [i \in Ids |-> IF ~failed /\ i \in pending /\ calls[i].ready = "no"
                              THEN [calls[i] EXCEPT !.ready = "failed"] ELSE calls[i]]

\* What the end of a send means to the goroutine that waits for it.
Unsent(calls, i) == [calls EXCEPT ![i].at = "returned", ![i].outcome = "PreSendFailure"]

EndCancel(calls, i) == [calls EXCEPT ![i].cancel = "over"]
RemovePending(i) == pending' = pending \ {i}

\* addPending refuses once the session failed or closes.
AddPending(i) == ~failed /\ closer = "open" /\ pending' = pending \cup {i}
Calling == {i \in Ids : call[i].at \in {"opening", "queued", "sent"}}

\* open: the id is taken before the call is added to the pending ones.
Open ==
    /\ nextID < course.requests /\ Cardinality(Calling) < Callers
    /\ nextID' = nextID + 1
    /\ \/ AddPending(nextID') /\ call' = [call EXCEPT ![nextID'].at = "opening"]
       \/ (failed \/ closer # "open") /\ call' = Unsent(call, nextID') /\ UNCHANGED pending
    /\ UNCHANGED <<course, expired, out, failed, drained, reader, closer, toServer, toClient, server, ghosts>>

\* sendFrameState of a request: onto the channel, or not sent at all.
SendRequest(i) ==
    /\ call[i].at = "opening"
    /\ \/ /\ Enqueue(Frame("request", i))
          /\ call' = [call EXCEPT ![i].at = "queued"] /\ UNCHANGED pending
       \/ /\ NotEnqueued \/ (i \in expired /\ UNCHANGED out)
          /\ call' = Unsent(call, i) /\ RemovePending(i)
    /\ UNCHANGED <<course, nextID, expired, failed, drained, reader, closer, toServer, toClient, server, ghosts>>

\* The caller's context ends: its deadline, or its cancellation.
Expire ==
    /\ \/ /\ "expire" \in course.trouble
          /\ \E i \in Calling \ expired : expired' = expired \cup {i}
       \/ /\ "late" \in course.trouble /\ Calling \ expired # {}
          /\ \A i \in Calling : call[i].at = "sent"
          /\ expired' = expired \cup Calling
    /\ UNCHANGED <<course, nextID, call, pending, out, failed, drained, reader, closer, toServer, toClient,
                   server, ghosts>>

\* cancel runs once per call, from Response or from open's own goroutine.
StartCancel(calls, i) ==
    [calls EXCEPT ![i].cancel = IF @ = "none" THEN "send" ELSE @]

\* Response.
Response(i) ==
    /\ call[i].at = "sent"
    /\ \/ /\ call[i].ready # "no"
          /\ call' = [call EXCEPT ![i].at = "returned",
                                  ![i].outcome = CASE call[i].ready = "delivered" -> "Delivered"
                                                   [] call[i].ready = "rejected" -> "Rejected"
                                                   [] OTHER -> "PostSendFailure"]
       \/ /\ i \in expired
          /\ call' = [StartCancel(call, i) EXCEPT ![i].at = "returned", ![i].outcome = "PostSendFailure"]
    /\ UNCHANGED <<course, nextID, expired, pending, out, failed, drained, reader, closer, toServer, toClient,
                   server, ghosts>>

\* The goroutine open leaves behind, when it sees the context before ready.
Watch(i) ==
    /\ call[i].at \in {"sent", "returned"} /\ i \in expired /\ call[i].cancel = "none" /\ ~failed
    /\ call[i].outcome \notin {"PreSendFailure", "DeliveryUnknown"}
    /\ call' = StartCancel(call, i)
    /\ UNCHANGED <<course, nextID, expired, pending, out, failed, drained, reader, closer, toServer, toClient,
                   server, ghosts>>

SendCancel(i) ==
    /\ call[i].cancel = "send"
    /\ \/ /\ Enqueue(Frame("cancel", i))
          /\ call' = [call EXCEPT ![i].cancel = "queued"]
       \/ NotEnqueued /\ call' = EndCancel(call, i)
    /\ UNCHANGED <<course, nextID, expired, pending, failed, drained, reader, closer, toServer, toClient,
                   server, ghosts>>

\* cancel, once its frame is written: the terminal, or the session's end.
AwaitCancel(i) ==
    /\ call[i].cancel = "await"
    /\ \/ /\ call[i].ready # "no" \/ failed
          /\ call' = EndCancel(call, i) /\ UNCHANGED <<failed, pending, cause>>
       \/ /\ "cancel" \in course.trouble /\ call[i].ready = "no" /\ ~failed
          /\ Fail(EndCancel(call, i)) /\ Blame("cancel")
    /\ UNCHANGED <<course, nextID, expired, out, drained, reader, closer, toServer, toClient, server,
                   dispatched, refusals, cut>>

\* What the caller that waits for a frame does once it is written whole.
Written(f) ==
    CASE f.kind = "request" -> /\ call' = [call EXCEPT ![f.id].at = "sent"]
                               /\ UNCHANGED <<reader, closer>>
      [] f.kind = "cancel"  -> /\ call' = [call EXCEPT ![f.id].cancel = "await"]
                               /\ UNCHANGED <<reader, closer>>
      [] f.kind = "ack"     -> /\ reader' = [reader EXCEPT !.at = "finish"]
                               /\ UNCHANGED <<call, closer>>
      [] OTHER              -> closer' = "await" /\ UNCHANGED <<call, reader>>

\* writeLoop does not write a request whose context is done.
Skipped(f) == f.kind = "request" /\ f.id \in expired

Write ==
    /\ out # <<>> /\ ~failed
    /\ out' = Tail(out)
    /\ LET f == Head(out)
       IN IF Skipped(f)
          THEN /\ call' = Unsent(call, f.id) /\ RemovePending(f.id)
               /\ UNCHANGED <<reader, closer, toServer>>
          ELSE /\ Len(toServer) < Socket /\ ~hungup
               /\ toServer' = Append(toServer, f)
               /\ Written(f) /\ UNCHANGED pending
    /\ UNCHANGED <<course, nextID, expired, failed, drained, toClient, server, ghosts>>

\* The send of a frame failed, and the session with it: open returns the outcome
\* of its request, cancel and close give up, and the read loop completes the
\* response it acknowledges, before or after the session fails under it.
SendFailed(f, outcome) ==
    CASE f.kind = "request" -> /\ Fail([call EXCEPT ![f.id].at = "returned", ![f.id].outcome = outcome])
                               /\ UNCHANGED <<reader, closer>>
      [] f.kind = "cancel"  -> Fail(EndCancel(call, f.id)) /\ UNCHANGED <<reader, closer>>
      [] f.kind = "ack"     -> /\ Fail(call) \/ Fail(Finished(call, f.id, Received))
                               /\ reader' = [reader EXCEPT !.at = "over"] /\ UNCHANGED closer
      [] OTHER              -> Fail(call) /\ closer' = "over" /\ UNCHANGED reader

\* closeWriter: what is still on the channel ends as delivery unknown, except
\* frames the loop took first: one whose write failed before its first byte,
\* and those whose context is done.
Drained(calls, held) ==
    [i \in Ids |->
        [calls[i] EXCEPT !.at = IF @ = "queued" THEN "returned" ELSE @,
                         !.outcome = IF calls[i].at # "queued" THEN @
                                     ELSE IF i \in held THEN "PreSendFailure" ELSE "DeliveryUnknown",
                         !.cancel = IF @ = "queued" THEN "over" ELSE @]]

\* Mutant of WriteBreaks: a write that failed is taken for one that never began.
WriteBreaksUnsent ==
    /\ out # <<>> /\ ~failed /\ ~Skipped(Head(out))
    /\ out' = Tail(out)
    /\ \/ /\ hungup \/ Stalls(toServer, intake)
          /\ UNCHANGED toServer
       \/ /\ "write" \in course.trouble /\ Len(toServer) < Socket /\ ~hungup
          /\ toServer' = Append(toServer, Head(out))
    /\ SendFailed(Head(out), "PreSendFailure")
    /\ Blame("write")
    /\ UNCHANGED <<course, nextID, expired, drained, toClient, server, dispatched, refusals, cut>>

\* A write fails: the server's end is closed or the write timed out, before the
\* first byte or within the frame, or an error follows the last byte.
WriteBreaks ==
    /\ out # <<>> /\ ~failed /\ ~Skipped(Head(out))
    /\ out' = Tail(out)
    /\ \/ /\ hungup \/ Stalls(toServer, intake)
          /\ UNCHANGED toServer
          /\ \E outcome \in {"PreSendFailure", "DeliveryUnknown"} : SendFailed(Head(out), outcome)
       \/ /\ "write" \in course.trouble /\ Len(toServer) < Socket /\ ~hungup
          /\ toServer' = Append(toServer, Head(out))
          /\ SendFailed(Head(out), "PostSendFailure")
    /\ Blame("write")
    /\ UNCHANGED <<course, nextID, expired, drained, toClient, server, dispatched, refusals, cut>>

\* Mutant of CloseWriter: what is on the channel is left without an answer.
CloseWriterLeaves ==
    /\ failed /\ ~drained /\ drained' = TRUE
    /\ UNCHANGED <<course, nextID, call, expired, pending, out, failed, reader, closer, toServer, toClient,
                   server, ghosts>>

\* The frames writeLoop may take after the session failed: the first that it
\* writes, to a closed connection, is its last.
Taken == {k \in DOMAIN out : \A j \in 1..(k - 1) : Skipped(out[j])}

\* writeLoop returns once the session failed, through closeWriter.
CloseWriter ==
    /\ failed /\ ~drained
    /\ drained' = TRUE /\ out' = <<>>
    /\ \E held \in SUBSET {out[k].id : k \in Taken} : call' = Drained(call, held)
    /\ reader' = IF reader.at = "queued" THEN [reader EXCEPT !.at = "over"] ELSE reader
    /\ closer' = IF closer = "queued" THEN "over" ELSE closer
    /\ UNCHANGED <<course, nextID, expired, pending, failed, toServer, toClient, server, ghosts>>

\* readLoop: a response is acknowledged when the server asks for it.
Read ==
    /\ reader.at = "read" /\ toClient # <<>> /\ ~failed
    /\ toClient' = Tail(toClient)
    /\ LET f == Head(toClient)
       IN \/ /\ f.kind = "response"
             /\ reader' = [at |-> IF f.ack THEN "ack" ELSE "finish", id |-> f.id, rejected |-> f.rejected]
             /\ UNCHANGED <<call, failed, pending>>
          \/ /\ f.kind = "goaway"
             /\ IF closer = "open"
                THEN Fail(call) /\ reader' = [reader EXCEPT !.at = "over"]
                ELSE reader' = [reader EXCEPT !.at = "goaway"] /\ UNCHANGED <<call, failed, pending>>
    /\ UNCHANGED <<course, nextID, expired, out, drained, closer, toServer, server, ghosts>>

SendAck ==
    /\ reader.at = "ack"
    /\ \/ /\ Enqueue(Frame("ack", reader.id))
          /\ reader' = [reader EXCEPT !.at = "queued"] /\ UNCHANGED <<call, failed, pending>>
       \/ /\ NotEnqueued
          /\ Fail(Finished(call, reader.id, Received))
          /\ reader' = [reader EXCEPT !.at = "over"]
    /\ UNCHANGED <<course, nextID, expired, drained, closer, toServer, toClient, server, ghosts>>

\* receiveResponse after the acknowledgement.
FinishResponse ==
    /\ reader.at = "finish"
    /\ call' = IF reader.id \in pending
               THEN Finished(call, reader.id, Received)
               ELSE call
    /\ RemovePending(reader.id)
    /\ reader' = Reading
    /\ UNCHANGED <<course, nextID, expired, out, failed, drained, closer, toServer, toClient, server, ghosts>>

\* The socket ends under the read loop; bytes the server left unread reset it
\* before what it wrote is read.
ReadEnds ==
    /\ reader.at = "read"
    /\ failed \/ (hungup /\ (toClient = <<>> \/ toServer # <<>>))
    /\ reader' = [reader EXCEPT !.at = "over"]
    /\ Fail(call)
    /\ UNCHANGED <<course, nextID, expired, out, drained, closer, toServer, toClient, server, ghosts>>

-----------------------------------------------------------------------------
(* Close and Abort. *)

Close ==
    /\ "close" \in course.trouble /\ closer = "open"
    /\ closer' = "drain"
    /\ UNCHANGED <<course, nextID, call, expired, pending, out, failed, drained, reader, toServer, toClient,
                   server, ghosts>>

Abort ==
    /\ "abort" \in course.trouble /\ closer = "open" /\ ~failed
    /\ closer' = "over" /\ Fail(call) /\ Blame("abort")
    /\ UNCHANGED <<course, nextID, expired, out, drained, reader, toServer, toClient, server,
                   dispatched, refusals, cut>>

\* close waits for the pending calls, sends its GoAway and awaits the answer;
\* its context ends any of the three waits, and the session with it.
CloseStep ==
    \/ closer = "drain" /\ pending = {} /\ closer' = "send" /\ UNCHANGED <<out, call, failed, pending, cause>>
    \/ /\ closer = "send" /\ closer' = "queued" /\ Enqueue(Frame("goaway", 0))
       /\ UNCHANGED <<call, failed, pending, cause>>
    \/ /\ \/ closer = "await" /\ (reader.at = "goaway" \/ failed)
          \/ closer = "send" /\ failed
       /\ closer' = "over" /\ Fail(call) /\ Blame("closed") /\ UNCHANGED out

CloseExpires ==
    /\ closer \in {"drain", "send", "await"}
    /\ closer' = "over" /\ Fail(call) /\ Blame("close") /\ UNCHANGED out

Closing ==
    /\ CloseStep \/ CloseExpires
    /\ UNCHANGED <<course, nextID, expired, drained, reader, toServer, toClient, server, dispatched, refusals, cut>>

-----------------------------------------------------------------------------
(* The server's session. *)

Admitted == {i \in Ids : active[i] # "none"}

\* session.stop, and session.close with it.
Stop == stopped' = TRUE /\ doomed' = doomed \cup Admitted
HangUp == Stop /\ hungup' = TRUE

\* Mutant of Reached: the watermark stays where it is.
ReachedNever(w, s) == w

\* The watermark follows the ids seen without a gap.
Reached(w, s) ==
    CHOOSE n \in w..MaxID : (\A k \in (w + 1)..n : k \in s) /\ (n + 1) \notin s

Refusing(i) == [at |-> "reject", id |-> i, rejected |-> TRUE]

ReceiveRequest(i) ==
    IF i <= watermark \/ i \in seen
    THEN /\ HangUp /\ intake' = [intake EXCEPT !.at = "over"]
         /\ UNCHANGED <<watermark, seen, active, refusals>>
    ELSE IF i - watermark > QueueLimit
    THEN /\ intake' = Refusing(i)
         /\ IF Admitted = {} /\ pending = {i}
            THEN starved' = starved \cup {i} /\ UNCHANGED overtaken
            ELSE overtaken' = overtaken \cup {i} /\ UNCHANGED starved
         /\ UNCHANGED <<watermark, seen, active, doomed, stopped, hungup>>
    ELSE /\ watermark' = Reached(watermark, seen \cup {i})
         /\ seen' = (seen \cup {i}) \ (1..watermark')
         /\ IF Cardinality(Admitted) >= QueueLimit
            THEN intake' = Refusing(i) /\ UNCHANGED active
            ELSE active' = [active EXCEPT ![i] = "run"] /\ UNCHANGED intake
         /\ UNCHANGED <<refusals, doomed, stopped, hungup>>

ReceiveCancel(i) ==
    /\ doomed' = IF i \in Admitted THEN doomed \cup {i} ELSE doomed
    /\ UNCHANGED <<watermark, seen, active, intake, stopped, hungup, refusals>>

\* Mutant of ReceiveAck: the read loop goes on before the request settled.
ReceiveAckEager(i) ==
    /\ active[i] = "written"
    /\ active' = [active EXCEPT ![i] = "acked"]
    /\ UNCHANGED <<watermark, seen, doomed, intake, stopped, hungup, refusals>>

\* receiveAck: of a terminal that was written, once; then the read loop waits
\* for that request to settle.
ReceiveAck(i) ==
    IF active[i] # "written"
    THEN /\ HangUp /\ intake' = [intake EXCEPT !.at = "over"]
         /\ UNCHANGED <<watermark, seen, active, refusals>>
    ELSE /\ active' = [active EXCEPT ![i] = "acked"]
         /\ intake' = [intake EXCEPT !.at = "settle", !.id = i]
         /\ UNCHANGED <<watermark, seen, doomed, stopped, hungup, refusals>>

ReceiveGoAway ==
    /\ Stop /\ intake' = [intake EXCEPT !.at = "goaway"]
    /\ UNCHANGED <<watermark, seen, active, hungup, refusals>>

Intake ==
    /\ intake.at = "read" /\ toServer # <<>> /\ ~hungup
    /\ toServer' = Tail(toServer)
    /\ LET f == Head(toServer)
       IN \/ f.kind = "request" /\ ReceiveRequest(f.id)
          \/ f.kind = "cancel" /\ ReceiveCancel(f.id)
          \/ f.kind = "ack" /\ ReceiveAck(f.id)
          \/ f.kind = "goaway" /\ ReceiveGoAway
    /\ UNCHANGED <<client, toClient, replies, reclaim, dispatched, cause, cut>>

\* The read loop inside a handler: it sends a refusal, or waits for a request
\* to settle, and gives both up when the session stops.
IntakeWaits ==
    /\ \/ /\ intake.at = "reject" /\ ~stopped /\ Len(replies) < Replies
          /\ replies' = Append(replies, Answer(intake.id, TRUE, FALSE))
          /\ intake' = [intake EXCEPT !.at = "rejecting"]
       \/ /\ intake.at = "settle" /\ active[intake.id] = "none"
          /\ intake' = Reading /\ UNCHANGED replies
       \/ /\ intake.at \in {"reject", "rejecting", "settle"} /\ stopped
          /\ intake' = [intake EXCEPT !.at = "over"] /\ UNCHANGED replies
    /\ UNCHANGED <<client, toServer, toClient, watermark, seen, active, doomed, stopped, hungup, reclaim, ghosts>>

\* The client's end is closed, or the session's own: run closes and waits.
IntakeEnds ==
    /\ intake.at = "read" /\ (hungup \/ (failed /\ toServer = <<>>))
    /\ HangUp /\ intake' = [intake EXCEPT !.at = "over"]
    /\ UNCHANGED <<client, toServer, toClient, watermark, seen, active, replies, reclaim, ghosts>>

\* run after a GoAway: every request settled, the answer, the close.
GoAwayAnswer ==
    /\ intake.at = "goaway" /\ Admitted = {} /\ ~hungup
    /\ IF failed THEN UNCHANGED toClient
       ELSE Len(toClient) < Socket /\ toClient' = Append(toClient, Frame("goaway", 0))
    /\ HangUp
    /\ UNCHANGED <<client, toServer, watermark, seen, active, replies, intake, reclaim, ghosts>>

-----------------------------------------------------------------------------
(* The execution of one request. *)

\* dispatch reaches Runtime.Handle.
Dispatch(i) ==
    /\ active[i] = "run" /\ "refuse" \notin course.trouble
    /\ active' = [active EXCEPT ![i] = "handle"] /\ dispatched' = dispatched \cup {i}
    /\ UNCHANGED <<client, toServer, toClient, watermark, seen, doomed, replies, intake, stopped, hungup,
                   reclaim, cause, refusals, cut>>

\* Mutant of Terminal: an error of the handler is sent as a refusal.
TerminalRefuses(i) ==
    /\ active[i] \in {"run", "handle"} /\ ~stopped /\ Len(replies) < Replies
    /\ replies' = Append(replies, Answer(i, i \notin doomed, TRUE))
    /\ active' = [active EXCEPT ![i] = "queued"]
    /\ UNCHANGED <<client, toServer, toClient, watermark, seen, doomed, intake, stopped, hungup, reclaim, ghosts>>

\* execute sends its terminal: a refusal of dispatch, unless the request was
\* cancelled, or what the handler returned.
Terminal(i) ==
    /\ active[i] \in {"run", "handle"} /\ ~stopped /\ Len(replies) < Replies
    /\ replies' = Append(replies, Answer(i, active[i] = "run" /\ i \notin doomed, TRUE))
    /\ active' = [active EXCEPT ![i] = "queued"]
    /\ UNCHANGED <<client, toServer, toClient, watermark, seen, doomed, intake, stopped, hungup, reclaim, ghosts>>

\* Mutant of Reply: the terminal is marked as sent by nobody.
ReplyUnmarked ==
    /\ replies # <<>> /\ ~stopped /\ ~failed /\ Len(toClient) < Socket
    /\ toClient' = Append(toClient, Head(replies))
    /\ intake' = IF Head(replies).ack THEN intake ELSE Reading
    /\ replies' = Tail(replies)
    /\ UNCHANGED <<client, toServer, watermark, seen, active, doomed, stopped, hungup, reclaim, ghosts>>

\* writeLoop of the session: an admitted terminal counts as sent before its
\* first byte is.
Reply ==
    /\ replies # <<>> /\ ~stopped /\ ~failed /\ Len(toClient) < Socket
    /\ LET f == Head(replies)
       IN /\ toClient' = Append(toClient, f)
          /\ active' = IF f.ack THEN [active EXCEPT ![f.id] = "written"] ELSE active
          /\ intake' = IF f.ack THEN intake ELSE Reading
    /\ replies' = Tail(replies)
    /\ UNCHANGED <<client, toServer, watermark, seen, doomed, stopped, hungup, reclaim, ghosts>>

\* The same of the server's writes.
ReplyBreaks ==
    /\ replies # <<>> /\ ~stopped
    /\ \/ /\ failed \/ Stalls(toClient, reader)
          /\ UNCHANGED toClient
       \/ /\ "write" \in course.trouble /\ Len(toClient) < Socket /\ ~failed
          /\ toClient' = Append(toClient, Head(replies))
    /\ HangUp /\ Blame("write")
    /\ UNCHANGED <<client, toServer, watermark, seen, active, replies, intake, reclaim,
                   dispatched, refusals, cut>>

\* waitTerminalAck returns and the request leaves the session; without the
\* acknowledgement in time the session closes.
Settle(i) ==
    /\ \/ /\ active[i] = "acked" \/ (stopped /\ active[i] # "none")
          /\ UNCHANGED <<stopped, hungup, doomed, cause>>
       \/ /\ active[i] = "written" /\ "ack" \in course.trouble /\ ~stopped
          /\ HangUp /\ Blame("ack")
    /\ active' = [active EXCEPT ![i] = "none"]
    /\ UNCHANGED <<client, toServer, toClient, watermark, seen, replies, intake, reclaim,
                   dispatched, refusals, cut>>

\* The server ends its sessions: its context is done.
ServerEnds ==
    /\ "server" \in course.trouble /\ ~stopped
    /\ HangUp /\ Blame("server")
    /\ UNCHANGED <<client, toServer, toClient, watermark, seen, active, replies, intake, reclaim,
                   dispatched, refusals, cut>>

\* The idle timer runs between requests; its callback looks again under the
\* lock and closes the session after releasing it.
IdleFires ==
    /\ "idle" \in course.trouble /\ reclaim = "no" /\ Admitted = {}
    /\ intake.at \in {"read", "reject", "rejecting"} /\ ~stopped
    /\ reclaim' = "fired"
    /\ UNCHANGED <<client, toServer, toClient, watermark, seen, active, doomed, replies, intake, stopped,
                   hungup, ghosts>>

ReclaimIdle ==
    /\ \/ /\ reclaim = "fired" /\ reclaim' = IF Admitted = {} THEN "close" ELSE "no"
          /\ UNCHANGED <<doomed, stopped, hungup, cause, cut>>
       \/ /\ reclaim = "close" /\ reclaim' = "done"
          /\ HangUp
          /\ IF stopped THEN UNCHANGED <<cause, cut>> ELSE Blame("idle") /\ cut' = Admitted
    /\ UNCHANGED <<client, toServer, toClient, watermark, seen, active, replies, intake, dispatched, refusals>>

SessionNext ==
    \/ Open \/ Expire \/ Write \/ WriteBreaks \/ CloseWriter \/ Read \/ SendAck \/ FinishResponse \/ ReadEnds
    \/ Close \/ Abort \/ Closing
    \/ \E i \in Ids : SendRequest(i) \/ Response(i) \/ Watch(i) \/ SendCancel(i) \/ AwaitCancel(i)
    \/ Intake \/ IntakeWaits \/ IntakeEnds \/ GoAwayAnswer \/ Reply \/ ReplyBreaks
    \/ \E i \in Ids : Dispatch(i) \/ Terminal(i) \/ Settle(i)
    \/ ServerEnds \/ IdleFires \/ ReclaimIdle

SessionSpec == SessionInit /\ [][SessionNext]_sessionVars

\* What goes on by itself: the loops run, contexts end, timers fire; a handler
\* need not return.
Loops ==
    \/ Expire \/ Write \/ WriteBreaks \/ CloseWriter \/ Read \/ SendAck \/ FinishResponse \/ ReadEnds
    \/ Closing \/ Intake \/ IntakeWaits \/ IntakeEnds \/ GoAwayAnswer \/ Reply \/ ReplyBreaks
    \/ \E i \in Ids : \/ SendRequest(i) \/ Response(i) \/ SendCancel(i)
                     \/ AwaitCancel(i) \/ Settle(i)

-----------------------------------------------------------------------------
(* Properties *)

\* A call whose outcome is replayable (PreSendFailure or Rejected) was never
\* handed to Runtime.Handle and never will be: Undispatched promises a safe
\* resend.
ReplayableUndispatched ==
    \A i \in Ids : call[i].outcome \in {"PreSendFailure", "Rejected"} => i \notin dispatched

\* A session ends by a timeout, a broken write, an idle reclaim or an end that
\* was asked for: its own frames, in whatever order the loops of the two ends
\* run, never violate the protocol.
EndsForCause == (failed \/ stopped) => (cause # "none" \/ intake.at = "goaway")

\* A GoAway finds no request of the session admitted: the client sends it only
\* after its calls settled, and every acknowledgement is ahead of it.
GoAwayFindsIdle == intake.at = "goaway" /\ cause = "none" => Admitted = {}

\* The first request refused as beyond the queue (ErrQueueFull) is not alone on
\* its session, unless a caller's context ended: until an id overtook others by
\* more than the window the stream is in step with the ids the client takes.
KeptInStep == course.trouble \cap {"expire", "late"} = {} /\ overtaken = {} => starved = {}

\* ErrQueueFull means a bounded session queue cannot accept more work.
QueueFullMeansFull == starved = {}

\* The two ends keep the protocol between them: the session ends for a cause from
\* outside, its go-away meets nothing admitted, and its ids stay in the window.
KeepsProtocol == EndsForCause /\ GoAwayFindsIdle /\ KeptInStep

\* An idle reclaim never closes the session under an admitted request.
IdleSparesRequests == cut = {}

\* A read loop that no longer reads: it sends an acknowledgement or a refusal, or
\* waits for a request to settle.
HeldUp == reader.at \in {"ack", "queued", "finish"} \/ intake.at \in {"reject", "rejecting", "settle"}

\* No wait is for ever: as long as a read loop is held up, or a call or a Close has
\* not returned, one of the loops, contexts and timers of the two ends can still
\* go on, whichever of the channels and sockets between them are full.  Each of
\* these steps is taken a bounded number of times, so that the wait ends.
NeverStuck ==
    /\ course.trouble \cap {"stall", "write"} # {}
    /\ \/ HeldUp
       \/ course.trouble \cap {"expire", "late"} # {} /\ (Calling # {} \/ closer \notin {"open", "over"})
    => ENABLED Loops
============================================================================
