----------------------------- MODULE Connection ------------------------------
(***************************************************************************)
(* One client connection: Connection of src/net/connection.cpp, driven by  *)
(* Worker::handle_connection_event of src/net/cache_server.cpp, with its   *)
(* socket and its peer.  Lengths are counted in bytes of the two streams.  *)
(* The contents of a request matter only through its kind: whether its     *)
(* header is valid and how long its frame is.  A response byte carries the *)
(* number of the request it answers and the status.  The peer, the socket  *)
(* buffers and epoll (level triggered) are external.                       *)
(***************************************************************************)
EXTENDS Integers, Sequences

CONSTANTS
  Kinds,           \* kinds of request frames
  BadKinds,        \* the kinds decode_request refuses from their header
  FrameLength,     \* FrameLength[k]: header and body of a frame of kind k
  HeaderSize,      \* request_header_size
  MaxFrameSize,    \* max_request_frame_size
  ReadChunk,       \* read_chunk_size
  OutputLimit,     \* output_limit_
  AnswerSizes,     \* sizes a response frame may have
  ErrorSize,       \* size of the protocol_error response
  SendRoom,        \* capacity of the socket's send buffer
  MaxFrames        \* bound: frames the peer sends

ASSUME ConnectionAssumption ==
  /\ BadKinds \subseteq Kinds
  /\ HeaderSize \in Nat \ {0}
  /\ FrameLength \in [Kinds -> Nat]
  /\ \A k \in Kinds : HeaderSize <= FrameLength[k]
  /\ \A k \in Kinds \ BadKinds : FrameLength[k] <= MaxFrameSize
  /\ MaxFrameSize \in Nat \ {0}
  /\ ReadChunk \in Nat \ {0}
  /\ OutputLimit \in Nat
  /\ AnswerSizes \subseteq Nat \ {0} /\ ErrorSize \in Nat \ {0}
  /\ SendRoom \in Nat \ {0}
  /\ MaxFrames \in Nat

max_input_buffer_size == MaxFrameSize + ReadChunk

VARIABLES
  \* the peer and the two socket buffers
  frames,          \* kinds of the frames the peer has started to send
  unsent,          \* bytes of the last of them it has not sent yet
  peer,            \* "open", "half" (it shut its writing side) or "reset"
  unread,          \* bytes in the socket's receive buffer
  in_flight,       \* response bytes in the socket's send buffer
  delivered,       \* response bytes the peer has read
  \* the Connection
  input,           \* readable bytes of input_
  next,            \* number of the frame input_ starts in
  output,          \* output_
  peer_closed,     \* peer_closed_
  close_after_write, \* close_after_write_
  close_immediately, \* close_immediately_
  \* the worker
  pc,              \* where handle_connection_event is
  events,          \* the events epoll_wait reported for this handler
  interest,        \* the events epoll is asked to report
  cause            \* why the connection was given up, for the properties

peerVars == <<frames, unsent, peer, unread>>
flags == <<peer_closed, close_after_write, close_immediately>>
connectionVars == <<input, next, output, flags>>
workerVars == <<pc, events, interest, cause>>
vars == <<peerVars, in_flight, delivered, connectionVars, workerVars>>

should_close == close_immediately

\* Mutant of desired_events: writability is never asked for.
desired_without_out ==
  {"RDHUP"} \union (IF ~close_after_write /\ ~peer_closed THEN {"IN"} ELSE {})

desired_events ==
  {"RDHUP"} \union (IF ~close_after_write /\ ~peer_closed THEN {"IN"} ELSE {})
            \union (IF output # <<>> THEN {"OUT"} ELSE {})
------------------------------------------------------------------------------
\* The peer sends the next byte of its requests.
PeerSends ==
  /\ peer = "open" /\ pc # "closed"
  /\ \/ /\ unsent > 0
        /\ unsent' = unsent - 1
        /\ UNCHANGED frames
     \/ /\ unsent = 0 /\ Len(frames) < MaxFrames
        /\ \E k \in Kinds : /\ frames' = Append(frames, k)
                            /\ unsent' = FrameLength[k] - 1
  /\ unread' = unread + 1
  /\ UNCHANGED <<peer, in_flight, delivered, connectionVars, workerVars>>

\* The peer shuts its writing side down, at any byte of its stream.
PeerHalfCloses ==
  /\ peer = "open" /\ pc # "closed"
  /\ peer' = "half"
  /\ UNCHANGED <<frames, unsent, unread, in_flight, delivered, connectionVars,
                 workerVars>>

\* The peer aborts: undelivered bytes are discarded, unread ones may be.
PeerResets ==
  /\ peer # "reset" /\ pc # "closed"
  /\ peer' = "reset"
  /\ unread' \in {0, unread}
  /\ in_flight' = <<>>
  /\ UNCHANGED <<frames, unsent, delivered, connectionVars, workerVars>>

PeerReads ==
  /\ peer # "reset"
  /\ in_flight # <<>>
  /\ delivered' = Append(delivered, Head(in_flight))
  /\ in_flight' = Tail(in_flight)
  /\ UNCHANGED <<peerVars, connectionVars, workerVars>>

\* What epoll reports now, whether asked for or not.
Ready ==
  (IF unread > 0 \/ peer # "open" THEN {"IN"} ELSE {})
    \union (IF peer # "open" THEN {"RDHUP"} ELSE {})
    \union (IF Len(in_flight) < SendRoom \/ peer = "reset" THEN {"OUT"} ELSE {})
    \union (IF peer = "reset" THEN {"ERR", "HUP"} ELSE {})

epoll_wait ==
  LET reported == Ready \cap (interest \union {"ERR", "HUP"})
  IN  /\ pc = "wait"
      /\ reported # {}
      /\ events' = reported
      /\ pc' = IF "ERR" \in reported THEN "erase"
               ELSE IF reported \cap {"IN", "RDHUP", "HUP"} # {} THEN "recv"
               ELSE "send"
      /\ cause' = IF "ERR" \in reported THEN "socket" ELSE cause
      /\ UNCHANGED <<peerVars, in_flight, delivered, connectionVars, interest>>
------------------------------------------------------------------------------
\* Where handle_connection_event continues once handle_readable returned.
AfterReading == IF "OUT" \in events THEN "send" ELSE "hangup"

\* close_immediately, which makes the handler return false.
GiveUp(why) ==
  /\ close_immediately' = TRUE
  /\ cause' = why
  /\ pc' = "erase"

\* The loop condition of handle_readable fails.
StopReading ==
  /\ pc = "recv"
  /\ close_after_write
  /\ pc' = AfterReading
  /\ UNCHANGED <<peerVars, in_flight, delivered, connectionVars, events,
                 interest, cause>>

\* recv returns n bytes.
Receive(n) ==
  /\ pc = "recv"
  /\ ~close_after_write
  /\ n \in 1 .. ReadChunk /\ n <= unread
  /\ unread' = unread - n
  /\ \/ /\ n > max_input_buffer_size - input
        /\ GiveUp("input")
        /\ UNCHANGED input
     \/ /\ n <= max_input_buffer_size - input
        /\ input' = input + n
        /\ pc' = "decode"
        /\ UNCHANGED <<close_immediately, cause>>
  /\ UNCHANGED <<frames, unsent, peer, in_flight, delivered, next, output,
                 peer_closed, close_after_write, events, interest>>

\* Mutants of note_peer_closed: queued output is not waited for, and an idle
\* connection is not closed.
note_peer_closed_at_once ==
  /\ peer_closed' = TRUE
  /\ close_immediately' = TRUE

note_peer_closed_only ==
  /\ peer_closed' = TRUE
  /\ UNCHANGED close_immediately

note_peer_closed ==
  /\ peer_closed' = TRUE
  /\ close_immediately' = (close_immediately \/ output = <<>>)

\* recv returns 0: everything the peer sent before it closed has been read.
ReceiveEnd ==
  /\ pc = "recv"
  /\ ~close_after_write
  /\ unread = 0 /\ peer = "half"
  /\ note_peer_closed
  /\ pc' = IF close_immediately' THEN "erase" ELSE AfterReading
  /\ UNCHANGED <<peerVars, in_flight, delivered, input, next, output,
                 close_after_write, events, interest, cause>>

\* recv would block.
ReceiveNothing ==
  /\ pc = "recv"
  /\ ~close_after_write
  /\ unread = 0 /\ peer = "open"
  /\ pc' = AfterReading
  /\ UNCHANGED <<peerVars, in_flight, delivered, connectionVars, events,
                 interest, cause>>

ReceiveFails ==
  /\ pc = "recv"
  /\ ~close_after_write
  /\ unread = 0 /\ peer = "reset"
  /\ GiveUp("socket")
  /\ UNCHANGED <<peerVars, in_flight, delivered, input, next, output,
                 peer_closed, close_after_write, events, interest>>

\* An allocation of append, decode_request or encode_response throws.
HandlerThrows ==
  /\ pc = "decode"
  /\ cause' = "throw"
  /\ pc' = "erase"
  /\ UNCHANGED <<peerVars, in_flight, delivered, connectionVars, events, interest>>
------------------------------------------------------------------------------
Kind == frames[next]

\* Mutant of decode_request: the header is checked when the body has arrived.
decode_late ==
  IF input < HeaderSize \/ input < FrameLength[Kind] THEN "incomplete"
  ELSE IF Kind \in BadKinds THEN "error"
  ELSE "complete"

\* decode_request on what input_ holds.
decode_request ==
  IF input < HeaderSize THEN "incomplete"
  ELSE IF Kind \in BadKinds THEN "error"
  ELSE IF input < FrameLength[Kind] THEN "incomplete"
  ELSE "complete"

\* Mutant of Exceeds: the limit is compared with the new frame alone.
ExceedsAlone(n) == n > OutputLimit

Exceeds(n) == Len(output) > OutputLimit \/ n > OutputLimit - Len(output)

\* queue_response of a frame of n bytes.
queue_response(status, n) ==
  IF Exceeds(n)
  THEN /\ GiveUp("limit")
       /\ UNCHANGED output
  ELSE /\ output' = output \o [i \in 1 .. n |-> [id |-> next, status |-> status,
                                                left |-> n - i]]
       /\ pc' = "decode"
       /\ UNCHANGED <<close_immediately, cause>>

\* process_input waiting for more bytes.
NeedMore ==
  /\ pc = "decode"
  /\ input = 0 \/ decode_request = "incomplete"
  /\ pc' = "recv"
  /\ UNCHANGED <<peerVars, in_flight, delivered, connectionVars, events,
                 interest, cause>>

\* execute: the engine is called, whatever it answers or throws is queued.
Execute(n) ==
  /\ pc = "decode"
  /\ input > 0 /\ decode_request = "complete"
  /\ input' = input - FrameLength[Kind]
  /\ next' = next + 1
  /\ queue_response("answer", n)
  /\ UNCHANGED <<peerVars, in_flight, delivered, peer_closed,
                 close_after_write, events, interest>>

\* queue_protocol_error: the rest of the input is dropped.
RejectFrame ==
  /\ pc = "decode"
  /\ input > 0 /\ decode_request = "error"
  /\ input' = 0
  /\ queue_response("error", ErrorSize)
  /\ close_after_write' = (close_after_write \/ ~close_immediately')
  /\ UNCHANGED <<peerVars, in_flight, delivered, next, peer_closed, events,
                 interest>>
------------------------------------------------------------------------------
\* Mutant of Unsent: the last byte sent stays in the buffer.
UnsentAgain(n) == SubSeq(output, n, Len(output))

\* What output_ holds after n bytes have been sent.
Unsent(n) == SubSeq(output, n + 1, Len(output))

\* send accepts n bytes.
Send(n) ==
  /\ pc = "send"
  /\ output # <<>>
  /\ peer # "reset"
  /\ n \in 1 .. Len(output) /\ n <= SendRoom - Len(in_flight)
  /\ in_flight' = in_flight \o SubSeq(output, 1, n)
  /\ output' = Unsent(n)
  /\ UNCHANGED <<peerVars, delivered, input, next, flags, workerVars>>

\* send would block.
SendNothing ==
  /\ pc = "send"
  /\ output # <<>>
  /\ peer # "reset" /\ Len(in_flight) = SendRoom
  /\ pc' = "hangup"
  /\ UNCHANGED <<peerVars, in_flight, delivered, connectionVars, events,
                 interest, cause>>

SendFails ==
  /\ pc = "send"
  /\ output # <<>>
  /\ peer = "reset"
  /\ GiveUp("socket")
  /\ UNCHANGED <<peerVars, in_flight, delivered, input, next, output,
                 peer_closed, close_after_write, events, interest>>

\* handle_writable with everything sent.
Flushed ==
  /\ pc = "send"
  /\ output = <<>>
  /\ close_immediately' = (close_after_write \/ peer_closed)
  /\ pc' = IF close_immediately' THEN "erase" ELSE "hangup"
  /\ UNCHANGED <<peerVars, in_flight, delivered, input, next, output,
                 peer_closed, close_after_write, events, interest, cause>>

\* The hang-up part of handle_connection_event.
HangUp ==
  /\ pc = "hangup"
  /\ \/ /\ events \cap {"RDHUP", "HUP"} # {}
        /\ note_peer_closed
     \/ /\ events \cap {"RDHUP", "HUP"} = {}
        /\ UNCHANGED <<peer_closed, close_immediately>>
  /\ pc' = "finish"
  /\ UNCHANGED <<peerVars, in_flight, delivered, input, next, output,
                 close_after_write, events, interest, cause>>

\* handle_connection_event keeping the connection, with the events it wants
\* now.  should_close is false here unless HangUp has just set it.
Keep ==
  /\ pc = "finish"
  /\ ~should_close
  /\ \/ /\ interest' = desired_events
        /\ pc' = "wait"
        /\ UNCHANGED cause
     \/ /\ pc' = "erase"      \* epoll_ctl fails
        /\ cause' = "epoll"
        /\ UNCHANGED interest
  /\ events' = {}
  /\ UNCHANGED <<peerVars, in_flight, delivered, connectionVars>>

\* The connection is removed from epoll and destroyed, its socket closed.  The
\* kernel may reset a connection that is closed with unread bytes, and the peer
\* then loses what it has not read yet.
Erase ==
  /\ pc = "erase" \/ (pc = "finish" /\ should_close)
  /\ pc' = "closed"
  /\ events' = {}
  /\ in_flight' \in {in_flight} \union (IF unread > 0 THEN {<<>>} ELSE {})
  /\ UNCHANGED <<peerVars, delivered, connectionVars, interest, cause>>

Init ==
  /\ frames = <<>> /\ unsent = 0 /\ peer = "open" /\ unread = 0
  /\ in_flight = <<>> /\ delivered = <<>>
  /\ input = 0 /\ next = 1 /\ output = <<>>
  /\ peer_closed = FALSE /\ close_after_write = FALSE /\ close_immediately = FALSE
  /\ pc = "wait" /\ events = {} /\ interest = {"RDHUP", "IN"} /\ cause = "none"

PeerNext == PeerSends \/ PeerHalfCloses \/ PeerResets \/ PeerReads

WorkerNext ==
  \/ epoll_wait
  \/ StopReading \/ ReceiveEnd \/ ReceiveNothing \/ ReceiveFails \/ HandlerThrows
  \/ \E n \in 1 .. ReadChunk : Receive(n)
  \/ NeedMore \/ RejectFrame
  \/ \E n \in AnswerSizes : Execute(n)
  \/ \E n \in 1 .. SendRoom : Send(n)
  \/ SendNothing \/ SendFails \/ Flushed \/ HangUp \/ Keep \/ Erase

Next == PeerNext \/ WorkerNext

Spec == Init /\ [][Next]_vars

\* The worker thread keeps running and the peer keeps reading its responses.
FairSpec == Spec /\ WF_vars(WorkerNext) /\ WF_vars(PeerReads)
------------------------------------------------------------------------------
\* The guard of handle_readable against an overflowing input buffer never
\* fires: process_input leaves less than a frame behind, so a chunk always fits
\* and a well-behaved client is never cut off for pipelining.
InputAlwaysFits ==
  /\ cause # "input"
  /\ input <= max_input_buffer_size
  /\ pc = "recv" => input < MaxFrameSize

\* A slow reader never makes the server queue more than the limit.
OutputBounded == Len(output) <= OutputLimit

\* The stream the peer gets is a sequence of whole response frames, one per
\* request, in the order of the requests, and at most one protocol error, which
\* is the last frame: whatever is split, pipelined or only partly sent.
AnswersInOrder ==
  LET stream == IF peer = "reset" \/ pc = "closed" THEN delivered
                ELSE delivered \o in_flight \o output
  IN  /\ stream # <<>> => Head(stream).id = 1
      /\ \A i \in 1 .. Len(stream) - 1 :
           IF stream[i].left > 0
           THEN stream[i + 1] = [stream[i] EXCEPT !.left = @ - 1]
           ELSE stream[i + 1].id = stream[i].id + 1 /\ stream[i].status = "answer"

\* Frames the peer has sent completely.
Complete == IF unsent = 0 THEN Len(frames) ELSE Len(frames) - 1

\* A connection that is not given up for a reason of its own (output limit,
\* exception, socket error) closes only when every complete request has been
\* answered and every answer handed to the socket, or after the protocol error
\* has been: a half-close never loses a request the peer sent before it.
NothingLost ==
  pc = "closed" /\ cause = "none" =>
    /\ output = <<>>
    /\ \/ next = Complete + 1 /\ peer_closed
       \/ close_after_write /\ Kind \in BadKinds
    /\ LET last == IF close_after_write THEN next ELSE next - 1
           stream == delivered \o in_flight
       IN  peer # "reset" /\ unread = 0 /\ last > 0 =>
             stream # <<>> /\ stream[Len(stream)].id = last
                           /\ stream[Len(stream)].left = 0

\* A peer that stops sending and keeps reading gets its connection closed.
HalfCloseEnds == peer # "open" ~> pc = "closed"

\* Every complete request is answered, or the connection closes: the events
\* asked of epoll never leave a request or an answer waiting for good.
EveryRequestAnswered ==
  \A i \in 1 .. MaxFrames :
    Complete >= i ~> \/ pc = "closed"
                     \/ \E j \in DOMAIN delivered :
                          delivered[j].id = i /\ delivered[j].left = 0
==============================================================================
