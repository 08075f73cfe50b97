---------------------------- MODULE ProtocolCodec ----------------------------
(***************************************************************************)
(* The wire format of src/protocol/protocol_codec.cpp and the decoding of  *)
(* a TCP stream with it: a peer writes frames, TCP delivers their bytes in *)
(* pieces of any size, and the loop of Connection::process_input (for      *)
(* responses, the client) decodes from what has arrived.  The width of     *)
(* every field is the code's; a byte has ByteBase values, 256 in the code. *)
(***************************************************************************)
EXTENDS Integers, SequencesExt

CONSTANTS
  ByteBase,
  magic, version,
  MaxKeyLength, MaxValueLength,
  LastStatus,     \* the largest WireStatus, internal_error = 8 in the code
  Frames,         \* frames the peer of each side may write, well-formed or not
  MaxFrames       \* bound: frames written

Opcode == [get |-> 1, set |-> 2, erase |-> 3]

request_header_size == 32

response_header_size == 20

max_request_frame_size == request_header_size + MaxKeyLength + MaxValueLength

\* std::int64_t's maximum, in a 64-bit word of ByteBase digits.
MaxTtl == ByteBase ^ 8 \div 2 - 1

\* append_u8 to append_u64: the number's digits, most significant first.
Word(n, width) == [i \in 1 .. width |-> (n \div ByteBase ^ (width - i)) % ByteBase]

\* read_u8 to read_u64 at an offset that counts from 0, as in the code.
Read(bytes, offset, width) ==
  FoldLeft(LAMBDA n, digit : n * ByteBase + digit, 0,
           SubSeq(bytes, offset + 1, offset + width))

NoData(opcode) == opcode \in {Opcode.get, Opcode.erase}
------------------------------------------------------------------------------
\* encode_request does not throw.
Encodable(r) ==
  /\ r.opcode \in Opcode.get .. Opcode.erase
  /\ Len(r.key) <= MaxKeyLength /\ Len(r.value) <= MaxValueLength
  /\ NoData(r.opcode) => r.value = <<>> /\ r.ttl = 0
  /\ r.ttl <= MaxTtl

encode_request(r) ==
  Word(magic, 4) \o Word(version, 1) \o Word(r.opcode, 1) \o Word(0, 2)
    \o Word(r.id, 8) \o Word(Len(r.key), 4) \o Word(Len(r.value), 4)
    \o Word(r.ttl, 8) \o r.key \o r.value

ResponseEncodable(r) == r.status <= LastStatus /\ Len(r.value) <= MaxValueLength

encode_response(r) ==
  Word(magic, 4) \o Word(version, 1) \o Word(r.status, 1) \o Word(0, 2)
    \o Word(r.id, 8) \o Word(Len(r.value), 4) \o r.value

Incomplete == [result |-> "incomplete"]

fail(id) == [result |-> "error", id |-> id]

Complete(message, length) ==
  [result |-> "complete", message |-> message, length |-> length]

\* The checks both decoders make first.
BadPreamble(h) == \/ Read(h, 0, 4) # magic
                  \/ Read(h, 4, 1) # version
                  \/ Read(h, 6, 2) # 0

\* Mutant of RequestRejected: the largest TTL is refused.
RequestRejectedAtLimit(h) ==
  LET opcode == Read(h, 5, 1)
      key_length == Read(h, 16, 4)
      value_length == Read(h, 20, 4)
      ttl == Read(h, 24, 8)
  IN  \/ BadPreamble(h)
      \/ opcode < Opcode.get \/ opcode > Opcode.erase
      \/ key_length > MaxKeyLength
      \/ value_length > MaxValueLength
      \/ NoData(opcode) /\ (value_length # 0 \/ ttl # 0)
      \/ ttl >= MaxTtl

\* The checks of decode_request on a whole header.
RequestRejected(h) ==
  LET opcode == Read(h, 5, 1)
      key_length == Read(h, 16, 4)
      value_length == Read(h, 20, 4)
      ttl == Read(h, 24, 8)
  IN  \/ BadPreamble(h)
      \/ opcode < Opcode.get \/ opcode > Opcode.erase
      \/ key_length > MaxKeyLength
      \/ value_length > MaxValueLength
      \/ key_length > max_request_frame_size - request_header_size
      \/ value_length > max_request_frame_size - request_header_size - key_length
      \/ NoData(opcode) /\ (value_length # 0 \/ ttl # 0)
      \/ ttl > MaxTtl

RequestLength(h) == request_header_size + Read(h, 16, 4) + Read(h, 20, 4)

\* The request in a buffer that holds its whole frame.
RequestIn(bytes) ==
  LET value_offset == request_header_size + Read(bytes, 16, 4)
  IN  [opcode |-> Read(bytes, 5, 1), id |-> Read(bytes, 8, 8),
       key |-> SubSeq(bytes, request_header_size + 1, value_offset),
       value |-> SubSeq(bytes, value_offset + 1, RequestLength(bytes)),
       ttl |-> Read(bytes, 24, 8)]

\* Mutant of decode_request: the checks come after the wait for the body.
decode_request_late(bytes) ==
  IF Len(bytes) < request_header_size THEN Incomplete
  ELSE IF Len(bytes) < RequestLength(bytes) THEN Incomplete
  ELSE IF RequestRejected(bytes) THEN fail(Read(bytes, 8, 8))
  ELSE Complete(RequestIn(bytes), RequestLength(bytes))

decode_request(bytes) ==
  IF Len(bytes) < request_header_size THEN Incomplete
  ELSE IF RequestRejected(bytes) THEN fail(Read(bytes, 8, 8))
  ELSE IF Len(bytes) < RequestLength(bytes) THEN Incomplete
  ELSE Complete(RequestIn(bytes), RequestLength(bytes))

ResponseRejected(h) ==
  \/ BadPreamble(h)
  \/ Read(h, 5, 1) > LastStatus
  \/ Read(h, 16, 4) > MaxValueLength

ResponseLength(h) == response_header_size + Read(h, 16, 4)

ResponseIn(bytes) ==
  [id |-> Read(bytes, 8, 8), status |-> Read(bytes, 5, 1),
   value |-> SubSeq(bytes, response_header_size + 1, ResponseLength(bytes))]

decode_response(bytes) ==
  IF Len(bytes) < response_header_size THEN Incomplete
  ELSE IF ResponseRejected(bytes) THEN fail(Read(bytes, 8, 8))
  ELSE IF Len(bytes) < ResponseLength(bytes) THEN Incomplete
  ELSE Complete(ResponseIn(bytes), ResponseLength(bytes))

VARIABLES
  side,      \* which decoder reads the stream: "request" or "response"
  sent,      \* frames the peer has written
  wire,      \* their bytes that have not arrived
  input,     \* bytes that have arrived and are not decoded
  decoded    \* what the decoder has returned, incomplete results left out

Decode(bytes) == IF side = "request" THEN decode_request(bytes)
                                     ELSE decode_response(bytes)
------------------------------------------------------------------------------
\* The bytes of a frame whose header fields need not be consistent.
Bytes(f) ==
  IF side = "request"
  THEN Word(f.magic, 4) \o Word(f.version, 1) \o Word(f.opcode, 1)
         \o Word(f.reserved, 2) \o Word(f.id, 8) \o Word(f.key_length, 4)
         \o Word(f.value_length, 4) \o Word(f.ttl, 8) \o f.key \o f.value
  ELSE Word(f.magic, 4) \o Word(f.version, 1) \o Word(f.status, 1)
         \o Word(f.reserved, 2) \o Word(f.id, 8) \o Word(f.value_length, 4)
         \o f.value

vars == <<side, sent, wire, input, decoded>>

\* After a framing error the connection reads no more.
Failed == decoded # <<>> /\ Last(decoded).result = "error"

\* The peer writes a frame.  Nothing sees bytes that have not arrived, so only
\* the case that the earlier ones have is considered.
PeerWrites(f) ==
  /\ Len(sent) < MaxFrames /\ wire = <<>>
  /\ sent' = Append(sent, f)
  /\ wire' = Bytes(f)
  /\ UNCHANGED <<side, input, decoded>>

\* A byte arrives.  As decoding may happen or not between two bytes, every way
\* of cutting the stream into reads is covered.
Arrive ==
  /\ wire # <<>> /\ ~Failed
  /\ input' = Append(input, Head(wire))
  /\ wire' = Tail(wire)
  /\ UNCHANGED <<side, sent, decoded>>

\* Mutant of DecodeFrame: the frame's last byte is left in the input.
DecodeFrameShort ==
  /\ ~Failed
  /\ Decode(input).result = "complete"
  /\ decoded' = Append(decoded, [result |-> "complete",
                                 message |-> Decode(input).message])
  /\ input' = SubSeq(input, Decode(input).length, Len(input))
  /\ UNCHANGED <<side, sent, wire>>

\* The loop of process_input takes one frame off the input.
DecodeFrame ==
  /\ ~Failed
  /\ Decode(input).result = "complete"
  /\ decoded' = Append(decoded, [result |-> "complete",
                                 message |-> Decode(input).message])
  /\ input' = SubSeq(input, Decode(input).length + 1, Len(input))
  /\ UNCHANGED <<side, sent, wire>>

\* A framing error: the input is dropped and nothing more is decoded.
RejectFrame ==
  /\ ~Failed
  /\ Decode(input).result = "error"
  /\ decoded' = Append(decoded, Decode(input))
  /\ input' = <<>>
  /\ UNCHANGED <<side, sent, wire>>

Init ==
  /\ side \in DOMAIN Frames
  /\ sent = <<>> /\ wire = <<>> /\ input = <<>> /\ decoded = <<>>

Next == (\E f \in Frames[side] : PeerWrites(f)) \/ Arrive \/ DecodeFrame \/ RejectFrame

Spec == Init /\ [][Next]_vars
------------------------------------------------------------------------------
\* The message a frame would be the encoding of.
Message(f) ==
  IF side = "request"
  THEN [opcode |-> f.opcode, id |-> f.id, key |-> f.key, value |-> f.value,
        ttl |-> f.ttl]
  ELSE [id |-> f.id, status |-> f.status, value |-> f.value]

\* The frame is what the encoder makes of some message it accepts.
WellFormed(f) ==
  IF side = "request"
  THEN Encodable(Message(f)) /\ encode_request(Message(f)) = Bytes(f)
  ELSE ResponseEncodable(Message(f)) /\ encode_response(Message(f)) = Bytes(f)

\* What the whole stream means by the encoders alone: the messages up to the
\* first frame that is not an encoding, and one error for that.
Meaning ==
  LET bad == {i \in DOMAIN sent : ~WellFormed(sent[i])}
      last == IF bad = {} THEN Len(sent) ELSE Min(bad)
  IN  [i \in 1 .. last |->
         IF i \in bad THEN fail(sent[i].id)
         ELSE [result |-> "complete", message |-> Message(sent[i])]]

\* However TCP cuts or merges the frames, decode_request and decode_response
\* return the messages that were encoded, in order, and exactly the frames no
\* encoder produces are rejected, under their own request id.
DecodesTheStream ==
  IsPrefix(decoded, Meaning)

\* The decoder neither waits for bytes that do not belong to the frame nor
\* keeps any back: when all bytes have arrived and nothing can be decoded,
\* everything has been.
NothingHeldBack ==
  \/ Failed
  \/ wire = <<>> /\ Decode(input).result = "incomplete"
  => decoded = Meaning /\ input = <<>>

\* A frame that will be rejected is rejected once its header has arrived, and
\* so never makes the receiver keep the body it announces.
RejectedAtHeader ==
  LET header == IF side = "request" THEN request_header_size
                                    ELSE response_header_size
      n == Len(decoded) + 1
  IN  /\ ~Failed /\ n <= Len(sent)
      /\ ~WellFormed(sent[n])
      /\ Len(input) >= header
      => Decode(input).result = "error"
==============================================================================
