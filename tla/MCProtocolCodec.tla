--------------------------- MODULE MCProtocolCodec ---------------------------
EXTENDS ProtocolCodec

\* A body of the announced length, or none when the length is out of bounds.
Body(length, limit, first) ==
  [i \in 1 .. (IF length <= limit THEN length ELSE 0) |-> (first + i) % ByteBase]

LargestId == ByteBase ^ 8 - 1

Request(m, v, o, r, i, k, l, t) ==
  [magic |-> m, version |-> v, opcode |-> o, reserved |-> r, id |-> i,
   key_length |-> k, value_length |-> l, ttl |-> t,
   key |-> Body(k, MaxKeyLength, 0), value |-> Body(l, MaxValueLength, 2)]

Response(m, v, s, r, i, l) ==
  [magic |-> m, version |-> v, status |-> s, reserved |-> r, id |-> i,
   value_length |-> l, value |-> Body(l, MaxValueLength, 2)]

\* Requests with their fields at and around every limit.
SomeRequests ==
  {Request(magic, version, o, 0, LargestId - o, MaxKeyLength, l, t) :
     o \in 0 .. 4, l \in {0, MaxValueLength, MaxValueLength + 1},
     t \in {0, MaxTtl, MaxTtl + 1}}
  \union {Request(magic, version, Opcode.set, 0, 7, k, l, 1) :
     k \in {0, 1, MaxKeyLength + 1}, l \in {0, 1, ByteBase ^ 4 - 1}}
  \union {Request(magic + i, version + j, Opcode.get, n, 0, 1, 0, 0) :
     i, j, n \in 0 .. 1}

SomeResponses ==
  {Response(magic + i, version + j, s, n, LargestId - s, l) :
     i, j, n \in 0 .. 1, s \in {0, LastStatus, LastStatus + 1},
     l \in {0, MaxValueLength, MaxValueLength + 1}}

AnyFrame == [request |-> SomeRequests, response |-> SomeResponses]
==============================================================================
