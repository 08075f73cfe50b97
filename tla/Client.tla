------------------------------- MODULE Client --------------------------------
(***************************************************************************)
(* The command-line client, src/client/main.cpp: one process per client,   *)
(* which makes one request and exits.  A request and a response are a few  *)
(* pieces of a byte stream; the socket, its time-outs (SO_RCVTIMEO and     *)
(* SO_SNDTIMEO) and the link to the server are external.  A call that is   *)
(* interrupted (EINTR) is made again, which changes nothing.               *)
(***************************************************************************)
EXTENDS Words, Sequences

CONSTANTS
  Clients,
  Invocations,     \* command lines: argc, and the words they consist of
  Oversized,       \* keys and values encode_request refuses
  MaxTtl,          \* the largest TTL it takes
  RequestLength,   \* pieces of a request on the stream
  ResponseLength   \* pieces of a response

VARIABLES
  client,          \* where main of each client is
  request,         \* its request
  link,            \* its connection: "none", "queued" to be accepted,
                   \* "served", or "closed" by the server
  sent,            \* pieces of the request it has sent
  answer,          \* the status of the server's response, or NoAnswer
  replied,         \* pieces of the response the server has sent
  received,        \* pieces the client has read
  status           \* its exit status

clientVars == <<client, request, link, sent, answer, replied, received, status>>

NoAnswer == -1

NoRequest == [opcode |-> "none", key |-> "", encodable |-> FALSE]

\* WireStatus::ok
Ok == 0

Running == -1

\* main returns: the socket is closed.
Exit(c, code) ==
  /\ client' = [client EXCEPT ![c] = "ended"]
  /\ status' = [status EXCEPT ![c] = code]

\* Mutant of Catch: an error is reported as success.
CatchQuietly(c) == Exit(c, 0)

Catch(c) == Exit(c, 1)

Continue(c, step) ==
  /\ client' = [client EXCEPT ![c] = step]
  /\ UNCHANGED status
------------------------------------------------------------------------------
Number(word) == parse_unsigned(<<word>>)

\* The port main accepts.
PortAccepted(a) == a.argc >= 3 /\ \E n \in Number(a.port) : n \in 1 .. 65535

\* parse_request does not throw.
RequestAccepted(a) ==
  \/ a.command \in {"get", "delete"} /\ a.argc = 5
  \/ a.command = "set" /\ (a.argc = 6 \/ (a.argc = 7 /\ Number(a.ttl) # {}))

\* The request parse_request makes, and whether encode_request takes it.
parse_request(a) ==
  [opcode |-> a.command, key |-> a.key,
   encodable |-> /\ a.key \notin Oversized
                 /\ a.command = "set" => a.value \notin Oversized
                 /\ a.command = "set" /\ a.argc = 7 =>
                      \A n \in Number(a.ttl) : n <= MaxTtl]

\* main up to connect_to.
ParseArguments(c) ==
  /\ client[c] = "arguments"
  /\ \E a \in Invocations :
       IF PortAccepted(a) /\ RequestAccepted(a)
       THEN /\ request' = [request EXCEPT ![c] = parse_request(a)]
            /\ Continue(c, "connect")
       ELSE Catch(c) /\ UNCHANGED request
  /\ UNCHANGED <<link, sent, answer, replied, received>>

\* connect_to; up is whether somebody listens on the port.  It fails if nobody
\* does, for want of a socket, for a host that is no IPv4 address, or when no
\* answer comes in time.
Connect(c, up) ==
  /\ client[c] = "connect"
  /\ \/ /\ up
        /\ link' = [link EXCEPT ![c] = "queued"]
        /\ Continue(c, "encode")
     \/ /\ Catch(c)
        /\ UNCHANGED link
  /\ UNCHANGED <<request, sent, answer, replied, received>>

\* encode_request, which may throw: the client is connected by then.
Encode(c) ==
  /\ client[c] = "encode"
  /\ IF request[c].encodable THEN Continue(c, "send") ELSE Catch(c)
  /\ UNCHANGED <<request, link, sent, answer, replied, received>>

\* send_all: send takes n pieces, perhaps of a connection that is closed.
Send(c, n) ==
  /\ client[c] = "send"
  /\ n <= RequestLength - sent[c]
  /\ sent' = [sent EXCEPT ![c] = @ + n]
  /\ Continue(c, IF sent'[c] = RequestLength THEN "receive" ELSE "send")
  /\ UNCHANGED <<request, link, answer, replied, received>>

\* send reports an error, or takes nothing until it times out.
SendFails(c) ==
  /\ client[c] = "send"
  /\ Catch(c)
  /\ UNCHANGED <<request, link, sent, answer, replied, received>>

\* read_response: recv returns n pieces, and decode_response waits for more or
\* completes the response.  Its status makes the exit status.
Receive(c, n) ==
  /\ client[c] = "receive"
  /\ n <= replied[c] - received[c]
  /\ received' = [received EXCEPT ![c] = @ + n]
  /\ IF received'[c] < ResponseLength THEN Continue(c, "receive")
     ELSE Exit(c, IF answer[c] = Ok THEN 0 ELSE 2)
  /\ UNCHANGED <<request, link, sent, answer, replied>>

\* Mutant of NothingToRead: recv has no time-out.
OnlyClosed(c) == link[c] = "closed"

NothingToRead(c) == replied[c] = received[c] \/ link[c] = "closed"

\* recv returns 0, or an error (which may lose what was sent before), or
\* nothing for five seconds.
ReceiveFails(c) ==
  /\ client[c] = "receive"
  /\ NothingToRead(c)
  /\ Catch(c)
  /\ UNCHANGED <<request, link, sent, answer, replied, received>>

ClientInit ==
  /\ client = [c \in Clients |-> "arguments"]
  /\ request = [c \in Clients |-> NoRequest]
  /\ link = [c \in Clients |-> "none"]
  /\ sent = [c \in Clients |-> 0]
  /\ answer = [c \in Clients |-> NoAnswer]
  /\ replied = [c \in Clients |-> 0]
  /\ received = [c \in Clients |-> 0]
  /\ status = [c \in Clients |-> Running]

ClientNext(c, up) ==
  \/ ParseArguments(c) \/ Connect(c, up) \/ Encode(c)
  \/ (\E n \in 1 .. RequestLength : Send(c, n)) \/ SendFails(c)
  \/ (\E n \in 1 .. ResponseLength : Receive(c, n)) \/ ReceiveFails(c)
==============================================================================
