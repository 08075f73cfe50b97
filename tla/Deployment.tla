----------------------------- MODULE Deployment ------------------------------
(***************************************************************************)
(* A server process and its clients.  ServerProcess and Client are what    *)
(* the two programs do; this module adds what the server's threads do with *)
(* a client's connection, as the modules CacheServer, Connection and       *)
(* CacheEngine are checked to do it: accept it, execute its request once   *)
(* all of it has arrived, send the response in pieces, and close it.       *)
(***************************************************************************)
EXTENDS ServerProcess, Client

VARIABLES
  accepting,     \* run_acceptor is in its loop (it leaves it if epoll_wait fails)
  outcome        \* what the engine did with each client's request, or "none"

vars == <<processVars, clientVars, accepting, outcome>>

WireStatus ==
  [ok |-> 0, not_found |-> 1, invalid_key |-> 2, key_too_large |-> 3,
   value_too_large |-> 4, item_too_large |-> 5, invalid_ttl |-> 6,
   protocol_error |-> 7, internal_error |-> 8]

\* What the engine can do with a request: the CacheStatus (or "throws") and
\* the keys cached then.  The limits on sizes that remain are the shard's.
EngineAnswers(r) ==
  LET same(s) == [status |-> s, cached |-> cached]
      found == r.key \in cached
  IN  {same("throws")} \union
      IF r.key = "" THEN {same("invalid_key")}
      ELSE CASE r.opcode = "set" ->
                  {same("item_too_large"), [status |-> "ok", cached |-> cached \union {r.key}]}
             [] r.opcode = "get" -> {same(IF found THEN "ok" ELSE "not_found")}
             [] r.opcode = "delete" ->
                  {[status |-> IF found THEN "ok" ELSE "not_found",
                    cached |-> cached \ {r.key}]}

\* to_wire_status of a CacheStatus, and the catch clause of execute.
to_wire_status(s) ==
  IF s \in DOMAIN WireStatus THEN WireStatus[s]
  ELSE WireStatus["internal_error"]
------------------------------------------------------------------------------
AcceptConnection(c) ==
  /\ threads = "run" /\ accepting
  /\ link[c] = "queued"
  /\ link' = [link EXCEPT ![c] = "served"]
  /\ UNCHANGED <<processVars, client, request, sent, answer, replied, received,
                 status, accepting, outcome>>

\* Connection::execute, with the response queued.  The client may be gone.
Execute(c) ==
  /\ threads # "none" /\ link[c] = "served"
  /\ sent[c] = RequestLength /\ outcome[c] = "none"
  /\ \E a \in EngineAnswers(request[c]) :
       /\ cached' = a.cached
       /\ outcome' = [outcome EXCEPT ![c] = a.status]
       /\ answer' = [answer EXCEPT ![c] = to_wire_status(a.status)]
  /\ UNCHANGED <<main, setupVars, log, signalVars, listening, threads, exit,
                 client, request, link, sent, replied, received, status, accepting>>

\* handle_writable sends a piece of the response.
Reply(c) ==
  /\ threads # "none" /\ link[c] = "served"
  /\ answer[c] # NoAnswer /\ replied[c] < ResponseLength
  /\ replied' = [replied EXCEPT ![c] = @ + 1]
  /\ UNCHANGED <<processVars, client, request, link, sent, answer, received,
                 status, accepting, outcome>>

\* The worker closes the connection: the client has closed it, a limit is
\* reached, a call fails, or the worker stops.
CloseConnection(c) ==
  /\ threads # "none" /\ link[c] = "served"
  /\ link' = [link EXCEPT ![c] = "closed"]
  /\ UNCHANGED <<processVars, client, request, sent, answer, replied, received,
                 status, accepting, outcome>>

\* An entry expires, or is evicted for another one.
Forget(k) ==
  /\ threads # "none" /\ k \in cached
  /\ cached' = cached \ {k}
  /\ UNCHANGED <<main, setupVars, log, signalVars, listening, threads, exit,
                 clientVars, accepting, outcome>>

\* epoll_wait of the acceptor fails: it leaves its loop, the workers go on.
AcceptorLeaves ==
  /\ threads # "none" /\ accepting
  /\ accepting' = FALSE
  /\ UNCHANGED <<processVars, clientVars, outcome>>

\* What a step of the server's process does to the connections: when its
\* threads have ended none is served any more; when it has closed its listen
\* socket, or is gone, those that were never accepted are closed as well.
Connections ==
  /\ link' = [c \in Clients |->
                IF \/ link[c] = "served" /\ threads' = "none"
                   \/ link[c] = "queued" /\ ~listening'
                THEN "closed" ELSE link[c]]
  /\ UNCHANGED <<client, request, sent, answer, replied, received, status,
                 accepting, outcome>>

\* Clients are started when the server has, or has not, got its listen socket:
\* before, connecting would only fail, as it still may then.
ClientStep(c) ==
  /\ main \notin {"arguments", "config", "block", "engine", "listen"}
  /\ ClientNext(c, listening)
  /\ UNCHANGED <<processVars, accepting, outcome>>

\* Somebody runs the client again, when the server is done with the last run.
Rerun(c) ==
  /\ client[c] = "ended" /\ link[c] \in {"none", "closed"}
  /\ client' = [client EXCEPT ![c] = "arguments"]
  /\ request' = [request EXCEPT ![c] = NoRequest]
  /\ link' = [link EXCEPT ![c] = "none"]
  /\ sent' = [sent EXCEPT ![c] = 0]
  /\ answer' = [answer EXCEPT ![c] = NoAnswer]
  /\ replied' = [replied EXCEPT ![c] = 0]
  /\ received' = [received EXCEPT ![c] = 0]
  /\ status' = [status EXCEPT ![c] = Running]
  /\ outcome' = [outcome EXCEPT ![c] = "none"]
  /\ UNCHANGED <<processVars, accepting>>

SessionStep(c) == AcceptConnection(c) \/ Execute(c) \/ Reply(c)

Init ==
  /\ ProcessInit
  /\ ClientInit
  /\ accepting = TRUE
  /\ outcome = [c \in Clients |-> "none"]

Next ==
  \/ ProcessNext /\ Connections
  \/ \E c \in Clients : ClientStep(c) \/ SessionStep(c) \/ CloseConnection(c) \/ Rerun(c)
  \/ \E k \in cached : Forget(k)
  \/ AcceptorLeaves

\* main goes on once it has read its configuration, which may be a file that
\* never ends, and so do the threads it waits for; every client goes on: a call
\* of it that waits ends, if only by its time-out.
FairSpec ==
  /\ Init /\ [][Next]_vars
  /\ WF_vars(Serve /\ Connections)
  /\ \A c \in Clients : WF_vars(ClientStep(c))
------------------------------------------------------------------------------
\* Loading a configuration file answers what its author meant: each key the
\* value of the one line that sets it, or its default; a wrong or repeated line
\* is refused, the first one reported, and so is a file that cannot be read to
\* its end, whatever the lines before said.
ParsesAsDeclared ==
  main \in {"block", "unwind"} /\ file \notin {NoFile, Missing} =>
    Means(file.items, file.bad, config)

\* A signal kills the process only before any client could connect; a process
\* that had its threads running ends with them joined and every connection
\* closed, and reports success only if it was told to stop and has said so.
EndsGracefully ==
  /\ exit = "killed" => log = <<>> /\ \A c \in Clients : link[c] = "none"
  /\ exit # "running" =>
       /\ threads = "none"
       /\ \A c \in Clients : link[c] \notin {"queued", "served"}
  /\ log # <<>> =>
       (exit = "success" <=> main = "ended" /\ log[Len(log)].what = "stopped")

\* The metrics in the log are final: they count every entry the clients'
\* requests left behind, and no request is executed after them.
FinalMetrics ==
  \A i \in DOMAIN log :
    log[i].what = "metrics" => log[i].entries = Cardinality(cached)

\* What a client's exit status says is true: 0 that the engine did what was
\* asked, 2 that it refused or failed; and the engine never does a part of a
\* request, nor one the client could not encode.
ExitTruthful ==
  \A c \in Clients :
    /\ status[c] = 0 => outcome[c] = "ok"
    /\ status[c] = 2 => outcome[c] \notin {"ok", "none"}
    /\ outcome[c] # "none" => request[c].encodable /\ sent[c] = RequestLength

\* SIGINT or SIGTERM always ends the process, whenever it comes and whatever
\* the clients do.
SignalEndsProcess == signals # {} ~> exit # "running"

\* Every client that is run ends, even one whose connection is never accepted
\* or whose request is never answered.
ClientsEnd ==
  \A c \in Clients : client[c] \notin {"arguments", "ended"} ~> client[c] = "ended"
==============================================================================
