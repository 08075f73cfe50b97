----------------------------- MODULE CacheServer -----------------------------
(***************************************************************************)
(* The threads of src/net/cache_server.cpp: the thread that starts, stops  *)
(* and joins the server (src/server/main.cpp), the acceptor and the        *)
(* workers, with their stop flags, eventfds, pending queues and epoll      *)
(* sets.  Every access to shared state is a step of its own; a section     *)
(* under pending_mutex_ is one step.  What a connection does with its      *)
(* bytes is left to the module Connection: here an event either keeps the  *)
(* connection or closes it.  The kernel gives a closed descriptor's number *)
(* out again, and clients may connect again and again.  An event names one *)
(* descriptor, and epoll_wait reports each at most once.                   *)
(***************************************************************************)
EXTENDS Integers, FiniteSets, SequencesExt

CONSTANTS
  NumWorkers,   \* options_.worker_threads
  Fds,          \* descriptor numbers the kernel uses for connections
  NoFd,         \* the acceptor holds no descriptor
  MaxBacklog    \* the length of the listen queue

ASSUME ServerAssumption ==
  /\ NumWorkers \in Nat \ {0}
  /\ NoFd \notin Fds
  /\ MaxBacklog \in Nat \ {0}

Workers == 1 .. NumWorkers

VARIABLES
  main,            \* where start, sigwait, request_stop and join are
  index,           \* their loop index over workers_
  stop_requested,  \* Impl::stop_requested_
  stop_event,      \* Impl::stop_event_ is readable
  running,         \* running_
  acceptor,        \* where run_acceptor is
  ready,           \* events the acceptor still has to handle
  timer,           \* timer_ is readable
  accepted,        \* the descriptor accept_connections is handing over
  target,          \* the worker that gets it
  next_worker,     \* next_worker_ % workers_.size(), as an index of workers_
  backlog,         \* how many connections wait in the listen queue
  open,            \* descriptors of connections that are open
  worker,          \* where run of each worker is
  stopping,        \* Worker::stop_requested_
  wakeup,          \* Worker::wakeup_ is readable
  pending,         \* pending_
  installing,      \* the vector install_pending has swapped out
  connections,     \* keys of connections_, which epoll watches
  batch,           \* events of epoll_wait the worker still has to handle
  wakeup_seen,     \* wakeup_seen
  broken           \* workers whose epoll_wait has failed (history)

mainVars == <<main, index, stop_requested, stop_event>>
acceptorVars == <<acceptor, ready, accepted, target, next_worker>>
workerVars == <<worker, installing, connections, batch, wakeup_seen, broken>>
sharedVars == <<running, timer, backlog, open, stopping, wakeup, pending>>
vars == <<mainVars, acceptorVars, workerVars, sharedVars>>

\* UniqueFd closing its descriptor.
Close(fds) == open' = open \ fds

\* wake_event on a worker's eventfd, which stays readable until it is drained.
wake_event(w) == wakeup' = [wakeup EXCEPT ![w] = TRUE]

\* drain_counter on a worker's eventfd: however often it was written to, one
\* read takes all of it.
drain_counter(w) == wakeup' = [wakeup EXCEPT ![w] = FALSE]

\* Worker::join returns: the thread has ended, or was never started.
Joined(w) == worker[w] \in {"none", "done"}

\* The event of wakeup_ in what epoll_wait returns to a worker.
WakeEvent == NoFd
------------------------------------------------------------------------------
\* Impl::start starting the next worker thread.
StartWorker ==
  /\ main = "start_workers" /\ index \in Workers
  /\ worker' = [worker EXCEPT ![index] = "check"]
  /\ index' = index + 1
  /\ UNCHANGED <<main, stop_requested, stop_event, acceptorVars, installing,
                 connections, batch, wakeup_seen, broken, sharedVars>>

SetRunning ==
  /\ main = "start_workers" /\ index \notin Workers
  /\ running' = TRUE
  /\ main' = "start_acceptor"
  /\ UNCHANGED <<index, stop_requested, stop_event, acceptorVars, workerVars,
                 timer, backlog, open, stopping, wakeup, pending>>

StartAcceptor ==
  /\ main = "start_acceptor"
  /\ acceptor' = "check"
  /\ main' = "sigwait"
  /\ UNCHANGED <<index, stop_requested, stop_event, ready, accepted, target,
                 next_worker, workerVars, sharedVars>>

\* A thread cannot be created, or the timer not armed: start stops and joins
\* the workers it has started and throws, and the server is destroyed.  With
\* no acceptor, that is what join does.
StartFails ==
  /\ main \in {"start_workers", "start_acceptor"}
  /\ running' = FALSE
  /\ main' = "stop_workers"
  /\ index' = 1
  /\ UNCHANGED <<stop_requested, stop_event, acceptorVars, workerVars, timer,
                 backlog, open, stopping, wakeup, pending>>

\* Impl::request_stop after a signal: the flag first, then the eventfd.
RequestStop ==
  /\ \/ /\ main = "sigwait"
        /\ stop_requested' = TRUE
        /\ main' = "wake_acceptor"
        /\ UNCHANGED stop_event
     \/ /\ main = "wake_acceptor"
        /\ stop_event' = TRUE
        /\ main' = "join_acceptor"
        /\ UNCHANGED stop_requested
  /\ UNCHANGED <<index, acceptorVars, workerVars, sharedVars>>

\* Mutant of AcceptorJoined: the acceptor thread is not waited for.
AcceptorDetached == TRUE

AcceptorJoined == acceptor = "done"

JoinAcceptor ==
  /\ main = "join_acceptor"
  /\ AcceptorJoined
  /\ main' = "stop_workers"
  /\ index' = 1
  /\ UNCHANGED <<stop_requested, stop_event, acceptorVars, workerVars, sharedVars>>

\* Mutant of StopWorker: the eventfd first, then the flag.
WakeThenStopWorker ==
  /\ index \in Workers
  /\ \/ /\ main = "stop_workers"
        /\ wake_event(index)
        /\ main' = "wake_workers"
        /\ UNCHANGED <<index, stopping>>
     \/ /\ main = "wake_workers"
        /\ stopping' = [stopping EXCEPT ![index] = TRUE]
        /\ main' = "stop_workers"
        /\ index' = index + 1
        /\ UNCHANGED wakeup
  /\ UNCHANGED <<stop_requested, stop_event, acceptorVars, workerVars, running,
                 timer, backlog, open, pending>>

\* Worker::request_stop of each worker: the flag first, then the eventfd.
StopWorker ==
  /\ index \in Workers
  /\ \/ /\ main = "stop_workers"
        /\ stopping' = [stopping EXCEPT ![index] = TRUE]
        /\ main' = "wake_workers"
        /\ UNCHANGED <<index, wakeup>>
     \/ /\ main = "wake_workers"
        /\ wake_event(index)
        /\ main' = "stop_workers"
        /\ index' = index + 1
        /\ UNCHANGED stopping
  /\ UNCHANGED <<stop_requested, stop_event, acceptorVars, workerVars, running,
                 timer, backlog, open, pending>>

\* Impl::join once every worker thread that was started has ended.
JoinWorkers ==
  /\ main = "stop_workers" /\ index \notin Workers
  /\ \A w \in Workers : Joined(w)
  /\ running' = FALSE
  /\ main' = "done"
  /\ UNCHANGED <<index, stop_requested, stop_event, acceptorVars, workerVars,
                 timer, backlog, open, stopping, wakeup, pending>>
------------------------------------------------------------------------------
\* The loop condition of run_acceptor.
CheckStop ==
  /\ acceptor = "check"
  /\ acceptor' = IF stop_requested THEN "leave" ELSE "wait"
  /\ UNCHANGED <<ready, accepted, target, next_worker, mainVars, workerVars, sharedVars>>

\* epoll_wait of the acceptor returns everything that is readable.
AcceptorWait ==
  LET readable == (IF stop_event THEN {"stop"} ELSE {})
                    \union (IF timer THEN {"timer"} ELSE {})
                    \union (IF backlog > 0 THEN {"listen"} ELSE {})
  IN  /\ acceptor = "wait"
      /\ readable # {}
      /\ ready' = readable
      /\ acceptor' = "dispatch"
      /\ UNCHANGED <<accepted, target, next_worker, mainVars, workerVars, sharedVars>>

\* epoll_wait of the acceptor fails and the loop is left.
AcceptorWaitFails ==
  /\ acceptor = "wait"
  /\ acceptor' = "leave"
  /\ UNCHANGED <<ready, accepted, target, next_worker, mainVars, workerVars,
                 sharedVars>>

\* The stop event is drained, or the timer read and the engine ticked.
HandleEventfd ==
  /\ acceptor = "dispatch"
  /\ \/ /\ "stop" \in ready
        /\ ready' = ready \ {"stop"}
        /\ stop_event' = FALSE
        /\ UNCHANGED timer
     \/ /\ "timer" \in ready
        /\ ready' = ready \ {"timer"}
        /\ timer' = FALSE
        /\ UNCHANGED stop_event
  /\ UNCHANGED <<main, index, stop_requested, acceptor, accepted, target, next_worker,
                 workerVars, running, backlog, open, stopping, wakeup, pending>>

\* The listen socket's turn, or the end of the batch.
HandleListen ==
  /\ acceptor = "dispatch"
  /\ \/ /\ "listen" \in ready
        /\ ready' = ready \ {"listen"}
        /\ acceptor' = "accept"
     \/ /\ ready = {}
        /\ acceptor' = "check"
        /\ UNCHANGED ready
  /\ UNCHANGED <<accepted, target, next_worker, mainVars, workerVars, sharedVars>>

\* accept4 returns a connection with a free descriptor number, which is meant
\* for the next worker in turn.
Accept(fd) ==
  /\ acceptor = "accept" /\ ~stop_requested
  /\ backlog > 0
  /\ fd \in Fds \ open
  /\ backlog' = backlog - 1
  /\ open' = open \union {fd}
  /\ accepted' = fd
  /\ target' = next_worker
  /\ next_worker' = (next_worker % NumWorkers) + 1
  /\ acceptor' = "enqueue"
  /\ UNCHANGED <<ready, mainVars, workerVars, running, timer,
                 stopping, wakeup, pending>>

\* accept4 reports an aborted connection: the loop goes on.
AcceptAborted ==
  /\ acceptor = "accept" /\ ~stop_requested
  /\ backlog > 0
  /\ backlog' = backlog - 1
  /\ UNCHANGED <<acceptorVars, mainVars, workerVars, running, timer, open,
                 stopping, wakeup, pending>>

\* accept_connections ends: a stop was requested, nothing is waiting, or
\* accept4 fails for want of descriptors or memory.
AcceptReturns ==
  /\ acceptor = "accept"
  /\ acceptor' = "dispatch"
  /\ UNCHANGED <<ready, accepted, target, next_worker, mainVars, workerVars, sharedVars>>

\* Worker::enqueue under pending_mutex_.  When the worker is stopping, or the
\* vector cannot grow, the socket is closed instead.
Enqueue ==
  /\ acceptor = "enqueue"
  /\ \/ /\ ~stopping[target]
        /\ pending' = [pending EXCEPT ![target] = Append(@, accepted)]
        /\ acceptor' = "wake"
        /\ UNCHANGED open
     \/ /\ Close({accepted})
        /\ acceptor' = "accept"
        /\ UNCHANGED pending
  /\ accepted' = NoFd
  /\ UNCHANGED <<ready, target, next_worker, mainVars, workerVars, running,
                 timer, backlog, stopping, wakeup>>

\* Worker::enqueue waking the worker after the lock is released.
WakeWorker ==
  /\ acceptor = "wake"
  /\ wake_event(target)
  /\ acceptor' = "accept"
  /\ UNCHANGED <<ready, accepted, target, next_worker, mainVars, workerVars,
                 running, timer, backlog, open, stopping, pending>>

AcceptorLeaves ==
  /\ acceptor = "leave"
  /\ running' = FALSE
  /\ acceptor' = "done"
  /\ UNCHANGED <<ready, accepted, target, next_worker, mainVars, workerVars, timer,
                 backlog, open, stopping, wakeup, pending>>
------------------------------------------------------------------------------
\* The loop condition of Worker::run.
WorkerCheck(w) ==
  /\ worker[w] = "check"
  /\ worker' = [worker EXCEPT ![w] = IF stopping[w] THEN "clear" ELSE "wait"]
  /\ UNCHANGED <<installing, connections, batch, wakeup_seen, broken, mainVars,
                 acceptorVars, sharedVars>>

\* epoll_wait of a worker: the wakeup if it is readable, and any connections
\* that are ready.
WorkerWait(w) ==
  /\ worker[w] = "wait"
  /\ \E fds \in SUBSET connections[w] :
       LET events == fds \union (IF wakeup[w] THEN {WakeEvent} ELSE {})
       IN  events # {} /\ batch' = [batch EXCEPT ![w] = events]
  /\ worker' = [worker EXCEPT ![w] = "handle"]
  /\ UNCHANGED <<installing, connections, wakeup_seen, broken, mainVars,
                 acceptorVars, sharedVars>>

\* epoll_wait of a worker fails and the loop is left.
WorkerWaitFails(w) ==
  /\ worker[w] = "wait"
  /\ worker' = [worker EXCEPT ![w] = "clear"]
  /\ broken' = broken \union {w}
  /\ UNCHANGED <<installing, connections, batch, wakeup_seen, mainVars,
                 acceptorVars, sharedVars>>

\* Mutant of NoteWakeup: the worker forgets that it was woken.
ForgetWakeup(w) == UNCHANGED wakeup_seen

NoteWakeup(w) == wakeup_seen' = [wakeup_seen EXCEPT ![w] = TRUE]

DrainWakeup(w) ==
  /\ worker[w] = "handle"
  /\ WakeEvent \in batch[w]
  /\ batch' = [batch EXCEPT ![w] = @ \ {WakeEvent}]
  /\ drain_counter(w)
  /\ NoteWakeup(w)
  /\ UNCHANGED <<worker, installing, connections, broken, mainVars, acceptorVars,
                 running, timer, backlog, open, stopping, pending>>

\* handle_connection_event: the connection is kept, or removed from epoll and
\* closed.  An event for an unknown descriptor would be ignored.
HandleConnection(w, fd) ==
  /\ worker[w] = "handle"
  /\ fd \in batch[w] \ {WakeEvent}
  /\ batch' = [batch EXCEPT ![w] = @ \ {fd}]
  /\ \/ UNCHANGED <<connections, open>>
     \/ /\ fd \in connections[w]
        /\ connections' = [connections EXCEPT ![w] = @ \ {fd}]
        /\ Close({fd})
  /\ UNCHANGED <<worker, installing, wakeup_seen, broken, mainVars, acceptorVars,
                 running, timer, backlog, stopping, wakeup, pending>>

\* The end of a batch: install_pending is called after a wakeup.
EndBatch(w) ==
  /\ worker[w] = "handle"
  /\ batch[w] = {}
  /\ worker' = [worker EXCEPT ![w] =
                  IF wakeup_seen[w] /\ ~stopping[w] THEN "swap" ELSE "check"]
  /\ wakeup_seen' = [wakeup_seen EXCEPT ![w] = FALSE]
  /\ UNCHANGED <<installing, connections, batch, broken, mainVars, acceptorVars,
                 sharedVars>>

\* install_pending swapping the queue out under pending_mutex_.
SwapPending(w) ==
  /\ worker[w] = "swap"
  /\ installing' = [installing EXCEPT ![w] = pending[w]]
  /\ pending' = [pending EXCEPT ![w] = <<>>]
  /\ worker' = [worker EXCEPT ![w] = "install"]
  /\ UNCHANGED <<connections, batch, wakeup_seen, broken, mainVars, acceptorVars,
                 running, timer, backlog, open, stopping, wakeup>>

\* Mutant of CloseUninstalled: the connection stays open.
LeaveUninstalled(w) == UNCHANGED open

CloseUninstalled(w) == Close({Head(installing[w])})

\* install_pending adding one connection to the map and to epoll, or closing
\* it because an allocation or epoll_ctl failed.
InstallOne(w) ==
  /\ worker[w] = "install"
  /\ installing[w] # <<>>
  /\ installing' = [installing EXCEPT ![w] = Tail(@)]
  /\ \/ /\ connections' = [connections EXCEPT ![w] = @ \union {Head(installing[w])}]
        /\ UNCHANGED open
     \/ /\ CloseUninstalled(w)
        /\ UNCHANGED connections
  /\ UNCHANGED <<worker, batch, wakeup_seen, broken, mainVars, acceptorVars, running,
                 timer, backlog, stopping, wakeup, pending>>

InstallDone(w) ==
  /\ worker[w] = "install"
  /\ installing[w] = <<>>
  /\ worker' = [worker EXCEPT ![w] = "check"]
  /\ UNCHANGED <<installing, connections, batch, wakeup_seen, broken, mainVars,
                 acceptorVars, sharedVars>>

\* Worker::run after its loop: the connections go, then what is still pending.
ClearConnections(w) ==
  /\ worker[w] = "clear"
  /\ Close(connections[w])
  /\ connections' = [connections EXCEPT ![w] = {}]
  /\ worker' = [worker EXCEPT ![w] = "clear_pending"]
  /\ UNCHANGED <<installing, batch, wakeup_seen, broken, mainVars, acceptorVars,
                 running, timer, backlog, stopping, wakeup, pending>>

\* Mutant of ClosePending: queued connections are left open.
KeepPending(w) == UNCHANGED <<open, pending>>

ClosePending(w) ==
  /\ Close(ToSet(pending[w]))
  /\ pending' = [pending EXCEPT ![w] = <<>>]

ClearPending(w) ==
  /\ worker[w] = "clear_pending"
  /\ ClosePending(w)
  /\ worker' = [worker EXCEPT ![w] = "done"]
  /\ UNCHANGED <<installing, connections, batch, wakeup_seen, broken, mainVars,
                 acceptorVars, running, timer, backlog, stopping, wakeup>>
------------------------------------------------------------------------------
ClientConnects ==
  /\ backlog < MaxBacklog
  /\ backlog' = backlog + 1
  /\ UNCHANGED <<mainVars, acceptorVars, workerVars, running, timer, open,
                 stopping, wakeup, pending>>

\* The armed timerfd expires.  While the acceptor accepts, or before and after
\* it runs, an expiry makes no difference to it.
TimerExpires ==
  /\ ~timer /\ acceptor \in {"check", "wait", "dispatch"}
  /\ timer' = TRUE
  /\ UNCHANGED <<mainVars, acceptorVars, workerVars, running, backlog, open,
                 stopping, wakeup, pending>>

Init ==
  /\ main = "start_workers" /\ index = 1
  /\ stop_requested = FALSE /\ stop_event = FALSE /\ running = FALSE
  /\ acceptor = "none" /\ ready = {} /\ accepted = NoFd
  /\ target = 1 /\ next_worker = 1
  /\ timer = FALSE /\ backlog = 0 /\ open = {}
  /\ worker = [w \in Workers |-> "none"]
  /\ stopping = [w \in Workers |-> FALSE]
  /\ wakeup = [w \in Workers |-> FALSE]
  /\ pending = [w \in Workers |-> <<>>]
  /\ installing = [w \in Workers |-> <<>>]
  /\ connections = [w \in Workers |-> {}]
  /\ batch = [w \in Workers |-> {}]
  /\ wakeup_seen = [w \in Workers |-> FALSE]
  /\ broken = {}

MainNext ==
  \/ StartWorker \/ SetRunning \/ StartAcceptor \/ StartFails
  \/ RequestStop \/ JoinAcceptor \/ StopWorker \/ JoinWorkers

AcceptorNext ==
  \/ CheckStop \/ AcceptorWait \/ HandleEventfd \/ HandleListen
  \/ (\E fd \in Fds : Accept(fd)) \/ AcceptAborted
  \/ AcceptReturns \/ Enqueue \/ WakeWorker \/ AcceptorLeaves

WorkerNext(w) ==
  \/ WorkerCheck(w) \/ WorkerWait(w) \/ DrainWakeup(w)
  \/ \E fd \in batch[w] : HandleConnection(w, fd)
  \/ EndBatch(w) \/ SwapPending(w) \/ InstallOne(w) \/ InstallDone(w)
  \/ ClearConnections(w) \/ ClearPending(w)

\* What the clients, the clock and failing system calls do.
EnvironmentNext ==
  \/ ClientConnects
  \/ TimerExpires
  \/ AcceptorWaitFails
  \/ \E w \in Workers : WorkerWaitFails(w)

Next ==
  \/ MainNext
  \/ AcceptorNext
  \/ \E w \in Workers : WorkerNext(w)
  \/ EnvironmentNext

Spec == Init /\ [][Next]_vars

\* Every thread that can go on does: the one that stops the server (but a
\* signal need never come), the acceptor, and each worker, which is only
\* certain to return from epoll_wait when its eventfd is readable.
Fairness ==
  /\ WF_vars(MainNext /\ main # "sigwait")
  /\ WF_vars(AcceptorNext)
  /\ \A w \in Workers : WF_vars(WorkerNext(w) /\ (worker[w] = "wait" => wakeup[w]))

FairSpec == Spec /\ Fairness
------------------------------------------------------------------------------
\* Every place a descriptor can be in.
Holder == {<<"accepted", 0>>} \union
          ({"pending", "installing", "connections"} \X Workers)

Holds(h) == CASE h[1] = "accepted" -> {accepted} \ {NoFd}
              [] h[1] = "pending" -> ToSet(pending[h[2]])
              [] h[1] = "installing" -> ToSet(installing[h[2]])
              [] h[1] = "connections" -> connections[h[2]]

\* Every open connection is in exactly one place (the acceptor's hand, one
\* worker's queue, one worker's map), across the handover between threads: no
\* descriptor leaks, none is closed twice, and the emplace of install_pending
\* always finds its number unused.
DescriptorsOwnedOnce ==
  /\ open = UNION {Holds(h) : h \in Holder}
  /\ \A g, h \in Holder : g # h => Holds(g) \cap Holds(h) = {}
  /\ \A w \in Workers : IsInjective(pending[w]) /\ IsInjective(installing[w])

\* While the acceptor runs no worker has been asked to stop: join waits for
\* the acceptor first, so no connection is handed to a worker that is gone.
AcceptorStopsFirst ==
  acceptor \notin {"none", "done"} => \A w \in Workers : ~stopping[w]

\* Once join has returned all threads have ended, running() is false, and no
\* connection is open but those queued for a worker whose epoll_wait had
\* failed before; running() is false as soon as the acceptor has ended.
StoppedIsClean ==
  /\ acceptor = "done" => ~running
  /\ main = "done" =>
       /\ ~running
       /\ acceptor \in {"none", "done"}
       /\ \A w \in Workers : worker[w] \in {"none", "done"}
       /\ open = UNION {ToSet(pending[w]) : w \in broken}

\* A signal, or a failing start, always ends in a stopped server: no thread
\* sleeps through the request, whenever it comes.
ShutdownCompletes ==
  main \notin {"start_workers", "start_acceptor", "sigwait"} ~> main = "done"

\* A connection handed to a worker is installed or closed, unless epoll_wait
\* of the worker has failed: the wake-up of enqueue is never lost.
HandoverCompletes ==
  \A w \in Workers : pending[w] # <<>> ~> (pending[w] = <<>> \/ w \in broken)
==============================================================================
