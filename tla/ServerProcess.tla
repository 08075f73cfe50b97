---------------------------- MODULE ServerProcess ----------------------------
(***************************************************************************)
(* The server's process, src/server/main.cpp, with the signals it gets.    *)
(* Loading the configuration is the module Config; constructing, starting, *)
(* stopping and joining the CacheServer is what the module CacheServer is  *)
(* checked to do, and what its threads do with clients is the module       *)
(* Deployment.  A step that fails throws, and main unwinds.                *)
(***************************************************************************)
EXTENDS Config, FiniteSets

CONSTANTS
  Files,         \* configuration files: [items, bad], see the module Config
  Ipv4,          \* the hosts inet_pton accepts
  Signals,       \* SIGINT and SIGTERM, or one of them: they act alike
  NoFile,        \* no configuration file is named on the command line
  Missing        \* the file that is named cannot be opened

VARIABLES
  main,          \* the step main takes next
  file,          \* the file config is loaded from
  config,        \* the state of loading it
  minimum_level, \* Logger::minimum_level_
  log,           \* the lines of the log
  unmasked,      \* threads (main's and the server's) that do not block SIGINT
                 \* and SIGTERM: a signal is delivered to one of these
  signals,       \* signals that are pending
  listening,     \* the listen socket exists
  threads,       \* the server's threads: "none", "run" or "stopping"
  cached,        \* keys in the engine
  exit           \* how the process ended, or "running"

setupVars == <<file, config, minimum_level>>
signalVars == <<unmasked, signals>>
processVars == <<main, setupVars, log, signalVars, listening, threads, cached, exit>>

\* Mutants of Order: the metrics are read before join, nothing stops the threads.
OrderMetricsEarly ==
  <<"arguments", "config", "block", "engine", "listen", "construct", "start",
    "announce", "sigwait", "request_stop", "metrics", "join", "farewell", "return">>

OrderWithoutStop ==
  <<"arguments", "config", "block", "engine", "listen", "construct", "start",
    "announce", "sigwait", "join", "metrics", "farewell", "return">>

\* The order of main's steps.
Order ==
  <<"arguments", "config", "block", "engine", "listen", "construct", "start",
    "announce", "sigwait", "request_stop", "join", "metrics", "farewell", "return">>

At(step) == main = step /\ exit = "running"

Go == main' = Order[SelectInSeq(Order, LAMBDA step : step = main) + 1]

Throw == main' = "unwind"

Rank(level) == SelectInSeq(LogLevels, LAMBDA l : l = level)

\* Logger::log of one line.
Log(level, what, entries) ==
  log' = IF Rank(level) < Rank(minimum_level) THEN log
         ELSE Append(log, [what |-> what, entries |-> entries])

End(how) == /\ exit' = how
            /\ main' = "ended"
            /\ listening' = FALSE
            /\ signals' = {}
------------------------------------------------------------------------------
\* "--help", too many arguments, one argument, or none.
ReadArguments ==
  /\ At("arguments")
  /\ \/ /\ End("success")
        /\ UNCHANGED file
     \/ /\ Throw
        /\ UNCHANGED <<file, exit, listening, signals>>
     \/ /\ file' \in Files \union {NoFile, Missing}
        /\ Go
        /\ UNCHANGED <<exit, listening, signals>>
  /\ UNCHANGED <<config, minimum_level, log, unmasked, threads, cached>>

\* The end of loading: the logger is constructed.
Configured == Go /\ minimum_level' = config.config.log_level

\* Config::from_file, one line at a time, or the default Config.
LoadConfig ==
  /\ At("config")
  /\ \/ /\ file = NoFile
        /\ Configured
        /\ UNCHANGED config
     \/ /\ file = Missing
        /\ config' = [config EXCEPT !.error = "config_io"]
        /\ Throw
        /\ UNCHANGED minimum_level
     \/ /\ file \notin {NoFile, Missing}
        /\ LET line == config.line_number + 1
           IN  config' = IF line \in DOMAIN file.items
                         THEN ParseLine(config, Text(file.items[line]))
                         ELSE EndOfInput(config, file.bad)
        /\ IF config'.error # "none" THEN Throw /\ UNCHANGED minimum_level
           ELSE IF config' = config THEN Configured
           ELSE UNCHANGED <<main, minimum_level>>
  /\ UNCHANGED <<file, log, signalVars, listening, threads, cached, exit>>

\* Mutant of Blocking: SIG_UNBLOCK for SIG_BLOCK.
Unblocking(thread) == unmasked

Blocking(thread) == unmasked \ {thread}

\* block_shutdown_signals: pthread_sigmask is about the calling thread.  The
\* file has been closed.
BlockSignals ==
  /\ At("block")
  /\ unmasked' = Blocking("main")
  /\ file' = NoFile
  /\ Go
  /\ UNCHANGED <<config, minimum_level, log, signals, listening, threads, cached, exit>>

CreateEngine ==
  /\ At("engine")
  /\ IF config.config.shard_count # 0 THEN Go ELSE Throw
  /\ cached' = {}
  /\ UNCHANGED <<setupVars, log, signalVars, listening, threads, exit>>

\* validate_options and create_listen_socket: from here on clients can
\* connect, unless the options are refused.  The configuration is not used any
\* more.
CreateListenSocket ==
  /\ At("listen")
  /\ \/ /\ config.config.worker_threads # 0 /\ config.config.host \in Ipv4
        /\ listening' = TRUE
        /\ Go
     \/ /\ config.config.worker_threads = 0 \/ config.config.host \notin Ipv4
        /\ Throw
        /\ UNCHANGED listening
  /\ config' = Start
  /\ UNCHANGED <<file, minimum_level, log, signalVars, threads, cached, exit>>

\* The rest of the constructor: epoll, the eventfds, the timer, the workers.
Construct ==
  /\ At("construct")
  /\ Go
  /\ UNCHANGED <<setupVars, log, signalVars, listening, threads, cached, exit>>

\* CacheServer::start: a new thread has the signal mask of the one that
\* creates it.
StartServer ==
  /\ At("start")
  /\ threads' = "run"
  /\ unmasked' = unmasked \union (IF "main" \in unmasked THEN {"server"} ELSE {})
  /\ Go
  /\ UNCHANGED <<setupVars, log, signals, listening, cached, exit>>

Announce ==
  /\ At("announce")
  /\ Log("info", "listening", 0)
  /\ Go
  /\ UNCHANGED <<setupVars, signalVars, listening, threads, cached, exit>>

\* sigwait takes one of the pending signals.
WaitForSignal ==
  /\ At("sigwait")
  /\ \E s \in signals : signals' = signals \ {s}
  /\ Go
  /\ UNCHANGED <<setupVars, log, unmasked, listening, threads, cached, exit>>

RequestStop ==
  /\ At("request_stop")
  /\ threads' = "stopping"
  /\ Go
  /\ UNCHANGED <<setupVars, log, signalVars, listening, cached, exit>>

Join ==
  /\ At("join")
  /\ threads = "none"
  /\ Go
  /\ UNCHANGED <<setupVars, log, signalVars, listening, threads, cached, exit>>

\* The last two lines of the log: the metrics, of which the number of entries
\* stands for all, and the farewell.
Report ==
  /\ \/ At("metrics") /\ Log("info", "metrics", Cardinality(cached))
     \/ At("farewell") /\ Log("info", "stopped", 0)
  /\ Go
  /\ UNCHANGED <<setupVars, signalVars, listening, threads, cached, exit>>

Return ==
  /\ At("return")
  /\ End("success")
  /\ UNCHANGED <<setupVars, log, unmasked, threads, cached>>
------------------------------------------------------------------------------
\* A system call or an allocation fails.  request_stop and join are noexcept.
StepThrows ==
  /\ exit = "running"
  /\ main \in {"block", "engine", "listen", "construct", "start", "announce",
              "sigwait", "metrics", "farewell"}
  /\ Throw
  /\ UNCHANGED <<setupVars, log, signalVars, listening, threads, cached, exit>>

\* ~CacheServer, if there is one: request_stop ...
Unwind ==
  /\ At("unwind")
  /\ threads' = IF threads = "run" THEN "stopping" ELSE threads
  /\ file' = NoFile
  /\ config' = Start
  /\ main' = "unwind_join"
  /\ UNCHANGED <<minimum_level, log, signalVars, listening, cached, exit>>

\* ... and join, before the exception is reported.
UnwindJoin ==
  /\ At("unwind_join")
  /\ threads = "none"
  /\ End("failure")
  /\ UNCHANGED <<setupVars, log, unmasked, threads, cached>>

\* Impl::join can return: acceptor and workers have ended.
ThreadsEnd ==
  /\ threads = "stopping"
  /\ threads' = "none"
  /\ unmasked' = unmasked \ {"server"}
  /\ UNCHANGED <<main, setupVars, log, signals, listening, cached, exit>>

\* SIGINT or SIGTERM: its default action ends the process unless every thread
\* blocks it.
Signal(s) ==
  /\ exit = "running"
  /\ \/ /\ unmasked = {}
        /\ signals' = signals \union {s}
        /\ UNCHANGED <<main, exit, listening, threads>>
     \/ /\ unmasked # {}
        /\ End("killed")
        /\ threads' = "none"
  /\ UNCHANGED <<setupVars, log, unmasked, cached>>

ProcessInit ==
  /\ main = "arguments" /\ file = NoFile /\ config = Start
  /\ minimum_level = "info" /\ log = <<>>
  /\ unmasked = {"main"} /\ signals = {}
  /\ listening = FALSE /\ threads = "none" /\ cached = {}
  /\ exit = "running"

\* main before and after it has its configuration.
Configure == ReadArguments \/ LoadConfig

Serve ==
  \/ BlockSignals \/ CreateEngine \/ CreateListenSocket \/ Construct
  \/ StartServer \/ Announce \/ WaitForSignal \/ RequestStop \/ Join \/ Report
  \/ Return \/ Unwind \/ UnwindJoin \/ ThreadsEnd

ProcessNext == Configure \/ Serve \/ StepThrows \/ \E s \in Signals : Signal(s)
==============================================================================
