------------------------------ MODULE Lifecycle ------------------------------
(***************************************************************************)
(* How the broker starts and stops: main and sig_handler of src/main.cpp,  *)
(* start, stop and run of HttpServer and of TcpServer.                     *)
(*                                                                         *)
(* Three threads matter: main, which becomes the acceptor of the Kafka     *)
(* server; the thread of the HTTP server; and a worker of the Kafka        *)
(* server, one for all of them, since they are started and joined          *)
(* together (WorkerHandoff has them one by one).  The last two serve       *)
(* requests, which use the storage that main owns.  sig_handler runs on    *)
(* main, between any two of its steps; std::signal blocks the signal until *)
(* the handler has returned.  All three threads write to std::cout, whose  *)
(* lock main keeps while the handler interrupts it in there, and the other *)
(* two do so with a mutex of the storage held.                             *)
(***************************************************************************)
EXTENDS Naturals

CONSTANTS
  MaxSignals,    \* bound on the signals the process gets
  MaxClients     \* bound on the connections the acceptor accepts

ASSUME LifecycleAssumption == MaxSignals \in Nat /\ MaxClients \in Nat

VARIABLES
  main,            \* where main is
  handler,         \* where sig_handler is, or "off"
  g_http, g_server,       \* whether g_http_server and g_server are set
  http_running, running,  \* running_ of HttpServer and of TcpServer
  http_thread,     \* HttpServer::thread_: "none", "check" of its flag, "wait" in
                   \* epoll_wait, "serve", "lock" a mutex of the storage, "print"
                   \* or "exited"
  joinable,        \* whether thread_ of HttpServer is to be joined
  worker_running,  \* WorkerThread::running_
  worker,          \* the worker's thread, in the same way
  alive,           \* the objects of main that exist
  clients,         \* number of connections accepted so far
  signals,         \* number of signals so far
  early,           \* history: a signal came before the acceptor's loop
  terminated       \* history: std::terminate was called

flags == <<http_running, running, worker_running>>
threads == <<http_thread, joinable, worker>>
globals == <<g_http, g_server, alive>>
signalVars == <<handler, signals, early>>
vars == <<main, clients, signalVars, globals, flags, threads, terminated>>

Storage == "storage"      \* sharded_logs, known_topics, group_mgr and their mutexes

Init ==
  /\ main = "http" /\ handler = "off"
  /\ g_http = FALSE /\ g_server = FALSE
  /\ http_running = FALSE /\ running = FALSE /\ worker_running = FALSE
  /\ http_thread = "none" /\ joinable = FALSE /\ worker = "none"
  /\ alive = {Storage} /\ clients = 0 /\ signals = 0 /\ early = FALSE /\ terminated = FALSE

-----------------------------------------------------------------------------
(***************************************************************************)
(* main, from the construction of the HTTP server on                       *)
(***************************************************************************)

\* main runs unless the handler has interrupted it.
Main(pc) == main = pc /\ handler = "off" /\ ~terminated
GoTo(pc) == main' = pc

\* The HTTP server is constructed and announced to the handler.
MakeHttp ==
  /\ Main("http") /\ GoTo("bind_http")
  /\ alive' = alive \cup {"http_server"} /\ g_http' = TRUE
  /\ UNCHANGED <<clients, signalVars, g_server, flags, threads, terminated>>

\* bind_and_listen of the HTTP server; without its port the broker goes on.
BindHttp ==
  /\ Main("bind_http") /\ (GoTo("start_http") \/ GoTo("tcp"))
  /\ UNCHANGED <<clients, signalVars, globals, flags, threads, terminated>>

\* HttpServer::start sets the flag and then makes the thread.
start_flag ==
  /\ Main("start_http") /\ GoTo("start_thread")
  /\ http_running' = TRUE
  /\ UNCHANGED <<clients, signalVars, globals, running, worker_running, threads, terminated>>

start_thread ==
  /\ Main("start_thread") /\ GoTo("tcp")
  /\ http_thread' = "check" /\ joinable' = TRUE
  /\ UNCHANGED <<clients, signalVars, globals, flags, worker, terminated>>

MakeServer ==
  /\ Main("tcp") /\ GoTo("bind")
  /\ alive' = alive \cup {"server"} /\ g_server' = TRUE
  /\ UNCHANGED <<clients, signalVars, g_http, flags, threads, terminated>>

\* bind_and_listen of the Kafka server; if it fails main stops the HTTP server
\* and returns.
Bind ==
  /\ Main("bind") /\ (GoTo("run") \/ GoTo("stop_http"))
  /\ UNCHANGED <<clients, signalVars, globals, flags, threads, terminated>>

\* TcpServer::run starts the workers, ...
StartWorkers ==
  /\ Main("run") /\ GoTo("set_running")
  /\ worker_running' = TRUE /\ worker' = "check"
  /\ UNCHANGED <<clients, signalVars, globals, http_running, running, http_thread, joinable, terminated>>

\* ... sets running_ whatever it was, ...
SetRunning ==
  /\ Main("set_running") /\ GoTo("loop")
  /\ running' = TRUE
  /\ UNCHANGED <<clients, signalVars, globals, http_running, worker_running, threads, terminated>>

\* ... accepts connections, each of which it reports on std::cout, ...
Accept ==
  /\ Main("loop") /\ clients < MaxClients /\ GoTo("print")
  /\ clients' = clients + 1
  /\ UNCHANGED <<signalVars, globals, flags, threads, terminated>>

Printed ==
  /\ Main("print") /\ GoTo("loop")
  /\ UNCHANGED <<clients, signalVars, globals, flags, threads, terminated>>

\* ... until running_ is false or epoll_wait fails.
LeaveLoop ==
  /\ Main("loop") /\ GoTo("stop_workers")
  /\ UNCHANGED <<clients, signalVars, globals, flags, threads, terminated>>

StopWorkers ==
  /\ Main("stop_workers") /\ GoTo("join_workers")
  /\ worker_running' = FALSE
  /\ UNCHANGED <<clients, signalVars, globals, http_running, running, threads, terminated>>

JoinWorkers ==
  /\ Main("join_workers") /\ worker = "exited" /\ GoTo("stop_http")
  /\ UNCHANGED <<clients, signalVars, globals, flags, threads, terminated>>

\* Mutant of stop_http: the flag is cleared and the thread left alone.
stop_http_flag ==
  /\ Main("stop_http") /\ GoTo("destroy_server") /\ http_running' = FALSE
  /\ UNCHANGED <<clients, signalVars, globals, running, worker_running, threads, terminated>>

\* http_server.stop() on main.
stop_http ==
  /\ Main("stop_http")
  /\ http_running' = FALSE
  /\ IF http_running /\ joinable THEN GoTo("join_http") ELSE GoTo("destroy_server")
  /\ UNCHANGED <<clients, signalVars, globals, running, worker_running, threads, terminated>>

join_http ==
  /\ Main("join_http") /\ http_thread = "exited" /\ GoTo("destroy_server")
  /\ joinable' = FALSE
  /\ UNCHANGED <<clients, signalVars, globals, flags, http_thread, worker, terminated>>

\* main returns; its objects are destroyed last to first.  The pointers stay.
DestroyServer ==
  /\ Main("destroy_server") /\ GoTo("destroy_http")
  /\ running' = FALSE /\ alive' = alive \ {"server"}
  /\ UNCHANGED <<clients, signalVars, g_http, g_server, http_running, worker_running, threads, terminated>>

\* ~HttpServer stops once more, for nothing; a std::thread that is destroyed
\* before it has been joined ends the process.
DestroyHttp ==
  /\ Main("destroy_http") /\ GoTo("destroy_storage")
  /\ alive' = alive \ {"http_server"}
  /\ terminated' = joinable
  /\ UNCHANGED <<clients, signalVars, g_http, g_server, flags, threads>>

DestroyStorage ==
  /\ Main("destroy_storage") /\ GoTo("exited")
  /\ alive' = alive \ {Storage}
  /\ UNCHANGED <<clients, signalVars, g_http, g_server, flags, threads, terminated>>

-----------------------------------------------------------------------------
(***************************************************************************)
(* sig_handler                                                             *)
(***************************************************************************)

Starting == {"http", "bind_http", "start_http", "start_thread", "tcp", "bind", "run", "set_running"}
Ending == {"destroy_server", "destroy_http", "destroy_storage", "exited"}

\* A signal interrupts main.  g_http_server and g_server are never cleared; the
\* flags of a server that main has destroyed keep their values in main's frame.
Signal ==
  /\ handler = "off" /\ signals < MaxSignals /\ main # "exited" /\ ~terminated
  /\ handler' = "http" /\ signals' = signals + 1
  /\ early' = (early \/ main \in Starting)
  /\ UNCHANGED <<main, clients, globals, flags, threads, terminated>>

\* Mutant of handler_stop_http: the thread is joined whether it exists or not.
handler_always_joins ==
  /\ handler = "http"
  /\ http_running' = IF g_http THEN FALSE ELSE http_running
  /\ handler' = IF g_http /\ http_running THEN "join" ELSE "server"
  /\ UNCHANGED <<main, clients, signals, early, globals, running, worker_running, threads, terminated>>

\* g_http_server->stop(): the flag, and the join.
handler_stop_http ==
  /\ handler = "http"
  /\ http_running' = IF g_http THEN FALSE ELSE http_running
  /\ handler' = IF g_http /\ http_running /\ joinable THEN "join" ELSE "server"
  /\ UNCHANGED <<main, clients, signals, early, globals, running, worker_running, threads, terminated>>

handler_join ==
  /\ handler = "join" /\ http_thread = "exited"
  /\ handler' = "server" /\ joinable' = FALSE
  /\ UNCHANGED <<main, clients, signals, early, globals, flags, http_thread, worker, terminated>>

\* Mutant of handler_stop_server: the acceptor is not told.
handler_return ==
  /\ handler = "server" /\ handler' = "off"
  /\ UNCHANGED <<main, clients, signals, early, globals, flags, threads, terminated>>

handler_stop_server ==
  /\ handler = "server" /\ handler' = "off"
  /\ running' = IF g_server THEN FALSE ELSE running
  /\ UNCHANGED <<main, clients, signals, early, globals, http_running, worker_running, threads, terminated>>

-----------------------------------------------------------------------------
(***************************************************************************)
(* The threads that serve requests load their flag, wait for events and    *)
(* serve those, each request to its end: it may need a mutex of the        *)
(* storage, which the other thread keeps while it prints, and std::cout,   *)
(* which main keeps while it prints.                                       *)
(***************************************************************************)

\* The next place of a thread; epoll_wait returns with events, or because of
\* its timeout or of the byte in the wakeup pipe.
Turn(pc, flag, other) ==
  CASE pc = "check" -> {IF flag THEN "wait" ELSE "exited"}
    [] pc = "wait"  -> {"serve", "check"}
    [] pc = "serve" -> {"lock", "print", "check"}
    [] pc = "lock" /\ other # "print" -> {"print", "check"}
    [] pc = "print" /\ main # "print" -> {"check"}
    [] OTHER -> {}

http_step ==
  /\ http_thread' \in Turn(http_thread, http_running, worker)
  /\ UNCHANGED <<main, clients, signalVars, globals, flags, joinable, worker, terminated>>

\* epoll_wait of the HTTP server fails: its thread ends, whatever its flag.
http_error ==
  /\ http_thread = "wait" /\ http_thread' = "exited"
  /\ UNCHANGED <<main, clients, signalVars, globals, flags, joinable, worker, terminated>>

worker_step ==
  /\ worker' \in Turn(worker, worker_running, http_thread)
  /\ UNCHANGED <<main, clients, signalVars, globals, flags, http_thread, joinable, terminated>>

\* epoll_wait of a worker fails: its thread ends, whatever its flag.
worker_error ==
  /\ worker = "wait" /\ worker' = "exited"
  /\ UNCHANGED <<main, clients, signalVars, globals, flags, http_thread, joinable, terminated>>

-----------------------------------------------------------------------------
Handler == handler_stop_http \/ handler_join \/ handler_stop_server
MainStep ==
  \/ MakeHttp \/ BindHttp \/ start_flag \/ start_thread \/ MakeServer \/ Bind
  \/ StartWorkers \/ SetRunning \/ Printed \/ (~running /\ LeaveLoop) \/ StopWorkers \/ JoinWorkers
  \/ stop_http \/ join_http \/ DestroyServer \/ DestroyHttp \/ DestroyStorage
\* epoll_wait of the acceptor fails.
AcceptorError == running /\ LeaveLoop

Next ==
  \/ MainStep \/ Accept \/ AcceptorError \/ Signal \/ Handler
  \/ http_step \/ http_error \/ worker_step \/ worker_error

\* Every thread that can run is scheduled; one that waits for a mutex gets it if
\* that is free again and again.
Spec ==
  /\ Init /\ [][Next]_vars
  /\ WF_vars(MainStep) /\ WF_vars(Handler) /\ SF_vars(http_step) /\ SF_vars(worker_step)

-----------------------------------------------------------------------------
(***************************************************************************)
(* Properties                                                              *)
(***************************************************************************)

Serving == {"check", "wait", "serve", "lock", "print"}
Thread == Serving \cup {"none", "exited"}

\* Every variable keeps its type, and nobody waits for a thread that was not made.
TypeOK ==
  /\ main \in Starting \cup Ending \cup
             {"loop", "print", "stop_workers", "join_workers", "stop_http", "join_http"}
  /\ handler \in {"off", "http", "join", "server"}
  /\ {g_http, g_server, http_running, running, worker_running, joinable, early, terminated} \subseteq BOOLEAN
  /\ http_thread \in Thread /\ worker \in Thread
  /\ joinable \/ handler = "join" \/ main = "join_http" => http_thread # "none"
  /\ alive \subseteq {Storage, "http_server", "server"}
  /\ clients \in 0 .. MaxClients /\ signals \in 0 .. MaxSignals

Live(thread) == thread \in Serving

\* The threads that serve requests have ended, and been joined, when main begins
\* to destroy the servers and the storage they use.  Holds if no signal came
\* before the acceptor's loop, however many come after.
ThreadsEndFirst ==
  ~early /\ main \in Ending => ~Live(worker) /\ ~Live(http_thread) /\ ~terminated

\* A signal that comes while the acceptor is in its loop, or a Kafka port that
\* cannot be bound, ends the process in order, although the handler on main
\* waits for the HTTP thread, which may wait for a worker, and main afterwards
\* for the workers.  It is not promised of a signal that interrupts main while
\* it prints: the HTTP thread may wait for std::cout, and the handler for it.
StopEnds ==
  /\ (handler # "off" /\ main = "loop" /\ ~early) ~> (main = "exited" /\ ~terminated)
  /\ (main = "stop_http" /\ worker = "none" /\ ~early) ~> (main = "exited" /\ ~terminated)
=============================================================================
