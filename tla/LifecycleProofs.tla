--------------------------- MODULE LifecycleProofs ---------------------------
(***************************************************************************)
(* Proofs about Lifecycle, for any number of signals and connections: the  *)
(* variables keep their types, and the threads that serve requests end before main        *)
(* destroys what they use.                                                 *)
(***************************************************************************)
EXTENDS Lifecycle, TLAPS

\* run() returns after it has joined the worker, and main comes to its last
\* part without a worker only if it has not called run().
WorkerEnds ==
  /\ main \in Starting \ {"set_running"} => worker = "none"
  /\ main \in Ending \cup {"stop_http", "join_http"} => worker \in {"none", "exited"}

\* A thread that may still be running is one that is to be joined.
LiveIsJoinable == Live(http_thread) => joinable

\* Whoever clears the HTTP server's flag joins the thread: it is either main or
\* the handler, whichever finds the flag set.  A signal between the two steps
\* of HttpServer::start would clear the flag and find no thread.
OneJoins ==
  ~early =>
    /\ main \in Starting => handler = "off"
    /\ main = "start_thread" => http_running
    /\ joinable /\ ~http_running => handler = "join" \/ main = "join_http"
    /\ main \in Ending => ~joinable
    /\ ~terminated

\* The inductive invariant.
IInv == TypeOK /\ WorkerEnds /\ LiveIsJoinable /\ OneJoins

\* It holds initially.
LEMMA InitIInv == Init => IInv
<1> SUFFICES ASSUME Init PROVE IInv
  OBVIOUS
<1>1. clients \in 0 .. MaxClients /\ signals \in 0 .. MaxSignals
  BY LifecycleAssumption DEF Init
<1>2. TypeOK
  BY <1>1 DEF Init, TypeOK, Starting, Thread, Serving, Storage
<1>3. WorkerEnds /\ LiveIsJoinable /\ OneJoins
  BY DEF Init, WorkerEnds, LiveIsJoinable, OneJoins, Starting, Ending, Live, Serving
<1> QED BY <1>2, <1>3 DEF IInv

\* The steps main takes until it is in the acceptor's loop keep the invariant.
LEMMA StartingIInv ==
  ASSUME IInv,
         MakeHttp \/ BindHttp \/ start_flag \/ start_thread \/ MakeServer \/ Bind \/ StartWorkers \/ SetRunning
  PROVE  IInv'
<1> USE DEF IInv, TypeOK, WorkerEnds, LiveIsJoinable, OneJoins, Starting, Ending, Thread, Serving, Live, Storage,
            Main, GoTo, signalVars, globals, flags, threads
<1>1. CASE MakeHttp
  BY <1>1 DEF MakeHttp
<1>2. CASE BindHttp
  BY <1>2 DEF BindHttp
<1>3. CASE start_flag
  BY <1>3 DEF start_flag
<1>4. CASE start_thread
  BY <1>4 DEF start_thread
<1>5. CASE MakeServer
  BY <1>5 DEF MakeServer
<1>6. CASE Bind
  BY <1>6 DEF Bind
<1>7. CASE StartWorkers
  BY <1>7 DEF StartWorkers
<1>8. CASE SetRunning
  BY <1>8 DEF SetRunning
<1> QED BY <1>1, <1>2, <1>3, <1>4, <1>5, <1>6, <1>7, <1>8

\* So do those of the acceptor's loop, and those that end run() and stop the HTTP
\* server, ...
LEMMA StoppingIInv ==
  ASSUME IInv, Accept \/ Printed \/ LeaveLoop \/ StopWorkers \/ JoinWorkers \/ stop_http \/ join_http
  PROVE  IInv'
<1> USE DEF IInv, TypeOK, WorkerEnds, LiveIsJoinable, OneJoins, Starting, Ending, Thread, Serving, Live, Storage,
            Main, GoTo, signalVars, globals, flags, threads
<1>1. CASE LeaveLoop
  BY <1>1 DEF LeaveLoop
<1>2. CASE StopWorkers
  BY <1>2 DEF StopWorkers
<1>3. CASE JoinWorkers
  BY <1>3 DEF JoinWorkers
<1>4. CASE stop_http
  BY <1>4 DEF stop_http
<1>5. CASE join_http
  BY <1>5 DEF join_http
<1>6. CASE Accept
  <2>1. clients' \in 0 .. MaxClients
    BY <1>6, LifecycleAssumption DEF Accept
  <2> QED BY <1>6, <2>1 DEF Accept
<1>7. CASE Printed
  BY <1>7 DEF Printed
<1> QED BY <1>1, <1>2, <1>3, <1>4, <1>5, <1>6, <1>7

\* ... those that destroy main's objects, ...
LEMMA EndingIInv ==
  ASSUME IInv, DestroyServer \/ DestroyHttp \/ DestroyStorage
  PROVE  IInv'
<1> USE DEF IInv, TypeOK, WorkerEnds, LiveIsJoinable, OneJoins, Starting, Ending, Thread, Serving, Live, Storage,
            Main, GoTo, signalVars, globals, flags, threads
<1>1. CASE DestroyServer
  BY <1>1 DEF DestroyServer
<1>2. CASE DestroyHttp
  BY <1>2 DEF DestroyHttp
<1>3. CASE DestroyStorage
  BY <1>3 DEF DestroyStorage
<1> QED BY <1>1, <1>2, <1>3

\* ... the signal and its handler, ...
LEMMA HandlerIInv ==
  ASSUME IInv, Signal \/ Handler
  PROVE  IInv'
<1> USE DEF IInv, TypeOK, WorkerEnds, LiveIsJoinable, OneJoins, Starting, Ending, Thread, Serving, Live, Storage,
            signalVars, globals, flags, threads
<1>1. CASE Signal
  <2>1. signals' \in 0 .. MaxSignals
    BY <1>1, LifecycleAssumption DEF Signal
  <2>2. early' \in BOOLEAN
    BY <1>1 DEF Signal
  <2>3. TypeOK'
    BY <1>1, <2>1, <2>2 DEF Signal
  <2>4. WorkerEnds' /\ LiveIsJoinable'
    BY <1>1 DEF Signal
  <2>5. OneJoins'
    BY <1>1 DEF Signal
  <2> QED BY <2>3, <2>4, <2>5
<1>2. CASE handler_stop_http
  <2>1. TypeOK'
    BY <1>2 DEF handler_stop_http
  <2>2. WorkerEnds' /\ LiveIsJoinable' /\ OneJoins'
    BY <1>2 DEF handler_stop_http
  <2> QED BY <2>1, <2>2
<1>3. CASE handler_join
  <2>1. TypeOK'
    BY <1>3 DEF handler_join
  <2>2. WorkerEnds' /\ LiveIsJoinable' /\ OneJoins'
    BY <1>3 DEF handler_join
  <2> QED BY <2>1, <2>2
<1>4. CASE handler_stop_server
  <2>1. TypeOK'
    BY <1>4 DEF handler_stop_server
  <2>2. WorkerEnds' /\ LiveIsJoinable' /\ OneJoins'
    BY <1>4 DEF handler_stop_server
  <2> QED BY <2>1, <2>2
<1> QED BY <1>1, <1>2, <1>3, <1>4 DEF Handler

\* ... and the threads that serve requests, which never come back to life.
LEMMA ThreadIInv ==
  ASSUME IInv, http_step \/ http_error \/ worker_step \/ worker_error
  PROVE  IInv'
<1> USE DEF IInv, TypeOK, WorkerEnds, LiveIsJoinable, OneJoins, Starting, Ending, Thread, Serving, Live, Storage,
            signalVars, globals, flags, threads
<1>1. ASSUME NEW pc \in Thread, NEW flag \in BOOLEAN, NEW other \in Thread
      PROVE  /\ Turn(pc, flag, other) \subseteq Thread \ {"none"}
             /\ pc \in {"none", "exited"} => Turn(pc, flag, other) = {}
  BY DEF Turn
<1>2. CASE http_step
  BY <1>1, <1>2 DEF http_step
<1>3. CASE http_error
  BY <1>3 DEF http_error
<1>4. CASE worker_step
  BY <1>1, <1>4 DEF worker_step
<1>5. CASE worker_error
  BY <1>5 DEF worker_error
<1> QED BY <1>2, <1>3, <1>4, <1>5

\* The inductive invariant holds in every state, however many signals come.
THEOREM Invariance == Spec => []IInv
<1>1. IInv /\ [Next]_vars => IInv'
  <2> SUFFICES ASSUME IInv, [Next]_vars PROVE IInv'
    OBVIOUS
  <2>1. CASE Next
    BY <2>1, StartingIInv, StoppingIInv, EndingIInv, HandlerIInv, ThreadIInv DEF Next, MainStep, AcceptorError
  <2>2. CASE UNCHANGED vars
    BY <2>2 DEF vars, signalVars, globals, flags, threads, IInv, TypeOK, WorkerEnds, LiveIsJoinable,
                OneJoins, Live
  <2> QED BY <2>1, <2>2
<1> QED BY InitIInv, <1>1, PTL DEF Spec

\* The variables of Lifecycle keep their types, and nobody waits for a thread
\* that was not made.
THEOREM TypeCorrect == Spec => []TypeOK
<1>1. IInv => TypeOK
  BY DEF IInv
<1> QED BY <1>1, Invariance, PTL

\* The HTTP thread and the workers have ended, and been joined, when main begins
\* to destroy the servers and the storage, if no signal came before the
\* acceptor's loop.
THEOREM EndCorrect == Spec => []ThreadsEndFirst
<1>1. IInv => ThreadsEndFirst
  BY DEF IInv, ThreadsEndFirst, WorkerEnds, LiveIsJoinable, OneJoins, Live, Serving, Ending
<1> QED BY <1>1, Invariance, PTL

=============================================================================
