----------------------------- MODULE FabricNode -----------------------------
(***************************************************************************)
(* A node process (src/src/node.cpp, over src/src/net.cpp): the accept     *)
(* loop, one worker thread per connection, the bookkeeping of sockets and  *)
(* threads, remote shutdown, and stop().                                   *)
(*                                                                         *)
(* The behaviour starts after listen().  The accept loop runs either on a  *)
(* thread that start() made, or in the main thread, as pf_node runs it,    *)
(* which calls stop() itself once serve() returns.  Of a request only its  *)
(* effect on the connection and on the node is kept; what it does to the   *)
(* runtime is Authority and DurableStore.                                  *)
(***************************************************************************)
EXTENDS Naturals, FiniteSets

CONSTANTS Connections,      \* connections peers may make
          Handles,          \* socket handles; the platform reuses closed ones
          Stoppers,         \* threads that call stop(), Main among them unless Background
          Main,             \* the main thread
          Nobody,           \* holder of a free mutex
          Background,       \* start() runs the accept loop, rather than the main thread
          CloseWakesAccept, \* closing a listener fails a blocked accept (Winsock; not POSIX)
          IdleTimeout,      \* options.idle_timeout_ms > 0
          RemoteShutdown,   \* options.allow_remote_shutdown
          MaxConnections,   \* the values options.max_connections may have
          MaxRequests       \* Limits::max_requests_per_connection

ASSUME NodeBounds ==
    /\ Nobody \notin Stoppers \cup Connections \cup Handles
    /\ Background <=> Main \notin Stoppers
    /\ MaxConnections \subseteq Nat /\ MaxRequests \in Nat
    /\ {Background, CloseWakesAccept, IdleTimeout, RemoteShutdown} \subseteq BOOLEAN

VARIABLES max_connections,  \* options.max_connections
          stopping, listener, listening, runtime,
          serve,         \* where the accept loop is
          serving,       \* the connection it is working on
          worker,        \* connection -> where its worker is
          served,        \* connection -> requests read
          handle,        \* connection -> the handle accept returned
          sockets,       \* connections whose socket is open
          woken,         \* open connections that were shut down
          active_connections,
          live_sockets,  \* handle -> number of entries in the vector
          workers,       \* connections whose thread is in the vector
          owns_serve_thread,
          bookkeeping, stop_mutex,  \* holders of the two mutexes
          stop,          \* caller -> where its stop() is
          copied,        \* caller -> the handles it copied
          joining        \* caller -> the workers it took

loop == <<serve, serving>>
connection == <<worker, served, handle, sockets, woken>>
books == <<active_connections, live_sockets, workers, owns_serve_thread>>
stops == <<stop_mutex, stop, copied, joining>>
node == <<max_connections, stopping, listener, listening, runtime>>
vars == <<node, loop, connection, books, bookkeeping, stops>>

Init ==
    /\ max_connections \in MaxConnections
    /\ stopping = FALSE
    /\ listener = "open"
    /\ listening = TRUE
    /\ runtime = "open"
    /\ serve = "NotStarted"
    /\ serving = Nobody
    /\ worker = [c \in Connections |-> "Absent"]
    /\ served = [c \in Connections |-> 0]
    /\ handle = [c \in Connections |-> Nobody]
    /\ sockets = {}
    /\ woken = {}
    /\ active_connections = 0
    /\ live_sockets = [h \in Handles |-> 0]
    /\ workers = {}
    /\ owns_serve_thread = FALSE
    /\ bookkeeping = Nobody
    /\ stop_mutex = Nobody
    /\ stop = [s \in Stoppers |-> "Idle"]
    /\ copied = [s \in Stoppers |-> {}]
    /\ joining = [s \in Stoppers |-> {}]

-----------------------------------------------------------------------------
(* The accept loop *)

\* start(), or the call of serve() in the main thread.
Start ==
    /\ serve = "NotStarted"
    /\ bookkeeping = Nobody
    /\ owns_serve_thread' = (Background /\ listening)
    /\ serve' = IF listening THEN "Loop" ELSE "Returned"
    /\ UNCHANGED <<node, serving, connection, active_connections, live_sockets, workers,
                   bookkeeping, stops>>

CheckStopping ==
    /\ serve = "Loop"
    /\ serve' = IF stopping THEN "Returned" ELSE "Accept"
    /\ UNCHANGED <<node, serving, connection, books, bookkeeping, stops>>

\* accept_one(): a closed listener fails the call, otherwise it blocks.
EnterAccept ==
    /\ serve = "Accept"
    /\ serve' = IF listener = "open" THEN "Blocked" ELSE "Returned"
    /\ UNCHANGED <<node, serving, connection, books, bookkeeping, stops>>

\* A connection arrives.  POSIX keeps a closed listener alive for the accept blocked in it.
AcceptOne(c, h) ==
    /\ serve = "Blocked"
    /\ listener = "open" \/ ~CloseWakesAccept
    /\ worker[c] = "Absent"
    /\ h \notin {handle[d] : d \in sockets}
    /\ serve' = "Accepted"
    /\ serving' = c
    /\ worker' = [worker EXCEPT ![c] = "Accepted"]
    /\ handle' = [handle EXCEPT ![c] = h]
    /\ sockets' = sockets \cup {c}
    /\ UNCHANGED <<node, served, woken, books, bookkeeping, stops>>

\* The blocked accept fails, because the listener was closed ...
AcceptWoken ==
    /\ serve = "Blocked"
    /\ listener = "closed" /\ CloseWakesAccept
    /\ serve' = "Returned"
    /\ UNCHANGED <<node, serving, connection, books, bookkeeping, stops>>

\* ... or for any other reason, which also ends the loop.
AcceptFails ==
    /\ serve = "Blocked"
    /\ serve' = "Returned"
    /\ UNCHANGED <<node, serving, connection, books, bookkeeping, stops>>

\* At the connection limit the peer is told so and its socket is closed.
Refuse ==
    /\ serve = "Accepted"
    /\ active_connections >= max_connections
    /\ worker' = [worker EXCEPT ![serving] = "Refused"]
    /\ sockets' = sockets \ {serving}
    /\ woken' = woken \ {serving}
    /\ serve' = "Loop"
    /\ UNCHANGED <<node, serving, served, handle, books, bookkeeping, stops>>

\* The worker runs from here on; it is not in the books yet.
Spawn ==
    /\ serve = "Accepted"
    /\ active_connections < max_connections
    /\ active_connections' = active_connections + 1
    /\ worker' = [worker EXCEPT ![serving] = "Loop"]
    /\ serve' = "Spawned"
    /\ UNCHANGED <<node, serving, served, handle, sockets, woken, live_sockets, workers,
                   owns_serve_thread, bookkeeping, stops>>

Enlist ==
    /\ serve = "Spawned"
    /\ bookkeeping = Nobody
    /\ live_sockets' = [live_sockets EXCEPT ![handle[serving]] = @ + 1]
    /\ workers' = workers \cup {serving}
    /\ serve' = "Loop"
    /\ UNCHANGED <<node, serving, connection, active_connections, owns_serve_thread,
                   bookkeeping, stops>>

-----------------------------------------------------------------------------
(* A worker: handle_connection() and the bookkeeping after it *)

\* The loop ends when the node stops or the connection has used up its requests.
WorkerLoop(c) ==
    /\ worker[c] = "Loop"
    /\ IF stopping
       THEN /\ worker' = [worker EXCEPT ![c] = "Closing"]
            /\ UNCHANGED served
       ELSE /\ served' = [served EXCEPT ![c] = @ + 1]
            /\ worker' = [worker EXCEPT ![c] =
                             IF served[c] + 1 > MaxRequests THEN "Closing" ELSE "Recv"]
    /\ UNCHANGED <<node, loop, handle, sockets, woken, books, bookkeeping, stops>>

\* A frame arrives; one that is not sound ends the connection.
Receive(c) ==
    /\ worker[c] = "Recv"
    /\ c \notin woken
    /\ \E sound \in BOOLEAN :
          worker' = [worker EXCEPT ![c] = IF sound THEN "Dispatch" ELSE "Closing"]
    /\ UNCHANGED <<node, loop, served, handle, sockets, woken, books, bookkeeping, stops>>

\* The peer leaves.
PeerCloses(c) ==
    /\ worker[c] = "Recv"
    /\ worker' = [worker EXCEPT ![c] = "Closing"]
    /\ UNCHANGED <<node, loop, served, handle, sockets, woken, books, bookkeeping, stops>>

\* The read fails: the socket was shut down, or the connection was idle for too long.
ReceiveFails(c) ==
    /\ worker[c] = "Recv"
    /\ c \in woken \/ IdleTimeout
    /\ worker' = [worker EXCEPT ![c] = "Closing"]
    /\ UNCHANGED <<node, loop, served, handle, sockets, woken, books, bookkeeping, stops>>

\* A request is served and answered.  A failed handshake or a failed send ends the
\* connection, any other refusal does not.
Dispatch(c) ==
    /\ worker[c] = "Dispatch"
    /\ \E goesOn \in BOOLEAN :
          worker' = [worker EXCEPT ![c] = IF goesOn THEN "Loop" ELSE "Closing"]
    /\ UNCHANGED <<node, loop, served, handle, sockets, woken, books, bookkeeping, stops>>

\* A Shutdown request sets the flag and then closes the listener; it joins nothing.
DispatchShutdown(c) ==
    /\ worker[c] = "Dispatch"
    /\ RemoteShutdown
    /\ stopping' = TRUE
    /\ worker' = [worker EXCEPT ![c] = "Shutdown"]
    /\ UNCHANGED <<max_connections, listener, listening, runtime, loop, served, handle,
                   sockets, woken, books, bookkeeping, stops>>

CloseListener(c) ==
    /\ worker[c] = "Shutdown"
    /\ listener' = "closed"
    /\ \E sent \in BOOLEAN :
          worker' = [worker EXCEPT ![c] = IF sent THEN "Loop" ELSE "Closing"]
    /\ UNCHANGED <<max_connections, stopping, listening, runtime, loop, served, handle,
                   sockets, woken, books, bookkeeping, stops>>

\* The socket is shut down and closed: the platform may give its handle out again.
CloseSocket(c) ==
    /\ worker[c] = "Closing"
    /\ worker' = [worker EXCEPT ![c] = "Unlist"]
    /\ sockets' = sockets \ {c}
    /\ woken' = woken \ {c}
    /\ UNCHANGED <<node, loop, served, handle, books, bookkeeping, stops>>

\* Mutant: every entry with the worker's handle is erased.
UnlistAll(c) ==
    /\ worker[c] = "Unlist"
    /\ bookkeeping = Nobody
    /\ live_sockets' = [live_sockets EXCEPT ![handle[c]] = 0]
    /\ worker' = [worker EXCEPT ![c] = "Leaving"]
    /\ UNCHANGED <<node, loop, served, handle, sockets, woken, active_connections, workers,
                   owns_serve_thread, bookkeeping, stops>>

\* One entry with the worker's handle is erased, if there is one.
Unlist(c) ==
    /\ worker[c] = "Unlist"
    /\ bookkeeping = Nobody
    /\ live_sockets' = [live_sockets EXCEPT ![handle[c]] = IF @ > 0 THEN @ - 1 ELSE 0]
    /\ worker' = [worker EXCEPT ![c] = "Leaving"]
    /\ UNCHANGED <<node, loop, served, handle, sockets, woken, active_connections, workers,
                   owns_serve_thread, bookkeeping, stops>>

Leave(c) ==
    /\ worker[c] = "Leaving"
    /\ active_connections' = active_connections - 1
    /\ worker' = [worker EXCEPT ![c] = "Exited"]
    /\ UNCHANGED <<node, loop, served, handle, sockets, woken, live_sockets, workers,
                   owns_serve_thread, bookkeeping, stops>>

-----------------------------------------------------------------------------
(* stop() *)

\* The main thread calls stop() when serve() has returned.
Wanted(s) == stop[s] = "Idle" /\ (s = Main => serve = "Returned")

\* The first caller closes the listener.
StopBegin(s) ==
    /\ Wanted(s)
    /\ stop_mutex = Nobody
    /\ stop_mutex' = s
    /\ stopping' = TRUE
    /\ listener' = IF stopping THEN listener ELSE "closed"
    /\ stop' = [stop EXCEPT ![s] = "CopySockets"]
    /\ UNCHANGED <<max_connections, listening, runtime, loop, connection, books, bookkeeping,
                   copied, joining>>

CopySockets(s) ==
    /\ stop[s] = "CopySockets"
    /\ bookkeeping = Nobody
    /\ copied' = [copied EXCEPT ![s] = {h \in Handles : live_sockets[h] > 0}]
    /\ stop' = [stop EXCEPT ![s] = "Wake"]
    /\ UNCHANGED <<node, loop, connection, books, bookkeeping, stop_mutex, joining>>

\* Whatever socket has a copied handle by now is shut down.
Wake(s) ==
    /\ stop[s] = "Wake"
    /\ woken' = woken \cup {c \in sockets : handle[c] \in copied[s]}
    /\ stop' = [stop EXCEPT ![s] = "TakeWorkers"]
    /\ UNCHANGED <<node, loop, worker, served, handle, sockets, books, bookkeeping, stop_mutex,
                   copied, joining>>

TakeWorkers(s) ==
    /\ stop[s] = "TakeWorkers"
    /\ bookkeeping = Nobody
    /\ joining' = [joining EXCEPT ![s] = workers]
    /\ workers' = {}
    /\ stop' = [stop EXCEPT ![s] = "JoinWorkers"]
    /\ UNCHANGED <<node, loop, connection, active_connections, live_sockets, owns_serve_thread,
                   bookkeeping, stop_mutex, copied>>

\* Mutant: the workers are not waited for.
JoinNobody(s) ==
    /\ stop[s] = "JoinWorkers"
    /\ stop' = [stop EXCEPT ![s] = "LockBooks"]
    /\ UNCHANGED <<node, loop, connection, books, bookkeeping, stop_mutex, copied, joining>>

JoinWorkers(s) ==
    /\ stop[s] = "JoinWorkers"
    /\ \A c \in joining[s] : worker[c] = "Exited"
    /\ stop' = [stop EXCEPT ![s] = "LockBooks"]
    /\ UNCHANGED <<node, loop, connection, books, bookkeeping, stop_mutex, copied, joining>>

\* The bookkeeping mutex is held while the accept thread is joined.
LockBooks(s) ==
    /\ stop[s] = "LockBooks"
    /\ bookkeeping = Nobody
    /\ bookkeeping' = s
    /\ stop' = [stop EXCEPT ![s] = "JoinServe"]
    /\ UNCHANGED <<node, loop, connection, books, stop_mutex, copied, joining>>

JoinServe(s) ==
    /\ stop[s] = "JoinServe"
    /\ owns_serve_thread => serve = "Returned"
    /\ owns_serve_thread' = FALSE
    /\ bookkeeping' = Nobody
    /\ stop' = [stop EXCEPT ![s] = "CloseRuntime"]
    /\ UNCHANGED <<node, loop, connection, active_connections, live_sockets, workers,
                   stop_mutex, copied, joining>>

\* Mutant: the stop mutex is not released.
CloseRuntimeKeepsMutex(s) ==
    /\ stop[s] = "CloseRuntime"
    /\ runtime' = "closed"
    /\ listening' = FALSE
    /\ stop' = [stop EXCEPT ![s] = "Done"]
    /\ UNCHANGED <<max_connections, stopping, listener, loop, connection, books, bookkeeping,
                   stop_mutex, copied, joining>>

CloseRuntime(s) ==
    /\ stop[s] = "CloseRuntime"
    /\ runtime' = "closed"
    /\ listening' = FALSE
    /\ stop_mutex' = Nobody
    /\ stop' = [stop EXCEPT ![s] = "Done"]
    /\ UNCHANGED <<max_connections, stopping, listener, loop, connection, books, bookkeeping,
                   copied, joining>>

-----------------------------------------------------------------------------
ServeStep ==
    \/ CheckStopping \/ EnterAccept \/ AcceptWoken \/ Refuse \/ Spawn \/ Enlist

WorkerStep(c) ==
    \/ WorkerLoop(c) \/ ReceiveFails(c) \/ Dispatch(c) \/ CloseListener(c)
    \/ CloseSocket(c) \/ Unlist(c) \/ Leave(c)

StopStep(s) ==
    \/ CopySockets(s) \/ Wake(s) \/ TakeWorkers(s) \/ JoinWorkers(s) \/ LockBooks(s)
    \/ JoinServe(s) \/ CloseRuntime(s)

Next ==
    \/ Start
    \/ AcceptFails
    \/ ServeStep
    \/ \E c \in Connections :
          \/ \E h \in Handles : AcceptOne(c, h)
          \/ Receive(c) \/ PeerCloses(c) \/ DispatchShutdown(c)
          \/ WorkerStep(c)
    \/ \E s \in Stoppers : StopBegin(s) \/ StopStep(s)

\* Threads that can run do run, and the main thread calls stop() after serve().  Nothing is
\* assumed of the peers: they may stay silent for ever, or keep connecting.
Fairness ==
    /\ WF_vars(Start \/ ServeStep)
    /\ \A c \in Connections : WF_vars(WorkerStep(c))
    /\ \A s \in Stoppers : WF_vars(StopStep(s))
    /\ Main \in Stoppers => WF_vars(StopBegin(Main))

Spec == Init /\ [][Next]_vars /\ Fairness

-----------------------------------------------------------------------------
(* Properties *)

Running(c) == worker[c] \in {"Loop", "Recv", "Dispatch", "Shutdown", "Closing", "Unlist", "Leaving"}

\* Type invariant; in particular the connection limit holds at every step.
NodeTypeOK ==
    /\ max_connections \in MaxConnections
    /\ stopping \in BOOLEAN /\ listening \in BOOLEAN /\ owns_serve_thread \in BOOLEAN
    /\ listener \in {"open", "closed"} /\ runtime \in {"open", "closed"}
    /\ serve \in {"NotStarted", "Loop", "Accept", "Blocked", "Accepted", "Spawned", "Returned"}
    /\ serving \in Connections \cup {Nobody}
    /\ \A c \in Connections :
          \/ Running(c)
          \/ worker[c] \in {"Absent", "Accepted", "Refused", "Exited"}
    /\ served \in [Connections -> 0..MaxRequests + 1]
    /\ handle \in [Connections -> Handles \cup {Nobody}]
    /\ woken \subseteq sockets /\ sockets \subseteq Connections
    /\ active_connections \in 0..max_connections
    /\ live_sockets \in [Handles -> Nat]
    /\ workers \subseteq Connections
    /\ bookkeeping \in Stoppers \cup {Nobody} /\ stop_mutex \in Stoppers \cup {Nobody}
    /\ copied \in [Stoppers -> SUBSET Handles]
    /\ joining \in [Stoppers -> SUBSET Connections]

Enlisted(c) == c \in workers \/ \E s \in Stoppers : c \in joining[s]

\* stop() can wake every worker it may have to wait for: while the socket of a listed worker
\* is open its handle is in live_sockets, although handles are reused as soon as a socket is
\* closed, entries are erased by handle, and a worker may leave before it was ever listed.
OpenSocketsListed == \A c \in sockets : Enlisted(c) => live_sockets[handle[c]] > 0

\* When the stop() that follows serve() in the main thread is done, no worker is left and the
\* runtime is closed, whatever other stop() or Shutdown request came first.
MainStopDrains ==
    Main \in Stoppers /\ stop[Main] = "Done" =>
        /\ runtime = "closed"
        /\ \A c \in Connections : ~Running(c)

\* Once the node is stopping, every caller of stop() gets its return, and the main thread
\* makes that call.
StopReturns ==
    /\ \A s \in Stoppers : stop[s] # "Idle" ~> stop[s] = "Done"
    /\ Main \in Stoppers => (stopping ~> stop[Main] = "Done")

-----------------------------------------------------------------------------
(* What comments and documents promise and the code does not keep *)

\* ARCHITECTURE.md: stop() "joins every worker, and only then closes the runtime".
WorkersLeaveBeforeRuntimeCloses == runtime = "closed" => \A c \in Connections : ~Running(c)

\* ARCHITECTURE.md: holding the bookkeeping mutex while joining "would deadlock the very work
\* being awaited"; the accept loop takes the same mutex.
AcceptLoopNotHeldUp ==
    ~ \E s \in Stoppers : stop[s] = "JoinServe" /\ owns_serve_thread /\ serve = "Spawned"
=============================================================================
