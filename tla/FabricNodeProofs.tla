-------------------------- MODULE FabricNodeProofs --------------------------
(***************************************************************************)
(* Proofs about FabricNode for any connections, handles, callers of stop() *)
(* and options: that the books keep every socket stop() must wake, and     *)
(* that the stop() of the main thread leaves no worker behind.             *)
(***************************************************************************)
EXTENDS FabricNode, FiniteSetTheorems, TLAPS

\* Where a worker reads and answers, its socket open.
Active == {"Loop", "Recv", "Dispatch", "Shutdown", "Closing"}
\* Where it no longer expects an entry in live_sockets.
Gone == {"Leaving", "Exited"}
WorkerPlaces == Active \cup Gone \cup {"Absent", "Accepted", "Refused", "Unlist"}

\* Where a caller holds the stop mutex, and where it has joined its workers.
Stopping == {"CopySockets", "Wake", "TakeWorkers", "JoinWorkers", "LockBooks", "JoinServe",
             "CloseRuntime"}
Untaken == {"Idle", "CopySockets", "Wake", "TakeWorkers"}
Joined == {"LockBooks", "JoinServe", "CloseRuntime", "Done"}

\* The types of what the proofs are about.
Shape ==
    /\ serve \in {"NotStarted", "Loop", "Accept", "Blocked", "Accepted", "Spawned", "Returned"}
    /\ worker \in [Connections -> WorkerPlaces]
    /\ handle \in [Connections -> Handles \cup {Nobody}]
    /\ sockets \subseteq Connections
    /\ live_sockets \in [Handles -> Nat]
    /\ workers \subseteq Connections
    /\ stop \in [Stoppers -> Stopping \cup {"Idle", "Done"}]
    /\ joining \in [Stoppers -> SUBSET Connections]

\* The life of a connection: the accept loop has at most one in its hands, which is not in
\* the books; those in the books have a worker, and so has every open socket.
Life ==
    /\ serve \in {"Accepted", "Spawned"} => serving \in Connections /\ ~Enlisted(serving)
    /\ serve = "Accepted" => worker[serving] = "Accepted"
    /\ serve = "Spawned" => worker[serving] \in Active \cup Gone \cup {"Unlist"}
    /\ \A c \in Connections :
          /\ Enlisted(c) => worker[c] \in Active \cup Gone \cup {"Unlist"}
          /\ Running(c) => Enlisted(c) \/ (serve = "Spawned" /\ c = serving)
          /\ worker[c] # "Absent" => handle[c] \in Handles
    /\ \A c \in sockets : worker[c] \in Active \cup {"Accepted"}

\* The workers in the books that have yet to take an entry for this handle out.
Awaited(h) ==
    {c \in Connections : handle[c] = h /\ Enlisted(c) /\ worker[c] \in Active \cup {"Unlist"}}

\* A worker that left before it was listed has taken out an entry that was not its own.
Debt(h) ==
    IF serve = "Spawned" /\ handle[serving] = h /\ worker[serving] \in Gone THEN 1 ELSE 0

\* There is an entry for each of them but for that debt, which Enlist pays.
EntriesSuffice ==
    \A h \in Handles : /\ IsFiniteSet(Awaited(h))
                       /\ Cardinality(Awaited(h)) <= live_sockets[h] + Debt(h)

\* The connection in the hands of the accept loop shares its handle with no open socket.
HandleIsFresh ==
    serve \in {"Accepted", "Spawned"} =>
        \A d \in sockets : d # serving => handle[d] # handle[serving]

\* What callers of stop() have done.
Stops ==
    /\ \A s \in Stoppers :
          /\ stop[s] \in Stopping <=> stop_mutex = s
          /\ stop[s] \in Untaken => joining[s] = {}
          /\ stop[s] \in Joined => \A c \in joining[s] : worker[c] = "Exited"
    /\ Main \in Stoppers =>
          /\ stop[Main] # "Idle" => serve = "Returned"
          /\ stop[Main] \notin Untaken => workers = {}
          /\ stop[Main] \in Joined => \A c \in Connections : ~Running(c)
          /\ stop[Main] = "Done" => runtime = "closed"

\* The inductive invariant.
NodeInv == Shape /\ Life /\ EntriesSuffice /\ HandleIsFresh /\ Stops

-----------------------------------------------------------------------------
\* A bound on the size of a set bounds its subsets.
LEMMA Fewer ==
    ASSUME NEW A, NEW B, NEW n \in Nat, IsFiniteSet(A), B \subseteq A, Cardinality(A) <= n
    PROVE  IsFiniteSet(B) /\ Cardinality(B) <= n
<1>1. IsFiniteSet(B) /\ Cardinality(B) <= Cardinality(A)
  BY FS_Subset
<1>2. Cardinality(A) \in Nat /\ Cardinality(B) \in Nat
  BY <1>1, FS_CardinalityType
<1> QED
  BY <1>1, <1>2

\* One element more or less moves the bound by one.
LEMMA OneMore ==
    ASSUME NEW A, NEW B, NEW x, NEW n \in Nat,
           IsFiniteSet(A), B \subseteq A \cup {x}, Cardinality(A) <= n
    PROVE  IsFiniteSet(B) /\ Cardinality(B) <= n + 1
<1>1. /\ IsFiniteSet(A \cup {x})
      /\ Cardinality(A \cup {x}) = IF x \in A THEN Cardinality(A) ELSE Cardinality(A) + 1
  BY FS_AddElement
<1>2. Cardinality(A) \in Nat
  BY FS_CardinalityType
<1>3. Cardinality(A \cup {x}) <= n + 1
  BY <1>1, <1>2
<1> QED
  BY <1>1, <1>3, Fewer

LEMMA OneLess ==
    ASSUME NEW A, NEW B, NEW x \in A, NEW n \in Nat,
           IsFiniteSet(A), B \subseteq A \ {x}, Cardinality(A) <= n + 1
    PROVE  IsFiniteSet(B) /\ Cardinality(B) <= n
<1>1. IsFiniteSet(A \ {x}) /\ Cardinality(A \ {x}) = Cardinality(A) - 1
  BY FS_RemoveElement
<1>2. Cardinality(A) \in Nat
  BY FS_CardinalityType
<1>3. Cardinality(A \ {x}) <= n
  BY <1>1, <1>2
<1> QED
  BY <1>1, <1>3, Fewer

\* Entries still suffice when nobody new waits for one and there are not fewer of them.
LEMMA EntriesKept ==
    ASSUME Shape, EntriesSuffice, Shape',
           \A h \in Handles : /\ Awaited(h)' \subseteq Awaited(h)
                              /\ live_sockets[h] + Debt(h) <= live_sockets'[h] + Debt(h)'
    PROVE  EntriesSuffice'
<1> SUFFICES ASSUME NEW h \in Handles
             PROVE  /\ IsFiniteSet(Awaited(h)')
                    /\ Cardinality(Awaited(h)') <= live_sockets'[h] + Debt(h)'
  BY DEF EntriesSuffice
<1>1. live_sockets[h] + Debt(h) \in Nat /\ live_sockets'[h] + Debt(h)' \in Nat
  BY DEF Shape, Debt
<1>2. IsFiniteSet(Awaited(h)) /\ Cardinality(Awaited(h)) \in Nat
  BY FS_CardinalityType DEF EntriesSuffice
<1>3. Cardinality(Awaited(h)) <= live_sockets'[h] + Debt(h)'
  BY <1>1, <1>2 DEF EntriesSuffice
<1> QED
  BY <1>1, <1>2, <1>3, Fewer

\* Steps that leave the connections and the books alone keep what is said of them.
LEMMA Untouched ==
    ASSUME NodeInv,
           UNCHANGED <<serve, serving, worker, handle, sockets, live_sockets, workers, joining>>
    PROVE  Life' /\ EntriesSuffice' /\ HandleIsFresh'
<1>1. Life'
  BY DEF NodeInv, Life, Enlisted, Running
<1>2. EntriesSuffice'
  BY DEF NodeInv, EntriesSuffice, Awaited, Debt, Enlisted
<1>3. HandleIsFresh'
  BY DEF NodeInv, HandleIsFresh
<1> QED
  BY <1>1, <1>2, <1>3

\* So do the steps of the accept loop between two connections.
LEMMA LoopTurns ==
    ASSUME NodeInv, serve \notin {"Accepted", "Spawned", "Returned"},
           serve' \in {"Loop", "Accept", "Blocked", "Returned"},
           UNCHANGED <<serving, connection, live_sockets, workers, stops, runtime>>
    PROVE  NodeInv'
<1>1. Shape'
  BY DEF NodeInv, Shape, connection, stops
<1>2. Life'
  BY DEF NodeInv, Life, Enlisted, Running, connection, stops
<1>3. EntriesSuffice'
  <2>1. \A h \in Handles : Awaited(h)' = Awaited(h) /\ Debt(h)' = Debt(h)
    BY DEF Awaited, Debt, Enlisted, connection, stops
  <2> QED
    BY <2>1 DEF NodeInv, EntriesSuffice
<1>4. HandleIsFresh'
  BY DEF HandleIsFresh
<1>5. Stops'
  BY DEF NodeInv, Stops, Running, connection, stops
<1> QED
  BY <1>1, <1>2, <1>3, <1>4, <1>5 DEF NodeInv

\* And the steps of a worker while its socket is open.
LEMMA WorkerTurns ==
    ASSUME NodeInv, NEW c \in Connections, worker[c] \in Active, NEW w \in Active,
           worker' = [worker EXCEPT ![c] = w],
           UNCHANGED <<loop, handle, sockets, live_sockets, workers, stops, runtime>>
    PROVE  NodeInv'
<1>0. \A d \in Connections : worker'[d] = IF d = c THEN w ELSE worker[d]
  BY DEF NodeInv, Shape
<1>1. Shape'
  BY DEF NodeInv, Shape, WorkerPlaces, loop, stops
<1>2. Life'
  BY <1>0 DEF NodeInv, Shape, Life, Enlisted, Running, Active, Gone, loop, stops
<1>3. EntriesSuffice'
  <2>1. \A h \in Handles : Awaited(h)' \subseteq Awaited(h)
    BY <1>0 DEF Awaited, Enlisted, stops, Active
  <2>2. \A h \in Handles : Debt(h)' = Debt(h)
    BY <1>0 DEF NodeInv, Life, Debt, Active, Gone, loop
  <2> QED
    BY <1>1, <2>1, <2>2, EntriesKept DEF NodeInv, Shape, Debt
<1>4. HandleIsFresh'
  BY DEF NodeInv, HandleIsFresh, loop
<1>5. Stops'
  BY <1>0 DEF NodeInv, Shape, Stops, Running, Active, loop, stops
<1> QED
  BY <1>1, <1>2, <1>3, <1>4, <1>5 DEF NodeInv

-----------------------------------------------------------------------------
(* The accept loop *)

LEMMA AcceptOneKeeps ==
    ASSUME NodeInv, NEW c \in Connections, NEW h \in Handles, AcceptOne(c, h)
    PROVE  NodeInv'
<1>0. /\ \A d \in Connections : worker'[d] = IF d = c THEN "Accepted" ELSE worker[d]
      /\ \A d \in Connections : handle'[d] = IF d = c THEN h ELSE handle[d]
      /\ ~Enlisted(c) /\ c \notin sockets
  BY DEF AcceptOne, NodeInv, Shape, Life, Active, Gone
<1>1. Shape'
  BY DEF AcceptOne, NodeInv, Shape, WorkerPlaces, books, stops
<1>2. Life'
  BY <1>0 DEF AcceptOne, NodeInv, Shape, Life, Enlisted, Running, Active, Gone, books, stops
<1>3. EntriesSuffice'
  <2>1. \A g \in Handles : Awaited(g)' \subseteq Awaited(g)
    BY <1>0 DEF AcceptOne, Awaited, Enlisted, Active, books, stops
  <2>2. \A g \in Handles : Debt(g)' = Debt(g) /\ live_sockets'[g] = live_sockets[g]
    BY DEF AcceptOne, Debt, books
  <2> QED
    BY <1>1, <2>1, <2>2, EntriesKept DEF NodeInv, Shape, Debt
<1>4. HandleIsFresh'
  BY <1>0 DEF AcceptOne, NodeInv, Shape, HandleIsFresh
<1>5. Stops'
  BY <1>0 DEF AcceptOne, NodeInv, Shape, Stops, Running, node, books, stops
<1> QED
  BY <1>1, <1>2, <1>3, <1>4, <1>5 DEF NodeInv

LEMMA RefuseKeeps ==
    ASSUME NodeInv, Refuse
    PROVE  NodeInv'
<1>0. /\ \A d \in Connections : worker'[d] = IF d = serving THEN "Refused" ELSE worker[d]
      /\ serving \in Connections /\ ~Enlisted(serving)
  BY DEF Refuse, NodeInv, Shape, Life
<1>1. Shape'
  BY Zenon DEF Refuse, NodeInv, Shape, WorkerPlaces, books, stops
<1>2. Life'
  BY <1>0 DEF Refuse, NodeInv, Shape, Life, Enlisted, Running, books, stops
<1>3. EntriesSuffice'
  <2>1. \A g \in Handles : Awaited(g)' \subseteq Awaited(g)
    BY <1>0 DEF Refuse, Awaited, Enlisted, Active, books, stops
  <2>2. \A g \in Handles : Debt(g)' = Debt(g) /\ live_sockets'[g] = live_sockets[g]
    BY DEF Refuse, Debt, books
  <2> QED
    BY <1>1, <2>1, <2>2, EntriesKept DEF NodeInv, Shape, Debt
<1>4. HandleIsFresh'
  BY DEF Refuse, HandleIsFresh
<1>5. Stops'
  BY <1>0 DEF Refuse, NodeInv, Shape, Life, Stops, Running, node, books, stops
<1> QED
  BY <1>1, <1>2, <1>3, <1>4, <1>5 DEF NodeInv

LEMMA SpawnKeeps ==
    ASSUME NodeInv, Spawn
    PROVE  NodeInv'
<1>0. /\ \A d \in Connections : worker'[d] = IF d = serving THEN "Loop" ELSE worker[d]
      /\ serving \in Connections /\ ~Enlisted(serving)
  BY DEF Spawn, NodeInv, Shape, Life
<1>1. Shape'
  BY Zenon DEF Spawn, NodeInv, Shape, WorkerPlaces, Active, stops
<1>2. Life'
  BY <1>0 DEF Spawn, NodeInv, Shape, Life, Enlisted, Running, Active, stops
<1>3. EntriesSuffice'
  <2>1. \A g \in Handles : Awaited(g)' \subseteq Awaited(g)
    BY <1>0 DEF Spawn, Awaited, Enlisted, stops
  <2>2. \A g \in Handles : Debt(g)' = Debt(g) /\ live_sockets'[g] = live_sockets[g]
    BY <1>0 DEF Spawn, Debt, Gone
  <2> QED
    BY <1>1, <2>1, <2>2, EntriesKept DEF NodeInv, Shape, Debt
<1>4. HandleIsFresh'
  BY DEF Spawn, NodeInv, HandleIsFresh
<1>5. Stops'
  BY <1>0 DEF Spawn, NodeInv, Shape, Stops, Joined, Life, Running, node, stops
<1> QED
  BY <1>1, <1>2, <1>3, <1>4, <1>5 DEF NodeInv

\* The new entry is the worker's own, or it pays the debt of one that has left.
LEMMA EnlistKeeps ==
    ASSUME NodeInv, Enlist
    PROVE  NodeInv'
<1> DEFINE k == handle[serving]
<1>0. serving \in Connections /\ k \in Handles
  BY DEF Enlist, NodeInv, Life, Active, Gone
<1>1. Shape'
  BY <1>0 DEF Enlist, NodeInv, Shape, connection, stops
<1>2. \A c \in Connections : Enlisted(c)' <=> Enlisted(c) \/ c = serving
  BY DEF Enlist, Enlisted, stops
<1>3. Life'
  BY <1>2 DEF Enlist, NodeInv, Life, Running, connection
<1>4. EntriesSuffice'
  <2> SUFFICES ASSUME NEW h \in Handles
               PROVE  /\ IsFiniteSet(Awaited(h)')
                      /\ Cardinality(Awaited(h)') <= live_sockets'[h] + Debt(h)'
    BY DEF EntriesSuffice
  <2>1. /\ IsFiniteSet(Awaited(h)) /\ Cardinality(Awaited(h)) \in Nat
        /\ Cardinality(Awaited(h)) <= live_sockets[h] + Debt(h)
    BY FS_CardinalityType DEF NodeInv, EntriesSuffice
  <2>2. Debt(h)' = 0 /\ live_sockets[h] \in Nat
        /\ live_sockets'[h] = IF h = k THEN live_sockets[h] + 1 ELSE live_sockets[h]
    BY <1>0 DEF Enlist, NodeInv, Shape, Debt
  <2>3. CASE h = k /\ worker[serving] \notin Gone
    <3>1. Awaited(h)' \subseteq Awaited(h) \cup {serving}
      BY <1>2 DEF Enlist, Awaited, connection
    <3>2. Cardinality(Awaited(h)) <= live_sockets[h]
      BY <2>1, <2>2, <2>3 DEF Debt
    <3>3. IsFiniteSet(Awaited(h)') /\ Cardinality(Awaited(h)') <= live_sockets[h] + 1
      BY Zenon, <2>1, <2>2, <3>1, <3>2, OneMore
    <3> QED
      BY <2>2, <2>3, <3>3
  <2>4. CASE ~(h = k /\ worker[serving] \notin Gone)
    <3>1. Awaited(h)' \subseteq Awaited(h)
      BY <1>2, <2>4 DEF Enlist, Awaited, connection, Active, Gone
    <3>2. live_sockets'[h] \in Nat /\ Cardinality(Awaited(h)) <= live_sockets'[h]
      BY <2>1, <2>2, <2>4 DEF Debt, Enlist
    <3>3. IsFiniteSet(Awaited(h)') /\ Cardinality(Awaited(h)') <= live_sockets'[h]
      BY <2>1, <3>1, <3>2, Fewer
    <3> QED
      BY <2>2, <3>2, <3>3
  <2> QED
    BY <2>3, <2>4
<1>5. HandleIsFresh'
  BY DEF Enlist, HandleIsFresh
<1>6. Stops'
  BY DEF Enlist, NodeInv, Stops, Untaken, Running, node, connection, stops
<1> QED
  BY <1>1, <1>3, <1>4, <1>5, <1>6 DEF NodeInv

-----------------------------------------------------------------------------
(* A worker that ends *)

LEMMA CloseSocketKeeps ==
    ASSUME NodeInv, NEW c \in Connections, CloseSocket(c)
    PROVE  NodeInv'
<1>0. \A d \in Connections : worker'[d] = IF d = c THEN "Unlist" ELSE worker[d]
  BY DEF CloseSocket, NodeInv, Shape
<1>1. Shape'
  BY DEF CloseSocket, NodeInv, Shape, WorkerPlaces, loop, books, stops
<1>2. Life'
  BY <1>0 DEF CloseSocket, NodeInv, Shape, Life, Enlisted, Running, Active, Gone, loop, books,
              stops
<1>3. EntriesSuffice'
  <2>1. \A h \in Handles : Awaited(h)' \subseteq Awaited(h)
    BY <1>0 DEF CloseSocket, Awaited, Enlisted, Active, books, stops
  <2>2. \A h \in Handles : Debt(h)' = Debt(h) /\ live_sockets'[h] = live_sockets[h]
    BY <1>0 DEF CloseSocket, NodeInv, Life, Debt, Gone, loop, books
  <2> QED
    BY <1>1, <2>1, <2>2, EntriesKept DEF NodeInv, Shape, Debt
<1>4. HandleIsFresh'
  BY DEF CloseSocket, NodeInv, HandleIsFresh, loop
<1>5. Stops'
  BY <1>0 DEF CloseSocket, NodeInv, Shape, Stops, Running, node, loop, books, stops
<1> QED
  BY <1>1, <1>2, <1>3, <1>4, <1>5 DEF NodeInv

\* A worker in the books takes out one entry and waits for one less.  One that is not in the
\* books yet takes out an entry of somebody else and leaves a debt.
LEMMA UnlistKeeps ==
    ASSUME NodeInv, NEW c \in Connections, Unlist(c)
    PROVE  NodeInv'
<1> DEFINE k == handle[c]
<1>0. /\ \A d \in Connections : worker'[d] = IF d = c THEN "Leaving" ELSE worker[d]
      /\ k \in Handles
      /\ Enlisted(c) \/ (serve = "Spawned" /\ c = serving)
  BY DEF Unlist, NodeInv, Shape, Life, Running
<1>1. Shape'
  BY <1>0 DEF Unlist, NodeInv, Shape, WorkerPlaces, Gone, loop, stops
<1>2. Life'
  BY <1>0 DEF Unlist, NodeInv, Shape, Life, Enlisted, Running, Active, Gone, loop, stops
<1>3. \A h \in Handles : /\ Awaited(h)' = Awaited(h) \ {c}
                         /\ live_sockets[h] \in Nat
                         /\ h # k => live_sockets'[h] = live_sockets[h] /\ Debt(h)' = Debt(h)
  <2>1. \A h \in Handles : Awaited(h)' = Awaited(h) \ {c}
    BY <1>0 DEF Unlist, Awaited, Enlisted, Active, stops
  <2>2. \A h \in Handles : h # k => Debt(h)' = Debt(h)
    BY <1>0 DEF Unlist, NodeInv, Life, Debt, loop
  <2> QED
    BY Zenon, <2>1, <2>2 DEF Unlist, NodeInv, Shape
<1>4. live_sockets'[k] = IF live_sockets[k] > 0 THEN live_sockets[k] - 1 ELSE 0
  BY <1>0 DEF Unlist, NodeInv, Shape
<1>5. EntriesSuffice'
  <2>1. CASE Enlisted(c)
    <3> SUFFICES ASSUME NEW h \in Handles
                 PROVE  /\ IsFiniteSet(Awaited(h)')
                        /\ Cardinality(Awaited(h)') <= live_sockets'[h] + Debt(h)'
      BY DEF EntriesSuffice
    <3>1. /\ IsFiniteSet(Awaited(h)) /\ Cardinality(Awaited(h)) \in Nat
          /\ Cardinality(Awaited(h)) <= live_sockets[h] + Debt(h)
      BY FS_CardinalityType DEF NodeInv, EntriesSuffice
    <3>2. Debt(h)' = Debt(h) /\ Debt(h) \in {0, 1}
      BY Zenon, <1>0, <2>1 DEF Unlist, NodeInv, Life, Debt, loop
    <3>3. CASE h # k
      <4>1. live_sockets[h] + Debt(h) \in Nat
        BY <1>3, <3>2
      <4>2. /\ IsFiniteSet(Awaited(h)')
            /\ Cardinality(Awaited(h)') <= live_sockets[h] + Debt(h)
        BY <1>3, <3>1, <4>1, Fewer
      <4> QED
        BY <1>3, <3>3, <4>2
    <3>4. CASE h = k
      <4>1. c \in Awaited(h)
        BY <2>1, <3>4 DEF Unlist, Awaited
      <4>2. CASE live_sockets[h] > 0
        <5>1. live_sockets[h] - 1 + Debt(h) \in Nat
          BY <1>3, <3>2, <4>2
        <5>2. Cardinality(Awaited(h)) <= (live_sockets[h] - 1 + Debt(h)) + 1
          BY <1>3, <3>1, <3>2
        <5>3. /\ IsFiniteSet(Awaited(h)')
              /\ Cardinality(Awaited(h)') <= live_sockets[h] - 1 + Debt(h)
          BY <1>3, <3>1, <4>1, <5>1, <5>2, OneLess
        <5> QED
          BY <1>4, <3>2, <3>4, <4>2, <5>3
      <4>3. CASE ~(live_sockets[h] > 0)
        <5>1. Cardinality(Awaited(h)) <= 0 + 1
          BY <1>3, <3>1, <3>2, <4>3
        <5>2. IsFiniteSet(Awaited(h)') /\ Cardinality(Awaited(h)') <= 0
          BY <1>3, <3>1, <4>1, <5>1, OneLess
        <5>3. Cardinality(Awaited(h)') \in Nat
          BY <5>2, FS_CardinalityType
        <5> QED
          BY <1>4, <3>2, <3>4, <4>3, <5>2, <5>3
      <4> QED
        BY <4>2, <4>3
    <3> QED
      BY <3>3, <3>4
  <2>2. CASE ~Enlisted(c)
    <3>1. \A h \in Handles : h = k => Debt(h) = 0 /\ Debt(h)' = 1
      BY <1>0, <2>2 DEF Unlist, Debt, Gone, loop
    <3>2. \A h \in Handles : live_sockets[h] + Debt(h) <= live_sockets'[h] + Debt(h)'
      <4> SUFFICES ASSUME NEW h \in Handles
                   PROVE  live_sockets[h] + Debt(h) <= live_sockets'[h] + Debt(h)'
        OBVIOUS
      <4>1. CASE h = k
        BY <1>0, <1>3, <1>4, <3>1, <4>1
      <4>2. CASE h # k
        <5>1. live_sockets[h] \in Nat /\ Debt(h) \in Nat
          BY <1>3 DEF Debt
        <5>2. live_sockets'[h] = live_sockets[h] /\ Debt(h)' = Debt(h)
          BY <1>3, <4>2
        <5> QED
          BY <5>1, <5>2
      <4> QED
        BY <4>1, <4>2
    <3>3. \A h \in Handles : Awaited(h)' \subseteq Awaited(h)
      BY <1>3
    <3> QED
      BY <1>1, <3>2, <3>3, EntriesKept DEF NodeInv
  <2> QED
    BY Zenon, <2>1, <2>2
<1>6. HandleIsFresh'
  BY Zenon DEF Unlist, NodeInv, HandleIsFresh, loop
<1>7. Stops'
  BY <1>0 DEF Unlist, NodeInv, Shape, Stops, Running, node, loop, stops
<1> QED
  BY <1>1, <1>2, <1>5, <1>6, <1>7 DEF NodeInv

LEMMA LeaveKeeps ==
    ASSUME NodeInv, NEW c \in Connections, Leave(c)
    PROVE  NodeInv'
<1>0. \A d \in Connections : worker'[d] = IF d = c THEN "Exited" ELSE worker[d]
  BY DEF Leave, NodeInv, Shape
<1>1. Shape'
  BY Zenon DEF Leave, NodeInv, Shape, WorkerPlaces, Gone, loop, stops
<1>2. Life'
  BY <1>0 DEF Leave, NodeInv, Shape, Life, Enlisted, Running, Active, Gone, loop, stops
<1>3. EntriesSuffice'
  <2>1. \A h \in Handles : Awaited(h)' \subseteq Awaited(h)
    BY <1>0 DEF Leave, Awaited, Enlisted, Active, stops
  <2>2. \A h \in Handles : Debt(h)' = Debt(h) /\ live_sockets'[h] = live_sockets[h]
    BY <1>0 DEF Leave, NodeInv, Life, Debt, Gone, loop
  <2> QED
    BY <1>1, <2>1, <2>2, EntriesKept DEF NodeInv, Shape, Debt
<1>4. HandleIsFresh'
  BY DEF Leave, NodeInv, HandleIsFresh, loop
<1>5. Stops'
  BY <1>0 DEF Leave, NodeInv, Shape, Stops, Running, node, loop, stops
<1> QED
  BY <1>1, <1>2, <1>3, <1>4, <1>5 DEF NodeInv

-----------------------------------------------------------------------------
(* stop() *)

\* A step of stop() that neither takes nor joins workers.
LEMMA StopGoesOn ==
    ASSUME NodeInv, NEW s \in Stoppers, NEW place \in Stopping,
           stop' = [stop EXCEPT ![s] = place],
           stop_mutex' = s, stop[s] \in Stopping \/ (stop_mutex = Nobody /\ Wanted(s)),
           {stop[s], place} \subseteq Untaken \/ {stop[s], place} \subseteq Joined,
           UNCHANGED <<loop, worker, handle, sockets, live_sockets, workers, runtime, joining>>
    PROVE  NodeInv'
<1>1. Shape'
  BY DEF NodeInv, Shape, loop
<1>2. Life' /\ EntriesSuffice' /\ HandleIsFresh'
  BY Untouched DEF loop
<1>3. \A t \in Stoppers : stop'[t] = IF t = s THEN place ELSE stop[t]
  BY DEF NodeInv, Shape
<1>4. Stops'
  <2>1. \A t \in Stoppers : stop'[t] \in Stopping <=> stop_mutex' = t
    BY Zenon, <1>3, NodeBounds DEF NodeInv, Stops, Wanted
  <2>2. \A t \in Stoppers : /\ stop'[t] \in Untaken => joining'[t] = {}
                            /\ stop'[t] \in Joined => \A c \in joining'[t] : worker'[c] = "Exited"
    BY Zenon, <1>3 DEF NodeInv, Stops, Untaken, Joined
  <2>3. Main \in Stoppers =>
          /\ stop'[Main] # "Idle" => serve' = "Returned"
          /\ stop'[Main] \notin Untaken => workers' = {}
          /\ stop'[Main] \in Joined => \A c \in Connections : ~Running(c)'
          /\ stop'[Main] = "Done" => runtime' = "closed"
    BY <1>3 DEF NodeInv, Stops, Wanted, Running, Stopping, Untaken, Joined, loop
  <2> QED
    BY Zenon, <2>1, <2>2, <2>3 DEF Stops
<1> QED
  BY <1>1, <1>2, <1>4 DEF NodeInv

\* The main thread takes the workers when the accept loop has returned, so none comes after.
LEMMA TakeWorkersKeeps ==
    ASSUME NodeInv, NEW s \in Stoppers, TakeWorkers(s)
    PROVE  NodeInv'
<1>0. /\ \A t \in Stoppers : stop'[t] = IF t = s THEN "JoinWorkers" ELSE stop[t]
      /\ \A t \in Stoppers : joining'[t] = IF t = s THEN workers ELSE joining[t]
      /\ joining[s] = {}
  BY DEF TakeWorkers, NodeInv, Shape, Stops, Untaken
<1>1. Shape'
  BY DEF TakeWorkers, NodeInv, Shape, Stopping, loop, connection
<1>2. \A c : Enlisted(c)' <=> Enlisted(c)
  BY Zenon, <1>0 DEF TakeWorkers, Enlisted
<1>3. Life'
  BY <1>2 DEF TakeWorkers, NodeInv, Life, Running, loop, connection
<1>4. EntriesSuffice'
  <2>1. \A h \in Handles : Awaited(h)' = Awaited(h) /\ Debt(h)' = Debt(h)
    BY <1>2 DEF TakeWorkers, Awaited, Debt, loop, connection
  <2> QED
    BY <2>1 DEF TakeWorkers, NodeInv, EntriesSuffice
<1>5. HandleIsFresh'
  BY DEF TakeWorkers, NodeInv, HandleIsFresh, loop, connection
<1>6. Stops'
  BY <1>0 DEF TakeWorkers, NodeInv, Stops, Stopping, Untaken, Joined, Running, node, loop,
              connection
<1> QED
  BY Zenon, <1>1, <1>3, <1>4, <1>5, <1>6 DEF NodeInv

\* Whoever is still running when the main thread has joined is in the hands of a stop() that
\* ended before, or that has not begun: there is nobody.
LEMMA JoinWorkersKeeps ==
    ASSUME NodeInv, NEW s \in Stoppers, JoinWorkers(s)
    PROVE  NodeInv'
<1>0. \A t \in Stoppers : stop'[t] = IF t = s THEN "LockBooks" ELSE stop[t]
  BY DEF JoinWorkers, NodeInv, Shape
<1>1. Shape'
  BY Zenon DEF JoinWorkers, NodeInv, Shape, Stopping, loop, connection, books
<1>2. Life' /\ EntriesSuffice' /\ HandleIsFresh'
  BY Zenon, Untouched DEF JoinWorkers, loop, connection, books
<1>3. \A t \in Stoppers : \A c \in joining[t] : t # s => worker[c] = "Exited"
  <2> SUFFICES ASSUME NEW t \in Stoppers, t # s
               PROVE  \A c \in joining[t] : worker[c] = "Exited"
    OBVIOUS
  <2>1. stop_mutex = s
    BY Zenon DEF JoinWorkers, NodeInv, Stops, Stopping
  <2>2. stop[t] \in {"Idle", "Done"}
    BY <2>1 DEF NodeInv, Shape, Stops
  <2> QED
    BY Zenon, <2>2 DEF NodeInv, Stops, Untaken, Joined
<1>4. s = Main => \A c \in Connections : ~Running(c)
  <2> SUFFICES ASSUME s = Main, NEW c \in Connections, Running(c)
               PROVE  FALSE
    OBVIOUS
  <2>1. serve = "Returned" /\ workers = {}
    BY DEF JoinWorkers, NodeInv, Stops, Untaken
  <2>2. \E t \in Stoppers : c \in joining[t]
    BY Zenon, <2>1 DEF NodeInv, Life, Enlisted
  <2>3. worker[c] = "Exited"
    BY Zenon, <1>3, <2>2 DEF JoinWorkers
  <2> QED
    BY <2>3 DEF Running
<1>5. Stops'
  BY <1>0, <1>4 DEF JoinWorkers, NodeInv, Stops, Stopping, Untaken, Joined, Running, node, loop,
                    connection, books
<1> QED
  BY <1>1, <1>2, <1>5 DEF NodeInv

LEMMA CloseRuntimeKeeps ==
    ASSUME NodeInv, NEW s \in Stoppers, CloseRuntime(s)
    PROVE  NodeInv'
<1>0. \A t \in Stoppers : stop'[t] = IF t = s THEN "Done" ELSE stop[t]
  BY DEF CloseRuntime, NodeInv, Shape
<1>1. Shape'
  BY DEF CloseRuntime, NodeInv, Shape, loop, connection, books
<1>2. Life' /\ EntriesSuffice' /\ HandleIsFresh'
  BY Zenon, Untouched DEF CloseRuntime, loop, connection, books
<1>3. Stops'
  BY <1>0, NodeBounds DEF CloseRuntime, NodeInv, Stops, Stopping, Untaken, Joined, Running,
                          loop, connection, books
<1> QED
  BY <1>1, <1>2, <1>3 DEF NodeInv

-----------------------------------------------------------------------------
(* The theorems *)

\* Every step of every thread keeps the invariant.
LEMMA NodeStep == NodeInv /\ [Next]_vars => NodeInv'
<1> SUFFICES ASSUME NodeInv, [Next]_vars
             PROVE  NodeInv'
  OBVIOUS
<1>1. CASE Start \/ CheckStopping \/ EnterAccept \/ AcceptWoken \/ AcceptFails
  <2>1. /\ serve \notin {"Accepted", "Spawned", "Returned"}
        /\ serve' \in {"Loop", "Accept", "Blocked", "Returned"}
        /\ UNCHANGED <<serving, connection, live_sockets, workers, stops, runtime>>
    BY <1>1 DEF Start, CheckStopping, EnterAccept, AcceptWoken, AcceptFails, node, books
  <2> QED
    BY Zenon, <2>1, LoopTurns
<1>2. CASE Refuse
  BY <1>2, RefuseKeeps
<1>3. CASE Spawn
  BY <1>3, SpawnKeeps
<1>4. CASE Enlist
  BY <1>4, EnlistKeeps
<1>5. ASSUME NEW c \in Connections, NEW h \in Handles, AcceptOne(c, h)
      PROVE  NodeInv'
  BY <1>5, AcceptOneKeeps
<1>6. ASSUME NEW c \in Connections,
             \/ WorkerLoop(c) \/ Receive(c) \/ PeerCloses(c) \/ ReceiveFails(c) \/ Dispatch(c)
             \/ DispatchShutdown(c) \/ CloseListener(c)
      PROVE  NodeInv'
  <2>1. worker[c] \in Active /\ \E w \in Active : worker' = [worker EXCEPT ![c] = w]
    BY Zenon, <1>6 DEF WorkerLoop, Receive, PeerCloses, ReceiveFails, Dispatch, DispatchShutdown,
                CloseListener, Active
  <2>2. UNCHANGED <<loop, handle, sockets, live_sockets, workers, stops, runtime>>
    BY <1>6 DEF WorkerLoop, Receive, PeerCloses, ReceiveFails, Dispatch, DispatchShutdown,
                CloseListener, node, books
  <2> QED
    BY Zenon, <2>1, <2>2, WorkerTurns
<1>7. ASSUME NEW c \in Connections, CloseSocket(c) \/ Unlist(c) \/ Leave(c)
      PROVE  NodeInv'
  BY <1>7, CloseSocketKeeps, UnlistKeeps, LeaveKeeps
<1>8. ASSUME NEW s \in Stoppers,
             StopBegin(s) \/ CopySockets(s) \/ Wake(s) \/ LockBooks(s) \/ JoinServe(s)
      PROVE  NodeInv'
  <2>1. \E place \in Stopping :
          /\ stop' = [stop EXCEPT ![s] = place]
          /\ {stop[s], place} \subseteq Untaken \/ {stop[s], place} \subseteq Joined
    BY Zenon, <1>8 DEF StopBegin, CopySockets, Wake, LockBooks, JoinServe, Wanted, Stopping,
                Untaken, Joined
  <2>2. stop_mutex' = s /\ (stop[s] \in Stopping \/ (stop_mutex = Nobody /\ Wanted(s)))
    BY Zenon, <1>8 DEF StopBegin, CopySockets, Wake, LockBooks, JoinServe, NodeInv, Stops, Stopping
  <2>3. UNCHANGED <<loop, worker, handle, sockets, live_sockets, workers, runtime, joining>>
    BY Zenon, <1>8 DEF StopBegin, CopySockets, Wake, LockBooks, JoinServe, node, connection, books
  <2> QED
    BY Zenon, <2>1, <2>2, <2>3, StopGoesOn
<1>9. ASSUME NEW s \in Stoppers, TakeWorkers(s) \/ JoinWorkers(s) \/ CloseRuntime(s)
      PROVE  NodeInv'
  BY <1>9, TakeWorkersKeeps, JoinWorkersKeeps, CloseRuntimeKeeps
<1>10. CASE UNCHANGED vars
  <2>1. Life' /\ EntriesSuffice' /\ HandleIsFresh'
    BY Zenon, <1>10, Untouched DEF vars, loop, connection, books, stops
  <2>2. Shape' /\ Stops'
    BY <1>10 DEF vars, node, loop, connection, books, stops, NodeInv, Shape, Stops, Running
  <2> QED
    BY <2>1, <2>2 DEF NodeInv
<1> QED
  BY <1>1, <1>2, <1>3, <1>4, <1>5, <1>6, <1>7, <1>8, <1>9, <1>10
     DEF Next, ServeStep, WorkerStep, StopStep

\* The inductive invariant holds of every behaviour of the node.
THEOREM NodeInvariance == Spec => []NodeInv
<1>1. Init => NodeInv
  <2> SUFFICES ASSUME Init PROVE NodeInv
    OBVIOUS
  <2>1. Shape
    BY DEF Init, Shape, WorkerPlaces
  <2>2. Life
    BY DEF Init, Life, Enlisted, Running
  <2>3. EntriesSuffice
    <3>1. \A h \in Handles : Awaited(h) = {} /\ Debt(h) = 0
      BY Zenon DEF Init, Awaited, Enlisted, Debt
    <3> QED
      BY <3>1, FS_EmptySet DEF Init, EntriesSuffice
  <2>4. HandleIsFresh /\ Stops
    BY NodeBounds DEF Init, HandleIsFresh, Stops, Stopping, Untaken, Joined
  <2> QED
    BY <2>1, <2>2, <2>3, <2>4 DEF NodeInv
<1> QED
  BY <1>1, NodeStep, PTL DEF Spec

\* stop() can wake every listed worker whose socket is open (OpenSocketsListed): a worker that
\* left unlisted may have taken the last entry for a handle, but only for one that no other
\* open socket has.
THEOREM BooksKeepSockets == Spec => []OpenSocketsListed
<1>1. NodeInv => OpenSocketsListed
  <2> SUFFICES ASSUME NodeInv, NEW c \in sockets, Enlisted(c)
               PROVE  live_sockets[handle[c]] > 0
    BY DEF OpenSocketsListed
  <2> DEFINE h == handle[c]
  <2>1. c \in Connections /\ worker[c] \in Active /\ h \in Handles
    BY DEF NodeInv, Shape, Life, Active, Gone
  <2>2. c \in Awaited(h)
    BY Zenon, <2>1 DEF Awaited
  <2>3. Debt(h) = 0
    BY Zenon, <2>1 DEF NodeInv, Life, HandleIsFresh, Debt
  <2>4. IsFiniteSet(Awaited(h)) /\ Cardinality(Awaited(h)) <= live_sockets[h] + Debt(h)
    BY Zenon, <2>1 DEF NodeInv, EntriesSuffice
  <2>5. Cardinality(Awaited(h)) \in Nat /\ Cardinality(Awaited(h)) # 0
    BY <2>2, <2>4, FS_CardinalityType, FS_EmptySet
  <2> QED
    BY <2>1, <2>3, <2>4, <2>5 DEF NodeInv, Shape
<1> QED
  BY <1>1, NodeInvariance, PTL

\* The stop() after serve() in the main thread returns with no worker left and the runtime
\* closed (MainStopDrains), however many other callers and connections there were.
THEOREM MainStopLeavesNobody == Spec => []MainStopDrains
<1>1. NodeInv => MainStopDrains
  BY DEF NodeInv, Stops, Joined, MainStopDrains
<1> QED
  BY <1>1, NodeInvariance, PTL
=============================================================================
