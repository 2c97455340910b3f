----------------------------- MODULE NodeClient -----------------------------
(***************************************************************************)
(* The blocking client (src/src/client.cpp) and the worker threads of the  *)
(* node that serve its connections (handle_connection of src/src/node.cpp).*)
(*                                                                         *)
(* A call writes one request frame and reads one reply frame, a header and *)
(* then a body, from a byte stream.  A call that gives up early leaves     *)
(* bytes in the stream.  The model keeps, of a stream, the frames not yet  *)
(* read to their end and whether part of the first has been read: aligned  *)
(* is FALSE when the next read starts inside a frame.  Such a read takes   *)
(* the 24 bytes of a header from the rest of that frame, and from the next *)
(* one when the rest is shorter (a frame has at least 28 bytes), and finds *)
(* no magic value: a body is assumed not to spell a frame header.          *)
(*                                                                         *)
(* Of the runtime behind the node only the client's own grant is kept: the *)
(* token that authority presently accepts, or 0.  The rest is Authority.   *)
(***************************************************************************)
EXTENDS Naturals, Sequences

CONSTANTS MaxConnects,        \* bound: connections the client makes
          MaxCalls,           \* bound: calls the client makes
          MaxGrants,          \* bound: tokens the runtime issues
          MaxRequests,        \* Limits::max_requests_per_connection
          Deadlines,          \* NodeClient::Options::io_deadline_ms > 0
          IdleTimeout,        \* FabricNode::Options::idle_timeout_ms > 0
          FenceOnDisconnect   \* FabricNode::Options::fence_on_disconnect

ASSUME ClientBounds ==
    /\ {MaxConnects, MaxCalls, MaxGrants, MaxRequests} \subseteq Nat
    /\ {Deadlines, IdleTimeout, FenceOnDisconnect} \subseteq BOOLEAN

VARIABLES socket,           \* the client's connection, 0 when it has none
          next_request_id,
          session,          \* the session held: its token (0: empty) and, as history,
                            \* the connection that granted it (0: the caller set it)
          pc,               \* "idle", or what round_trip reads next
          request,          \* the request being answered
          aligned,          \* the next read starts at a frame
          requests, replies,          \* connection -> frames in the two streams
          worker, served, last_session, \* connection -> its worker thread
          connects, calls,  \* made so far
          authority, grants,          \* the accepted token; tokens issued
          performed,        \* history: call -> times the runtime performed it
          outcome,          \* history: call -> what it returned
          answer            \* history: call -> the call whose reply it took

client == <<socket, next_request_id, session, pc, request, aligned>>
streams == <<requests, replies>>
threads == <<worker, served, last_session>>
runtime == <<authority, grants>>
history == <<outcome, answer>>
vars == <<client, streams, threads, connects, calls, runtime, performed, history>>

Connects == 1 .. MaxConnects
Calls == 1 .. MaxCalls

\* Requests by how dispatch treats the session: a handshake has none, a mutation's
\* is checked by the runtime, and a query, ping, checkpoint ... is only decoded.
Ops == {"Hello", "Mutate", "Read"}

NoSession == [token |-> 0, from |-> 0]
NoRequest == [id |-> 0, call |-> 0, op |-> "Read"]

Init ==
    /\ socket = 0 /\ next_request_id = 1 /\ session = NoSession
    /\ pc = "idle" /\ request = NoRequest /\ aligned = TRUE
    /\ requests = [c \in Connects |-> <<>>]
    /\ replies = [c \in Connects |-> <<>>]
    /\ worker = [c \in Connects |-> "none"]
    /\ served = [c \in Connects |-> 0]
    /\ last_session = [c \in Connects |-> 0]
    /\ connects = 0 /\ calls = 0
    /\ authority = 0 /\ grants = 0
    /\ performed = [k \in Calls |-> 0]
    /\ outcome = [k \in Calls |-> "none"]
    /\ answer = [k \in Calls |-> 0]

-----------------------------------------------------------------------------
(* The client. *)

\* The frame the accept loop sends on a connection above max_connections.
Refusal == [id |-> 0, op |-> "Error", call |-> 0, token |-> 0, whole |-> TRUE]

\* A mutant: the identifiers start again on the connection already held.
ConnectAgain(refused) ==
    /\ pc = "idle" /\ ~refused /\ connects < MaxConnects
    /\ connects' = connects + 1 /\ socket' = 1
    /\ session' = NoSession /\ next_request_id' = 1
    /\ worker' = [worker EXCEPT ![1] = IF @ = "none" THEN "reading" ELSE @]
    /\ served' = [served EXCEPT ![1] = IF @ = 0 THEN 1 ELSE @]
    /\ UNCHANGED <<pc, request, aligned, streams, last_session, calls, runtime, performed,
                   history>>

\* A mutant: the session outlives the connection.
ConnectKeepsSession(refused) ==
    /\ pc = "idle" /\ ~refused /\ connects < MaxConnects
    /\ connects' = connects + 1 /\ socket' = connects + 1
    /\ next_request_id' = 1 /\ aligned' = TRUE
    /\ worker' = [worker EXCEPT ![connects + 1] = "reading"]
    /\ served' = [served EXCEPT ![connects + 1] = 1]
    /\ UNCHANGED <<session, pc, request, streams, last_session, calls, runtime,
                   performed, history>>

\* connect(): a new socket replaces, and thereby closes, the one held.  A connect
\* that fails changes nothing the model keeps.  The node may answer with Refusal
\* and close, rather than start a worker.
Connect(refused) ==
    /\ pc = "idle" /\ connects < MaxConnects
    /\ connects' = connects + 1
    /\ socket' = connects + 1
    /\ session' = NoSession
    /\ next_request_id' = 1
    /\ aligned' = TRUE
    /\ replies' = [replies EXCEPT ![connects + 1] = IF refused THEN <<Refusal>> ELSE <<>>]
    /\ worker' = [worker EXCEPT ![connects + 1] =
                     IF refused \/ MaxRequests = 0 THEN "closed" ELSE "reading"]
    /\ served' = [served EXCEPT ![connects + 1] = 1]
    /\ UNCHANGED <<pc, request, requests, last_session, calls, runtime, performed, history>>

Disconnect ==
    /\ pc = "idle" /\ socket # 0
    /\ socket' = 0 /\ session' = NoSession
    /\ UNCHANGED <<next_request_id, pc, request, aligned, streams, threads, connects, calls,
                   runtime, performed, history>>

\* set_session(): the caller presents a session it was granted at some time.
SetSession(t) ==
    /\ pc = "idle"
    /\ session' = [token |-> t, from |-> 0]
    /\ UNCHANGED <<socket, next_request_id, pc, request, aligned, streams, threads, connects,
                   calls, runtime, performed, history>>

\* A call returns without having taken a reply.
Fails(k) ==
    /\ pc' = "idle" /\ request' = NoRequest
    /\ outcome' = [outcome EXCEPT ![k] = "error"]
    /\ UNCHANGED answer

\* round_trip() without a connection.
CallNotReady ==
    /\ pc = "idle" /\ socket = 0 /\ calls < MaxCalls
    /\ calls' = calls + 1
    /\ Fails(calls + 1)
    /\ UNCHANGED <<socket, next_request_id, session, aligned, streams, threads, connects,
                   runtime, performed>>

\* round_trip() up to its first read.  A frame that send_all could not finish is in
\* the stream in part (whole is FALSE), or not at all, and the call fails.
Call(op, sent) ==
    LET frame == [id |-> next_request_id, call |-> calls + 1, op |-> op,
                  token |-> IF op = "Hello" THEN 0 ELSE session.token, whole |-> sent = "whole"]
    IN /\ pc = "idle" /\ socket # 0 /\ calls < MaxCalls
       /\ calls' = calls + 1
       /\ next_request_id' = next_request_id + 1
       /\ requests' = IF sent = "nothing" THEN requests
                      ELSE [requests EXCEPT ![socket] = Append(@, frame)]
       /\ IF sent = "whole"
          THEN /\ pc' = "header"
               /\ request' = [id |-> next_request_id, call |-> calls + 1, op |-> op]
               /\ UNCHANGED history
          ELSE Fails(calls + 1)
       /\ UNCHANGED <<socket, session, aligned, replies, threads, connects, runtime, performed>>

\* A mutant: any reply is taken for the answer.
ReadHeaderAnyId ==
    /\ pc = "header" /\ aligned /\ replies[socket] # <<>>
    /\ pc' = "body"
    /\ UNCHANGED <<socket, next_request_id, session, request, aligned, streams, threads,
                   connects, calls, runtime, performed, history>>

\* The header of a reply.  A reply that names another request fails the call, and
\* its body stays in the stream.
ReadHeader ==
    /\ pc = "header" /\ aligned /\ replies[socket] # <<>>
    /\ IF Head(replies[socket]).id = request.id
       THEN pc' = "body" /\ UNCHANGED <<request, aligned, history>>
       ELSE Fails(request.call) /\ aligned' = FALSE
    /\ UNCHANGED <<socket, next_request_id, session, streams, threads, connects, calls,
                   runtime, performed>>

\* A read that starts inside a frame ends inside it, at its end, or inside the next
\* frame; the magic value is not there.
ReadInside ==
    /\ pc = "header" /\ ~aligned /\ replies[socket] # <<>>
    /\ \/ UNCHANGED <<replies, aligned>>
       \/ aligned' = TRUE /\ replies' = [replies EXCEPT ![socket] = Tail(@)]
       \/ /\ Len(replies[socket]) > 1
          /\ UNCHANGED aligned /\ replies' = [replies EXCEPT ![socket] = Tail(@)]
    /\ Fails(request.call)
    /\ UNCHANGED <<socket, next_request_id, session, requests, threads, connects, calls,
                   runtime, performed>>

\* The body of the reply: the call takes it, and hello() stores the session.
ReadBody ==
    LET reply == Head(replies[socket])
    IN /\ pc = "body" /\ reply.whole
       /\ pc' = "idle" /\ request' = NoRequest
       /\ replies' = [replies EXCEPT ![socket] = Tail(@)]
       /\ outcome' = [outcome EXCEPT ![request.call] =
                         IF reply.op = "Response" THEN "ok" ELSE "error"]
       /\ answer' = [answer EXCEPT ![request.call] = reply.call]
       /\ session' = IF request.op = "Hello" /\ reply.op = "Response"
                     THEN [token |-> reply.token, from |-> socket] ELSE session
       /\ UNCHANGED <<socket, next_request_id, aligned, requests, threads, connects, calls,
                      runtime, performed>>

\* recv_exact reports the end of the stream: the worker has closed it and less is
\* left of it than the read needs, or requests the worker never read made the
\* close a reset, which discards what was left.
ReadEnd ==
    /\ pc # "idle" /\ worker[socket] = "closed"
    /\ \/ replies[socket] = <<>>
       \/ Len(replies[socket]) = 1 /\ (~aligned \/ ~Head(replies[socket]).whole)
       \/ requests[socket] # <<>>
    /\ replies' = [replies EXCEPT ![socket] = <<>>]
    /\ Fails(request.call)
    /\ UNCHANGED <<socket, next_request_id, session, aligned, requests, threads, connects,
                   calls, runtime, performed>>

\* A mutant: the request is sent again when its answer is late.
DeadlineResends ==
    /\ Deadlines /\ pc = "header" /\ replies[socket] = <<>> /\ worker[socket] = "reading"
    /\ requests' = [requests EXCEPT ![socket] = Append(@,
                       [id |-> request.id, call |-> request.call, op |-> request.op,
                        token |-> session.token, whole |-> TRUE])]
    /\ Len(requests[socket]) < MaxCalls
    /\ UNCHANGED <<client, replies, threads, connects, calls, runtime, performed, history>>

\* A mutant: the deadline is never set.
DeadlineUnset == FALSE /\ UNCHANGED vars

\* A read gives up.  It may have taken none of a frame that is still on its way, a
\* part of it, or the rest of the one it started in.
Deadline ==
    /\ Deadlines /\ pc # "idle"
    /\ \/ pc = "header" /\ UNCHANGED <<replies, aligned>>
       \/ replies[socket] # <<>> /\ aligned' = FALSE /\ UNCHANGED replies
       \/ /\ pc = "header" /\ ~aligned /\ replies[socket] # <<>>
          /\ aligned' = TRUE /\ replies' = [replies EXCEPT ![socket] = Tail(@)]
    /\ Fails(request.call)
    /\ UNCHANGED <<socket, next_request_id, session, requests, threads, connects, calls,
                   runtime, performed>>

-----------------------------------------------------------------------------
(* The node. *)

\* A mutant: the epoch stays when a connection ends.
EndKeepsEpoch(c, s, t) == worker' = [worker EXCEPT ![c] = "closed"] /\ authority' = t

\* The end of handle_connection, where s is last_session and t the accepted token:
\* advance_epoch succeeds when the session is current, and voids its grant.
End(c, s, t) ==
    /\ worker' = [worker EXCEPT ![c] = "closed"]
    /\ authority' = IF FenceOnDisconnect /\ s # 0 /\ s = t THEN 0 ELSE t

\* What the runtime makes of a request: the token accepted afterwards and the token
\* returned, for each way it may answer.  A handshake returns the live grant, or
\* issues a token when there is none; a mutation needs the accepted session.
Results(frame) ==
    CASE frame.op = "Hello" /\ authority # 0 ->
            {[ok |-> TRUE, authority |-> authority, grants |-> grants]}
      [] frame.op = "Hello" /\ authority = 0 ->
            {[ok |-> FALSE, authority |-> 0, grants |-> grants]}
            \cup (IF grants < MaxGrants
                  THEN {[ok |-> TRUE, authority |-> grants + 1, grants |-> grants + 1]} ELSE {})
      [] OTHER ->
            {[ok |-> ok, authority |-> authority, grants |-> grants] :
                 ok \in {v \in BOOLEAN : v => /\ frame.token # 0
                                              /\ frame.op = "Mutate" => frame.token = authority}}

\* The worker's loop ends after a failed send, a failed handshake, and
\* max_requests_per_connection requests.
LastTurn(c, frame, result, sent) ==
    sent # "whole" \/ (frame.op = "Hello" /\ ~result.ok) \/ served[c] = MaxRequests

\* One turn of the worker's loop on a whole frame: receive, dispatch, reply.  The
\* reply may be sent, in part or not at all when the client is gone or too slow.
Serve(c, result, sent) ==
    LET frame == Head(requests[c])
        reply == [id |-> frame.id, op |-> IF result.ok THEN "Response" ELSE "Error",
                  call |-> frame.call, token |-> result.authority, whole |-> sent = "whole"]
        seen == IF frame.token # 0 THEN frame.token ELSE last_session[c]
    IN /\ requests' = [requests EXCEPT ![c] = Tail(@)]
       /\ replies' = IF sent = "nothing" THEN replies
                     ELSE [replies EXCEPT ![c] = Append(@, reply)]
       /\ performed' = IF result.ok THEN [performed EXCEPT ![frame.call] = @ + 1] ELSE performed
       /\ grants' = result.grants
       /\ last_session' = [last_session EXCEPT ![c] = seen]
       /\ IF LastTurn(c, frame, result, sent)
          THEN End(c, seen, result.authority) /\ UNCHANGED served
          ELSE /\ served' = [served EXCEPT ![c] = @ + 1]
               /\ authority' = result.authority /\ UNCHANGED worker
       /\ UNCHANGED <<client, connects, calls, history>>

\* A request cut short runs into the next one: its magic, header or checksum is
\* wrong.  The worker answers with an error and ends.
ServeBadFrame(c, id) ==
    /\ replies' = [replies EXCEPT ![c] = Append(@, [Refusal EXCEPT !.id = id])]
    /\ End(c, last_session[c], authority)
    /\ UNCHANGED <<client, requests, served, last_session, connects, calls, grants, performed,
                   history>>

WorkerReads(c) ==
    /\ worker[c] = "reading" /\ requests[c] # <<>>
    /\ \/ /\ Head(requests[c]).whole
          /\ \E result \in Results(Head(requests[c])), sent \in {"whole", "part", "nothing"} :
                Serve(c, result, sent)
       \/ /\ ~Head(requests[c]).whole /\ Len(requests[c]) > 1
          /\ \E id \in {0, Head(requests[c]).id} : ServeBadFrame(c, id)

\* recv_exact fails: the client has closed its end, or was idle for too long.
WorkerReadFails(c) ==
    /\ worker[c] = "reading"
    /\ requests[c] # <<>> => ~Head(requests[c]).whole
    /\ socket # c \/ IdleTimeout
    /\ End(c, last_session[c], authority)
    /\ UNCHANGED <<client, streams, served, last_session, connects, calls, grants, performed,
                   history>>

\* Some other publisher moves the epoch.
EpochMoves ==
    /\ authority # 0 /\ authority' = 0
    /\ UNCHANGED <<client, streams, threads, connects, calls, grants, performed, history>>

-----------------------------------------------------------------------------

ClientReturns == ReadHeader \/ ReadInside \/ ReadBody \/ ReadEnd \/ Deadline

Next ==
    \/ \E refused \in BOOLEAN : Connect(refused)
    \/ Disconnect
    \/ \E t \in 0 .. grants : SetSession(t)
    \/ CallNotReady
    \/ \E op \in Ops, sent \in {"whole", "part", "nothing"} : Call(op, sent)
    \/ ClientReturns
    \/ \E c \in Connects : WorkerReads(c) \/ WorkerReadFails(c)
    \/ EpochMoves

\* A call in progress keeps running: recv returns when its bytes, the end of the
\* stream or the deadline are there.  Nothing is assumed of the node.
Spec == Init /\ [][Next]_vars /\ WF_vars(ClientReturns)

-----------------------------------------------------------------------------
(* Properties. *)

Frame == [id : Nat, call : 0 .. MaxCalls, token : 0 .. MaxGrants, whole : BOOLEAN,
          op : Ops \cup {"Response", "Error"}]

\* Types, and that a connection's worker never reads more requests than
\* max_requests_per_connection (node.cpp, the loop's first test).
ClientTypeOK ==
    /\ socket \in 0 .. MaxConnects /\ connects \in 0 .. MaxConnects /\ calls \in 0 .. MaxCalls
    /\ next_request_id \in 1 .. MaxCalls + 1
    /\ session \in [token : 0 .. MaxGrants, from : 0 .. MaxConnects]
    /\ pc \in {"idle", "header", "body"} /\ aligned \in BOOLEAN
    /\ request \in [id : 0 .. MaxCalls, call : 0 .. MaxCalls, op : Ops]
    /\ \A c \in Connects : /\ \A s \in {requests[c], replies[c]} : s \in Seq(Frame)
                           /\ worker[c] \in {"none", "reading", "closed"}
                           /\ worker[c] = "reading" => served[c] \in 1 .. MaxRequests
                           /\ last_session[c] \in 0 .. MaxGrants
    /\ authority \in 0 .. grants /\ grants \in 0 .. MaxGrants
    /\ performed \in [Calls -> Nat] /\ answer \in [Calls -> 0 .. MaxCalls]
    /\ outcome \in [Calls -> {"none", "ok", "error"}]

\* A call that reports success took the reply to its own request, and the node
\* performed that request (client.cpp: no path on which a mismatched reply becomes
\* a successful result), whatever earlier calls left in the stream.
SuccessIsOwnReply ==
    \A k \in Calls : outcome[k] = "ok" => answer[k] = k /\ performed[k] = 1

\* The node performs a call at most once, late answers, reconnections and failed
\* sends included: the client never retries on its own (client.hpp).
PerformedAtMostOnce == \A k \in Calls : performed[k] <= 1

\* The session a client carries was granted on the connection it holds, or given by
\* its caller: the client never caches authority across connections (client.hpp).
SessionOfThisConnection == session.from # 0 => session.from = socket

\* With fence_on_disconnect, the session a connection last presented is not accepted
\* once its worker has ended (node.cpp, the end of handle_connection).
LastSessionEnds ==
    FenceOnDisconnect =>
        \A c \in Connects : worker[c] = "closed" /\ last_session[c] # 0 => authority # last_session[c]

\* With io_deadline_ms set, every call returns, even when the node has fallen silent
\* (client.hpp: the value bounds the time a client can be blocked by a dead peer).
CallsReturn == Deadlines => (pc # "idle" ~> pc = "idle")

\* The grant a handshake returned ends with its connection, as node.hpp says of
\* fence_on_disconnect.  It does not for a client that only shook hands.
HandshakeEndsWithSocket ==
    session.from # 0 /\ worker[session.from] = "closed" => authority # session.token

\* PROTOCOL.md: a connection that sends a truncated body is answered with an Error
\* frame and then closed.
TruncatedFrameAnswered ==
    [][\A c \in Connects :
          /\ worker[c] = "reading" /\ worker'[c] = "closed"
          /\ requests[c] # <<>> /\ ~Head(requests[c]).whole
          => replies'[c] # <<>> /\ replies'[c][Len(replies'[c])].op = "Error"]_vars
=============================================================================
