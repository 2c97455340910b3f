-------------------------- MODULE NodeClientProofs --------------------------
(***************************************************************************)
(* Proofs about NodeClient for any number of connections, calls, grants    *)
(* and requests to a connection, with and without deadlines: a call that   *)
(* succeeds has its own answer, no call is performed twice, and sessions   *)
(* end where they should.                                                  *)
(***************************************************************************)
EXTENDS NodeClient, TLAPS

\* The frames of a stream.
Frames(stream) == {stream[i] : i \in DOMAIN stream}

\* The types of what the proofs are about: numbers, what the client holds, what a connection
\* has, and what is known of calls.
Sizes ==
    /\ connects \in 0 .. MaxConnects /\ socket \in 0 .. connects
    /\ calls \in 0 .. MaxCalls
    /\ next_request_id \in Nat \ {0}
    /\ grants \in 0 .. MaxGrants /\ authority \in 0 .. grants

Held ==
    /\ session \in [token : 0 .. grants, from : Nat]
    /\ pc \in {"idle", "header", "body"}
    /\ request \in [id : Nat, call : 0 .. calls, op : Ops]

Ends ==
    /\ requests \in [Connects -> Seq(Frame)]
    /\ replies \in [Connects -> Seq(Frame)]
    /\ worker \in [Connects -> {"none", "reading", "closed"}]
    /\ last_session \in [Connects -> 0 .. grants]

Known ==
    /\ performed \in [Calls -> {0, 1}]
    /\ outcome \in [Calls -> {"none", "ok", "error"}]
    /\ answer \in [Calls -> 0 .. MaxCalls]

Shape == Sizes /\ Held /\ Ends /\ Known

\* Nothing was said on a connection that is still to be made.
NothingAhead ==
    \A c \in Connects :
        c > connects => requests[c] = <<>> /\ replies[c] = <<>> /\ last_session[c] = 0

\* A request on its way belongs to a call that was made and not performed, with a token that
\* was issued; a reply that grants something, to a call that was performed.
StreamsTrue ==
    \A c \in Connects :
        /\ \A f \in Frames(requests[c]) :
              f.call \in 1 .. calls /\ performed[f.call] = 0 /\ f.token <= grants
        /\ \A r \in Frames(replies[c]) :
              /\ r.token <= grants
              /\ r.op = "Response" => r.call \in 1 .. calls /\ performed[r.call] = 1

\* No call has two requests on their way.
SentOnce ==
    \A c, d \in Connects : \A i \in DOMAIN requests[c], j \in DOMAIN requests[d] :
        requests[c][i].call = requests[d][j].call => c = d /\ i = j

\* On the connection held, a request identifier names one call.
IdsMatch ==
    /\ socket # 0 =>
          /\ \A f \in Frames(requests[socket]) :
                /\ f.id < next_request_id
                /\ pc # "idle" /\ f.id = request.id => f.call = request.call
          /\ \A r \in Frames(replies[socket]) :
                /\ r.id < next_request_id
                /\ pc # "idle" /\ r.id = request.id /\ r.op = "Response" => r.call = request.call
    /\ pc # "idle" => socket # 0 /\ request.call # 0 /\ request.id < next_request_id
    /\ pc = "body" => replies[socket] # <<>> /\ Head(replies[socket]).id = request.id

\* No call was performed, or returned, before it was made.
NotYetMade == \A k \in Calls : k > calls => performed[k] = 0 /\ outcome[k] = "none"

\* The inductive invariant.
ClientInv ==
    /\ Shape /\ NothingAhead /\ StreamsTrue /\ SentOnce /\ IdsMatch /\ NotYetMade
    /\ SuccessIsOwnReply /\ SessionOfThisConnection /\ LastSessionEnds

-----------------------------------------------------------------------------
(* Streams *)

LEMMA AppendFacts ==
    ASSUME NEW s \in Seq(Frame), NEW f \in Frame
    PROVE  /\ Append(s, f) \in Seq(Frame) /\ Append(s, f) # <<>>
           /\ Frames(Append(s, f)) = Frames(s) \cup {f}
           /\ s # <<>> => Head(Append(s, f)) = Head(s)
           /\ \A i \in DOMAIN Append(s, f) :
                 \/ i \in DOMAIN s /\ Append(s, f)[i] = s[i]
                 \/ i = Len(s) + 1 /\ Append(s, f)[i] = f
<1>1. /\ Append(s, f) \in Seq(Frame) /\ Append(s, f) # <<>>
      /\ DOMAIN Append(s, f) = 1 .. Len(s) + 1 /\ DOMAIN s = 1 .. Len(s) /\ Len(s) \in Nat
      /\ \A i \in 1 .. Len(s) : Append(s, f)[i] = s[i]
      /\ Append(s, f)[Len(s) + 1] = f
  OBVIOUS
<1>2. Frames(Append(s, f)) = Frames(s) \cup {f}
  BY <1>1 DEF Frames
<1>3. s # <<>> => Head(Append(s, f)) = Head(s)
  OBVIOUS
<1>4. \A i \in 1 .. Len(s) + 1 : i \in 1 .. Len(s) \/ i = Len(s) + 1
  BY <1>1
<1> QED
  BY <1>1, <1>2, <1>3, <1>4

LEMMA TailFacts ==
    ASSUME NEW s \in Seq(Frame), s # <<>>
    PROVE  /\ Tail(s) \in Seq(Frame) /\ Head(s) \in Frames(s) /\ Head(s) \in Frame
           /\ Frames(Tail(s)) \subseteq Frames(s)
           /\ 1 \in DOMAIN s /\ Head(s) = s[1]
           /\ \A i \in DOMAIN Tail(s) :
                 i + 1 \in DOMAIN s /\ i + 1 # 1 /\ Tail(s)[i] = s[i + 1]
<1>1. /\ Tail(s) \in Seq(Frame) /\ Head(s) = s[1] /\ 1 \in DOMAIN s /\ s[1] \in Frame
      /\ DOMAIN Tail(s) = 1 .. Len(s) - 1 /\ DOMAIN s = 1 .. Len(s) /\ Len(s) \in Nat
      /\ \A i \in 1 .. Len(s) - 1 : Tail(s)[i] = s[i + 1]
  OBVIOUS
<1>2. \A i \in DOMAIN Tail(s) : i + 1 \in DOMAIN s /\ i + 1 # 1 /\ Tail(s)[i] = s[i + 1]
  BY <1>1
<1>3. Frames(Tail(s)) \subseteq Frames(s) /\ Head(s) \in Frames(s)
  BY <1>1, <1>2 DEF Frames
<1> QED
  BY <1>1, <1>2, <1>3

LEMMA EmptyFacts == <<>> \in Seq(Frame) /\ Frames(<<>>) = {}
  BY DEF Frames

\* Every frame of a stream is one.
LEMMA FramesAre ==
    ASSUME NEW s \in Seq(Frame)
    PROVE  /\ Frames(s) \subseteq Frame
           /\ \A i \in DOMAIN s : s[i] \in Frames(s)
  BY DEF Frames

LEMMA FieldsAre ==
    ASSUME NEW f \in Frame
    PROVE  /\ f.id \in Nat /\ f.call \in 0 .. MaxCalls
           /\ f.token \in Nat /\ f.token \in 0 .. MaxGrants
<1>1. f.id \in Nat /\ f.call \in 0 .. MaxCalls /\ f.token \in 0 .. MaxGrants
  BY DEF Frame
<1>2. MaxGrants \in Nat
  BY ClientBounds
<1> QED
  BY <1>1, <1>2

-----------------------------------------------------------------------------
(* The client *)

LEMMA NoRequestIs ==
    ASSUME NEW n \in Nat
    PROVE  NoRequest \in [id : Nat, call : 0 .. n, op : Ops]
  BY DEF NoRequest, Ops

LEMMA SizesAre ==
    ASSUME ClientInv
    PROVE  /\ connects \in Nat /\ calls \in Nat /\ grants \in Nat /\ authority \in Nat
           /\ socket # 0 => socket \in Connects
<1>1. {MaxConnects, MaxCalls, MaxGrants} \subseteq Nat
  BY ClientBounds
<1>2. /\ connects \in 0 .. MaxConnects /\ socket \in 0 .. connects /\ calls \in 0 .. MaxCalls
      /\ grants \in 0 .. MaxGrants /\ authority \in 0 .. grants
  BY DEF ClientInv, Shape, Sizes
<1> QED
  BY <1>1, <1>2 DEF Connects

\* The calls made are calls.
LEMMA MadeAreCalls ==
    ASSUME ClientInv
    PROVE  1 .. calls \subseteq Calls
<1>1. calls \in 0 .. MaxCalls /\ MaxCalls \in Nat
  BY ClientBounds DEF ClientInv, Shape, Sizes
<1> QED
  BY <1>1 DEF Calls

\* A call in progress has a connection and a number.
LEMMA InProgress ==
    ASSUME ClientInv, pc # "idle"
    PROVE  /\ socket \in Connects /\ socket # 0
           /\ request.call \in Calls /\ request.call <= calls
           /\ replies \in [Connects -> Seq(Frame)] /\ replies[socket] \in Seq(Frame)
<1>1. socket # 0 /\ request.call # 0
  BY DEF ClientInv, IdsMatch
<1>2. socket \in Connects
  BY <1>1, ClientBounds DEF ClientInv, Shape, Sizes, Connects
<1>3. request.call \in Calls /\ request.call <= calls
  BY <1>1, ClientBounds DEF ClientInv, Shape, Sizes, Held, Calls
<1> QED
  BY <1>1, <1>2, <1>3 DEF ClientInv, Shape, Ends

\* A call that gives up takes nothing but bytes of replies with it.
LEMMA GivesUp ==
    ASSUME ClientInv, pc # "idle", Fails(request.call),
           NEW rest \in Seq(Frame), Frames(rest) \subseteq Frames(replies[socket]),
           replies' = [replies EXCEPT ![socket] = rest],
           UNCHANGED <<socket, next_request_id, session, requests, threads, connects, calls,
                       runtime, performed>>
    PROVE  ClientInv'
<1> USE DEF threads, runtime
<1>0. socket \in Connects /\ request.call \in Calls
  BY ClientBounds DEF ClientInv, Shape, Sizes, Held, Ends, IdsMatch, Connects, Calls
<1>1. \A c \in Connects : replies'[c] = IF c = socket THEN rest ELSE replies[c]
  BY <1>0 DEF ClientInv, Shape, Ends
<1>2. Shape'
  <2>1. request' \in [id : Nat, call : 0 .. calls, op : Ops]
    BY NoRequestIs DEF ClientInv, Shape, Sizes, Fails
  <2>2. outcome' \in [Calls -> {"none", "ok", "error"}] /\ replies' \in [Connects -> Seq(Frame)]
    BY <1>0 DEF ClientInv, Shape, Ends, Known, Fails
  <2> QED
    BY Zenon, <2>1, <2>2 DEF ClientInv, Shape, Sizes, Held, Ends, Known, Fails
<1>3. NothingAhead'
  BY <1>0, <1>1 DEF ClientInv, Shape, Sizes, NothingAhead
<1>4. StreamsTrue'
  BY <1>1 DEF ClientInv, StreamsTrue
<1>5. SentOnce'
  BY DEF ClientInv, SentOnce
<1>6. IdsMatch'
  BY <1>0, <1>1 DEF ClientInv, IdsMatch, Fails
<1>7. NotYetMade'
  BY <1>0 DEF ClientInv, Shape, Sizes, Held, NotYetMade, Fails
<1>8. SuccessIsOwnReply'
  BY <1>0 DEF ClientInv, SuccessIsOwnReply, Fails
<1>9. SessionOfThisConnection' /\ LastSessionEnds'
  BY DEF ClientInv, SessionOfThisConnection, LastSessionEnds
<1> QED
  BY <1>2, <1>3, <1>4, <1>5, <1>6, <1>7, <1>8, <1>9 DEF ClientInv

\* A new connection has nothing in its streams but, perhaps, a refusal.
LEMMA ConnectKeeps ==
    ASSUME ClientInv, NEW refused \in BOOLEAN, Connect(refused)
    PROVE  ClientInv'
<1> USE DEF runtime, history
<1> DEFINE c0 == connects + 1
<1>0. c0 \in Connects /\ connects \in Nat /\ c0 > connects
  BY ClientBounds DEF Connect, ClientInv, Shape, Sizes, Connects
<1>1. /\ \A c \in Connects : replies'[c] = IF c = c0 THEN (IF refused THEN <<Refusal>> ELSE <<>>)
                                           ELSE replies[c]
      /\ \A c \in Connects : c # c0 => worker'[c] = worker[c]
      /\ \A c \in Connects : worker'[c] \in {"none", "reading", "closed"}
  BY <1>0 DEF Connect, ClientInv, Shape, Ends
<1>2. Refusal \in Frame /\ Refusal.token = 0 /\ Refusal.id = 0 /\ Refusal.op = "Error"
  BY ClientBounds DEF Refusal, Frame
<1>3. <<Refusal>> \in Seq(Frame) /\ Frames(<<Refusal>>) = {Refusal}
  BY <1>2 DEF Frames
<1>4. Frames(replies'[c0]) \subseteq {Refusal} /\ Frames(requests[c0]) = {}
  BY <1>0, <1>1, <1>3, EmptyFacts DEF ClientInv, NothingAhead
<1>5. Shape'
  <2>1. replies' \in [Connects -> Seq(Frame)]
    BY <1>0, <1>3, EmptyFacts DEF Connect, ClientInv, Shape, Ends
  <2>2. worker' \in [Connects -> {"none", "reading", "closed"}]
    BY <1>0 DEF Connect, ClientInv, Shape, Ends
  <2>3. connects' \in 0 .. MaxConnects /\ socket' \in 0 .. connects'
    BY <1>0, ClientBounds DEF Connect, Connects
  <2>4. session' \in [token : 0 .. grants, from : Nat]
    BY DEF Connect, ClientInv, Shape, Sizes, NoSession
  <2> QED
    <3>1. Sizes'
      BY <2>3 DEF Connect, ClientInv, Shape, Sizes
    <3>2. Held' /\ Known'
      BY <2>4 DEF Connect, ClientInv, Shape, Held, Known
    <3>3. Ends'
      BY <2>1, <2>2 DEF Connect, ClientInv, Shape, Ends
    <3> QED
      BY <3>1, <3>2, <3>3 DEF Shape
<1>6. NothingAhead'
  BY <1>0, <1>1 DEF Connect, ClientInv, NothingAhead, Connects
<1>7. StreamsTrue'
  <2> SUFFICES ASSUME NEW c \in Connects
               PROVE  \A r \in Frames(replies'[c]) :
                         /\ r.token <= grants
                         /\ r.op = "Response" => r.call \in 1 .. calls /\ performed[r.call] = 1
    BY DEF Connect, ClientInv, StreamsTrue
  <2>1. CASE c = c0
    BY <1>2, <1>4, <2>1 DEF ClientInv, Shape, Sizes
  <2>2. CASE c # c0
    BY <1>1, <2>2 DEF ClientInv, StreamsTrue
  <2> QED
    BY <2>1, <2>2
<1>8. SentOnce' /\ NotYetMade' /\ SuccessIsOwnReply' /\ SessionOfThisConnection'
  BY DEF Connect, ClientInv, SentOnce, NotYetMade, SuccessIsOwnReply, SessionOfThisConnection,
         NoSession
<1>9. IdsMatch'
  BY <1>2, <1>4 DEF Connect, IdsMatch
<1>10. LastSessionEnds'
  BY <1>0, <1>1 DEF Connect, ClientInv, NothingAhead, LastSessionEnds
<1> QED
  BY <1>5, <1>6, <1>7, <1>8, <1>9, <1>10 DEF ClientInv

\* disconnect() and set_session() only change what the client holds.
LEMMA HeldChanges ==
    ASSUME ClientInv, Disconnect \/ \E t \in 0 .. grants : SetSession(t)
    PROVE  ClientInv'
<1> USE DEF streams, threads, runtime, history
<1>1. /\ socket' \in {0, socket} /\ session' \in [token : 0 .. grants, from : {0}]
      /\ pc = "idle"
      /\ UNCHANGED <<next_request_id, pc, request, streams, threads, connects, calls, runtime,
                     performed, history>>
  BY DEF Disconnect, SetSession, ClientInv, Shape, Sizes, NoSession
<1>2. Shape'
  BY <1>1 DEF ClientInv, Shape, Sizes, Held, Ends, Known
<1>3. NothingAhead' /\ StreamsTrue' /\ SentOnce' /\ NotYetMade' /\ SuccessIsOwnReply'
  BY <1>1 DEF ClientInv, NothingAhead, StreamsTrue, SentOnce, NotYetMade, SuccessIsOwnReply
<1>4. IdsMatch'
  BY <1>1 DEF ClientInv, IdsMatch
<1>5. SessionOfThisConnection' /\ LastSessionEnds'
  BY <1>1 DEF ClientInv, SessionOfThisConnection, LastSessionEnds
<1> QED
  BY <1>2, <1>3, <1>4, <1>5 DEF ClientInv

LEMMA CallNotReadyKeeps ==
    ASSUME ClientInv, CallNotReady
    PROVE  ClientInv'
<1> USE DEF streams, threads, runtime
<1>0. calls \in Nat /\ calls + 1 \in Calls
  BY ClientBounds DEF CallNotReady, ClientInv, Shape, Sizes, Calls
<1>1. Shape'
  <2>1. request' \in [id : Nat, call : 0 .. calls', op : Ops]
    BY <1>0, NoRequestIs DEF CallNotReady, Fails
  <2>2. outcome' \in [Calls -> {"none", "ok", "error"}] /\ calls' \in 0 .. MaxCalls
    BY <1>0, ClientBounds DEF CallNotReady, ClientInv, Shape, Known, Fails, Calls
  <2> QED
    BY Zenon, <2>1, <2>2 DEF CallNotReady, ClientInv, Shape, Sizes, Held, Ends, Known, Fails
<1>2. NothingAhead' /\ SentOnce' /\ SessionOfThisConnection' /\ LastSessionEnds'
  BY DEF CallNotReady, ClientInv, NothingAhead, SentOnce, SessionOfThisConnection, LastSessionEnds
<1>3. StreamsTrue'
  BY <1>0 DEF CallNotReady, ClientInv, StreamsTrue
<1>4. IdsMatch'
  BY DEF CallNotReady, ClientInv, IdsMatch, Fails
<1>5. NotYetMade' /\ SuccessIsOwnReply'
  BY <1>0 DEF CallNotReady, ClientInv, NotYetMade, SuccessIsOwnReply, Fails, Calls
<1> QED
  BY <1>1, <1>2, <1>3, <1>4, <1>5 DEF ClientInv

\* A request has an identifier new to its connection and is the only one of its call.
LEMMA CallKeeps ==
    ASSUME ClientInv, NEW op \in Ops, NEW sent \in {"whole", "part", "nothing"}, Call(op, sent)
    PROVE  ClientInv'
<1> USE DEF threads, runtime
<1> DEFINE k == calls + 1
           frame == [id |-> next_request_id, call |-> k, op |-> op,
                     token |-> IF op = "Hello" THEN 0 ELSE session.token, whole |-> sent = "whole"]
<1>0. /\ calls \in Nat /\ k \in Calls /\ socket \in Connects /\ socket # 0
      /\ pc = "idle" /\ calls' = k /\ next_request_id' = next_request_id + 1
      /\ next_request_id \in Nat \ {0}
  BY ClientBounds DEF Call, ClientInv, Shape, Sizes, Calls, Connects
<1>1. frame \in Frame /\ frame.id = next_request_id /\ frame.call = k /\ frame.token <= grants
  <2>1. k \in 0 .. MaxCalls /\ op \in Ops \cup {"Response", "Error"}
    BY <1>0 DEF Calls
  <2>2. frame.token \in 0 .. MaxGrants /\ frame.token <= grants
    BY ClientBounds DEF ClientInv, Shape, Sizes, Held
  <2>3. (sent = "whole") \in BOOLEAN
    OBVIOUS
  <2> QED
    BY <1>0, <2>1, <2>2, <2>3 DEF Frame
<1>2. \/ requests' = requests
      \/ requests' = [requests EXCEPT ![socket] = Append(@, frame)]
  BY Zenon DEF Call
<1>3. /\ requests' \in [Connects -> Seq(Frame)]
      /\ \A c \in Connects : c # socket => requests'[c] = requests[c]
      /\ Frames(requests'[socket]) \subseteq Frames(requests[socket]) \cup {frame}
      /\ \A i \in DOMAIN requests'[socket] :
            \/ i \in DOMAIN requests[socket] /\ requests'[socket][i] = requests[socket][i]
            \/ i = Len(requests[socket]) + 1 /\ requests'[socket][i] = frame
  <2>1. requests[socket] \in Seq(Frame) /\ requests \in [Connects -> Seq(Frame)]
    BY Zenon, <1>0 DEF ClientInv, Shape, Ends
  <2>2. CASE requests' = requests
    BY <2>1, <2>2
  <2>3. CASE requests' = [requests EXCEPT ![socket] = Append(@, frame)]
    <3>1. requests'[socket] = Append(requests[socket], frame)
      BY Zenon, <1>0, <2>1, <2>3
    <3> HIDE DEF frame
    <3>2. /\ Append(requests[socket], frame) \in Seq(Frame)
          /\ Frames(Append(requests[socket], frame)) = Frames(requests[socket]) \cup {frame}
          /\ \A i \in DOMAIN Append(requests[socket], frame) :
                \/ i \in DOMAIN requests[socket]
                   /\ Append(requests[socket], frame)[i] = requests[socket][i]
                \/ i = Len(requests[socket]) + 1 /\ Append(requests[socket], frame)[i] = frame
      BY Zenon, <1>1, <2>1, AppendFacts
    <3>3. /\ Frames(requests'[socket]) = Frames(requests[socket]) \cup {frame}
          /\ \A i \in DOMAIN requests'[socket] :
                \/ i \in DOMAIN requests[socket] /\ requests'[socket][i] = requests[socket][i]
                \/ i = Len(requests[socket]) + 1 /\ requests'[socket][i] = frame
      BY Zenon, <3>1, <3>2
    <3> QED
      BY <1>0, <2>1, <2>3, <3>2, <3>3
  <2> QED
    BY <1>2, <2>2, <2>3
<1>4. /\ UNCHANGED <<socket, session, replies, threads, connects, runtime, performed, answer>>
      /\ outcome' \in [Calls -> {"none", "ok", "error"}]
      /\ \A j \in Calls : j # k => outcome'[j] = outcome[j]
      /\ outcome'[k] # "ok"
  <2>1. UNCHANGED <<socket, session, replies, threads, connects, runtime, performed, answer>>
    BY DEF Call, Fails, history
  <2>2. CASE sent = "whole"
    <3>1. outcome' = outcome
      BY <2>2 DEF Call, history
    <3>2. outcome[k] = "none"
      BY <1>0 DEF ClientInv, NotYetMade
    <3> QED
      BY <2>1, <3>1, <3>2 DEF ClientInv, Shape, Known
  <2>3. CASE sent # "whole"
    BY Zenon, <1>0, <2>1, <2>3 DEF Call, Fails, ClientInv, Shape, Known
  <2> QED
    BY <2>1, <2>2, <2>3
<1>5. /\ pc' \in {"idle", "header"} /\ request' \in [id : Nat, call : 0 .. k, op : Ops]
      /\ pc' = "header" => request'.id = next_request_id /\ request'.call = k
  <2>1. CASE sent = "whole"
    BY <1>0, <2>1 DEF Call
  <2>2. CASE sent # "whole"
    BY <1>0, <2>2, NoRequestIs DEF Call, Fails
  <2> QED
    BY <2>1, <2>2
<1> HIDE DEF frame
<1>6. Shape'
  <2>1. calls' \in 0 .. MaxCalls /\ next_request_id' \in Nat \ {0}
    BY <1>0 DEF Calls
  <2>2. request' \in [id : Nat, call : 0 .. calls', op : Ops] /\ pc' \in {"idle", "header", "body"}
    BY <1>0, <1>5
  <2> QED
    <3>1. Sizes'
      BY <1>4, <2>1 DEF ClientInv, Shape, Sizes
    <3>2. Held'
      BY <1>4, <2>2 DEF ClientInv, Shape, Held
    <3>3. Ends' /\ Known'
      BY <1>3, <1>4 DEF ClientInv, Shape, Ends, Known
    <3> QED
      BY <3>1, <3>2, <3>3 DEF Shape
<1>7. NothingAhead'
  BY <1>0, <1>3, <1>4 DEF ClientInv, Shape, Sizes, NothingAhead
<1>8. performed[k] = 0
  BY <1>0 DEF ClientInv, NotYetMade
<1>9. StreamsTrue'
  <2>1. ASSUME NEW c \in Connects, NEW f \in Frames(requests'[c])
        PROVE  f.call \in 1 .. k /\ performed[f.call] = 0 /\ f.token <= grants
    <3>1. CASE f = frame
      BY <1>0, <1>1, <1>8, <3>1
    <3>2. CASE f # frame
      BY <1>0, <1>3, <2>1, <3>2 DEF ClientInv, StreamsTrue
    <3> QED
      BY <3>1, <3>2
  <2>2. ASSUME NEW c \in Connects, NEW r \in Frames(replies[c])
        PROVE  /\ r.token <= grants
               /\ r.op = "Response" => r.call \in 1 .. k /\ performed[r.call] = 1
    BY <1>0 DEF ClientInv, StreamsTrue
  <2> QED
    BY <1>0, <1>4, <2>1, <2>2 DEF StreamsTrue
<1>10. SentOnce'
  <2>1. \A c \in Connects : \A i \in DOMAIN requests[c] : requests[c][i].call # k
    <3> SUFFICES ASSUME NEW c \in Connects, NEW i \in DOMAIN requests[c]
                 PROVE  requests[c][i].call # k
      OBVIOUS
    <3>1. requests[c][i] \in Frames(requests[c])
      BY DEF Frames
    <3>2. requests[c][i].call \in 1 .. calls
      BY <3>1 DEF ClientInv, StreamsTrue
    <3> QED
      BY <1>0, <3>2
  <2>2. \A c \in Connects : \A i \in DOMAIN requests'[c] :
          \/ i \in DOMAIN requests[c] /\ requests'[c][i] = requests[c][i]
          \/ c = socket /\ i = Len(requests[socket]) + 1 /\ requests'[c][i] = frame
    BY <1>3
  <2> SUFFICES ASSUME NEW c \in Connects, NEW d \in Connects,
                      NEW i \in DOMAIN requests'[c], NEW j \in DOMAIN requests'[d],
                      requests'[c][i].call = requests'[d][j].call
               PROVE  c = d /\ i = j
    BY DEF SentOnce
  <2>3. CASE requests'[c][i].call = k
    BY Zenon, <2>1, <2>2, <2>3
  <2>4. CASE requests'[c][i].call # k
    <3>1. /\ i \in DOMAIN requests[c] /\ requests'[c][i] = requests[c][i]
          /\ j \in DOMAIN requests[d] /\ requests'[d][j] = requests[d][j]
      BY <1>1, <2>2, <2>4
    <3> QED
      BY <3>1 DEF ClientInv, SentOnce
  <2> QED
    BY <2>3, <2>4
<1>11. IdsMatch'
  <2>1. ASSUME NEW f \in Frames(requests'[socket])
        PROVE  f.id < next_request_id' /\ (f.id = next_request_id => f.call = k)
    <3>1. CASE f = frame
      BY <1>0, <1>1, <3>1
    <3>2. CASE f # frame
      <4>1. f \in Frames(requests[socket]) /\ f \in Frame
        BY <1>0, <1>3, <3>2, FramesAre DEF ClientInv
      <4>2. f.id \in Nat /\ f.id < next_request_id
        BY <1>0, <4>1 DEF ClientInv, IdsMatch, Frame
      <4> QED
        BY <1>0, <4>2
    <3> QED
      BY <3>1, <3>2
  <2>2. ASSUME NEW r \in Frames(replies[socket])
        PROVE  r.id < next_request_id' /\ r.id # next_request_id
    <3>1. r \in Frame
      BY <1>0, FramesAre DEF ClientInv, Shape, Ends
    <3>2. r.id \in Nat /\ r.id < next_request_id
      BY <1>0, <3>1 DEF ClientInv, IdsMatch, Frame
    <3> QED
      BY <1>0, <3>2
  <2> QED
    BY <1>0, <1>4, <1>5, <2>1, <2>2 DEF IdsMatch
<1>12. NotYetMade' /\ SuccessIsOwnReply'
  BY <1>0, <1>4 DEF ClientInv, NotYetMade, SuccessIsOwnReply, Calls
<1>13. SessionOfThisConnection' /\ LastSessionEnds'
  BY <1>4 DEF ClientInv, SessionOfThisConnection, LastSessionEnds
<1> QED
  BY <1>6, <1>7, <1>9, <1>10, <1>11, <1>12, <1>13 DEF ClientInv

\* A header that names the request in progress only moves the call on.
LEMMA ReadHeaderKeeps ==
    ASSUME ClientInv, ReadHeader
    PROVE  ClientInv'
<1> USE DEF streams, threads, runtime, history
<1>0. socket \in Connects /\ replies[socket] \in Seq(Frame)
  BY InProgress DEF ReadHeader
<1>1. CASE Head(replies[socket]).id = request.id
  <2>0. /\ pc' = "body"
        /\ UNCHANGED <<socket, next_request_id, session, request, streams, threads, connects,
                       calls, runtime, performed, history>>
    BY <1>1 DEF ReadHeader
  <2>1. Shape' /\ NothingAhead' /\ StreamsTrue' /\ SentOnce' /\ NotYetMade'
    <3>1. Sizes' /\ Ends' /\ Known'
      BY <2>0 DEF ClientInv, Shape, Sizes, Ends, Known
    <3>2. Held'
      BY <2>0 DEF ClientInv, Shape, Held
    <3>3. NothingAhead' /\ StreamsTrue' /\ SentOnce' /\ NotYetMade'
      BY <2>0 DEF ClientInv, NothingAhead, StreamsTrue, SentOnce, NotYetMade
    <3> QED
      BY <3>1, <3>2, <3>3 DEF Shape
  <2>2. IdsMatch'
    BY Zenon, <1>1 DEF ReadHeader, ClientInv, IdsMatch
  <2>3. SuccessIsOwnReply' /\ SessionOfThisConnection' /\ LastSessionEnds'
    BY <1>1 DEF ReadHeader, ClientInv, SuccessIsOwnReply, SessionOfThisConnection,
                LastSessionEnds
  <2> QED
    BY <2>1, <2>2, <2>3 DEF ClientInv
<1>2. CASE Head(replies[socket]).id # request.id
  <2>1. replies' = [replies EXCEPT ![socket] = replies[socket]]
    BY <1>0 DEF ReadHeader, ClientInv, Shape, Ends
  <2> QED
    BY Zenon, <1>0, <1>2, <2>1, GivesUp DEF ReadHeader
<1> QED
  BY <1>1, <1>2

\* Whatever part of a reply a failing read takes, the call gives up.
LEMMA FailingReadsKeep ==
    ASSUME ClientInv, ReadInside \/ ReadEnd \/ Deadline
    PROVE  ClientInv'
<1>0. /\ pc # "idle" /\ socket \in Connects
      /\ replies \in [Connects -> Seq(Frame)] /\ replies[socket] \in Seq(Frame)
  BY InProgress DEF ReadInside, ReadEnd, Deadline
<1>1. /\ Fails(request.call)
      /\ UNCHANGED <<socket, next_request_id, session, requests, threads, connects, calls,
                     runtime, performed>>
      /\ \/ replies' = replies
         \/ replies[socket] # <<>> /\ replies' = [replies EXCEPT ![socket] = Tail(@)]
         \/ replies' = [replies EXCEPT ![socket] = <<>>]
  BY DEF ReadInside, ReadEnd, Deadline
<1>2. CASE replies' = replies
  <2>1. replies' = [replies EXCEPT ![socket] = replies[socket]]
    BY <1>0, <1>2
  <2> QED
    BY Zenon, <1>0, <1>1, <2>1, GivesUp
<1>3. CASE replies[socket] # <<>> /\ replies' = [replies EXCEPT ![socket] = Tail(@)]
  <2>1. /\ Tail(replies[socket]) \in Seq(Frame)
        /\ Frames(Tail(replies[socket])) \subseteq Frames(replies[socket])
    BY <1>0, <1>3, TailFacts
  <2> QED
    BY Zenon, <1>0, <1>1, <1>3, <2>1, GivesUp
<1>4. CASE replies' = [replies EXCEPT ![socket] = <<>>]
  <2>1. <<>> \in Seq(Frame) /\ Frames(<<>>) \subseteq Frames(replies[socket])
    BY EmptyFacts
  <2> QED
    BY Zenon, <1>0, <1>1, <1>4, <2>1, GivesUp
<1> QED
  BY <1>1, <1>2, <1>3, <1>4

\* The reply whose body is read names the request, so it is the call's own.
LEMMA ReadBodyKeeps ==
    ASSUME ClientInv, ReadBody
    PROVE  ClientInv'
<1> USE DEF threads, runtime
<1> DEFINE reply == Head(replies[socket])
           k == request.call
<1>0. /\ socket \in Connects /\ k \in Calls /\ k <= calls /\ socket # 0
      /\ replies \in [Connects -> Seq(Frame)]
      /\ replies[socket] \in Seq(Frame) /\ replies[socket] # <<>>
  <2>1. pc = "body"
    BY DEF ReadBody
  <2>2. replies[socket] # <<>>
    BY <2>1 DEF ClientInv, IdsMatch
  <2> QED
    BY <2>1, <2>2, InProgress
<1>1. /\ reply \in Frames(replies[socket]) /\ reply \in Frame
      /\ Tail(replies[socket]) \in Seq(Frame)
      /\ Frames(Tail(replies[socket])) \subseteq Frames(replies[socket])
  BY <1>0, TailFacts
<1>2. \A c \in Connects :
        replies'[c] = IF c = socket THEN Tail(replies[socket]) ELSE replies[c]
  BY <1>0 DEF ReadBody
<1>3. reply.op = "Response" => reply.call = k /\ performed[k] = 1
  <2>1. pc = "body" /\ reply.id = request.id
    BY DEF ReadBody, ClientInv, IdsMatch
  <2>2. reply.op = "Response" => reply.call = k
    BY <1>0, <1>1, <2>1 DEF ClientInv, IdsMatch
  <2>3. reply.op = "Response" => performed[reply.call] = 1
    BY <1>0, <1>1 DEF ClientInv, StreamsTrue
  <2> QED
    BY <2>2, <2>3
<1>4. reply.token \in 0 .. grants /\ reply.call \in 0 .. MaxCalls
  <2>1. reply.token \in Nat /\ reply.call \in 0 .. MaxCalls
    BY <1>1, FieldsAre
  <2>2. reply.token <= grants
    BY Zenon, <1>0, <1>1 DEF ClientInv, StreamsTrue
  <2> QED
    BY <2>1, <2>2 DEF ClientInv
<1>5. /\ outcome' = [outcome EXCEPT ![k] = IF reply.op = "Response" THEN "ok" ELSE "error"]
      /\ answer' = [answer EXCEPT ![k] = reply.call]
      /\ session' \in {session, [token |-> reply.token, from |-> socket]}
      /\ pc' = "idle" /\ request' = NoRequest
      /\ replies' = [replies EXCEPT ![socket] = Tail(@)]
      /\ UNCHANGED <<socket, next_request_id, requests, threads, connects, calls, runtime,
                     performed>>
  BY DEF ReadBody
<1> HIDE DEF reply, k
<1>6. Shape'
  <2>1. request' \in [id : Nat, call : 0 .. calls, op : Ops]
    BY <1>5, NoRequestIs DEF ClientInv, Shape, Sizes
  <2>2. session' \in [token : 0 .. grants, from : Nat]
    BY <1>0, <1>4, <1>5 DEF ClientInv, Shape, Held, Connects
  <2>3. /\ outcome' \in [Calls -> {"none", "ok", "error"}]
        /\ answer' \in [Calls -> 0 .. MaxCalls]
    BY <1>0, <1>4, <1>5 DEF ClientInv, Shape, Known
  <2>4. replies' \in [Connects -> Seq(Frame)]
    BY <1>0, <1>1, <1>5
  <2> QED
    BY Zenon, <1>5, <2>1, <2>2, <2>3, <2>4 DEF ClientInv, Shape, Sizes, Held, Ends, Known
<1>7. NothingAhead' /\ StreamsTrue' /\ SentOnce'
  <2>1. NothingAhead'
    BY Zenon, <1>0, <1>2, <1>5 DEF ClientInv, NothingAhead
  <2>2. StreamsTrue'
    BY SMTT(30), <1>1, <1>2, <1>5 DEF ClientInv, StreamsTrue
  <2> QED
    BY <1>5, <2>1, <2>2 DEF ClientInv, SentOnce
<1>8. IdsMatch'
  <2>1. /\ \A f \in Frames(requests[socket]) : f.id < next_request_id
        /\ \A r \in Frames(replies[socket]) : r.id < next_request_id
    BY <1>0 DEF ClientInv, IdsMatch
  <2>2. replies'[socket] = Tail(replies[socket])
    BY Zenon, <1>0, <1>2
  <2>3. \A r \in Frames(replies'[socket]) : r.id < next_request_id
    BY <1>1, <2>1, <2>2
  <2> QED
    BY Zenon, <1>5, <2>1, <2>3 DEF IdsMatch
<1>9. NotYetMade'
  <2>1. \A j \in Calls : j > calls => j # k
    BY <1>0 DEF ClientInv, Shape, Sizes, Calls
  <2>2. \A j \in Calls : j # k => outcome'[j] = outcome[j]
    BY <1>5 DEF ClientInv
  <2> QED
    BY <1>5, <2>1, <2>2 DEF ClientInv, NotYetMade
<1>10. SuccessIsOwnReply'
  BY Zenon, <1>0, <1>3, <1>5 DEF ClientInv, Shape, Known, SuccessIsOwnReply
<1>11. SessionOfThisConnection' /\ LastSessionEnds'
  BY <1>5 DEF ClientInv, SessionOfThisConnection, LastSessionEnds
<1> QED
  BY <1>6, <1>7, <1>8, <1>9, <1>10, <1>11 DEF ClientInv


-----------------------------------------------------------------------------
(* The node *)

\* However a worker ends, the session it saw last is not accepted afterwards: it is voided, or
\* was already; and a token accepted from now on is new.
LEMMA EndEnds ==
    ASSUME NEW c \in Connects, NEW s, NEW t \in Nat, End(c, s, t),
           worker \in [Connects -> {"none", "reading", "closed"}]
    PROVE  /\ worker' = [worker EXCEPT ![c] = "closed"]
           /\ authority' \in {0, t}
           /\ FenceOnDisconnect /\ s # 0 => authority' # s
  BY DEF End

\* What the runtime answers: the accepted token stays, or a new one is issued.
LEMMA ResultsAre ==
    ASSUME ClientInv, NEW f \in Frame, NEW result \in Results(f)
    PROVE  /\ result.grants \in grants .. MaxGrants
           /\ result.authority \in 0 .. result.grants
           /\ result.authority = authority \/ result.authority > grants
<1>1. grants \in 0 .. MaxGrants /\ authority \in 0 .. grants /\ MaxGrants \in Nat
  BY ClientBounds DEF ClientInv, Shape, Sizes
<1>2. CASE f.op = "Hello" /\ authority # 0
  <2>1. result = [ok |-> TRUE, authority |-> authority, grants |-> grants]
    BY <1>2 DEF Results
  <2> QED
    BY <1>1, <2>1
<1>3. CASE f.op = "Hello" /\ authority = 0
  <2>1. \/ result = [ok |-> FALSE, authority |-> 0, grants |-> grants]
        \/ /\ grants < MaxGrants
           /\ result = [ok |-> TRUE, authority |-> grants + 1, grants |-> grants + 1]
    BY <1>3 DEF Results
  <2>2. CASE result = [ok |-> FALSE, authority |-> 0, grants |-> grants]
    BY <1>1, <1>3, <2>2
  <2>3. CASE /\ grants < MaxGrants
             /\ result = [ok |-> TRUE, authority |-> grants + 1, grants |-> grants + 1]
    <3>1. /\ grants + 1 \in grants .. MaxGrants
          /\ grants + 1 \in 0 .. grants + 1 /\ grants + 1 > grants
      BY <1>1, <2>3
    <3> QED
      BY <2>3, <3>1
  <2> QED
    BY <2>1, <2>2, <2>3
<1>4. CASE f.op # "Hello"
  <2>1. \E ok \in BOOLEAN : result = [ok |-> ok, authority |-> authority, grants |-> grants]
    BY <1>4 DEF Results
  <2> QED
    BY <1>1, <2>1
<1> QED
  BY <1>2, <1>3, <1>4

\* A worker that ends without answering, or answers with an error, keeps the invariant.
LEMMA WorkerEnds ==
    ASSUME ClientInv, NEW c \in Connects, End(c, last_session[c], authority),
           worker[c] = "reading",
           NEW more \in Seq(Frame),
           replies' = [replies EXCEPT ![c] = more],
           \A r \in Frames(more) : r \notin Frames(replies[c]) =>
               r.op = "Error" /\ r.token = 0 /\ (socket = c => r.id < next_request_id),
           replies[c] # <<>> => more # <<>> /\ Head(more) = Head(replies[c]),
           c > connects => more = <<>>,
           UNCHANGED <<client, requests, served, last_session, connects, calls, grants, performed,
                       history>>
    PROVE  ClientInv'
<1> USE DEF client, history
<1>0. /\ worker' = [worker EXCEPT ![c] = "closed"]
      /\ authority' \in {0, authority} /\ authority \in Nat
      /\ FenceOnDisconnect /\ last_session[c] # 0 => authority' # last_session[c]
  <2>1. worker \in [Connects -> {"none", "reading", "closed"}]
    BY DEF ClientInv, Shape, Ends
  <2> QED
    BY <2>1, SizesAre, EndEnds
<1>1. \A d \in Connects : replies'[d] = IF d = c THEN more ELSE replies[d]
  BY DEF ClientInv, Shape, Ends
<1>2. Shape'
  <2>1. /\ worker' \in [Connects -> {"none", "reading", "closed"}]
        /\ replies' \in [Connects -> Seq(Frame)]
    BY <1>0 DEF ClientInv, Shape, Ends
  <2>2. authority' \in 0 .. grants
    BY <1>0, SizesAre DEF ClientInv, Shape, Sizes
  <2> QED
    BY Zenon, <2>1, <2>2 DEF ClientInv, Shape, Sizes, Held, Ends, Known
<1>3. NothingAhead'
  BY Zenon, <1>1 DEF ClientInv, NothingAhead
<1>4. StreamsTrue'
  <2> SUFFICES ASSUME NEW d \in Connects, NEW r \in Frames(replies'[d])
               PROVE  /\ r.token <= grants
                      /\ r.op = "Response" => r.call \in 1 .. calls /\ performed[r.call] = 1
    BY DEF ClientInv, StreamsTrue
  <2>1. CASE r \in Frames(replies[d])
    BY <2>1 DEF ClientInv, StreamsTrue
  <2>2. CASE r \notin Frames(replies[d])
    BY <1>1, <2>2 DEF ClientInv, Shape, Sizes
  <2> QED
    BY <2>1, <2>2
<1>5. SentOnce' /\ NotYetMade' /\ SuccessIsOwnReply' /\ SessionOfThisConnection'
  BY DEF ClientInv, SentOnce, NotYetMade, SuccessIsOwnReply, SessionOfThisConnection
<1>6. IdsMatch'
  <2>0. socket # 0 => socket \in Connects
    BY SizesAre
  <2>1. ASSUME socket # 0, NEW r \in Frames(replies'[socket])
        PROVE  /\ r.id < next_request_id
               /\ pc # "idle" /\ r.id = request.id /\ r.op = "Response" => r.call = request.call
    <3>1. CASE r \in Frames(replies[socket])
      BY <2>1, <3>1 DEF ClientInv, IdsMatch
    <3>2. CASE r \notin Frames(replies[socket])
      BY <1>1, <2>0, <2>1, <3>2
    <3> QED
      BY <3>1, <3>2
  <2>2. pc = "body" => replies'[socket] # <<>> /\ Head(replies'[socket]) = Head(replies[socket])
    BY <1>1, <2>0 DEF ClientInv, IdsMatch
  <2> QED
    BY <2>1, <2>2 DEF ClientInv, IdsMatch
<1>7. LastSessionEnds'
  BY <1>0 DEF ClientInv, LastSessionEnds
<1> QED
  BY <1>2, <1>3, <1>4, <1>5, <1>6, <1>7 DEF ClientInv

LEMMA ServeBadFrameKeeps ==
    ASSUME ClientInv, NEW c \in Connects, worker[c] = "reading", requests[c] # <<>>,
           NEW id \in {0, Head(requests[c]).id}, ServeBadFrame(c, id)
    PROVE  ClientInv'
<1> DEFINE error == [Refusal EXCEPT !.id = id]
           more == Append(replies[c], error)
<1>1. requests[c] \in Seq(Frame) /\ replies[c] \in Seq(Frame) /\ ~(c > connects)
  BY DEF ClientInv, Shape, Ends, NothingAhead
<1>2. Head(requests[c]) \in Frames(requests[c]) /\ Head(requests[c]).id \in Nat
  BY Zenon, <1>1, TailFacts DEF Frame
<1>3. Refusal \in Frame /\ Refusal.op = "Error" /\ Refusal.token = 0
  BY ClientBounds DEF Refusal, Frame
<1>4. error \in Frame /\ error.op = "Error" /\ error.token = 0 /\ error.id = id
  <2>1. id \in Nat
    BY <1>2
  <2> QED
    BY <1>3, <2>1 DEF Frame
<1>5. socket = c => id < next_request_id
  <2>1. socket = c => Head(requests[c]).id < next_request_id /\ 0 < next_request_id
    BY <1>2 DEF ClientInv, Shape, Sizes, IdsMatch, Connects
  <2> QED
    BY <2>1
<1> HIDE DEF error
<1>6. /\ more \in Seq(Frame) /\ more # <<>> /\ Frames(more) = Frames(replies[c]) \cup {error}
      /\ replies[c] # <<>> => Head(more) = Head(replies[c])
  BY <1>1, <1>4, AppendFacts
<1>7. /\ replies' = [replies EXCEPT ![c] = more]
      /\ End(c, last_session[c], authority)
      /\ UNCHANGED <<client, requests, served, last_session, connects, calls, grants, performed,
                     history>>
  BY Zenon DEF ServeBadFrame, error
<1> HIDE DEF more
<1> QED
  BY Zenon, <1>1, <1>4, <1>5, <1>6, <1>7, WorkerEnds

LEMMA WorkerReadFailsKeeps ==
    ASSUME ClientInv, NEW c \in Connects, WorkerReadFails(c)
    PROVE  ClientInv'
<1>1. replies[c] \in Seq(Frame) /\ (c > connects => replies[c] = <<>>)
  BY DEF ClientInv, Shape, Ends, NothingAhead
<1>2. replies' = [replies EXCEPT ![c] = replies[c]]
  BY DEF WorkerReadFails, ClientInv, Shape, Ends, streams
<1>3. /\ End(c, last_session[c], authority) /\ worker[c] = "reading"
      /\ UNCHANGED <<client, requests, served, last_session, connects, calls, grants, performed,
                     history>>
  BY DEF WorkerReadFails, streams
<1> QED
  BY Zenon, <1>1, <1>2, <1>3, WorkerEnds

LEMMA EpochMovesKeeps ==
    ASSUME ClientInv, EpochMoves
    PROVE  ClientInv'
<1> USE DEF client, streams, threads, history
<1>1. Shape'
  BY SizesAre DEF EpochMoves, ClientInv, Shape, Sizes, Held, Ends, Known
<1>2. NothingAhead' /\ StreamsTrue' /\ SentOnce' /\ IdsMatch' /\ NotYetMade'
  BY DEF EpochMoves, ClientInv, NothingAhead, StreamsTrue, SentOnce, IdsMatch, NotYetMade
<1>3. SuccessIsOwnReply' /\ SessionOfThisConnection' /\ LastSessionEnds'
  BY DEF EpochMoves, ClientInv, SuccessIsOwnReply, SessionOfThisConnection, LastSessionEnds
<1> QED
  BY <1>1, <1>2, <1>3 DEF ClientInv

\* The request served is the only one of its call, and its reply names it.
LEMMA ServeKeeps ==
    ASSUME ClientInv, NEW c \in Connects, worker[c] = "reading", requests[c] # <<>>,
           NEW result \in Results(Head(requests[c])), NEW sent \in {"whole", "part", "nothing"},
           Serve(c, result, sent)
    PROVE  ClientInv'
<1> USE DEF client, history
<1> DEFINE frame == Head(requests[c])
           k == frame.call
           reply == [id |-> frame.id, op |-> IF result.ok THEN "Response" ELSE "Error",
                     call |-> k, token |-> result.authority, whole |-> sent = "whole"]
           seen == IF frame.token # 0 THEN frame.token ELSE last_session[c]
<1>1. /\ requests[c] \in Seq(Frame) /\ replies[c] \in Seq(Frame) /\ ~(c > connects)
      /\ requests \in [Connects -> Seq(Frame)] /\ replies \in [Connects -> Seq(Frame)]
  BY DEF ClientInv, Shape, Ends, NothingAhead
<1>2. /\ frame \in Frames(requests[c]) /\ frame \in Frame
      /\ Tail(requests[c]) \in Seq(Frame) /\ 1 \in DOMAIN requests[c] /\ frame = requests[c][1]
      /\ Frames(Tail(requests[c])) \subseteq Frames(requests[c])
      /\ \A i \in DOMAIN Tail(requests[c]) :
            i + 1 \in DOMAIN requests[c] /\ i + 1 # 1 /\ Tail(requests[c])[i] = requests[c][i + 1]
  BY <1>1, TailFacts
<1>3. frame.id \in Nat /\ frame.token \in Nat /\ k \in 0 .. MaxCalls
  BY <1>2, FieldsAre
<1>4. k \in 1 .. calls /\ k \in Calls /\ performed[k] = 0 /\ frame.token <= grants
  <2>1. k \in 1 .. calls /\ performed[k] = 0 /\ frame.token <= grants
    BY <1>2 DEF ClientInv, StreamsTrue
  <2> QED
    BY <2>1, MadeAreCalls
<1>5. /\ result.grants \in grants .. MaxGrants
      /\ result.authority \in 0 .. result.grants
      /\ result.authority = authority \/ result.authority > grants
  BY <1>2, ResultsAre
<1>6. /\ result.grants \in Nat /\ result.authority \in Nat /\ grants <= result.grants
      /\ MaxGrants \in Nat
  BY <1>5, SizesAre, ClientBounds
<1>7. reply \in Frame /\ reply.id = frame.id /\ reply.call = k /\ reply.token = result.authority
      /\ (reply.op = "Response" => result.ok)
  <2>1. result.authority \in 0 .. MaxGrants
    BY <1>5, <1>6
  <2>2. (sent = "whole") \in BOOLEAN
    OBVIOUS
  <2> QED
    BY <1>3, <2>1, <2>2, Zenon DEF Frame
<1>8. seen \in 0 .. grants
  BY <1>3, <1>4, SizesAre DEF ClientInv, Shape, Ends
<1>9. /\ requests' = [requests EXCEPT ![c] = Tail(requests[c])]
      /\ replies' = replies \/ replies' = [replies EXCEPT ![c] = Append(replies[c], reply)]
      /\ performed' = IF result.ok THEN [performed EXCEPT ![k] = @ + 1] ELSE performed
      /\ grants' = result.grants
      /\ last_session' = [last_session EXCEPT ![c] = seen]
      /\ \/ End(c, seen, result.authority)
         \/ authority' = result.authority /\ worker' = worker
      /\ UNCHANGED <<client, connects, calls, history>>
  BY Zenon DEF Serve
<1> HIDE DEF frame, k, reply, seen
<1>10. /\ authority' \in {0, result.authority}
       /\ worker' \in [Connects -> {"none", "reading", "closed"}]
       /\ \A d \in Connects : d # c => worker'[d] = worker[d]
       /\ FenceOnDisconnect /\ worker'[c] = "closed" /\ seen # 0 => authority' # seen
  <2>1. worker \in [Connects -> {"none", "reading", "closed"}]
    BY DEF ClientInv, Shape, Ends
  <2>2. CASE End(c, seen, result.authority)
    BY <1>6, <2>1, <2>2, EndEnds
  <2>3. CASE authority' = result.authority /\ worker' = worker
    BY <2>1, <2>3
  <2> QED
    BY <1>9, <2>2, <2>3
<1>11. /\ performed' \in [Calls -> {0, 1}]
       /\ \A j \in Calls : j # k => performed'[j] = performed[j]
       /\ result.ok => performed'[k] = 1
  BY <1>4, <1>9 DEF ClientInv, Shape, Known
<1>12. /\ replies' \in [Connects -> Seq(Frame)]
       /\ \A d \in Connects : d # c => replies'[d] = replies[d]
       /\ Frames(replies'[c]) \subseteq Frames(replies[c]) \cup {reply}
       /\ replies[c] # <<>> => replies'[c] # <<>> /\ Head(replies'[c]) = Head(replies[c])
  <2>1. CASE replies' = replies
    BY <1>1, <2>1
  <2>2. CASE replies' = [replies EXCEPT ![c] = Append(replies[c], reply)]
    <3>1. /\ Append(replies[c], reply) \in Seq(Frame) /\ Append(replies[c], reply) # <<>>
          /\ Frames(Append(replies[c], reply)) = Frames(replies[c]) \cup {reply}
          /\ replies[c] # <<>> => Head(Append(replies[c], reply)) = Head(replies[c])
      BY <1>1, <1>7, AppendFacts
    <3>2. replies'[c] = Append(replies[c], reply)
      BY <1>1, <2>2
    <3> QED
      BY <1>1, <2>2, <3>1, <3>2
  <2> QED
    BY <1>9, <2>1, <2>2
<1>13. /\ requests' \in [Connects -> Seq(Frame)]
       /\ \A d \in Connects : requests'[d] = IF d = c THEN Tail(requests[c]) ELSE requests[d]
       /\ \A d \in Connects : Frames(requests'[d]) \subseteq Frames(requests[d])
  BY <1>1, <1>2, <1>9
<1>14. \A d \in Connects : \A f \in Frames(requests'[d]) : f.call # k
  <2> SUFFICES ASSUME NEW d \in Connects, NEW i \in DOMAIN requests'[d],
                      requests'[d][i].call = k
               PROVE  FALSE
    BY DEF Frames
  <2>1. CASE d = c
    <3>1. i \in DOMAIN Tail(requests[c]) /\ requests'[d][i] = Tail(requests[c])[i]
      BY <1>13, <2>1
    <3>2. i + 1 \in DOMAIN requests[c] /\ i + 1 # 1 /\ requests[c][i + 1].call = requests[c][1].call
      BY <1>2, <3>1 DEF k
    <3> QED
      BY <1>2, <3>2 DEF ClientInv, SentOnce
  <2>2. CASE d # c
    <3>1. i \in DOMAIN requests[d] /\ requests[d][i].call = requests[c][1].call
      BY <1>2, <1>13, <2>2 DEF k
    <3> QED
      BY <1>2, <2>2, <3>1 DEF ClientInv, SentOnce
  <2> QED
    BY <2>1, <2>2
<1>15. Shape'
  <2>1. /\ grants' \in 0 .. MaxGrants /\ authority' \in 0 .. grants'
    BY <1>5, <1>6, <1>9, <1>10, SizesAre
  <2>2. /\ last_session' \in [Connects -> 0 .. grants']
        /\ session' \in [token : 0 .. grants', from : Nat]
    <3>1. \A t \in 0 .. grants : t \in 0 .. grants'
      BY <1>6, <1>9, SizesAre
    <3> QED
      BY SMTT(30), <1>8, <1>9, <3>1 DEF ClientInv, Shape, Held, Ends
  <2> QED
    BY Zenon, <1>9, <1>10, <1>11, <1>12, <1>13, <2>1, <2>2
       DEF ClientInv, Shape, Sizes, Held, Ends, Known
<1>16. NothingAhead'
  BY Zenon, <1>1, <1>9, <1>12, <1>13 DEF ClientInv, Shape, Ends, NothingAhead
<1>17. StreamsTrue'
  <2>0. grants' = result.grants /\ calls' = calls /\ 1 .. calls \subseteq Calls
    BY <1>9, MadeAreCalls
  <2>1. ASSUME NEW d \in Connects, NEW f \in Frames(requests'[d])
        PROVE  f.call \in 1 .. calls' /\ performed'[f.call] = 0 /\ f.token <= grants'
    <3>1. /\ f \in Frames(requests[d]) /\ f \in Frame /\ f.call # k
          /\ f.call \in 1 .. calls /\ performed[f.call] = 0 /\ f.token <= grants
      BY <1>1, <1>13, <1>14, FramesAre DEF ClientInv, StreamsTrue
    <3>2. f.call \in Calls
      BY <2>0, <3>1
    <3>3. f.token <= grants'
      <4>1. f.token \in Nat
        BY <3>1, FieldsAre
      <4> QED
        BY <1>6, <2>0, <3>1, <4>1, SizesAre
    <3> QED
      BY <1>11, <2>0, <3>1, <3>2, <3>3
  <2>2. ASSUME NEW d \in Connects, NEW r \in Frames(replies'[d])
        PROVE  /\ r.token <= grants'
               /\ r.op = "Response" => r.call \in 1 .. calls' /\ performed'[r.call] = 1
    <3>1. CASE r \in Frames(replies[d])
      <4>1. /\ r \in Frame /\ r.token <= grants
            /\ r.op = "Response" => r.call \in 1 .. calls /\ performed[r.call] = 1
        BY <1>1, <3>1, FramesAre DEF ClientInv, StreamsTrue
      <4>2. r.token <= grants'
        <5>1. r.token \in Nat
          BY <4>1, FieldsAre
        <5> QED
          BY <1>6, <2>0, <4>1, <5>1, SizesAre
      <4>3. r.op = "Response" => r.call \in Calls /\ r.call # k
        BY <1>4, <2>0, <4>1
      <4> QED
        BY <1>11, <2>0, <4>1, <4>2, <4>3
    <3>2. CASE r = reply
      BY <1>4, <1>5, <1>6, <1>7, <1>11, <2>0, <3>2
    <3> QED
      BY <1>12, <3>1, <3>2
  <2> QED
    BY <2>1, <2>2 DEF StreamsTrue
<1>18. SentOnce'
  <2> SUFFICES ASSUME NEW d \in Connects, NEW e \in Connects,
                      NEW i \in DOMAIN requests'[d], NEW j \in DOMAIN requests'[e],
                      requests'[d][i].call = requests'[e][j].call
               PROVE  d = e /\ i = j
    BY DEF SentOnce
  <2> DEFINE Was(b, n) == IF b = c THEN n + 1 ELSE n
  <2>1. ASSUME NEW b \in Connects, NEW n \in DOMAIN requests'[b]
        PROVE  /\ Was(b, n) \in DOMAIN requests[b] /\ n \in Nat
               /\ requests'[b][n] = requests[b][Was(b, n)]
    <3>1. n \in Nat
      BY <1>13
    <3>2. CASE b = c
      BY Zenon, <1>2, <1>13, <3>1, <3>2
    <3>3. CASE b # c
      BY <1>13, <3>1, <3>3
    <3> QED
      BY <3>2, <3>3
  <2>2. /\ Was(d, i) \in DOMAIN requests[d] /\ Was(e, j) \in DOMAIN requests[e]
        /\ requests[d][Was(d, i)].call = requests[e][Was(e, j)].call
        /\ i \in Nat /\ j \in Nat
    BY <2>1
  <2>3. d = e /\ Was(d, i) = Was(e, j)
    <3> HIDE DEF Was
    <3> QED
      BY <2>2 DEF ClientInv, SentOnce
  <2> QED
    BY <2>2, <2>3
<1>19. IdsMatch'
  <2>0. socket # 0 => socket \in Connects
    BY SizesAre
  <2>1. ASSUME socket # 0, NEW r \in Frames(replies'[socket])
        PROVE  /\ r.id < next_request_id
               /\ pc # "idle" /\ r.id = request.id /\ r.op = "Response" => r.call = request.call
    <3>1. CASE r \in Frames(replies[socket])
      BY <2>1, <3>1 DEF ClientInv, IdsMatch
    <3>2. CASE r \notin Frames(replies[socket])
      <4>1. socket = c /\ r = reply
        BY <1>12, <2>0, <2>1, <3>2
      <4>2. /\ frame.id < next_request_id
            /\ pc # "idle" /\ frame.id = request.id => frame.call = request.call
        BY <1>2, <2>1, <4>1 DEF ClientInv, IdsMatch
      <4> QED
        BY <1>7, <4>1, <4>2 DEF k
    <3> QED
      BY <3>1, <3>2
  <2>2. ASSUME socket # 0, NEW f \in Frames(requests'[socket])
        PROVE  /\ f.id < next_request_id
               /\ pc # "idle" /\ f.id = request.id => f.call = request.call
    <3>1. f \in Frames(requests[socket])
      BY <1>13, <2>0, <2>2
    <3> QED
      BY <2>2, <3>1 DEF ClientInv, IdsMatch
  <2>3. pc = "body" => replies'[socket] # <<>> /\ Head(replies'[socket]) = Head(replies[socket])
    BY <1>12, <2>0 DEF ClientInv, IdsMatch
  <2> QED
    BY <1>9, <2>1, <2>2, <2>3 DEF ClientInv, IdsMatch
<1>20. NotYetMade'
  <2>1. \A j \in Calls : j > calls => j # k
    BY <1>4, SizesAre DEF Calls
  <2> QED
    BY <1>9, <1>11, <2>1 DEF ClientInv, NotYetMade
<1>21. SuccessIsOwnReply' /\ SessionOfThisConnection'
  <2>1. \A j \in Calls : outcome[j] = "ok" => j # k
    BY <1>4 DEF ClientInv, SuccessIsOwnReply
  <2> QED
    BY <1>9, <1>11, <2>1 DEF ClientInv, SuccessIsOwnReply, SessionOfThisConnection
<1>22. LastSessionEnds'
  <2> SUFFICES ASSUME FenceOnDisconnect, NEW d \in Connects, worker'[d] = "closed",
                      last_session'[d] # 0
               PROVE  authority' # last_session'[d]
    BY DEF LastSessionEnds
  <2>0. last_session'[d] = IF d = c THEN seen ELSE last_session[d]
    BY <1>9 DEF ClientInv, Shape, Ends
  <2>1. CASE d = c
    BY <1>10, <2>0, <2>1
  <2>2. CASE d # c
    <3>1. worker[d] = "closed" /\ last_session[d] # 0 /\ last_session[d] \in 0 .. grants
      BY <1>10, <2>0, <2>2 DEF ClientInv, Shape, Ends
    <3>2. authority # last_session[d]
      BY <3>1 DEF ClientInv, LastSessionEnds
    <3> QED
      BY <1>5, <1>6, <1>10, <2>0, <2>2, <3>1, <3>2, SizesAre
  <2> QED
    BY <2>1, <2>2
<1> QED
  BY <1>15, <1>16, <1>17, <1>18, <1>19, <1>20, <1>21, <1>22 DEF ClientInv

-----------------------------------------------------------------------------
(* The specification *)

LEMMA ClientStarts == Init => ClientInv
<1> SUFFICES ASSUME Init PROVE ClientInv
  OBVIOUS
<1>1. Shape
  BY ClientBounds, NoRequestIs, EmptyFacts DEF Init, Shape, Sizes, Held, Ends, Known, NoSession
<1>2. \A c \in Connects : requests[c] = <<>> /\ replies[c] = <<>>
  BY DEF Init
<1>3. \A c \in Connects : DOMAIN requests[c] = {}
  BY <1>2
<1>4. NothingAhead /\ StreamsTrue /\ SentOnce
  BY <1>2, <1>3, EmptyFacts DEF Init, NothingAhead, StreamsTrue, SentOnce
<1>5. IdsMatch /\ NotYetMade /\ SuccessIsOwnReply /\ SessionOfThisConnection /\ LastSessionEnds
  BY DEF Init, IdsMatch, NotYetMade, SuccessIsOwnReply, SessionOfThisConnection,
         LastSessionEnds, NoSession
<1> QED
  BY <1>1, <1>4, <1>5 DEF ClientInv

LEMMA ClientStep == ClientInv /\ [Next]_vars => ClientInv'
<1> SUFFICES ASSUME ClientInv, [Next]_vars PROVE ClientInv'
  OBVIOUS
<1>1. CASE \E refused \in BOOLEAN : Connect(refused)
  BY <1>1, ConnectKeeps
<1>2. CASE Disconnect \/ \E t \in 0 .. grants : SetSession(t)
  BY <1>2, HeldChanges
<1>3. CASE CallNotReady
  BY <1>3, CallNotReadyKeeps
<1>4. CASE \E op \in Ops, sent \in {"whole", "part", "nothing"} : Call(op, sent)
  BY <1>4, CallKeeps
<1>5. CASE ClientReturns
  BY <1>5, ReadHeaderKeeps, FailingReadsKeep, ReadBodyKeeps DEF ClientReturns
<1>6. CASE \E c \in Connects : WorkerReads(c)
  BY <1>6, ServeKeeps, ServeBadFrameKeeps DEF WorkerReads
<1>7. CASE \E c \in Connects : WorkerReadFails(c)
  BY <1>7, WorkerReadFailsKeeps
<1>8. CASE EpochMoves
  BY <1>8, EpochMovesKeeps
<1>9. CASE UNCHANGED vars
  <2>1. UNCHANGED <<socket, next_request_id, session, pc, request, requests, replies, worker,
                    last_session, connects, calls, authority, grants, performed, outcome, answer>>
    BY <1>9 DEF vars, client, streams, threads, runtime, history
  <2>2. Shape'
    BY Zenon, <2>1 DEF ClientInv, Shape, Sizes, Held, Ends, Known
  <2>3. NothingAhead' /\ StreamsTrue'
    BY <2>1 DEF ClientInv, NothingAhead, StreamsTrue
  <2>4. SentOnce' /\ IdsMatch'
    BY SMTT(30), <2>1 DEF ClientInv, SentOnce, IdsMatch
  <2>5. NotYetMade' /\ SuccessIsOwnReply' /\ SessionOfThisConnection' /\ LastSessionEnds'
    BY <2>1, Zenon DEF ClientInv, NotYetMade, SuccessIsOwnReply, SessionOfThisConnection,
                LastSessionEnds
  <2> QED
    BY <2>2, <2>3, <2>4, <2>5 DEF ClientInv
<1> QED
  BY <1>1, <1>2, <1>3, <1>4, <1>5, <1>6, <1>7, <1>8, <1>9 DEF Next

\* ClientInv holds in every reachable state of the client and its workers.
THEOREM ClientInvariance == Spec => []ClientInv
  BY ClientStarts, ClientStep, PTL DEF Spec

\* A call that reports success took the reply to its own request, which the node performed,
\* whatever the calls before it left in the stream (round_trip of client.cpp).
THEOREM SuccessIsEarned == Spec => []SuccessIsOwnReply
<1>1. ClientInv => SuccessIsOwnReply
  BY DEF ClientInv
<1> QED
  BY <1>1, ClientInvariance, PTL

\* No call is performed twice, however its sends, deadlines and connections fared (round_trip
\* of client.cpp sends a request once).
THEOREM NothingPerformedTwice == Spec => []PerformedAtMostOnce
<1>1. ClientInv => PerformedAtMostOnce
  BY DEF ClientInv, Shape, Known, PerformedAtMostOnce
<1> QED
  BY <1>1, ClientInvariance, PTL

\* A session granted on one connection is never carried to another (connect and disconnect of
\* client.cpp).
THEOREM SessionsStay == Spec => []SessionOfThisConnection
<1>1. ClientInv => SessionOfThisConnection
  BY DEF ClientInv
<1> QED
  BY <1>1, ClientInvariance, PTL

\* With fence_on_disconnect the session a connection presented last is never accepted after its
\* worker ended (the end of handle_connection of node.cpp).
THEOREM ClosedSessionsRefused == Spec => []LastSessionEnds
<1>1. ClientInv => LastSessionEnds
  BY DEF ClientInv
<1> QED
  BY <1>1, ClientInvariance, PTL
=============================================================================
