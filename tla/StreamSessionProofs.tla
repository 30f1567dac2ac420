-------------------------- MODULE StreamSessionProofs --------------------------
(***************************************************************************)
(* Proofs about StreamSession, for any number of sessions and datagrams    *)
(* and any limits of at least twice the lifetime of a datagram.            *)
(***************************************************************************)
EXTENDS StreamSession, TLAPS

\* A wire with one more datagram is a wire.
LEMMA WithTyped ==
    ASSUME NEW wire, NEW d \in Datagram, Wire(wire)
    PROVE  Wire(With(wire, d))
BY SessionAssumption DEF Wire, With

\* A wire that grows older is a wire.
LEMMA OlderTyped ==
    ASSUME NEW wire, Wire(wire)
    PROVE  Wire(Older(wire))
BY SessionAssumption DEF Wire, Older

\* What a connection starts from, or falls back to, is in range.
LEMMA Limits ==
    /\ 0 \in 0 .. Past(stale_connection_ms) /\ 0 \in 0 .. Past(connection_close_time)
    /\ Past(connection_close_time) \in 0 .. Past(connection_close_time)
    /\ 0 \in 0 .. resend_timeout /\ 0 \in 0 .. MaxCodes /\ 0 \in 0 .. MaxKeys
BY SessionAssumption DEF Past

\* Both ends send datagrams.
LEMMA DatagramsTyped ==
    ASSUME NEW c \in 0 .. MaxCodes, NEW k \in 0 .. MaxKeys
    PROVE  {Request(c), Response(c, k), Disconnect(k), Packet(k), Acked(k), OutOfSession} \subseteq Datagram
BY SessionAssumption DEF Request, Response, Disconnect, Packet, Acked, OutOfSession, Datagram, Types

\* A request that makes a connection.
LEMMA NewConnectionKeeps ==
    ASSUME Inductive, Has("none"), NEW d \in DOMAIN to_server,
           UNCHANGED <<client, to_server, codes>>, NewConnection(d)
    PROVE  Inductive'
<1>a. d \in Datagram /\ d.code \in 0 .. MaxCodes /\ keys + 1 <= MaxKeys
  BY SessionAssumption DEF Inductive, TypeOK, Wire, Datagram, NewConnection
<1>b. client.status # "playing"
  BY DEF Inductive, Asked, Requests, NewConnection
<1>1. TypeOK'
  <2>1. connection' = [status |-> "Connected", code |-> d.code, key |-> keys + 1, m_last_recv |-> 0,
                       m_close_time |-> 0, first_sent |-> 0, unacked |-> FALSE]
    BY DEF NewConnection, NoConnection
  <2>2. keys + 1 \in 0 .. MaxKeys
    BY <1>a DEF Inductive, TypeOK
  <2>3. connection' \in Connections /\ ~connection'.unacked /\ connection'.first_sent = 0
    BY <1>a, <2>1, <2>2, Limits DEF Connections
  <2>4. Wire(to_client)'
    BY <1>a, WithTyped, DatagramsTyped DEF Inductive, TypeOK, NewConnection
  <2>5. keys' \in 0 .. MaxKeys
    BY <2>2 DEF NewConnection
  <2> QED BY <2>3, <2>4, <2>5 DEF Inductive, TypeOK, NewConnection
<1>2. Numbered'
  BY DEF Inductive, Numbered, TypeOK, Datagram, Wire, NewConnection, Response, With, Has, Clients
<1>3. Answers'
  BY DEF Inductive, Answers, NewConnection, NoConnection, Response, With, Has, Clients
<1>4. Together'
  BY <1>b DEF Together
<1>5. Asked'
  BY DEF Inductive, Asked, Requests, Has
<1>6. Left'
  BY DEF Inductive, Left, TypeOK, Numbered, NewConnection, Has
<1> QED BY <1>1, <1>2, <1>3, <1>4, <1>5, <1>6 DEF Inductive

\* A datagram without a session.
LEMMA NoSessionKeeps ==
    ASSUME Inductive, Has("none"), NEW d \in DOMAIN to_server,
           UNCHANGED <<client, to_server, codes>>, NoSession(d)
    PROVE  Inductive'
<1>1. TypeOK'
  BY WithTyped, DatagramsTyped DEF Inductive, TypeOK, NoSession, Connections
<1>2. Numbered'
  BY DEF Inductive, Numbered, TypeOK, NoSession, OutOfSession, With, Has, Clients
<1>3. Answers'
  BY DEF Inductive, Answers, NoSession, OutOfSession, With, Has
<1>4. Together'
  BY DEF Together, NoSession, Has, Clients
<1>5. Asked'
  BY DEF Inductive, Asked, Requests, Has
<1>6. Left'
  BY DEF Left, NoSession, Has, Clients
<1> QED BY <1>1, <1>2, <1>3, <1>4, <1>5, <1>6 DEF Inductive

\* A request to a connection.
LEMMA SessionRequestKeeps ==
    ASSUME Inductive, ~Has("none"), NEW d \in DOMAIN to_server,
           UNCHANGED <<client, to_server, codes>>, UNCHANGED keys, d.type = "SessionRequest", SessionRequest(d)
    PROVE  Inductive'
<1>1. TypeOK'
  BY SessionAssumption, WithTyped, DatagramsTyped DEF Inductive, TypeOK, SessionRequest, Heard, Past, Connections, Clients
<1>2. Numbered'
  BY DEF Inductive, Numbered, TypeOK, SessionRequest, Heard, Response, With, Has, Clients
<1>3. Answers'
  BY DEF Inductive, Answers, TypeOK, Wire, SessionRequest, Heard, Response, With, Has, Clients
<1>4. Together'
  BY DEF Inductive, Together, SessionRequest, Heard, Has
<1>5. Asked'
  BY SessionAssumption DEF Inductive, Asked, TypeOK, Requests, Wire, SessionRequest, Heard, Has, Clients
<1>6. Left'
  BY DEF Inductive, Left, SessionRequest, Heard, Has
<1> QED BY <1>1, <1>2, <1>3, <1>4, <1>5, <1>6 DEF Inductive

\* The disconnect of the client.
LEMMA SessionDisconnectKeeps ==
    ASSUME Inductive, ~Has("none"), NEW d \in DOMAIN to_server,
           UNCHANGED <<client, to_server, codes>>, UNCHANGED keys, d = Disconnect(connection.key), SessionDisconnect
    PROVE  Inductive'
<1>a. client.status = "away" \/ connection.code # codes
  BY DEF Inductive, Left, Disconnect
<1>b. client.status # "playing"
  BY <1>a DEF Inductive, Together, Numbered
<1>c. client.status = "asking" => \A e \in DOMAIN to_client : ~(e.type = "SessionResponse" /\ e.code = codes)
  BY <1>a DEF Inductive, Answers
<1>1. TypeOK'
  <2>1. connection' \in Connections /\ (~connection'.unacked => connection'.first_sent = 0)
    BY Limits DEF Inductive, TypeOK, Connections, Has, SessionDisconnect, Heard
  <2>2. Wire(to_client)'
    BY WithTyped, DatagramsTyped DEF Inductive, TypeOK, SessionDisconnect, Connections
  <2> QED BY <2>1, <2>2 DEF Inductive, TypeOK
<1>2. Numbered'
  BY DEF Inductive, Numbered, SessionDisconnect, Heard, With, Has, Clients
<1>3. Answers'
  BY <1>c DEF Answers, SessionDisconnect, Disconnect, With
<1>4. Together'
  BY DEF Inductive, Together, SessionDisconnect, Heard, Past
<1>5. Asked'
  BY <1>b DEF Asked
<1>6. Left'
  BY DEF Inductive, Left, SessionDisconnect, Heard, Past
<1> QED BY <1>1, <1>2, <1>3, <1>4, <1>5, <1>6 DEF Inductive

\* Whatever else is heard: the connection was heard of, and may answer with a disconnect.
LEMMA PacketKeeps ==
    ASSUME Inductive, ~Has("none"), UNCHANGED <<client, to_server, codes>>,
           UNCHANGED keys, connection' \in {Heard, Ack},
           to_client' \in {to_client, With(to_client, Disconnect(connection.key))}
    PROVE  Inductive'
<1>a. /\ connection'.status = connection.status /\ connection'.code = connection.code
      /\ connection'.key = connection.key /\ connection'.m_close_time = connection.m_close_time
      /\ connection'.m_last_recv = 0
  BY DEF Inductive, TypeOK, Connections, Heard, Ack
<1>1. TypeOK'
  <2>1. connection' \in Connections /\ (~connection'.unacked => connection'.first_sent = 0)
    BY Limits DEF Inductive, TypeOK, Connections, Has, Heard, Ack
  <2>2. Wire(to_client)'
    BY WithTyped, DatagramsTyped DEF Inductive, TypeOK, Connections
  <2> QED BY <2>1, <2>2 DEF Inductive, TypeOK
<1>2. Numbered'
  <2>1. \A d \in DOMAIN to_client' : d.code <= codes /\ d.key <= keys
    BY DEF Inductive, Numbered, TypeOK, Disconnect, With, Has
  <2> QED BY <1>a, <2>1 DEF Inductive, Numbered, Has
<1>3. Answers'
  <2>1. \A d \in DOMAIN to_client' : d.type = "SessionResponse" =>
           d \in DOMAIN to_client /\ to_client'[d] = to_client[d] /\ to_client[d] \in Nat
    BY DEF Inductive, TypeOK, Wire, Disconnect, With
  <2> QED BY <1>a, <2>1 DEF Inductive, Answers, Has
<1>4. Together'
  BY <1>a DEF Inductive, Together, Has
<1>5. Asked'
  <2>1. \A d \in Requests : 0 <= to_server[d] + Lifetime
    BY SessionAssumption DEF Inductive, TypeOK, Wire, Requests
  <2> QED BY <1>a, <2>1 DEF Inductive, Asked, Requests, Has
<1>6. Left'
  BY <1>a DEF Inductive, Left, Has
<1> QED BY <1>1, <1>2, <1>3, <1>4, <1>5, <1>6 DEF Inductive

\* A connection is closed.
LEMMA CloseKeeps ==
    ASSUME Inductive, ~Has("none"), CloseConnection,
           UNCHANGED <<client, to_server, codes, keys>>
    PROVE  Inductive'
<1>1. TypeOK'
  <2>1. connection' \in Connections /\ (~connection'.unacked => connection'.first_sent = 0)
    BY Limits DEF Inductive, TypeOK, Connections, Has, CloseConnection
  <2>2. Wire(to_client)'
    BY WithTyped, DatagramsTyped DEF Inductive, TypeOK, CloseConnection, Connections
  <2> QED BY <2>1, <2>2 DEF Inductive, TypeOK
<1>2. Numbered'
  BY DEF Inductive, Numbered, TypeOK, CloseConnection, Disconnect, With, Has, Clients
<1>3. Answers'
  BY DEF Inductive, Answers, TypeOK, Wire, CloseConnection, Disconnect, With, Has, Clients
<1>4. Together'
  BY DEF Inductive, Together, CloseConnection, Has
<1>5. Asked'
  BY SessionAssumption DEF Inductive, Asked, TypeOK, Requests, Wire, CloseConnection, Has, Clients
<1>6. Left'
  BY DEF Inductive, Left, CloseConnection, Has
<1> QED BY <1>1, <1>2, <1>3, <1>4, <1>5, <1>6 DEF Inductive

\* A connection ends: whoever played in it had stopped asking long ago.
LEMMA EndKeeps ==
    ASSUME Inductive, Closed \/ Stale, connection' = NoConnection,
           to_client' \in {to_client, With(to_client, Disconnect(connection.key))},
           UNCHANGED <<client, to_server, codes, keys>>
    PROVE  Inductive'
<1>1. TypeOK'
  BY SessionAssumption, WithTyped, DatagramsTyped DEF Inductive, TypeOK, NoConnection, Past, Connections, Clients
<1>2. Numbered'
  BY DEF Inductive, Numbered, TypeOK, NoConnection, Disconnect, With, Has, Clients
<1>3. Answers'
  BY SessionAssumption DEF Inductive, Answers, TypeOK, Wire, Closed, Stale, Disconnect, With, Connections, Clients
<1>4. Together'
  BY DEF Together, NoConnection, Has, Clients
<1>5. Asked'
  BY SessionAssumption DEF Inductive, Asked, TypeOK, Requests, Wire, Closed, Stale, Connections, Clients
<1>6. Left'
  BY DEF Left, NoConnection, Has, Clients
<1> QED BY <1>1, <1>2, <1>3, <1>4, <1>5, <1>6 DEF Inductive

\* A reliable packet is sent.
LEMMA QueuePacketKeeps ==
    ASSUME Inductive, QueuePacket
    PROVE  Inductive'
<1>1. TypeOK'
  BY SessionAssumption, WithTyped, DatagramsTyped DEF Inductive, TypeOK, QueuePacket, Past, Has, Connections, Clients
<1>2. Numbered'
  BY DEF Inductive, Numbered, QueuePacket, Has, Clients
<1>3. Answers'
  BY DEF Inductive, Answers, QueuePacket, Has, Clients
<1>4. Together'
  BY DEF Inductive, Together, QueuePacket, Has, Clients
<1>5. Asked'
  BY DEF Inductive, Asked, Requests, QueuePacket, Has, Clients
<1>6. Left'
  BY DEF Inductive, Left, QueuePacket, Has, Clients
<1> QED BY <1>1, <1>2, <1>3, <1>4, <1>5, <1>6 DEF Inductive

\* Time passes.
LEMMA TickKeeps ==
    ASSUME Inductive, Tick
    PROVE  Inductive'
<1>1. TypeOK'
  <2>1. connection' \in Connections /\ (~connection'.unacked => connection'.first_sent = 0)
    <3>1. CASE Has("none")
      BY <3>1 DEF Inductive, TypeOK, Tick
    <3>2. CASE ~Has("none")
      <4>1. Upto(stale_connection_ms, connection.m_last_recv) \in 0 .. Past(stale_connection_ms)
        BY SessionAssumption DEF Inductive, TypeOK, Connections, Upto, Past
      <4>2. Upto(connection_close_time, connection.m_close_time) \in 0 .. Past(connection_close_time)
        BY SessionAssumption DEF Inductive, TypeOK, Connections, Upto, Past
      <4>3. connection.first_sent < resend_timeout => connection.first_sent + 1 \in 0 .. resend_timeout
        BY SessionAssumption DEF Inductive, TypeOK, Connections
      <4> QED BY <3>2, <4>1, <4>2, <4>3 DEF Inductive, TypeOK, Connections, Tick
    <3> QED BY <3>1, <3>2
  <2>2. Wire(to_server)' /\ Wire(to_client)'
    BY OlderTyped DEF Inductive, TypeOK, Tick
  <2> QED BY <2>1, <2>2 DEF Inductive, TypeOK, Tick
<1>2. Numbered'
  BY DEF Inductive, Numbered, Tick, Older, Has, Clients
<1>3. Answers'
  BY DEF Inductive, Answers, TypeOK, Wire, Tick, Upto, Older, Has, Connections, Clients
<1>4. Together'
  BY DEF Inductive, Together, Tick, Has, Clients
<1>5. Asked'
  BY SessionAssumption DEF Inductive, Asked, TypeOK, Requests, Wire, Tick, Upto, Older, Has, Connections, Clients
<1>6. Left'
  BY DEF Inductive, Left, Tick, Older, Has, Clients
<1> QED BY <1>1, <1>2, <1>3, <1>4, <1>5, <1>6 DEF Inductive

\* A client that asks.
LEMMA AskKeeps ==
    ASSUME Inductive, Ask
    PROVE  Inductive'
<1>1. TypeOK'
  BY SessionAssumption DEF Inductive, TypeOK, Ask, Clients
<1>2. Numbered'
  BY DEF Inductive, Numbered, TypeOK, Datagram, Wire, Ask, Has, Connections, Clients
<1>3. Answers'
  BY DEF Inductive, Answers, TypeOK, Numbered, Ask, Has
<1>4. Together'
  BY DEF Together, Ask, Has
<1>5. Asked'
  BY DEF Asked, Ask, Has
<1>6. Left'
  BY DEF Inductive, Left, TypeOK, Numbered, Ask, Has
<1> QED BY <1>1, <1>2, <1>3, <1>4, <1>5, <1>6 DEF Inductive

\* A client that asks again.
LEMMA AskAgainKeeps ==
    ASSUME Inductive, AskAgain
    PROVE  Inductive'
<1>1. TypeOK'
  BY WithTyped, DatagramsTyped DEF Inductive, TypeOK, AskAgain, Send, Clients
<1>2. Numbered'
  BY DEF Inductive, Numbered, TypeOK, AskAgain, Send, Request, With, Has, Clients
<1>3. Answers'
  BY DEF Inductive, Answers, AskAgain, Has, Clients
<1>4. Together'
  BY DEF Together, AskAgain, Has
<1>5. Asked'
  BY DEF Asked, AskAgain, Has
<1>6. Left'
  BY DEF Inductive, Left, AskAgain, Send, Request, With, Has, Clients
<1> QED BY <1>1, <1>2, <1>3, <1>4, <1>5, <1>6 DEF Inductive

\* A client that talks.
LEMMA TalkKeeps ==
    ASSUME Inductive, Talk
    PROVE  Inductive'
<1>1. TypeOK'
  BY WithTyped, DatagramsTyped DEF Inductive, TypeOK, Talk, Send, Clients
<1>2. Numbered'
  BY DEF Inductive, Numbered, TypeOK, Talk, Send, Packet, Acked, With, Has, Clients
<1>3. Answers'
  BY DEF Answers, Talk, Has
<1>4. Together'
  BY DEF Inductive, Together, Talk, Has, Clients
<1>5. Asked'
  BY DEF Inductive, Asked, Requests, Talk, Send, Packet, Acked, With, Has, Clients
<1>6. Left'
  BY DEF Inductive, Left, Talk, Send, Packet, Acked, With, Has, Clients
<1> QED BY <1>1, <1>2, <1>3, <1>4, <1>5, <1>6 DEF Inductive

\* A client that leaves.
LEMMA LeaveKeeps ==
    ASSUME Inductive, Leave
    PROVE  Inductive'
<1>1. TypeOK'
  BY SessionAssumption, WithTyped, DatagramsTyped DEF Inductive, TypeOK, Leave, Send, Away, Clients
<1>2. Numbered'
  BY DEF Inductive, Numbered, TypeOK, Leave, Send, Disconnect, Away, With, Has, Clients
<1>3. Answers'
  BY DEF Answers, Leave, Away, Has
<1>4. Together'
  BY DEF Together, Leave, Away, Has
<1>5. Asked'
  BY DEF Asked, Leave, Away, Has
<1>6. Left'
  BY DEF Left, Leave, Away, Has
<1> QED BY <1>1, <1>2, <1>3, <1>4, <1>5, <1>6 DEF Inductive

\* A client that dies.
LEMMA DieKeeps ==
    ASSUME Inductive, Die
    PROVE  Inductive'
<1>1. TypeOK'
  BY SessionAssumption DEF Inductive, TypeOK, Die, Away, Clients
<1>2. Numbered'
  BY DEF Inductive, Numbered, TypeOK, Die, Away, Has, Clients
<1>3. Answers'
  BY DEF Answers, Die, Away, Has
<1>4. Together'
  BY DEF Together, Die, Away, Has
<1>5. Asked'
  BY DEF Asked, Die, Away, Has
<1>6. Left'
  BY DEF Inductive, Left, Die, Has
<1> QED BY <1>1, <1>2, <1>3, <1>4, <1>5, <1>6 DEF Inductive

\* A client that hears an answer, or the end.
LEMMA HearKeeps ==
    ASSUME Inductive, Hear
    PROVE  Inductive'
<1>a. Away \in Clients
  BY Limits DEF Away, Clients
<1>b. \A d \in DOMAIN to_client : d.key \in 0 .. MaxKeys /\ d.key <= keys
  BY DEF Inductive, TypeOK, Wire, Datagram, Numbered
<1>c. CASE client' = Away
  <2>1. client'.key <= keys /\ client'.status = "away"
    BY <1>c DEF Away, Inductive, TypeOK
  <2>2. TypeOK'
    BY <1>a, <1>c DEF Inductive, TypeOK, Hear
  <2> QED BY <2>1, <2>2 DEF Inductive, Hear, Numbered, Answers, Together, Asked, Left, Has
<1>d. CASE \E d \in DOMAIN to_client :
              /\ d.type = "SessionResponse" /\ client.status = "asking" /\ d.code = client.code
              /\ client' = [client EXCEPT !.status = "playing", !.key = d.key]
  <2>1. PICK d \in DOMAIN to_client :
              /\ d.type = "SessionResponse" /\ client.status = "asking" /\ d.code = client.code
              /\ client' = [client EXCEPT !.status = "playing", !.key = d.key]
    BY <1>d
  <2>2. /\ client' \in Clients /\ client'.key = d.key
        /\ client'.code = client.code /\ client'.status = "playing"
    BY <1>b, <2>1 DEF Inductive, TypeOK, Clients
  <2>3. client.code = codes /\ ~Has("none") /\ connection.code = codes /\ d.key = connection.key
    BY <2>1 DEF Inductive, Numbered, Answers
  <2>4. TypeOK' /\ Numbered' /\ Answers' /\ Together'
    BY <1>b, <2>2, <2>3 DEF Inductive, TypeOK, Hear, Numbered, Answers, Together, Has
  <2>5. /\ to_client[d] <= Lifetime /\ \A e \in Requests : to_server[e] \in Nat
        /\ connection.m_last_recv \in Nat /\ connection.m_close_time \in Nat
    BY DEF Inductive, TypeOK, Wire, Requests, Connections, Past
  <2>6. Asked'
    BY <2>1, <2>3, <2>5, SessionAssumption DEF Inductive, TypeOK, Wire, Answers, Asked, Requests, Hear, Has
  <2>7. Left'
    BY <2>1, <2>3 DEF Inductive, Left, Hear, Has
  <2> QED BY <2>4, <2>6, <2>7 DEF Inductive
<1> QED BY <1>c, <1>d DEF Hear

\* Whatever arrives.
LEMMA ReceiveKeeps ==
    ASSUME Inductive, Receive
    PROVE  Inductive'
<1>1. PICK d \in DOMAIN to_server : \/ ~Has("none") /\ ProcessPacket(d)
                                    \/ Has("none") /\ (NewConnection(d) \/ NoSession(d))
  BY DEF Receive
<1>2. UNCHANGED <<client, to_server, codes>>
  BY DEF Receive
<1>3. CASE Has("none")
  BY <1>1, <1>2, <1>3, NewConnectionKeeps, NoSessionKeeps
<1>4. CASE ~Has("none")
  <2>1. CASE d.type = "SessionRequest" /\ SessionRequest(d)
    BY <1>1, <1>2, <1>4, <2>1, SessionRequestKeeps DEF ProcessPacket
  <2>2. CASE d = Disconnect(connection.key) /\ SessionDisconnect
    BY <1>1, <1>2, <1>4, <2>2, SessionDisconnectKeeps DEF ProcessPacket
  <2>3. CASE /\ connection' \in {Heard, Ack}
             /\ to_client' \in {to_client, With(to_client, Disconnect(connection.key))}
    BY <1>1, <1>2, <1>4, <2>3, PacketKeeps DEF ProcessPacket
  <2> QED BY <1>1, <1>4, <2>1, <2>2, <2>3 DEF ProcessPacket
<1> QED BY <1>3, <1>4

\* The timer ends a connection or closes it.
LEMMA OnTimerKeeps ==
    ASSUME Inductive, OnTimer
    PROVE  Inductive'
<1>1. UNCHANGED <<client, to_server, codes, keys>>
  BY DEF OnTimer
<1>2. CASE Closed \/ Stale
  BY <1>1, <1>2, EndKeeps DEF OnTimer
<1>3. CASE ~Closed /\ ~Stale
  BY <1>1, <1>3, CloseKeeps DEF OnTimer, TimedOut
<1> QED BY <1>2, <1>3

\* It holds with nobody there.
LEMMA InductiveInit == Init => Inductive
BY SessionAssumption DEF Init, NoConnection, Away, Inductive, TypeOK, Wire, Past, Numbered, Answers,
   Together, Asked, Requests, Left, Has, Connections, Clients

\* Nothing happens.
LEMMA StutterKeeps ==
    ASSUME Inductive, UNCHANGED vars
    PROVE  Inductive'
BY DEF vars, Inductive, TypeOK, Numbered, Answers, Together, Asked, Requests, Left, Has, Clients

\* Every step keeps it.
LEMMA StepKeeps == Inductive /\ [Next]_vars => Inductive'
<1> SUFFICES ASSUME Inductive, [Next]_vars PROVE Inductive'
  OBVIOUS
<1>1. CASE Receive BY <1>1, ReceiveKeeps
<1>2. CASE QueuePacket BY <1>2, QueuePacketKeeps
<1>3. CASE Close BY <1>3, CloseKeeps DEF Close
<1>4. CASE OnTimer BY <1>4, OnTimerKeeps
<1>5. CASE Tick BY <1>5, TickKeeps
<1>6. CASE Ask BY <1>6, AskKeeps
<1>7. CASE AskAgain BY <1>7, AskAgainKeeps
<1>8. CASE Talk BY <1>8, TalkKeeps
<1>9. CASE Leave BY <1>9, LeaveKeeps
<1>10. CASE Die BY <1>10, DieKeeps
<1>11. CASE Hear BY <1>11, HearKeeps
<1>12. CASE UNCHANGED vars BY <1>12, StutterKeeps
<1> QED BY <1>1, <1>2, <1>3, <1>4, <1>5, <1>6, <1>7, <1>8, <1>9, <1>10, <1>11, <1>12 DEF Next

\* So it always holds.
LEMMA InductiveAlways == Spec => []Inductive
BY InductiveInit, StepKeeps, PTL DEF Spec

\* Every variable keeps its type, and no age of reliable_stream_connection.cpp is counted
\* past its limit: time is only counted for a packet that waits for its acknowledgement.
THEOREM TypeCorrect == Spec => []TypeOK
<1>1. Inductive => TypeOK BY DEF Inductive
<1> QED BY <1>1, InductiveAlways, PTL

\* Both ends of a session encode with the same key, however late, often or seldom the
\* datagrams of older sessions arrive: the delay before a closed or silent connection is
\* forgotten (ReliableStreamConnectionManager::Process) outlives the last request.
THEOREM KeyAgreed == Spec => []SameKey
<1>1. Inductive => SameKey BY DEF Inductive, Together, SameKey, Has
<1> QED BY <1>1, InductiveAlways, PTL
================================================================================
