----------------------------- MODULE StreamSession -----------------------------
(***************************************************************************)
(* The session under a stream (common/net/reliable_stream_connection.cpp): *)
(* the connection a server keeps for one address, the handshake that makes *)
(* it, and its ends: a disconnect of either side, packets that are not     *)
(* acknowledged, silence.  The game client at the other end is external:   *)
(* it asks with a fresh connect code until it is answered, talks, and      *)
(* leaves or dies.  A datagram is lost, or arrives once or more often      *)
(* while it lives.  Ages are in units of time and stop counting when they  *)
(* are past the limit they are compared with.                              *)
(***************************************************************************)
EXTENDS Naturals, FiniteSets, Functions

CONSTANTS
    Lifetime,              \* of a datagram
    connection_close_time, stale_connection_ms, resend_timeout,
    MaxCodes, MaxKeys,     \* bounds: sessions asked for, connections made
    MaxWire                \* bound: the client sends with fewer datagrams in flight

ASSUME SessionAssumption ==
    /\ {Lifetime, connection_close_time, stale_connection_ms, resend_timeout} \subseteq Nat
    /\ {MaxCodes, MaxKeys, MaxWire} \subseteq Nat
    /\ 2 * Lifetime <= connection_close_time /\ 2 * Lifetime <= stale_connection_ms

VARIABLES
    connection,   \* the entry of m_connections for this address, if there is one
    client,
    to_server, to_client,  \* datagram -> the age of its last copy
    codes, keys   \* how many were chosen: a fresh one is the next

vars == <<connection, client, to_server, to_client, codes, keys>>

NoConnection == [status |-> "none", code |-> 0, key |-> 0, m_last_recv |-> 0, m_close_time |-> 0,
           first_sent |-> 0, unacked |-> FALSE]
Away == [status |-> "away", code |-> 0, key |-> 0]

Init ==
    /\ connection = NoConnection /\ client = Away
    /\ to_server = <<>> /\ to_client = <<>> /\ codes = 0 /\ keys = 0

(* Datagrams. *)

Request(code) == [type |-> "SessionRequest", code |-> code, key |-> 0]
Response(code, key) == [type |-> "SessionResponse", code |-> code, key |-> key]
Disconnect(key) == [type |-> "SessionDisconnect", code |-> 0, key |-> key]
Packet(key) == [type |-> "Packet", code |-> 0, key |-> key]
Acked(key) == [type |-> "Ack", code |-> 0, key |-> key]
OutOfSession == [type |-> "OutOfSession", code |-> 0, key |-> 0]

\* One more copy of a datagram: the older ones are gone before it is.
With(wire, d) == [e \in DOMAIN wire \cup {d} |-> IF e = d THEN 0 ELSE wire[e]]
Older(wire) == [d \in {e \in DOMAIN wire : wire[e] < Lifetime} |-> wire[d] + 1]

Has(status) == connection.status = status
Past(limit) == limit + 1

--------------------------------------------------------------------------------
(* The server: what arrives. *)

\* A request when there is no connection makes one, with a fresh encode key, and is answered.
NewConnection(d) ==
    /\ d.type = "SessionRequest" /\ keys < MaxKeys
    /\ keys' = keys + 1
    /\ connection' = [NoConnection EXCEPT !.status = "Connected", !.code = d.code, !.key = keys + 1]
    /\ to_client' = With(to_client, Response(d.code, keys + 1))

\* Anything else of an address without a connection.
NoSession(d) ==
    /\ d.type # "SessionRequest"
    /\ to_client' = With(to_client, OutOfSession)
    /\ UNCHANGED <<connection, keys>>

Heard == [connection EXCEPT !.m_last_recv = 0]

\* A request for another session is passed over, and is a sign of life all the same.
SessionRequest(d) ==
    /\ to_client' = IF Has("Connected") /\ d.code = connection.code
                    THEN With(to_client, Response(connection.code, connection.key)) ELSE to_client
    /\ connection' = Heard

\* The peer's disconnect: m_close_time stays what it was, which is long ago unless Close was called.
SessionDisconnect ==
    /\ to_client' = With(to_client, Disconnect(connection.key))
    /\ connection' = [Heard EXCEPT !.status = "Disconnecting",
                        !.m_close_time = IF Has("Connected") THEN Past(connection_close_time) ELSE @]

\* Mutant: the time of the packet that was acknowledged is kept.
AckKeepsTime == [Heard EXCEPT !.unacked = FALSE]

Ack == [Heard EXCEPT !.unacked = FALSE, !.first_sent = 0]

\* What has another key fails its CRC, and is a sign of life all the same.
ProcessPacket(d) ==
    /\ UNCHANGED keys
    /\ \/ d.type = "SessionRequest" /\ SessionRequest(d)
       \/ d = Disconnect(connection.key) /\ SessionDisconnect
       \/ /\ d = Packet(connection.key)
          /\ connection' = Heard
          /\ to_client' = IF Has("Disconnecting") THEN With(to_client, Disconnect(connection.key)) ELSE to_client
       \/ /\ d = Acked(connection.key)
          /\ connection' = Ack /\ UNCHANGED to_client
       \/ /\ d.type # "SessionRequest" /\ d.key # connection.key
          /\ connection' = Heard /\ UNCHANGED to_client

Receive ==
    /\ \E d \in DOMAIN to_server :
          \/ ~Has("none") /\ ProcessPacket(d)
          \/ Has("none") /\ (NewConnection(d) \/ NoSession(d))
    /\ UNCHANGED <<client, to_server, codes>>

--------------------------------------------------------------------------------
(* The server: what it does. *)

\* A reliable packet is sent: it waits for its acknowledgement from now on.
QueuePacket ==
    /\ Has("Connected") /\ ~connection.unacked
    /\ connection' = [connection EXCEPT !.unacked = TRUE]
    /\ UNCHANGED <<client, to_server, to_client, codes, keys>>

\* Mutant: closing again puts the end off.
CloseAfresh ==
    /\ connection' = [connection EXCEPT !.status = "Disconnecting", !.m_close_time = 0]
    /\ to_client' = IF Has("Connected") THEN With(to_client, Disconnect(connection.key)) ELSE to_client

CloseConnection ==
    /\ connection' = [connection EXCEPT !.status = "Disconnecting",
                        !.m_close_time = IF Has("Disconnecting") THEN @ ELSE 0]
    /\ to_client' = IF Has("Connected") THEN With(to_client, Disconnect(connection.key)) ELSE to_client

Close ==
    /\ ~Has("none") /\ CloseConnection
    /\ UNCHANGED <<client, to_server, codes, keys>>

\* Mutant: a closed connection is forgotten at once.
ClosedAtOnce == Has("Disconnecting")

Closed == Has("Disconnecting") /\ connection.m_close_time > connection_close_time
Stale == Has("Connected") /\ connection.m_last_recv > stale_connection_ms
TimedOut == ~Has("none") /\ connection.unacked /\ connection.first_sent >= resend_timeout

\* The manager's timer: Process, and then ProcessResend, which closes a connection whose
\* packets are not acknowledged each time it comes to it.
OnTimer ==
    /\ IF Closed THEN connection' = NoConnection /\ to_client' = With(to_client, Disconnect(connection.key))
       ELSE IF Stale THEN connection' = NoConnection /\ UNCHANGED to_client
       ELSE TimedOut /\ CloseConnection
    /\ UNCHANGED <<client, to_server, codes, keys>>

\* Time passes, and the timer, which fires sixty times a second, has found nothing to end.
Upto(limit, age) == IF age > limit THEN age ELSE age + 1
Tick ==
    /\ ~Closed /\ ~Stale /\ (TimedOut => Has("Disconnecting"))
    /\ to_server' = Older(to_server) /\ to_client' = Older(to_client)
    /\ connection' = IF Has("none") THEN connection
          ELSE [connection EXCEPT
                  !.m_last_recv = IF Has("Connected") THEN Upto(stale_connection_ms, @) ELSE @,
                  !.m_close_time = IF Has("Disconnecting") THEN Upto(connection_close_time, @) ELSE @,
                  !.first_sent = IF connection.unacked /\ @ < resend_timeout THEN @ + 1 ELSE @]
    /\ UNCHANGED <<client, codes, keys>>

--------------------------------------------------------------------------------
(* The client, which is not part of this code. *)

Room == Cardinality(DOMAIN to_server) < MaxWire

Ask ==
    /\ client.status = "away" /\ codes < MaxCodes /\ Room
    /\ codes' = codes + 1
    /\ client' = [status |-> "asking", code |-> codes + 1, key |-> 0]
    /\ UNCHANGED <<connection, to_server, to_client, keys>>

Send(d) == (d \in DOMAIN to_server \/ Room) /\ to_server' = With(to_server, d)

AskAgain ==
    /\ client.status = "asking" /\ Send(Request(client.code))
    /\ UNCHANGED <<connection, client, to_client, codes, keys>>

Talk ==
    /\ client.status = "playing"
    /\ Send(Packet(client.key)) \/ Send(Acked(client.key))
    /\ UNCHANGED <<connection, client, to_client, codes, keys>>

Leave ==
    /\ client.status = "playing" /\ Send(Disconnect(client.key))
    /\ client' = Away
    /\ UNCHANGED <<connection, to_client, codes, keys>>

Die ==
    /\ client.status # "away" /\ client' = Away
    /\ UNCHANGED <<connection, to_server, to_client, codes, keys>>

Hear ==
    /\ \E d \in DOMAIN to_client :
          \/ /\ d.type = "SessionResponse" /\ client.status = "asking" /\ d.code = client.code
             /\ client' = [client EXCEPT !.status = "playing", !.key = d.key]
          \/ /\ client.status = "playing"
             /\ d = OutOfSession \/ d = Disconnect(client.key)
             /\ client' = Away
    /\ UNCHANGED <<connection, to_server, to_client, codes, keys>>

Next == \/ Receive \/ QueuePacket \/ Close \/ OnTimer \/ Tick
        \/ Ask \/ AskAgain \/ Talk \/ Leave \/ Die \/ Hear

Spec == Init /\ [][Next]_vars

\* Time goes on and the timer fires; nothing need arrive and nobody need close.
Fairness == WF_vars(Tick) /\ WF_vars(OnTimer)

--------------------------------------------------------------------------------
Types == {"SessionRequest", "SessionResponse", "SessionDisconnect", "Packet", "Ack", "OutOfSession"}
Datagram == [type : Types, code : 0 .. MaxCodes, key : 0 .. MaxKeys]
Wire(wire) == DOMAIN wire \subseteq Datagram /\ wire \in [DOMAIN wire -> 0 .. Lifetime]

Connections ==
    [status : {"none", "Connected", "Disconnecting"}, code : 0 .. MaxCodes, key : 0 .. MaxKeys,
     m_last_recv : 0 .. Past(stale_connection_ms), m_close_time : 0 .. Past(connection_close_time),
     first_sent : 0 .. resend_timeout, unacked : BOOLEAN]
Clients == [status : {"away", "asking", "playing"}, code : 0 .. MaxCodes, key : 0 .. MaxKeys]

\* Types; the oldest packet is timed only while one waits for its acknowledgement.
TypeOK ==
    /\ codes \in 0 .. MaxCodes /\ keys \in 0 .. MaxKeys
    /\ connection \in Connections /\ client \in Clients
    /\ ~connection.unacked => connection.first_sent = 0
    /\ Wire(to_server) /\ Wire(to_client)

\* Both ends of a session have the same key: a late copy of the request that made a
\* connection does not make another one, with another key, while the client is still
\* in the first.
SameKey == client.status = "playing" /\ Has("Connected") => connection.key = client.key

\* The strengthening of SameKey that every step keeps.  The last code is the client's and
\* the last key the connection's.
Numbered ==
    /\ client.key <= keys /\ (client.status # "away" => client.code = codes)
    /\ connection.code <= codes /\ connection.key = IF Has("none") THEN 0 ELSE keys
    /\ \A d \in DOMAIN to_server \cup DOMAIN to_client : d.code <= codes /\ d.key <= keys

\* An answer the client would take is of the connection there is, and was sent when it was
\* last heard of, or before it was closed.
Answers ==
    client.status = "asking" => \A d \in DOMAIN to_client :
        d.type = "SessionResponse" /\ d.code = codes =>
            /\ ~Has("none") /\ connection.code = codes /\ d.key = connection.key
            /\ Has("Connected") => connection.m_last_recv <= to_client[d]
            /\ Has("Disconnecting") => connection.m_close_time <= to_client[d]

Together ==
    client.status = "playing" /\ ~Has("none") =>
        connection.code = client.code /\ connection.key = client.key

\* A client that plays has stopped asking: what it asked is gone before the connection is.
Requests == {d \in DOMAIN to_server : d.type = "SessionRequest"}

Asked ==
    client.status = "playing" => \A d \in Requests :
        /\ ~Has("none")
        /\ Has("Connected") => connection.m_last_recv <= to_server[d] + Lifetime
        /\ Has("Disconnecting") => connection.m_close_time <= to_server[d] + Lifetime

\* A client that has left a session is not in it again.
Left ==
    \A d \in DOMAIN to_server :
        d.type = "SessionDisconnect" /\ ~Has("none") /\ d.key = connection.key =>
            client.status = "away" \/ connection.code # codes

Inductive == TypeOK /\ Numbered /\ Answers /\ Together /\ Asked /\ Left

\* A connection that is closing ends, although the packets that are not acknowledged have
\* it closed again at every timer; and a connection of a client that stays away ends.
SessionEnds ==
    /\ \A k \in 1 .. MaxKeys :
          Has("Disconnecting") /\ connection.key = k ~> connection.key # k
    /\ ~Has("none") /\ client.status = "away" ~> Has("none") \/ client.status # "away"
================================================================================
