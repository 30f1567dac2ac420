----------------------------- MODULE ServertalkLink -----------------------------
(***************************************************************************)
(* The link of a server process to the world (common/net/servertalk_*.cpp): *)
(* frames over TCP connections that break and are made again.  A frame has *)
(* a head, with its length, and a body; TCP delivers any number of either  *)
(* at a time.  The client keeps one read buffer for all its connections,   *)
(* the server one for each.                                                *)
(***************************************************************************)
EXTENDS Naturals, Sequences

CONSTANTS MaxConnections,   \* bound: connections ever made
          MaxSent           \* bound: messages each end sends

Connections == 1 .. MaxConnections
Ends == {"server", "client"}

VARIABLES
    m_connection,  \* the client's connection, or 0
    made,          \* how many have been made
    open,          \* those the server has not seen the end of
    wire,          \* what is on its way to each end, by connection
    buffer,        \* the server's read buffers
    m_buffer,      \* the client's
    out,           \* how many messages were sent to each end
    sent, got,     \* what was written to, and read from, each connection
    torn           \* a connection ended while the client had a piece of a frame

vars == <<m_connection, made, open, wire, buffer, m_buffer, out, sent, got, torn>>

None == [c \in Connections |-> <<>>]

Init ==
    /\ m_connection = 0 /\ made = 0 /\ open = {}
    /\ wire = [e \in Ends |-> None] /\ buffer = None /\ m_buffer = <<>>
    /\ out = [e \in Ends |-> 0]
    /\ sent = [e \in Ends |-> None] /\ got = [e \in Ends |-> None]
    /\ torn = FALSE

\* InternalSend; message 0 is the handshake.
Frame(n) == <<[part |-> "head", of |-> n], [part |-> "body", of |-> n]>>
Write(e, c, n) ==
    /\ wire' = [wire EXCEPT ![e][c] = @ \o Frame(n)]
    /\ sent' = [sent EXCEPT ![e][c] = Append(@, n)]

\* The client's timer: a new connection, on which it says who it is.
Connect ==
    /\ m_connection = 0 /\ made < MaxConnections
    /\ made' = made + 1 /\ m_connection' = made + 1 /\ open' = open \cup {made + 1}
    /\ Write("server", made + 1, 0)
    /\ UNCHANGED <<buffer, m_buffer, out, got, torn>>

\* ServertalkClient::Send: without a connection the message is dropped.
ClientSend ==
    /\ out["server"] < MaxSent
    /\ out' = [out EXCEPT !["server"] = @ + 1]
    /\ IF m_connection = 0 THEN UNCHANGED <<wire, sent>>
       ELSE Write("server", m_connection, out["server"] + 1)
    /\ UNCHANGED <<m_connection, made, open, buffer, m_buffer, got, torn>>

\* The world sends to connections that have said who they are (OnConnectionIdentified).
ServerSend(c) ==
    /\ c \in open /\ got["server"][c] # <<>> /\ out["client"] < MaxSent
    /\ out' = [out EXCEPT !["client"] = @ + 1]
    /\ Write("client", c, out["client"] + 1)
    /\ UNCHANGED <<m_connection, made, open, buffer, m_buffer, got, torn>>

-------------------------------------------------------------------------------
(* Reading. *)

\* ProcessReadBuffer: the whole frames in a buffer.  What is taken for a head must be one:
\* the first bytes of a body give a length that never comes.
Frames(b) ==
    CHOOSE k \in 0 .. Len(b) \div 2 :
        /\ \A i \in 1 .. k : b[2 * i - 1].part = "head"
        /\ k = Len(b) \div 2 \/ b[2 * k + 1].part = "body"

Read(b) == [i \in 1 .. Frames(b) |-> [head |-> b[2 * i - 1].of, body |-> b[2 * i].of]]

\* Mutant: the buffer is cleared after its last whole frame.
Cleared(b) == IF Frames(b) > 0 THEN <<>> ELSE b

\* Mutant: what has been read is not erased.
Kept(b) == b

Rest(b) == SubSeq(b, 2 * Frames(b) + 1, Len(b))

Arrived(e, c, k) == SubSeq(wire[e][c], 1, k)
Take(e, c, k) == wire' = [wire EXCEPT ![e][c] = SubSeq(@, k + 1, Len(@))]

ServerRead(c) ==
    /\ c \in open /\ wire["server"][c] # <<>>
    /\ \E k \in 1 .. Len(wire["server"][c]) :
          LET b == buffer[c] \o Arrived("server", c, k)
          IN /\ Take("server", c, k)
             /\ got' = [got EXCEPT !["server"][c] = @ \o Read(b)]
             /\ buffer' = [buffer EXCEPT ![c] = Rest(b)]
    /\ UNCHANGED <<m_connection, made, open, m_buffer, out, sent, torn>>

ClientRead ==
    /\ m_connection # 0 /\ wire["client"][m_connection] # <<>>
    /\ \E k \in 1 .. Len(wire["client"][m_connection]) :
          LET b == m_buffer \o Arrived("client", m_connection, k)
          IN /\ Take("client", m_connection, k)
             /\ got' = [got EXCEPT !["client"][m_connection] = @ \o Read(b)]
             /\ m_buffer' = Rest(b)
    /\ UNCHANGED <<m_connection, made, open, buffer, out, sent, torn>>

\* Each end finds out by itself that a connection has ended; the server may still read
\* what came before, even after the client has made another.
ClientDisconnect ==
    /\ m_connection # 0
    /\ m_connection' = 0
    /\ torn' = (torn \/ m_buffer # <<>>)
    /\ UNCHANGED <<made, open, wire, buffer, m_buffer, out, sent, got>>

ServerDisconnect(c) ==
    /\ c \in open
    /\ open' = open \ {c}
    /\ UNCHANGED <<m_connection, made, wire, buffer, m_buffer, out, sent, got, torn>>

Next == \/ Connect \/ ClientSend \/ ClientRead \/ ClientDisconnect
        \/ \E c \in Connections : ServerSend(c) \/ ServerRead(c) \/ ServerDisconnect(c)

Spec == Init /\ [][Next]_vars

\* The event loop of each end reads what has arrived.
Fairness == WF_vars(ClientRead) /\ \A c \in Connections : WF_vars(ServerRead(c))

-------------------------------------------------------------------------------
Units == [part : {"head", "body"}, of : Nat]
Messages == [head : Nat, body : Nat]

\* Types.
TypeOK ==
    /\ m_connection \in 0 .. made /\ made \in 0 .. MaxConnections /\ open \subseteq 1 .. made
    /\ wire \in [Ends -> [Connections -> Seq(Units)]]
    /\ buffer \in [Connections -> Seq(Units)] /\ m_buffer \in Seq(Units)
    /\ out \in [Ends -> Nat]
    /\ sent \in [Ends -> [Connections -> Seq(Nat)]]
    /\ got \in [Ends -> [Connections -> Seq(Messages)]]
    /\ torn \in BOOLEAN

\* What came out of a connection is what went in first, message by message, whole.
Faithful(e, c) ==
    /\ Len(got[e][c]) <= Len(sent[e][c])
    /\ \A i \in DOMAIN got[e][c] : got[e][c][i] = [head |-> sent[e][c][i], body |-> sent[e][c][i]]

\* However connections break, the world reads whole messages, in order and without a gap,
\* from each; so do its clients, as long as no connection ends in the middle of a frame.
LinkFaithful ==
    \A c \in Connections : Faithful("server", c) /\ (~torn => Faithful("client", c))

\* A message written to a connection comes out, unless the connection ends.
Arrives == \A c \in Connections, i \in 1 .. MaxSent :
    /\ i <= Len(sent["server"][c]) ~> i <= Len(got["server"][c]) \/ c \notin open
    /\ i <= Len(sent["client"][c]) ~> i <= Len(got["client"][c]) \/ c # m_connection \/ torn
===============================================================================
