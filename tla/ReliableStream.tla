---------------------------- MODULE ReliableStream ----------------------------
(***************************************************************************)
(* One direction of one of the four streams of a reliable connection       *)
(* (common/net/reliable_stream_connection.cpp): the end that queues        *)
(* messages, the UDP network, and the end that hands them to the           *)
(* application's packet callback.  Streams share nothing but the status of *)
(* the connection and the clock, so one stream is the whole protocol.      *)
(*                                                                         *)
(* A packet keeps, beside the residue the code sends, its true number `n', *)
(* and an acknowledgement the true number it is about.  No step of the     *)
(* protocol reads them; the properties do, and so does Expire, the         *)
(* assumption about the network.                                           *)
(***************************************************************************)
EXTENDS SequenceNumbers, Sequences, FiniteSets

CONSTANTS FirstCap,   \* bytes of a message its first fragment carries
          RawCap,     \* max_raw_size, the bytes any other packet carries
          Lengths,    \* lengths of the messages the application queues
          ResendCap,  \* MAX_CLIENT_RECV_PACKETS_PER_WINDOW
          MayClose,   \* whether the session may end in this run
          MaxMessages \* bound: messages queued in a run

ASSUME CapAssumption == /\ FirstCap \in Nat \ {0}
                        /\ RawCap \in Nat
                        /\ FirstCap < RawCap
                        /\ Lengths \subseteq Nat \ {0}
                        /\ ResendCap \in Nat \ {0}
                        /\ MayClose \in BOOLEAN
                        /\ MaxMessages \in Nat

VARIABLES
    queued,           \* lengths of the messages given to QueuePacket
    delivered,        \* what the packet callback was given
    log,              \* every packet ever numbered, in order
    sequence_out,
    sent_packets,     \* residue -> packet not acknowledged yet
    send_status,
    packets,          \* packets in flight
    acks,             \* acknowledgements in flight
    sequence_in,
    accepted,         \* how many packets sequence_in has counted
    packet_queue,     \* residue -> packet that came ahead of its turn
    fragment_total_bytes,
    fragment_current_bytes,
    fragment_packet,  \* the pieces put into the reassembly buffer
    draining,         \* inside the loop of ProcessQueue
    recv_status

sender   == <<queued, log, sequence_out, sent_packets>>
inbound  == <<sequence_in, accepted, packet_queue>>
assembly == <<fragment_total_bytes, fragment_current_bytes, fragment_packet>>
status   == <<send_status, recv_status>>
vars     == <<sender, packets, acks, inbound, assembly,
              delivered, draining, status>>

Nil == <<>>  \* the empty map

\* Bytes `from' (included) to `to' (excluded) of the msg-th message.
Piece(msg, from, to) == [msg |-> msg, from |-> from, to |-> to]
Size(piece) == piece.to - piece.from

Init == /\ queued = <<>> /\ log = <<>> /\ sequence_out = 0
        /\ sent_packets = Nil
        /\ packets = {} /\ acks = {}
        /\ sequence_in = 0 /\ accepted = 0 /\ packet_queue = Nil
        /\ fragment_total_bytes = 0 /\ fragment_current_bytes = 0
        /\ fragment_packet = <<>>
        /\ delivered = <<>> /\ draining = FALSE
        /\ send_status = "Connected" /\ recv_status = "Connected"

-------------------------------------------------------------------------------
(* The sending end. *)

\* What InternalQueuePacket makes of a message: one packet when it fits into
\* max_raw_size, else a first fragment that carries the total and as many
\* more as the rest fills.
PieceCount(len) == IF len <= RawCap THEN 1
                   ELSE 1 + (len - FirstCap + RawCap - 1) \div RawCap

PieceOf(msg, len, i) ==
    LET from == IF i = 1 THEN 0 ELSE FirstCap + (i - 2) * RawCap
        cap  == IF i = 1 THEN FirstCap ELSE RawCap
    IN  IF len <= RawCap THEN Piece(msg, 0, len)
        ELSE Piece(msg, from, IF len - from > cap THEN from + cap ELSE len)

PacketsOf(msg, len, first) ==
    [i \in 1 .. PieceCount(len) |->
        [kind     |-> IF len <= RawCap THEN "Packet" ELSE "Fragment",
         n        |-> first + i - 1,
         sequence |-> Wrap(first + i - 1),
         total    |-> IF len > RawCap /\ i = 1 THEN len ELSE 0,
         piece    |-> PieceOf(msg, len, i)]]

\* The network does not keep a datagram for longer than it takes the stream to
\* move on by SeqWindow packets; one older than that would be misread.
Expire(channel, now) == {m \in channel : now - m.n <= SeqWindow}

\* The code has no send window: that no more than SeqWindow packets are ever
\* outstanding is an assumption about the application.
HasRoom(count) ==
    /\ Len(log) + count - accepted <= SeqWindow
    /\ \A s \in DOMAIN sent_packets :
         Len(log) + count - sent_packets[s].n <= SeqWindow

QueuePacket ==
    /\ send_status # "Disconnected"
    /\ Len(queued) < MaxMessages
    /\ \E len \in Lengths :
         LET new == PacketsOf(Len(queued) + 1, len, Len(log))
             all == {new[i] : i \in DOMAIN new}
         IN  /\ HasRoom(Len(new))
             /\ queued' = Append(queued, len)
             /\ log' = log \o new
             /\ sequence_out' = Wrap(sequence_out + Len(new))
             /\ sent_packets' =
                  [s \in DOMAIN sent_packets \cup {p.sequence : p \in all} |->
                     IF s \in DOMAIN sent_packets THEN sent_packets[s]
                     ELSE CHOOSE p \in all : p.sequence = s]
             /\ packets' = packets \cup all
             /\ acks' = Expire(acks, Len(log') - 1)
    /\ UNCHANGED <<inbound, assembly, delivered, draining,
                   status>>

\* Mutant of ResendNow: the cap counts the packet itself.
ResendNowLess == {s \in DOMAIN sent_packets :
                    Cardinality({t \in DOMAIN sent_packets : t <= s})
                      < ResendCap}

\* The map is walked in the order of its keys, the residues.
ResendNow == {s \in DOMAIN sent_packets :
                Cardinality({t \in DOMAIN sent_packets : t < s}) < ResendCap}

\* A tick on which the delay of the first packet is over or an
\* acknowledgement has come since the last resend.
ProcessResend ==
    /\ send_status # "Disconnected"
    /\ DOMAIN sent_packets # {}
    /\ packets' = packets \cup {sent_packets[s] : s \in ResendNow}
    /\ UNCHANGED <<sender, acks, inbound, assembly, delivered,
                   draining, status>>

Ack(a) ==
    /\ send_status # "Disconnected"
    /\ a.kind = "Ack"
    /\ sent_packets' =
         [s \in {k \in DOMAIN sent_packets :
                   CompareSequence(a.sequence, k) = "Future"}
            |-> sent_packets[s]]
    /\ UNCHANGED <<queued, log, sequence_out, packets, acks, inbound,
                   assembly, delivered, draining, status>>

OutOfOrderAck(a) ==
    /\ send_status # "Disconnected"
    /\ a.kind = "OutOfOrderAck"
    /\ sent_packets' = [s \in DOMAIN sent_packets \ {a.sequence}
                          |-> sent_packets[s]]
    /\ UNCHANGED <<queued, log, sequence_out, packets, acks, inbound,
                   assembly, delivered, draining, status>>

\* Close(), by the application or by ProcessResend when the first packet has
\* waited for resend_timeout.
SenderClose ==
    /\ MayClose /\ send_status = "Connected"
    /\ send_status' = "Disconnecting"
    /\ UNCHANGED <<sender, packets, acks, inbound, assembly, delivered,
                   draining, recv_status>>
-------------------------------------------------------------------------------
(* The receiving end. *)

SendAck(kind, n, seq) == acks' = acks \cup
                            {[kind |-> kind, n |-> n, sequence |-> seq]}

\* Mutants of Advance: the copy that waited is not erased, and the counter is
\* incremented before it is acknowledged.
AdvanceKeepCopy(seq, queue) ==
    /\ packet_queue' = queue
    /\ SendAck("Ack", accepted, sequence_in)
    /\ sequence_in' = Wrap(sequence_in + 1)
    /\ accepted' = accepted + 1

AdvanceThenAck(seq, queue) ==
    /\ packet_queue' = [s \in DOMAIN queue \ {seq} |-> queue[s]]
    /\ SendAck("Ack", accepted + 1, Wrap(sequence_in + 1))
    /\ sequence_in' = Wrap(sequence_in + 1)
    /\ accepted' = accepted + 1

\* The packet is the expected one: forget its copy, acknowledge, count it.
Advance(seq, queue) ==
    /\ packet_queue' = [s \in DOMAIN queue \ {seq} |-> queue[s]]
    /\ SendAck("Ack", accepted, sequence_in)
    /\ sequence_in' = Wrap(sequence_in + 1)
    /\ accepted' = accepted + 1

\* The body of an expected OP_Packet goes to the callback; that of an
\* OP_Fragment to the reassembly buffer, and the buffer to the callback when
\* it holds all the bytes its first fragment announced.
HandleBody(p) ==
    IF p.kind = "Packet"
    THEN /\ delivered' = Append(delivered, <<p.piece>>)
         /\ UNCHANGED assembly
    ELSE IF fragment_total_bytes = 0
    THEN /\ fragment_total_bytes' = p.total
         /\ fragment_current_bytes' = Size(p.piece)
         /\ fragment_packet' = <<p.piece>>
         /\ UNCHANGED delivered
    ELSE LET buffer == Append(fragment_packet, p.piece)
             bytes  == fragment_current_bytes + Size(p.piece)
         IN  IF bytes >= fragment_total_bytes
             THEN /\ delivered' = Append(delivered, buffer)
                  /\ fragment_total_bytes' = 0
                  /\ fragment_current_bytes' = 0
                  /\ fragment_packet' = <<>>
             ELSE /\ fragment_current_bytes' = bytes
                  /\ fragment_packet' = buffer
                  /\ UNCHANGED <<fragment_total_bytes, delivered>>

\* Mutant of Order: a packet of the past is taken again.
OrderTakesPast(p) ==
    IF CompareSequence(sequence_in, p.sequence) = "Future"
    THEN "Future" ELSE "Current"

Order(p) == CompareSequence(sequence_in, p.sequence)

\* OP_Packet is not looked at while disconnecting; OP_Fragment still is.
Refused(p) == p.kind = "Packet" /\ recv_status = "Disconnecting"

\* ProcessDecodedPacket on an OP_Packet or OP_Fragment, whether it comes from
\* the network or, with its entry erased, from packet_queue.
ProcessDecodedPacket(p, queue) ==
    \/ /\ Refused(p)
       /\ packet_queue' = queue
       /\ UNCHANGED <<acks, sequence_in, accepted, assembly, delivered>>
    \/ /\ ~Refused(p) /\ Order(p) = "Future"
       /\ SendAck("OutOfOrderAck", p.n, p.sequence)
       /\ packet_queue' = [s \in DOMAIN queue \cup {p.sequence} |->
                             IF s \in DOMAIN queue THEN queue[s] ELSE p]
       /\ UNCHANGED <<sequence_in, accepted, assembly, delivered>>
    \/ /\ ~Refused(p) /\ Order(p) = "Past"
       /\ SendAck("Ack", accepted - 1, Wrap(sequence_in - 1))
       /\ packet_queue' = queue
       /\ UNCHANGED <<sequence_in, accepted, assembly, delivered>>
    \/ /\ ~Refused(p) /\ Order(p) = "Current"
       /\ Advance(p.sequence, queue)
       /\ HandleBody(p)

ReceivePacket(p) ==
    /\ recv_status # "Disconnected" /\ ~draining
    /\ ProcessDecodedPacket(p, packet_queue)
    /\ packets' = Expire(packets, accepted')
    /\ UNCHANGED <<sender, draining, status>>

\* The tick's ProcessQueue is a loop, and the callback may close the
\* connection between two rounds of it; nothing else runs meanwhile.
StartProcessQueue ==
    /\ recv_status # "Disconnected" /\ ~draining
    /\ sequence_in \in DOMAIN packet_queue
    /\ draining' = TRUE
    /\ UNCHANGED <<sender, packets, acks, inbound, assembly,
                   delivered, status>>

ProcessQueue ==
    /\ draining
    /\ IF sequence_in \in DOMAIN packet_queue
       THEN /\ ProcessDecodedPacket(packet_queue[sequence_in],
                   [s \in DOMAIN packet_queue \ {sequence_in}
                      |-> packet_queue[s]])
            /\ packets' = Expire(packets, accepted')
            /\ UNCHANGED draining
       ELSE /\ draining' = FALSE
            /\ UNCHANGED <<packets, acks, inbound, assembly, delivered>>
    /\ UNCHANGED <<sender, status>>

\* Close() by the receiving application, possibly from the callback, or
\* an OP_SessionDisconnect from the peer.
ReceiverClose ==
    /\ MayClose /\ recv_status = "Connected"
    /\ recv_status' = "Disconnecting"
    /\ UNCHANGED <<sender, packets, acks, inbound, assembly,
                   delivered, draining, send_status>>
-------------------------------------------------------------------------------
(* The tick that drops a connection, and the network. *)

Drop == /\ ~draining
        /\ \/ /\ send_status = "Disconnecting"
              /\ send_status' = "Disconnected"
              /\ UNCHANGED recv_status
           \/ /\ recv_status = "Disconnecting"
              /\ recv_status' = "Disconnected"
              /\ UNCHANGED send_status
        /\ UNCHANGED <<sender, packets, acks, inbound, assembly,
                       delivered, draining>>

Lose == /\ \/ /\ \E p \in packets : packets' = packets \ {p}
              /\ UNCHANGED acks
           \/ /\ \E a \in acks : acks' = acks \ {a}
              /\ UNCHANGED packets
        /\ UNCHANGED <<sender, inbound, assembly, delivered,
                       draining, status>>

Next == \/ QueuePacket \/ ProcessResend \/ SenderClose
        \/ \E a \in acks :
             Ack(a) \/ OutOfOrderAck(a)
        \/ \E p \in packets : ReceivePacket(p)
        \/ StartProcessQueue \/ ProcessQueue
        \/ ReceiverClose
        \/ Drop \/ Lose

Spec == Init /\ [][Next]_vars

\* The ticks go on for ever, and a datagram sent again and again gets through:
\* the packets a resend picks, and the acknowledgements that answer them.
ReceiveResent == \E p \in packets :
                    p.sequence \in ResendNow /\ ReceivePacket(p)
AckResent == \E a \in acks :
                /\ Ack(a) \/ OutOfOrderAck(a)
                /\ ~(ResendNow \subseteq DOMAIN sent_packets')

Fairness == /\ WF_vars(ProcessResend)
            /\ WF_vars(StartProcessQueue) /\ WF_vars(ProcessQueue)
            /\ SF_vars(ReceiveResent) /\ SF_vars(AckResent)

FairSpec == Spec /\ Fairness
-------------------------------------------------------------------------------
(* Properties. *)

PieceType == {q \in [msg : Nat, from : Nat, to : Nat] : q.from < q.to}
PacketType == [kind : {"Packet", "Fragment"}, n : Nat, sequence : Residue,
               total : Nat, piece : PieceType]
AckType == [kind : {"Ack", "OutOfOrderAck"}, n : Nat, sequence : Residue]
MapTypeOK(m) == /\ DOMAIN m \subseteq Residue
                /\ m \in [DOMAIN m -> PacketType]
StatusType == {"Connected", "Disconnecting", "Disconnected"}

\* Every variable has its type.
TypeOK ==
    /\ queued \in Seq(Nat) /\ delivered \in Seq(Seq(PieceType))
    /\ log \in Seq(PacketType) /\ sequence_out \in Residue
    /\ MapTypeOK(sent_packets) /\ MapTypeOK(packet_queue)
    /\ packets \subseteq PacketType /\ acks \subseteq AckType
    /\ draining \in BOOLEAN
    /\ sequence_in \in Residue /\ accepted \in Nat
    /\ fragment_total_bytes \in Nat /\ fragment_current_bytes \in Nat
    /\ fragment_packet \in Seq(PieceType)
    /\ send_status \in StatusType /\ recv_status \in StatusType

\* `pieces' are the bytes of the msg-th message, whole and in order.
Reassembled(pieces, msg, len) ==
    /\ pieces # <<>> /\ pieces[1].from = 0 /\ pieces[Len(pieces)].to = len
    /\ \A i \in DOMAIN pieces : pieces[i].msg = msg
    /\ \A i \in 2 .. Len(pieces) : pieces[i].from = pieces[i - 1].to

\* The callback is given the queued messages in order, each once, each with
\* exactly its own bytes: no loss, duplication, reordering or wrap of the
\* sequence numbers makes fragments of two messages meet in one buffer.
InOrderDelivery ==
    /\ Len(delivered) <= Len(queued)
    /\ \A i \in DOMAIN delivered : Reassembled(delivered[i], i, queued[i])

\* A packet the sender has forgotten, because an acknowledgement covered its
\* residue, has been counted by the receiver or waits in its packet_queue,
\* under its own residue; so nothing unreceived is ever dropped from the
\* resend list, and no packet takes the place of another in either map.
Filed(p, map) == p.sequence \in DOMAIN map /\ map[p.sequence] = p

NothingForgotten ==
    recv_status = "Connected" =>
        \A i \in DOMAIN log :
            \/ log[i].n < accepted
            \/ Filed(log[i], sent_packets)
            \/ Filed(log[i], packet_queue)

\* What waits in packet_queue is still to come, within half a turn of the
\* sequence numbers, and under the residue it will be looked up with: no entry
\* stays behind to be taken for another packet a turn later.
QueueAhead ==
    \A s \in DOMAIN packet_queue :
        /\ packet_queue[s].sequence = s
        /\ s = Wrap(packet_queue[s].n)
        /\ packet_queue[s].n \in accepted .. accepted + SeqWindow

\* The strengthening of NothingForgotten and QueueAhead that every step keeps.
Logged(p) == p.n < Len(log) /\ log[p.n + 1] = p

Numbered == /\ \A i \in DOMAIN log :
                 log[i].n = i - 1 /\ log[i].sequence = Wrap(i - 1)
            /\ sequence_out = Wrap(Len(log))
            /\ sequence_in = Wrap(accepted)
            /\ accepted <= Len(log)
            /\ Len(log) - accepted <= SeqWindow

SentInWindow == \A s \in DOMAIN sent_packets :
                    /\ Logged(sent_packets[s])
                    /\ sent_packets[s].sequence = s
                    /\ Len(log) - sent_packets[s].n <= SeqWindow

PacketsFresh == \A p \in packets : Logged(p) /\ accepted - p.n <= SeqWindow

QueueLogged == \A s \in DOMAIN packet_queue :
                   /\ Logged(packet_queue[s])
                   /\ packet_queue[s].sequence = s
                   /\ accepted <= packet_queue[s].n

Arrived(n) == \/ n < accepted
              \/ \E s \in DOMAIN packet_queue : packet_queue[s].n = n

AcksTrue == \A a \in acks :
                /\ a.sequence = Wrap(a.n)
                /\ a.n < Len(log) /\ Len(log) - 1 - a.n <= SeqWindow
                /\ a.kind = "Ack" => a.n < accepted
                /\ Arrived(a.n) \/ recv_status # "Connected"

Inductive == /\ TypeOK /\ Numbered /\ SentInWindow /\ PacketsFresh
             /\ QueueLogged /\ AcksTrue /\ NothingForgotten

\* The strengthening of InOrderDelivery that every step keeps.  The log is the
\* messages, each cut into consecutive pieces, and nothing else.
Follows(q, r) == IF q.to < queued[q.msg]
                 THEN r.msg = q.msg /\ r.from = q.to
                 ELSE r.msg = q.msg + 1 /\ r.from = 0

PacketCut(p) == LET q == p.piece
                    len == queued[q.msg]
                IN  /\ q.msg \in DOMAIN queued /\ q.to <= len
                    /\ p.kind = "Packet" => q.from = 0 /\ q.to = len
                    /\ p.kind = "Fragment" /\ q.from = 0 =>
                           q.to < len /\ p.total = len

Completes(p, count) == p.piece.msg = count /\ p.piece.to = queued[count]

LogInOrder ==
    /\ \A i \in DOMAIN log : PacketCut(log[i])
    /\ log # <<>> => log[1].piece.msg = 1 /\ log[1].piece.from = 0
    /\ \A i \in 2 .. Len(log) : Follows(log[i - 1].piece, log[i].piece)
    /\ log # <<>> => Completes(log[Len(log)], Len(queued))
    /\ log = <<>> => queued = <<>>

\* Between two messages the last packet counted ended the last one delivered;
\* within one, the buffer holds its pieces up to the last packet counted.
BufferInOrder ==
    IF fragment_total_bytes = 0
    THEN IF accepted = 0 THEN delivered = <<>>
         ELSE Completes(log[accepted], Len(delivered))
    ELSE /\ accepted > 0
         /\ log[accepted].piece.msg = Len(delivered) + 1
         /\ log[accepted].piece.to = fragment_current_bytes
         /\ fragment_total_bytes = queued[Len(delivered) + 1]
         /\ fragment_current_bytes < fragment_total_bytes
         /\ Reassembled(fragment_packet, Len(delivered) + 1,
                        fragment_current_bytes)

InOrder == LogInOrder /\ BufferInOrder /\ InOrderDelivery

\* A stream implements a FIFO of whole messages.
Whole(pieces) == [msg |-> pieces[1].msg, bytes |-> pieces[Len(pieces)].to]
Fifo == INSTANCE ReliableFifo WITH
          Message   <- [msg : 1 .. MaxMessages, bytes : Lengths],
          queued    <- [i \in DOMAIN queued |->
                          [msg |-> i, bytes |-> queued[i]]],
          delivered <- [i \in DOMAIN delivered |-> Whole(delivered[i])]

\* Every step of the protocol queues a message, delivers the next one, or is
\* invisible to the application.
ImplementsFifo == Fifo!Spec

Open == send_status = "Connected" /\ recv_status = "Connected"

\* Unless the session ends, every queued message reaches the callback, however
\* often its packets and acknowledgements are lost, and although a resend
\* picks packets by residue and not by age.
EventuallyDelivered ==
    \A i \in 1 .. MaxMessages :
        (Len(queued) >= i) ~> (Len(delivered) >= i \/ ~Open)

\* Unless the session ends, the resend list empties.
EventuallyAcknowledged == (DOMAIN sent_packets # {}) ~>
                              (DOMAIN sent_packets = {} \/ ~Open)
===============================================================================
