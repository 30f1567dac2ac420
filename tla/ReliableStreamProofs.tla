------------------------- MODULE ReliableStreamProofs -------------------------
(***************************************************************************)
(* The stream loses, confuses and forgets no packet and implements a FIFO  *)
(* of whole messages, for every modulus and window with                    *)
(* 2 * SeqWindow < SeqMod, every packet capacity, any messages and any     *)
(* number of them.                                                         *)
(***************************************************************************)
EXTENDS ReliableStream, TLAPS

-------------------------------------------------------------------------------
(* Residues decide the order of numbers that are near each other. *)

\* A number is a multiple of the modulus and its residue.
LEMMA WrapDef ==
    ASSUME NEW n \in Int
    PROVE  /\ Wrap(n) \in Residue
           /\ \E q \in Int : n = SeqMod * q + Wrap(n)
<1>1. SeqMod \in Nat /\ SeqMod > 0
  BY SeqAssumption
<1>2. n = SeqMod * (n \div SeqMod) + (n % SeqMod) /\ n % SeqMod \in 0 .. SeqMod - 1 /\ n \div SeqMod \in Int
  BY <1>1
<1> QED
  BY <1>2 DEF Wrap, Residue

\* Multiples of the modulus are at least one modulus apart.
LEMMA MultipleGap ==
    ASSUME NEW q \in Int
    PROVE  SeqMod * q <= -SeqMod \/ SeqMod * q = 0 \/ SeqMod * q >= SeqMod
<1>1. SeqMod \in Nat /\ SeqMod > 0
  BY SeqAssumption
<1>2. CASE q <= -1
  BY <1>1, <1>2
<1>3. CASE q = 0
  BY <1>1, <1>3
<1>4. CASE q >= 1
  BY <1>1, <1>4
<1> QED
  BY <1>2, <1>3, <1>4

\* Residues of numbers that are less than a modulus apart differ as the
\* numbers do, or by one modulus more or less.
LEMMA WrapDifference ==
    ASSUME NEW m \in Int, NEW n \in Int, n - m < SeqMod, m - n < SeqMod
    PROVE  \/ Wrap(n) - Wrap(m) = n - m
           \/ Wrap(n) - Wrap(m) = n - m + SeqMod
           \/ Wrap(n) - Wrap(m) = n - m - SeqMod
<1>1. SeqMod \in Nat /\ SeqMod > 0
  BY SeqAssumption
<1>2. PICK p \in Int : m = SeqMod * p + Wrap(m)
  BY WrapDef
<1>3. PICK q \in Int : n = SeqMod * q + Wrap(n)
  BY WrapDef
<1>4. Wrap(m) \in 0 .. SeqMod - 1 /\ Wrap(n) \in 0 .. SeqMod - 1
  BY WrapDef DEF Residue
<1>5. n - m = SeqMod * (q - p) + (Wrap(n) - Wrap(m))
  BY <1>1, <1>2, <1>3, <1>4
<1>6. \/ SeqMod * (q - p) <= -2 * SeqMod
      \/ SeqMod * (q - p) = -SeqMod
      \/ SeqMod * (q - p) = 0
      \/ SeqMod * (q - p) = SeqMod
      \/ SeqMod * (q - p) >= 2 * SeqMod
  <2>1. CASE q - p <= -2
    BY <1>1, <2>1
  <2>2. CASE q - p = -1
    BY <1>1, <2>2
  <2>3. CASE q - p = 0
    BY <1>1, <2>3
  <2>4. CASE q - p = 1
    BY <1>1, <2>4
  <2>5. CASE q - p >= 2
    BY <1>1, <2>5
  <2> QED
    BY <2>1, <2>2, <2>3, <2>4, <2>5
<1>7. SeqMod * (q - p) \in Int
  BY <1>1
<1> QED
  BY <1>1, <1>4, <1>5, <1>6, <1>7

\* For numbers that lie within the window of each other CompareSequence tells
\* from the residues which of them is older.
THEOREM CompareSequenceCorrect ==
    ASSUME NEW m \in Int, NEW n \in Int, Near(m, n)
    PROVE  CompareSequence(Wrap(m), Wrap(n)) = TrueOrder(m, n)
<1>1. /\ SeqMod \in Nat /\ SeqWindow \in Nat /\ SeqWindow > 0
      /\ 2 * SeqWindow < SeqMod
  BY SeqAssumption
<1>2. n - m <= SeqWindow /\ m - n <= SeqWindow
  BY <1>1 DEF Near
<1>3. Wrap(m) \in 0 .. SeqMod - 1 /\ Wrap(n) \in 0 .. SeqMod - 1
  BY WrapDef DEF Residue
<1>4. \/ Wrap(n) - Wrap(m) = n - m
      \/ Wrap(n) - Wrap(m) = n - m + SeqMod
      \/ Wrap(n) - Wrap(m) = n - m - SeqMod
  BY <1>1, <1>2, WrapDifference
<1>5. CASE n = m
  BY <1>5, <1>3 DEF CompareSequence, TrueOrder
<1>6. CASE n > m
  BY <1>6, <1>1, <1>2, <1>3, <1>4 DEF CompareSequence, TrueOrder
<1>7. CASE n < m
  BY <1>7, <1>1, <1>2, <1>3, <1>4 DEF CompareSequence, TrueOrder
<1> QED
  BY <1>5, <1>6, <1>7

\* Near numbers with the same residue are the same number.
LEMMA WrapInjective ==
    ASSUME NEW m \in Int, NEW n \in Int, Near(m, n), Wrap(m) = Wrap(n)
    PROVE  m = n
<1>1. Wrap(m) \in 0 .. SeqMod - 1
  BY WrapDef DEF Residue
<1>2. CompareSequence(Wrap(m), Wrap(n)) = "Current"
  BY <1>1, SeqAssumption DEF CompareSequence
<1> QED
  BY <1>2, CompareSequenceCorrect DEF TrueOrder

\* Counting on from a residue is counting on from its number.
LEMMA WrapAdd ==
    ASSUME NEW m \in Int, NEW k \in Int
    PROVE  Wrap(Wrap(m) + k) = Wrap(m + k)
<1>1. SeqMod \in Nat /\ SeqMod > 0
  BY SeqAssumption
<1>2. PICK p \in Int : m = SeqMod * p + Wrap(m)
  BY WrapDef
<1>3. Wrap(m) \in Int
  BY WrapDef DEF Residue
<1>4. PICK q \in Int : m + k = SeqMod * q + Wrap(m + k)
  BY WrapDef
<1>5. PICK r \in Int : Wrap(m) + k = SeqMod * r + Wrap(Wrap(m) + k)
  BY <1>3, WrapDef
<1>6. /\ Wrap(m + k) \in 0 .. SeqMod - 1
      /\ Wrap(Wrap(m) + k) \in 0 .. SeqMod - 1
  BY <1>3, WrapDef DEF Residue
<1> DEFINE d == q - p - r
<1>7. d \in Int /\ SeqMod * d = Wrap(Wrap(m) + k) - Wrap(m + k)
  BY <1>1, <1>2, <1>3, <1>4, <1>5, <1>6
<1> HIDE DEF d
<1>8. SeqMod * d <= -SeqMod \/ SeqMod * d = 0 \/ SeqMod * d >= SeqMod
  BY <1>7, MultipleGap
<1> QED
  BY <1>1, <1>6, <1>7, <1>8

-------------------------------------------------------------------------------
(* The stream. *)

\* A packet that is in the log is there at its own number, under its residue.
LEMMA LoggedSequence ==
    ASSUME TypeOK, Numbered, NEW p, Logged(p), p.n \in Nat
    PROVE  p \in PacketType /\ p.sequence = Wrap(p.n)
<1>1. p.n + 1 \in DOMAIN log
  BY DEF Logged, TypeOK
<1>2. log[p.n + 1] = p
  BY DEF Logged
<1>3. p \in PacketType
  BY <1>1, <1>2 DEF TypeOK
<1> QED
  BY <1>1, <1>2, <1>3 DEF Numbered

\* A packet that is not too old is placed rightly by its residue alone.
LEMMA OrderIsTrue ==
    ASSUME TypeOK, Numbered, NEW p, Logged(p), p.n \in Nat,
           accepted - p.n <= SeqWindow
    PROVE  /\ Order(p) = TrueOrder(accepted, p.n)
           /\ p \in PacketType /\ p.sequence = Wrap(p.n)
<1>1. p \in PacketType /\ p.sequence = Wrap(p.n)
  BY LoggedSequence
<1>2. accepted \in Nat /\ Len(log) \in Nat /\ SeqWindow \in Nat
  BY SeqAssumption DEF TypeOK
<1>3. p.n - accepted <= SeqWindow
  BY <1>2 DEF Logged, Numbered
<1>4. Near(accepted, p.n)
  BY <1>2, <1>3 DEF Near
<1>5. CompareSequence(Wrap(accepted), Wrap(p.n)) = TrueOrder(accepted, p.n)
  BY <1>2, <1>4, CompareSequenceCorrect
<1> QED
  BY <1>1, <1>5 DEF Order, Numbered

-------------------------------------------------------------------------------
(* The initial state. *)

\* In the beginning nothing has been sent.
LEMMA InitInductive == Init => Inductive
<1> SUFFICES ASSUME Init PROVE Inductive
  OBVIOUS
<1>1. SeqMod \in Nat /\ SeqMod > 0 /\ SeqWindow \in Nat
  BY SeqAssumption
<1>2. Wrap(0) = 0
  BY <1>1 DEF Wrap
<1>3. TypeOK
  <2>1. 0 \in Residue
    BY <1>1 DEF Residue
  <2>2. MapTypeOK(Nil)
    BY DEF MapTypeOK, Nil
  <2>3. /\ queued \in Seq(Nat) /\ delivered \in Seq(Seq(PieceType))
        /\ log \in Seq(PacketType) /\ fragment_packet \in Seq(PieceType)
    BY DEF Init
  <2>4. send_status \in StatusType /\ recv_status \in StatusType
    BY DEF Init, StatusType
  <2> QED
    BY <2>1, <2>2, <2>3, <2>4 DEF Init, TypeOK
<1>4. Numbered
  BY <1>1, <1>2 DEF Init, Numbered
<1> QED
  BY <1>3, <1>4 DEF Init, Inductive, SentInWindow, PacketsFresh, QueueLogged,
     AcksTrue, NothingForgotten, Nil

-------------------------------------------------------------------------------
(* Steps that number, count and acknowledge nothing. *)

\* Resending, losing, closing, dropping, entering and leaving the loop of
\* ProcessQueue, and stuttering keep the invariant.
LEMMA QuietInductive ==
    ASSUME Inductive,
           UNCHANGED <<sender, inbound, assembly, delivered>>,
           packets' \subseteq packets \cup
               {sent_packets[s] : s \in DOMAIN sent_packets},
           acks' \subseteq acks,
           draining' \in BOOLEAN,
           send_status' \in StatusType, recv_status' \in StatusType,
           recv_status' = "Connected" => recv_status = "Connected"
    PROVE  Inductive'
<1> USE DEF Inductive, sender, inbound, assembly
<1>1. TypeOK'
  <2>1. \A s \in DOMAIN sent_packets : sent_packets[s] \in PacketType
    BY DEF TypeOK, MapTypeOK
  <2>2. packets' \subseteq PacketType /\ acks' \subseteq AckType
    BY <2>1 DEF TypeOK
  <2> QED
    BY <2>2 DEF TypeOK, MapTypeOK
<1>2. PacketsFresh'
  <2> SUFFICES ASSUME NEW p \in packets'
               PROVE  Logged(p) /\ accepted - p.n <= SeqWindow
    BY DEF PacketsFresh, Logged
  <2>1. CASE p \in packets
    BY <2>1 DEF PacketsFresh
  <2>2. CASE p \in {sent_packets[s] : s \in DOMAIN sent_packets}
    <3>1. PICK s \in DOMAIN sent_packets : p = sent_packets[s]
      BY <2>2
    <3>2. Logged(p) /\ Len(log) - p.n <= SeqWindow /\ p \in PacketType
      BY <3>1 DEF SentInWindow, TypeOK, MapTypeOK
    <3>3. accepted <= Len(log) /\ accepted \in Nat /\ Len(log) \in Nat
      BY DEF Numbered, TypeOK
    <3> QED
      BY <3>2, <3>3, SeqAssumption DEF PacketType
  <2> QED
    BY <2>1, <2>2
<1>3. Numbered' /\ SentInWindow' /\ QueueLogged'
  BY DEF Numbered, SentInWindow, QueueLogged, Logged
<1>4. AcksTrue'
  BY DEF AcksTrue, Arrived
<1>5. NothingForgotten'
  BY DEF NothingForgotten, Filed
<1> QED
  BY <1>1, <1>2, <1>3, <1>4, <1>5

-------------------------------------------------------------------------------
(* Acknowledgements. *)

\* Packets that have arrived may leave the resend list.
LEMMA SentShrinks ==
    ASSUME Inductive, NEW D \in SUBSET DOMAIN sent_packets,
           sent_packets' = [s \in D |-> sent_packets[s]],
           \A s \in DOMAIN sent_packets \ D :
               recv_status # "Connected" \/ Arrived(sent_packets[s].n),
           UNCHANGED <<queued, log, sequence_out, packets, acks, inbound,
                       assembly, delivered, draining, status>>
    PROVE  Inductive'
<1> USE DEF Inductive, inbound, assembly, status
<1>1. TypeOK'
  BY DEF TypeOK, MapTypeOK
<1>2. Numbered' /\ SentInWindow' /\ PacketsFresh' /\ QueueLogged' /\ AcksTrue'
  BY DEF Numbered, SentInWindow, PacketsFresh, QueueLogged, AcksTrue, Logged,
     Arrived
<1>3. NothingForgotten'
  <2> SUFFICES ASSUME recv_status = "Connected", NEW i \in DOMAIN log
               PROVE  \/ log[i].n < accepted
                      \/ Filed(log[i], sent_packets')
                      \/ Filed(log[i], packet_queue)
    BY DEF NothingForgotten, Filed
  <2>1. CASE log[i].n < accepted \/ Filed(log[i], packet_queue)
    BY <2>1
  <2>2. CASE Filed(log[i], sent_packets)
    <3> DEFINE s == log[i].sequence
    <3>1. s \in DOMAIN sent_packets /\ sent_packets[s] = log[i]
      BY <2>2 DEF Filed
    <3>2. CASE s \in D
      BY <3>1, <3>2 DEF Filed
    <3>3. CASE s \notin D
      <4>1. Arrived(log[i].n)
        BY <3>1, <3>3
      <4>2. SUFFICES ASSUME NEW t \in DOMAIN packet_queue,
                            packet_queue[t].n = log[i].n
                     PROVE  Filed(log[i], packet_queue)
        BY <4>1 DEF Arrived
      <4>3. packet_queue[t] = log[packet_queue[t].n + 1]
            /\ packet_queue[t].sequence = t
        BY DEF QueueLogged, Logged
      <4>4. log[i].n = i - 1 /\ i \in Nat
        BY DEF Numbered, TypeOK
      <4>5. packet_queue[t] = log[i]
        BY <4>2, <4>3, <4>4
      <4> QED
        BY <4>3, <4>5 DEF Filed
    <3> QED
      BY <3>2, <3>3
  <2> QED
    BY <2>1, <2>2 DEF NothingForgotten
<1> QED
  BY <1>1, <1>2, <1>3

\* An acknowledgement in flight and a packet of the resend list are near.
LEMMA AckNearSent ==
    ASSUME Inductive, NEW a \in acks, NEW s \in DOMAIN sent_packets
    PROVE  /\ a.n \in Nat /\ sent_packets[s].n \in Nat
           /\ a.sequence = Wrap(a.n) /\ s = Wrap(sent_packets[s].n)
           /\ Near(a.n, sent_packets[s].n)
<1> USE DEF Inductive
<1>1. a.n \in Nat /\ a.sequence = Wrap(a.n) /\ a.n < Len(log)
      /\ Len(log) - 1 - a.n <= SeqWindow
  BY DEF AcksTrue, TypeOK, AckType
<1>2. sent_packets[s] \in PacketType /\ Logged(sent_packets[s])
      /\ sent_packets[s].sequence = s
      /\ Len(log) - sent_packets[s].n <= SeqWindow
  BY DEF SentInWindow, TypeOK, MapTypeOK
<1>3. sent_packets[s].n \in Nat /\ sent_packets[s].n < Len(log)
  BY <1>2 DEF PacketType, Logged
<1>4. s = Wrap(sent_packets[s].n)
  BY <1>2, <1>3, LoggedSequence
<1>5. Len(log) \in Nat /\ SeqWindow \in Nat
  BY SeqAssumption DEF TypeOK
<1> QED
  BY <1>1, <1>2, <1>3, <1>4, <1>5 DEF Near

\* A cumulative acknowledgement erases only packets the receiver has counted.
LEMMA AckInductive ==
    ASSUME Inductive, NEW a \in acks, Ack(a)
    PROVE  Inductive'
<1> DEFINE D == {k \in DOMAIN sent_packets :
                   CompareSequence(a.sequence, k) = "Future"}
<1>1. D \in SUBSET DOMAIN sent_packets
  OBVIOUS
<1>2. ASSUME NEW s \in DOMAIN sent_packets \ D
      PROVE  Arrived(sent_packets[s].n)
  <2>1. /\ a.n \in Nat /\ sent_packets[s].n \in Nat
        /\ a.sequence = Wrap(a.n) /\ s = Wrap(sent_packets[s].n)
        /\ Near(a.n, sent_packets[s].n)
    BY AckNearSent
  <2>2. CompareSequence(a.sequence, s) = TrueOrder(a.n, sent_packets[s].n)
    BY <2>1, CompareSequenceCorrect
  <2>3. TrueOrder(a.n, sent_packets[s].n) # "Future"
    BY <1>2, <2>2
  <2>4. sent_packets[s].n <= a.n
    BY <2>1, <2>3 DEF TrueOrder
  <2>5. a.n < accepted /\ accepted \in Nat
    BY DEF Ack, Inductive, AcksTrue, TypeOK
  <2> QED
    BY <2>1, <2>4, <2>5 DEF Arrived
<1>3. /\ sent_packets' = [s \in D |-> sent_packets[s]]
      /\ UNCHANGED <<queued, log, sequence_out, packets, acks, inbound,
                     assembly, delivered, draining, status>>
  BY DEF Ack
<1> HIDE DEF D
<1> QED
  BY <1>1, <1>2, <1>3, SentShrinks

\* An out-of-order acknowledgement erases only the packet it is about.
LEMMA OutOfOrderAckInductive ==
    ASSUME Inductive, NEW a \in acks, OutOfOrderAck(a)
    PROVE  Inductive'
<1> DEFINE D == DOMAIN sent_packets \ {a.sequence}
<1>1. D \in SUBSET DOMAIN sent_packets
  OBVIOUS
<1>2. ASSUME NEW s \in DOMAIN sent_packets \ D
      PROVE  recv_status # "Connected" \/ Arrived(sent_packets[s].n)
  <2>1. /\ a.n \in Nat /\ sent_packets[s].n \in Nat
        /\ a.sequence = Wrap(a.n) /\ s = Wrap(sent_packets[s].n)
        /\ Near(a.n, sent_packets[s].n)
    BY AckNearSent
  <2>2. a.n = sent_packets[s].n
    BY <1>2, <2>1, WrapInjective
  <2> QED
    BY <2>2 DEF Inductive, AcksTrue
<1>3. /\ sent_packets' = [s \in D |-> sent_packets[s]]
      /\ UNCHANGED <<queued, log, sequence_out, packets, acks, inbound,
                     assembly, delivered, draining, status>>
  BY DEF OutOfOrderAck
<1> HIDE DEF D
<1> QED
  BY <1>1, <1>2, <1>3, SentShrinks

-------------------------------------------------------------------------------
(* Queueing a message. *)

\* A message becomes at least one packet, and no fragment of a long one is
\* empty.
LEMMA PieceCountPositive ==
    ASSUME NEW len \in Lengths
    PROVE  /\ PieceCount(len) \in Nat \ {0}
           /\ len > RawCap => \A i \in 2 .. PieceCount(len) :
                                FirstCap + (i - 2) * RawCap < len
<1>1. len \in Nat \ {0} /\ FirstCap \in Nat /\ RawCap \in Nat
      /\ RawCap > FirstCap
  BY CapAssumption
<1>2. CASE len <= RawCap
  BY <1>1, <1>2 DEF PieceCount
<1>3. CASE len > RawCap
  <2> DEFINE x == len - FirstCap + RawCap - 1
             q == x \div RawCap
  <2>1. x \in Nat /\ RawCap > 0
    BY <1>1, <1>3
  <2>2. q \in Int /\ x = RawCap * q + (x % RawCap)
        /\ x % RawCap \in 0 .. RawCap - 1
    BY <1>1, <2>1
  <2>3. PieceCount(len) = 1 + q
    BY <1>1, <1>3 DEF PieceCount
  <2> HIDE DEF q
  <2>4. q >= 0
    <3>1. CASE q <= -1
      <4>1. RawCap * q <= -RawCap
        BY <1>1, <2>1, <2>2, <3>1
      <4> QED
        BY <1>1, <2>1, <2>2, <4>1
    <3> QED
      BY <2>2, <3>1
  <2>5. ASSUME NEW i \in 2 .. 1 + q
        PROVE  FirstCap + (i - 2) * RawCap < len
    <3>1. RawCap * q <= len - FirstCap + RawCap - 1
      BY <1>1, <2>2
    <3>2. (i - 2) * RawCap <= (q - 1) * RawCap
      BY <1>1, <2>2
    <3>3. (q - 1) * RawCap = RawCap * q - RawCap
      BY <1>1, <2>2
    <3>4. RawCap * q \in Int /\ (i - 2) * RawCap \in Int
      BY <1>1, <2>2
    <3> QED
      BY <1>1, <3>1, <3>2, <3>3, <3>4
  <2> QED
    BY <1>1, <1>3, <2>2, <2>3, <2>4, <2>5
<1> QED
  BY <1>1, <1>2, <1>3

\* What a message becomes is a sequence of packets numbered from the next one.
LEMMA PacketsOfType ==
    ASSUME NEW len \in Lengths, NEW msg \in Nat, NEW first \in Nat
    PROVE  LET new == PacketsOf(msg, len, first)
           IN  /\ new \in Seq(PacketType)
               /\ Len(new) = PieceCount(len) /\ Len(new) \in Nat \ {0}
               /\ \A i \in 1 .. Len(new) :
                    /\ new[i].n = first + i - 1
                    /\ new[i].sequence = Wrap(first + i - 1)
<1> DEFINE new == PacketsOf(msg, len, first)
           count == PieceCount(len)
<1>1. count \in Nat \ {0}
  BY PieceCountPositive
<1>2. len \in Nat /\ FirstCap \in Nat /\ RawCap \in Nat
  BY CapAssumption
<1>3. ASSUME NEW i \in 1 .. count
      PROVE  new[i] \in PacketType
  <2>1. first + i - 1 \in Nat /\ Wrap(first + i - 1) \in Residue
    BY <1>1, WrapDef
  <2>2. PieceOf(msg, len, i) \in PieceType
    <3> DEFINE from == IF i = 1 THEN 0 ELSE FirstCap + (i - 2) * RawCap
               cap == IF i = 1 THEN FirstCap ELSE RawCap
    <3>1. cap \in Nat
      BY <1>2
    <3>2. from \in Nat
      <4>1. CASE i = 1
        BY <4>1
      <4>2. CASE i # 1
        <5>1. i - 2 \in Nat
          BY <1>1, <4>2
        <5>2. (i - 2) * RawCap \in Nat
          BY <1>2, <5>1
        <5> QED
          BY <1>2, <4>2, <5>2
      <4> QED
        BY <4>1, <4>2
    <3>5. FirstCap > 0 /\ RawCap > FirstCap /\ len > 0
      BY CapAssumption
    <3>6. len > RawCap => from < len
      <4>1. CASE i = 1
        BY <1>2, <3>5, <4>1
      <4>2. CASE i # 1
        BY <1>1, <4>2, PieceCountPositive
      <4> QED
        BY <4>1, <4>2
    <3>7. cap > 0
      BY <1>2, <3>5
    <3> HIDE DEF from, cap
    <3>3. LET to == IF len - from > cap THEN from + cap ELSE len
          IN  to \in Nat /\ (len > RawCap => from < to)
      BY <1>2, <3>1, <3>2, <3>6, <3>7
    <3>4. PieceOf(msg, len, i) =
            IF len <= RawCap THEN Piece(msg, 0, len)
            ELSE Piece(msg, from, IF len - from > cap THEN from + cap ELSE len)
      BY DEF PieceOf, from, cap
    <3> QED
      BY <1>2, <3>2, <3>3, <3>4, <3>5 DEF Piece, PieceType
  <2> QED
    BY <1>1, <1>2, <2>1, <2>2 DEF PacketsOf, PacketType
<1>4. new \in [1 .. count -> PacketType]
  BY <1>3 DEF PacketsOf
<1>5. new \in Seq(PacketType) /\ Len(new) = count
  BY <1>1, <1>4
<1>6. \A i \in 1 .. count : /\ new[i].n = first + i - 1
                            /\ new[i].sequence = Wrap(first + i - 1)
  BY DEF PacketsOf
<1> QED
  BY <1>1, <1>5, <1>6

\* Queueing numbers the new packets from Len(log) on, files each under a
\* residue that is free, and ages nothing beyond the window.
LEMMA QueuePacketInductive ==
    ASSUME Inductive, QueuePacket
    PROVE  Inductive'
<1> USE DEF Inductive
<1>1. PICK len \in Lengths :
        LET new == PacketsOf(Len(queued) + 1, len, Len(log))
            all == {new[i] : i \in DOMAIN new}
        IN  /\ HasRoom(Len(new))
            /\ queued' = Append(queued, len)
            /\ log' = log \o new
            /\ sequence_out' = Wrap(sequence_out + Len(new))
            /\ sent_packets' =
                 [s \in DOMAIN sent_packets \cup {p.sequence : p \in all} |->
                    IF s \in DOMAIN sent_packets THEN sent_packets[s]
                    ELSE CHOOSE p \in all : p.sequence = s]
            /\ packets' = packets \cup all
            /\ acks' = Expire(acks, Len(log') - 1)
  BY DEF QueuePacket
<1> DEFINE new == PacketsOf(Len(queued) + 1, len, Len(log))
           all == {new[i] : i \in DOMAIN new}
           L == Len(log)
<1>2. /\ UNCHANGED <<inbound, assembly, delivered, draining, status>>
  BY DEF QueuePacket
<1>3. L \in Nat /\ Len(queued) + 1 \in Nat /\ accepted \in Nat
      /\ SeqWindow \in Nat /\ len \in Nat
  BY SeqAssumption, CapAssumption DEF TypeOK
<1>4. /\ new \in Seq(PacketType) /\ Len(new) \in Nat \ {0}
      /\ \A i \in 1 .. Len(new) : /\ new[i].n = L + i - 1
                                  /\ new[i].sequence = Wrap(L + i - 1)
  BY <1>3, PacketsOfType
<1>5. /\ L + Len(new) - accepted <= SeqWindow
      /\ \A s \in DOMAIN sent_packets :
           L + Len(new) - sent_packets[s].n <= SeqWindow
  BY <1>1 DEF HasRoom
<1>6. /\ queued' = Append(queued, len)
      /\ log' = log \o new
      /\ sequence_out' = Wrap(sequence_out + Len(new))
      /\ sent_packets' =
           [s \in DOMAIN sent_packets \cup {p.sequence : p \in all} |->
              IF s \in DOMAIN sent_packets THEN sent_packets[s]
              ELSE CHOOSE p \in all : p.sequence = s]
      /\ packets' = packets \cup all
      /\ acks' = Expire(acks, Len(log') - 1)
  BY <1>1
<1> HIDE DEF new
<1>7. /\ log' \in Seq(PacketType) /\ Len(log') = L + Len(new)
      /\ \A i \in 1 .. L : log'[i] = log[i]
      /\ \A i \in L + 1 .. L + Len(new) : log'[i] = new[i - L]
  BY <1>4, <1>6 DEF TypeOK
<1>8. \A p \in all : /\ p \in PacketType /\ p.sequence = Wrap(p.n)
                     /\ p.n \in L .. L + Len(new) - 1
                     /\ log'[p.n + 1] = p
  <2> SUFFICES ASSUME NEW p \in all
               PROVE  /\ p \in PacketType
                      /\ p.sequence = Wrap(p.n)
                      /\ p.n \in L .. L + Len(new) - 1
                      /\ log'[p.n + 1] = p
    OBVIOUS
  <2>0. DOMAIN new = 1 .. Len(new)
    BY <1>4
  <2> PICK i \in 1 .. Len(new) : p = new[i]
    BY <2>0, Zenon
  <2>1. new[i].n = L + i - 1 /\ new[i].sequence = Wrap(L + i - 1)
    BY <1>4
  <2>2. L + i \in L + 1 .. L + Len(new) /\ (L + i) - L = i
        /\ L + i - 1 \in L .. L + Len(new) - 1 /\ L + i - 1 + 1 = L + i
    BY <1>3, <1>4
  <2>3. log'[L + i] = new[i]
    BY <1>7, <2>2
  <2>4. new[i] \in PacketType
    BY <1>4
  <2> QED
    BY <2>1, <2>2, <2>3, <2>4
<1> DEFINE InLog(p) == p.n < Len(log') /\ log'[p.n + 1] = p
<1>9. \A p \in PacketType : Logged(p) => InLog(p)
  <2> SUFFICES ASSUME NEW p \in PacketType, Logged(p) PROVE InLog(p)
    OBVIOUS
  <2>1. p.n \in Nat /\ p.n < L /\ log[p.n + 1] = p
    BY DEF Logged, PacketType
  <2>2. p.n + 1 \in 1 .. L /\ p.n < L + Len(new)
    BY <1>3, <1>4, <2>1
  <2> QED
    BY <1>7, <2>1, <2>2
<1>10. \A s \in DOMAIN sent_packets :
         /\ sent_packets[s] \in PacketType /\ Logged(sent_packets[s])
         /\ sent_packets[s].sequence = s /\ s = Wrap(sent_packets[s].n)
         /\ sent_packets[s].n \in Nat /\ sent_packets[s].n < L
  <2> SUFFICES ASSUME NEW s \in DOMAIN sent_packets
               PROVE  /\ sent_packets[s] \in PacketType
                      /\ Logged(sent_packets[s])
                      /\ sent_packets[s].sequence = s
                      /\ s = Wrap(sent_packets[s].n)
                      /\ sent_packets[s].n \in Nat /\ sent_packets[s].n < L
    OBVIOUS
  <2>1. sent_packets[s] \in PacketType /\ Logged(sent_packets[s])
        /\ sent_packets[s].sequence = s
    BY DEF SentInWindow, TypeOK, MapTypeOK
  <2>2. sent_packets[s].n \in Nat /\ sent_packets[s].n < L
    BY <2>1 DEF PacketType, Logged
  <2> QED
    BY <2>1, <2>2, LoggedSequence
<1>11. ASSUME NEW p \in all
       PROVE  /\ p.sequence \notin DOMAIN sent_packets
              /\ sent_packets'[p.sequence] = p
  <2>1. p.n \in L .. L + Len(new) - 1 /\ p.sequence = Wrap(p.n)
    BY <1>8
  <2>2. p.sequence \notin DOMAIN sent_packets
    <3> SUFFICES ASSUME p.sequence \in DOMAIN sent_packets PROVE FALSE
      OBVIOUS
    <3> DEFINE m == sent_packets[p.sequence].n
    <3>1. m \in Nat /\ m < L /\ L + Len(new) - m <= SeqWindow
          /\ Wrap(m) = Wrap(p.n)
      BY <1>5, <1>10, <2>1
    <3> HIDE DEF m
    <3>2. Near(m, p.n)
      BY <1>3, <1>4, <2>1, <3>1 DEF Near
    <3>3. m = p.n
      BY <1>3, <1>4, <2>1, <3>1, <3>2, WrapInjective
    <3> QED
      BY <1>3, <1>4, <2>1, <3>1, <3>3
  <2>3. ASSUME NEW r \in all, r.sequence = p.sequence
        PROVE  r = p
    <3>1. r.n \in L .. L + Len(new) - 1 /\ Wrap(r.n) = Wrap(p.n)
          /\ log'[r.n + 1] = r /\ log'[p.n + 1] = p
      BY <1>8, <2>1, <2>3
    <3>2. L + Len(new) - accepted <= SeqWindow /\ accepted <= L
      BY <1>5 DEF Numbered
    <3>3. Near(r.n, p.n)
      <4> DEFINE k == Len(new)
      <4>1. k \in Nat /\ L + k - accepted <= SeqWindow
            /\ r.n \in L .. L + k - 1 /\ p.n \in L .. L + k - 1
        BY <1>4, <2>1, <3>1, <3>2
      <4> HIDE DEF k
      <4> QED
        BY <1>3, <3>2, <4>1 DEF Near
    <3>4. r.n = p.n
      BY <1>3, <1>4, <2>1, <3>1, <3>3, WrapInjective
    <3> QED
      BY <3>1, <3>4
  <2>4. (CHOOSE r \in all : r.sequence = p.sequence) = p
    BY <2>3
  <2> QED
    BY <1>6, <2>2, <2>4
<1>12. \A s \in DOMAIN sent_packets : s \in DOMAIN sent_packets'
                                   /\ sent_packets'[s] = sent_packets[s]
  BY <1>6
<1>13. \A s \in DOMAIN sent_packets' : \/ s \in DOMAIN sent_packets
                                       \/ \E p \in all : s = p.sequence
  BY <1>6
<1> HIDE DEF all, L
<1>14. TypeOK'
  <2>1. queued' \in Seq(Nat)
    BY <1>3, <1>6 DEF TypeOK
  <2>2. sequence_out' \in Residue
    <3>1. sequence_out \in Int
      BY DEF TypeOK, Residue
    <3> QED
      BY <1>4, <1>6, <3>1, WrapDef
  <2>3. MapTypeOK(sent_packets')
    <3>1. ASSUME NEW s \in DOMAIN sent_packets'
          PROVE  s \in Residue /\ sent_packets'[s] \in PacketType
      <4>1. CASE s \in DOMAIN sent_packets
        BY <1>12, <4>1 DEF TypeOK, MapTypeOK
      <4>2. CASE \E p \in all : s = p.sequence
        BY <1>8, <1>11, <4>2 DEF PacketType
      <4> QED
        BY <1>13, <4>1, <4>2
    <3> QED
      BY <1>6, <3>1 DEF MapTypeOK
  <2>4. packets' \subseteq PacketType
    BY <1>6, <1>8 DEF TypeOK
  <2>5. acks' \subseteq AckType
    BY <1>6 DEF Expire, TypeOK
  <2> QED
    BY <1>2, <1>7, <2>1, <2>2, <2>3, <2>4, <2>5
    DEF TypeOK, MapTypeOK, inbound, assembly, status
<1>15. Numbered'
  <2>1. ASSUME NEW i \in DOMAIN log'
        PROVE  log'[i].n = i - 1 /\ log'[i].sequence = Wrap(i - 1)
    <3>1. i \in 1 .. Len(log')
      BY <1>7
    <3>2. CASE i \in 1 .. Len(log)
      <4>1. i \in DOMAIN log /\ log'[i] = log[i]
        BY <1>7, <3>2 DEF TypeOK, L
      <4> QED
        BY <4>1 DEF Numbered
    <3>3. CASE i \in L + 1 .. L + Len(new)
      <4>1. i - L \in 1 .. Len(new) /\ L + (i - L) - 1 = i - 1
        BY <1>3, <1>4, <3>3
      <4> QED
        BY <1>4, <1>7, <3>3, <4>1
    <3> QED
      BY <1>3, <1>4, <1>7, <3>1, <3>2, <3>3 DEF L
  <2>2. sequence_out' = Wrap(Len(log'))
    BY <1>3, <1>4, <1>6, <1>7, WrapAdd DEF Numbered, L
  <2> QED
    BY <1>2, <1>3, <1>4, <1>5, <1>7, <2>1, <2>2 DEF Numbered, inbound, L
<1>16. SentInWindow'
  <2> SUFFICES ASSUME NEW s \in DOMAIN sent_packets'
               PROVE  /\ InLog(sent_packets'[s])
                      /\ sent_packets'[s].sequence = s
                      /\ Len(log') - sent_packets'[s].n <= SeqWindow
    BY DEF SentInWindow, Logged
  <2>1. CASE s \in DOMAIN sent_packets
    <3>1. sent_packets'[s] = sent_packets[s]
          /\ sent_packets[s].sequence = s /\ InLog(sent_packets[s])
      BY <1>9, <1>10, <1>12, <2>1
    <3>2. Len(log') - sent_packets[s].n <= SeqWindow
      BY <1>3, <1>4, <1>5, <1>7, <1>10, <2>1
    <3> HIDE DEF InLog
    <3> QED
      BY <3>1, <3>2
  <2>2. CASE \E p \in all : s = p.sequence
    <3>1. PICK p \in all : s = p.sequence
      BY <2>2
    <3>2. sent_packets'[s] = p
      BY <1>11, <3>1
    <3>3. p.n \in L .. L + Len(new) - 1 /\ log'[p.n + 1] = p
      BY <1>8
    <3>4. L + Len(new) - accepted <= SeqWindow /\ accepted <= L
      BY <1>5 DEF Numbered, L
    <3>5. p.n < L + Len(new) /\ L + Len(new) - p.n <= SeqWindow
      BY <1>3, <1>4, <3>3, <3>4
    <3>6. InLog(p) /\ Len(log') - p.n <= SeqWindow
      BY <1>3, <1>4, <1>7, <3>3, <3>5
    <3> HIDE DEF InLog
    <3> QED
      BY <3>1, <3>2, <3>6
  <2> QED
    BY <1>13, <2>1, <2>2
<1>17. PacketsFresh'
  <2> SUFFICES ASSUME NEW p \in packets'
               PROVE  InLog(p) /\ accepted - p.n <= SeqWindow
    BY <1>2 DEF PacketsFresh, Logged, inbound
  <2>1. CASE p \in packets
    BY <1>9, <2>1 DEF PacketsFresh, TypeOK
  <2>2. CASE p \in all
    <3>1. p.n \in L .. L + Len(new) - 1 /\ log'[p.n + 1] = p
      BY <1>8, <2>2
    <3>2. accepted <= L
      BY DEF Numbered, L
    <3> QED
      BY <1>3, <1>4, <1>7, <3>1, <3>2
  <2> QED
    BY <1>6, <2>1, <2>2
<1>18. QueueLogged'
  <2>1. \A s \in DOMAIN packet_queue : packet_queue[s] \in PacketType
    BY DEF TypeOK, MapTypeOK
  <2>2. \A s \in DOMAIN packet_queue : InLog(packet_queue[s])
    BY <1>9, <2>1 DEF QueueLogged
  <2> QED
    BY <1>2, <2>2 DEF QueueLogged, inbound, Logged
<1>19. AcksTrue'
  <2> SUFFICES ASSUME NEW a \in acks'
               PROVE  /\ a.sequence = Wrap(a.n)
                      /\ a.n < Len(log') /\ Len(log') - 1 - a.n <= SeqWindow
                      /\ a.kind = "Ack" => a.n < accepted
                      /\ Arrived(a.n) \/ recv_status # "Connected"
    BY <1>2 DEF AcksTrue, Arrived, inbound, status
  <2>1. a \in acks /\ Len(log') - 1 - a.n <= SeqWindow
    BY <1>6 DEF Expire
  <2>2. a.n < L /\ a.n \in Nat
    BY <2>1 DEF AcksTrue, TypeOK, AckType, L
  <2> QED
    BY <1>3, <1>4, <1>7, <2>1, <2>2 DEF AcksTrue
<1>20. NothingForgotten'
  <2> SUFFICES ASSUME recv_status = "Connected", NEW i \in DOMAIN log'
               PROVE  \/ log'[i].n < accepted
                      \/ Filed(log'[i], sent_packets')
                      \/ Filed(log'[i], packet_queue)
    BY <1>2 DEF NothingForgotten, Filed, inbound, status
  <2>1. i \in 1 .. Len(log')
    BY <1>7
  <2>2. CASE i \in 1 .. Len(log)
    <3>1. i \in DOMAIN log /\ log'[i] = log[i]
      BY <1>7, <2>2 DEF TypeOK, L
    <3> QED
      BY <1>12, <3>1 DEF NothingForgotten, Filed
  <2>3. CASE i \in L + 1 .. L + Len(new)
    <3>1. log'[i] = new[i - L] /\ i - L \in 1 .. Len(new)
      BY <1>3, <1>4, <1>7, <2>3
    <3>2. log'[i] \in all
      BY <1>4, <3>1 DEF all
    <3>3. log'[i].sequence \in DOMAIN sent_packets'
      BY <1>6, <3>2
    <3> QED
      BY <1>11, <3>2, <3>3 DEF Filed
  <2> QED
    BY <1>3, <1>4, <1>7, <2>1, <2>2, <2>3 DEF L
<1> QED
  BY <1>14, <1>15, <1>16, <1>17, <1>18, <1>19, <1>20

-------------------------------------------------------------------------------
(* Receiving. *)

\* What the body of a packet does to the reassembly buffer has its type.
LEMMA HandleBodyType ==
    ASSUME TypeOK, NEW p \in PacketType, HandleBody(p)
    PROVE  /\ delivered' \in Seq(Seq(PieceType))
           /\ fragment_total_bytes' \in Nat /\ fragment_current_bytes' \in Nat
           /\ fragment_packet' \in Seq(PieceType)
<1> USE DEF TypeOK
<1>1. p.piece \in PieceType /\ p.total \in Nat
  BY DEF PacketType
<1>2. <<p.piece>> \in Seq(PieceType)
  BY <1>1
<1>3. Append(fragment_packet, p.piece) \in Seq(PieceType)
  BY <1>1
<1>4. Size(p.piece) \in Nat
  BY <1>1 DEF PieceType, Size
<1> DEFINE buffer == Append(fragment_packet, p.piece)
           bytes == fragment_current_bytes + Size(p.piece)
<1>5. bytes \in Nat /\ Append(delivered, buffer) \in Seq(Seq(PieceType))
  BY <1>3, <1>4
<1>6. CASE p.kind = "Packet"
  <2>1. Append(delivered, <<p.piece>>) \in Seq(Seq(PieceType))
    BY <1>2
  <2>2. delivered' = Append(delivered, <<p.piece>>) /\ UNCHANGED assembly
    BY <1>6 DEF HandleBody
  <2> QED
    BY <2>1, <2>2 DEF assembly
<1>7. CASE p.kind # "Packet" /\ fragment_total_bytes = 0
  BY <1>1, <1>2, <1>4, <1>7 DEF HandleBody
<1>8. CASE /\ p.kind # "Packet" /\ fragment_total_bytes # 0
           /\ bytes >= fragment_total_bytes
  <2>1. /\ delivered' = Append(delivered, buffer)
        /\ fragment_total_bytes' = 0 /\ fragment_current_bytes' = 0
        /\ fragment_packet' = <<>>
    BY <1>8 DEF HandleBody
  <2>2. <<>> \in Seq(PieceType)
    OBVIOUS
  <2> HIDE DEF buffer
  <2> QED
    BY <1>5, <2>1, <2>2
<1>9. CASE /\ p.kind # "Packet" /\ fragment_total_bytes # 0
           /\ ~(bytes >= fragment_total_bytes)
  BY <1>3, <1>5, <1>9 DEF HandleBody
<1> QED
  BY <1>6, <1>7, <1>8, <1>9

\* Handling a packet, from the network or out of packet_queue, keeps the
\* invariant.  `queue' is packet_queue, less the entry of p itself when the
\* packet comes out of it.
LEMMA ReceiveInductive ==
    ASSUME Inductive, NEW p, NEW queue,
           Logged(p), p \in PacketType, accepted - p.n <= SeqWindow,
           DOMAIN queue \subseteq DOMAIN packet_queue,
           queue = [s \in DOMAIN queue |-> packet_queue[s]],
           \A s \in DOMAIN packet_queue \ DOMAIN queue :
               s = p.sequence /\ p.n = accepted,
           ProcessDecodedPacket(p, queue),
           packets' = Expire(packets, accepted'),
           UNCHANGED <<sender, status>>, draining' \in BOOLEAN
    PROVE  Inductive'
<1> USE DEF Inductive
<1>1. p.n \in Nat /\ accepted \in Nat /\ Len(log) \in Nat /\ SeqWindow \in Nat
      /\ accepted <= Len(log) /\ Len(log) - accepted <= SeqWindow
      /\ p.n < Len(log) /\ sequence_in = Wrap(accepted)
      /\ sequence_in \in Residue /\ p.sequence \in Residue
  BY SeqAssumption DEF PacketType, TypeOK, Numbered, Logged
<1>2. Order(p) = TrueOrder(accepted, p.n) /\ p.sequence = Wrap(p.n)
  BY <1>1, OrderIsTrue
<1>3. \A s \in DOMAIN packet_queue :
        /\ packet_queue[s] \in PacketType /\ Logged(packet_queue[s])
        /\ s \in Residue /\ packet_queue[s].sequence = s
        /\ packet_queue[s].n \in Nat /\ accepted <= packet_queue[s].n
  BY DEF TypeOK, MapTypeOK, QueueLogged, PacketType
<1>4. \A s \in DOMAIN queue : s \in DOMAIN packet_queue
                            /\ queue[s] = packet_queue[s]
  OBVIOUS
<1>5. \A s \in DOMAIN packet_queue : s = Wrap(packet_queue[s].n)
  BY <1>3, LoggedSequence

\* What the four branches have in common.
<1>10. ASSUME accepted' \in Nat, accepted' >= accepted, accepted' <= Len(log),
              sequence_in' = Wrap(accepted'),
              acks' \subseteq AckType,
              MapTypeOK(packet_queue'),
              delivered' \in Seq(Seq(PieceType)),
              fragment_total_bytes' \in Nat, fragment_current_bytes' \in Nat,
              fragment_packet' \in Seq(PieceType),
              QueueLogged', AcksTrue',
              \A i \in DOMAIN log :
                 recv_status = "Connected" /\ i - 1 >= accepted' =>
                   \/ Filed(log[i], sent_packets)
                   \/ Filed(log[i], packet_queue')
       PROVE  Inductive'
  <2>1. TypeOK'
    <3>1. sequence_in' \in Residue
      BY <1>10, WrapDef
    <3>2. packets' \subseteq PacketType
      BY DEF TypeOK, Expire
    <3> QED
      BY <1>10, <3>1, <3>2 DEF TypeOK, MapTypeOK, sender, status
  <2>2. Numbered'
    BY <1>1, <1>10 DEF Numbered, sender
  <2>3. SentInWindow'
    BY DEF SentInWindow, sender, Logged
  <2>4. PacketsFresh'
    BY DEF PacketsFresh, sender, Logged, Expire
  <2>5. NothingForgotten'
    <3> SUFFICES ASSUME recv_status = "Connected", NEW i \in DOMAIN log
                 PROVE  \/ log[i].n < accepted'
                        \/ Filed(log[i], sent_packets)
                        \/ Filed(log[i], packet_queue')
      BY DEF NothingForgotten, Filed, sender, status
    <3>1. log[i].n = i - 1 /\ i \in Nat
      BY DEF Numbered, TypeOK
    <3> QED
      BY <1>10, <3>1
  <2> QED
    BY <1>10, <2>1, <2>2, <2>3, <2>4, <2>5
<1>11. CASE Refused(p)
  <2>1. /\ packet_queue' = queue
        /\ UNCHANGED <<acks, sequence_in, accepted, assembly, delivered>>
    BY <1>11 DEF ProcessDecodedPacket
  <2>2. recv_status # "Connected"
    BY <1>11 DEF Refused
  <2>3. MapTypeOK(packet_queue')
    BY <1>3, <1>4, <2>1 DEF MapTypeOK
  <2>4. QueueLogged'
    BY <1>3, <1>4, <2>1 DEF QueueLogged, Logged, sender
  <2>5. AcksTrue'
    BY <2>1, <2>2 DEF AcksTrue, sender, status
  <2> QED
    BY <1>1, <1>10, <2>1, <2>2, <2>3, <2>4, <2>5 DEF TypeOK, assembly
<1>12. CASE ~Refused(p) /\ Order(p) = "Future"
  <2>1. /\ acks' = acks \cup {[kind |-> "OutOfOrderAck", n |-> p.n,
                               sequence |-> p.sequence]}
        /\ packet_queue' = [s \in DOMAIN queue \cup {p.sequence} |->
                              IF s \in DOMAIN queue THEN queue[s] ELSE p]
        /\ UNCHANGED <<sequence_in, accepted, assembly, delivered>>
    BY <1>12 DEF ProcessDecodedPacket, SendAck
  <2>2. p.n > accepted
    BY <1>1, <1>2, <1>12 DEF TrueOrder
  <2>3. DOMAIN queue = DOMAIN packet_queue
    <3>1. p.n # accepted
      BY <1>1, <2>2
    <3> QED
      BY <3>1
  <2>4. \A s \in DOMAIN packet_queue' :
          packet_queue'[s] = IF s \in DOMAIN packet_queue
                             THEN packet_queue[s] ELSE p
    BY <1>4, <2>1, <2>3
  <2>5. DOMAIN packet_queue' = DOMAIN packet_queue \cup {p.sequence}
    BY <2>1, <2>3
  <2>6. MapTypeOK(packet_queue')
    BY <1>1, <1>3, <2>1, <2>4, <2>5 DEF MapTypeOK
  <2>7. QueueLogged'
    <3> SUFFICES ASSUME NEW s \in DOMAIN packet_queue'
                 PROVE  /\ Logged(packet_queue'[s])
                        /\ packet_queue'[s].sequence = s
                        /\ accepted <= packet_queue'[s].n
      BY <2>1 DEF QueueLogged, Logged, sender
    <3>1. CASE s \in DOMAIN packet_queue
      BY <1>3, <2>4, <3>1
    <3>2. CASE s \notin DOMAIN packet_queue
      <4>1. packet_queue'[s] = p /\ s = p.sequence
        BY <2>4, <2>5, <3>2
      <4> QED
        BY <1>1, <2>2, <4>1
    <3> QED
      BY <3>1, <3>2
  <2>8. \E s \in DOMAIN packet_queue' : packet_queue'[s].n = p.n
    <3>1. CASE p.sequence \notin DOMAIN packet_queue
      BY <2>4, <2>5, <3>1
    <3>2. CASE p.sequence \in DOMAIN packet_queue
      <4> DEFINE m == packet_queue[p.sequence].n
      <4>1. m \in Nat /\ accepted <= m /\ m < Len(log) /\ Wrap(m) = Wrap(p.n)
        BY <1>2, <1>3, <1>5, <3>2 DEF Logged
      <4>2. packet_queue'[p.sequence].n = m
        BY <2>4, <2>5, <3>2
      <4> HIDE DEF m
      <4>3. Near(m, p.n)
        BY <1>1, <2>2, <4>1 DEF Near
      <4>4. m = p.n
        BY <1>1, <4>1, <4>3, WrapInjective
      <4> QED
        BY <2>5, <4>2, <4>4
    <3> QED
      BY <3>1, <3>2
  <2>9. AcksTrue'
    <3> SUFFICES ASSUME NEW a \in acks'
                 PROVE  /\ a.sequence = Wrap(a.n)
                        /\ a.n < Len(log) /\ Len(log) - 1 - a.n <= SeqWindow
                        /\ a.kind = "Ack" => a.n < accepted
                        /\ Arrived(a.n)' \/ recv_status # "Connected"
      BY <2>1 DEF AcksTrue, Arrived, sender, status
    <3>1. CASE a \in acks
      <4>1. Arrived(a.n) => Arrived(a.n)'
        BY <2>1, <2>4, <2>5 DEF Arrived
      <4> QED
        BY <3>1, <4>1 DEF AcksTrue
    <3>2. CASE a = [kind |-> "OutOfOrderAck", n |-> p.n,
                    sequence |-> p.sequence]
      BY <1>1, <1>2, <2>2, <2>8, <3>2 DEF Arrived
    <3> QED
      BY <2>1, <3>1, <3>2
  <2>10. acks' \subseteq AckType
    BY <1>1, <2>1 DEF TypeOK, AckType
  <2>11. \A i \in DOMAIN log : Filed(log[i], packet_queue)
                                 => Filed(log[i], packet_queue')
    BY <2>4, <2>5 DEF Filed
  <2>12. \A i \in DOMAIN log : log[i].n = i - 1 /\ i \in Nat
    BY DEF Numbered, TypeOK
  <2>13. \A i \in DOMAIN log :
           recv_status = "Connected" /\ i - 1 >= accepted =>
               \/ Filed(log[i], sent_packets)
               \/ Filed(log[i], packet_queue')
    BY <1>1, <2>11, <2>12 DEF NothingForgotten
  <2>14. /\ accepted' = accepted /\ sequence_in' = Wrap(accepted')
         /\ delivered' \in Seq(Seq(PieceType))
         /\ fragment_total_bytes' \in Nat /\ fragment_current_bytes' \in Nat
         /\ fragment_packet' \in Seq(PieceType)
    BY <1>1, <2>1 DEF TypeOK, assembly
  <2>15. accepted' \in Nat /\ accepted' >= accepted /\ accepted' <= Len(log)
    BY <1>1, <2>14
  <2> QED
    BY <1>10, <2>6, <2>7, <2>9, <2>10, <2>13, <2>14, <2>15
<1>13. CASE ~Refused(p) /\ Order(p) = "Past"
  <2>1. /\ acks' = acks \cup {[kind |-> "Ack", n |-> accepted - 1,
                               sequence |-> Wrap(sequence_in - 1)]}
        /\ packet_queue' = queue
        /\ UNCHANGED <<sequence_in, accepted, assembly, delivered>>
    BY <1>13 DEF ProcessDecodedPacket, SendAck
  <2>2. p.n < accepted
    BY <1>1, <1>2, <1>13 DEF TrueOrder
  <2>3. DOMAIN queue = DOMAIN packet_queue /\ queue = packet_queue
    <3>0. p.n # accepted
      BY <1>1, <2>2
    <3>1. DOMAIN queue = DOMAIN packet_queue
      BY <3>0
    <3>2. packet_queue = [s \in DOMAIN packet_queue |-> packet_queue[s]]
      BY DEF TypeOK, MapTypeOK
    <3> QED
      BY <3>1, <3>2
  <2>4. Wrap(sequence_in - 1) = Wrap(accepted - 1)
        /\ Wrap(accepted - 1) \in Residue /\ accepted - 1 \in Nat
    <3>1. Wrap(Wrap(accepted) + (-1)) = Wrap(accepted + (-1))
      BY <1>1, WrapAdd
    <3>2. accepted + (-1) = accepted - 1 /\ accepted - 1 \in Nat
      BY <1>1, <2>2
    <3>3. Wrap(accepted) + (-1) = Wrap(accepted) - 1
      BY <1>1 DEF Residue
    <3> QED
      BY <1>1, <3>1, <3>2, <3>3, WrapDef
  <2>5. acks' \subseteq AckType
    BY <2>1, <2>4 DEF TypeOK, AckType
  <2>6. AcksTrue'
    <3> SUFFICES ASSUME NEW a \in acks'
                 PROVE  /\ a.sequence = Wrap(a.n)
                        /\ a.n < Len(log) /\ Len(log) - 1 - a.n <= SeqWindow
                        /\ a.kind = "Ack" => a.n < accepted
                        /\ Arrived(a.n) \/ recv_status # "Connected"
      BY <2>1, <2>3 DEF AcksTrue, Arrived, sender, status
    <3>1. CASE a \in acks
      BY <3>1 DEF AcksTrue
    <3>2. CASE a = [kind |-> "Ack", n |-> accepted - 1,
                    sequence |-> Wrap(sequence_in - 1)]
      BY <1>1, <2>4, <3>2 DEF Arrived
    <3> QED
      BY <2>1, <3>1, <3>2
  <2>7. QueueLogged' /\ MapTypeOK(packet_queue')
    BY <2>1, <2>3 DEF QueueLogged, Logged, sender, TypeOK, MapTypeOK
  <2>8. \A i \in DOMAIN log : log[i].n = i - 1 /\ i \in Nat
    BY DEF Numbered, TypeOK
  <2>9. \A i \in DOMAIN log :
           recv_status = "Connected" /\ i - 1 >= accepted =>
               \/ Filed(log[i], sent_packets)
               \/ Filed(log[i], packet_queue')
    <3>1. packet_queue' = packet_queue
      BY <2>1, <2>3
    <3> QED
      BY <1>1, <2>8, <3>1 DEF NothingForgotten
  <2> QED
    BY <1>1, <1>10, <2>1, <2>5, <2>6, <2>7, <2>9 DEF TypeOK, assembly
<1>14. CASE ~Refused(p) /\ Order(p) = "Current"
  <2>1. /\ packet_queue' = [s \in DOMAIN queue \ {p.sequence} |-> queue[s]]
        /\ acks' = acks \cup {[kind |-> "Ack", n |-> accepted,
                               sequence |-> sequence_in]}
        /\ sequence_in' = Wrap(sequence_in + 1)
        /\ accepted' = accepted + 1
        /\ HandleBody(p)
    BY <1>14 DEF ProcessDecodedPacket, Advance, SendAck
  <2>2. p.n = accepted
    BY <1>1, <1>2, <1>14 DEF TrueOrder
  <2>3. accepted' \in Nat /\ accepted' >= accepted /\ accepted' <= Len(log)
    BY <1>1, <2>1, <2>2
  <2>4. sequence_in' = Wrap(accepted')
    BY <1>1, <2>1, WrapAdd
  <2>5. /\ delivered' \in Seq(Seq(PieceType))
        /\ fragment_total_bytes' \in Nat /\ fragment_current_bytes' \in Nat
        /\ fragment_packet' \in Seq(PieceType)
    BY <2>1, HandleBodyType
  <2>6. /\ DOMAIN packet_queue' = DOMAIN packet_queue \ {p.sequence}
        /\ \A s \in DOMAIN packet_queue' : packet_queue'[s] = packet_queue[s]
    BY <1>4, <2>1
  <2>7. MapTypeOK(packet_queue')
    BY <1>3, <2>1, <2>6 DEF MapTypeOK
  <2>8. QueueLogged'
    <3> SUFFICES ASSUME NEW s \in DOMAIN packet_queue'
                 PROVE  /\ Logged(packet_queue[s])
                        /\ packet_queue[s].sequence = s
                        /\ accepted' <= packet_queue[s].n
      BY <2>6 DEF QueueLogged, Logged, sender
    <3>1. s \in DOMAIN packet_queue /\ s # p.sequence
      BY <2>6
    <3>2. packet_queue[s].n # accepted
      BY <1>2, <1>5, <2>2, <3>1
    <3> QED
      BY <1>1, <1>3, <2>1, <3>1, <3>2
  <2>9. acks' \subseteq AckType
    BY <1>1, <2>1 DEF TypeOK, AckType
  <2>10. AcksTrue'
    <3> SUFFICES ASSUME NEW a \in acks'
                 PROVE  /\ a.sequence = Wrap(a.n)
                        /\ a.n < Len(log) /\ Len(log) - 1 - a.n <= SeqWindow
                        /\ a.kind = "Ack" => a.n < accepted'
                        /\ Arrived(a.n)' \/ recv_status # "Connected"
      BY DEF AcksTrue, Arrived, sender, status
    <3>1. CASE a \in acks
      <4>1. a.n \in Nat
        BY <3>1 DEF TypeOK, AckType
      <4>2. ASSUME Arrived(a.n) PROVE Arrived(a.n)'
        <5>1. CASE a.n < accepted
          BY <1>1, <2>1, <4>1, <5>1 DEF Arrived
        <5>2. CASE \E s \in DOMAIN packet_queue : packet_queue[s].n = a.n
          <6>1. PICK s \in DOMAIN packet_queue : packet_queue[s].n = a.n
            BY <5>2
          <6>2. CASE s = p.sequence
            <7>1. Wrap(a.n) = Wrap(accepted)
              BY <1>2, <1>5, <2>2, <6>1, <6>2
            <7>2. a.n >= accepted /\ a.n < Len(log)
              BY <1>3, <6>1 DEF Logged
            <7>3. Near(a.n, accepted)
              BY <1>1, <4>1, <7>2 DEF Near
            <7>4. a.n = accepted
              BY <1>1, <4>1, <7>1, <7>3, WrapInjective
            <7> QED
              BY <1>1, <2>1, <7>4 DEF Arrived
          <6>3. CASE s # p.sequence
            BY <2>6, <6>1, <6>3 DEF Arrived
          <6> QED
            BY <6>2, <6>3
        <5> QED
          BY <4>2, <5>1, <5>2 DEF Arrived
      <4>3. a.n < accepted => a.n < accepted'
        BY <1>1, <2>1, <4>1
      <4> QED
        BY <3>1, <4>2, <4>3 DEF AcksTrue
    <3>2. CASE a = [kind |-> "Ack", n |-> accepted, sequence |-> sequence_in]
      BY <1>1, <2>1, <2>2, <3>2 DEF Arrived
    <3> QED
      BY <2>1, <3>1, <3>2
  <2>11. \A i \in DOMAIN log : log[i].n = i - 1 /\ i \in Nat
    BY DEF Numbered, TypeOK
  <2>12. ASSUME NEW i \in DOMAIN log, recv_status = "Connected",
                i - 1 >= accepted'
         PROVE  Filed(log[i], sent_packets) \/ Filed(log[i], packet_queue')
    <3>1. i - 1 # accepted /\ ~(i - 1 < accepted)
      BY <1>1, <2>1, <2>11, <2>12
    <3>2. SUFFICES ASSUME Filed(log[i], packet_queue)
                   PROVE  Filed(log[i], packet_queue')
      BY <2>11, <2>12, <3>1 DEF NothingForgotten
    <3>3. CASE log[i].sequence = p.sequence
      <4>1. Wrap(i - 1) = Wrap(accepted) /\ i - 1 \in Int
        BY <1>2, <2>2, <2>11, <3>3 DEF Numbered
      <4>2. i <= Len(log)
        BY DEF TypeOK
      <4>3. Near(i - 1, accepted)
        BY <1>1, <2>1, <2>11, <2>12, <4>2 DEF Near
      <4> QED
        BY <1>1, <3>1, <4>1, <4>3, WrapInjective
    <3>4. CASE log[i].sequence # p.sequence
      BY <2>6, <3>2, <3>4 DEF Filed
    <3> QED
      BY <3>3, <3>4
  <2> QED
    BY <1>10, <2>3, <2>4, <2>5, <2>7, <2>8, <2>9, <2>10, <2>12
<1> QED
  BY <1>11, <1>12, <1>13, <1>14 DEF ProcessDecodedPacket

-------------------------------------------------------------------------------
(* The invariant, and what it says. *)

\* Every step keeps the invariant.
LEMMA NextInductive == Inductive /\ [Next]_vars => Inductive'
<1> SUFFICES ASSUME Inductive, [Next]_vars PROVE Inductive'
  OBVIOUS
<1>0. /\ draining \in BOOLEAN
      /\ send_status \in StatusType /\ recv_status \in StatusType
      /\ packets \subseteq packets \cup
            {sent_packets[s] : s \in DOMAIN sent_packets}
      /\ packet_queue \in [DOMAIN packet_queue -> PacketType]
  BY DEF Inductive, TypeOK, MapTypeOK
<1>1. CASE QueuePacket
  BY <1>1, QueuePacketInductive
<1>2. CASE ProcessResend
  <2>1. packets' \subseteq packets \cup
            {sent_packets[s] : s \in DOMAIN sent_packets}
    BY <1>2 DEF ProcessResend, ResendNow
  <2> QED
    BY <1>0, <1>2, <2>1, QuietInductive DEF ProcessResend, status
<1>3. CASE SenderClose
  BY <1>0, <1>3, QuietInductive DEF SenderClose, StatusType
<1>4. CASE \E a \in acks : Ack(a) \/ OutOfOrderAck(a)
  BY <1>4, AckInductive, OutOfOrderAckInductive
<1>5. ASSUME NEW p \in packets, ReceivePacket(p)
      PROVE  Inductive'
  <2>1. Logged(p) /\ p \in PacketType /\ accepted - p.n <= SeqWindow
    BY DEF Inductive, PacketsFresh, TypeOK
  <2>2. packet_queue = [s \in DOMAIN packet_queue |-> packet_queue[s]]
    BY <1>0
  <2> QED
    BY <1>0, <1>5, <2>1, <2>2, ReceiveInductive DEF ReceivePacket
<1>6. CASE StartProcessQueue
  BY <1>0, <1>6, QuietInductive DEF StartProcessQueue, status
<1>7. CASE ProcessQueue
  <2>1. CASE sequence_in \in DOMAIN packet_queue
    <3> DEFINE p == packet_queue[sequence_in]
               queue == [s \in DOMAIN packet_queue \ {sequence_in}
                           |-> packet_queue[s]]
    <3>1. Logged(p) /\ p \in PacketType /\ p.sequence = sequence_in
          /\ accepted <= p.n /\ p.n \in Nat
      BY <1>0, <2>1 DEF Inductive, QueueLogged, PacketType
    <3>2. /\ accepted \in Nat /\ Len(log) \in Nat /\ SeqWindow \in Nat
          /\ Len(log) - accepted <= SeqWindow /\ p.n < Len(log)
          /\ sequence_in = Wrap(accepted)
      BY <3>1, SeqAssumption DEF Inductive, TypeOK, Numbered, Logged
    <3>3. p.n = accepted
      <4>1. p.sequence = Wrap(p.n)
        BY <3>1, LoggedSequence DEF Inductive
      <4>2. Near(p.n, accepted)
        BY <3>1, <3>2 DEF Near
      <4> QED
        BY <3>1, <3>2, <4>1, <4>2, WrapInjective
    <3>4. accepted - p.n <= SeqWindow
      BY <3>2, <3>3
    <3>5. /\ DOMAIN queue \subseteq DOMAIN packet_queue
          /\ queue = [s \in DOMAIN queue |-> packet_queue[s]]
          /\ \A s \in DOMAIN packet_queue \ DOMAIN queue :
               s = p.sequence /\ p.n = accepted
      BY <3>1, <3>3
    <3>6. /\ ProcessDecodedPacket(p, queue)
          /\ packets' = Expire(packets, accepted')
          /\ UNCHANGED <<sender, status>> /\ draining' \in BOOLEAN
      BY <1>0, <1>7, <2>1 DEF ProcessQueue
    <3> HIDE DEF p, queue
    <3> QED
      BY <3>1, <3>4, <3>5, <3>6, ReceiveInductive
  <2>2. CASE sequence_in \notin DOMAIN packet_queue
    <3>1. /\ UNCHANGED <<sender, inbound, assembly, delivered, status>>
          /\ packets' = packets /\ acks' = acks /\ draining' \in BOOLEAN
      BY <1>7, <2>2 DEF ProcessQueue
    <3> QED
      BY <1>0, <3>1, QuietInductive DEF status
  <2> QED
    BY <2>1, <2>2
<1>8. CASE ReceiverClose
  BY <1>0, <1>8, QuietInductive DEF ReceiverClose, StatusType
<1>9. CASE Drop
  BY <1>0, <1>9, QuietInductive DEF Drop, StatusType
<1>10. CASE Lose
  <2>1. packets' \subseteq packets /\ acks' \subseteq acks
        /\ UNCHANGED <<sender, inbound, assembly, delivered, draining, status>>
    BY <1>10 DEF Lose
  <2> QED
    BY <1>0, <2>1, QuietInductive DEF status
<1>11. CASE UNCHANGED vars
  BY <1>0, <1>11, QuietInductive DEF vars, status
<1> QED
  BY <1>1, <1>2, <1>3, <1>4, <1>5, <1>6, <1>7, <1>8, <1>9, <1>10, <1>11
  DEF Next

\* So it holds always.
LEMMA SpecInductive == Spec => []Inductive
BY InitInductive, NextInductive, PTL DEF Spec

\* Every reachable state of a stream has the types of reliable_stream_
\* connection.h: residues in 16 bits, positive pieces, maps keyed by residue.
THEOREM TypeCorrect == Spec => []TypeOK
<1>1. Inductive => TypeOK
  BY DEF Inductive
<1> QED
  BY <1>1, SpecInductive, PTL

\* Ack and OutOfOrderAck never erase from sent_packets a packet the receiver
\* has neither counted nor queued, whatever is lost, repeated or reordered.
THEOREM NoPacketForgotten == Spec => []NothingForgotten
<1>1. Inductive => NothingForgotten
  BY DEF Inductive
<1> QED
  BY <1>1, SpecInductive, PTL

\* AddToQueue, RemoveFromQueue and ProcessQueue leave in packet_queue only
\* packets still to come, within the window: none waits for a second turn.
THEOREM QueueNeverStale == Spec => []QueueAhead
<1>1. Inductive => QueueAhead
  <2> SUFFICES ASSUME Inductive, NEW s \in DOMAIN packet_queue
               PROVE  /\ packet_queue[s].sequence = s
                      /\ s = Wrap(packet_queue[s].n)
                      /\ packet_queue[s].n \in accepted .. accepted + SeqWindow
    BY DEF QueueAhead
  <2>1. /\ Logged(packet_queue[s]) /\ packet_queue[s].sequence = s
        /\ accepted <= packet_queue[s].n
        /\ packet_queue[s] \in PacketType
    BY DEF Inductive, QueueLogged, TypeOK, MapTypeOK
  <2>2. packet_queue[s].n \in Nat /\ packet_queue[s].n < Len(log)
    BY <2>1 DEF PacketType, Logged
  <2>3. s = Wrap(packet_queue[s].n)
    BY <2>1, <2>2, LoggedSequence DEF Inductive
  <2>4. accepted \in Nat /\ SeqWindow \in Nat /\ Len(log) \in Nat
        /\ Len(log) - accepted <= SeqWindow
    BY SeqAssumption DEF Inductive, TypeOK, Numbered
  <2> QED
    BY <2>1, <2>2, <2>3, <2>4
<1> QED
  BY <1>1, SpecInductive, PTL
-------------------------------------------------------------------------------
(* Delivery. *)

\* `new' are pieces of the message, in order, whole and without a gap, and only
\* a message that fits one packet travels as an OP_Packet.
Sliced(new, msg, len) ==
    /\ \A i \in 1 .. Len(new) :
         /\ new[i].piece.msg = msg /\ new[i].piece.to <= len
         /\ new[i].kind = "Packet" =>
              new[i].piece.from = 0 /\ new[i].piece.to = len
         /\ new[i].kind = "Fragment" /\ new[i].piece.from = 0 =>
              new[i].piece.to < len /\ new[i].total = len
    /\ new[1].piece.from = 0 /\ new[Len(new)].piece.to = len
    /\ \A i \in 2 .. Len(new) :
         new[i - 1].piece.to < len /\ new[i].piece.from = new[i - 1].piece.to

\* InternalQueuePacket loses and repeats no byte of a message.
LEMMA PacketsOfSliced ==
    ASSUME NEW len \in Lengths, NEW msg \in Nat, NEW first \in Nat
    PROVE  Sliced(PacketsOf(msg, len, first), msg, len)
<1> DEFINE new == PacketsOf(msg, len, first)
           count == PieceCount(len)
<1>1. count \in Nat \ {0} /\ Len(new) = count
  BY PieceCountPositive, PacketsOfType
<1>2. /\ len \in Nat \ {0} /\ FirstCap \in Nat \ {0} /\ RawCap \in Nat \ {0}
      /\ FirstCap < RawCap
  BY CapAssumption
<1>3. \A i \in 1 .. count :
        /\ new[i].kind = IF len <= RawCap THEN "Packet" ELSE "Fragment"
        /\ new[i].total = IF len > RawCap /\ i = 1 THEN len ELSE 0
        /\ new[i].piece = PieceOf(msg, len, i)
  BY DEF PacketsOf
<1> SUFFICES Sliced(new, msg, len)
  OBVIOUS
<1> HIDE DEF new
<1>4. CASE len <= RawCap
  <2>1. count = 1
    BY <1>2, <1>4 DEF PieceCount
  <2>2. new[1].piece = Piece(msg, 0, len) /\ new[1].kind = "Packet"
    BY <1>2, <1>3, <1>4, <2>1 DEF PieceOf
  <2> QED
    BY <1>1, <1>2, <2>1, <2>2 DEF Piece, Sliced
<1>5. CASE len > RawCap
  <2> DEFINE from(i) == IF i = 1 THEN 0 ELSE FirstCap + (i - 2) * RawCap
             cap(i) == IF i = 1 THEN FirstCap ELSE RawCap
             to(i) == IF len - from(i) > cap(i) THEN from(i) + cap(i) ELSE len
  <2>1. \A i \in 1 .. count : PieceOf(msg, len, i) = Piece(msg, from(i), to(i))
    BY <1>2, <1>5 DEF PieceOf
  <2>2. \A i \in 1 .. count : /\ new[i].piece.msg = msg
                              /\ new[i].piece.from = from(i)
                              /\ new[i].piece.to = to(i)
                              /\ new[i].kind = "Fragment"
                              /\ i = 1 => new[i].total = len
    BY <1>2, <1>3, <1>5, <2>1 DEF Piece
  <2>3. \A i \in 1 .. count : from(i) \in Nat /\ cap(i) \in Nat
    <3> SUFFICES ASSUME NEW i \in 1 .. count
                 PROVE  from(i) \in Nat /\ cap(i) \in Nat
      OBVIOUS
    <3>1. CASE i = 1
      BY <1>2, <3>1
    <3>2. CASE i # 1
      <4>1. i - 2 \in Nat
        BY <1>1, <3>2
      <4>2. (i - 2) * RawCap \in Nat
        BY <1>2, <4>1
      <4> QED
        BY <1>2, <3>2, <4>2
    <3> QED
      BY <3>1, <3>2
  <2>4. \A i \in 2 .. count : from(i) < len /\ from(i) = from(i - 1) + cap(i - 1)
    <3> SUFFICES ASSUME NEW i \in 2 .. count
                 PROVE  from(i) < len /\ from(i) = from(i - 1) + cap(i - 1)
      OBVIOUS
    <3>1. from(i) < len
      BY <1>1, <1>5, PieceCountPositive
    <3>2. CASE i = 2
      BY <1>2, <3>1, <3>2
    <3>3. CASE i # 2
      <4>1. (i - 2) * RawCap = (i - 3) * RawCap + RawCap
        BY <1>1, <1>2
      <4>2. i - 1 # 1 /\ i # 1 /\ (i - 1) - 2 = i - 3 /\ i \in Int
        BY <1>1, <3>3
      <4>3. from(i) = FirstCap + (i - 2) * RawCap
            /\ from(i - 1) = FirstCap + (i - 3) * RawCap /\ cap(i - 1) = RawCap
        BY <4>2
      <4>4. (i - 3) * RawCap \in Int /\ (i - 2) * RawCap \in Int
        BY <1>1, <1>2
      <4> HIDE DEF from, cap
      <4> QED
        BY <1>2, <3>1, <4>1, <4>3, <4>4
    <3> QED
      BY <3>2, <3>3
  <2>5. \A i \in 2 .. count : to(i - 1) < len /\ from(i) = to(i - 1)
    <3> SUFFICES ASSUME NEW i \in 2 .. count
                 PROVE  to(i - 1) < len /\ from(i) = to(i - 1)
      OBVIOUS
    <3>1. i - 1 \in 1 .. count
      BY <1>1
    <3>2. /\ from(i) < len /\ from(i) = from(i - 1) + cap(i - 1)
          /\ from(i) \in Nat /\ from(i - 1) \in Nat /\ cap(i - 1) \in Nat
      BY <1>1, <2>3, <2>4, <3>1
    <3> HIDE DEF from, cap
    <3> QED
      BY <1>2, <3>2
  <2>6. to(count) = len
    <3> DEFINE x == len - FirstCap + RawCap - 1
               q == x \div RawCap
    <3>1. x \in Nat /\ x >= RawCap
      BY <1>2, <1>5
    <3>2. q \in Int /\ x = RawCap * q + (x % RawCap)
          /\ x % RawCap \in 0 .. RawCap - 1
      BY <1>2, <3>1
    <3>3. count = 1 + q
      BY <1>2, <1>5 DEF PieceCount
    <3> HIDE DEF q
    <3>4. q >= 1
      <4>1. CASE q <= 0
        <5>1. RawCap * q <= 0
          BY <1>2, <3>2, <4>1
        <5> QED
          BY <1>2, <3>1, <3>2, <5>1
      <4> QED
        BY <3>2, <4>1
    <3>5. from(count) = FirstCap + (q - 1) * RawCap /\ cap(count) = RawCap
      BY <3>2, <3>3, <3>4
    <3>6. (q - 1) * RawCap = RawCap * q - RawCap /\ RawCap * q \in Int
      BY <1>2, <3>2
    <3>7. RawCap * q >= len - FirstCap
      BY <1>2, <3>2, <3>6
    <3> HIDE DEF from, cap
    <3>8. len - from(count) <= cap(count)
      BY <1>2, <3>5, <3>6, <3>7
    <3> QED
      BY <1>2, <1>1, <2>3, <3>8
  <2>7. \A i \in 1 .. count : to(i) \in Nat /\ to(i) <= len
    <3> SUFFICES ASSUME NEW i \in 1 .. count PROVE to(i) \in Nat /\ to(i) <= len
      OBVIOUS
    <3>1. from(i) \in Nat /\ cap(i) \in Nat
      BY <2>3
    <3> HIDE DEF from, cap
    <3> QED
      BY <1>2, <3>1
  <2>8. to(1) < len /\ from(1) = 0
    BY <1>2, <1>5
  <2>9. \A i \in 2 .. count : from(i) # 0
    BY <1>2, <2>3, <2>4, <1>1
  <2> HIDE DEF from, to
  <2>10. \A i \in 1 .. count : i # 1 => i \in 2 .. count
    BY <1>1
  <2>11. \A i \in 2 .. count : i \in 1 .. count /\ i - 1 \in 1 .. count
    BY <1>1
  <2>12. 1 \in 1 .. count /\ count \in 1 .. count
    BY <1>1
  <2> QED
    BY <1>1, <2>2, <2>5, <2>6, <2>7, <2>8, <2>9, <2>10, <2>11, <2>12 DEF Sliced
<1> QED
  BY <1>2, <1>4, <1>5

\* One more piece put behind those of a buffer.
LEMMA ReassembledAppend ==
    ASSUME NEW buffer \in Seq(PieceType), NEW piece \in PieceType,
           NEW msg, NEW bytes, Reassembled(buffer, msg, bytes),
           piece.msg = msg, piece.from = bytes
    PROVE  Reassembled(Append(buffer, piece), msg, piece.to)
<1> DEFINE all == Append(buffer, piece)
           n == Len(buffer)
<1>1. n \in Nat \ {0} /\ Len(all) = n + 1 /\ all[n + 1] = piece
      /\ all \in Seq(PieceType)
  BY DEF Reassembled
<1>2. \A i \in 1 .. n : all[i] = buffer[i]
  OBVIOUS
<1>3. all # <<>> /\ all[1].from = 0 /\ all[Len(all)].to = piece.to
  BY <1>1, <1>2 DEF Reassembled
<1>4. \A i \in DOMAIN all : all[i].msg = msg
  BY <1>1, <1>2 DEF Reassembled
<1>5. \A i \in 2 .. Len(all) : all[i].from = all[i - 1].to
  <2> SUFFICES ASSUME NEW i \in 2 .. n + 1
               PROVE  all[i].from = all[i - 1].to
    BY <1>1
  <2>1. CASE i = n + 1
    BY <1>1, <1>2, <2>1 DEF Reassembled
  <2>2. CASE i # n + 1
    BY <1>1, <1>2, <2>2 DEF Reassembled
  <2> QED
    BY <2>1, <2>2
<1> QED
  BY <1>3, <1>4, <1>5 DEF Reassembled

\* The next packet to be counted goes on where the receiver stands.
LEMMA NextPiece ==
    ASSUME TypeOK, InOrder, accepted < Len(log)
    PROVE  LET p == log[accepted + 1]
           IN  /\ p \in PacketType /\ PacketCut(p)
               /\ p.piece.msg = Len(delivered) + 1
               /\ p.piece.from = IF fragment_total_bytes = 0 THEN 0
                                 ELSE fragment_current_bytes
               /\ fragment_total_bytes # 0 => fragment_current_bytes > 0
<1> DEFINE p == log[accepted + 1]
           last == log[accepted]
<1>1. /\ accepted \in Nat /\ Len(log) \in Nat /\ accepted + 1 \in DOMAIN log
      /\ log # <<>> /\ Len(delivered) \in Nat
  BY DEF TypeOK
<1>2. p \in PacketType /\ PacketCut(p)
  BY <1>1 DEF InOrder, LogInOrder, TypeOK
<1>3. CASE accepted = 0
  BY <1>1, <1>2, <1>3 DEF InOrder, LogInOrder, BufferInOrder
<1>4. CASE accepted # 0
  <2>1. accepted \in DOMAIN log /\ accepted + 1 \in 2 .. Len(log)
        /\ (accepted + 1) - 1 = accepted
    BY <1>1, <1>4
  <2>2. Follows(last.piece, p.piece)
    BY <2>1 DEF InOrder, LogInOrder
  <2>3. last \in PacketType /\ PacketCut(last)
    BY <2>1 DEF InOrder, LogInOrder, TypeOK
  <2>4. last.piece.to \in Nat /\ last.piece.to > 0 /\ last.piece.msg \in Nat
        /\ last.piece.from \in Nat /\ last.piece.msg \in DOMAIN queued
    BY <2>3 DEF PacketType, PieceType, PacketCut
  <2>5. queued[last.piece.msg] \in Nat
    BY <2>4 DEF TypeOK
  <2> HIDE DEF p, last
  <2>6. CASE fragment_total_bytes = 0
    <3>1. Completes(last, Len(delivered))
      BY <1>4, <2>6 DEF InOrder, BufferInOrder, last
    <3>2. p.piece.msg = Len(delivered) + 1 /\ p.piece.from = 0
      BY <2>2, <2>4, <2>5, <3>1 DEF Completes, Follows
    <3> QED
      BY <1>2, <2>6, <3>2 DEF p
  <2>7. CASE fragment_total_bytes # 0
    <3>1. /\ last.piece.msg = Len(delivered) + 1
          /\ last.piece.to = fragment_current_bytes
          /\ fragment_current_bytes < queued[Len(delivered) + 1]
      BY <2>7 DEF InOrder, BufferInOrder, last
    <3>2. p.piece.msg = Len(delivered) + 1
          /\ p.piece.from = fragment_current_bytes
      BY <2>2, <2>4, <2>5, <3>1 DEF Follows
    <3> QED
      BY <1>2, <2>4, <2>7, <3>1, <3>2 DEF p
  <2> QED
    BY <2>6, <2>7
<1> QED
  BY <1>3, <1>4

\* What the steps do to the receiver's side of the order: nothing, or the next
\* packet of the log is counted and its body handled.
LEMMA StepCounts ==
    ASSUME Inductive, [Next]_vars
    PROVE  \/ UNCHANGED <<accepted, assembly, delivered>>
           \/ /\ accepted < Len(log) /\ accepted' = accepted + 1
              /\ HandleBody(log[accepted + 1])
              /\ UNCHANGED <<queued, log>>
<1> USE DEF Inductive
<1>1. ASSUME NEW p, NEW queue, Logged(p), p.n \in Nat,
             accepted - p.n <= SeqWindow, ProcessDecodedPacket(p, queue),
             UNCHANGED sender
      PROVE  \/ UNCHANGED <<accepted, assembly, delivered>>
             \/ /\ accepted < Len(log) /\ accepted' = accepted + 1
                /\ HandleBody(log[accepted + 1])
                /\ UNCHANGED <<queued, log>>
  <2>1. CASE Refused(p) \/ Order(p) # "Current"
    BY <1>1, <2>1 DEF ProcessDecodedPacket
  <2>2. CASE ~Refused(p) /\ Order(p) = "Current"
    <3>1. TrueOrder(accepted, p.n) = "Current"
      BY <1>1, <2>2, OrderIsTrue
    <3>2. p.n = accepted
      BY <3>1 DEF TrueOrder
    <3>3. accepted < Len(log) /\ log[accepted + 1] = p
      BY <1>1, <3>2 DEF Logged
    <3>4. accepted' = accepted + 1 /\ HandleBody(p)
      BY <1>1, <2>2 DEF ProcessDecodedPacket, Advance
    <3> QED
      BY <1>1, <3>3, <3>4 DEF sender
  <2> QED
    BY <2>1, <2>2
<1>2. ASSUME NEW p \in packets, ReceivePacket(p)
      PROVE  \/ UNCHANGED <<accepted, assembly, delivered>>
             \/ /\ accepted < Len(log) /\ accepted' = accepted + 1
                /\ HandleBody(log[accepted + 1])
                /\ UNCHANGED <<queued, log>>
  <2>1. Logged(p) /\ p.n \in Nat /\ accepted - p.n <= SeqWindow
    BY DEF PacketsFresh, TypeOK, PacketType
  <2> QED
    BY <1>1, <1>2, <2>1 DEF ReceivePacket
<1>3. CASE ProcessQueue
  <2>1. CASE sequence_in \in DOMAIN packet_queue
    <3> DEFINE p == packet_queue[sequence_in]
    <3>1. Logged(p) /\ p.n \in Nat /\ accepted <= p.n
      BY <2>1 DEF QueueLogged, TypeOK, MapTypeOK, PacketType
    <3>2. accepted - p.n <= SeqWindow
      BY <3>1, SeqAssumption DEF TypeOK
    <3>3. /\ ProcessDecodedPacket(p, [s \in DOMAIN packet_queue \ {sequence_in}
                                        |-> packet_queue[s]])
          /\ UNCHANGED sender
      BY <1>3, <2>1 DEF ProcessQueue
    <3> HIDE DEF p
    <3> QED
      BY <1>1, <3>1, <3>2, <3>3
  <2>2. CASE sequence_in \notin DOMAIN packet_queue
    BY <1>3, <2>2 DEF ProcessQueue, inbound
  <2> QED
    BY <2>1, <2>2
<1>4. CASE \E a \in acks : Ack(a) \/ OutOfOrderAck(a)
  BY <1>4 DEF Ack, OutOfOrderAck, inbound
<1>5. CASE QueuePacket \/ ProcessResend \/ SenderClose
  BY <1>5 DEF QueuePacket, ProcessResend, SenderClose, inbound
<1>6. CASE StartProcessQueue \/ ReceiverClose \/ Drop \/ Lose
  BY <1>6 DEF StartProcessQueue, ReceiverClose, Drop, Lose, inbound
<1>7. CASE UNCHANGED vars
  BY <1>7 DEF vars, inbound
<1> QED
  BY <1>2, <1>3, <1>4, <1>5, <1>6, <1>7 DEF Next

\* Counting the next packet gives the callback the next message or puts one
\* more piece of it into the buffer.
LEMMA CountInOrder ==
    ASSUME TypeOK, InOrder, accepted < Len(log), accepted' = accepted + 1,
           HandleBody(log[accepted + 1]), UNCHANGED <<queued, log>>
    PROVE  /\ InOrder'
           /\ \/ UNCHANGED delivered
              \/ \E pieces : delivered' = Append(delivered, pieces)
<1> DEFINE p == log[accepted + 1]
           msg == Len(delivered) + 1
<1>1. /\ p \in PacketType /\ PacketCut(p) /\ p.piece.msg = msg
      /\ p.piece.from = IF fragment_total_bytes = 0 THEN 0
                        ELSE fragment_current_bytes
      /\ fragment_total_bytes # 0 => fragment_current_bytes > 0
  BY NextPiece
<1>2. /\ accepted \in Nat /\ accepted' > 0 /\ log[accepted'] = p
      /\ fragment_total_bytes \in Nat /\ fragment_current_bytes \in Nat
      /\ fragment_packet \in Seq(PieceType) /\ Len(delivered) \in Nat
      /\ delivered \in Seq(Seq(PieceType))
  BY DEF TypeOK
<1>3. /\ msg \in DOMAIN queued /\ msg <= Len(queued) /\ queued[msg] \in Nat
      /\ p.piece.to <= queued[msg]
  BY <1>1 DEF PacketCut, TypeOK
<1>4. /\ p.piece \in PieceType /\ p.piece.from < p.piece.to
      /\ p.piece.to \in Nat /\ p.piece.from \in Nat
  BY <1>1 DEF PacketType, PieceType
<1>5. LogInOrder'
  BY DEF InOrder, LogInOrder, PacketCut, Completes, Follows
<1> HIDE DEF p
<1>6. ASSUME NEW pieces, delivered' = Append(delivered, pieces),
             Reassembled(pieces, msg, queued[msg])
      PROVE  InOrderDelivery' /\ Len(delivered') = msg
  <2>1. Len(delivered') = msg /\ DOMAIN delivered' = 1 .. msg
        /\ delivered'[msg] = pieces
        /\ \A i \in 1 .. Len(delivered) : delivered'[i] = delivered[i]
    BY <1>2, <1>6
  <2>2. ASSUME NEW i \in DOMAIN delivered'
        PROVE  Reassembled(delivered'[i], i, queued[i])
    <3>1. CASE i = msg
      BY <1>6, <2>1, <3>1
    <3>2. CASE i # msg
      <4>1. i \in 1 .. Len(delivered)
        BY <1>2, <2>1, <3>2
      <4> QED
        BY <2>1, <4>1 DEF InOrder, InOrderDelivery
    <3> QED
      BY <3>1, <3>2
  <2> QED
    BY <1>3, <2>1, <2>2 DEF InOrderDelivery
<1>7. CASE p.kind = "Packet"
  <2>1. p.piece.from = 0 /\ p.piece.to = queued[msg]
    BY <1>1, <1>7 DEF PacketCut
  <2>2. fragment_total_bytes = 0
    BY <1>1, <2>1
  <2>3. delivered' = Append(delivered, <<p.piece>>)
        /\ fragment_total_bytes' = fragment_total_bytes
    BY <1>7 DEF HandleBody, assembly, p
  <2>4. Reassembled(<<p.piece>>, msg, queued[msg])
    BY <1>1, <2>1 DEF Reassembled
  <2>5. InOrderDelivery' /\ Len(delivered') = msg
    BY <1>6, <2>3, <2>4
  <2>6. BufferInOrder'
    BY <1>1, <1>2, <2>1, <2>2, <2>3, <2>5 DEF BufferInOrder, Completes
  <2> QED
    BY <1>5, <2>3, <2>5, <2>6 DEF InOrder
<1>8. CASE p.kind # "Packet" /\ fragment_total_bytes = 0
  <2>1. /\ fragment_total_bytes' = p.total
        /\ fragment_current_bytes' = Size(p.piece)
        /\ fragment_packet' = <<p.piece>> /\ delivered' = delivered
    BY <1>8 DEF HandleBody, p
  <2>2. p.piece.from = 0 /\ p.piece.to < queued[msg] /\ p.total = queued[msg]
    BY <1>1, <1>8 DEF PacketCut, PacketType
  <2>3. Size(p.piece) = p.piece.to
    BY <1>4, <2>2 DEF Size
  <2>4. Reassembled(<<p.piece>>, msg, p.piece.to)
    BY <1>1, <2>2 DEF Reassembled
  <2>5. BufferInOrder'
    <3>1. p.total # 0
      BY <1>3, <1>4, <2>2
    <3>2. Reassembled(fragment_packet', msg, fragment_current_bytes')
      BY <2>1, <2>3, <2>4
    <3>3. Reassembled(fragment_packet, Len(delivered) + 1,
                      fragment_current_bytes)'
      BY <2>1, <3>2 DEF Reassembled
    <3> QED
      BY <1>1, <1>2, <2>1, <2>2, <2>3, <3>1, <3>3 DEF BufferInOrder
  <2>6. InOrderDelivery'
    BY <2>1 DEF InOrder, InOrderDelivery, Reassembled
  <2> QED
    BY <1>5, <2>1, <2>5, <2>6 DEF InOrder
<1>9. CASE p.kind # "Packet" /\ fragment_total_bytes # 0
  <2> DEFINE buffer == Append(fragment_packet, p.piece)
             bytes  == fragment_current_bytes + Size(p.piece)
  <2>1. p.piece.from = fragment_current_bytes /\ bytes = p.piece.to
    BY <1>1, <1>2, <1>4, <1>9 DEF Size
  <2>2. /\ fragment_total_bytes = queued[msg]
        /\ Reassembled(fragment_packet, msg, fragment_current_bytes)
    BY <1>9 DEF InOrder, BufferInOrder
  <2>3. Reassembled(buffer, msg, p.piece.to)
    BY <1>1, <1>2, <1>4, <2>1, <2>2, ReassembledAppend
  <2>4. CASE bytes >= fragment_total_bytes
    <3>1. delivered' = Append(delivered, buffer) /\ fragment_total_bytes' = 0
      BY <1>9, <2>4 DEF HandleBody, p
    <3>2. p.piece.to = queued[msg]
      BY <1>3, <1>4, <2>1, <2>2, <2>4
    <3> HIDE DEF buffer
    <3>3. InOrderDelivery' /\ Len(delivered') = msg
      BY <1>6, <2>3, <3>1, <3>2
    <3>4. BufferInOrder'
      BY <1>1, <1>2, <3>1, <3>2, <3>3 DEF BufferInOrder, Completes
    <3> QED
      BY <1>5, <3>1, <3>3, <3>4 DEF InOrder
  <2>5. CASE ~(bytes >= fragment_total_bytes)
    <3>1. /\ fragment_current_bytes' = bytes /\ fragment_packet' = buffer
          /\ UNCHANGED <<fragment_total_bytes, delivered>>
      BY <1>9, <2>5 DEF HandleBody, p
    <3> HIDE DEF buffer, bytes
    <3>2. Reassembled(fragment_packet', msg, fragment_current_bytes')
      BY <2>1, <2>3, <3>1
    <3>3. Reassembled(fragment_packet, Len(delivered) + 1,
                      fragment_current_bytes)'
      BY <3>1, <3>2 DEF Reassembled
    <3>4. fragment_current_bytes' < fragment_total_bytes'
      BY <1>2, <1>4, <2>1, <2>5, <3>1
    <3>5. BufferInOrder'
      BY <1>1, <1>2, <1>9, <2>1, <2>2, <3>1, <3>3, <3>4 DEF BufferInOrder
    <3>6. InOrderDelivery'
      BY <3>1 DEF InOrder, InOrderDelivery, Reassembled
    <3> QED
      BY <1>5, <3>1, <3>5, <3>6 DEF InOrder
  <2> QED
    BY <2>4, <2>5
<1> QED
  BY <1>7, <1>8, <1>9

\* Queueing puts one whole message at the end of the log.
LEMMA QueueInOrder ==
    ASSUME Inductive, InOrder, QueuePacket
    PROVE  InOrder'
<1> USE DEF Inductive
<1>1. PICK len \in Lengths :
        /\ queued' = Append(queued, len)
        /\ log' = log \o PacketsOf(Len(queued) + 1, len, Len(log))
  BY DEF QueuePacket
<1> DEFINE msg == Len(queued) + 1
           new == PacketsOf(msg, len, Len(log))
           L == Len(log)
           k == Len(new)
<1>2. /\ L \in Nat /\ msg \in Nat /\ len \in Nat /\ queued \in Seq(Nat)
      /\ log \in Seq(PacketType)
  BY CapAssumption DEF TypeOK
<1>3. new \in Seq(PacketType) /\ k \in Nat \ {0}
  BY <1>2, PacketsOfType
<1>4. /\ \A i \in 1 .. k :
           /\ new[i].piece.msg = msg /\ new[i].piece.to <= len
           /\ new[i].kind = "Packet" =>
                new[i].piece.from = 0 /\ new[i].piece.to = len
           /\ new[i].kind = "Fragment" /\ new[i].piece.from = 0 =>
                new[i].piece.to < len /\ new[i].total = len
      /\ new[1].piece.from = 0
      /\ new[k].piece.to = len
      /\ \A i \in 2 .. k : /\ new[i - 1].piece.to < len
                           /\ new[i].piece.from = new[i - 1].piece.to
  <2>1. Sliced(new, msg, len)
    BY <1>2, PacketsOfSliced
  <2> HIDE DEF new, msg
  <2> QED
    BY <2>1 DEF Sliced
<1>5. log' = log \o new
  BY <1>1
<1> HIDE DEF new
<1>6. /\ Len(log') = L + k /\ log' # <<>> /\ DOMAIN log' = 1 .. L + k
      /\ \A i \in 1 .. L : log'[i] = log[i]
      /\ \A i \in 1 .. k : log'[L + i] = new[i]
  BY <1>2, <1>3, <1>5
<1>7. /\ queued'[msg] = len /\ Len(queued') = msg /\ DOMAIN queued' = 1 .. msg
      /\ \A i \in DOMAIN queued : i \in 1 .. msg /\ queued'[i] = queued[i]
      /\ DOMAIN queued = 1 .. msg - 1
  BY <1>1, <1>2
<1>8. /\ UNCHANGED <<inbound, assembly, delivered>>
  BY DEF QueuePacket
<1> DEFINE Cut(p) == /\ p.piece.msg \in DOMAIN queued'
                     /\ p.piece.to <= queued'[p.piece.msg]
                     /\ p.kind = "Packet" =>
                          /\ p.piece.from = 0
                          /\ p.piece.to = queued'[p.piece.msg]
                     /\ p.kind = "Fragment" /\ p.piece.from = 0 =>
                          /\ p.piece.to < queued'[p.piece.msg]
                          /\ p.total = queued'[p.piece.msg]
           After(q, r) == IF q.to < queued'[q.msg]
                          THEN r.msg = q.msg /\ r.from = q.to
                          ELSE r.msg = q.msg + 1 /\ r.from = 0
<1>9. LogInOrder'
  <2>1. ASSUME NEW i \in DOMAIN log' PROVE Cut(log'[i])
    <3>1. CASE i \in 1 .. L
      <4>1. i \in DOMAIN log /\ log'[i] = log[i]
        BY <1>2, <1>6, <3>1
      <4>2. PacketCut(log[i])
        BY <4>1 DEF InOrder, LogInOrder
      <4>3. log[i].piece.msg \in DOMAIN queued
        BY <4>2 DEF PacketCut
      <4>4. queued'[log[i].piece.msg] = queued[log[i].piece.msg]
            /\ log[i].piece.msg \in DOMAIN queued'
        BY <1>7, <4>3
      <4> QED
        BY <4>1, <4>2, <4>4 DEF PacketCut
    <3>2. CASE i \notin 1 .. L
      <4>1. i - L \in 1 .. k /\ L + (i - L) = i
        BY <1>2, <1>3, <1>6, <3>2
      <4>2. log'[i] = new[i - L]
        BY <1>6, <4>1
      <4>3. msg \in DOMAIN queued'
        BY <1>2, <1>7
      <4> HIDE DEF msg
      <4> QED
        BY <1>4, <1>7, <4>1, <4>2, <4>3
    <3> QED
      BY <3>1, <3>2
  <2>2. log'[1].piece.msg = 1 /\ log'[1].piece.from = 0
    <3>1. CASE L = 0
      <4>1. log'[1] = new[1] /\ msg = 1
        BY <1>2, <1>3, <1>6, <3>1 DEF InOrder, LogInOrder
      <4> QED
        BY <1>3, <1>4, <4>1
    <3>2. CASE L # 0
      BY <1>2, <1>6, <3>2 DEF InOrder, LogInOrder
    <3> QED
      BY <3>1, <3>2
  <2>3. ASSUME NEW i \in 2 .. L + k
        PROVE  After(log'[i - 1].piece, log'[i].piece)
    <3>1. CASE i \in 2 .. L
      <4>1. log'[i] = log[i] /\ log'[i - 1] = log[i - 1]
            /\ i - 1 \in DOMAIN log
        BY <1>2, <1>6, <3>1
      <4>2. Follows(log[i - 1].piece, log[i].piece) /\ PacketCut(log[i - 1])
        BY <3>1, <4>1 DEF InOrder, LogInOrder
      <4>3. log[i - 1].piece.msg \in DOMAIN queued
        BY <4>2 DEF PacketCut
      <4>4. queued'[log[i - 1].piece.msg] = queued[log[i - 1].piece.msg]
        BY <1>7, <4>3
      <4> QED
        BY <4>1, <4>2, <4>4 DEF Follows
    <3>2. CASE i = L + 1
      <4>1. log'[i] = new[1] /\ log'[i - 1] = log[L] /\ L # 0
            /\ L \in DOMAIN log
        BY <1>2, <1>3, <1>6, <3>2
      <4>2. Completes(log[L], Len(queued)) /\ PacketCut(log[L])
            /\ log[L] \in PacketType
        BY <1>2, <4>1 DEF InOrder, LogInOrder
      <4>3. /\ log[L].piece.msg = Len(queued)
            /\ log[L].piece.to = queued[Len(queued)]
            /\ log[L].piece.to \in Nat /\ Len(queued) \in DOMAIN queued
        BY <4>2 DEF Completes, PacketCut, PacketType, PieceType
      <4>4. new[1].piece.msg = Len(queued) + 1 /\ new[1].piece.from = 0
        BY <1>3, <1>4
      <4>5. queued'[Len(queued)] = queued[Len(queued)]
        BY <1>7, <4>3
      <4> QED
        BY <4>1, <4>3, <4>4, <4>5
    <3>3. CASE i > L + 1
      <4> DEFINE j == i - L
      <4>1. j \in 2 .. k /\ j - 1 \in 1 .. k /\ L + j = i
            /\ L + (j - 1) = i - 1 /\ j \in 1 .. k
        BY <1>2, <1>3, <3>3
      <4>2. log'[i] = new[j] /\ log'[i - 1] = new[j - 1]
        BY <1>6, <4>1
      <4> HIDE DEF j, msg
      <4> QED
        BY <1>4, <1>7, <4>1, <4>2
    <3> QED
      BY <1>2, <3>1, <3>2, <3>3
  <2>4. log'[L + k].piece.msg = msg /\ log'[L + k].piece.to = queued'[msg]
    <3>1. log'[L + k] = new[k] /\ k \in 1 .. k
      BY <1>3, <1>6
    <3> QED
      BY <1>4, <1>7, <3>1
  <2>5. Completes(log[Len(log)], Len(queued))'
    BY <1>6, <1>7, <2>4 DEF Completes
  <2>6. \A i \in DOMAIN log' : PacketCut(log[i])'
    BY <2>1 DEF PacketCut
  <2>7. \A i \in 2 .. Len(log') : Follows(log[i - 1].piece, log[i].piece)'
    BY <1>6, <2>3 DEF Follows
  <2> QED
    BY <1>6, <2>2, <2>5, <2>6, <2>7 DEF LogInOrder
<1>10. BufferInOrder'
  <2>1. accepted \in Nat /\ accepted <= L
    BY DEF TypeOK, Numbered
  <2>2. CASE accepted = 0
    BY <1>8, <2>1, <2>2 DEF InOrder, BufferInOrder, inbound, assembly
  <2>3. CASE accepted # 0
    <3>1. accepted \in DOMAIN log /\ log'[accepted] = log[accepted]
      BY <1>2, <1>6, <2>1, <2>3
    <3>2. PacketCut(log[accepted])
      BY <3>1 DEF InOrder, LogInOrder
    <3>3. log[accepted].piece.msg \in DOMAIN queued
      BY <3>2 DEF PacketCut
    <3>4. CASE fragment_total_bytes = 0
      BY <1>7, <1>8, <2>3, <3>1, <3>3, <3>4
      DEF InOrder, BufferInOrder, Completes, inbound, assembly
    <3>5. CASE fragment_total_bytes # 0
      BY <1>7, <1>8, <2>3, <3>1, <3>3, <3>5
      DEF InOrder, BufferInOrder, Reassembled, inbound, assembly
    <3> QED
      BY <3>4, <3>5
  <2> QED
    BY <2>2, <2>3
<1>11. InOrderDelivery'
  <2>1. Len(delivered) <= Len(queued) /\ Len(delivered) \in Nat
        /\ DOMAIN delivered = 1 .. Len(delivered)
    BY DEF InOrder, InOrderDelivery, TypeOK
  <2>2. \A i \in DOMAIN delivered : queued'[i] = queued[i]
    BY <1>2, <1>7, <2>1
  <2> QED
    BY <1>2, <1>7, <1>8, <2>1, <2>2 DEF InOrder, InOrderDelivery, Reassembled
<1> QED
  BY <1>9, <1>10, <1>11 DEF InOrder

\* No other step queues a message or numbers a packet.
LEMMA OnlyQueueLogs ==
    ASSUME [Next]_vars, ~QueuePacket
    PROVE  UNCHANGED <<queued, log>>
<1>1. CASE \E a \in acks : Ack(a) \/ OutOfOrderAck(a)
  BY <1>1 DEF Ack, OutOfOrderAck
<1>2. CASE \E p \in packets : ReceivePacket(p)
  BY <1>2 DEF ReceivePacket, sender
<1>3. CASE ProcessResend \/ SenderClose \/ StartProcessQueue
  BY <1>3 DEF ProcessResend, SenderClose, StartProcessQueue, sender
<1>4. CASE ProcessQueue \/ ReceiverClose \/ Drop \/ Lose
  BY <1>4 DEF ProcessQueue, ReceiverClose, Drop, Lose, sender
<1>5. CASE UNCHANGED vars
  BY <1>5 DEF vars, sender
<1> QED
  BY <1>1, <1>2, <1>3, <1>4, <1>5 DEF Next

\* Any step either queues, or counts the next packet, or is neither seen in
\* the log nor by the receiver's application.
LEMMA NextInOrder ==
    ASSUME Inductive, InOrder, [Next]_vars
    PROVE  InOrder'
<1>1. CASE QueuePacket
  BY <1>1, QueueInOrder
<1>2. CASE ~QueuePacket
  <2>1. UNCHANGED <<queued, log>>
    BY <1>2, OnlyQueueLogs
  <2>2. CASE UNCHANGED <<accepted, assembly, delivered>>
    BY <2>1, <2>2 DEF InOrder, LogInOrder, BufferInOrder, InOrderDelivery,
       PacketCut, Follows, Completes, Reassembled, assembly
  <2>3. CASE /\ accepted < Len(log) /\ accepted' = accepted + 1
             /\ HandleBody(log[accepted + 1])
    BY <2>1, <2>3, CountInOrder DEF Inductive
  <2> QED
    BY <2>2, <2>3, StepCounts
<1> QED
  BY <1>1, <1>2

\* So do both invariants, always.
LEMMA SpecInOrder == Spec => [](Inductive /\ InOrder)
<1>1. Init => InOrder
  BY DEF Init, InOrder, LogInOrder, BufferInOrder, InOrderDelivery
<1> QED
  BY <1>1, InitInductive, NextInductive, NextInOrder, PTL DEF Spec

\* HandleBody gives the packet callback the messages of QueuePacket in the
\* order queued, each once and with exactly its own bytes, whatever the network
\* loses, repeats or reorders and wherever the residues wrap.
THEOREM DeliveredInOrder == Spec => []InOrderDelivery
<1>1. InOrder => InOrderDelivery
  BY DEF InOrder
<1> QED
  BY <1>1, SpecInOrder, PTL

-------------------------------------------------------------------------------
(* A stream is a FIFO of whole messages. *)

\* What one reassembled message looks like to the application.
LEMMA WholeMessage ==
    ASSUME NEW pieces \in Seq(PieceType), NEW msg, NEW len,
           Reassembled(pieces, msg, len)
    PROVE  Whole(pieces) = [msg |-> msg, bytes |-> len]
BY DEF Reassembled, Whole

\* Every step maps to a step of the FIFO or a stutter.
LEMMA StepIsFifo ==
    ASSUME Inductive, InOrder, Inductive', InOrder', [Next]_vars
    PROVE  [Fifo!Next]_<<[i \in DOMAIN queued |->
                            [msg |-> i, bytes |-> queued[i]]],
                         [i \in DOMAIN delivered |-> Whole(delivered[i])]>>
<1> DEFINE Q == [i \in DOMAIN queued |-> [msg |-> i, bytes |-> queued[i]]]
           D == [i \in DOMAIN delivered |-> Whole(delivered[i])]
           QNext == [i \in DOMAIN queued' |-> [msg |-> i, bytes |-> queued'[i]]]
           DNext == [i \in DOMAIN delivered' |-> Whole(delivered'[i])]
<1>1. queued \in Seq(Nat) /\ delivered \in Seq(Seq(PieceType))
      /\ delivered' \in Seq(Seq(PieceType))
  BY DEF Inductive, TypeOK
<1>2. Len(Q) = Len(queued) /\ Len(D) = Len(delivered)
      /\ \A i \in 1 .. Len(queued) : Q[i] = [msg |-> i, bytes |-> queued[i]]
  BY <1>1
<1>3. CASE QueuePacket
  <2>1. PICK len \in Lengths : queued' = Append(queued, len)
    BY <1>3 DEF QueuePacket
  <2>2. Len(queued) + 1 \in 1 .. MaxMessages /\ delivered' = delivered
    BY <1>1, <1>3, CapAssumption DEF QueuePacket
  <2> DEFINE m == [msg |-> Len(queued) + 1, bytes |-> len]
  <2>3. m \in [msg : 1 .. MaxMessages, bytes : Lengths]
    BY <2>2
  <2>4. QNext = Append(Q, m)
    <3>0. len \in Nat
      BY CapAssumption
    <3>1. DOMAIN queued' = 1 .. Len(queued) + 1
          /\ queued'[Len(queued) + 1] = len
          /\ \A i \in 1 .. Len(queued) : queued'[i] = queued[i]
      BY <1>1, <2>1, <3>0
    <3>2. /\ QNext \in [1 .. Len(queued) + 1 -> [msg : Nat, bytes : Nat]]
          /\ Q \in [1 .. Len(queued) -> [msg : Nat, bytes : Nat]]
      <4>1. \A i \in 1 .. Len(queued) : queued[i] \in Nat /\ i \in Nat
        BY <1>1
      <4>2. \A i \in 1 .. Len(queued) + 1 : queued'[i] \in Nat /\ i \in Nat
        BY <1>1, <2>1, <3>0, <3>1
      <4>3. DOMAIN queued = 1 .. Len(queued)
        BY <1>1
      <4> QED
        BY <3>1, <4>1, <4>2, <4>3
    <3>5. QNext \in Seq([msg : Nat, bytes : Nat]) /\ Q \in Seq([msg : Nat, bytes : Nat])
      BY <1>1, <3>2
    <3>3. Len(QNext) = Len(queued) + 1 /\ Len(Append(Q, m)) = Len(queued) + 1
          /\ \A i \in 1 .. Len(queued) + 1 : QNext[i] = Append(Q, m)[i]
      BY <1>1, <1>2, <3>0, <3>1
    <3>4. m \in [msg : Nat, bytes : Nat]
      BY <1>1, <3>0
    <3> HIDE DEF QNext, Q, m
    <3> QED
      BY <3>5, <3>3, <3>4
  <2>5. DNext = D
    BY <2>2
  <2> QED
    BY <2>3, <2>4, <2>5 DEF Fifo!Next, Fifo!Queue
<1>4. CASE ~QueuePacket
  <2>1. queued' = queued
    BY <1>4, OnlyQueueLogs
  <2>2. CASE delivered' = delivered
    BY <2>1, <2>2
  <2>3. CASE \E pieces : delivered' = Append(delivered, pieces)
    <3>1. PICK pieces : delivered' = Append(delivered, pieces)
      BY <2>3
    <3> DEFINE msg == Len(delivered) + 1
               m == [msg |-> msg, bytes |-> queued[msg]]
    <3>2. /\ msg \in Nat /\ Len(delivered') = msg /\ DOMAIN delivered' = 1 .. msg
          /\ delivered'[msg] = pieces
          /\ \A i \in 1 .. Len(delivered) : delivered'[i] = delivered[i]
      BY <1>1, <3>1
    <3>3. pieces \in Seq(PieceType)
      BY <1>1, <3>2
    <3>4. msg <= Len(queued) /\ Reassembled(pieces, msg, queued[msg])
      BY <2>1, <3>2 DEF InOrder, InOrderDelivery, Reassembled
    <3>5. Whole(pieces) = m
      BY <3>3, <3>4, WholeMessage
    <3>6. DNext = Append(D, m)
      <4>1. /\ Len(DNext) = Len(delivered) + 1
            /\ DNext = [i \in 1 .. Len(delivered) + 1 |-> Whole(delivered'[i])]
        BY <3>2
      <4>2. /\ Append(D, m) = [i \in 1 .. Len(delivered) + 1 |->
                  IF i = Len(delivered) + 1 THEN m ELSE Whole(delivered[i])]
        BY <1>1, <1>2
      <4> HIDE DEF m, DNext
      <4> QED
        BY <3>2, <3>5, <4>1, <4>2
    <3>7. Q[Len(D) + 1] = m /\ Len(D) < Len(Q)
      BY <1>1, <1>2, <3>2, <3>4
    <3>8. QNext = Q
      BY <2>1
    <3> HIDE DEF Q, D, QNext, DNext, m
    <3>9. DNext = Append(D, Q[Len(D) + 1]) /\ Len(D) < Len(Q) /\ QNext = Q
      BY <3>6, <3>7, <3>8
    <3> QED
      BY <3>9 DEF Fifo!Next, Fifo!Deliver, Q, D, QNext, DNext
  <2>4. CASE UNCHANGED <<accepted, assembly, delivered>>
    BY <2>2, <2>4
  <2>5. CASE /\ accepted < Len(log) /\ accepted' = accepted + 1
             /\ HandleBody(log[accepted + 1]) /\ UNCHANGED <<queued, log>>
    BY <2>2, <2>3, <2>5, CountInOrder DEF Inductive
  <2> QED
    BY <2>4, <2>5, StepCounts
<1> QED
  BY <1>3, <1>4

\* A stream implements the FIFO of whole messages that its users program
\* against: QueuePacket is the FIFO's Queue, the step that completes a message
\* in HandleBody its Deliver, and every other step invisible.
THEOREM StreamIsFifo == Spec => ImplementsFifo
<1>1. Init => Fifo!Init
  BY DEF Init, Fifo!Init
<1> QED
  BY <1>1, StepIsFifo, SpecInOrder, PTL DEF Spec, ImplementsFifo, Fifo!Spec
===============================================================================
