---------------------------- MODULE MCStreamSession ----------------------------
(* In each behaviour, the session of an address and its clients, or one stream of a session
   that stays up, whose numbers wrap: messages of two fragments, a resend cap of one. *)
EXTENDS StreamSession

VARIABLES
    part,
    queued, delivered, log, sequence_out, sent_packets, send_status, packets, acks,
    sequence_in, accepted, packet_queue, fragment_total_bytes, fragment_current_bytes,
    fragment_packet, draining, recv_status

stream == <<queued, delivered, log, sequence_out, sent_packets, send_status, packets, acks,
            sequence_in, accepted, packet_queue, fragment_total_bytes, fragment_current_bytes,
            fragment_packet, draining, recv_status>>

Stream == INSTANCE ReliableStream WITH
    SeqMod <- 5, SeqWindow <- 2, FirstCap <- 1, RawCap <- 2, Lengths <- {3},
    ResendCap <- 1, MaxMessages <- 3, MayClose <- FALSE

\* At rest, neither part has anything that its fairness asks for.
MCInit == part \in {"session", "stream"} /\ Init /\ Stream!Init

MCNext ==
    /\ UNCHANGED part
    /\ \/ part = "session" /\ Next /\ UNCHANGED stream
       \/ part = "stream" /\ Stream!Next /\ UNCHANGED vars

MCSpec == MCInit /\ [][MCNext]_<<part, vars, stream>> /\ Fairness /\ Stream!Fairness

\* ReliableStream: what is queued is delivered, and then acknowledged, if the session stays up.
DeliveredAndAcknowledged == Stream!EventuallyDelivered /\ Stream!EventuallyAcknowledged
================================================================================
