---------------------------- MODULE ReliableFifo ----------------------------
(***************************************************************************)
(* What a reliable stream promises to the application that uses it: the    *)
(* messages one end queues come out at the other end unchanged, in the     *)
(* order in which they were queued, each at most once.  Either end may     *)
(* stop the conversation, after which nothing is promised to come out.     *)
(***************************************************************************)
EXTENDS Sequences, Naturals

CONSTANT Message

VARIABLES queued,    \* the messages handed to QueuePacket, in order
          delivered  \* the messages handed to the packet callback, in order

Init == /\ queued = <<>>
        /\ delivered = <<>>

Queue == /\ \E m \in Message : queued' = Append(queued, m)
         /\ UNCHANGED delivered

Deliver == /\ Len(delivered) < Len(queued)
           /\ delivered' = Append(delivered, queued[Len(delivered) + 1])
           /\ UNCHANGED queued

Next == Queue \/ Deliver

Spec == Init /\ [][Next]_<<queued, delivered>>
==============================================================================
