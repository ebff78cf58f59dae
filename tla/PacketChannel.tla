---------------------------- MODULE PacketChannel ----------------------------
(***************************************************************************)
(* What one direction of a connection between the hub and a node promises  *)
(* to the sessions above it.  Packets of one class (the queue that the     *)
(* receiving socket sorts an opcode into) are handled in the order they    *)
(* were sent, each at most once, and nothing is handled that was not sent. *)
(* A packet that SendPacket has accepted is lost only with the connection  *)
(* itself, or while the sender's backlog has reached the high water mark   *)
(* of its message queue.  Between two classes no order is promised.        *)
(***************************************************************************)
EXTENDS Naturals, Sequences, SequencesExt

CONSTANTS
    Packet,     \* the packets
    Size,       \* bytes of a packet on the wire, the header included
    Classes,    \* the queues of the receiving socket
    HighWater   \* high_water_mark of the message queue

VARIABLES
    chan,       \* per class, the packets accepted and not yet handled
    handled,    \* per class, the packets handled
    dropped,    \* packets lost while the connection went on
    sending,    \* the sending end is not closed
    receiving   \* the receiving end is not closed

chVars == <<chan, handled, dropped, sending, receiving>>

Init ==
    /\ chan = [c \in Classes |-> <<>>]
    /\ handled = [c \in Classes |-> <<>>]
    /\ dropped = {}
    /\ sending = TRUE
    /\ receiving = TRUE

Bytes(s) == FoldLeft(LAMBDA n, p : n + Size[p], 0, s)

Send(c, p) ==
    /\ sending
    /\ chan' = [chan EXCEPT ![c] = Append(@, p)]
    /\ UNCHANGED <<handled, dropped, sending, receiving>>

Handle(c) ==
    /\ receiving
    /\ chan[c] # <<>>
    /\ chan' = [chan EXCEPT ![c] = Tail(@)]
    /\ handled' = [handled EXCEPT ![c] = Append(@, Head(chan[c]))]
    /\ UNCHANGED <<dropped, sending, receiving>>

Drop(c, i) ==
    /\ sending
    /\ FoldLeft(LAMBDA n, d : n + Bytes(chan[d]), 0, SetToSeq(Classes)) >= HighWater
    /\ chan' = [chan EXCEPT ![c] = RemoveAt(@, i)]
    /\ dropped' = dropped \cup {chan[c][i]}
    /\ UNCHANGED <<handled, sending, receiving>>

\* One end closes; what it still held is gone, and only from the end of the line.
Cut ==
    /\ <<sending, receiving>>' # <<sending, receiving>>
    /\ sending' => sending
    /\ receiving' => receiving
    /\ \A c \in Classes : IsPrefix(chan'[c], chan[c])
    /\ DOMAIN chan' = Classes
    /\ UNCHANGED <<handled, dropped>>

Next ==
    \/ Cut
    \/ \E c \in Classes :
         \/ Handle(c)
         \/ \E p \in Packet : Send(c, p)
         \/ \E i \in 1 .. Len(chan[c]) : Drop(c, i)

Spec == Init /\ [][Next]_chVars
=============================================================================
