---------------------------- MODULE SocketStream ----------------------------
(***************************************************************************)
(* One direction of a connection between the hub and a node, byte by byte. *)
(*                                                                         *)
(* Either the hub sends (Generics/Socket with NodeSocket or ControlSocket) *)
(* and the node receives (PoolSocket), or the other way round; `hub' says  *)
(* which.  The two classes share the layout: SendPacket copies a packet    *)
(* into one output buffer, or into ACE's message queue when the buffer has *)
(* no room; handle_output, called by the reactor, empties the buffer and   *)
(* then the queue into the TCP stream; handle_input cuts the stream into   *)
(* packets again.  They differ in who wakes the reactor: the hub's         *)
(* SendPacket registers WRITE_MASK at once, under the lock; the node's     *)
(* does not, and its network thread polls the socket (Update) unless       *)
(* m_OutActive says that WRITE_MASK is registered.                         *)
(*                                                                         *)
(* A byte is <<packet, offset>>; the first HeaderLen bytes of a packet are *)
(* its header.  The headers travel as they are: AuthCrypt is initialised   *)
(* by ClientSocket only.                                                   *)
(***************************************************************************)
EXTENDS Naturals, Sequences, SequencesExt, FiniteSets

CONSTANTS
    Packet,     \* the packets; each is sent at most once
    Size,       \* bytes of a packet, header included
    MaxSize,    \* bytes of the largest packet
    Class,      \* "multi" for the opcodes with multipass = true, else "single"
    HeaderLen,  \* sizeof(Flexi::ClientPktHeader)
    OutCap,     \* _outBufferSize
    HighWater,  \* msg_queue()->high_water_mark()
    WireCap     \* bytes the kernels of both ends and the network hold

Classes == {"single", "multi"}

ASSUME SizeAssumption ==
    /\ HeaderLen \in Nat \ {0}
    /\ MaxSize \in Nat /\ Size \in [Packet -> HeaderLen .. MaxSize]
    /\ Class \in [Packet -> Classes]

ASSUME CapacityAssumption == {OutCap, HighWater, WireCap} \subseteq Nat \ {0}

VARIABLES
    hub,        \* the hub is the sender
    \* sender
    out,        \* _outBuffer
    queue,      \* msg_queue(), a sequence of blocks
    active,     \* m_OutActive (node only)
    reg,        \* the reactor call the node's thread makes after it released the lock
    again,      \* handle_output returned WRITE_MASK: the reactor calls it once more
    wakeup,     \* WRITE_MASK is registered with the reactor
    sClosing,   \* IsClosing() of the sender
    \* TCP stream
    wire,
    \* receiver
    got,        \* _header and _recvPct: the bytes of the packet that is being read
    rq,         \* _singlePacketQueue and _multiPacketQueue, or _recvPoolQueue
    rClosing,   \* IsClosing() of the receiver
    handled,    \* packets the session has taken, per class
    \* history
    sent,       \* packets SendPacket was called for
    dropped,    \* blocks that enqueue_head did not take back
    garbled     \* the receiver read something that is not a packet

sendVars == <<out, queue, active, reg, again, wakeup, sClosing, sent, dropped>>
recvVars == <<got, rq, rClosing, handled, garbled>>
vars == <<hub, sendVars, wire, recvVars>>

-----------------------------------------------------------------------------
Bytes(p) == [i \in 1 .. Size[p] |-> <<p, i>>]

\* Where the receiver files a packet; the node has one queue for all of them.
ClassOf(p) == IF hub THEN "single" ELSE Class[p]

\* The bytes of the first 0, 1, ... blocks of q.
Lengths(q) ==
    LET sum[n \in 0 .. Len(q)] == IF n = 0 THEN 0 ELSE sum[n - 1] + Len(q[n])
    IN  sum

QueueBytes(q) == Lengths(q)[Len(q)]

\* Mutant of Full: the queue has no high water mark.
FullNever(q) == FALSE

\* ACE_Message_Queue::is_full_i: enqueuing fails at once with a zero timeout.
Full(q) == QueueBytes(q) >= HighWater

\* Mutant of FitsBuffer: a packet may overtake the ones in the queue.
FitsBufferAlone(p) == OutCap - Len(out) >= Size[p]

\* The packet goes to the buffer when it fits and nothing is queued before it.
FitsBuffer(p) == OutCap - Len(out) >= Size[p] /\ queue = <<>>

Free == WireCap - Len(wire)

Least(a, b) == IF a < b THEN a ELSE b

Pending == out # <<>> \/ queue # <<>>

-----------------------------------------------------------------------------
\* Mutant of Schedule: the hub leaves the registration as it is.
ScheduleNodeOnly ==
    /\ wakeup' = wakeup
    /\ active' = ~hub
    /\ reg' = IF hub \/ active THEN reg ELSE "schedule"

\* schedule_wakeup_output.  The node remembers it in m_OutActive and calls the
\* reactor after it has released the lock.
Schedule ==
    /\ wakeup' = (hub \/ wakeup)
    /\ active' = ~hub
    /\ reg' = IF hub \/ active THEN reg ELSE "schedule"

\* cancel_wakeup_output.
Cancel ==
    /\ wakeup' = (wakeup /\ ~hub)
    /\ active' = FALSE
    /\ reg' = IF hub \/ ~active THEN reg ELSE "cancel"

\* The reactor call of the two, at the node.
ReactorCall ==
    /\ reg # "none"
    /\ wakeup' = (reg = "schedule")
    /\ reg' = "none"
    /\ UNCHANGED <<hub, out, queue, active, again, sClosing, sent, dropped, wire, recvVars>>

\* handle_close, CloseSocket: nothing the socket still holds is ever sent.
CloseSender ==
    /\ sClosing' = TRUE
    /\ out' = <<>>
    /\ queue' = <<>>
    /\ again' = FALSE
    /\ wakeup' = FALSE
    /\ reg' = "none"
    /\ active' = FALSE

\* SendPacket and _sendPacket, under _outBufferLock.  A caller that gets -1
\* closes the socket.
SendPacket(p) ==
    /\ ~sClosing
    /\ p \notin sent
    /\ sent' = sent \cup {p}
    /\ \/ /\ FitsBuffer(p)
          /\ out' = out \o Bytes(p)
          /\ UNCHANGED queue
          /\ IF hub THEN Schedule ELSE UNCHANGED <<wakeup, active, reg>>
          /\ UNCHANGED <<again, sClosing>>
       \/ /\ ~FitsBuffer(p) /\ ~Full(queue)
          /\ queue' = Append(queue, Bytes(p))
          /\ UNCHANGED out
          /\ IF hub THEN Schedule ELSE UNCHANGED <<wakeup, active, reg>>
          /\ UNCHANGED <<again, sClosing>>
       \/ /\ ~FitsBuffer(p) /\ Full(queue)
          /\ CloseSender
    /\ UNCHANGED <<hub, dropped, wire, recvVars>>

-----------------------------------------------------------------------------
\* Mutant of Rest: the block is put back whole.
RestWhole(b, n) == b

\* mblk->rd_ptr(n), _outBuffer->rd_ptr(n) with crunch().
Rest(b, n) == SubSeq(b, n + 1, Len(b))

\* handle_output_queue, with `w' on the wire already.  send() takes what the
\* kernel has room for; 0 bytes are EWOULDBLOCK.
HandleOutputQueue(w) ==
    \/ /\ queue = <<>>
       /\ Cancel
       /\ wire' = w
       /\ again' = FALSE
       /\ UNCHANGED <<queue, sClosing, dropped>>
       /\ out' = <<>>
    \/ /\ queue # <<>>
       /\ LET b == Head(queue)
              n == Least(Len(b), WireCap - Len(w))
          IN \/ /\ n = Len(b)                              \* sent
                /\ wire' = w \o b
                /\ queue' = Tail(queue)
                /\ IF Tail(queue) = <<>>
                     THEN Cancel /\ again' = FALSE
                     ELSE again' = TRUE /\ UNCHANGED <<wakeup, active, reg>>
                /\ UNCHANGED <<sClosing, dropped>>
                /\ out' = <<>>
             \/ /\ n = 0                                   \* enqueue_head, unchecked
                /\ wire' = w
                /\ queue' = IF Full(Tail(queue)) THEN Tail(queue) ELSE queue
                /\ dropped' = IF Full(Tail(queue)) THEN dropped \cup {b[1][1]} ELSE dropped
                /\ Schedule
                /\ again' = FALSE
                /\ UNCHANGED sClosing
                /\ out' = <<>>
             \/ /\ n \in 1 .. Len(b) - 1                   \* enqueue_head, checked
                /\ wire' = w \o SubSeq(b, 1, n)
                /\ UNCHANGED dropped
                /\ \/ /\ ~Full(Tail(queue))
                      /\ queue' = <<Rest(b, n)>> \o Tail(queue)
                      /\ Schedule
                      /\ again' = FALSE
                      /\ UNCHANGED sClosing
                      /\ out' = <<>>
                   \/ /\ Full(Tail(queue))
                      /\ CloseSender

\* The hub's reactor calls handle_output when the stream is writable; the
\* node's network thread does so too, and polls the socket while m_OutActive is
\* not set.  Neither waits when the last call returned WRITE_MASK.
OutputDue ==
    /\ ~sClosing
    /\ reg = "none"
    /\ \/ wakeup /\ Free > 0
       \/ again
       \/ ~hub /\ ~active /\ Pending

\* handle_output, under _outBufferLock.
HandleOutput ==
    /\ OutputDue
    /\ LET n == Least(Len(out), Free)
       IN \/ /\ n = Len(out)
             /\ HandleOutputQueue(wire \o out)
          \/ /\ n < Len(out)
             /\ wire' = wire \o SubSeq(out, 1, n)
             /\ out' = Rest(out, n)
             /\ Schedule
             /\ again' = FALSE
             /\ UNCHANGED <<queue, sClosing, dropped>>
    /\ UNCHANGED <<hub, sent, recvVars>>

\* send() or recv() fails, or the other end has closed: handle_close.
SenderFails ==
    /\ ~sClosing
    /\ CloseSender
    /\ UNCHANGED <<hub, sent, dropped, wire, recvVars>>

-----------------------------------------------------------------------------
\* The header's size field counts, with what was read so far, a whole packet.
Complete(g) == Len(g) >= HeaderLen /\ Len(g) = Size[g[HeaderLen][1]]

\* handle_input_missing_data for one byte: the header first, then the payload
\* that the header announces, then handle_input_payload with _processIncoming,
\* which files the packet.
TakeByte(r, b) ==
    LET g == Append(r.got, b)
        p == b[1]
    IN IF Complete(g)
         THEN [got |-> <<>>, rq |-> [r.rq EXCEPT ![ClassOf(p)] = Append(@, p)],
               ok |-> r.ok /\ g = Bytes(p)]
         ELSE [got |-> g, rq |-> r.rq, ok |-> r.ok]

\* The receiver when it has taken 0, 1, ... bytes of s.
Read(r, s) ==
    LET after[n \in 0 .. Len(s)] == IF n = 0 THEN r ELSE TakeByte(after[n - 1], s[n])
    IN  after

\* handle_input: recv() returns any part of what has arrived.
HandleInput ==
    /\ ~rClosing
    /\ \E n \in 1 .. Len(wire) :
         LET r == Read([got |-> got, rq |-> rq, ok |-> TRUE], wire)[n]
         IN /\ wire' = SubSeq(wire, n + 1, Len(wire))
            /\ got' = r.got
            /\ garbled' = (garbled \/ ~r.ok)
            /\ rq' = r.rq
    /\ UNCHANGED <<hub, sendVars, rClosing, handled>>

\* Mutant of GetNextPacket: nobody drains the second queue.
GetSinglePacketOnly(c) ==
    /\ ~rClosing
    /\ rq[c] # <<>>
    /\ c = "single"
    /\ rq' = [rq EXCEPT ![c] = Tail(@)]
    /\ handled' = [handled EXCEPT ![c] = Append(@, Head(rq[c]))]
    /\ UNCHANGED <<hub, sendVars, wire, got, rClosing, garbled>>

\* GetNextSinglePacket, GetNextMultiPacket; UpdateServerIO at the node.  A
\* closing socket gives nothing away any more.
GetNextPacket(c) ==
    /\ ~rClosing
    /\ rq[c] # <<>>
    /\ rq' = [rq EXCEPT ![c] = Tail(@)]
    /\ handled' = [handled EXCEPT ![c] = Append(@, Head(rq[c]))]
    /\ UNCHANGED <<hub, sendVars, wire, got, rClosing, garbled>>

\* recv() returns 0 or an error: handle_close.  What has arrived and was not
\* taken stays where it is until it is deleted.
ReceiverFails ==
    /\ ~rClosing
    /\ rClosing' = TRUE
    /\ UNCHANGED <<hub, sendVars, wire, got, rq, handled, garbled>>

\* open: both masks are registered; m_OutActive is set by the node's open.
Init ==
    /\ hub \in BOOLEAN
    /\ out = <<>>
    /\ queue = <<>>
    /\ active = ~hub
    /\ reg = "none"
    /\ again = FALSE
    /\ wakeup = TRUE
    /\ sClosing = FALSE
    /\ wire = <<>>
    /\ got = <<>>
    /\ rq = [c \in Classes |-> <<>>]
    /\ rClosing = FALSE
    /\ handled = [c \in Classes |-> <<>>]
    /\ sent = {}
    /\ dropped = {}
    /\ garbled = FALSE

Next ==
    \/ \E p \in Packet : SendPacket(p)
    \/ HandleOutput
    \/ ReactorCall
    \/ SenderFails
    \/ HandleInput
    \/ \E c \in Classes : GetNextPacket(c)
    \/ ReceiverFails

\* The network threads run their loops and the sessions are updated.
Fairness ==
    /\ WF_vars(HandleOutput)
    /\ WF_vars(ReactorCall)
    /\ WF_vars(HandleInput)
    /\ \A c \in Classes : WF_vars(GetNextPacket(c))

Spec == Init /\ [][Next]_vars /\ Fairness

-----------------------------------------------------------------------------
\* Types and capacities.  The buffer never overflows (the ACE_ASSERT after
\* _outBuffer->copy), and the queue passes its high water mark by less than one
\* packet, however SendPacket and the partial writes that put a block back
\* alternate.
TypeOK ==
    /\ {hub, active, again, wakeup, sClosing, rClosing, garbled} \subseteq BOOLEAN
    /\ reg \in {"none", "schedule", "cancel"}
    /\ Len(out) <= OutCap
    /\ QueueBytes(queue) < HighWater + MaxSize
    /\ Len(wire) <= WireCap
    /\ sent \subseteq Packet /\ dropped \subseteq sent
    /\ rq \in [Classes -> Seq(Packet)] /\ handled \in [Classes -> Seq(Packet)]

\* No lost wakeup: while a socket holds bytes, its reactor will call
\* handle_output.  At the hub WRITE_MASK is registered; at the node it is, or
\* the poll of Update is on, or the thread is on its way to the reactor -
\* whatever packets other threads add between the reset of m_OutActive, the
\* release of the lock and the call of the reactor.
NoLostWakeup ==
    Pending => \/ wakeup /\ reg # "cancel"
               \/ again
               \/ ~hub /\ (~active \/ reg = "schedule")

\* The stream stays in step: where the receiver looks for a header there is
\* one, and every packet it completes is one that was sent, byte for byte,
\* although buffers and blocks leave in pieces and arrive in others.
InStep ==
    /\ ~garbled
    /\ got # <<>> => got = SubSeq(Bytes(got[1][1]), 1, Len(got))

\* The bytes that are still to be received, in the order of the stream.
Stream == wire \o out \o FoldLeft(LAMBDA s, b : s \o b, <<>>, queue)

\* The packets whose last byte is among them.
Coming == LET ends == SelectSeq(Stream, LAMBDA b : b[2] = Size[b[1]])
          IN [i \in DOMAIN ends |-> ends[i][1]]

Channel == INSTANCE PacketChannel WITH
    chan <- [c \in Classes |-> rq[c] \o SelectSeq(Coming, LAMBDA p : ClassOf(p) = c)],
    sending <- ~sClosing,
    receiving <- ~rClosing

\* The sockets implement PacketChannel: packets of one class are handled in
\* the order of their SendPacket calls, none twice, and none is lost while the
\* connection lasts except past the high water mark.
ImplementsChannel == Channel!Spec

\* Every packet SendPacket accepted is handled, unless an end of the
\* connection closes or the packet is dropped past the high water mark.
Delivered ==
    \A p \in Packet :
        p \in sent ~> \/ p \in dropped \/ sClosing \/ rClosing
                      \/ \E c \in Classes : Contains(handled[c], p)
=============================================================================
