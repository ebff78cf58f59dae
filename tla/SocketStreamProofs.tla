------------------------- MODULE SocketStreamProofs -------------------------
(***************************************************************************)
(* Proofs that no wakeup of a socket is lost, that no buffer overflows and *)
(* that the receiver stays in step with the stream, for every set of       *)
(* packets and every size of the buffer, the queue and the stream.         *)
(***************************************************************************)
EXTENDS SocketStream, DataLemmas, SequenceTheorems, TLAPS

-----------------------------------------------------------------------------
(* Wakeups.                                                                *)

(* The types of the flags that decide who calls handle_output.             *)
FlagTypes ==
    /\ hub \in BOOLEAN /\ active \in BOOLEAN /\ again \in BOOLEAN /\ wakeup \in BOOLEAN
    /\ reg \in {"none", "schedule", "cancel"}

(* Inductive strengthening of NoLostWakeup.  The hub has no m_OutActive    *)
(* and calls the reactor under the lock.  At the node m_OutActive runs     *)
(* ahead of the registration by the reactor call that is still to come:    *)
(* handle_output is not entered before that call, so that the call always  *)
(* brings the registration to what m_OutActive says.                       *)
WakeupInv ==
    /\ FlagTypes
    /\ hub => ~active /\ reg = "none" /\ (Pending => wakeup \/ again)
    /\ ~hub => /\ active /\ reg = "none" => wakeup
               /\ reg = "schedule" => active
               /\ reg = "cancel" => ~active

(* schedule_wakeup_output leaves the socket with a wakeup on its way.      *)
LEMMA ScheduleWakes ==
    ASSUME WakeupInv, Schedule, hub' = hub, again' \in BOOLEAN, hub \/ reg = "none"
    PROVE  WakeupInv'
BY DEF WakeupInv, FlagTypes, Schedule

(* cancel_wakeup_output is called with nothing left to send.               *)
LEMMA CancelWhenDone ==
    ASSUME WakeupInv, Cancel, hub' = hub, again' \in BOOLEAN, reg = "none", ~Pending'
    PROVE  WakeupInv'
BY DEF WakeupInv, FlagTypes, Cancel

(* A step that leaves the registration alone and either adds nothing or    *)
(* leaves the answer WRITE_MASK behind.                                    *)
LEMMA RegistrationKept ==
    ASSUME WakeupInv, UNCHANGED <<hub, wakeup, active, reg>>, again' \in BOOLEAN,
           hub => (again' \/ ~Pending' \/ (again' = again /\ Pending))
    PROVE  WakeupInv'
BY DEF WakeupInv, FlagTypes

(* A socket that closes holds nothing.                                     *)
LEMMA CloseKeeps ==
    ASSUME WakeupInv, CloseSender, hub' = hub
    PROVE  WakeupInv'
BY DEF WakeupInv, FlagTypes, CloseSender, Pending

(* WakeupInv holds throughout.                                             *)
LEMMA WakeupInduction == Spec => []WakeupInv
<1>1. Init => WakeupInv
  BY DEF Init, WakeupInv, FlagTypes, Pending
<1>2. WakeupInv /\ [Next]_vars => WakeupInv'
  <2> SUFFICES ASSUME WakeupInv, [Next]_vars PROVE WakeupInv'
    OBVIOUS
  <2> USE DEF sendVars, recvVars
  <2>0. again \in BOOLEAN  BY DEF WakeupInv, FlagTypes
  <2>1. ASSUME NEW p \in Packet, SendPacket(p) PROVE WakeupInv'
    <3>1. CASE CloseSender
      BY <2>1, <3>1, CloseKeeps DEF SendPacket
    <3>2. CASE hub /\ Schedule /\ UNCHANGED again
      BY <2>0, <2>1, <3>2, ScheduleWakes DEF SendPacket
    <3>3. CASE ~hub /\ UNCHANGED <<wakeup, active, reg, again>>
      BY <2>0, <2>1, <3>3, RegistrationKept DEF SendPacket
    <3> QED  BY <2>1, <3>1, <3>2, <3>3 DEF SendPacket
  <2>2. CASE HandleOutput
    <3>0. hub' = hub /\ reg = "none"
      BY <2>2 DEF HandleOutput, OutputDue
    <3>1. ASSUME NEW w, HandleOutputQueue(w) PROVE WakeupInv'
      <4>1. CASE Cancel /\ again' = FALSE /\ out' = <<>> /\ queue' = <<>>
        BY <3>0, <4>1, CancelWhenDone DEF Pending
      <4>2. CASE again' = TRUE /\ UNCHANGED <<wakeup, active, reg>>
        BY <3>0, <4>2, RegistrationKept
      <4>3. CASE Schedule /\ again' = FALSE
        BY <3>0, <4>3, ScheduleWakes
      <4>4. CASE CloseSender
        BY <3>0, <4>4, CloseKeeps
      <4> QED  BY <3>1, <4>1, <4>2, <4>3, <4>4 DEF HandleOutputQueue
    <3>2. CASE Schedule /\ again' = FALSE
      BY <3>0, <3>2, ScheduleWakes
    <3> QED  BY <2>2, <3>1, <3>2 DEF HandleOutput
  <2>3. CASE ReactorCall
    BY <2>3 DEF ReactorCall, WakeupInv, FlagTypes, Pending
  <2>4. CASE SenderFails
    BY <2>4, CloseKeeps DEF SenderFails
  <2>5. CASE HandleInput \/ ReceiverFails \/ \E c \in Classes : GetNextPacket(c)
    <3>1. UNCHANGED <<hub, sendVars>>
      BY <2>5, Zenon DEF HandleInput, ReceiverFails, GetNextPacket
    <3> QED  BY <3>1 DEF WakeupInv, FlagTypes, Pending
  <2>6. CASE UNCHANGED vars
    BY <2>6 DEF vars, WakeupInv, FlagTypes, Pending
  <2> QED  BY <2>1, <2>2, <2>3, <2>4, <2>5, <2>6 DEF Next
<1> QED  BY <1>1, <1>2, PTL DEF Spec

(* While a socket holds bytes the reactor will call its handle_output,     *)
(* whatever SendPacket adds between the reset of m_OutActive, the release  *)
(* of the lock and the reactor call.                                       *)
THEOREM WakeupNeverLost == Spec => []NoLostWakeup
<1>1. WakeupInv => NoLostWakeup
  BY DEF WakeupInv, FlagTypes, NoLostWakeup
<1> QED  BY <1>1, WakeupInduction, PTL

-----------------------------------------------------------------------------
(* The bytes of a queue.                                                   *)

(* Lengths adds up one block after the other.                              *)
LEMMA LengthsIs ==
    ASSUME NEW q, Len(q) \in Nat
    PROVE  /\ Lengths(q)[0] = 0
           /\ \A n \in 1 .. Len(q) : Lengths(q)[n] = Lengths(q)[n - 1] + Len(q[n])
<1> DEFINE Runs(m, f) == f = [n \in 0 .. m |-> IF n = 0 THEN 0 ELSE f[n - 1] + Len(q[n])]
           S == {m \in Nat : \E f : Runs(m, f)}
<1>1. 0 \in S
  <2> DEFINE f == [n \in 0 .. 0 |-> 0]
  <2>1. Runs(0, f)
    OBVIOUS
  <2> QED
    BY <2>1
<1>2. ASSUME NEW m \in Nat, m \in S
      PROVE  m + 1 \in S
  <2>1. PICK f : Runs(m, f)
    BY <1>2
  <2> DEFINE h == [n \in 0 .. m + 1 |-> IF n < m + 1 THEN f[n] ELSE f[m] + Len(q[m + 1])]
  <2>2. \A n \in 0 .. m : f[n] = IF n = 0 THEN 0 ELSE f[n - 1] + Len(q[n])
    BY <2>1
  <2>3. \A n \in 0 .. m + 1 : h[n] = IF n = 0 THEN 0 ELSE h[n - 1] + Len(q[n])
    BY <2>2
  <2>4. h = [n \in 0 .. m + 1 |-> h[n]]
    OBVIOUS
  <2>5. Runs(m + 1, h)
    BY <2>3, <2>4
  <2> HIDE DEF Runs, h
  <2>6. \E g : Runs(m + 1, g)
    BY <2>5
  <2> QED
    BY <2>6
<1> HIDE DEF S, Runs
<1>3. S = Nat
  BY <1>1, <1>2, Induction DEF S
<1>4. PICK f : Runs(Len(q), f)
  BY <1>3 DEF S
<1>5. Lengths(q) = CHOOSE h : Runs(Len(q), h)
  BY DEF Lengths, Runs
<1>6. Runs(Len(q), Lengths(q))
  BY <1>4, <1>5
<1> QED
  BY <1>6 DEF Runs

(* They are numbers.                                                       *)
LEMMA LengthsNat ==
    ASSUME NEW q, Len(q) \in Nat, \A i \in 1 .. Len(q) : Len(q[i]) \in Nat
    PROVE  \A n \in 0 .. Len(q) : Lengths(q)[n] \in Nat
<1> DEFINE S == {n \in Nat : n =< Len(q) => Lengths(q)[n] \in Nat}
<1>1. 0 \in S
  BY LengthsIs
<1>2. ASSUME NEW n \in Nat, n \in S PROVE n + 1 \in S
  <2> SUFFICES ASSUME n + 1 =< Len(q) PROVE Lengths(q)[n + 1] \in Nat
    OBVIOUS
  <2>1. n + 1 \in 1 .. Len(q) /\ n + 1 - 1 = n /\ Lengths(q)[n] \in Nat
    BY <1>2
  <2>2. Lengths(q)[n + 1] = Lengths(q)[n] + Len(q[n + 1])
    BY <2>1, LengthsIs
  <2> QED
    BY <2>1, <2>2
<1> HIDE DEF S
<1>3. S = Nat
  BY <1>1, <1>2, Induction DEF S
<1> QED
  BY <1>3 DEF S

\* q and r have the same blocks, and q has one more in front.
Longer(q, r) ==
    /\ Len(r) \in Nat /\ Len(q) = Len(r) + 1
    /\ \A i \in 1 .. Len(r) : Len(r[i]) \in Nat /\ q[i + 1] = r[i]
    /\ Len(q[1]) \in Nat

(* A block more in front.                                                  *)
LEMMA OneMore ==
    ASSUME NEW q, NEW r, Longer(q, r)
    PROVE  QueueBytes(r) \in Nat /\ QueueBytes(q) = Len(q[1]) + QueueBytes(r)
<1> DEFINE S == {n \in Nat : n =< Len(r) => Lengths(q)[n + 1] = Len(q[1]) + Lengths(r)[n]}
<1>1. /\ Len(r) \in Nat /\ Len(q) = Len(r) + 1 /\ Len(q) \in Nat /\ Len(q[1]) \in Nat
      /\ \A i \in 1 .. Len(r) : Len(r[i]) \in Nat /\ q[i + 1] = r[i]
  BY DEF Longer
<1>2. \A n \in 0 .. Len(r) : Lengths(r)[n] \in Nat
  BY <1>1, LengthsNat
<1>3. /\ Lengths(q)[0] = 0 /\ Lengths(r)[0] = 0
      /\ \A n \in 1 .. Len(q) : Lengths(q)[n] = Lengths(q)[n - 1] + Len(q[n])
      /\ \A n \in 1 .. Len(r) : Lengths(r)[n] = Lengths(r)[n - 1] + Len(r[n])
  BY <1>1, LengthsIs
<1>4. 0 \in S
  <2>1. 1 \in 1 .. Len(q)
    BY <1>1
  <2>2. Lengths(q)[1] = Lengths(q)[1 - 1] + Len(q[1])
    BY <1>3, <2>1
  <2> QED
    BY <1>1, <1>3, <2>2
<1>5. ASSUME NEW n \in Nat, n \in S PROVE n + 1 \in S
  <2> DEFINE m == n + 1
  <2> SUFFICES ASSUME m =< Len(r) PROVE Lengths(q)[m + 1] = Len(q[1]) + Lengths(r)[m]
    OBVIOUS
  <2>1. /\ m \in 1 .. Len(r) /\ m + 1 \in 1 .. Len(q) /\ m - 1 = n /\ m + 1 - 1 = m
        /\ Lengths(q)[m] = Len(q[1]) + Lengths(r)[n] /\ n \in 0 .. Len(r)
    BY <1>1, <1>5
  <2> HIDE DEF m
  <2>2. Lengths(q)[m + 1] = Lengths(q)[m] + Len(r[m])
    BY <1>1, <1>3, <2>1
  <2>3. Lengths(r)[m] = Lengths(r)[n] + Len(r[m])
    BY <1>3, <2>1
  <2>4. Lengths(r)[n] \in Nat /\ Len(r[m]) \in Nat
    BY <1>1, <1>2, <2>1
  <2> QED
    BY <1>1, <2>1, <2>2, <2>3, <2>4
<1> HIDE DEF S
<1>6. S = Nat
  BY <1>4, <1>5, Induction DEF S
<1>7. Lengths(q)[Len(r) + 1] = Len(q[1]) + Lengths(r)[Len(r)]
  BY <1>1, <1>6 DEF S
<1> QED
  BY <1>1, <1>2, <1>7 DEF QueueBytes

\* q is r with b behind it.
Extended(q, r, b) ==
    /\ Len(r) \in Nat /\ Len(q) = Len(r) + 1 /\ q[Len(q)] = b /\ Len(b) \in Nat
    /\ \A i \in 1 .. Len(r) : Len(r[i]) \in Nat /\ q[i] = r[i]

(* A block more behind.                                                    *)
LEMMA OneBehind ==
    ASSUME NEW q, NEW r, NEW b, Extended(q, r, b)
    PROVE  QueueBytes(r) \in Nat /\ QueueBytes(q) = QueueBytes(r) + Len(b)
<1> DEFINE S == {n \in Nat : n =< Len(r) => Lengths(q)[n] = Lengths(r)[n]}
<1>1. /\ Len(r) \in Nat /\ Len(q) = Len(r) + 1 /\ Len(q) \in Nat /\ Len(b) \in Nat
      /\ \A i \in 1 .. Len(r) : Len(r[i]) \in Nat /\ q[i] = r[i]
      /\ q[Len(r) + 1] = b
  BY DEF Extended
<1>2. Lengths(r)[Len(r)] \in Nat
  BY <1>1, LengthsNat
<1>3. /\ Lengths(q)[0] = 0 /\ Lengths(r)[0] = 0
      /\ \A n \in 1 .. Len(q) : Lengths(q)[n] = Lengths(q)[n - 1] + Len(q[n])
      /\ \A n \in 1 .. Len(r) : Lengths(r)[n] = Lengths(r)[n - 1] + Len(r[n])
  BY <1>1, LengthsIs
<1>4. 0 \in S
  BY <1>3
<1>5. ASSUME NEW n \in Nat, n \in S PROVE n + 1 \in S
  <2> DEFINE m == n + 1
  <2> SUFFICES ASSUME m =< Len(r) PROVE Lengths(q)[m] = Lengths(r)[m]
    OBVIOUS
  <2>1. /\ m \in 1 .. Len(r) /\ m \in 1 .. Len(q) /\ m - 1 = n
        /\ Lengths(q)[n] = Lengths(r)[n]
    BY <1>1, <1>5
  <2> HIDE DEF m
  <2> QED
    BY <1>1, <1>3, <2>1
<1> HIDE DEF S
<1>6. S = Nat
  BY <1>4, <1>5, Induction DEF S
<1>7. Lengths(q)[Len(r)] = Lengths(r)[Len(r)]
  BY <1>1, <1>6 DEF S
<1>8. Lengths(q)[Len(r) + 1] = Lengths(q)[Len(r)] + Len(b)
  <2>1. Len(r) + 1 \in 1 .. Len(q) /\ Len(r) + 1 - 1 = Len(r)
    BY <1>1
  <2> QED
    BY <1>1, <1>3, <2>1
<1> QED
  BY <1>1, <1>2, <1>7, <1>8 DEF QueueBytes

-----------------------------------------------------------------------------
(* The receiver.                                                           *)

(* Read takes one byte after the other.                                    *)
LEMMA ReadIs ==
    ASSUME NEW r, NEW s, Len(s) \in Nat
    PROVE  /\ Read(r, s)[0] = r
           /\ \A n \in 1 .. Len(s) : Read(r, s)[n] = TakeByte(Read(r, s)[n - 1], s[n])
<1> DEFINE Runs(m, f) == f = [n \in 0 .. m |-> IF n = 0 THEN r ELSE TakeByte(f[n - 1], s[n])]
           S == {m \in Nat : \E f : Runs(m, f)}
<1>1. 0 \in S
  <2> DEFINE f == [n \in 0 .. 0 |-> r]
  <2>1. Runs(0, f)
    OBVIOUS
  <2> QED
    BY <2>1
<1>2. ASSUME NEW m \in Nat, m \in S
      PROVE  m + 1 \in S
  <2>1. PICK f : Runs(m, f)
    BY <1>2
  <2> DEFINE h == [n \in 0 .. m + 1 |-> IF n < m + 1 THEN f[n] ELSE TakeByte(f[m], s[m + 1])]
  <2>2. \A n \in 0 .. m : f[n] = IF n = 0 THEN r ELSE TakeByte(f[n - 1], s[n])
    BY <2>1
  <2>3. \A n \in 0 .. m + 1 : h[n] = IF n = 0 THEN r ELSE TakeByte(h[n - 1], s[n])
    BY <2>2
  <2>4. h = [n \in 0 .. m + 1 |-> h[n]]
    OBVIOUS
  <2>5. Runs(m + 1, h)
    BY <2>3, <2>4
  <2> HIDE DEF Runs, h
  <2>6. \E g : Runs(m + 1, g)
    BY <2>5
  <2> QED
    BY <2>6
<1> HIDE DEF S, Runs
<1>3. S = Nat
  BY <1>1, <1>2, Induction DEF S
<1>4. PICK f : Runs(Len(s), f)
  BY <1>3 DEF S
<1>5. Read(r, s) = CHOOSE h : Runs(Len(s), h)
  BY DEF Read, Runs
<1>6. Runs(Len(s), Read(r, s))
  BY <1>4, <1>5
<1> QED
  BY <1>6 DEF Runs

Byte == {b \in Packet \X Nat : b[2] \in 1 .. Size[b[1]]}

\* b may come after a in a stream of packets.
Succeeds(a, b) == IF a[2] < Size[a[1]] THEN b = <<a[1], a[2] + 1>> ELSE b[2] = 1

\* What is sent is packet after packet.
Chain(s) == s \in Seq(Byte) /\ \A i \in 1 .. Len(s) - 1 : Succeeds(s[i], s[i + 1])

\* The receiver is at the beginning of a packet, or inside one.
Part(g) ==
    /\ g \in Seq(Byte)
    /\ g = <<>> \/ \E p \in Packet : Len(g) \in 1 .. Size[p] - 1 /\ \A i \in 1 .. Len(g) : g[i] = <<p, i>>

\* The byte b is the one that the receiver waits for.
Awaited(g, b) == IF g = <<>> THEN b[2] = 1 ELSE Succeeds(g[Len(g)], b)

\* The bytes s continue what the receiver has.
Flow(g, s) == Part(g) /\ Chain(s) /\ (s # <<>> => Awaited(g, s[1]))

\* The stream ends where a packet ends.
Whole(g, s) == IF s = <<>> THEN g = <<>> ELSE s[Len(s)][2] = Size[s[Len(s)][1]]

\* The stream ends after k bytes of p.
Within(g, s, p, k) == IF s = <<>> THEN g # <<>> /\ g[Len(g)] = <<p, k>> ELSE s[Len(s)] = <<p, k>>

\* The receiver with g has just taken the byte b.
Took(g, b) == IF g = <<>> THEN b[2] = Size[b[1]] ELSE g[Len(g)] = b

(* Packets have bytes.                                                     *)
LEMMA SizeIs ==
    ASSUME NEW p \in Packet
    PROVE  Size[p] \in Nat \ {0} /\ HeaderLen =< Size[p] /\ Size[p] =< MaxSize
  BY SizeAssumption

(* The byte that the receiver waits for makes a packet, or a part of one.  *)
LEMMA TakeOne ==
    ASSUME NEW g, Part(g), NEW b \in Byte, Awaited(g, b)
    PROVE  LET h == Append(g, b)
           IN  /\ Complete(h) => h = Bytes(b[1]) /\ Took(<<>>, b)
               /\ ~Complete(h) => Part(h) /\ Took(h, b)
<1> DEFINE p == b[1]
           h == Append(g, b)
<1>1. /\ p \in Packet /\ b[2] \in 1 .. Size[p] /\ b = <<p, b[2]>> /\ Size[p] \in Nat \ {0}
  BY SizeIs DEF Byte
<1>2. g \in Seq(Byte) /\ Len(g) \in Nat /\ h \in Seq(Byte) /\ Len(h) = Len(g) + 1
      /\ h[Len(h)] = b /\ h # <<>> /\ \A i \in 1 .. Len(g) : h[i] = g[i]
  <2>1. g \in Seq(Byte)
    BY DEF Part
  <2> HIDE DEF p
  <2>2. Len(g) \in Nat /\ h \in Seq(Byte) /\ Len(h) = Len(g) + 1
    BY <2>1
  <2>3. h[Len(h)] = b /\ \A i \in 1 .. Len(g) : h[i] = g[i]
    BY <2>1
  <2>4. h # <<>>
    BY <2>2
  <2> QED
    BY <2>1, <2>2, <2>3, <2>4
<1>3. b[2] = Len(h) /\ \A i \in 1 .. Len(g) : g[i] = <<p, i>>
  <2>1. CASE g = <<>>
    BY <1>2, <2>1 DEF Awaited
  <2>2. CASE g # <<>>
    <3>1. PICK x \in Packet : Len(g) \in 1 .. Size[x] - 1 /\ \A i \in 1 .. Len(g) : g[i] = <<x, i>>
      BY <2>2 DEF Part
    <3>2. Size[x] \in Nat /\ g[Len(g)] = <<x, Len(g)>> /\ Len(g) < Size[x]
      BY <1>2, <3>1, SizeIs
    <3>3. b = <<x, Len(g) + 1>>
      BY <2>2, <3>2 DEF Awaited, Succeeds
    <3> QED
      BY <1>2, <3>1, <3>3
  <2> QED
    BY <2>1, <2>2
<1>4. \A i \in 1 .. Len(h) : h[i] = <<p, i>>
  BY <1>1, <1>2, <1>3
<1> HIDE DEF h, p
<1>5. Complete(h) <=> Len(h) = Size[p]
  <2>1. HeaderLen \in Nat \ {0} /\ HeaderLen =< Size[p]
    BY <1>1, SizeIs, SizeAssumption
  <2>2. CASE Len(h) >= HeaderLen
    <3>1. h[HeaderLen] = <<p, HeaderLen>>
      BY <1>2, <1>4, <2>1, <2>2
    <3> QED
      BY <2>2, <3>1 DEF Complete
  <2>3. CASE ~(Len(h) >= HeaderLen)
    BY <1>1, <1>2, <2>1, <2>3 DEF Complete
  <2> QED
    BY <2>2, <2>3
<1>6. ASSUME Complete(h) PROVE h = Bytes(p) /\ Took(<<>>, b)
  <2>1. Len(h) = Size[p]
    BY <1>5, <1>6
  <2>2. h = [i \in 1 .. Size[p] |-> <<p, i>>]
    <3>1. h = [i \in 1 .. Len(h) |-> h[i]]
      BY <1>2
    <3> QED
      BY <1>4, <2>1, <3>1
  <2>3. b[2] = Size[b[1]]
    BY <1>3, <2>1 DEF p
  <2> QED
    BY <2>2, <2>3 DEF Bytes, Took
<1>7. ASSUME ~Complete(h) PROVE Part(h) /\ Took(h, b)
  <2>1. Len(h) # Size[p]
    BY <1>5, <1>7
  <2>2. Len(h) \in 1 .. Size[p] - 1
    BY <1>1, <1>2, <1>3, <2>1
  <2> QED
    BY <1>1, <1>2, <1>4, <2>2 DEF Part, Took
<1> QED
  BY <1>6, <1>7 DEF h, p

\* The receiver has taken n bytes of s, and was at g before.
Taken(r, g, s, n) ==
    /\ r.rq \in [Classes -> Seq(Packet)] /\ r.ok = TRUE /\ Part(r.got)
    /\ IF n = 0 THEN r.got = g ELSE Took(r.got, s[n])

(* One byte more.                                                          *)
LEMMA TakenNext ==
    ASSUME NEW g, NEW s, Flow(g, s), NEW n \in Nat, n < Len(s), NEW r, Taken(r, g, s, n), NEW m,
           m = n + 1
    PROVE  Taken(TakeByte(r, s[m]), g, s, m)
<1> DEFINE b == s[m]
           h == Append(r.got, b)
<1>1. s \in Seq(Byte) /\ Len(s) \in Nat /\ m \in 1 .. Len(s) /\ b \in Byte /\ m # 0 /\ s # <<>>
  BY DEF Flow, Chain
<1>2. Awaited(r.got, b)
  <2>1. CASE n = 0
    <3>1. r.got = g /\ m = 1
      BY <2>1 DEF Taken
    <3> QED
      BY <1>1, <3>1 DEF Flow
  <2>2. CASE n # 0
    <3>1. n \in 1 .. Len(s) - 1
      BY <1>1, <2>2
    <3>2. Succeeds(s[n], b) /\ Took(r.got, s[n])
      BY <2>2, <3>1 DEF Flow, Chain, Taken
    <3>3. s[n] \in Byte
      BY <1>1, <3>1
    <3> QED
      BY <3>2, <3>3 DEF Took, Awaited, Succeeds, Byte
  <2> QED
    BY <2>1, <2>2
<1>3. Part(r.got) /\ r.rq \in [Classes -> Seq(Packet)] /\ r.ok = TRUE
  BY DEF Taken
<1>4. /\ Complete(h) => h = Bytes(b[1]) /\ Took(<<>>, b)
      /\ ~Complete(h) => Part(h) /\ Took(h, b)
  BY <1>1, <1>2, <1>3, TakeOne
<1>5. b[1] \in Packet /\ ClassOf(b[1]) \in Classes
  BY <1>1, SizeAssumption DEF Byte, ClassOf, Classes
<1> HIDE DEF b
<1>6. CASE Complete(h)
  <2> DEFINE Q == [r.rq EXCEPT ![ClassOf(b[1])] = Append(@, b[1])]
  <2>1. TakeByte(r, b) = [got |-> <<>>, rq |-> Q, ok |-> r.ok /\ h = Bytes(b[1])]
    BY <1>6 DEF TakeByte
  <2>2. Q \in [Classes -> Seq(Packet)]
    BY <1>3, <1>5
  <2> HIDE DEF Q, h
  <2>3. Part(<<>>)
    BY DEF Part
  <2>4. /\ TakeByte(r, b).got = <<>> /\ TakeByte(r, b).rq = Q
        /\ TakeByte(r, b).ok = (r.ok /\ h = Bytes(b[1]))
    BY <2>1
  <2>5. TakeByte(r, b).ok = TRUE
    BY <1>3, <1>4, <1>6, <2>4
  <2>6. Took(<<>>, s[m])
    BY <1>4, <1>6 DEF b
  <2> HIDE DEF Taken
  <2>7. Taken(TakeByte(r, b), g, s, m)
    BY <1>1, <2>2, <2>3, <2>4, <2>5, <2>6 DEF Taken
  <2> QED
    BY <2>7 DEF b
<1>7. CASE ~Complete(h)
  <2>1. TakeByte(r, b) = [got |-> h, rq |-> r.rq, ok |-> r.ok]
    BY <1>7 DEF TakeByte
  <2> HIDE DEF h
  <2>2. /\ TakeByte(r, b).got = h /\ TakeByte(r, b).rq = r.rq /\ TakeByte(r, b).ok = r.ok
    BY <2>1
  <2>3. Took(h, s[m]) /\ Part(h)
    BY <1>4, <1>7 DEF b
  <2>4. Taken(TakeByte(r, b), g, s, m)
    BY <1>1, <1>3, <2>2, <2>3 DEF Taken
  <2> QED
    BY <2>4 DEF b
<1> QED
  BY <1>6, <1>7

(* All bytes that recv() returns, of a stream s that begins with w.        *)
LEMMA ReadTaken ==
    ASSUME NEW g, NEW s, Flow(g, s), NEW w, Len(w) \in Nat, Len(w) =< Len(s),
           \A i \in 1 .. Len(w) : w[i] = s[i], NEW r, Taken(r, g, s, 0)
    PROVE  \A n \in 0 .. Len(w) : Taken(Read(r, w)[n], g, s, n)
<1> DEFINE S == {n \in Nat : n =< Len(w) => Taken(Read(r, w)[n], g, s, n)}
<1>1. /\ Read(r, w)[0] = r
      /\ \A n \in 1 .. Len(w) : Read(r, w)[n] = TakeByte(Read(r, w)[n - 1], w[n])
  BY ReadIs
<1>2. 0 \in S
  BY <1>1
<1>3. ASSUME NEW n \in Nat, n \in S PROVE n + 1 \in S
  <2> DEFINE m == n + 1
  <2> SUFFICES ASSUME m =< Len(w) PROVE Taken(Read(r, w)[m], g, s, m)
    OBVIOUS
  <2>1. Len(s) \in Nat
    BY DEF Flow, Chain
  <2>2. m \in 1 .. Len(w) /\ m - 1 = n /\ n < Len(s) /\ n \in Nat /\ m = n + 1
    BY <2>1
  <2>3. Taken(Read(r, w)[n], g, s, n)
    BY <1>3
  <2>4. Read(r, w)[m] = TakeByte(Read(r, w)[n], s[m])
    BY <1>1, <2>2
  <2> HIDE DEF m
  <2>5. Taken(TakeByte(Read(r, w)[n], s[m]), g, s, m)
    BY <2>2, <2>3, TakenNext
  <2> QED
    BY <2>4, <2>5
<1> HIDE DEF S
<1>4. S = Nat
  BY <1>2, <1>3, Induction DEF S
<1> QED
  BY <1>4 DEF S

\* t is what is left of s after n bytes.
Remains(t, s, n) == t \in Seq(Byte) /\ Len(t) = Len(s) - n /\ \A i \in 1 .. Len(t) : t[i] = s[n + i]

(* What is left continues what the receiver has then.                      *)
LEMMA FlowOn ==
    ASSUME NEW g, NEW s, Flow(g, s), NEW n \in 1 .. Len(s), NEW h, Part(h), Took(h, s[n]),
           NEW t, Remains(t, s, n)
    PROVE  /\ Flow(h, t) /\ (Whole(g, s) => Whole(h, t))
           /\ \A p \in Packet : \A k \in 1 .. Size[p] - 1 : Within(g, s, p, k) => Within(h, t, p, k)
<1>1. /\ s \in Seq(Byte) /\ Len(s) \in Nat /\ t \in Seq(Byte) /\ Len(t) \in Nat /\ Len(t) = Len(s) - n
      /\ \A i \in 1 .. Len(t) : t[i] = s[n + i]
      /\ \A i \in 1 .. Len(s) - 1 : Succeeds(s[i], s[i + 1])
  BY DEF Flow, Chain, Remains
<1>2. s # <<>> /\ n \in Nat /\ s[n] \in Byte
  BY <1>1
<1>3. Chain(t)
  <2> SUFFICES ASSUME NEW i \in 1 .. Len(t) - 1 PROVE Succeeds(t[i], t[i + 1])
    BY <1>1 DEF Chain
  <2>1. /\ n + i \in 1 .. Len(s) - 1 /\ i \in 1 .. Len(t) /\ i + 1 \in 1 .. Len(t)
        /\ n + (i + 1) = (n + i) + 1
    BY <1>1, <1>2
  <2> QED
    BY <1>1, <2>1
<1>4. ASSUME t # <<>> PROVE Awaited(h, t[1]) /\ t[Len(t)] = s[Len(s)]
  <2>1. Len(t) # 0
    BY <1>1, <1>4
  <2>2. /\ 1 \in 1 .. Len(t) /\ Len(t) \in 1 .. Len(t) /\ n + Len(t) = Len(s)
        /\ n \in 1 .. Len(s) - 1
    BY <1>1, <1>2, <2>1
  <2>3. Succeeds(s[n], t[1]) /\ t[Len(t)] = s[Len(s)]
    BY <1>1, <2>2
  <2> QED
    BY <1>2, <2>3 DEF Took, Awaited, Succeeds, Byte
<1>5. CASE t = <<>>
  <2>1. n = Len(s)
    BY <1>1, <1>2, <1>5
  <2>2. Whole(g, s) => h = <<>>
    <3> SUFFICES ASSUME Whole(g, s), h # <<>> PROVE FALSE
      OBVIOUS
    <3>1. h[Len(h)] = s[n] /\ s[n][2] = Size[s[n][1]]
      BY <1>2, <2>1 DEF Whole, Took
    <3>2. PICK p \in Packet : Len(h) \in 1 .. Size[p] - 1 /\ \A i \in 1 .. Len(h) : h[i] = <<p, i>>
      BY DEF Part
    <3>3. h[Len(h)] = <<p, Len(h)>> /\ Len(h) < Size[p]
      BY <3>2, SizeIs
    <3> QED
      BY <3>1, <3>2, <3>3, SizeIs
  <2>3. ASSUME NEW p \in Packet, NEW k \in 1 .. Size[p] - 1, Within(g, s, p, k)
        PROVE  Within(h, t, p, k)
    <3>1. s[n] = <<p, k>>
      BY <1>2, <2>1, <2>3 DEF Within
    <3>2. h # <<>>
      BY <2>3, <3>1, SizeIs DEF Took
    <3> QED
      BY <1>5, <3>1, <3>2 DEF Took, Within
  <2> QED
    BY <1>3, <1>5, <2>2, <2>3 DEF Flow, Whole
<1>6. CASE t # <<>>
  BY <1>2, <1>3, <1>4, <1>6 DEF Flow, Whole, Within
<1> QED
  BY <1>5, <1>6

-----------------------------------------------------------------------------
(* The sender.                                                             *)

\* The bytes k + 1 .. k + n of p.
Span(p, k, n) == [i \in 1 .. n |-> <<p, k + i>>]

(* Parts of packets, and parts of these.                                   *)
LEMMA SpanIs ==
    ASSUME NEW p \in Packet, NEW k \in Nat, NEW m \in Nat, k + m =< Size[p]
    PROVE  /\ Span(p, k, m) \in Seq(Byte) /\ Len(Span(p, k, m)) = m
           /\ \A i \in 1 .. m : Span(p, k, m)[i] = <<p, k + i>>
           /\ Bytes(p) = Span(p, 0, Size[p])
           /\ \A n \in 0 .. m : /\ SubSeq(Span(p, k, m), 1, n) = Span(p, k, n)
                                /\ Rest(Span(p, k, m), n) = Span(p, k + n, m - n)
<1>1. Size[p] \in Nat
  BY SizeIs
<1> DEFINE s == Span(p, k, m)
<1>2. \A i \in 1 .. m : s[i] = <<p, k + i>> /\ s[i] \in Byte
  BY <1>1 DEF Span, Byte
<1>3. s \in Seq(Byte) /\ Len(s) = m
  <2>1. s = [i \in 1 .. m |-> s[i]]
    BY DEF Span
  <2> HIDE DEF s
  <2>2. s \in [1 .. m -> Byte]
    BY <1>2, <2>1
  <2> QED
    BY <2>2
<1>4. Bytes(p) = Span(p, 0, Size[p])
  <2>1. \A i \in 1 .. Size[p] : <<p, i>> = <<p, 0 + i>>
    BY <1>1
  <2> QED
    BY <2>1 DEF Bytes, Span
<1> HIDE DEF s
<1>5. ASSUME NEW n \in 0 .. m
      PROVE  SubSeq(s, 1, n) = Span(p, k, n) /\ Rest(s, n) = Span(p, k + n, m - n)
  <2>1. n \in Nat /\ m - n \in Nat
    OBVIOUS
  <2>2. SubSeq(s, 1, n) = [i \in 1 .. n |-> s[i]]
    BY <1>3, <2>1
  <2>3. SubSeq(s, n + 1, Len(s)) = [i \in 1 .. m - n |-> s[n + i]]
    BY <1>3, <2>1
  <2>4. \A i \in 1 .. n : s[i] = <<p, k + i>>
    BY <1>2
  <2>5. \A i \in 1 .. m - n : s[n + i] = <<p, k + n + i>>
    BY <1>2, <2>1
  <2> QED
    BY <2>2, <2>3, <2>4, <2>5 DEF Span, Rest
<1> QED
  BY <1>2, <1>3, <1>4, <1>5 DEF s

(* One sequence after another.                                             *)
LEMMA ConcatIs ==
    ASSUME NEW T, NEW s \in Seq(T), NEW u \in Seq(T)
    PROVE  /\ s \o u \in Seq(T) /\ Len(s \o u) = Len(s) + Len(u)
           /\ \A i \in 1 .. Len(s) : (s \o u)[i] = s[i]
           /\ \A i \in 1 .. Len(u) : (s \o u)[Len(s) + i] = u[i]
  OBVIOUS

\* The next byte that is sent may be byte k + 1 of p.
Before(g, s, p, k) == IF k = 0 THEN Whole(g, s) ELSE Within(g, s, p, k)

(* A part of a packet is sent, where it may be.                            *)
LEMMA Grow ==
    ASSUME NEW g, NEW s, Flow(g, s), NEW p \in Packet, NEW k \in Nat, NEW n \in Nat \ {0},
           k + n =< Size[p], Before(g, s, p, k)
    PROVE  LET t == s \o Span(p, k, n)
           IN  /\ Flow(g, t) /\ Within(g, t, p, k + n)
               /\ k + n = Size[p] => Whole(g, t)
<1> DEFINE u == Span(p, k, n)
           t == s \o u
<1>1. s \in Seq(Byte) /\ Len(s) \in Nat /\ \A i \in 1 .. Len(s) - 1 : Succeeds(s[i], s[i + 1])
  BY DEF Flow, Chain
<1>2. u \in Seq(Byte) /\ Len(u) = n /\ \A i \in 1 .. n : u[i] = <<p, k + i>>
  BY SpanIs
<1>3. Size[p] \in Nat /\ k < Size[p]
  BY SizeIs
<1> HIDE DEF u
<1>4. /\ t \in Seq(Byte) /\ Len(t) = Len(s) + Len(u)
      /\ \A i \in 1 .. Len(s) : t[i] = s[i]
      /\ \A i \in 1 .. Len(u) : t[Len(s) + i] = u[i]
  <2>1. s \in Seq(Byte) /\ u \in Seq(Byte)
    BY <1>1, <1>2
  <2> QED
    BY <2>1, ConcatIs
<1> HIDE DEF t
<1>5. /\ \A i \in 1 .. Len(s) : t[i] = s[i]
      /\ \A i \in 1 .. n : t[Len(s) + i] = <<p, k + i>>
  BY <1>2, <1>4
<1>6. /\ t \in Seq(Byte) /\ Len(t) = Len(s) + n
  BY <1>2, <1>4
<1>7. t # <<>> /\ t[Len(t)] = <<p, k + n>>
  <2>1. n \in 1 .. n /\ Len(t) # 0
    BY <1>1, <1>6
  <2> QED
    BY <1>5, <1>6, <2>1
<1>8. t[Len(s) + 1] = <<p, k + 1>>
  <2>1. 1 \in 1 .. n
    OBVIOUS
  <2> QED
    BY <1>5, <2>1
<1>9. s # <<>> => Succeeds(s[Len(s)], <<p, k + 1>>)
  <2> SUFFICES ASSUME s # <<>> PROVE Succeeds(s[Len(s)], <<p, k + 1>>)
    OBVIOUS
  <2>1. Len(s) \in 1 .. Len(s) /\ s[Len(s)] \in Byte
    BY <1>1
  <2>2. CASE k = 0
    <3>1. s[Len(s)][2] = Size[s[Len(s)][1]]
      BY <2>2 DEF Before, Whole
    <3>2. Size[s[Len(s)][1]] \in Nat
      BY <2>1, SizeIs DEF Byte
    <3> QED
      BY <2>2, <3>1, <3>2 DEF Succeeds
  <2>3. CASE k # 0
    <3>1. s[Len(s)] = <<p, k>>
      BY <2>3 DEF Before, Within
    <3> QED
      BY <1>3, <3>1 DEF Succeeds
  <2> QED
    BY <2>2, <2>3
<1>10. Chain(t)
  <2> SUFFICES ASSUME NEW i \in 1 .. Len(t) - 1 PROVE Succeeds(t[i], t[i + 1])
    BY <1>6 DEF Chain
  <2>1. CASE i < Len(s)
    <3>1. i \in 1 .. Len(s) - 1 /\ i \in 1 .. Len(s) /\ i + 1 \in 1 .. Len(s)
      BY <1>1, <2>1
    <3> QED
      BY <1>1, <1>5, <3>1
  <2>2. CASE i = Len(s)
    <3>1. Len(s) \in 1 .. Len(s) /\ s # <<>>
      BY <1>1, <2>2
    <3> QED
      BY <1>5, <1>8, <1>9, <2>2, <3>1
  <2>3. CASE i > Len(s)
    <3> DEFINE j == i - Len(s)
    <3>1. j \in 1 .. n /\ j + 1 \in 1 .. n /\ i = Len(s) + j /\ i + 1 = Len(s) + (j + 1)
          /\ k + j < Size[p] /\ k + (j + 1) = k + j + 1
      BY <1>1, <1>3, <1>6, <2>3
    <3> HIDE DEF j
    <3>2. t[i] = <<p, k + j>> /\ t[i + 1] = <<p, k + j + 1>>
      BY <1>5, <3>1
    <3> QED
      BY <3>1, <3>2 DEF Succeeds
  <2> QED
    BY <1>1, <2>1, <2>2, <2>3
<1>11. Awaited(g, t[1])
  <2>1. CASE s = <<>>
    <3>1. t[1] = <<p, k + 1>>
      BY <1>8, <2>1
    <3>2. CASE k = 0
      BY <2>1, <3>1, <3>2 DEF Before, Whole, Awaited
    <3>3. CASE k # 0
      BY <1>3, <2>1, <3>1, <3>3 DEF Before, Within, Awaited, Succeeds
    <3> QED
      BY <3>2, <3>3
  <2>2. CASE s # <<>>
    <3>1. 1 \in 1 .. Len(s)
      BY <1>1, <2>2
    <3> QED
      BY <1>5, <2>2, <3>1 DEF Flow
  <2> QED
    BY <2>1, <2>2
<1>12. /\ Flow(g, t) /\ Within(g, t, p, k + n)
       /\ k + n = Size[p] => Whole(g, t)
  BY <1>7, <1>10, <1>11 DEF Flow, Within, Whole
<1> QED
  BY <1>12 DEF t, u

\* The queue q follows the stream s: whole packets of S, and at its head what
\* is left of one, if held.
Sending(g, s, q, S, held) ==
    /\ q \in Seq(Seq(Byte)) /\ (q = <<>> => Whole(g, s))
    /\ q # <<>> => \E p \in S : \E k \in 0 .. Size[p] - 1 :
                     q[1] = Span(p, k, Size[p] - k) /\ Before(g, s, p, k) /\ (k # 0 => held)
    /\ \A i \in 2 .. Len(q) : \E p \in S : q[i] = Bytes(p)

\* The head of the queue q are the bytes of p from k + 1 on.
HeadAt(g, s, q, p, k, held) ==
    /\ p \in Packet /\ k \in Nat /\ k < Size[p] /\ Size[p] \in Nat
    /\ Head(q) = Span(p, k, Size[p] - k) /\ q[1] = Head(q)
    /\ Len(Head(q)) = Size[p] - k /\ Head(q)[1] = <<p, k + 1>>
    /\ Before(g, s, p, k) /\ (k # 0 => held)

(* The head of the queue.                                                  *)
LEMMA HeadIs ==
    ASSUME NEW g, NEW s, NEW q, NEW S \in SUBSET Packet, NEW held, Sending(g, s, q, S, held), q # <<>>
    PROVE  \E p \in S : \E k \in Nat : HeadAt(g, s, q, p, k, held)
<1>1. q \in Seq(Seq(Byte)) /\ Head(q) = q[1]
  BY DEF Sending
<1>2. PICK p \in S : \E k \in 0 .. Size[p] - 1 :
                     q[1] = Span(p, k, Size[p] - k) /\ Before(g, s, p, k) /\ (k # 0 => held)
  BY DEF Sending
<1>3. PICK k \in 0 .. Size[p] - 1 :
                     q[1] = Span(p, k, Size[p] - k) /\ Before(g, s, p, k) /\ (k # 0 => held)
  BY <1>2
<1>4. p \in Packet /\ Size[p] \in Nat /\ k \in Nat /\ k < Size[p]
      /\ Size[p] - k \in Nat /\ k + (Size[p] - k) =< Size[p] /\ 1 \in 1 .. Size[p] - k
  BY SizeIs
<1>5. Len(Span(p, k, Size[p] - k)) = Size[p] - k /\ Span(p, k, Size[p] - k)[1] = <<p, k + 1>>
  BY <1>4, SpanIs
<1>6. HeadAt(g, s, q, p, k, held)
  BY <1>1, <1>3, <1>4, <1>5 DEF HeadAt
<1> QED
  BY <1>4, <1>6

(* The numbers of a cut at n into what is left of a packet of z bytes.     *)
LEMMA CutAt ==
    ASSUME NEW z \in Nat, NEW k \in Nat, k < z, NEW n \in 1 .. (z - k) - 1
    PROVE  /\ z - k \in Nat /\ k + (z - k) =< z /\ n \in 0 .. z - k
           /\ n \in Nat \ {0} /\ n < z - k
           /\ k + n \in 0 .. z - 1 /\ k + n # 0 /\ (z - k) - n = z - (k + n) /\ k + n =< z
           /\ k + n \in Nat /\ z - (k + n) \in Nat /\ (k + n) + (z - (k + n)) =< z
  OBVIOUS

(* The tail of the queue, behind a stream that ends with a packet.         *)
LEMMA SendingTail ==
    ASSUME NEW g, NEW s, NEW q, NEW S \in SUBSET Packet, NEW held, Sending(g, s, q, S, held),
           q # <<>>, NEW t, Whole(g, t), NEW b
    PROVE  Sending(g, t, Tail(q), S, b)
<1>1. /\ q \in Seq(Seq(Byte)) /\ Len(q) \in Nat \ {0} /\ Tail(q) \in Seq(Seq(Byte))
      /\ Len(Tail(q)) = Len(q) - 1 /\ \A i \in 1 .. Len(Tail(q)) : Tail(q)[i] = q[i + 1]
      /\ \A i \in 2 .. Len(q) : \E p \in S : q[i] = Bytes(p)
  BY DEF Sending
<1>2. ASSUME Tail(q) # <<>>
      PROVE  \E p \in S : \E k \in 0 .. Size[p] - 1 :
                 Tail(q)[1] = Span(p, k, Size[p] - k) /\ Before(g, t, p, k) /\ (k # 0 => b)
  <2> DEFINE u == Tail(q)
  <2>1. /\ u \in Seq(Seq(Byte)) /\ u # <<>> /\ Len(q) \in Nat \ {0} /\ Len(u) = Len(q) - 1
        /\ \A i \in 1 .. Len(u) : u[i] = q[i + 1]
    BY <1>1, <1>2
  <2>2. 1 \in 1 .. Len(Tail(q)) /\ 2 \in 2 .. Len(q) /\ Tail(q)[1] = q[2]
    <3> HIDE DEF u
    <3>1. Len(u) \in Nat \ {0}
      BY <2>1, NotEmpty
    <3>2. 1 \in 1 .. Len(u) /\ 2 \in 2 .. Len(q) /\ 1 + 1 = 2
      BY <2>1, <3>1
    <3>3. u[1] = q[2]
      BY <2>1, <3>2
    <3> QED
      BY <3>2, <3>3 DEF u
  <2>3. PICK p \in S : q[2] = Bytes(p)
    BY <1>1, <2>2
  <2>4. p \in Packet /\ Size[p] \in Nat \ {0} /\ 0 \in 0 .. Size[p] - 1 /\ Size[p] - 0 = Size[p]
    BY SizeIs
  <2>5. Bytes(p) = Span(p, 0, Size[p])
    <3>1. Size[p] \in Nat /\ 0 \in Nat /\ 0 + Size[p] =< Size[p]
      BY <2>4
    <3> QED
      BY <2>4, <3>1, SpanIs
  <2> QED
    BY <2>2, <2>3, <2>4, <2>5 DEF Before
<1>3. ASSUME NEW i \in 2 .. Len(Tail(q)) PROVE \E p \in S : Tail(q)[i] = Bytes(p)
  <2>1. i \in 1 .. Len(Tail(q)) /\ i + 1 \in 2 .. Len(q)
    BY <1>1
  <2> QED
    BY <1>1, <2>1
<1> QED
  BY <1>1, <1>2, <1>3 DEF Sending

(* The head is sent.                                                       *)
LEMMA SentWhole ==
    ASSUME NEW g, NEW s, Flow(g, s), NEW q, NEW S \in SUBSET Packet, NEW held,
           Sending(g, s, q, S, held), q # <<>>, NEW b
    PROVE  Flow(g, s \o Head(q)) /\ Sending(g, s \o Head(q), Tail(q), S, b)
<1>1. PICK p \in S : \E k \in Nat : HeadAt(g, s, q, p, k, held)
  BY HeadIs
<1>2. PICK k \in Nat :
             /\ p \in Packet /\ k < Size[p] /\ Size[p] \in Nat
             /\ Head(q) = Span(p, k, Size[p] - k) /\ Before(g, s, p, k)
  BY <1>1 DEF HeadAt
<1> DEFINE n == Size[p] - k
<1>3. n \in Nat \ {0} /\ k + n =< Size[p] /\ k + n = Size[p]
  BY <1>2
<1> HIDE DEF n
<1>4. Flow(g, s \o Span(p, k, n)) /\ (k + n = Size[p] => Whole(g, s \o Span(p, k, n)))
  BY <1>2, <1>3, Grow
<1>5. Flow(g, s \o Head(q)) /\ Whole(g, s \o Head(q))
  BY <1>2, <1>3, <1>4 DEF n
<1>6. Sending(g, s \o Head(q), Tail(q), S, b)
  BY <1>5, SendingTail
<1> QED
  BY <1>5, <1>6

(* A part of the head is sent, and the rest put back.                      *)
LEMMA SentPart ==
    ASSUME NEW g, NEW s, Flow(g, s), NEW q, NEW S \in SUBSET Packet, NEW held,
           Sending(g, s, q, S, held), q # <<>>, NEW n \in 1 .. Len(Head(q)) - 1
    PROVE  /\ Flow(g, s \o SubSeq(Head(q), 1, n))
           /\ Sending(g, s \o SubSeq(Head(q), 1, n), <<Rest(Head(q), n)>> \o Tail(q), S, TRUE)
<1>1. PICK p \in S : \E k \in Nat : HeadAt(g, s, q, p, k, held)
  BY HeadIs
<1>2. PICK k \in Nat :
             /\ p \in Packet /\ k < Size[p] /\ Size[p] \in Nat
             /\ Head(q) = Span(p, k, Size[p] - k) /\ Before(g, s, p, k)
             /\ Len(Head(q)) = Size[p] - k
  BY <1>1 DEF HeadAt
<1> DEFINE m == Size[p] - k
           t == s \o SubSeq(Head(q), 1, n)
           r == Rest(Head(q), n)
           u == <<r>> \o Tail(q)
           j == k + n
<1>3. /\ m \in Nat /\ k + m =< Size[p] /\ n \in 0 .. m /\ n \in Nat \ {0} /\ n < m
      /\ j \in 0 .. Size[p] - 1 /\ j # 0 /\ m - n = Size[p] - j /\ k + n =< Size[p] /\ j \in Nat
      /\ Size[p] - j \in Nat /\ j + (Size[p] - j) =< Size[p]
  <2>1. Size[p] \in Nat /\ k \in Nat /\ k < Size[p] /\ n \in 1 .. (Size[p] - k) - 1
    BY <1>2
  <2> QED
    BY <2>1, CutAt
<1>4. SubSeq(Head(q), 1, n) = Span(p, k, n) /\ r = Span(p, j, Size[p] - j)
  <2>0. /\ p \in Packet /\ k \in Nat /\ m \in Nat /\ k + m =< Size[p] /\ n \in 0 .. m
        /\ Head(q) = Span(p, k, m)
    BY <1>2, <1>3
  <2> HIDE DEF m
  <2>1. SubSeq(Span(p, k, m), 1, n) = Span(p, k, n) /\ Rest(Span(p, k, m), n) = Span(p, k + n, m - n)
    BY <2>0, SpanIs
  <2> QED
    BY <1>3, <2>0, <2>1
<1> HIDE DEF j, m
<1>5. Flow(g, t) /\ Within(g, t, p, j)
  <2>1. Flow(g, s \o Span(p, k, n)) /\ Within(g, s \o Span(p, k, n), p, k + n)
    BY <1>2, <1>3, Grow
  <2> QED
    BY <1>4, <2>1 DEF j
<1>6. r \in Seq(Byte)
  <2>1. Span(p, j, Size[p] - j) \in Seq(Byte)
    BY <1>2, <1>3, SpanIs
  <2> QED
    BY <1>4, <2>1
<1> HIDE DEF t, r
<1>7. /\ q \in Seq(Seq(Byte)) /\ Len(q) \in Nat \ {0} /\ Tail(q) \in Seq(Seq(Byte))
      /\ Len(Tail(q)) = Len(q) - 1 /\ \A i \in 1 .. Len(Tail(q)) : Tail(q)[i] = q[i + 1]
      /\ \A i \in 2 .. Len(q) : \E x \in S : q[i] = Bytes(x)
  BY DEF Sending
<1>8. /\ u \in Seq(Seq(Byte)) /\ Len(u) = Len(q) /\ u[1] = r
      /\ \A i \in 2 .. Len(u) : u[i] = q[i]
  <2>1. <<r>> \in Seq(Seq(Byte)) /\ Len(<<r>>) = 1 /\ <<r>>[1] = r
    BY <1>6
  <2>2. Tail(q) \in Seq(Seq(Byte))
    BY <1>7
  <2>3. /\ u \in Seq(Seq(Byte)) /\ Len(u) = Len(<<r>>) + Len(Tail(q))
        /\ \A i \in 1 .. Len(<<r>>) : u[i] = <<r>>[i]
        /\ \A i \in 1 .. Len(Tail(q)) : u[Len(<<r>>) + i] = Tail(q)[i]
    BY <2>1, <2>2, ConcatIs
  <2> HIDE DEF u
  <2>4. Len(u) = Len(q)
    BY <1>7, <2>1, <2>3
  <2>5. u[1] = r
    BY <2>1, <2>3
  <2>6. ASSUME NEW i \in 2 .. Len(u) PROVE u[i] = q[i]
    <3>1. i - 1 \in 1 .. Len(Tail(q)) /\ 1 + (i - 1) = i /\ (i - 1) + 1 = i
      BY <1>7, <2>4
    <3>2. u[Len(<<r>>) + (i - 1)] = Tail(q)[i - 1]
      BY <2>3, <3>1
    <3>3. Tail(q)[i - 1] = q[(i - 1) + 1]
      BY <1>7, <3>1
    <3> QED
      BY <2>1, <3>1, <3>2, <3>3
  <2> QED
    BY <2>3, <2>4, <2>5, <2>6
<1> HIDE DEF u
<1>9. Sending(g, t, u, S, TRUE)
  <2>1. u # <<>>
    BY <1>7, <1>8
  <2>2. Before(g, t, p, j)
    BY <1>3, <1>5 DEF Before
  <2>3. \A i \in 2 .. Len(u) : \E x \in S : u[i] = Bytes(x)
    BY <1>7, <1>8
  <2> QED
    BY <1>3, <1>4, <1>8, <2>1, <2>2, <2>3 DEF Sending
<1> QED
  BY <1>5, <1>9 DEF t, u, r

(* The head is dropped, which is a whole packet.                           *)
LEMMA HeadDropped ==
    ASSUME NEW g, NEW s, NEW q, NEW S \in SUBSET Packet,
           Sending(g, s, q, S, FALSE), q # <<>>
    PROVE  Sending(g, s, Tail(q), S, FALSE) /\ Head(q)[1][1] \in S
<1>1. PICK p \in S : \E k \in Nat : HeadAt(g, s, q, p, k, FALSE)
  BY HeadIs
<1>2. Whole(g, s) /\ Head(q)[1][1] = p
  BY <1>1 DEF HeadAt, Before
<1> QED
  BY <1>2, SendingTail

(* A packet is added to the buffer.                                        *)
LEMMA Buffered ==
    ASSUME NEW g, NEW s, Flow(g, s), Whole(g, s), NEW S \in SUBSET Packet,
           NEW p \in Packet, NEW b
    PROVE  Flow(g, s \o Bytes(p)) /\ Sending(g, s \o Bytes(p), <<>>, S, b)
<1>1. Size[p] \in Nat \ {0} /\ 0 + Size[p] =< Size[p] /\ 0 + Size[p] = Size[p] /\ Before(g, s, p, 0)
  BY SizeIs DEF Before
<1>2. Bytes(p) = Span(p, 0, Size[p])
  BY <1>1, SpanIs
<1>3. /\ Flow(g, s \o Span(p, 0, Size[p]))
      /\ 0 + Size[p] = Size[p] => Whole(g, s \o Span(p, 0, Size[p]))
  BY <1>1, Grow
<1>4. <<>> \in Seq(Seq(Byte)) /\ Len(<<>>) = 0
  OBVIOUS
<1> QED
  BY <1>1, <1>2, <1>3, <1>4 DEF Sending

(* A packet is added to the queue.                                         *)
LEMMA Enqueued ==
    ASSUME NEW g, NEW s, NEW q, NEW S \in SUBSET Packet, NEW held,
           Sending(g, s, q, S, held), NEW p \in Packet
    PROVE  Sending(g, s, Append(q, Bytes(p)), S \cup {p}, held)
<1> DEFINE u == Append(q, Bytes(p))
           X == S \cup {p}
<1>1. /\ q \in Seq(Seq(Byte)) /\ \A i \in 2 .. Len(q) : \E x \in S : q[i] = Bytes(x)
  BY DEF Sending
<1>2. Size[p] \in Nat \ {0} /\ 0 + Size[p] =< Size[p] /\ 0 \in 0 .. Size[p] - 1 /\ Size[p] - 0 = Size[p]
  BY SizeIs
<1>3. Bytes(p) = Span(p, 0, Size[p]) /\ Bytes(p) \in Seq(Byte)
  BY <1>2, SpanIs
<1>4. Len(q) \in Nat /\ u \in Seq(Seq(Byte)) /\ Len(u) = Len(q) + 1
      /\ u[Len(u)] = Bytes(p) /\ \A i \in 1 .. Len(q) : u[i] = q[i]
  BY <1>1, <1>3
<1> HIDE DEF u
<1>5. u # <<>>
  BY <1>4
<1>6. \A i \in 2 .. Len(u) : \E x \in X : u[i] = Bytes(x)
  <2> SUFFICES ASSUME NEW i \in 2 .. Len(u) PROVE \E x \in X : u[i] = Bytes(x)
    OBVIOUS
  <2>1. CASE i = Len(u)
    BY <1>4, <2>1
  <2>2. CASE i # Len(u)
    <3>1. i \in 2 .. Len(q) /\ i \in 1 .. Len(q)
      BY <1>4, <2>2
    <3> QED
      BY <1>1, <1>4, <3>1
  <2> QED
    BY <2>1, <2>2
<1>7. \E x \in X : \E k \in 0 .. Size[x] - 1 :
                     u[1] = Span(x, k, Size[x] - k) /\ Before(g, s, x, k) /\ (k # 0 => held)
  <2>1. CASE q = <<>>
    <3>1. Len(u) = 1 /\ Whole(g, s)
      BY <1>4, <2>1 DEF Sending
    <3>2. u[1] = Span(p, 0, Size[p] - 0) /\ Before(g, s, p, 0)
      BY <1>2, <1>3, <1>4, <3>1 DEF Before
    <3> QED
      BY <1>2, <3>2
  <2>2. CASE q # <<>>
    <3>1. 1 \in 1 .. Len(q)
      BY <1>1, <1>4, <2>2
    <3>2. u[1] = q[1]
      BY <1>4, <3>1
    <3>3. \E x \in S : \E k \in 0 .. Size[x] - 1 :
                     q[1] = Span(x, k, Size[x] - k) /\ Before(g, s, x, k) /\ (k # 0 => held)
      BY <2>2 DEF Sending
    <3> QED
      BY <3>2, <3>3
  <2> QED
    BY <2>1, <2>2
<1>8. Sending(g, s, u, X, held)
  BY <1>4, <1>5, <1>6, <1>7 DEF Sending
<1> QED
  BY <1>8 DEF u

(* The receiver reads on.                                                  *)
LEMMA SendingRead ==
    ASSUME NEW g, NEW s, NEW q, NEW S \in SUBSET Packet, NEW held, Sending(g, s, q, S, held),
           NEW h, NEW t, Whole(g, s) => Whole(h, t),
           \A p \in Packet : \A k \in 1 .. Size[p] - 1 : Within(g, s, p, k) => Within(h, t, p, k)
    PROVE  Sending(h, t, q, S, held)
<1>1. ASSUME q # <<>>
      PROVE  \E p \in S : \E k \in 0 .. Size[p] - 1 :
                     q[1] = Span(p, k, Size[p] - k) /\ Before(h, t, p, k) /\ (k # 0 => held)
  <2>1. PICK p \in S : \E k \in 0 .. Size[p] - 1 :
                     q[1] = Span(p, k, Size[p] - k) /\ Before(g, s, p, k) /\ (k # 0 => held)
    BY <1>1 DEF Sending
  <2>2. PICK k \in 0 .. Size[p] - 1 :
                     q[1] = Span(p, k, Size[p] - k) /\ Before(g, s, p, k) /\ (k # 0 => held)
    BY <2>1
  <2>3. Before(h, t, p, k)
    <3>1. CASE k = 0
      BY <2>2, <3>1 DEF Before
    <3>2. CASE k # 0
      <4>1. p \in Packet /\ k \in 1 .. Size[p] - 1
        BY <3>2, SizeIs
      <4> QED
        BY <2>2, <3>2, <4>1 DEF Before
    <3> QED
      BY <3>1, <3>2
  <2> QED
    BY <2>2, <2>3
<1> QED
  BY <1>1 DEF Sending

(* The rest of the head may stay, and other packets may have been sent.    *)
LEMMA SendingStill ==
    ASSUME NEW g, NEW s, NEW q, NEW S, NEW held, Sending(g, s, q, S, held), NEW X, S \subseteq X,
           NEW b, held => b
    PROVE  Sending(g, s, q, X, b)
  BY DEF Sending

-----------------------------------------------------------------------------
(* A connection.                                                           *)

\* The receiver has the bytes g; w is on its way, o in the buffer and q in the
\* queue of the sender, to which the packets S were given and which is closed
\* or not.
Linked(g, w, o, q, S, closed, held) ==
    /\ o \in Seq(Byte) /\ Len(o) =< OutCap
    /\ w \in Seq(Byte) /\ Len(w) =< WireCap
    /\ QueueBytes(q) < HighWater + MaxSize
    /\ Flow(g, w \o o)
    /\ IF closed THEN q = <<>> ELSE Sending(g, w \o o, q, S, held)

(* The capacities are numbers, and an empty queue has no bytes.            *)
LEMMA Capacities ==
    /\ OutCap \in Nat \ {0} /\ HighWater \in Nat \ {0} /\ WireCap \in Nat \ {0} /\ MaxSize \in Nat
    /\ QueueBytes(<<>>) = 0 /\ QueueBytes(<<>>) < HighWater + MaxSize
<1>1. OutCap \in Nat \ {0} /\ HighWater \in Nat \ {0} /\ WireCap \in Nat \ {0} /\ MaxSize \in Nat
  BY SizeAssumption, CapacityAssumption
<1>2. Len(<<>>) = 0 /\ Len(<<>>) \in Nat
  OBVIOUS
<1>3. Lengths(<<>>)[0] = 0
  BY <1>2, LengthsIs
<1> QED
  BY <1>1, <1>2, <1>3 DEF QueueBytes

(* Blocks have lengths.                                                    *)
LEMMA QueueIs ==
    ASSUME NEW q \in Seq(Seq(Byte))
    PROVE  /\ Len(q) \in Nat /\ \A i \in 1 .. Len(q) : q[i] \in Seq(Byte) /\ Len(q[i]) \in Nat
           /\ QueueBytes(q) \in Nat
           /\ q # <<>> => /\ QueueBytes(Tail(q)) \in Nat
                          /\ QueueBytes(q) = Len(Head(q)) + QueueBytes(Tail(q))
<1>1. Len(q) \in Nat /\ \A i \in 1 .. Len(q) : q[i] \in Seq(Byte) /\ Len(q[i]) \in Nat
  OBVIOUS
<1>2. QueueBytes(q) \in Nat
  <2>1. Lengths(q)[Len(q)] \in Nat
    BY <1>1, LengthsNat
  <2> QED
    BY <2>1 DEF QueueBytes
<1>3. ASSUME q # <<>>
      PROVE  QueueBytes(Tail(q)) \in Nat /\ QueueBytes(q) = Len(Head(q)) + QueueBytes(Tail(q))
  <2>1. /\ Len(q) # 0 /\ Len(Tail(q)) = Len(q) - 1 /\ Head(q) = q[1]
        /\ \A i \in 1 .. Len(Tail(q)) : Tail(q)[i] = q[i + 1]
    BY <1>3
  <2> DEFINE r == Tail(q)
  <2> HIDE DEF r
  <2>2. /\ Len(r) \in Nat /\ Len(q) = Len(r) + 1 /\ 1 \in 1 .. Len(q)
        /\ \A i \in 1 .. Len(r) : i + 1 \in 1 .. Len(q) /\ q[i + 1] = r[i]
    BY <1>1, <2>1 DEF r
  <2>3. Longer(q, r)
    BY <1>1, <2>2 DEF Longer
  <2>4. QueueBytes(r) \in Nat /\ QueueBytes(q) = Len(q[1]) + QueueBytes(r)
    BY <2>3, OneMore
  <2> QED
    BY <2>1, <2>4 DEF r
<1> QED
  BY <1>1, <1>2, <1>3

(* A stream may end anywhere.                                              *)
LEMMA FlowPrefix ==
    ASSUME NEW g, NEW s, Flow(g, s), NEW t \in Seq(Byte), Len(t) =< Len(s),
           \A i \in 1 .. Len(t) : t[i] = s[i]
    PROVE  Flow(g, t)
<1>1. /\ Len(t) \in Nat /\ Len(s) \in Nat /\ s \in Seq(Byte) /\ Part(g)
      /\ \A i \in 1 .. Len(s) - 1 : Succeeds(s[i], s[i + 1])
  BY DEF Flow, Chain
<1>2. ASSUME NEW i \in 1 .. Len(t) - 1 PROVE Succeeds(t[i], t[i + 1])
  <2>1. i \in 1 .. Len(t) /\ i + 1 \in 1 .. Len(t) /\ i \in 1 .. Len(s) - 1
    BY <1>1
  <2> QED
    BY <1>1, <2>1
<1>3. ASSUME t # <<>> PROVE Awaited(g, t[1])
  <2>1. Len(t) # 0
    BY <1>3
  <2>2. 1 \in 1 .. Len(t) /\ Len(s) # 0
    BY <1>1, <2>1
  <2>3. t[1] = s[1] /\ s # <<>>
    BY <2>2
  <2> QED
    BY <2>3 DEF Flow
<1> QED
  BY <1>1, <1>2, <1>3 DEF Flow, Chain

(* A sequence is its first n elements and the rest.                        *)
LEMMA SplitAt ==
    ASSUME NEW T, NEW s \in Seq(T), NEW n \in 0 .. Len(s)
    PROVE  /\ SubSeq(s, 1, n) \in Seq(T) /\ Len(SubSeq(s, 1, n)) = n
           /\ Rest(s, n) \in Seq(T) /\ Len(Rest(s, n)) = Len(s) - n
           /\ \A i \in 1 .. Len(s) - n : Rest(s, n)[i] = s[n + i]
           /\ SubSeq(s, 1, n) \o Rest(s, n) = s
<1> DEFINE a == SubSeq(s, 1, n)
           b == Rest(s, n)
           c == a \o b
<1>1. Len(s) \in Nat /\ n \in Nat /\ Len(s) - n \in Nat
  OBVIOUS
<1>2. a \in Seq(T) /\ Len(a) = n /\ \A i \in 1 .. n : a[i] = s[i]
  BY <1>1
<1>3. b \in Seq(T) /\ Len(b) = Len(s) - n /\ \A i \in 1 .. Len(s) - n : b[i] = s[n + i]
  BY <1>1 DEF Rest
<1> HIDE DEF a, b
<1>4. /\ c \in Seq(T) /\ Len(c) = Len(a) + Len(b) /\ \A i \in 1 .. Len(a) : c[i] = a[i]
      /\ \A i \in 1 .. Len(b) : c[Len(a) + i] = b[i]
  BY <1>2, <1>3, ConcatIs
<1> HIDE DEF c
<1>5. Len(c) = Len(s)
  BY <1>1, <1>2, <1>3, <1>4
<1>6. ASSUME NEW i \in 1 .. Len(s) PROVE c[i] = s[i]
  <2>1. CASE i =< n
    <3>1. i \in 1 .. n
      BY <1>1, <2>1
    <3> QED
      BY <1>2, <1>4, <3>1
  <2>2. CASE i > n
    <3> DEFINE j == i - n
    <3>1. j \in 1 .. Len(s) - n /\ i = n + j
      BY <1>1, <2>2
    <3> HIDE DEF j
    <3> QED
      BY <1>2, <1>3, <1>4, <3>1
  <2> QED
    BY <1>1, <2>1, <2>2
<1>7. s = [i \in 1 .. Len(s) |-> s[i]] /\ c = [i \in 1 .. Len(c) |-> c[i]]
  BY <1>4
<1>8. c = s
  BY <1>5, <1>6, <1>7
<1> QED
  BY <1>2, <1>3, <1>8 DEF a, b, c

(* The stream and the queue of a connection.                               *)
LEMMA LinkedIs ==
    ASSUME NEW g, NEW w, NEW o, NEW q, NEW S, NEW held, Linked(g, w, o, q, S, FALSE, held)
    PROVE  /\ o \in Seq(Byte) /\ Len(o) \in Nat /\ Len(o) =< OutCap
           /\ w \in Seq(Byte) /\ Len(w) \in Nat /\ Len(w) =< WireCap
           /\ q \in Seq(Seq(Byte)) /\ QueueBytes(q) \in Nat /\ QueueBytes(q) < HighWater + MaxSize
           /\ Flow(g, w \o o) /\ Sending(g, w \o o, q, S, held)
<1>1. /\ o \in Seq(Byte) /\ Len(o) =< OutCap /\ w \in Seq(Byte) /\ Len(w) =< WireCap
      /\ QueueBytes(q) < HighWater + MaxSize
      /\ Flow(g, w \o o) /\ Sending(g, w \o o, q, S, held)
  BY DEF Linked
<1>2. q \in Seq(Seq(Byte))
  BY <1>1 DEF Sending
<1>3. Len(o) \in Nat /\ Len(w) \in Nat
  BY <1>1
<1> QED
  BY <1>1, <1>2, <1>3, QueueIs

(* SendPacket puts the packet into the buffer.                             *)
LEMMA LinkBuffered ==
    ASSUME NEW g, NEW w, NEW o, NEW S \in SUBSET Packet, NEW held,
           Linked(g, w, o, <<>>, S, FALSE, held),
           NEW p \in Packet, OutCap - Len(o) >= Size[p], NEW X \in SUBSET Packet, NEW b
    PROVE  Linked(g, w, o \o Bytes(p), <<>>, X, FALSE, b)
<1> DEFINE s == w \o o
           y == Bytes(p)
<1>1. /\ o \in Seq(Byte) /\ Len(o) \in Nat /\ w \in Seq(Byte) /\ Len(w) =< WireCap
      /\ Flow(g, s) /\ Sending(g, s, <<>>, S, held)
  BY LinkedIs
<1>2. y \in Seq(Byte) /\ Len(y) = Size[p] /\ Size[p] \in Nat
  <2>1. Size[p] \in Nat /\ 0 \in Nat /\ 0 + Size[p] =< Size[p]
    BY SizeIs
  <2>2. /\ Span(p, 0, Size[p]) \in Seq(Byte) /\ Len(Span(p, 0, Size[p])) = Size[p]
        /\ Bytes(p) = Span(p, 0, Size[p])
    BY <2>1, SpanIs
  <2> QED
    BY <2>1, <2>2, Zenon
<1>3. w \o (o \o y) = s \o y
  <2>1. w \in Seq(Byte) /\ o \in Seq(Byte) /\ y \in Seq(Byte)
    BY <1>1, <1>2
  <2> HIDE DEF y
  <2> QED
    BY <2>1, ConcatAssociative
<1>4. o \o y \in Seq(Byte) /\ Len(o \o y) = Len(o) + Len(y)
  BY <1>1, <1>2, ConcatIs
<1>5. Len(o \o y) =< OutCap
  BY <1>1, <1>2, <1>4, Capacities
<1>6. Whole(g, s)
  BY <1>1 DEF Sending
<1> HIDE DEF s
<1>7. Flow(g, s \o y) /\ Sending(g, s \o y, <<>>, X, b)
  BY <1>1, <1>6, Buffered
<1> HIDE DEF y
<1> QED
  BY <1>1, <1>3, <1>4, <1>5, <1>7, Capacities DEF Linked, y

(* SendPacket puts the packet into the queue.                              *)
LEMMA LinkEnqueued ==
    ASSUME NEW g, NEW w, NEW o, NEW q, NEW S \in SUBSET Packet, NEW held,
           Linked(g, w, o, q, S, FALSE, held),
           NEW p \in Packet, QueueBytes(q) < HighWater, NEW b, held => b
    PROVE  Linked(g, w, o, Append(q, Bytes(p)), S \cup {p}, FALSE, b)
<1> DEFINE s == w \o o
           y == Bytes(p)
           u == Append(q, y)
<1>1. /\ o \in Seq(Byte) /\ Len(o) =< OutCap /\ w \in Seq(Byte) /\ Len(w) =< WireCap
      /\ Flow(g, s) /\ Sending(g, s, q, S, held) /\ q \in Seq(Seq(Byte))
  BY LinkedIs
<1>2. y \in Seq(Byte) /\ Len(y) = Size[p] /\ Size[p] \in Nat /\ Size[p] =< MaxSize
  <2>1. Size[p] \in Nat /\ 0 \in Nat /\ 0 + Size[p] =< Size[p] /\ Size[p] =< MaxSize
    BY SizeIs
  <2> QED
    BY <2>1, SpanIs
<1> HIDE DEF s
<1>3. Sending(g, s, u, S \cup {p}, held)
  BY <1>1, Enqueued
<1>4. Sending(g, s, u, S \cup {p}, b)
  BY <1>3, SendingStill
<1> HIDE DEF y
<1>5. QueueBytes(u) = QueueBytes(q) + Len(y) /\ QueueBytes(q) \in Nat
  <2>1. Len(q) \in Nat /\ \A i \in 1 .. Len(q) : Len(q[i]) \in Nat
    BY <1>1, QueueIs
  <2>2. Len(u) = Len(q) + 1 /\ u[Len(u)] = y /\ \A i \in 1 .. Len(q) : u[i] = q[i]
    BY <1>1, <1>2
  <2> HIDE DEF u
  <2>3. Extended(u, q, y)
    BY <1>2, <2>1, <2>2 DEF Extended
  <2> QED
    BY <2>3, OneBehind
<1>6. QueueBytes(u) < HighWater + MaxSize
  BY <1>2, <1>5, Capacities
<1> HIDE DEF u
<1>7. Linked(g, w, o, u, S \cup {p}, FALSE, b)
  BY <1>1, <1>4, <1>6 DEF Linked, s
<1> QED
  BY <1>7 DEF u, y

(* The sender closes: what it holds is gone, and the stream ends where it  *)
(* happens to end.                                                         *)
LEMMA LinkClosed ==
    ASSUME NEW g, NEW w, NEW o, NEW q, NEW S, NEW closed, NEW held,
           Linked(g, w, o, q, S, closed, held), NEW X, NEW b
    PROVE  Linked(g, w, <<>>, <<>>, X, TRUE, b)
<1>1. o \in Seq(Byte) /\ w \in Seq(Byte) /\ Len(w) =< WireCap /\ Flow(g, w \o o)
  BY DEF Linked
<1>2. /\ Len(w \o o) = Len(w) + Len(o) /\ \A i \in 1 .. Len(w) : (w \o o)[i] = w[i]
  BY <1>1, ConcatIs
<1> DEFINE s == w \o o
<1>3. Flow(g, s) /\ Len(w) =< Len(s) /\ \A i \in 1 .. Len(w) : w[i] = s[i]
  BY <1>1, <1>2
<1> HIDE DEF s
<1>4. Flow(g, w)
  BY <1>1, <1>3, FlowPrefix
<1>5. w \o <<>> = w
  BY <1>1, ConcatEmptySeq
<1>6. <<>> \in Seq(Byte) /\ Len(<<>>) =< OutCap
  BY Capacities
<1> QED
  BY <1>1, <1>4, <1>5, <1>6, Capacities DEF Linked

(* send() takes a part of the buffer, or all of it.                        *)
LEMMA LinkMoved ==
    ASSUME NEW g, NEW w, NEW o, NEW q, NEW S, NEW held, Linked(g, w, o, q, S, FALSE, held),
           NEW n \in 0 .. Len(o), n =< WireCap - Len(w), NEW b, held => b
    PROVE  Linked(g, w \o SubSeq(o, 1, n), Rest(o, n), q, S, FALSE, b)
<1> DEFINE x == SubSeq(o, 1, n)
           y == Rest(o, n)
<1>1. /\ o \in Seq(Byte) /\ Len(o) \in Nat /\ Len(o) =< OutCap
      /\ w \in Seq(Byte) /\ Len(w) \in Nat /\ QueueBytes(q) < HighWater + MaxSize
      /\ Flow(g, w \o o) /\ Sending(g, w \o o, q, S, held)
  BY LinkedIs
<1>2. /\ x \in Seq(Byte) /\ Len(x) = n /\ y \in Seq(Byte) /\ Len(y) = Len(o) - n /\ x \o y = o
  BY <1>1, SplitAt
<1> HIDE DEF x, y
<1>3. (w \o x) \o y = w \o o
  <2>0. w \in Seq(Byte) /\ x \in Seq(Byte) /\ y \in Seq(Byte)
    BY <1>1, <1>2
  <2>1. (w \o x) \o y = w \o (x \o y)
    BY <2>0, ConcatAssociative
  <2> QED
    BY <1>2, <2>1
<1>4. w \o x \in Seq(Byte) /\ Len(w \o x) = Len(w) + n
  BY <1>1, <1>2, ConcatIs
<1>5. Len(w \o x) =< WireCap /\ Len(y) =< OutCap
  BY <1>1, <1>2, <1>4, Capacities
<1> DEFINE s == w \o o
<1>6. Flow(g, s) /\ Sending(g, s, q, S, held)
  BY <1>1
<1> HIDE DEF s
<1>7. Sending(g, s, q, S, b)
  BY <1>6, SendingStill
<1>8. Linked(g, w \o x, y, q, S, FALSE, b)
  BY <1>1, <1>2, <1>3, <1>4, <1>5, <1>6, <1>7 DEF Linked, s
<1> QED
  BY <1>8 DEF x, y

(* send() takes the whole buffer.                                          *)
LEMMA LinkFlushed ==
    ASSUME NEW g, NEW w, NEW o, NEW q, NEW S, NEW held, Linked(g, w, o, q, S, FALSE, held),
           Len(o) =< WireCap - Len(w)
    PROVE  Linked(g, w \o o, <<>>, q, S, FALSE, held)
<1> DEFINE s == w \o o
<1>1. /\ o \in Seq(Byte) /\ Len(o) \in Nat
      /\ w \in Seq(Byte) /\ Len(w) \in Nat /\ QueueBytes(q) < HighWater + MaxSize
      /\ Flow(g, s) /\ Sending(g, s, q, S, held)
  BY LinkedIs
<1>2. s \in Seq(Byte) /\ Len(s) = Len(w) + Len(o)
  BY <1>1, ConcatIs
<1> HIDE DEF s
<1>3. s \o <<>> = s
  BY <1>2, ConcatEmptySeq
<1>4. <<>> \in Seq(Byte) /\ Len(<<>>) =< OutCap /\ Len(s) =< WireCap
  BY <1>1, <1>2, Capacities
<1>5. Linked(g, s, <<>>, q, S, FALSE, held)
  BY <1>1, <1>2, <1>3, <1>4 DEF Linked
<1> QED
  BY <1>5 DEF s

(* With an empty buffer the queue follows what is on its way.              *)
LEMMA LinkQueue ==
    ASSUME NEW g, NEW w, NEW q, NEW S, NEW held, Linked(g, w, <<>>, q, S, FALSE, held)
    PROVE  /\ w \in Seq(Byte) /\ Len(w) \in Nat /\ Len(w) =< WireCap /\ q \in Seq(Seq(Byte))
           /\ Flow(g, w) /\ Sending(g, w, q, S, held) /\ QueueBytes(q) < HighWater + MaxSize
<1>1. /\ w \in Seq(Byte) /\ Len(w) \in Nat /\ Len(w) =< WireCap /\ q \in Seq(Seq(Byte))
      /\ Flow(g, w \o <<>>) /\ Sending(g, w \o <<>>, q, S, held)
      /\ QueueBytes(q) < HighWater + MaxSize
  BY LinkedIs
<1>2. w \o <<>> = w
  BY <1>1, ConcatEmptySeq
<1> QED
  BY <1>1, <1>2

(* ... and the other way round.                                            *)
LEMMA QueueLink ==
    ASSUME NEW g, NEW w \in Seq(Byte), Len(w) =< WireCap, NEW q, NEW S, NEW held,
           Flow(g, w), Sending(g, w, q, S, held), QueueBytes(q) < HighWater + MaxSize
    PROVE  Linked(g, w, <<>>, q, S, FALSE, held)
<1>1. w \o <<>> = w
  BY ConcatEmptySeq
<1>2. <<>> \in Seq(Byte) /\ Len(<<>>) =< OutCap
  BY Capacities
<1> QED
  BY <1>1, <1>2 DEF Linked

(* send() takes the block at the head of the queue.                        *)
LEMMA LinkSent ==
    ASSUME NEW g, NEW w, NEW q, NEW S \in SUBSET Packet, NEW held,
           Linked(g, w, <<>>, q, S, FALSE, held), q # <<>>,
           Len(Head(q)) =< WireCap - Len(w), NEW b
    PROVE  Linked(g, w \o Head(q), <<>>, Tail(q), S, FALSE, b)
<1> DEFINE t == w \o Head(q)
           r == Tail(q)
<1>1. /\ w \in Seq(Byte) /\ Len(w) \in Nat /\ Len(w) =< WireCap /\ q \in Seq(Seq(Byte))
      /\ Flow(g, w) /\ Sending(g, w, q, S, held) /\ QueueBytes(q) < HighWater + MaxSize
  BY LinkQueue
<1>2. /\ QueueBytes(r) \in Nat /\ QueueBytes(q) = Len(Head(q)) + QueueBytes(r)
      /\ Head(q) \in Seq(Byte) /\ Len(Head(q)) \in Nat
  <2>1. Head(q) \in Seq(Byte) /\ Len(Head(q)) \in Nat
    BY <1>1
  <2> QED
    BY <1>1, <2>1, QueueIs
<1>3. Flow(g, t) /\ Sending(g, t, r, S, b)
  BY <1>1, SentWhole
<1>4. t \in Seq(Byte) /\ Len(t) = Len(w) + Len(Head(q))
  BY <1>1, <1>2, ConcatIs
<1> HIDE DEF t, r
<1>5. Len(t) =< WireCap /\ QueueBytes(r) < HighWater + MaxSize
  BY <1>1, <1>2, <1>4, Capacities
<1>6. Linked(g, t, <<>>, r, S, FALSE, b)
  BY <1>3, <1>4, <1>5, QueueLink
<1> QED
  BY <1>6 DEF t, r

(* send() takes a part of it, and enqueue_head takes the rest back.        *)
LEMMA LinkPart ==
    ASSUME NEW g, NEW w, NEW q, NEW S \in SUBSET Packet, NEW held,
           Linked(g, w, <<>>, q, S, FALSE, held), q # <<>>, QueueBytes(Tail(q)) < HighWater,
           NEW n \in 1 .. Len(Head(q)) - 1, n =< WireCap - Len(w)
    PROVE  Linked(g, w \o SubSeq(Head(q), 1, n), <<>>, <<Rest(Head(q), n)>> \o Tail(q), S, FALSE, TRUE)
<1> DEFINE x == SubSeq(Head(q), 1, n)
           y == Rest(Head(q), n)
           t == w \o x
           u == <<y>> \o Tail(q)
<1>1. /\ w \in Seq(Byte) /\ Len(w) \in Nat /\ Len(w) =< WireCap /\ q \in Seq(Seq(Byte))
      /\ Flow(g, w) /\ Sending(g, w, q, S, held) /\ QueueBytes(q) < HighWater + MaxSize
  BY LinkQueue
<1>2. Head(q) \in Seq(Byte) /\ Len(Head(q)) \in Nat /\ n \in 0 .. Len(Head(q)) /\ n \in Nat \ {0}
  BY <1>1
<1>3. x \in Seq(Byte) /\ Len(x) = n /\ y \in Seq(Byte) /\ Len(y) = Len(Head(q)) - n
  BY <1>2, SplitAt
<1>4. Flow(g, t) /\ Sending(g, t, u, S, TRUE)
  BY <1>1, SentPart
<1>5. Len(Head(q)) =< MaxSize
  <2>1. PICK p \in S : \E k \in Nat : HeadAt(g, w, q, p, k, held)
    BY <1>1, HeadIs
  <2>2. PICK k \in Nat : HeadAt(g, w, q, p, k, held)
    BY <2>1
  <2>3. p \in Packet /\ Size[p] \in Nat /\ Len(Head(q)) = Size[p] - k /\ Size[p] =< MaxSize
    BY <2>2, SizeIs DEF HeadAt
  <2> QED
    BY <2>3, Capacities
<1> HIDE DEF x, y
<1>6. t \in Seq(Byte) /\ Len(t) = Len(w) + n
  BY <1>1, <1>3, ConcatIs
<1>7. /\ Tail(q) \in Seq(Seq(Byte)) /\ <<y>> \in Seq(Seq(Byte)) /\ Len(<<y>>) = 1 /\ <<y>>[1] = y
  BY <1>1, <1>3
<1>8. /\ u \in Seq(Seq(Byte)) /\ Len(u) = 1 + Len(Tail(q)) /\ u # <<>>
      /\ u[1] = y /\ \A i \in 1 .. Len(Tail(q)) : u[1 + i] = Tail(q)[i]
  <2>1. /\ u \in Seq(Seq(Byte)) /\ Len(u) = Len(<<y>>) + Len(Tail(q))
        /\ \A i \in 1 .. Len(<<y>>) : u[i] = <<y>>[i]
        /\ \A i \in 1 .. Len(Tail(q)) : u[Len(<<y>>) + i] = Tail(q)[i]
    BY <1>7, ConcatIs
  <2> HIDE DEF u
  <2>2. Len(Tail(q)) \in Nat /\ 1 \in 1 .. 1
    BY <1>7
  <2>3. Len(u) = 1 + Len(Tail(q)) /\ u[1] = y
    BY <1>7, <2>1, <2>2
  <2>4. u # <<>>
    BY <2>2, <2>3
  <2> QED
    BY <1>7, <2>1, <2>3, <2>4
<1>9. QueueBytes(u) = Len(y) + QueueBytes(Tail(q)) /\ QueueBytes(Tail(q)) \in Nat
  <2> DEFINE r == Tail(q)
  <2>1. Len(r) \in Nat /\ \A i \in 1 .. Len(r) : Len(r[i]) \in Nat
    BY <1>7, QueueIs
  <2>2. /\ Len(u) = 1 + Len(r) /\ u[1] = y /\ \A i \in 1 .. Len(r) : u[1 + i] = r[i]
    BY <1>8
  <2> HIDE DEF u, r
  <2>3. Longer(u, r)
    BY <1>2, <1>3, <2>1, <2>2 DEF Longer
  <2>4. QueueBytes(r) \in Nat /\ QueueBytes(u) = Len(u[1]) + QueueBytes(r)
    BY <2>3, OneMore
  <2>5. QueueBytes(r) \in Nat /\ QueueBytes(u) = Len(y) + QueueBytes(r)
    BY <2>2, <2>4
  <2> QED
    BY <2>5, Zenon DEF r
<1> HIDE DEF t, u
<1>10. Len(t) =< WireCap /\ QueueBytes(u) < HighWater + MaxSize
  <2>1. Len(t) =< WireCap
    BY <1>1, <1>2, <1>3, <1>5, <1>6, Capacities
  <2> DEFINE a == Len(Head(q))
             b == QueueBytes(Tail(q))
  <2>2. Len(y) = a - n /\ a \in Nat /\ n \in Nat /\ n =< a /\ n # 0
    BY <1>2, <1>3
  <2>3. QueueBytes(u) = Len(y) + b /\ b \in Nat
    BY <1>9
  <2>4. a =< MaxSize /\ b < HighWater /\ HighWater \in Nat /\ MaxSize \in Nat
    BY <1>1, <1>5, Capacities
  <2> HIDE DEF a, b, u, y
  <2>5. QueueBytes(u) < HighWater + MaxSize
    BY <2>2, <2>3, <2>4
  <2> QED
    BY <2>1, <2>5
<1>11. Linked(g, t, <<>>, u, S, FALSE, TRUE)
  BY <1>4, <1>6, <1>10, QueueLink
<1> QED
  BY <1>11 DEF t, u, x, y

(* send() takes nothing, and enqueue_head does not take the block back.    *)
LEMMA LinkDropped ==
    ASSUME NEW g, NEW w, NEW q, NEW S \in SUBSET Packet,
           Linked(g, w, <<>>, q, S, FALSE, FALSE), q # <<>>, NEW b
    PROVE  Linked(g, w, <<>>, Tail(q), S, FALSE, b) /\ Head(q)[1][1] \in S
<1> DEFINE r == Tail(q)
<1>1. /\ w \in Seq(Byte) /\ Len(w) \in Nat /\ Len(w) =< WireCap /\ q \in Seq(Seq(Byte))
      /\ Flow(g, w) /\ Sending(g, w, q, S, FALSE) /\ QueueBytes(q) < HighWater + MaxSize
  BY LinkQueue
<1>2. /\ QueueBytes(r) \in Nat /\ QueueBytes(q) = Len(Head(q)) + QueueBytes(r)
      /\ Len(Head(q)) \in Nat
  <2>1. Len(Head(q)) \in Nat
    BY <1>1
  <2> QED
    BY <1>1, <2>1, QueueIs
<1>3. Sending(g, w, r, S, FALSE) /\ Head(q)[1][1] \in S
  BY <1>1, HeadDropped
<1> HIDE DEF r
<1>4. QueueBytes(r) < HighWater + MaxSize
  BY <1>1, <1>2, Capacities
<1>5. Sending(g, w, r, S, b)
  BY <1>3, SendingStill
<1>6. Linked(g, w, <<>>, r, S, FALSE, b)
  BY <1>1, <1>4, <1>5, QueueLink
<1> QED
  BY <1>3, <1>6 DEF r

(* The rest of a block may stay at the head of the queue.                  *)
LEMMA LinkStill ==
    ASSUME NEW g, NEW w, NEW o, NEW q, NEW S, NEW closed \in BOOLEAN, NEW held,
           Linked(g, w, o, q, S, closed, held), NEW b, held => b
    PROVE  Linked(g, w, o, q, S, closed, b)
<1> DEFINE s == w \o o
<1>1. /\ o \in Seq(Byte) /\ Len(o) =< OutCap /\ w \in Seq(Byte) /\ Len(w) =< WireCap
      /\ QueueBytes(q) < HighWater + MaxSize /\ Flow(g, s)
      /\ closed = TRUE => q = <<>>
      /\ closed = FALSE => Sending(g, s, q, S, held)
  BY DEF Linked
<1> HIDE DEF s
<1>2. closed = FALSE => Sending(g, s, q, S, b)
  BY <1>1, SendingStill
<1> QED
  BY <1>1, <1>2 DEF Linked, s

\* The receiver, which had g and Q, after n bytes of w.
Reached(g, Q, w, n) == Read([got |-> g, rq |-> Q, ok |-> TRUE], w)[n]

(* recv() returns n bytes.                                                 *)
LEMMA LinkRead ==
    ASSUME NEW g, NEW w, NEW o, NEW q, NEW S \in SUBSET Packet, NEW closed, NEW held,
           Linked(g, w, o, q, S, closed, held), NEW n \in 1 .. Len(w), NEW Q \in [Classes -> Seq(Packet)]
    PROVE  /\ Reached(g, Q, w, n).rq \in [Classes -> Seq(Packet)] /\ Reached(g, Q, w, n).ok = TRUE
           /\ Linked(Reached(g, Q, w, n).got, SubSeq(w, n + 1, Len(w)), o, q, S, closed, held)
<1> DEFINE s == w \o o
           i0 == [got |-> g, rq |-> Q, ok |-> TRUE]
           r == Reached(g, Q, w, n)
           x == Rest(w, n)
           t == x \o o
<1>1. /\ o \in Seq(Byte) /\ Len(o) =< OutCap /\ w \in Seq(Byte) /\ Len(w) =< WireCap
      /\ QueueBytes(q) < HighWater + MaxSize /\ Flow(g, s)
      /\ closed = TRUE => q = <<>>
      /\ closed = FALSE => Sending(g, s, q, S, held)
  BY DEF Linked
<1>2. /\ s \in Seq(Byte) /\ Len(s) = Len(w) + Len(o) /\ Len(w) \in Nat /\ Len(o) \in Nat
      /\ \A i \in 1 .. Len(w) : s[i] = w[i]
      /\ \A i \in 1 .. Len(o) : s[Len(w) + i] = o[i]
  BY <1>1, ConcatIs
<1>3. Part(g)
  BY <1>1 DEF Flow
<1> HIDE DEF s
<1>4. Taken(i0, g, s, 0)
  BY <1>3 DEF Taken
<1> HIDE DEF i0
<1>5. \A m \in 0 .. Len(w) : Taken(Read(i0, w)[m], g, s, m)
  <2>1. Len(w) =< Len(s) /\ \A i \in 1 .. Len(w) : w[i] = s[i]
    BY <1>2
  <2> QED
    BY <1>1, <1>2, <1>4, <2>1, ReadTaken
<1>6. n \in 0 .. Len(w) /\ n # 0 /\ n \in 1 .. Len(s) /\ n \in Nat
  BY <1>2
<1>7. Taken(r, g, s, n)
  BY <1>5, <1>6 DEF Reached, i0
<1> HIDE DEF r
<1>8. r.rq \in [Classes -> Seq(Packet)] /\ r.ok = TRUE /\ Part(r.got) /\ Took(r.got, s[n])
  BY <1>6, <1>7 DEF Taken
<1>9. /\ x \in Seq(Byte) /\ Len(x) = Len(w) - n /\ \A i \in 1 .. Len(w) - n : x[i] = w[n + i]
  BY <1>1, <1>6, SplitAt
<1> HIDE DEF x
<1>10. /\ t \in Seq(Byte) /\ Len(t) = Len(x) + Len(o)
       /\ \A i \in 1 .. Len(x) : t[i] = x[i]
       /\ \A i \in 1 .. Len(o) : t[Len(x) + i] = o[i]
  <2>1. x \in Seq(Byte) /\ o \in Seq(Byte)
    BY <1>1, <1>9
  <2> QED
    BY <2>1, ConcatIs
<1> HIDE DEF t
<1>11. Remains(t, s, n)
  <2>1. Len(t) = Len(s) - n
    BY <1>2, <1>6, <1>9, <1>10
  <2>2. ASSUME NEW i \in 1 .. Len(t) PROVE t[i] = s[n + i]
    <3>1. CASE i =< Len(x)
      <4>1. i \in 1 .. Len(x) /\ i \in 1 .. Len(w) - n /\ n + i \in 1 .. Len(w)
        BY <1>2, <1>6, <1>9, <3>1
      <4> QED
        BY <1>2, <1>9, <1>10, <4>1
    <3>2. CASE i > Len(x)
      <4> DEFINE j == i - Len(x)
      <4>1. j \in 1 .. Len(o) /\ i = Len(x) + j /\ n + i = Len(w) + j
        BY <1>2, <1>6, <1>9, <1>10, <3>2
      <4> HIDE DEF j
      <4> QED
        BY <1>2, <1>10, <4>1
    <3> QED
      BY <1>2, <1>6, <1>9, <3>1, <3>2
  <2> QED
    BY <1>10, <2>1, <2>2 DEF Remains
<1>12. /\ Flow(r.got, t) /\ (Whole(g, s) => Whole(r.got, t))
       /\ \A p \in Packet : \A k \in 1 .. Size[p] - 1 : Within(g, s, p, k) => Within(r.got, t, p, k)
  BY <1>1, <1>6, <1>8, <1>11, FlowOn
<1>13. closed = FALSE => Sending(r.got, t, q, S, held)
  <2> SUFFICES ASSUME closed = FALSE PROVE Sending(r.got, t, q, S, held)
    OBVIOUS
  <2>1. Sending(g, s, q, S, held)
    BY <1>1
  <2> DEFINE h == r.got
  <2>2. /\ Whole(g, s) => Whole(h, t)
        /\ \A p \in Packet : \A k \in 1 .. Size[p] - 1 : Within(g, s, p, k) => Within(h, t, p, k)
    BY <1>12
  <2> HIDE DEF h
  <2>3. Sending(h, t, q, S, held)
    BY <2>1, <2>2, SendingRead
  <2> QED
    BY <2>3 DEF h
<1>14. Len(x) =< WireCap
  BY <1>1, <1>2, <1>6, <1>9, Capacities
<1>15. Linked(r.got, x, o, q, S, closed, held)
  BY <1>1, <1>9, <1>12, <1>13, <1>14 DEF Linked, t
<1>16. SubSeq(w, n + 1, Len(w)) = x
  BY DEF x, Rest
<1> QED
  BY <1>8, <1>15, <1>16 DEF r

-----------------------------------------------------------------------------
(* The invariant.                                                          *)

(* The rest of a block that was sent in part is at the head of the queue   *)
(* only while the buffer is empty and the reactor alone, which waits until *)
(* the stream is writable, calls handle_output.                            *)
Held == out = <<>> /\ ~again /\ (hub \/ active)

(* Inductive strengthening of TypeOK and InStep: what the receiver has,    *)
(* the stream, the buffer and the queue are one stream of packets.  A      *)
(* block is dropped by the unchecked enqueue_head when nothing of it could *)
(* be sent; that it is then a whole packet, and not the rest of one, rests *)
(* on Held.                                                                *)
StreamInv ==
    /\ sClosing \in BOOLEAN /\ rClosing \in BOOLEAN /\ garbled = FALSE
    /\ sent \in SUBSET Packet /\ dropped \subseteq sent
    /\ rq \in [Classes -> Seq(Packet)] /\ handled \in [Classes -> Seq(Packet)]
    /\ Linked(got, wire, out, queue, sent, sClosing, Held)

(* The initial state.                                                      *)
LEMMA StreamInit == Init => StreamInv
<1> SUFFICES ASSUME Init PROVE StreamInv
  OBVIOUS
<1>1. /\ out = <<>> /\ queue = <<>> /\ wire = <<>> /\ got = <<>> /\ sent = {} /\ dropped = {}
      /\ sClosing = FALSE /\ rClosing = FALSE /\ garbled = FALSE
      /\ rq = [c \in Classes |-> <<>>] /\ handled = [c \in Classes |-> <<>>]
  BY DEF Init
<1>2. rq \in [Classes -> Seq(Packet)] /\ handled \in [Classes -> Seq(Packet)]
  BY <1>1
<1>3. /\ <<>> \in Seq(Byte) /\ Len(<<>>) = 0 /\ <<>> \in Seq(Seq(Byte))
  OBVIOUS
<1>4. Flow(<<>>, <<>>) /\ Sending(<<>>, <<>>, <<>>, {}, Held)
  BY <1>3 DEF Flow, Part, Chain, Sending, Whole
<1>5. Len(<<>>) =< WireCap
  BY <1>3, Capacities
<1>6. Linked(<<>>, <<>>, <<>>, <<>>, {}, FALSE, Held)
  BY <1>3, <1>4, <1>5, Capacities, QueueLink
<1> QED
  BY <1>1, <1>2, <1>6 DEF StreamInv

(* The sender closes.                                                      *)
LEMMA StreamClosed ==
    ASSUME StreamInv, CloseSender, UNCHANGED <<wire, recvVars>>, sent' \in SUBSET Packet,
           dropped' \subseteq sent'
    PROVE  StreamInv'
<1>1. /\ got' = got /\ wire' = wire /\ out' = <<>> /\ queue' = <<>> /\ sClosing' = TRUE
      /\ rClosing' = rClosing /\ garbled' = garbled /\ rq' = rq /\ handled' = handled
  BY DEF CloseSender, recvVars
<1>2. Linked(got, wire, out, queue, sent, sClosing, Held)
  BY DEF StreamInv
<1> HIDE DEF Held
<1>3. Linked(got, wire, <<>>, <<>>, sent', TRUE, Held')
  BY <1>2, LinkClosed
<1> QED
  BY <1>1, <1>3 DEF StreamInv

(* SendPacket.                                                             *)
LEMMA StreamSend ==
    ASSUME StreamInv, WakeupInv, NEW p \in Packet, SendPacket(p)
    PROVE  StreamInv'
<1>1. /\ sClosing = FALSE /\ sent' = sent \cup {p} /\ sent \in SUBSET Packet /\ hub' = hub
      /\ dropped' = dropped /\ wire' = wire /\ UNCHANGED recvVars /\ dropped \subseteq sent
      /\ hub \in BOOLEAN
  BY DEF SendPacket, StreamInv, WakeupInv, FlagTypes
<1>2. sent' \in SUBSET Packet /\ dropped' \subseteq sent'
  BY <1>1
<1>3. /\ got' = got /\ rClosing' = rClosing /\ garbled' = garbled /\ rq' = rq /\ handled' = handled
  BY <1>1 DEF recvVars
<1>4. Linked(got, wire, out, queue, sent, FALSE, Held)
  BY <1>1 DEF StreamInv
<1>5. CASE CloseSender
  BY <1>1, <1>2, <1>5, StreamClosed
<1>6. CASE FitsBuffer(p) /\ out' = out \o Bytes(p) /\ queue' = queue /\ sClosing' = sClosing
  <2>1. queue = <<>> /\ OutCap - Len(out) >= Size[p]
    BY <1>6 DEF FitsBuffer
  <2>2. Linked(got, wire, out, <<>>, sent, FALSE, Held)
    BY <1>4, <2>1
  <2>3. Linked(got, wire, out \o Bytes(p), <<>>, sent', FALSE, Held')
    BY <1>1, <1>2, <2>1, <2>2, LinkBuffered
  <2> QED
    BY <1>1, <1>2, <1>3, <1>6, <2>1, <2>3 DEF StreamInv
<1>7. CASE /\ ~Full(queue) /\ queue' = Append(queue, Bytes(p)) /\ UNCHANGED <<out, again, sClosing>>
           /\ IF hub THEN Schedule ELSE UNCHANGED <<wakeup, active, reg>>
  <2>1. Held => Held'
    BY <1>1, <1>7 DEF Held
  <2>2. QueueBytes(queue) < HighWater
    <3>1. QueueBytes(queue) \in Nat
      BY <1>4, LinkedIs
    <3> QED
      BY <1>7, <3>1, Capacities DEF Full
  <2> HIDE DEF Held
  <2>3. Linked(got, wire, out, Append(queue, Bytes(p)), sent \cup {p}, FALSE, Held')
    BY <1>1, <1>4, <2>1, <2>2, LinkEnqueued
  <2> QED
    BY <1>1, <1>2, <1>3, <1>7, <2>3 DEF StreamInv
<1> QED
  BY <1>5, <1>6, <1>7 DEF SendPacket

(* The lesser of two numbers.                                              *)
LEMMA LeastIs ==
    ASSUME NEW a \in Nat, NEW b \in Nat
    PROVE  Least(a, b) \in Nat /\ Least(a, b) =< a /\ Least(a, b) =< b /\ Least(a, b) \in {a, b}
  BY DEF Least

(* handle_output has sent the buffer, and goes on with the queue.          *)
LEMMA StreamQueue ==
    ASSUME StreamInv, FlagTypes, ~sClosing, UNCHANGED <<hub, sent, recvVars>>,
           NEW w, Linked(got, w, <<>>, queue, sent, FALSE, Held),
           Len(w) = WireCap => ~Held, HandleOutputQueue(w)
    PROVE  StreamInv'
<1>1. /\ sClosing = FALSE /\ sent' = sent /\ sent \in SUBSET Packet /\ hub' = hub
      /\ dropped \subseteq sent /\ hub \in BOOLEAN
      /\ got' = got /\ rClosing' = rClosing /\ garbled' = garbled /\ rq' = rq /\ handled' = handled
  BY DEF StreamInv, FlagTypes, recvVars
<1>2. w \in Seq(Byte) /\ Len(w) \in Nat /\ Len(w) =< WireCap /\ queue \in Seq(Seq(Byte))
  BY LinkQueue
<1>3. ASSUME sClosing' = FALSE, dropped' \subseteq sent, out' = <<>>,
             Linked(got, wire', <<>>, queue', sent, FALSE, Held')
      PROVE  StreamInv'
  BY <1>1, <1>3 DEF StreamInv
<1>4. CASE queue = <<>>
  <2>1. /\ wire' = w /\ queue' = queue /\ sClosing' = FALSE /\ dropped' = dropped /\ out' = <<>>
    BY <1>1, <1>4 DEF HandleOutputQueue
  <2> HIDE DEF Held
  <2>2. Sending(got, w, <<>>, sent, Held) /\ Flow(got, w) /\ QueueBytes(<<>>) < HighWater + MaxSize
    BY <1>4, LinkQueue
  <2>3. Sending(got, w, <<>>, sent, Held')
    BY <2>2 DEF Sending
  <2>4. Linked(got, w, <<>>, <<>>, sent, FALSE, Held')
    BY <1>2, <2>2, <2>3, QueueLink
  <2> QED
    BY <1>1, <1>3, <1>4, <2>1, <2>4
<1>5. CASE queue # <<>>
  <2> DEFINE b == Head(queue)
             room == WireCap - Len(w)
             n == Least(Len(b), room)
  <2>1. b \in Seq(Byte) /\ Len(b) \in Nat /\ room \in Nat
    BY <1>2, <1>5, Capacities
  <2>2. n \in Nat /\ n =< Len(b) /\ n =< room /\ n \in {Len(b), room}
    BY <2>1, LeastIs
  <2> HIDE DEF n
  <2>3. Len(b) # 0
    <3>1. Sending(got, w, queue, sent, Held)
      BY LinkQueue
    <3>2. PICK p \in sent : \E k \in Nat : HeadAt(got, w, queue, p, k, Held)
      <4> HIDE DEF Held
      <4> QED
        BY <1>1, <1>5, <3>1, HeadIs
    <3> QED
      BY <3>2 DEF HeadAt
  <2>4. CASE /\ n = Len(b) /\ wire' = w \o b /\ queue' = Tail(queue) /\ UNCHANGED <<sClosing, dropped>>
             /\ out' = <<>>
    <3> HIDE DEF Held
    <3>1. Len(Head(queue)) =< WireCap - Len(w)
      BY <2>2, <2>4
    <3>2. Linked(got, w \o Head(queue), <<>>, Tail(queue), sent, FALSE, Held')
      BY <1>1, <1>5, <3>1, LinkSent
    <3> QED
      BY <1>1, <1>3, <2>4, <3>2
  <2>5. CASE /\ n = 0 /\ n # Len(b) /\ wire' = w
             /\ queue' = IF Full(Tail(queue)) THEN Tail(queue) ELSE queue
             /\ dropped' = IF Full(Tail(queue)) THEN dropped \cup {b[1][1]} ELSE dropped
             /\ UNCHANGED sClosing /\ out' = <<>>
    <3>1. Held = FALSE
      <4>1. Len(w) = WireCap
        BY <1>2, <2>1, <2>2, <2>5, Capacities
      <4> QED
        BY <4>1 DEF Held
    <3>2. Linked(got, w, <<>>, queue, sent, FALSE, FALSE)
      BY <3>1
    <3> HIDE DEF Held
    <3>3. Linked(got, w, <<>>, Tail(queue), sent, FALSE, Held') /\ b[1][1] \in sent
      BY <1>1, <1>5, <3>2, LinkDropped
    <3>4. Linked(got, w, <<>>, queue, sent, FALSE, Held')
      BY <3>2, LinkStill
    <3>5. CASE Full(Tail(queue))
      BY <1>1, <1>3, <2>5, <3>3, <3>5
    <3>6. CASE ~Full(Tail(queue))
      BY <1>1, <1>3, <2>5, <3>4, <3>6
    <3> QED
      BY <3>5, <3>6
  <2>6. CASE /\ n \in 1 .. Len(b) - 1 /\ wire' = w \o SubSeq(b, 1, n) /\ UNCHANGED dropped
             /\ ~Full(Tail(queue)) /\ queue' = <<Rest(b, n)>> \o Tail(queue) /\ Schedule
             /\ again' = FALSE /\ UNCHANGED sClosing /\ out' = <<>>
    <3>1. Held' = TRUE
      <4>1. out' = <<>> /\ again' = FALSE /\ active' = (~hub) /\ hub' = hub
        BY <1>1, <2>6 DEF Schedule
      <4>2. hub' \/ active'
        <5>1. CASE hub = TRUE
          BY <4>1, <5>1
        <5>2. CASE hub = FALSE
          <6>1. active' = TRUE
            BY <4>1, <5>2
          <6> QED
            BY <6>1
        <5> QED
          BY <1>1, <5>1, <5>2
      <4>3. Held'
        BY <4>1, <4>2 DEF Held
      <4>4. Held' \in BOOLEAN
        BY DEF Held
      <4> HIDE DEF Held
      <4> QED
        BY <4>3, <4>4
    <3>2. QueueBytes(Tail(queue)) < HighWater
      <4>1. QueueBytes(Tail(queue)) \in Nat
        BY <1>2, <1>5, QueueIs
      <4> QED
        BY <2>6, <4>1, Capacities DEF Full
    <3>3. n \in 1 .. Len(Head(queue)) - 1 /\ n =< WireCap - Len(w)
      BY <2>2, <2>6
    <3> HIDE DEF Held
    <3>4. Linked(got, w \o SubSeq(Head(queue), 1, n), <<>>, <<Rest(Head(queue), n)>> \o Tail(queue),
                 sent, FALSE, TRUE)
      BY <1>1, <1>5, <3>2, <3>3, LinkPart
    <3> QED
      BY <1>1, <1>3, <2>6, <3>1, <3>4
  <2>7. CASE n \in 1 .. Len(b) - 1 /\ wire' = w \o SubSeq(b, 1, n) /\ UNCHANGED dropped /\ CloseSender
    <3> DEFINE x == SubSeq(b, 1, n)
               t == w \o x
    <3>1. x \in Seq(Byte) /\ Len(x) = n
      BY <2>1, <2>2, SplitAt
    <3>2. Flow(got, w) /\ Sending(got, w, queue, sent, Held)
      BY LinkQueue
    <3>3. n \in 1 .. Len(Head(queue)) - 1
      BY <2>7
    <3>4. Flow(got, t)
      <4> HIDE DEF Held
      <4> QED
        BY <1>1, <1>5, <3>2, <3>3, SentPart
    <3> HIDE DEF x
    <3>5. t \in Seq(Byte) /\ Len(t) = Len(w) + n
      BY <1>2, <3>1, ConcatIs
    <3> HIDE DEF t, Held
    <3>6. Len(t) =< WireCap
      BY <1>2, <2>1, <2>2, <3>5, Capacities
    <3>7. t \o <<>> = t /\ <<>> \in Seq(Byte) /\ Len(<<>>) =< OutCap
      BY <3>5, Capacities, ConcatEmptySeq
    <3>8. Linked(got, t, <<>>, <<>>, sent, TRUE, Held')
      BY <3>4, <3>5, <3>6, <3>7, Capacities DEF Linked
    <3>9. wire' = t /\ dropped' = dropped
      BY <2>7 DEF t, x
    <3>10. sClosing' = TRUE /\ out' = <<>> /\ queue' = <<>>
      BY <2>7 DEF CloseSender
    <3> QED
      BY <1>1, <3>8, <3>9, <3>10 DEF StreamInv
  <2> QED
    BY <1>5, <2>4, <2>5, <2>6, <2>7, <2>3 DEF HandleOutputQueue, n
<1> QED
  BY <1>4, <1>5

(* handle_output.                                                          *)
LEMMA StreamOutput ==
    ASSUME StreamInv, WakeupInv, HandleOutput
    PROVE  StreamInv'
<1>1. /\ sClosing = FALSE /\ UNCHANGED <<hub, sent, recvVars>> /\ FlagTypes /\ ~sClosing
      /\ sent \in SUBSET Packet /\ dropped \subseteq sent
  BY DEF HandleOutput, OutputDue, StreamInv, WakeupInv
<1>2. Linked(got, wire, out, queue, sent, FALSE, Held)
  BY <1>1 DEF StreamInv
<1>3. /\ out \in Seq(Byte) /\ Len(out) \in Nat /\ wire \in Seq(Byte) /\ Len(wire) \in Nat
      /\ Len(wire) =< WireCap
  BY <1>2, LinkedIs
<1> DEFINE n == Least(Len(out), Free)
<1>4. /\ Free \in Nat /\ Free = WireCap - Len(wire)
      /\ n \in Nat /\ n =< Len(out) /\ n =< Free
  <2>1. Free \in Nat /\ Free = WireCap - Len(wire)
    BY <1>3, Capacities DEF Free
  <2>2. n \in Nat /\ n =< Len(out) /\ n =< Free
    BY <1>3, <2>1, LeastIs
  <2> QED
    BY <2>1, <2>2
<1> HIDE DEF n
<1>5. CASE n = Len(out) /\ HandleOutputQueue(wire \o out)
  <2> DEFINE w == wire \o out
  <2>1. Linked(got, w, <<>>, queue, sent, FALSE, Held)
    <3>1. Len(out) =< WireCap - Len(wire)
      BY <1>4, <1>5
    <3> HIDE DEF Held
    <3> QED
      BY <1>2, <3>1, LinkFlushed
  <2>2. ASSUME Len(w) = WireCap, Held PROVE FALSE
    <3>1. out = <<>> /\ ~again /\ (hub \/ active)
      BY <2>2 DEF Held
    <3>2. wire \o <<>> = wire
      BY <1>3, ConcatEmptySeq
    <3>3. Free = 0
      BY <1>3, <1>4, <2>2, <3>1, <3>2
    <3> QED
      BY <3>1, <3>3 DEF HandleOutput, OutputDue
  <2>3. HandleOutputQueue(w)
    BY <1>5
  <2> HIDE DEF w
  <2>4. Len(w) = WireCap => ~Held
    BY <2>2
  <2> QED
    BY <1>1, <2>1, <2>3, <2>4, StreamQueue
<1>6. CASE /\ n < Len(out) /\ wire' = wire \o SubSeq(out, 1, n) /\ out' = Rest(out, n)
           /\ UNCHANGED <<queue, sClosing, dropped>>
  <2>1. n \in 0 .. Len(out) /\ n =< WireCap - Len(wire) /\ out # <<>>
    BY <1>3, <1>4, <1>6
  <2>2. Held => Held'
    BY <2>1 DEF Held
  <2> HIDE DEF Held
  <2>3. Linked(got, wire \o SubSeq(out, 1, n), Rest(out, n), queue, sent, FALSE, Held')
    BY <1>2, <2>1, <2>2, LinkMoved
  <2> QED
    BY <1>1, <1>6, <2>3 DEF StreamInv, recvVars
<1> QED
  BY <1>5, <1>6 DEF HandleOutput, n

(* handle_input.                                                           *)
LEMMA StreamInput ==
    ASSUME StreamInv, HandleInput
    PROVE  StreamInv'
<1>1. /\ sent \in SUBSET Packet /\ sClosing \in BOOLEAN /\ rq \in [Classes -> Seq(Packet)]
      /\ garbled = FALSE /\ Linked(got, wire, out, queue, sent, sClosing, Held)
  BY DEF StreamInv
<1>2. UNCHANGED <<hub, sendVars, rClosing, handled>>
  BY DEF HandleInput
<1> DEFINE R(n) == Reached(got, rq, wire, n)
<1>3. PICK n \in 1 .. Len(wire) :
             /\ wire' = SubSeq(wire, n + 1, Len(wire)) /\ got' = R(n).got
             /\ garbled' = (garbled \/ ~R(n).ok) /\ rq' = R(n).rq
  BY DEF HandleInput, Reached
<1>4. Held' = Held
  BY <1>2 DEF Held, sendVars
<1> HIDE DEF Held
<1>5. /\ R(n).rq \in [Classes -> Seq(Packet)] /\ R(n).ok = TRUE
      /\ Linked(R(n).got, SubSeq(wire, n + 1, Len(wire)), out, queue, sent, sClosing, Held)
  <2>1. /\ sent \in SUBSET Packet /\ sClosing \in BOOLEAN /\ rq \in [Classes -> Seq(Packet)]
        /\ Linked(got, wire, out, queue, sent, sClosing, Held) /\ n \in 1 .. Len(wire)
    BY <1>1
  <2> HIDE DEF R
  <2>2. /\ Reached(got, rq, wire, n).rq \in [Classes -> Seq(Packet)]
        /\ Reached(got, rq, wire, n).ok = TRUE
        /\ Linked(Reached(got, rq, wire, n).got, SubSeq(wire, n + 1, Len(wire)), out, queue,
                  sent, sClosing, Held)
    BY <2>1, LinkRead
  <2> QED
    BY <2>2, Zenon DEF R
<1> HIDE DEF R
<1>6. garbled' = FALSE
  BY <1>1, <1>3, <1>5
<1>7. /\ out' = out /\ queue' = queue /\ sent' = sent /\ dropped' = dropped /\ sClosing' = sClosing
      /\ rClosing' = rClosing /\ handled' = handled
  BY <1>2 DEF sendVars
<1>8. Linked(got', wire', out', queue', sent', sClosing', Held')
  BY <1>3, <1>4, <1>5, <1>7
<1> QED
  BY <1>3, <1>5, <1>6, <1>7, <1>8 DEF StreamInv

(* A step that leaves the connection alone.                                *)
LEMMA StreamAside ==
    ASSUME StreamInv, UNCHANGED <<hub, out, queue, active, again, sClosing, sent, dropped, wire, got, garbled>>,
           rClosing' \in BOOLEAN, rq' \in [Classes -> Seq(Packet)], handled' \in [Classes -> Seq(Packet)]
    PROVE  StreamInv'
<1>1. Held' = Held
  BY DEF Held
<1> HIDE DEF Held
<1> QED
  BY <1>1 DEF StreamInv

(* Every step.                                                             *)
LEMMA StreamStep == StreamInv /\ WakeupInv /\ [Next]_vars => StreamInv'
<1> SUFFICES ASSUME StreamInv, WakeupInv, [Next]_vars PROVE StreamInv'
  OBVIOUS
<1>1. /\ rClosing \in BOOLEAN /\ rq \in [Classes -> Seq(Packet)] /\ handled \in [Classes -> Seq(Packet)]
      /\ sent \in SUBSET Packet /\ dropped \subseteq sent
  BY DEF StreamInv
<1>2. ASSUME NEW p \in Packet, SendPacket(p) PROVE StreamInv'
  BY <1>2, StreamSend
<1>3. CASE HandleOutput
  BY <1>3, StreamOutput
<1>4. CASE ReactorCall
  <2>1. UNCHANGED <<hub, out, queue, active, again, sClosing, sent, dropped, wire, got, garbled,
                    rClosing, rq, handled>>
    BY <1>4 DEF ReactorCall, recvVars
  <2> QED
    BY <1>1, <2>1, StreamAside
<1>5. CASE SenderFails
  <2>1. CloseSender /\ UNCHANGED <<wire, recvVars>> /\ sent' = sent /\ dropped' = dropped
    BY <1>5 DEF SenderFails
  <2> QED
    BY <1>1, <2>1, StreamClosed
<1>6. CASE HandleInput
  BY <1>6, StreamInput
<1>7. ASSUME NEW c \in Classes, GetNextPacket(c) PROVE StreamInv'
  <2>1. /\ UNCHANGED <<hub, out, queue, active, again, sClosing, sent, dropped, wire, got, garbled,
                       rClosing>>
        /\ rq[c] # <<>> /\ rq' = [rq EXCEPT ![c] = Tail(@)]
        /\ handled' = [handled EXCEPT ![c] = Append(@, Head(rq[c]))]
    BY <1>7 DEF GetNextPacket, sendVars
  <2>2. rq[c] \in Seq(Packet) /\ handled[c] \in Seq(Packet)
    BY <1>1
  <2>3. Tail(rq[c]) \in Seq(Packet) /\ Head(rq[c]) \in Packet
    BY <2>1, <2>2
  <2>4. Append(handled[c], Head(rq[c])) \in Seq(Packet)
    BY <2>2, <2>3
  <2>5. rq' \in [Classes -> Seq(Packet)] /\ handled' \in [Classes -> Seq(Packet)]
    BY <1>1, <2>1, <2>3, <2>4
  <2> QED
    BY <1>1, <2>1, <2>5, StreamAside
<1>8. CASE ReceiverFails
  <2>1. /\ UNCHANGED <<hub, out, queue, active, again, sClosing, sent, dropped, wire, got, garbled,
                       rq, handled>>
        /\ rClosing' = TRUE
    BY <1>8 DEF ReceiverFails, sendVars
  <2> QED
    BY <1>1, <2>1, StreamAside
<1>9. CASE UNCHANGED vars
  <2>1. UNCHANGED <<hub, out, queue, active, again, sClosing, sent, dropped, wire, got, garbled,
                    rClosing, rq, handled>>
    BY <1>9 DEF vars, sendVars, recvVars
  <2> QED
    BY <1>1, <2>1, StreamAside
<1> QED
  BY <1>2, <1>3, <1>4, <1>5, <1>6, <1>7, <1>8, <1>9 DEF Next

(* StreamInv holds throughout.                                             *)
LEMMA StreamInduction == Spec => []StreamInv
<1>1. Spec => []WakeupInv
  BY WakeupInduction
<1>2. Spec => Init /\ [][Next]_vars
  BY DEF Spec
<1> QED
  BY <1>1, <1>2, StreamInit, StreamStep, PTL

(* The output buffer never overflows, the message queue passes its high    *)
(* water mark by less than one packet, and what the receiver files and     *)
(* hands out are packets, for every capacity and every size of packet.     *)
THEOREM StreamTypes == Spec => []TypeOK
<1>1. StreamInv /\ WakeupInv => TypeOK
  <2> SUFFICES ASSUME StreamInv, WakeupInv PROVE TypeOK
    OBVIOUS
  <2>1. {hub, active, again, wakeup, sClosing, rClosing, garbled} \subseteq BOOLEAN
    BY DEF StreamInv, WakeupInv, FlagTypes
  <2>2. Len(out) <= OutCap /\ QueueBytes(queue) < HighWater + MaxSize /\ Len(wire) <= WireCap
    BY DEF StreamInv, Linked
  <2> QED
    BY <2>1, <2>2 DEF TypeOK, StreamInv, WakeupInv, FlagTypes
<1> QED
  BY <1>1, StreamInduction, WakeupInduction, PTL

(* The receiver never loses the beginning of a packet: whatever it has     *)
(* read since the last whole packet are the first bytes of one, and every  *)
(* packet it completes was sent byte for byte like that, however send(),   *)
(* recv(), the buffer and the queue cut the stream.                        *)
THEOREM StreamInStep == Spec => []InStep
<1>1. StreamInv => InStep
  <2> SUFFICES ASSUME StreamInv PROVE InStep
    OBVIOUS
  <2>1. Part(got) /\ garbled = FALSE
    BY DEF StreamInv, Linked, Flow
  <2>2. ASSUME got # <<>> PROVE got = SubSeq(Bytes(got[1][1]), 1, Len(got))
    <3>1. PICK p \in Packet : /\ Len(got) \in 1 .. Size[p] - 1
                              /\ \A i \in 1 .. Len(got) : got[i] = <<p, i>>
      BY <2>1, <2>2 DEF Part
    <3>2. /\ Size[p] \in Nat /\ Len(got) \in Nat \ {0} /\ Len(got) \in 0 .. Size[p]
          /\ 0 + Size[p] =< Size[p] /\ 1 \in 1 .. Len(got)
      BY <3>1, SizeIs
    <3>3. got[1][1] = p
      BY <3>1, <3>2
    <3>4. Bytes(p) = Span(p, 0, Size[p]) /\ SubSeq(Span(p, 0, Size[p]), 1, Len(got)) = Span(p, 0, Len(got))
      <4>1. p \in Packet /\ 0 \in Nat /\ Size[p] \in Nat /\ 0 + Size[p] =< Size[p]
        BY <3>2
      <4>2. /\ Bytes(p) = Span(p, 0, Size[p])
            /\ \A n \in 0 .. Size[p] : SubSeq(Span(p, 0, Size[p]), 1, n) = Span(p, 0, n)
        BY <4>1, SpanIs
      <4> QED
        BY <3>2, <4>2
    <3>5. got = [i \in 1 .. Len(got) |-> got[i]]
      BY <2>1 DEF Part
    <3>6. \A i \in 1 .. Len(got) : got[i] = <<p, 0 + i>>
      BY <3>1, <3>2
    <3>7. got = Span(p, 0, Len(got))
      BY <3>5, <3>6 DEF Span
    <3> QED
      BY <3>3, <3>4, <3>7
  <2> QED
    BY <2>1, <2>2 DEF InStep
<1> QED
  BY <1>1, StreamInduction, PTL
=============================================================================
