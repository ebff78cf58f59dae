-------------------------- MODULE ControlLinkProofs --------------------------
(***************************************************************************)
(* Proofs about ControlLink: its type invariant; the numbering invariant,  *)
(* which says that everything the hub and the nodes know of node n's ids   *)
(* is congruent to n - 1 above the database modulo the node count; and,    *)
(* from it, that two nodes never draw the same id; and that the hand-shake *)
(* seeds the counters of a node before clients enter it, never behind.     *)
(***************************************************************************)
EXTENDS ControlLink, TLAPS

(* RoutingHelper::GetNodeCount returns the largest key of m_nodelist,      *)
(* which is a node and a positive uint32.                                  *)
LEMMA NodeCount ==
    /\ GetNodeCount \in Nodes
    /\ \A n \in Nodes : n <= GetNodeCount
    /\ GetNodeCount \in 1 .. Wrap - 1
<1>1. \E m \in Nodes : \A n \in Nodes : n <= m
  BY NodesAssumption
<1>2. GetNodeCount \in Nodes /\ \A n \in Nodes : n <= GetNodeCount
  BY <1>1 DEF GetNodeCount
<1> QED  BY <1>2, NodesAssumption, WrapAssumption

(* 0 is a uint32, the value LoadNodeList gives to unused ids.              *)
LEMMA WrapPositive == Wrap \in Nat /\ 0 \in 0 .. Wrap - 1
BY NodesAssumption, WrapAssumption

(* uint32 addition, as in _hiItemGuid += _hiRange, stays a uint32.         *)
LEMMA Add32Type ==
    ASSUME NEW a \in 0 .. Wrap - 1, NEW b \in 0 .. Wrap - 1
    PROVE  Add32(a, b) \in 0 .. Wrap - 1
BY WrapAssumption DEF Add32

(* The id that SendInitAuthedNode sends is a uint32.                       *)
LEMMA SeedType ==
    ASSUME TypeOK, NEW n \in Nodes, NEW t \in Types
    PROVE  SeedGuid(n, t) \in 0 .. Wrap - 1
<1>1. n - 1 \in 0 .. Wrap - 1  BY NodesAssumption, WrapAssumption
<1>2. Base[t] \in 0 .. Wrap - 1  BY WrapAssumption
<1>3. last[n][t] \in 0 .. Wrap - 1  BY DEF TypeOK
<1> QED  BY <1>1, <1>2, <1>3, Add32Type DEF SeedGuid

(* The packets that the handlers append belong to their queues, and what a *)
(* node receives after LOGON_AUTH_MASTER is a LOGON_INIT_NODE.             *)
LEMMA MsgTypes ==
    /\ Challenge \in HubMsgs
    /\ \A c \in {"AUTH_OK", "AUTH_FAILED"} : AuthResponse(c) \in HubMsgs
    /\ \A c \in {"ACK_OK", "GUID_FAIL"} : InitAck(c) \in HubMsgs
    /\ \A t \in Types, g \in 0 .. Wrap - 1 : Sync(t, g) \in HubMsgs
    /\ AuthMaster \in NodeMsgs
    /\ InitMsgs \subseteq NodeMsgs
    /\ \A m \in NodeMsgs : m # AuthMaster => m \in InitMsgs
BY DEF HubMsgs, NodeMsgs, Sync, AuthResponse, InitAck

(* The state after LoadNodeList, before any node runs, is well typed.      *)
LEMMA InitTypeOK == Init => TypeOK
<1> SUFFICES ASSUME Init PROVE TypeOK
  OBVIOUS
<1>1. last \in [Nodes -> [Types -> 0 .. Wrap - 1]]
  <2>1. PICK g \in [Nodes -> Garbage \cup {0}] :
          last = [n \in Nodes |-> [t \in Types |-> IF t \in Zeroed THEN 0 ELSE g[n]]]
    BY DEF Init
  <2>2. \A n \in Nodes : g[n] \in 0 .. Wrap - 1
    BY <2>1, WrapAssumption, WrapPositive
  <2> QED  BY <2>1, <2>2, WrapPositive
<1>2. cur \in [Nodes -> [Types -> 0 .. Wrap - 1]]
  BY WrapPositive DEF Init
<1> QED  BY <1>1, <1>2, WrapPositive DEF Init, TypeOK

(* A broken link leaves the queue and the sessions of the node well typed. *)
LEMMA CutTypes ==
    ASSUME TypeOK, NEW n \in Nodes, CutLink(n)
    PROVE  /\ toNode' \in [Nodes -> Seq(NodeMsgs)]
           /\ pend' \in [Nodes -> {"none", "live", "stale"}]
           /\ sess' \in [Nodes -> {"none", "live", "stale"}]
<1>1. toNode' \in [Nodes -> Seq(NodeMsgs)]
  BY DEF TypeOK, CutLink
<1>2. Stale(pend[n]) \in {"none", "live", "stale"} /\ Stale(sess[n]) \in {"none", "live", "stale"}
  BY DEF TypeOK, Stale
<1>3. /\ pend' \in [Nodes -> {"none", "live", "stale"}]
      /\ sess' \in [Nodes -> {"none", "live", "stale"}]
  BY <1>2 DEF TypeOK, CutLink
<1> QED  BY <1>1, <1>3

(* Every hub handler, node handler, crash and restart keeps the node list, *)
(* the queues and the id counters well typed; ids stay uint32.             *)
THEOREM TypeCorrect == Spec => []TypeOK
<1>1. Init => TypeOK  BY InitTypeOK
<1>2. TypeOK /\ [Next]_vars => TypeOK'
  <2> SUFFICES ASSUME TypeOK, [Next]_vars PROVE TypeOK'
    OBVIOUS
  <2> USE DEF hubVars, chanVars, nodeVars, histVars
  <2>1. CASE RefreshOnlineStat
    BY <2>1 DEF TypeOK, RefreshOnlineStat
  <2>2. ASSUME NEW n \in Nodes, Construct(n) PROVE TypeOK'
    <3>1. CASE OpenNodeConnection(n)
      BY <2>2, <3>1, MsgTypes DEF TypeOK, Construct, OpenNodeConnection
    <3>2. CASE sock' = [sock EXCEPT ![n] = "none"] /\ UNCHANGED chanVars
      BY <2>2, <3>2 DEF TypeOK, Construct
    <3> QED
      BY <2>2, <3>1, <3>2 DEF Construct
  <2>3. ASSUME NEW n \in Nodes, Reconnect(n) PROVE TypeOK'
    BY <2>3, MsgTypes DEF TypeOK, Reconnect, OpenNodeConnection
  <2>4. ASSUME NEW n \in Nodes, DropSocket(n) PROVE TypeOK'
    BY <2>4 DEF TypeOK, DropSocket
  <2>5. ASSUME NEW n \in Nodes, HandleClose(n) PROVE TypeOK'
    BY <2>5 DEF TypeOK, HandleClose, DropQueued
  <2>6. ASSUME NEW n \in Nodes, Handle_SMSG_AUTH_CHALLENGE(n) PROVE TypeOK'
    BY <2>6, MsgTypes DEF TypeOK, Handle_SMSG_AUTH_CHALLENGE, SendToNode, Receive, Next_
  <2>7. ASSUME NEW n \in Nodes, Handle_SMSG_AUTH_RESPONSE(n) PROVE TypeOK'
    <3>1. InitNode(GetNodeCount, [t \in Types |-> SeedGuid(n, t)]) \in NodeMsgs
      BY SeedType, NodeCount, MsgTypes DEF InitNode, InitMsgs
    <3>2. CASE Receive(n, AuthResponse("AUTH_OK")) /\ SendInitAuthedNode(n)
                 /\ toHub' = [toHub EXCEPT ![n] = Tail(@)]
                 /\ UNCHANGED <<sock, pend, sess, unsynced>>
      BY <2>7, <3>1, <3>2, SeedType
         DEF TypeOK, Handle_SMSG_AUTH_RESPONSE, SendInitAuthedNode, SendToNode,
             Receive, Next_
    <3>3. CASE CloseSocket(n) /\ UNCHANGED <<last, wrapped>>
      BY <2>7, <3>3
         DEF TypeOK, Handle_SMSG_AUTH_RESPONSE, CloseSocket, CutLink, DropQueued,
             Stale
    <3> QED  BY <2>7, <3>2, <3>3 DEF Handle_SMSG_AUTH_RESPONSE
  <2>8. ASSUME NEW n \in Nodes, Handle_NODE_INIT_ACK(n) PROVE TypeOK'
    <3>1. CASE /\ Receive(n, InitAck("ACK_OK"))
               /\ canEnter' = [canEnter EXCEPT ![n] = TRUE]
               /\ assigned' = [assigned EXCEPT ![n] = TRUE]
               /\ toHub' = [toHub EXCEPT ![n] = Tail(@)]
               /\ UNCHANGED <<sock, toNode, pend, sess, unsynced>>
      <4>1. toHub' \in [Nodes -> Seq(HubMsgs)]
        BY <3>1 DEF TypeOK, Receive, Next_
      <4>2. /\ canEnter' \in [Nodes -> BOOLEAN] /\ assigned' \in [Nodes -> BOOLEAN]
            /\ UNCHANGED <<sock, toNode, pend, sess, unsynced>>
        BY <3>1 DEF TypeOK
      <4> QED  BY <2>8, <4>1, <4>2 DEF TypeOK, Handle_NODE_INIT_ACK
    <3>2. CASE CloseSocket(n) /\ UNCHANGED <<canEnter, assigned>>
      <4>1. pend' \in [Nodes -> {"none", "live", "stale"}]
            /\ sess' \in [Nodes -> {"none", "live", "stale"}]
        BY <3>2 DEF TypeOK, CloseSocket, CutLink, Stale
      <4>2. toNode' \in [Nodes -> Seq(NodeMsgs)] /\ toHub' \in [Nodes -> Seq(HubMsgs)]
        BY <3>2 DEF TypeOK, CloseSocket, CutLink, DropQueued
      <4>3. /\ sock' \in [Nodes -> {"unbuilt", "none", "up", "cut", "closing", "ended"}]
            /\ unsynced' \subseteq Nodes /\ UNCHANGED <<canEnter, assigned>>
        BY <3>2 DEF TypeOK, CloseSocket, DropQueued
      <4> QED  BY <2>8, <4>1, <4>2, <4>3 DEF TypeOK, Handle_NODE_INIT_ACK
    <3> QED  BY <2>8, <3>1, <3>2 DEF Handle_NODE_INIT_ACK
  <2>9. ASSUME NEW n \in Nodes, Handle_NODE_SYNC_DATA(n) PROVE TypeOK'
    <3>1. last' \in [Nodes -> [Types -> 0 .. Wrap - 1]]
      BY <2>9 DEF TypeOK, Handle_NODE_SYNC_DATA
    <3>2. toHub' \in [Nodes -> Seq(HubMsgs)]
      BY <2>9 DEF TypeOK, Handle_NODE_SYNC_DATA, Receive, Next_
    <3> QED
      BY <2>9, <3>1, <3>2 DEF TypeOK, Handle_NODE_SYNC_DATA
  <2>10. ASSUME NEW n \in Nodes, HandleAuthSession(n) PROVE TypeOK'
    <3>1. CASE /\ pend' = [pend EXCEPT ![n] = "live"]
               /\ toNode' = [toNode EXCEPT ![n] = Tail(@)]
               /\ UNCHANGED <<toHub, sock, sess, faults>>
      BY <2>10, <3>1 DEF TypeOK, HandleAuthSession, Next_
    <3>2. CASE /\ faults' = faults + 1
               /\ toHub' = [toHub EXCEPT ![n] = Append(@, AuthResponse("AUTH_FAILED"))]
               /\ sock' = [sock EXCEPT ![n] = "cut"]
               /\ CutLink(n)
      <4>1. /\ toNode' \in [Nodes -> Seq(NodeMsgs)]
            /\ pend' \in [Nodes -> {"none", "live", "stale"}]
            /\ sess' \in [Nodes -> {"none", "live", "stale"}]
        BY <3>2, CutTypes
      <4>2. toHub' \in [Nodes -> Seq(HubMsgs)]
        BY <3>2, MsgTypes DEF TypeOK
      <4>3. /\ sock' \in [Nodes -> {"unbuilt", "none", "up", "cut", "closing", "ended"}]
            /\ faults' \in Nat
        BY <3>2 DEF TypeOK
      <4> QED
        BY <2>10, <4>1, <4>2, <4>3 DEF TypeOK, HandleAuthSession
    <3> QED  BY <2>10, <3>1, <3>2 DEF HandleAuthSession
  <2>11. ASSUME NEW n \in Nodes, AddSession_(n) PROVE TypeOK'
    <3>1. toHub' \in [Nodes -> Seq(HubMsgs)]
      BY <2>11, MsgTypes DEF TypeOK, AddSession_
    <3> QED
      BY <2>11, <3>1 DEF TypeOK, AddSession_
  <2>12. ASSUME NEW n \in Nodes, QueueServerPacket(n) PROVE TypeOK'
    <3>1. Head(toNode[n]) \in InitMsgs
      BY <2>12, MsgTypes DEF TypeOK, QueueServerPacket
    <3> QED
      BY <2>12, <3>1 DEF TypeOK, QueueServerPacket, Next_
  <2>13. ASSUME NEW n \in Nodes, Handle_LOGON_INIT_NODE(n) PROVE TypeOK'
    <3>1. Head(recvQ[n]) \in InitMsgs
      BY <2>13 DEF TypeOK, Handle_LOGON_INIT_NODE, Next_
    <3>2. /\ Head(recvQ[n]).range \in 0 .. Wrap - 1
          /\ Head(recvQ[n]).guid \in [Types -> 0 .. Wrap - 1]
      BY <3>1 DEF InitMsgs
    <3>3. InitAck(IF Accepted(Head(recvQ[n]).guid) = Types THEN "ACK_OK" ELSE "GUID_FAIL")
            \in HubMsgs
      BY MsgTypes
    <3>4. toHub' \in [Nodes -> Seq(HubMsgs)]
      BY <2>13, <3>3 DEF TypeOK, Handle_LOGON_INIT_NODE
    <3>5. /\ range' \in [Nodes -> 0 .. Wrap - 1]
          /\ cur' \in [Nodes -> [Types -> 0 .. Wrap - 1]]
      BY <2>13, <3>2 DEF TypeOK, Handle_LOGON_INIT_NODE
    <3>6. given' \in [Nodes -> SUBSET Types]
      BY <2>13 DEF TypeOK, Handle_LOGON_INIT_NODE, Accepted
    <3>7. recvQ' \in [Nodes -> Seq(InitMsgs)] /\ greeted' \in [Nodes -> BOOLEAN]
      BY <2>13 DEF TypeOK, Handle_LOGON_INIT_NODE, Next_
    <3>8. UNCHANGED <<hubVars, db, toNode, up, pend, sess, histVars, faults>>
      BY <2>13 DEF Handle_LOGON_INIT_NODE
    <3> QED
      BY <3>4, <3>5, <3>6, <3>7, <3>8 DEF TypeOK, hubVars, histVars
  <2>14. ASSUME NEW n \in Nodes, RemoveClosed(n) PROVE TypeOK'
    BY <2>14 DEF TypeOK, RemoveClosed
  <2>15. ASSUME NEW n \in Nodes, NEW t \in Types, GenerateLowGuid(n, t) PROVE TypeOK'
    <3>0. cur[n][t] \in 0 .. Wrap - 1 /\ range[n] \in 0 .. Wrap - 1  BY DEF TypeOK
    <3>1. Add32(cur[n][t], range[n]) \in 0 .. Wrap - 1  BY <3>0, Add32Type
    <3>2. toHub' \in [Nodes -> Seq(HubMsgs)]
      BY <2>15, <3>1, MsgTypes DEF TypeOK, GenerateLowGuid
    <3>3. cur' \in [Nodes -> [Types -> 0 .. Wrap - 1]]
      BY <2>15, <3>1 DEF TypeOK, GenerateLowGuid
    <3>4. issued' \in [Nodes -> [Types -> SUBSET (0 .. Wrap - 1)]]
      <4> DEFINE S == issued[n][t] \cup {Add32(cur[n][t], range[n])}
      <4>1. S \in SUBSET (0 .. Wrap - 1)
        BY <3>1 DEF TypeOK
      <4>2. issued' = [issued EXCEPT ![n][t] = S]
        BY <2>15 DEF GenerateLowGuid
      <4> HIDE DEF S
      <4> QED  BY <4>1, <4>2 DEF TypeOK
    <3>5. wrapped' \subseteq Nodes /\ early' \subseteq Nodes /\ unsynced' \subseteq Nodes
      BY <2>15 DEF TypeOK, GenerateLowGuid
    <3>6. draws' \in Nat
      BY <2>15 DEF TypeOK, GenerateLowGuid
    <3>7. UNCHANGED <<hubVars, db, toNode, up, pend, sess, recvQ, range, given, greeted, faults>>
      BY <2>15 DEF GenerateLowGuid
    <3> QED
      BY <3>2, <3>3, <3>4, <3>5, <3>6, <3>7 DEF TypeOK
  <2>16. ASSUME NEW n \in Nodes, Boot(n) PROVE TypeOK'
    BY <2>16, WrapAssumption DEF TypeOK, Boot
  <2>17. ASSUME NEW n \in Nodes, MarkOnline(n) \/ MarkOffline(n) PROVE TypeOK'
    BY <2>17 DEF TypeOK, MarkOnline, MarkOffline
  <2>18. ASSUME NEW n \in Nodes, Stop(n) PROVE TypeOK'
    BY <2>18, WrapAssumption DEF TypeOK, Stop
  <2>19. ASSUME NEW n \in Nodes, BreakLink(n) PROVE TypeOK'
    <3>1. /\ toNode' \in [Nodes -> Seq(NodeMsgs)]
          /\ pend' \in [Nodes -> {"none", "live", "stale"}]
          /\ sess' \in [Nodes -> {"none", "live", "stale"}]
      BY <2>19, CutTypes DEF BreakLink
    <3>2. /\ sock' \in [Nodes -> {"unbuilt", "none", "up", "cut", "closing", "ended"}]
          /\ faults' \in Nat
      BY <2>19 DEF TypeOK, BreakLink
    <3> QED
      BY <2>19, <3>1, <3>2 DEF TypeOK, BreakLink
  <2>20. CASE UNCHANGED vars
    BY <2>20 DEF TypeOK, vars
  <2>21. ASSUME NEW n \in Nodes, Handle_SMSG_AUTH_CHALLENGE_NoRealm(n) PROVE TypeOK'
    <3>1. /\ toHub' \in [Nodes -> Seq(HubMsgs)] /\ toNode' \in [Nodes -> Seq(NodeMsgs)]
          /\ sock' \in [Nodes -> {"unbuilt", "none", "up", "cut", "closing", "ended"}]
          /\ online' \in [Nodes -> BOOLEAN] /\ canEnter' \in [Nodes -> BOOLEAN]
      BY <2>21 DEF Handle_SMSG_AUTH_CHALLENGE_NoRealm
    <3>2. /\ pend' \in [Nodes -> {"none", "live", "stale"}]
          /\ sess' \in [Nodes -> {"none", "live", "stale"}]
          /\ unsynced' \subseteq Nodes /\ faults' \in Nat
      BY <2>21 DEF Handle_SMSG_AUTH_CHALLENGE_NoRealm, TypeOK, Stale
    <3> QED
      BY <2>21, <3>1, <3>2 DEF Handle_SMSG_AUTH_CHALLENGE_NoRealm, TypeOK
  <2> QED
    BY <2>1, <2>2, <2>3, <2>4, <2>5, <2>6, <2>7, <2>8, <2>9, <2>10, <2>11, <2>12,
       <2>13, <2>14, <2>15, <2>16, <2>17, <2>18, <2>19, <2>20, <2>21
    DEF Next, HubStep, NodeStep
<1> QED  BY <1>1, <1>2, PTL DEF Spec

-----------------------------------------------------------------------------
(* A positive multiple of the step width is at least the step width.       *)
LEMMA MulMono ==
    ASSUME NEW d \in Nat, NEW r \in Nat \ {0}, d >= 1
    PROVE  d * r >= r /\ d * r >= d
<1>1. d * r = (d - 1) * r + r  OBVIOUS
<1>2. (d - 1) \in Nat /\ (d - 1) * r >= 0  OBVIOUS
<1>3. d * r = d * (r - 1) + d  OBVIOUS
<1>4. d * (r - 1) >= 0  OBVIOUS
<1> QED  BY <1>1, <1>2, <1>3, <1>4

(* Division by the step width has one remainder: two offsets below the     *)
(* node count that lead to the same id are equal.                          *)
LEMMA SameResidue ==
    ASSUME NEW r \in Nat \ {0}, NEW a \in 0 .. r - 1, NEW b \in 0 .. r - 1,
           NEW j \in Nat, NEW k \in Nat, a + j * r = b + k * r
    PROVE  a = b
<1>1. CASE j = k  BY <1>1
<1>2. CASE j > k
  <2>1. (j - k) * r = b - a  OBVIOUS
  <2>2. (j - k) * r >= r  BY <1>2, MulMono
  <2> QED  BY <2>1, <2>2
<1>3. CASE k > j
  <2>1. (k - j) * r = a - b  OBVIOUS
  <2>2. (k - j) * r >= r  BY <1>3, MulMono
  <2> QED  BY <2>1, <2>2
<1> QED  BY <1>1, <1>2, <1>3

(* The ids Base + (n - 1) + k * GetNodeCount of different nodes differ:    *)
(* what the interleaved numbering of SendInitAuthedNode rests on.          *)
LEMMA ClassesDisjoint ==
    ASSUME NEW m \in Nodes, NEW n \in Nodes, NEW t \in Types, NEW g \in Nat,
           InClass(m, t, g), InClass(n, t, g)
    PROVE  m = n
<1> DEFINE R == GetNodeCount
<1>1. R \in Nat \ {0} /\ m - 1 \in 0 .. R - 1 /\ n - 1 \in 0 .. R - 1
  BY NodeCount, NodesAssumption
<1>2. Base[t] \in Nat  BY WrapAssumption
<1>3. PICK j \in 0 .. Wrap : g = Base[t] + (m - 1) + j * R  BY DEF InClass
<1>4. PICK k \in 0 .. Wrap : g = Base[t] + (n - 1) + k * R  BY DEF InClass
<1>5. j \in Nat /\ k \in Nat  BY WrapAssumption
<1> HIDE DEF R
<1>6. j * R \in Nat /\ k * R \in Nat  BY <1>1, <1>5
<1>7. (m - 1) + j * R = (n - 1) + k * R  BY <1>1, <1>2, <1>3, <1>4, <1>6
<1>8. m - 1 = n - 1
  <2> DEFINE a == m - 1
             b == n - 1
  <2>1. /\ R \in Nat \ {0} /\ a \in 0 .. R - 1 /\ b \in 0 .. R - 1
        /\ j \in Nat /\ k \in Nat /\ a + j * R = b + k * R
    BY <1>1, <1>5, <1>7
  <2> HIDE DEF a, b
  <2>2. a = b  BY <2>1, SameResidue
  <2> QED  BY <2>2 DEF a, b
<1> QED  BY <1>8, NodesAssumption

(* The first id that SendInitAuthedNode computes for a node is of its      *)
(* class, unless the addition wraps.                                       *)
LEMMA FirstInClass ==
    ASSUME NEW n \in Nodes, NEW t \in Types, Base[t] + n - 1 < Wrap
    PROVE  InClass(n, t, Add32(Base[t], n - 1))
<1>1. Base[t] \in Nat /\ n \in Nat /\ GetNodeCount \in Nat /\ 0 \in 0 .. Wrap
  BY WrapAssumption, NodesAssumption, NodeCount
<1>2. Add32(Base[t], n - 1) = Base[t] + (n - 1) + 0 * GetNodeCount
  BY <1>1 DEF Add32
<1> QED  BY <1>1, <1>2 DEF InClass

(* GenerateLowGuidWhenNode adds _hiRange and stays in the class of the     *)
(* node, unless the addition wraps.                                        *)
LEMMA NextInClass ==
    ASSUME NEW n \in Nodes, NEW t \in Types, NEW g \in 0 .. Wrap - 1,
           InClass(n, t, g), g + GetNodeCount < Wrap
    PROVE  InClass(n, t, Add32(g, GetNodeCount))
<1> DEFINE R == GetNodeCount
<1>1. R \in Nat \ {0} /\ Base[t] \in Nat /\ n - 1 \in Nat /\ Wrap \in Nat
  BY WrapAssumption, NodesAssumption, NodeCount
<1>2. PICK k \in 0 .. Wrap : g = Base[t] + (n - 1) + k * R  BY DEF InClass
<1>3. Add32(g, R) = g + R  BY <1>1 DEF Add32
<1> HIDE DEF R
<1>4. (k + 1) * R = k * R + R  BY <1>1
<1>5. (k + 1) * R >= k + 1  BY <1>1, MulMono
<1>6. k * R \in Nat  BY <1>1
<1>7. g + R = Base[t] + (n - 1) + (k + 1) * R  BY <1>1, <1>2, <1>4, <1>6
<1>8. g + R < Wrap  BY DEF R
<1>9. k + 1 \in 0 .. Wrap  BY <1>1, <1>5, <1>7, <1>8, <1>4, <1>6
<1>10. InClass(n, t, g + R)  BY <1>7, <1>9 DEF InClass, R
<1> QED  BY <1>3, <1>10 DEF R

-----------------------------------------------------------------------------
(* The two ways a packet queue changes: a packet is appended, or the first *)
(* one is taken off.                                                       *)
LEMMA AppendElements ==
    ASSUME NEW S, NEW q \in Seq(S), NEW x \in S, NEW i \in 1 .. Len(Append(q, x))
    PROVE  Append(q, x)[i] = x \/ (i \in 1 .. Len(q) /\ Append(q, x)[i] = q[i])
OBVIOUS

(* The elements that are left when a packet has been taken off.            *)
LEMMA TailElements ==
    ASSUME NEW S, NEW q \in Seq(S), q # <<>>, NEW i \in 1 .. Len(Tail(q))
    PROVE  i + 1 \in 1 .. Len(q) /\ Tail(q)[i] = q[i + 1]
OBVIOUS

(* No id is known, in flight or drawn before the first connection.         *)
LEMMA InitNumbering == Init => NumberingInv
BY DEF Init, NumberingInv, DownClean, ClassInv, ClassAt, LastOk, SentOk, QueuedOk,
   SyncOk, CounterOk, IssuedOk, Zeroed

(* Stop takes connection, sessions and counters of a node with it, and no  *)
(* step gives them to a node that does not run.                            *)
LEMMA NextDown == TypeOK /\ DownClean /\ [Next]_vars => DownClean'
<1> SUFFICES ASSUME TypeOK, DownClean, [Next]_vars PROVE DownClean'
  OBVIOUS
<1> USE DEF hubVars, chanVars, nodeVars, histVars, TypeOK, DownClean
<1>1. CASE RefreshOnlineStat
  BY <1>1 DEF RefreshOnlineStat
<1>2. ASSUME NEW n \in Nodes, Construct(n) PROVE DownClean'
  <2>1. CASE OpenNodeConnection(n)
    BY <1>2, <2>1 DEF Construct, OpenNodeConnection
  <2>2. CASE sock' = [sock EXCEPT ![n] = "none"] /\ UNCHANGED chanVars
    BY <1>2, <2>2 DEF Construct
  <2> QED  BY <1>2, <2>1, <2>2 DEF Construct
<1>3. ASSUME NEW n \in Nodes, Reconnect(n) PROVE DownClean'
  BY <1>3 DEF Reconnect, OpenNodeConnection
<1>4. ASSUME NEW n \in Nodes, DropSocket(n) \/ HandleClose(n) PROVE DownClean'
  BY <1>4 DEF DropSocket, HandleClose, DropQueued
<1>5. ASSUME NEW n \in Nodes, Handle_SMSG_AUTH_CHALLENGE(n) PROVE DownClean'
  BY <1>5 DEF Handle_SMSG_AUTH_CHALLENGE, SendToNode
<1>6. ASSUME NEW n \in Nodes, CloseSocket(n), UNCHANGED <<up, given>> PROVE DownClean'
  BY <1>6 DEF CloseSocket, CutLink, DropQueued, Stale
<1>7. ASSUME NEW n \in Nodes, Handle_SMSG_AUTH_RESPONSE(n) PROVE DownClean'
  <2>1. CASE SendInitAuthedNode(n) /\ UNCHANGED <<sock, pend, sess, unsynced>>
    BY <1>7, <2>1 DEF Handle_SMSG_AUTH_RESPONSE, SendInitAuthedNode, SendToNode
  <2>2. CASE CloseSocket(n)
    BY <1>6, <1>7, <2>2 DEF Handle_SMSG_AUTH_RESPONSE
  <2> QED  BY <1>7, <2>1, <2>2 DEF Handle_SMSG_AUTH_RESPONSE
<1>8. ASSUME NEW n \in Nodes, Handle_NODE_INIT_ACK(n) PROVE DownClean'
  <2>1. CASE UNCHANGED <<sock, toNode, pend, sess, unsynced>>
    BY <1>8, <2>1 DEF Handle_NODE_INIT_ACK
  <2>2. CASE CloseSocket(n)
    BY <1>6, <1>8, <2>2 DEF Handle_NODE_INIT_ACK
  <2> QED  BY <1>8, <2>1, <2>2 DEF Handle_NODE_INIT_ACK
<1>9. ASSUME NEW n \in Nodes, Handle_NODE_SYNC_DATA(n) PROVE DownClean'
  BY <1>9 DEF Handle_NODE_SYNC_DATA
<1>10. ASSUME NEW n \in Nodes, HandleAuthSession(n) PROVE DownClean'
  <2>1. CASE /\ pend' = [pend EXCEPT ![n] = "live"]
             /\ toNode' = [toNode EXCEPT ![n] = Tail(@)]
             /\ UNCHANGED <<toHub, sock, sess, faults>>
    BY <1>10, <2>1 DEF HandleAuthSession, Next_
  <2>2. CASE sock' = [sock EXCEPT ![n] = "cut"] /\ CutLink(n)
    BY <1>10, <2>2 DEF HandleAuthSession, CutLink, Stale
  <2> QED  BY <1>10, <2>1, <2>2 DEF HandleAuthSession
<1>11. ASSUME NEW n \in Nodes, AddSession_(n) PROVE DownClean'
  BY <1>11 DEF AddSession_
<1>12. ASSUME NEW n \in Nodes, QueueServerPacket(n) PROVE DownClean'
  BY <1>12 DEF QueueServerPacket
<1>13. ASSUME NEW n \in Nodes, Handle_LOGON_INIT_NODE(n) PROVE DownClean'
  BY <1>13 DEF Handle_LOGON_INIT_NODE
<1>14. ASSUME NEW n \in Nodes, RemoveClosed(n) PROVE DownClean'
  BY <1>14 DEF RemoveClosed
<1>15. ASSUME NEW n \in Nodes, NEW t \in Types, GenerateLowGuid(n, t) PROVE DownClean'
  BY <1>15 DEF GenerateLowGuid
<1>16. ASSUME NEW n \in Nodes, Boot(n) PROVE DownClean'
  BY <1>16 DEF Boot
<1>17. ASSUME NEW n \in Nodes, MarkOnline(n) \/ MarkOffline(n) PROVE DownClean'
  BY <1>17 DEF MarkOnline, MarkOffline
<1>18. ASSUME NEW n \in Nodes, Stop(n) PROVE DownClean'
  BY <1>18 DEF Stop
<1>19. ASSUME NEW n \in Nodes, BreakLink(n) PROVE DownClean'
  BY <1>19 DEF BreakLink, CutLink, Stale
<1>20. CASE UNCHANGED vars
  BY <1>20 DEF vars
<1>21. ASSUME NEW n \in Nodes, Handle_SMSG_AUTH_CHALLENGE_NoRealm(n) PROVE DownClean'
  BY <1>21 DEF Handle_SMSG_AUTH_CHALLENGE_NoRealm, Stale
<1> QED
  BY <1>1, <1>2, <1>3, <1>4, <1>5, <1>7, <1>8, <1>9, <1>10, <1>11, <1>12,
     <1>13, <1>14, <1>15, <1>16, <1>17, <1>18, <1>19, <1>20, <1>21
  DEF Next, HubStep, NodeStep

(* A step that draws, seeds and reports nothing keeps the ids of node m in *)
(* their class: it leaves the counters alone or resets them, and it leaves *)
(* the packets alone, drops them, or sends harmless ones to the hub.       *)
LEMMA ClassFrame ==
  ASSUME NEW m \in Nodes, NEW t \in Types, ClassAt(m, t),
         last'[m][t] = last[m][t],
         issued'[m][t] = issued[m][t],
         toNode'[m] = toNode[m] \/ toNode'[m] = <<>>,
         recvQ'[m] = recvQ[m] \/ recvQ'[m] = <<>>,
         toHub'[m] = toHub[m] \/ toHub'[m] = <<>> \/ SyncOk(m, t)',
         \/ given'[m] = {}
         \/ given'[m] = given[m] /\ range'[m] = range[m] /\ cur'[m][t] = cur[m][t]
  PROVE  ClassAt(m, t)'
<1>1. LastOk(m, t)' /\ IssuedOk(m, t)'
  BY DEF ClassAt, LastOk, IssuedOk, InClass
<1>2. SentOk(m, t)'
  BY DEF ClassAt, SentOk, SeedOk, InClass
<1>3. QueuedOk(m, t)'
  BY DEF ClassAt, QueuedOk, SeedOk, InClass
<1>4. SyncOk(m, t)'
  BY DEF ClassAt, SyncOk, InClass
<1>5. CounterOk(m, t)'
  BY DEF ClassAt, CounterOk, InClass
<1> QED  BY <1>1, <1>2, <1>3, <1>4, <1>5 DEF ClassAt

(* Every step of hub and nodes keeps the ids of a node in its class: the   *)
(* seeds the hub stores and sends, the counters, the ids drawn and the ids *)
(* reported back with NODE_SYNC_DATA.                                      *)
LEMMA NextClass == TypeOK /\ DownClean /\ ClassInv /\ [Next]_vars => ClassInv'
<1> SUFFICES ASSUME TypeOK, DownClean, ClassInv, [Next]_vars, Clean',
                    NEW m \in Nodes, NEW t \in Zeroed
             PROVE  ClassAt(m, t)'
  BY DEF ClassInv
<1> t \in Types  BY DEF Zeroed
<1> USE DEF hubVars, chanVars, nodeVars, histVars
<1>0. ASSUME Clean PROVE ClassAt(m, t)
  BY <1>0 DEF ClassInv
<1>1. CASE RefreshOnlineStat
  BY <1>0, <1>1, ClassFrame DEF RefreshOnlineStat, Clean
<1>2. ASSUME NEW n \in Nodes, Construct(n) PROVE ClassAt(m, t)'
  <2>1. CASE OpenNodeConnection(n)
    <3>1. ClassAt(m, t) /\ SyncOk(m, t)'
      BY <1>0, <1>2, <2>1 DEF Construct, OpenNodeConnection, ClassAt, SyncOk, Clean,
         TypeOK, Challenge, Sync
    <3> QED  BY <1>2, <2>1, <3>1, ClassFrame DEF Construct, OpenNodeConnection, TypeOK
  <2>2. CASE sock' = [sock EXCEPT ![n] = "none"] /\ UNCHANGED chanVars
    BY <1>0, <1>2, <2>2, ClassFrame DEF Construct, Clean
  <2> QED  BY <1>2, <2>1, <2>2 DEF Construct
<1>3. ASSUME NEW n \in Nodes, Reconnect(n) PROVE ClassAt(m, t)'
  <2>1. ClassAt(m, t) /\ SyncOk(m, t)'
    BY <1>0, <1>3 DEF Reconnect, OpenNodeConnection, ClassAt, SyncOk, Clean, TypeOK,
       Challenge, Sync
  <2> QED  BY <1>3, <2>1, ClassFrame DEF Reconnect, OpenNodeConnection, TypeOK
<1>4. ASSUME NEW n \in Nodes, DropSocket(n) PROVE ClassAt(m, t)'
  BY <1>0, <1>4, ClassFrame DEF DropSocket, Clean
<1>5. ASSUME NEW n \in Nodes, HandleClose(n) PROVE ClassAt(m, t)'
  BY <1>0, <1>5, ClassFrame DEF HandleClose, DropQueued, Clean, TypeOK
<1>6. ASSUME NEW n \in Nodes, Handle_SMSG_AUTH_CHALLENGE(n) PROVE ClassAt(m, t)'
  <2>1. ClassAt(m, t) /\ toNode \in [Nodes -> Seq(NodeMsgs)] /\ toHub \in [Nodes -> Seq(HubMsgs)]
    BY <1>0, <1>6 DEF Handle_SMSG_AUTH_CHALLENGE, Clean, TypeOK
  <2>2. SentOk(m, t)'
    BY <1>6, <2>1, MsgTypes DEF ClassAt, SentOk, Handle_SMSG_AUTH_CHALLENGE, SendToNode
  <2>3. SyncOk(m, t)'
    BY <1>6, <2>1 DEF ClassAt, SyncOk, Handle_SMSG_AUTH_CHALLENGE, Receive, Next_
  <2>4. QueuedOk(m, t)' /\ LastOk(m, t)' /\ CounterOk(m, t)' /\ IssuedOk(m, t)'
    BY <1>6, <2>1 DEF ClassAt, QueuedOk, LastOk, CounterOk, IssuedOk,
       Handle_SMSG_AUTH_CHALLENGE
  <2> QED  BY <2>2, <2>3, <2>4 DEF ClassAt
<1>7. ASSUME NEW n \in Nodes, Handle_SMSG_AUTH_RESPONSE(n) PROVE ClassAt(m, t)'
  <2>1. CASE /\ Receive(n, AuthResponse("AUTH_OK")) /\ SendInitAuthedNode(n)
             /\ toHub' = [toHub EXCEPT ![n] = Tail(@)]
             /\ UNCHANGED <<sock, pend, sess, unsynced>>
    <3>1. /\ ClassAt(m, t) /\ toNode \in [Nodes -> Seq(NodeMsgs)]
          /\ toHub \in [Nodes -> Seq(HubMsgs)]
          /\ last \in [Nodes -> [Types -> 0 .. Wrap - 1]]
      BY <1>0, <1>7, <2>1 DEF Handle_SMSG_AUTH_RESPONSE, SendInitAuthedNode, Clean, TypeOK
    <3>2. InClass(n, t, SeedGuid(n, t))
      <4>1. ClassAt(n, t)
        BY <1>7, <2>1 DEF Handle_SMSG_AUTH_RESPONSE, SendInitAuthedNode, Clean, ClassInv
      <4>2. CASE last[n][t] # 0
        BY <4>1, <4>2 DEF SeedGuid, ClassAt, LastOk
      <4>3. CASE last[n][t] = 0
        <5>1. ~(Base[t] + n - 1 >= Wrap)
          BY <2>1, <4>3 DEF SendInitAuthedNode, Clean
        <5>2. Base[t] + n - 1 < Wrap
          BY <5>1, WrapAssumption, NodesAssumption
        <5> QED  BY <4>3, <5>2, FirstInClass DEF SeedGuid
      <4> QED  BY <4>2, <4>3
    <3>3. LastOk(m, t)'
      BY <2>1, <3>1, <3>2 DEF ClassAt, LastOk, SendInitAuthedNode
    <3>4. SentOk(m, t)'
      <4> DEFINE msg == InitNode(GetNodeCount, [v \in Types |-> SeedGuid(n, v)])
      <4>1. SeedOk(n, t, msg)
        BY <3>2 DEF SeedOk, InitNode
      <4>2. msg \in NodeMsgs
        BY SeedType, NodeCount, MsgTypes DEF InitNode, InitMsgs
      <4>3. toNode' = IF sock[n] = "up" THEN [toNode EXCEPT ![n] = Append(@, msg)] ELSE toNode
        BY <2>1 DEF SendInitAuthedNode, SendToNode
      <4> HIDE DEF msg
      <4> QED  BY <3>1, <4>1, <4>2, <4>3 DEF ClassAt, SentOk
    <3>5. SyncOk(m, t)'
      BY <2>1, <3>1 DEF ClassAt, SyncOk, Receive, Next_
    <3>6. QueuedOk(m, t)' /\ CounterOk(m, t)' /\ IssuedOk(m, t)'
      BY <1>7, <3>1 DEF ClassAt, QueuedOk, CounterOk, IssuedOk, Handle_SMSG_AUTH_RESPONSE
    <3> QED  BY <3>3, <3>4, <3>5, <3>6 DEF ClassAt
  <2>2. CASE CloseSocket(n) /\ UNCHANGED <<last, wrapped>>
    BY <1>0, <1>7, <2>2, ClassFrame
       DEF Handle_SMSG_AUTH_RESPONSE, CloseSocket, CutLink, DropQueued, Clean, TypeOK
  <2> QED  BY <1>7, <2>1, <2>2 DEF Handle_SMSG_AUTH_RESPONSE
<1>8. ASSUME NEW n \in Nodes, Handle_NODE_INIT_ACK(n) PROVE ClassAt(m, t)'
  <2>1. CASE /\ Receive(n, InitAck("ACK_OK"))
             /\ toHub' = [toHub EXCEPT ![n] = Tail(@)]
             /\ UNCHANGED <<sock, toNode, pend, sess, unsynced>>
    <3>1. ClassAt(m, t) /\ toHub \in [Nodes -> Seq(HubMsgs)]
      BY <1>0, <1>8 DEF Handle_NODE_INIT_ACK, Clean, TypeOK
    <3>2. SyncOk(m, t)'
      BY <2>1, <3>1 DEF ClassAt, SyncOk, Receive, Next_
    <3> QED  BY <1>8, <2>1, <3>1, <3>2, ClassFrame DEF Handle_NODE_INIT_ACK
  <2>2. CASE CloseSocket(n) /\ UNCHANGED <<canEnter, assigned>>
    BY <1>0, <1>8, <2>2, ClassFrame
       DEF Handle_NODE_INIT_ACK, CloseSocket, CutLink, DropQueued, Clean, TypeOK
  <2> QED  BY <1>8, <2>1, <2>2 DEF Handle_NODE_INIT_ACK
<1>9. ASSUME NEW n \in Nodes, Handle_NODE_SYNC_DATA(n) PROVE ClassAt(m, t)'
  <2>1. ClassAt(m, t) /\ toHub \in [Nodes -> Seq(HubMsgs)] /\ last \in [Nodes -> [Types -> 0 .. Wrap - 1]]
    BY <1>0, <1>9 DEF Handle_NODE_SYNC_DATA, Clean, TypeOK
  <2>2. PICK u \in Types, g \in 0 .. Wrap - 1 :
          /\ Receive(n, Sync(u, g))
          /\ last' = [last EXCEPT ![n][u] = g]
    BY <1>9 DEF Handle_NODE_SYNC_DATA
  <2>3. toHub[n] # <<>> /\ toHub[n][1] = Sync(u, g)
    BY <2>1, <2>2 DEF Receive, Next_
  <2>4. LastOk(m, t)'
    <3>1. CASE m = n /\ t = u
      <4>1. 1 \in 1 .. Len(toHub[n])  BY <2>1, <2>3
      <4>2. InClass(n, t, g)  BY <2>1, <2>3, <3>1, <4>1 DEF ClassAt, SyncOk
      <4>3. last'[m][t] = g  BY <2>1, <2>2, <3>1
      <4> QED  BY <3>1, <4>2, <4>3 DEF LastOk
    <3>2. CASE m # n \/ t # u
      <4>1. last'[m][t] = last[m][t]  BY <2>1, <2>2, <3>2
      <4> QED  BY <2>1, <4>1 DEF ClassAt, LastOk
    <3> QED  BY <3>1, <3>2
  <2>5. SyncOk(m, t)'
    BY <1>9, <2>1, <2>3 DEF ClassAt, SyncOk, Handle_NODE_SYNC_DATA
  <2>6. SentOk(m, t)' /\ QueuedOk(m, t)' /\ CounterOk(m, t)' /\ IssuedOk(m, t)'
    BY <1>9, <2>1 DEF ClassAt, SentOk, QueuedOk, CounterOk, IssuedOk, Handle_NODE_SYNC_DATA
  <2> QED  BY <2>4, <2>5, <2>6 DEF ClassAt
<1>10. ASSUME NEW n \in Nodes, HandleAuthSession(n) PROVE ClassAt(m, t)'
  <2>1. CASE /\ pend' = [pend EXCEPT ![n] = "live"]
             /\ toNode' = [toNode EXCEPT ![n] = Tail(@)]
             /\ UNCHANGED <<toHub, sock, sess, faults>>
    <3>1. ClassAt(m, t) /\ toNode \in [Nodes -> Seq(NodeMsgs)]
      BY <1>0, <1>10 DEF HandleAuthSession, Clean, TypeOK
    <3>2. SentOk(m, t)'
      BY <1>10, <2>1, <3>1 DEF ClassAt, SentOk, HandleAuthSession, Next_
    <3>3. SyncOk(m, t)' /\ LastOk(m, t)' /\ QueuedOk(m, t)' /\ CounterOk(m, t)' /\ IssuedOk(m, t)'
      BY <1>10, <2>1, <3>1 DEF ClassAt, SyncOk, LastOk, QueuedOk, CounterOk, IssuedOk,
         HandleAuthSession
    <3> QED  BY <3>2, <3>3 DEF ClassAt
  <2>2. CASE /\ toHub' = [toHub EXCEPT ![n] = Append(@, AuthResponse("AUTH_FAILED"))]
             /\ CutLink(n)
    <3>1. ClassAt(m, t) /\ toHub \in [Nodes -> Seq(HubMsgs)]
      BY <1>0, <1>10 DEF HandleAuthSession, Clean, TypeOK
    <3>2. SyncOk(m, t)'
      BY <2>2, <3>1, MsgTypes, AppendElements DEF ClassAt, SyncOk, AuthResponse, Sync
    <3> QED  BY <1>10, <2>2, <3>1, <3>2, ClassFrame DEF HandleAuthSession, CutLink, TypeOK
  <2> QED  BY <1>10, <2>1, <2>2 DEF HandleAuthSession
<1>11. ASSUME NEW n \in Nodes, AddSession_(n) PROVE ClassAt(m, t)'
  <2>1. /\ ClassAt(m, t) /\ toHub \in [Nodes -> Seq(HubMsgs)]
        /\ recvQ \in [Nodes -> Seq(InitMsgs)]
    BY <1>0, <1>11 DEF AddSession_, Clean, TypeOK
  <2>2. SyncOk(m, t)'
    <3>1. CASE pend[n] = "live"
      <4>1. toHub' = [toHub EXCEPT ![n] = Append(@, AuthResponse("AUTH_OK"))]
        BY <1>11, <3>1 DEF AddSession_
      <4> QED  BY <2>1, <4>1, MsgTypes, AppendElements DEF ClassAt, SyncOk, AuthResponse, Sync
    <3>2. CASE pend[n] # "live"
      <4>1. toHub' = toHub  BY <1>11, <3>2 DEF AddSession_
      <4> QED  BY <2>1, <4>1 DEF ClassAt, SyncOk
    <3> QED  BY <3>1, <3>2
  <2> QED  BY <1>11, <2>1, <2>2, ClassFrame DEF AddSession_
<1>12. ASSUME NEW n \in Nodes, QueueServerPacket(n) PROVE ClassAt(m, t)'
  <2>1. /\ ClassAt(m, t) /\ toNode \in [Nodes -> Seq(NodeMsgs)]
        /\ recvQ \in [Nodes -> Seq(InitMsgs)]
    BY <1>0, <1>12 DEF QueueServerPacket, Clean, TypeOK
  <2>2. toNode[n] # <<>> /\ Head(toNode[n]) = toNode[n][1] /\ toNode[n][1] # AuthMaster
    BY <1>12, <2>1 DEF QueueServerPacket
  <2>3. Head(toNode[n]) \in InitMsgs
    BY <2>1, <2>2, MsgTypes
  <2>4. QueuedOk(m, t)'
    <3>1. CASE m = n
      <4>1. 1 \in 1 .. Len(toNode[n])  BY <2>1, <2>2
      <4>2. SeedOk(n, t, Head(toNode[n]))
        BY <2>1, <2>2, <3>1, <4>1 DEF ClassAt, SentOk
      <4>3. recvQ'[n] = Append(recvQ[n], Head(toNode[n]))
        BY <1>12, <2>1 DEF QueueServerPacket
      <4>4. \A i \in 1 .. Len(recvQ[n]) : SeedOk(n, t, recvQ[n][i])
        BY <2>1, <3>1 DEF ClassAt, QueuedOk
      <4>5. recvQ[n] \in Seq(InitMsgs)  BY <2>1
      <4>6. \A i \in 1 .. Len(recvQ'[n]) : SeedOk(n, t, recvQ'[n][i])
        BY <2>3, <4>2, <4>3, <4>4, <4>5, AppendElements
      <4> QED  BY <3>1, <4>6 DEF QueuedOk, SeedOk, InClass
    <3>2. CASE m # n
      <4>1. recvQ'[m] = recvQ[m]  BY <1>12, <2>1, <3>2 DEF QueueServerPacket
      <4> QED  BY <2>1, <4>1 DEF ClassAt, QueuedOk, SeedOk, InClass
    <3> QED  BY <3>1, <3>2
  <2>5. SentOk(m, t)'
    BY <1>12, <2>1, <2>2 DEF ClassAt, SentOk, QueueServerPacket
  <2>6. LastOk(m, t)' /\ SyncOk(m, t)' /\ CounterOk(m, t)' /\ IssuedOk(m, t)'
    BY <1>12, <2>1 DEF ClassAt, LastOk, SyncOk, CounterOk, IssuedOk, QueueServerPacket
  <2> QED  BY <2>4, <2>5, <2>6 DEF ClassAt
<1>13. ASSUME NEW n \in Nodes, Handle_LOGON_INIT_NODE(n) PROVE ClassAt(m, t)'
  <2>1. /\ ClassAt(m, t) /\ toHub \in [Nodes -> Seq(HubMsgs)]
        /\ recvQ \in [Nodes -> Seq(InitMsgs)]
    BY <1>0, <1>13 DEF Handle_LOGON_INIT_NODE, Clean, TypeOK
  <2>2. recvQ[n] # <<>> /\ Head(recvQ[n]) = recvQ[n][1]
    BY <1>13, <2>1 DEF Handle_LOGON_INIT_NODE
  <2>3. CounterOk(m, t)'
    <3>1. CASE m # n
      BY <1>13, <2>1, <3>1 DEF ClassAt, CounterOk, Handle_LOGON_INIT_NODE, TypeOK
    <3>2. CASE m = n
      <4>1. SeedOk(n, t, Head(recvQ[n]))
        BY <2>1, <2>2, <3>2 DEF ClassAt, QueuedOk
      <4>2. range'[n] = GetNodeCount
        BY <1>13, <4>1 DEF Handle_LOGON_INIT_NODE, SeedOk, TypeOK
      <4>4. t \in given'[n] => InClass(n, t, cur'[n][t])
        BY <1>13, <2>1, <3>2, <4>1 DEF Handle_LOGON_INIT_NODE, SeedOk, ClassAt,
           CounterOk, TypeOK
      <4> QED  BY <3>2, <4>2, <4>4 DEF CounterOk
    <3> QED  BY <3>1, <3>2
  <2>4. QueuedOk(m, t)'
    <3>1. recvQ' = [recvQ EXCEPT ![n] = Tail(@)]
      BY <1>13 DEF Handle_LOGON_INIT_NODE
    <3>2. CASE m = n
      <4>1. recvQ'[m] = Tail(recvQ[m])  BY <2>1, <3>1, <3>2
      <4>2. \A i \in 1 .. Len(recvQ[m]) : SeedOk(m, t, recvQ[m][i])
        BY <2>1 DEF ClassAt, QueuedOk
      <4>3. \A i \in 1 .. Len(recvQ'[m]) : SeedOk(m, t, recvQ'[m][i])
        BY <2>1, <2>2, <3>2, <4>1, <4>2, TailElements
      <4> QED  BY <4>3 DEF QueuedOk, SeedOk, InClass
    <3>3. CASE m # n
      <4>1. recvQ'[m] = recvQ[m]  BY <2>1, <3>1, <3>3
      <4> QED  BY <2>1, <4>1 DEF ClassAt, QueuedOk, SeedOk, InClass
    <3> QED  BY <3>2, <3>3
  <2>5. SyncOk(m, t)'
    <3> DEFINE ack == InitAck(IF Accepted(Head(recvQ[n]).guid) = Types THEN "ACK_OK" ELSE "GUID_FAIL")
    <3>1. toHub' = IF sess[n] = "live" THEN [toHub EXCEPT ![n] = Append(@, ack)] ELSE toHub
      BY <1>13 DEF Handle_LOGON_INIT_NODE
    <3>2. ack \in HubMsgs  BY MsgTypes
    <3>3. \A g \in 0 .. Wrap - 1 : ack # Sync(t, g)  BY DEF InitAck, Sync
    <3> HIDE DEF ack
    <3>4. CASE m = n /\ sess[n] = "live"
      <4>1. toHub'[m] = Append(toHub[m], ack)  BY <2>1, <3>1, <3>4
      <4>2. \A i \in 1 .. Len(toHub'[m]) : toHub'[m][i] = ack
              \/ (i \in 1 .. Len(toHub[m]) /\ toHub'[m][i] = toHub[m][i])
        BY <2>1, <3>2, <4>1, AppendElements
      <4> QED  BY <2>1, <3>3, <4>2 DEF ClassAt, SyncOk, Sync, InClass
    <3>5. CASE m # n \/ sess[n] # "live"
      <4>1. toHub'[m] = toHub[m]  BY <2>1, <3>1, <3>5
      <4> QED  BY <2>1, <4>1 DEF ClassAt, SyncOk, Sync, InClass
    <3> QED  BY <3>4, <3>5
  <2>6. LastOk(m, t)' /\ SentOk(m, t)' /\ IssuedOk(m, t)'
    BY <1>13, <2>1 DEF ClassAt, LastOk, SentOk, IssuedOk, Handle_LOGON_INIT_NODE
  <2> QED  BY <2>3, <2>4, <2>5, <2>6 DEF ClassAt
<1>14. ASSUME NEW n \in Nodes, RemoveClosed(n) PROVE ClassAt(m, t)'
  BY <1>0, <1>14, ClassFrame DEF RemoveClosed, Clean, TypeOK
<1>15. ASSUME NEW n \in Nodes, NEW u \in Types, GenerateLowGuid(n, u) PROVE ClassAt(m, t)'
  <2>1. ClassAt(m, t)
    BY <1>0, <1>15 DEF GenerateLowGuid, Clean
  <2>2. CASE m # n \/ t # u
    <3> DEFINE h == Add32(cur[n][u], range[n])
    <3>1. h \in 0 .. Wrap - 1 /\ Sync(u, h) \in HubMsgs
      BY Add32Type, MsgTypes DEF TypeOK
    <3>2. /\ cur' = [cur EXCEPT ![n][u] = h]
          /\ issued' = [issued EXCEPT ![n][u] = @ \cup {h}]
          /\ toHub' = IF sess[n] = "live"
                      THEN [toHub EXCEPT ![n] = Append(@, Sync(u, h))] ELSE toHub
      BY <1>15 DEF GenerateLowGuid
    <3> HIDE DEF h
    <3>3. CounterOk(m, t)' /\ IssuedOk(m, t)'
      <4>1. cur'[m][t] = cur[m][t]  BY <2>2, <3>2 DEF TypeOK
      <4>2. issued'[m][t] = issued[m][t]  BY <2>2, <3>2 DEF TypeOK
      <4> QED  BY <1>15, <2>1, <4>1, <4>2 DEF ClassAt, CounterOk, IssuedOk, GenerateLowGuid, InClass
    <3>4. SyncOk(m, t)'
      <4>1. CASE m = n /\ sess[n] = "live"
        <5>1. toHub'[m] = Append(toHub[m], Sync(u, h)) /\ toHub[m] \in Seq(HubMsgs)
          BY <3>2, <4>1 DEF TypeOK
        <5>2. \A i \in 1 .. Len(toHub'[m]) : toHub'[m][i] = Sync(u, h)
                \/ (i \in 1 .. Len(toHub[m]) /\ toHub'[m][i] = toHub[m][i])
          BY <3>1, <5>1, AppendElements
        <5>3. \A g \in 0 .. Wrap - 1 : Sync(u, h) # Sync(t, g)
          BY <2>2, <4>1 DEF Sync
        <5> QED  BY <2>1, <5>2, <5>3 DEF ClassAt, SyncOk, InClass
      <4>2. CASE m # n \/ sess[n] # "live"
        <5>1. toHub'[m] = toHub[m]  BY <3>2, <4>2 DEF TypeOK
        <5> QED  BY <2>1, <5>1 DEF ClassAt, SyncOk, InClass
      <4> QED  BY <4>1, <4>2
    <3>5. LastOk(m, t)' /\ SentOk(m, t)' /\ QueuedOk(m, t)'
      BY <1>15, <2>1 DEF ClassAt, LastOk, SentOk, QueuedOk, GenerateLowGuid
    <3> QED  BY <3>3, <3>4, <3>5 DEF ClassAt
  <2>3. CASE m = n /\ t = u
    <3> DEFINE g == Add32(cur[n][t], range[n])
    <3>1. t \in given[n] /\ cur[n][t] + range[n] < Wrap
      <4>1. t \in given[n]
        BY <1>15, <2>3 DEF GenerateLowGuid, Clean
      <4>2. cur[n][t] \in 0 .. Wrap - 1 /\ range[n] \in 0 .. Wrap - 1
        BY DEF TypeOK
      <4>3. ~(cur[n][t] + range[n] >= Wrap)
        BY <1>15, <2>3 DEF GenerateLowGuid, Clean
      <4> QED  BY <4>1, <4>2, <4>3, WrapAssumption
    <3>2. range[n] = GetNodeCount /\ InClass(n, t, cur[n][t])
      BY <2>1, <2>3, <3>1 DEF ClassAt, CounterOk
    <3>3. InClass(n, t, g)
      BY <3>1, <3>2, NextInClass DEF TypeOK
    <3>4. g \in 0 .. Wrap - 1
      BY Add32Type DEF TypeOK
    <3>5. /\ cur' = [cur EXCEPT ![n][t] = g]
          /\ issued' = [issued EXCEPT ![n][t] = @ \cup {g}]
          /\ toHub' = IF sess[n] = "live"
                      THEN [toHub EXCEPT ![n] = Append(@, Sync(t, g))] ELSE toHub
      BY <1>15, <2>3 DEF GenerateLowGuid
    <3> HIDE DEF g
    <3>6. CounterOk(m, t)' /\ IssuedOk(m, t)'
      BY <1>15, <2>1, <2>3, <3>3, <3>4, <3>5
         DEF ClassAt, CounterOk, IssuedOk, GenerateLowGuid, TypeOK
    <3>7. SyncOk(m, t)'
      <4>1. CASE sess[n] = "live"
        <5>1. toHub'[m] = Append(toHub[m], Sync(t, g)) /\ toHub[m] \in Seq(HubMsgs)
          BY <2>3, <3>5, <4>1 DEF TypeOK
        <5>2. \A i \in 1 .. Len(toHub'[m]) : toHub'[m][i] = Sync(t, g)
                \/ (i \in 1 .. Len(toHub[m]) /\ toHub'[m][i] = toHub[m][i])
          BY <3>4, <5>1, MsgTypes, AppendElements
        <5>3. \A h \in 0 .. Wrap - 1 : Sync(t, g) = Sync(t, h) => InClass(m, t, h)
          BY <2>3, <3>3 DEF Sync
        <5> QED  BY <2>1, <5>2, <5>3 DEF ClassAt, SyncOk, InClass
      <4>2. CASE sess[n] # "live"
        <5>1. toHub'[m] = toHub[m]  BY <3>5, <4>2 DEF TypeOK
        <5> QED  BY <2>1, <5>1 DEF ClassAt, SyncOk, InClass
      <4> QED  BY <4>1, <4>2
    <3>8. LastOk(m, t)' /\ SentOk(m, t)' /\ QueuedOk(m, t)'
      BY <1>15, <2>1 DEF ClassAt, LastOk, SentOk, QueuedOk, GenerateLowGuid
    <3> QED  BY <3>6, <3>7, <3>8 DEF ClassAt
  <2> QED  BY <2>2, <2>3
<1>16. ASSUME NEW n \in Nodes, Boot(n) PROVE ClassAt(m, t)'
  <2>1. ClassAt(m, t)
    BY <1>0, <1>16 DEF Boot, Clean
  <2>2. /\ UNCHANGED <<last, issued, toNode, recvQ, toHub, given>>
        /\ m # n => range'[m] = range[m] /\ cur'[m][t] = cur[m][t]
        /\ given[n] = {}
    <3>1. UNCHANGED <<last, issued, toNode, recvQ, toHub, given>> /\ ~up[n]
      BY <1>16 DEF Boot
    <3>2. m # n => range'[m] = range[m] /\ cur'[m][t] = cur[m][t]
      BY <1>0, <1>16 DEF Boot, TypeOK
    <3>3. given[n] = {}
      BY <1>0, <3>1 DEF DownClean
    <3> QED
      BY <3>1, <3>2, <3>3
  <2>3. given'[m] = {} \/ (given'[m] = given[m] /\ range'[m] = range[m] /\ cur'[m][t] = cur[m][t])
    BY <2>2
  <2> QED
    BY <2>1, <2>2, <2>3, ClassFrame
<1>17. ASSUME NEW n \in Nodes, MarkOnline(n) \/ MarkOffline(n) PROVE ClassAt(m, t)'
  BY <1>0, <1>17, ClassFrame DEF MarkOnline, MarkOffline, Clean
<1>18. ASSUME NEW n \in Nodes, Stop(n) PROVE ClassAt(m, t)'
  BY <1>0, <1>18, ClassFrame DEF Stop, Clean, TypeOK
<1>19. ASSUME NEW n \in Nodes, BreakLink(n) PROVE ClassAt(m, t)'
  BY <1>0, <1>19, ClassFrame DEF BreakLink, CutLink, Clean, TypeOK
<1>20. CASE UNCHANGED vars
  BY <1>0, <1>20, ClassFrame DEF vars, Clean
<1>21. ASSUME NEW n \in Nodes, Handle_SMSG_AUTH_CHALLENGE_NoRealm(n) PROVE ClassAt(m, t)'
  <2>1. /\ toHub'[m] = <<>> /\ toNode'[m] = <<>>
        /\ UNCHANGED <<last, recvQ, range, cur, given, issued, early, wrapped>>
    BY <1>21 DEF Handle_SMSG_AUTH_CHALLENGE_NoRealm
  <2> QED
    BY <1>0, <2>1, ClassFrame DEF Clean
<1> QED
  BY <1>1, <1>2, <1>3, <1>4, <1>5, <1>6, <1>7, <1>8, <1>9, <1>10, <1>11, <1>12,
     <1>13, <1>14, <1>15, <1>16, <1>17, <1>18, <1>19, <1>20, <1>21
  DEF Next, HubStep, NodeStep

(* The inductive invariant of the id numbering holds, for every number of  *)
(* nodes and any number of crashes, broken connections and lost reports.   *)
THEOREM NumberingCorrect == Spec => []NumberingInv
<1>1. Spec => []TypeOK  BY TypeCorrect
<1>2. Init => NumberingInv  BY InitNumbering
<1>3. TypeOK /\ NumberingInv /\ [Next]_vars => NumberingInv'
  BY NextDown, NextClass DEF NumberingInv
<1> QED  BY <1>1, <1>2, <1>3, PTL DEF Spec

(* Two nodes never draw the same item or mail id, however often the        *)
(* control link of a node breaks and LOGON_INIT_NODE seeds it again.       *)
THEOREM NodesDrawDistinctIds == Spec => []DistinctAcrossNodes
<1>1. TypeOK /\ NumberingInv => DistinctAcrossNodes
  <2> SUFFICES ASSUME TypeOK, NumberingInv, Clean, NEW m \in Nodes, NEW n \in Nodes,
                      NEW t \in Zeroed, NEW g \in issued[m][t], g \in issued[n][t]
               PROVE  m = n
    BY DEF DistinctAcrossNodes
  <2>1. t \in Types  BY DEF Zeroed
  <2>2. g \in Nat  BY <2>1, WrapAssumption DEF TypeOK
  <2>3. InClass(m, t, g) /\ InClass(n, t, g)
    BY DEF NumberingInv, ClassInv, ClassAt, IssuedOk
  <2> QED  BY <2>1, <2>2, <2>3, ClassesDisjoint
<1> QED  BY <1>1, TypeCorrect, NumberingCorrect, PTL

-----------------------------------------------------------------------------
(* The hub never routes clients to a node without a control connection:    *)
(* SetNodeOnline runs only from a packet of the connection, and every end  *)
(* of the connection passes through SetNodeOffline.                        *)
THEOREM NoClientsWithoutLink == Spec => []NoEnterWithoutLink
<1>1. Init => NoEnterWithoutLink
  BY DEF Init, NoEnterWithoutLink
<1>2. TypeOK /\ NoEnterWithoutLink /\ [Next]_vars => NoEnterWithoutLink'
  <2> SUFFICES ASSUME TypeOK, NoEnterWithoutLink, [Next]_vars PROVE NoEnterWithoutLink'
    OBVIOUS
  <2> USE DEF hubVars, chanVars, nodeVars, histVars, TypeOK, NoEnterWithoutLink
  <2>1. ASSUME UNCHANGED <<canEnter, assigned, sock>> PROVE NoEnterWithoutLink'
    BY <2>1
  <2>2. ASSUME NEW n \in Nodes, NEW s \in {"up", "cut", "closing"},
               sock' = [sock EXCEPT ![n] = s], UNCHANGED <<canEnter, assigned>>
        PROVE  NoEnterWithoutLink'
    BY <2>2
  <2>3. ASSUME NEW n \in Nodes, Construct(n) \/ Reconnect(n) PROVE NoEnterWithoutLink'
    <3>1. CASE OpenNodeConnection(n)
      BY <2>2, <2>3, <3>1 DEF Construct, Reconnect, OpenNodeConnection
    <3>2. CASE sock[n] = "unbuilt" /\ sock' = [sock EXCEPT ![n] = "none"]
                 /\ UNCHANGED <<canEnter, assigned>>
      BY <3>2
    <3> QED  BY <2>3, <3>1, <3>2 DEF Construct, Reconnect
  <2>4. ASSUME NEW n \in Nodes, DropSocket(n) PROVE NoEnterWithoutLink'
    BY <2>4 DEF DropSocket
  <2>5. ASSUME NEW n \in Nodes, HandleClose(n) PROVE NoEnterWithoutLink'
    BY <2>2, <2>5 DEF HandleClose, DropQueued
  <2>6. ASSUME NEW n \in Nodes, Handle_SMSG_AUTH_RESPONSE(n) PROVE NoEnterWithoutLink'
    <3>1. CASE UNCHANGED <<sock, pend, sess, unsynced>>
      BY <2>1, <2>6, <3>1 DEF Handle_SMSG_AUTH_RESPONSE
    <3>2. CASE CloseSocket(n)
      BY <2>2, <2>6, <3>2 DEF Handle_SMSG_AUTH_RESPONSE, CloseSocket, DropQueued
    <3> QED  BY <2>6, <3>1, <3>2 DEF Handle_SMSG_AUTH_RESPONSE
  <2>7. ASSUME NEW n \in Nodes, Handle_NODE_INIT_ACK(n) PROVE NoEnterWithoutLink'
    <3>1. CASE /\ Receive(n, InitAck("ACK_OK"))
               /\ canEnter' = [canEnter EXCEPT ![n] = TRUE]
               /\ assigned' = [assigned EXCEPT ![n] = TRUE]
               /\ UNCHANGED sock
      BY <3>1 DEF Receive
    <3>2. CASE CloseSocket(n) /\ UNCHANGED <<canEnter, assigned>>
      BY <2>2, <3>2 DEF CloseSocket, DropQueued
    <3> QED  BY <2>7, <3>1, <3>2 DEF Handle_NODE_INIT_ACK
  <2>8. ASSUME NEW n \in Nodes, HandleAuthSession(n) PROVE NoEnterWithoutLink'
    BY <2>1, <2>2, <2>8 DEF HandleAuthSession
  <2>9. ASSUME NEW n \in Nodes, BreakLink(n) PROVE NoEnterWithoutLink'
    BY <2>2, <2>9 DEF BreakLink
  <2>10. ASSUME NEW n \in Nodes, Stop(n) PROVE NoEnterWithoutLink'
    BY <2>10 DEF Stop
  <2>11. CASE RefreshOnlineStat \/ UNCHANGED vars
    BY <2>1, <2>11 DEF RefreshOnlineStat, vars
  <2>12. ASSUME NEW n \in Nodes,
                \/ Handle_SMSG_AUTH_CHALLENGE(n) \/ Handle_NODE_SYNC_DATA(n)
                \/ AddSession_(n) \/ QueueServerPacket(n)
                \/ Handle_LOGON_INIT_NODE(n) \/ RemoveClosed(n)
                \/ Boot(n) \/ MarkOnline(n) \/ MarkOffline(n)
         PROVE  NoEnterWithoutLink'
    BY <2>1, <2>12 DEF Handle_SMSG_AUTH_CHALLENGE, Handle_NODE_SYNC_DATA, AddSession_,
       QueueServerPacket, Handle_LOGON_INIT_NODE, RemoveClosed, Boot, MarkOnline, MarkOffline
  <2>13. ASSUME NEW n \in Nodes, NEW t \in Types, GenerateLowGuid(n, t)
         PROVE  NoEnterWithoutLink'
    BY <2>1, <2>13 DEF GenerateLowGuid
  <2>14. ASSUME NEW n \in Nodes, Handle_SMSG_AUTH_CHALLENGE_NoRealm(n) PROVE NoEnterWithoutLink'
    BY <2>14 DEF Handle_SMSG_AUTH_CHALLENGE_NoRealm
  <2> QED
    BY <2>3, <2>4, <2>5, <2>6, <2>7, <2>8, <2>9, <2>10, <2>11, <2>12, <2>13, <2>14
    DEF Next, HubStep, NodeStep
<1> QED  BY <1>1, <1>2, TypeCorrect, PTL DEF Spec

-----------------------------------------------------------------------------
(* The hand-shake of the control link: a node that clients may enter has   *)
(* taken its counters from the hub, and LOGON_INIT_NODE never sets a       *)
(* counter back behind an id the node has drawn, as long as every id       *)
(* reached the hub.                                                        *)

(* Inductive strengthening of EnterInitialised: an acknowledgement that    *)
(* the hub has still to read was sent by the process that runs now.        *)
EnterInv ==
    \A n \in Nodes : sock[n] = "up" =>
        /\ canEnter[n] /\ assigned[n] => given[n] = Types
        /\ \A i \in 1 .. Len(toHub[n]) : toHub[n][i] = InitAck("ACK_OK") => given[n] = Types

(* A node is open to clients over a connection that stands only if the     *)
(* process behind it has taken every counter: SetNodeOnline runs on an     *)
(* acknowledgement of this process, and SetNodeOffline before the next     *)
(* connection.                                                             *)
THEOREM OpenNodesInitialised == Spec => []EnterInitialised
<1>1. Init => EnterInv
  BY DEF Init, EnterInv
<1>2. TypeOK /\ DownClean /\ NoEnterWithoutLink /\ EnterInv /\ [Next]_vars => EnterInv'
  <2> SUFFICES ASSUME TypeOK, DownClean, NoEnterWithoutLink, EnterInv, [Next]_vars,
                      NEW m \in Nodes, sock'[m] = "up"
               PROVE  /\ canEnter'[m] /\ assigned'[m] => given'[m] = Types
                      /\ \A i \in 1 .. Len(toHub'[m]) :
                           toHub'[m][i] = InitAck("ACK_OK") => given'[m] = Types
    BY DEF EnterInv
  <2> DEFINE Goal == /\ canEnter'[m] /\ assigned'[m] => given'[m] = Types
                     /\ \A i \in 1 .. Len(toHub'[m]) :
                          toHub'[m][i] = InitAck("ACK_OK") => given'[m] = Types
             Enter == /\ canEnter[m] /\ assigned[m] => given[m] = Types
                      /\ \A i \in 1 .. Len(toHub[m]) :
                           toHub[m][i] = InitAck("ACK_OK") => given[m] = Types
  <2> USE DEF hubVars, chanVars, nodeVars, histVars
  <2>0. sock[m] = "up" => Enter
    BY DEF EnterInv
  <2>1. ASSUME sock[m] = "up", given'[m] = given[m], canEnter'[m] = canEnter[m],
               assigned'[m] = assigned[m],
               \/ toHub'[m] = toHub[m]
               \/ toHub[m] # <<>> /\ toHub'[m] = Tail(toHub[m])
               \/ \E x \in HubMsgs : x # InitAck("ACK_OK") /\ toHub'[m] = Append(toHub[m], x)
        PROVE  Goal
    <3>1. toHub[m] \in Seq(HubMsgs)  BY DEF TypeOK
    <3>2. CASE toHub'[m] = toHub[m]
      BY <2>0, <2>1, <3>2
    <3>3. CASE toHub[m] # <<>> /\ toHub'[m] = Tail(toHub[m])
      BY <2>0, <2>1, <3>1, <3>3, TailElements
    <3>4. CASE \E x \in HubMsgs : x # InitAck("ACK_OK") /\ toHub'[m] = Append(toHub[m], x)
      BY <2>0, <2>1, <3>1, <3>4, AppendElements
    <3> QED  BY <2>1, <3>2, <3>3, <3>4
  <2>2. CASE RefreshOnlineStat \/ UNCHANGED vars
    BY <2>1, <2>2 DEF RefreshOnlineStat, vars
  <2>3. ASSUME NEW n \in Nodes, Construct(n) \/ Reconnect(n) PROVE Goal
    <3>1. CASE m = n
      <4>1. OpenNodeConnection(n)
        BY <2>3, <3>1 DEF Construct, Reconnect, TypeOK
      <4>2. ~(canEnter[m] /\ assigned[m])
        BY <2>3, <3>1 DEF Construct, Reconnect, NoEnterWithoutLink
      <4>3. toHub'[m] = <<Challenge>>
        BY <3>1, <4>1 DEF OpenNodeConnection, TypeOK
      <4>4. Challenge # InitAck("ACK_OK")
        BY DEF Challenge, InitAck
      <4>5. \A i \in 1 .. Len(toHub'[m]) : toHub'[m][i] = Challenge
        BY <4>3
      <4> QED  BY <2>3, <4>2, <4>4, <4>5 DEF Construct, Reconnect
    <3>2. CASE m # n
      BY <2>1, <2>3, <3>2 DEF Construct, Reconnect, OpenNodeConnection, TypeOK
    <3> QED  BY <3>1, <3>2
  <2>4. ASSUME NEW n \in Nodes, DropSocket(n) \/ HandleClose(n) PROVE Goal
    BY <2>1, <2>4 DEF DropSocket, HandleClose, DropQueued, TypeOK
  <2>5. ASSUME NEW n \in Nodes, Handle_SMSG_AUTH_CHALLENGE(n) \/ Handle_NODE_SYNC_DATA(n)
        PROVE  Goal
    BY <2>1, <2>5 DEF Handle_SMSG_AUTH_CHALLENGE, Handle_NODE_SYNC_DATA, Receive, Next_,
       TypeOK
  <2>6. ASSUME NEW n \in Nodes, Handle_SMSG_AUTH_RESPONSE(n) PROVE Goal
    <3>1. CASE toHub' = [toHub EXCEPT ![n] = Tail(@)] /\ toHub[n] # <<>> /\ sock' = sock
      BY <2>1, <2>6, <3>1 DEF Handle_SMSG_AUTH_RESPONSE, TypeOK
    <3>2. CASE CloseSocket(n)
      BY <2>1, <2>6, <3>2 DEF Handle_SMSG_AUTH_RESPONSE, CloseSocket, DropQueued, TypeOK
    <3> QED  BY <2>6, <3>1, <3>2 DEF Handle_SMSG_AUTH_RESPONSE, Receive, Next_
  <2>7. ASSUME NEW n \in Nodes, Handle_NODE_INIT_ACK(n) PROVE Goal
    <3>1. CASE /\ Receive(n, InitAck("ACK_OK"))
               /\ canEnter' = [canEnter EXCEPT ![n] = TRUE]
               /\ assigned' = [assigned EXCEPT ![n] = TRUE]
               /\ toHub' = [toHub EXCEPT ![n] = Tail(@)] /\ sock' = sock
      <4>1. given' = given /\ toHub[n] # <<>> /\ toHub[n] \in Seq(HubMsgs)
              /\ Head(toHub[n]) = InitAck("ACK_OK")
        BY <2>7, <3>1 DEF Handle_NODE_INIT_ACK, Receive, Next_, TypeOK
      <4>2. CASE m = n
        <5>1. 1 \in 1 .. Len(toHub[n]) /\ toHub[n][1] = InitAck("ACK_OK")
          BY <4>1
        <5>2. given[m] = Types  BY <2>0, <3>1, <4>2, <5>1
        <5> QED  BY <4>1, <5>2
      <4>3. CASE m # n
        BY <2>1, <3>1, <4>1, <4>3 DEF TypeOK
      <4> QED  BY <4>2, <4>3
    <3>2. CASE CloseSocket(n) /\ UNCHANGED <<canEnter, assigned>>
      BY <2>1, <2>7, <3>2 DEF Handle_NODE_INIT_ACK, CloseSocket, DropQueued, TypeOK
    <3> QED  BY <2>7, <3>1, <3>2 DEF Handle_NODE_INIT_ACK
  <2>8. ASSUME NEW n \in Nodes, HandleAuthSession(n) PROVE Goal
    BY <2>1, <2>8 DEF HandleAuthSession, TypeOK
  <2>9. ASSUME NEW n \in Nodes, AddSession_(n) PROVE Goal
    <3>1. AuthResponse("AUTH_OK") \in HubMsgs /\ AuthResponse("AUTH_OK") # InitAck("ACK_OK")
      BY MsgTypes DEF AuthResponse, InitAck
    <3> QED  BY <2>1, <2>9, <3>1 DEF AddSession_, TypeOK
  <2>10. ASSUME NEW n \in Nodes, QueueServerPacket(n) \/ RemoveClosed(n) PROVE Goal
    BY <2>1, <2>10 DEF QueueServerPacket, RemoveClosed
  <2>11. ASSUME NEW n \in Nodes, Handle_LOGON_INIT_NODE(n) PROVE Goal
    <3> DEFINE ok == Accepted(Head(recvQ[n]).guid)
               c == IF ok = Types THEN "ACK_OK" ELSE "GUID_FAIL"
    <3>1. /\ given' = [given EXCEPT ![n] = @ \cup ok]
          /\ toHub' = IF sess[n] = "live" THEN [toHub EXCEPT ![n] = Append(@, InitAck(c))] ELSE toHub
          /\ UNCHANGED <<sock, canEnter, assigned>>
      BY <2>11 DEF Handle_LOGON_INIT_NODE
    <3>2. ok \subseteq Types  BY DEF Accepted
    <3>3. c \in {"ACK_OK", "GUID_FAIL"} /\ (c = "ACK_OK" => ok = Types)  OBVIOUS
    <3> HIDE DEF ok, c
    <3>4. CASE given[n] = Types \/ ok = Types
      <4>1. given'[n] = Types  BY <3>1, <3>2, <3>4 DEF TypeOK
      <4> QED  BY <2>1, <3>1, <4>1 DEF TypeOK
    <3>5. CASE given[n] # Types /\ ok # Types
      <4>1. InitAck(c) \in HubMsgs  BY <3>3, MsgTypes
      <4>2. InitAck(c) # InitAck("ACK_OK")  BY <3>3, <3>5 DEF InitAck
      <4>3. toHub \in [Nodes -> Seq(HubMsgs)] /\ sock[m] = "up"  BY <3>1 DEF TypeOK
      <4>4. \A i \in 1 .. Len(toHub'[m]) : toHub'[m][i] = InitAck(c)
               \/ (i \in 1 .. Len(toHub[m]) /\ toHub'[m][i] = toHub[m][i])
        BY <3>1, <4>1, <4>3, AppendElements
      <4>5. given[m] = Types => given'[m] = Types
        BY <3>1, <3>2 DEF TypeOK
      <4> QED  BY <2>0, <3>1, <4>2, <4>3, <4>4, <4>5
    <3> QED  BY <3>4, <3>5
  <2>12. ASSUME NEW n \in Nodes, NEW t \in Types, GenerateLowGuid(n, t) PROVE Goal
    <3> DEFINE x == Sync(t, Add32(cur[n][t], range[n]))
    <3>1. x \in HubMsgs /\ x # InitAck("ACK_OK")
      <4>1. cur[n][t] \in 0 .. Wrap - 1 /\ range[n] \in 0 .. Wrap - 1  BY DEF TypeOK
      <4>2. Add32(cur[n][t], range[n]) \in 0 .. Wrap - 1  BY <4>1, Add32Type
      <4>3. x \in HubMsgs  BY <4>2, MsgTypes
      <4> QED  BY <4>3 DEF Sync, InitAck
    <3>2. toHub'[m] = toHub[m] \/ toHub'[m] = Append(toHub[m], x)
      BY <2>12 DEF GenerateLowGuid, TypeOK
    <3> HIDE DEF x
    <3> QED  BY <2>1, <2>12, <3>1, <3>2 DEF GenerateLowGuid
  <2>13. ASSUME NEW n \in Nodes, Boot(n) \/ MarkOnline(n) \/ MarkOffline(n) PROVE Goal
    BY <2>1, <2>13 DEF Boot, MarkOnline, MarkOffline
  <2>14. ASSUME NEW n \in Nodes, Stop(n) \/ BreakLink(n) PROVE Goal
    <3>1. m # n  BY <2>14 DEF Stop, BreakLink, TypeOK
    <3> QED  BY <2>1, <2>14, <3>1 DEF Stop, BreakLink, TypeOK
  <2>15. ASSUME NEW n \in Nodes, Handle_SMSG_AUTH_CHALLENGE_NoRealm(n) PROVE Goal
    BY <2>15 DEF Handle_SMSG_AUTH_CHALLENGE_NoRealm
  <2> QED
    BY <2>2, <2>3, <2>4, <2>5, <2>6, <2>7, <2>8, <2>9, <2>10, <2>11, <2>12, <2>13, <2>14, <2>15
    DEF Next, HubStep, NodeStep
<1>3. NumberingInv => DownClean  BY DEF NumberingInv
<1>4. EnterInv => EnterInitialised  BY DEF EnterInv, EnterInitialised
<1> QED
  BY <1>1, <1>2, <1>3, <1>4, TypeCorrect, NumberingCorrect, NoClientsWithoutLink, PTL
     DEF Spec

-----------------------------------------------------------------------------
(* The hand-shake of a connection, from the challenge to the answer to     *)
(* LOGON_INIT_NODE.  A node that has drawn an id outside an initialised    *)
(* session is in unsynced and not looked at.                               *)
NoneOf(n, m) == \A i \in 1 .. Len(toHub[n]) : toHub[n][i] # m

Challenged(n) ==
    /\ toHub[n] = <<Challenge>> /\ toNode[n] = <<>>
    /\ pend[n] # "live" /\ sess[n] # "live"

Answered(n) ==
    /\ toHub[n] = <<>> /\ toNode[n] = <<AuthMaster>>
    /\ pend[n] # "live" /\ sess[n] # "live"

Pending(n) ==
    /\ toHub[n] = <<>> /\ toNode[n] = <<>>
    /\ pend[n] = "live" /\ sess[n] # "live"

InSession(n) == pend[n] = "none" /\ sess[n] = "live"

Added(n) ==
    /\ InSession(n) /\ ~greeted[n] /\ recvQ[n] = <<>>
    /\ toHub[n] = <<AuthResponse("AUTH_OK")>> /\ toNode[n] = <<>>

SeedSent(n) ==
    /\ InSession(n) /\ ~greeted[n] /\ recvQ[n] = <<>>
    /\ toHub[n] = <<>> /\ \E m \in InitMsgs : toNode[n] = <<m>>

SeedQueued(n) ==
    /\ InSession(n) /\ ~greeted[n] /\ \E m \in InitMsgs : recvQ[n] = <<m>>
    /\ toHub[n] = <<>> /\ toNode[n] = <<>>

Greeted(n) ==
    /\ InSession(n) /\ greeted[n] /\ recvQ[n] = <<>> /\ toNode[n] = <<>>
    /\ NoneOf(n, Challenge) /\ NoneOf(n, AuthResponse("AUTH_OK"))

Unlinked(n) == toNode[n] = <<>> /\ pend[n] # "live" /\ sess[n] # "live"

Handshake(n) ==
    /\ sock[n] = "up" =>
         \/ Challenged(n) \/ Answered(n) \/ Pending(n) \/ Added(n)
         \/ SeedSent(n) \/ SeedQueued(n) \/ Greeted(n)
    /\ sock[n] # "up" => Unlinked(n)
    /\ sock[n] \in {"unbuilt", "none", "closing", "ended"} => toHub[n] = <<>>

HandshakeInv == \A n \in Nodes \ unsynced : Handshake(n)

(* What the hub will hold for type t once it has handled the queue q,      *)
(* starting from x, is not below any id of I.                              *)
Below(I, x) == \A g \in I : g <= x

NoSync(q, t) == \A i \in 1 .. Len(q), h \in 0 .. Wrap - 1 : q[i] # Sync(t, h)

FinalSync(q, t, i, h) ==
    /\ q[i] = Sync(t, h)
    /\ \A j \in 1 .. Len(q), k \in 0 .. Wrap - 1 : j > i => q[j] # Sync(t, k)

Covers(q, t, x, I) ==
    /\ NoSync(q, t) => Below(I, x)
    /\ \A i \in 1 .. Len(q), h \in 0 .. Wrap - 1 : FinalSync(q, t, i, h) => Below(I, h)

(* Inductive strengthening of NeverBehind: the hub knows, or is about to   *)
(* know, the last id of every type, and no seed on its way is behind it.   *)
HubCovers(n, t) == Covers(toHub[n], t, last[n][t], issued[n][t])
SentCovers(n, t) == \A i \in 1 .. Len(toNode[n]) :
    toNode[n][i] # AuthMaster => Below(issued[n][t], toNode[n][i].guid[t])
QueuedCovers(n, t) == \A i \in 1 .. Len(recvQ[n]) : Below(issued[n][t], recvQ[n][i].guid[t])
CounterCovers(n, t) == t \in given[n] => Below(issued[n][t], cur[n][t])

InOrder(n, t) ==
    HubCovers(n, t) /\ SentCovers(n, t) /\ QueuedCovers(n, t) /\ CounterCovers(n, t)

InOrderInv == Clean => \A n \in Nodes \ unsynced, t \in Zeroed : InOrder(n, t)

-----------------------------------------------------------------------------
(* A queue with one packet.                                                *)
LEMMA OnePacket ==
    ASSUME NEW x
    PROVE  /\ <<x>> # <<>> /\ Head(<<x>>) = x /\ Tail(<<x>>) = <<>>
           /\ Append(<<>>, x) = <<x>> /\ Len(<<x>>) = 1 /\ <<x>>[1] = x
OBVIOUS

(* The packets of the hand-shake can be told apart.                        *)
LEMMA Distinct ==
    /\ Challenge # AuthResponse("AUTH_OK") /\ Challenge # AuthResponse("AUTH_FAILED")
    /\ AuthResponse("AUTH_OK") # AuthResponse("AUTH_FAILED")
    /\ \A c : InitAck(c) # Challenge /\ InitAck(c) # AuthResponse("AUTH_OK")
    /\ \A t, g : Sync(t, g) # Challenge /\ Sync(t, g) # AuthResponse("AUTH_OK")
    /\ \A m \in InitMsgs : m # AuthMaster
BY DEF Challenge, AuthResponse, InitAck, Sync, AuthMaster, InitMsgs

(* What went wrong once is remembered: the history only grows.             *)
LEMMA HistoryGrows ==
    TypeOK /\ [Next]_vars => unsynced \subseteq unsynced' /\ (Clean' => Clean)
<1> SUFFICES ASSUME TypeOK, [Next]_vars
             PROVE  unsynced \subseteq unsynced' /\ (Clean' => Clean)
  OBVIOUS
<1> USE DEF hubVars, chanVars, nodeVars, histVars, Clean
<1>1. CASE RefreshOnlineStat \/ UNCHANGED vars
  BY <1>1 DEF RefreshOnlineStat, vars
<1>2. ASSUME NEW n \in Nodes, HubStep(n) PROVE unsynced \subseteq unsynced' /\ (Clean' => Clean)
  <2>1. CASE Construct(n) \/ Reconnect(n) \/ DropSocket(n)
    BY <2>1 DEF Construct, Reconnect, DropSocket
  <2>2. CASE HandleClose(n)
    BY <2>2 DEF HandleClose, DropQueued
  <2>3. CASE Handle_SMSG_AUTH_CHALLENGE(n) \/ Handle_NODE_SYNC_DATA(n)
    BY <2>3 DEF Handle_SMSG_AUTH_CHALLENGE, Handle_NODE_SYNC_DATA
  <2>4. CASE Handle_SMSG_AUTH_RESPONSE(n)
    BY <2>4 DEF Handle_SMSG_AUTH_RESPONSE, SendInitAuthedNode, CloseSocket, DropQueued
  <2>5. CASE Handle_NODE_INIT_ACK(n)
    BY <2>5 DEF Handle_NODE_INIT_ACK, CloseSocket, DropQueued
  <2> QED  BY <1>2, <2>1, <2>2, <2>3, <2>4, <2>5 DEF HubStep
<1>3. ASSUME NEW n \in Nodes, NodeStep(n) PROVE unsynced \subseteq unsynced' /\ (Clean' => Clean)
  BY <1>3 DEF NodeStep, HandleAuthSession, AddSession_, QueueServerPacket,
     Handle_LOGON_INIT_NODE, RemoveClosed
<1>4. ASSUME NEW n \in Nodes, NEW t \in Types, GenerateLowGuid(n, t)
      PROVE unsynced \subseteq unsynced' /\ (Clean' => Clean)
  BY <1>4 DEF GenerateLowGuid
<1>5. ASSUME NEW n \in Nodes, Boot(n) \/ MarkOnline(n) \/ Stop(n) \/ MarkOffline(n) \/ BreakLink(n)
      PROVE unsynced \subseteq unsynced' /\ (Clean' => Clean)
  BY <1>5 DEF Boot, MarkOnline, Stop, MarkOffline, BreakLink
<1>6. ASSUME NEW n \in Nodes, Handle_SMSG_AUTH_CHALLENGE_NoRealm(n)
      PROVE unsynced \subseteq unsynced' /\ (Clean' => Clean)
  BY <1>6 DEF Handle_SMSG_AUTH_CHALLENGE_NoRealm
<1> QED  BY <1>1, <1>2, <1>3, <1>4, <1>5, <1>6 DEF Next

(* The hand-shake of a node depends on its own link and sessions alone.    *)
LEMMA HandshakeFrame ==
    ASSUME NEW m \in Nodes, Handshake(m), sock'[m] = sock[m], toHub'[m] = toHub[m],
           toNode'[m] = toNode[m], pend'[m] = pend[m], sess'[m] = sess[m],
           recvQ'[m] = recvQ[m], greeted'[m] = greeted[m]
    PROVE  Handshake(m)'
BY DEF Handshake, Challenged, Answered, Pending, Added, SeedSent, SeedQueued, Greeted,
       Unlinked, InSession, NoneOf

(* A connection goes through its hand-shake once: challenge, login, answer *)
(* and LOGON_INIT_NODE each exist at most once, and none of them is left   *)
(* when the node has been given its counters.                              *)
LEMMA NextHandshake == TypeOK /\ HandshakeInv /\ [Next]_vars => HandshakeInv'
<1> SUFFICES ASSUME TypeOK, HandshakeInv, [Next]_vars, NEW m \in Nodes, m \notin unsynced'
             PROVE  Handshake(m)'
  BY DEF HandshakeInv
<1> USE DEF hubVars, chanVars, nodeVars, histVars
<1>0. Handshake(m)  BY HistoryGrows DEF HandshakeInv
<1>1. CASE RefreshOnlineStat \/ UNCHANGED vars
  BY <1>0, <1>1, HandshakeFrame DEF RefreshOnlineStat, vars
<1>2. ASSUME NEW n \in Nodes, Construct(n) \/ Reconnect(n) PROVE Handshake(m)'
  <2>1. CASE m # n
    BY <1>0, <1>2, <2>1, HandshakeFrame DEF Construct, Reconnect, OpenNodeConnection, TypeOK
  <2>2. CASE m = n /\ OpenNodeConnection(n)
    <3>1. Unlinked(m)  BY <1>0, <1>2, <2>2 DEF Handshake, Construct, Reconnect
    <3>2. Challenged(m)'
      BY <1>2, <2>2, <3>1 DEF Challenged, Unlinked, OpenNodeConnection, TypeOK,
         Construct, Reconnect
    <3>3. sock'[m] = "up"  BY <2>2 DEF OpenNodeConnection, TypeOK
    <3> QED  BY <3>2, <3>3 DEF Handshake
  <2>3. CASE m = n /\ sock[n] = "unbuilt" /\ sock' = [sock EXCEPT ![n] = "none"] /\ UNCHANGED <<chanVars, nodeVars>>
    <3>1. toHub[m] = <<>> /\ Unlinked(m)  BY <1>0, <2>3 DEF Handshake
    <3>2. sock'[m] = "none" /\ toHub'[m] = <<>> /\ Unlinked(m)'
      BY <2>3, <3>1 DEF Unlinked, TypeOK
    <3> QED  BY <3>2 DEF Handshake
  <2> QED  BY <1>2, <2>1, <2>2, <2>3 DEF Construct, Reconnect
<1>3. ASSUME NEW n \in Nodes, DropSocket(n) PROVE Handshake(m)'
  <2>1. CASE m # n
    BY <1>0, <1>3, <2>1, HandshakeFrame DEF DropSocket, TypeOK
  <2>2. CASE m = n
    <3>1. toHub[m] = <<>> /\ Unlinked(m)  BY <1>0, <1>3, <2>2 DEF Handshake, DropSocket
    <3>2. sock'[m] = "none" /\ toHub'[m] = <<>> /\ Unlinked(m)'
      BY <1>3, <2>2, <3>1 DEF DropSocket, Unlinked, TypeOK
    <3> QED  BY <3>2 DEF Handshake
  <2> QED  BY <2>1, <2>2
<1>4. ASSUME NEW n \in Nodes, HandleClose(n) PROVE Handshake(m)'
  <2>1. CASE m # n
    BY <1>0, <1>4, <2>1, HandshakeFrame DEF HandleClose, DropQueued, TypeOK
  <2>2. CASE m = n
    <3>1. Unlinked(m)  BY <1>0, <1>4, <2>2 DEF Handshake, HandleClose
    <3>2. sock'[m] = "closing" /\ toHub'[m] = <<>> /\ Unlinked(m)'
      BY <1>4, <2>2, <3>1 DEF HandleClose, DropQueued, Unlinked, TypeOK
    <3> QED  BY <3>2 DEF Handshake
  <2> QED  BY <2>1, <2>2
<1>5. ASSUME NEW n \in Nodes, CloseSocket(n), UNCHANGED <<recvQ, greeted>> PROVE Handshake(m)'
  <2>1. CASE m # n
    BY <1>0, <1>5, <2>1, HandshakeFrame DEF CloseSocket, CutLink, DropQueued, TypeOK
  <2>2. CASE m = n
    <3>1. sock'[m] = "closing" /\ toHub'[m] = <<>> /\ Unlinked(m)'
      BY <1>5, <2>2 DEF CloseSocket, CutLink, DropQueued, Unlinked, Stale, TypeOK
    <3> QED  BY <3>1 DEF Handshake
  <2> QED  BY <2>1, <2>2
<1>6. ASSUME NEW n \in Nodes, Handle_SMSG_AUTH_CHALLENGE(n) PROVE Handshake(m)'
  <2>1. CASE m # n
    BY <1>0, <1>6, <2>1, HandshakeFrame DEF Handle_SMSG_AUTH_CHALLENGE, SendToNode, TypeOK
  <2>2. CASE m = n /\ sock[n] = "up"
    <3>1. toHub[m] \in Seq(HubMsgs) /\ toHub[m] # <<>> /\ Head(toHub[m]) = Challenge
      BY <1>6, <2>2 DEF Handle_SMSG_AUTH_CHALLENGE, Receive, Next_, TypeOK
    <3>2. ~NoneOf(m, Challenge)  BY <3>1 DEF NoneOf
    <3>3. Challenged(m)
      BY <1>0, <2>2, <3>1, <3>2, Distinct, OnePacket
         DEF Handshake, Answered, Pending, Added, SeedSent, SeedQueued, Greeted
    <3>4. Answered(m)'
      BY <1>6, <2>2, <3>3, OnePacket DEF Challenged, Answered,
         Handle_SMSG_AUTH_CHALLENGE, SendToNode, TypeOK
    <3> QED  BY <1>6, <2>2, <3>4 DEF Handshake, Handle_SMSG_AUTH_CHALLENGE
  <2>3. CASE m = n /\ sock[n] = "cut"
    <3>1. Unlinked(m)' /\ sock'[m] = "cut"
      BY <1>0, <1>6, <2>3 DEF Handshake, Unlinked, Handle_SMSG_AUTH_CHALLENGE, SendToNode
    <3> QED  BY <3>1 DEF Handshake
  <2> QED  BY <1>6, <2>1, <2>2, <2>3 DEF Handle_SMSG_AUTH_CHALLENGE, Receive
<1>7. ASSUME NEW n \in Nodes, Handle_SMSG_AUTH_RESPONSE(n) PROVE Handshake(m)'
  <2>1. CASE CloseSocket(n)
    BY <1>5, <1>7, <2>1 DEF Handle_SMSG_AUTH_RESPONSE
  <2>2. CASE Receive(n, AuthResponse("AUTH_OK")) /\ SendInitAuthedNode(n)
               /\ toHub' = [toHub EXCEPT ![n] = Tail(@)]
               /\ UNCHANGED <<sock, pend, sess, unsynced>>
    <3> DEFINE x == InitNode(GetNodeCount, [t \in Types |-> SeedGuid(n, t)])
    <3>0. x \in InitMsgs
      BY SeedType, NodeCount DEF InitNode, InitMsgs
    <3>a. toNode' = IF sock[n] = "up" THEN [toNode EXCEPT ![n] = Append(@, x)] ELSE toNode
      BY <2>2 DEF SendInitAuthedNode, SendToNode
    <3>b. UNCHANGED <<recvQ, greeted>>  BY <1>7 DEF Handle_SMSG_AUTH_RESPONSE
    <3> HIDE DEF x
    <3>1. CASE m # n
      BY <1>0, <2>2, <3>1, <3>a, <3>b, HandshakeFrame DEF TypeOK
    <3>2. CASE m = n /\ sock[n] = "up"
      <4>1. toHub[m] \in Seq(HubMsgs) /\ toHub[m] # <<>> /\ Head(toHub[m]) = AuthResponse("AUTH_OK")
        BY <2>2, <3>2 DEF Receive, Next_, TypeOK
      <4>2. ~NoneOf(m, AuthResponse("AUTH_OK"))  BY <4>1 DEF NoneOf
      <4>3. Added(m)
        BY <1>0, <3>2, <4>1, <4>2, Distinct, OnePacket
           DEF Handshake, Answered, Pending, Challenged, SeedSent, SeedQueued, Greeted
      <4>4. toNode'[m] = <<x>> /\ toHub'[m] = <<>>
        BY <2>2, <3>2, <3>a, <4>3, OnePacket DEF Added, TypeOK
      <4>5. SeedSent(m)'
        BY <2>2, <3>0, <3>b, <4>3, <4>4 DEF Added, SeedSent, InSession
      <4> QED  BY <2>2, <3>2, <4>5 DEF Handshake
    <3>3. CASE m = n /\ sock[n] = "cut"
      <4>1. Unlinked(m)' /\ sock'[m] = "cut"
        BY <1>0, <2>2, <3>3, <3>a DEF Handshake, Unlinked
      <4> QED  BY <4>1 DEF Handshake
    <3> QED  BY <2>2, <3>1, <3>2, <3>3 DEF Receive
  <2> QED  BY <1>7, <2>1, <2>2 DEF Handle_SMSG_AUTH_RESPONSE
<1>8. ASSUME NEW n \in Nodes, NEW x \in HubMsgs, x # Challenge, x # AuthResponse("AUTH_OK"),
             Receive(n, x), toHub' = [toHub EXCEPT ![n] = Tail(@)],
             UNCHANGED <<sock, toNode, pend, sess, recvQ, greeted>>
      PROVE  Handshake(m)'
  <2>1. CASE m # n
    BY <1>0, <1>8, <2>1, HandshakeFrame DEF TypeOK
  <2>2. CASE m = n /\ sock[n] = "up"
    <3>1. toHub[m] \in Seq(HubMsgs) /\ toHub[m] # <<>> /\ Head(toHub[m]) = x
      BY <1>8, <2>2 DEF Receive, Next_, TypeOK
    <3>2. Greeted(m)
      BY <1>0, <1>8, <2>2, <3>1, OnePacket
         DEF Handshake, Answered, Pending, Challenged, Added, SeedSent, SeedQueued
    <3>3. toHub'[m] = Tail(toHub[m])  BY <1>8, <2>2 DEF TypeOK
    <3>4. NoneOf(m, Challenge)' /\ NoneOf(m, AuthResponse("AUTH_OK"))'
      BY <3>1, <3>2, <3>3, TailElements DEF Greeted, NoneOf, AuthResponse, Challenge
    <3>5. Greeted(m)'
      BY <1>8, <3>2, <3>4 DEF Greeted, InSession
    <3> QED  BY <1>8, <2>2, <3>5 DEF Handshake
  <2>3. CASE m = n /\ sock[n] = "cut"
    <3>1. Unlinked(m)' /\ sock'[m] = "cut"
      BY <1>0, <1>8, <2>3 DEF Handshake, Unlinked
    <3> QED  BY <3>1 DEF Handshake
  <2> QED  BY <1>8, <2>1, <2>2, <2>3 DEF Receive
<1>9. ASSUME NEW n \in Nodes, Handle_NODE_INIT_ACK(n) PROVE Handshake(m)'
  <2>1. CASE CloseSocket(n)
    BY <1>5, <1>9, <2>1 DEF Handle_NODE_INIT_ACK
  <2>2. CASE Receive(n, InitAck("ACK_OK")) /\ toHub' = [toHub EXCEPT ![n] = Tail(@)]
               /\ UNCHANGED <<sock, toNode, pend, sess, unsynced>>
    <3>1. UNCHANGED <<recvQ, greeted>>  BY <1>9 DEF Handle_NODE_INIT_ACK
    <3> QED  BY <1>8, <2>2, <3>1, Distinct, MsgTypes
  <2> QED  BY <1>9, <2>1, <2>2 DEF Handle_NODE_INIT_ACK
<1>10. ASSUME NEW n \in Nodes, Handle_NODE_SYNC_DATA(n) PROVE Handshake(m)'
  <2>1. PICK t \in Types, g \in 0 .. Wrap - 1 : Receive(n, Sync(t, g))
    BY <1>10 DEF Handle_NODE_SYNC_DATA
  <2>2. /\ toHub' = [toHub EXCEPT ![n] = Tail(@)]
        /\ UNCHANGED <<sock, toNode, pend, sess, recvQ, greeted>>
    BY <1>10 DEF Handle_NODE_SYNC_DATA
  <2> QED  BY <1>8, <2>1, <2>2, Distinct, MsgTypes
<1>11. ASSUME NEW n \in Nodes, HandleAuthSession(n) PROVE Handshake(m)'
  <2>0. toNode[n] # <<>> /\ Head(toNode[n]) = AuthMaster /\ UNCHANGED <<recvQ, greeted>>
    BY <1>11 DEF HandleAuthSession, Next_
  <2>1. CASE m # n
    BY <1>0, <1>11, <2>1, HandshakeFrame DEF HandleAuthSession, CutLink, TypeOK
  <2>2. CASE m = n /\ sock' = [sock EXCEPT ![n] = "cut"] /\ CutLink(n)
    <3>1. sock'[m] = "cut" /\ Unlinked(m)'
      BY <2>2 DEF CutLink, Unlinked, Stale, TypeOK
    <3> QED  BY <3>1 DEF Handshake
  <2>3. CASE /\ m = n
             /\ pend' = [pend EXCEPT ![n] = "live"]
             /\ toNode' = [toNode EXCEPT ![n] = Tail(@)]
             /\ UNCHANGED <<toHub, sock, sess, faults>>
    <3>1. sock[m] = "up"  BY <1>0, <2>0, <2>3 DEF Handshake, Unlinked
    <3>2. Answered(m)
      BY <1>0, <2>0, <2>3, <3>1, Distinct, OnePacket
         DEF Handshake, Challenged, Pending, Added, SeedSent, SeedQueued, Greeted
    <3>3. Pending(m)'
      BY <2>3, <3>2, OnePacket DEF Answered, Pending, TypeOK
    <3> QED  BY <2>3, <3>1, <3>3 DEF Handshake
  <2> QED  BY <1>11, <2>1, <2>2, <2>3 DEF HandleAuthSession
<1>12. ASSUME NEW n \in Nodes, AddSession_(n) PROVE Handshake(m)'
  <2>1. CASE m # n
    BY <1>0, <1>12, <2>1, HandshakeFrame DEF AddSession_, TypeOK
  <2>2. CASE m = n /\ pend[n] = "live"
    <3>1. sock[m] = "up" /\ Pending(m)
      BY <1>0, <2>2 DEF Handshake, Challenged, Answered, Added, SeedSent, SeedQueued,
         Greeted, InSession, Unlinked
    <3>2. Added(m)'
      BY <1>12, <2>2, <3>1, OnePacket DEF AddSession_, Pending, Added, InSession, TypeOK
    <3> QED  BY <1>12, <3>1, <3>2 DEF AddSession_, Handshake
  <2>3. CASE m = n /\ pend[n] = "stale"
    <3>1. /\ toHub'[m] = toHub[m] /\ toNode'[m] = toNode[m] /\ sock'[m] = sock[m]
          /\ pend'[m] = "none" /\ sess'[m] = "stale"
      BY <1>12, <2>3 DEF AddSession_, TypeOK
    <3> QED
      BY <1>0, <2>3, <3>1
         DEF Handshake, Challenged, Answered, Pending, Added, SeedSent, SeedQueued,
            Greeted, InSession, Unlinked
  <2> QED  BY <1>12, <2>1, <2>2, <2>3 DEF AddSession_, TypeOK
<1>13. ASSUME NEW n \in Nodes, QueueServerPacket(n) PROVE Handshake(m)'
  <2>1. CASE m # n
    BY <1>0, <1>13, <2>1, HandshakeFrame DEF QueueServerPacket, TypeOK
  <2>2. CASE m = n
    <3>0. toNode[n] # <<>> /\ Head(toNode[n]) # AuthMaster
      BY <1>13 DEF QueueServerPacket
    <3>1. sock[m] = "up"  BY <1>0, <2>2, <3>0 DEF Handshake, Unlinked
    <3>2. SeedSent(m)
      BY <1>0, <2>2, <3>0, <3>1, OnePacket
         DEF Handshake, Challenged, Answered, Pending, Added, SeedQueued, Greeted
    <3>3. PICK x \in InitMsgs : toNode[m] = <<x>>  BY <3>2 DEF SeedSent
    <3>4. recvQ'[m] = <<x>> /\ toNode'[m] = <<>>
      BY <1>13, <2>2, <3>2, <3>3, OnePacket DEF QueueServerPacket, SeedSent, TypeOK
    <3>5. SeedQueued(m)'
      BY <1>13, <3>2, <3>4 DEF SeedSent, SeedQueued, InSession, QueueServerPacket
    <3> QED  BY <1>13, <3>1, <3>5 DEF Handshake, QueueServerPacket
  <2> QED  BY <2>1, <2>2
<1>14. ASSUME NEW n \in Nodes, Handle_LOGON_INIT_NODE(n) PROVE Handshake(m)'
  <2>1. CASE m # n
    BY <1>0, <1>14, <2>1, HandshakeFrame DEF Handle_LOGON_INIT_NODE, TypeOK
  <2>2. CASE m = n /\ sess[n] = "live"
    <3>1. sock[m] = "up" /\ SeedQueued(m)
      BY <1>0, <1>14, <2>2
         DEF Handshake, Challenged, Answered, Pending, Added, SeedSent, Greeted,
            Unlinked, Handle_LOGON_INIT_NODE
    <3>2. PICK x \in InitMsgs : recvQ[m] = <<x>>  BY <3>1 DEF SeedQueued
    <3>3. PICK c \in {"ACK_OK", "GUID_FAIL"} : toHub'[m] = Append(toHub[m], InitAck(c))
      BY <1>14, <2>2 DEF Handle_LOGON_INIT_NODE, TypeOK
    <3>4. toHub'[m] = <<InitAck(c)>>  BY <3>1, <3>3, OnePacket DEF SeedQueued
    <3>5. NoneOf(m, Challenge)' /\ NoneOf(m, AuthResponse("AUTH_OK"))'
      BY <3>4, Distinct DEF NoneOf, AuthResponse, Challenge
    <3>6. recvQ'[m] = <<>> /\ greeted'[m] = TRUE /\ UNCHANGED <<sock, toNode, pend, sess>>
      BY <1>14, <2>2, <3>2, OnePacket DEF Handle_LOGON_INIT_NODE, TypeOK
    <3>7. Greeted(m)'
      BY <3>1, <3>5, <3>6 DEF Greeted, SeedQueued, InSession
    <3> QED  BY <3>1, <3>6, <3>7 DEF Handshake
  <2>3. CASE m = n /\ sess[n] # "live"
    <3>1. UNCHANGED <<sock, toHub, toNode, pend, sess>>
      BY <1>14, <2>3 DEF Handle_LOGON_INIT_NODE
    <3> QED
      BY <1>0, <2>3, <3>1
         DEF Handshake, Challenged, Answered, Pending, Added, SeedSent, SeedQueued,
            Greeted, InSession, Unlinked
  <2> QED  BY <2>1, <2>2, <2>3
<1>15. ASSUME NEW n \in Nodes, RemoveClosed(n) PROVE Handshake(m)'
  <2>1. CASE m # n
    BY <1>0, <1>15, <2>1, HandshakeFrame DEF RemoveClosed, TypeOK
  <2>2. CASE m = n
    <3>1. /\ UNCHANGED <<sock, toHub, toNode, pend>>
          /\ sess[m] = "stale" /\ sess'[m] = "none"
      BY <1>15, <2>2 DEF RemoveClosed, TypeOK
    <3> QED
      BY <1>0, <3>1
         DEF Handshake, Challenged, Answered, Pending, Added, SeedSent, SeedQueued,
            Greeted, InSession, Unlinked
  <2> QED  BY <2>1, <2>2
<1>16. ASSUME NEW n \in Nodes, NEW t \in Types, GenerateLowGuid(n, t) PROVE Handshake(m)'
  <2>1. CASE m # n
    BY <1>0, <1>16, <2>1, HandshakeFrame DEF GenerateLowGuid, TypeOK
  <2>2. CASE m = n
    <3> DEFINE g == Add32(cur[n][t], range[n])
    <3>1. sess[n] = "live" /\ greeted[n]
      BY <1>16, <2>2 DEF GenerateLowGuid
    <3>2. sock[m] = "up" /\ Greeted(m)
      BY <1>0, <2>2, <3>1
         DEF Handshake, Challenged, Answered, Pending, Added, SeedSent, SeedQueued, Unlinked
    <3>3. toHub'[m] = Append(toHub[m], Sync(t, g))
      BY <1>16, <2>2, <3>1 DEF GenerateLowGuid, TypeOK
    <3>a. g \in 0 .. Wrap - 1
      <4>1. cur[n][t] \in 0 .. Wrap - 1 /\ range[n] \in 0 .. Wrap - 1  BY DEF TypeOK
      <4> QED  BY <4>1, Add32Type
    <3> HIDE DEF g
    <3>4. Sync(t, g) \in HubMsgs /\ toHub[m] \in Seq(HubMsgs)
      BY <3>a, MsgTypes DEF TypeOK
    <3>5. NoneOf(m, Challenge)' /\ NoneOf(m, AuthResponse("AUTH_OK"))'
      BY <3>2, <3>3, <3>4, Distinct, AppendElements DEF Greeted, NoneOf, AuthResponse,
         Challenge
    <3>6. Greeted(m)'
      BY <1>16, <3>2, <3>5 DEF GenerateLowGuid, Greeted, InSession
    <3> QED  BY <1>16, <3>2, <3>6 DEF GenerateLowGuid, Handshake
  <2> QED  BY <2>1, <2>2
<1>17. ASSUME NEW n \in Nodes, Boot(n) \/ MarkOnline(n) \/ MarkOffline(n) PROVE Handshake(m)'
  BY <1>0, <1>17, HandshakeFrame DEF Boot, MarkOnline, MarkOffline
<1>18. ASSUME NEW n \in Nodes, Stop(n) \/ BreakLink(n) PROVE Handshake(m)'
  <2>1. CASE m # n
    BY <1>0, <1>18, <2>1, HandshakeFrame DEF Stop, BreakLink, CutLink, TypeOK
  <2>2. CASE m = n
    <3>1. Unlinked(m)' /\ UNCHANGED toHub
      BY <1>18, <2>2 DEF Stop, BreakLink, CutLink, Stale, Unlinked, TypeOK
    <3>2. sock'[m] = (IF sock[m] = "up" THEN "cut" ELSE sock[m])
      BY <1>18, <2>2 DEF Stop, BreakLink, TypeOK
    <3> QED  BY <1>0, <3>1, <3>2 DEF Handshake
  <2> QED  BY <2>1, <2>2
<1>19. ASSUME NEW n \in Nodes, Handle_SMSG_AUTH_CHALLENGE_NoRealm(n) PROVE Handshake(m)'
  <2>1. sock'[m] = "ended" /\ toHub'[m] = <<>> /\ toNode'[m] = <<>>
        /\ pend'[m] = Stale(pend[m]) /\ sess'[m] = Stale(sess[m])
    BY <1>19 DEF Handle_SMSG_AUTH_CHALLENGE_NoRealm
  <2>2. Unlinked(m)'  BY <2>1 DEF Unlinked, Stale
  <2> QED  BY <2>1, <2>2 DEF Handshake
<1> QED
  BY <1>1, <1>2, <1>3, <1>4, <1>6, <1>7, <1>9, <1>10, <1>11, <1>12, <1>13, <1>14,
     <1>15, <1>16, <1>17, <1>18, <1>19
  DEF Next, HubStep, NodeStep

-----------------------------------------------------------------------------
(* What the hub will hold after the packets of a queue, when a packet that *)
(* is no NODE_SYNC_DATA of this type is appended.                          *)
LEMMA CoversAppendOther ==
    ASSUME NEW q \in Seq(HubMsgs), NEW x \in HubMsgs, NEW t, NEW l, NEW I,
           \A h \in 0 .. Wrap - 1 : x # Sync(t, h), Covers(q, t, l, I)
    PROVE  Covers(Append(q, x), t, l, I)
<1>1. /\ Len(Append(q, x)) = Len(q) + 1 /\ Len(q) \in Nat
      /\ \A i \in 1 .. Len(q) : Append(q, x)[i] = q[i]
      /\ Append(q, x)[Len(q) + 1] = x
  OBVIOUS
<1>2. NoSync(Append(q, x), t) => NoSync(q, t)
  BY <1>1 DEF NoSync
<1>3. ASSUME NEW i \in 1 .. Len(Append(q, x)), NEW h \in 0 .. Wrap - 1,
             FinalSync(Append(q, x), t, i, h)
      PROVE  Below(I, h)
  <2>1. i \in 1 .. Len(q)  BY <1>1, <1>3 DEF FinalSync
  <2>2. FinalSync(q, t, i, h)  BY <1>1, <1>3, <2>1 DEF FinalSync
  <2> QED  BY <2>1, <2>2 DEF Covers
<1> QED  BY <1>2, <1>3 DEF Covers

(* The NODE_SYNC_DATA that was sent last decides.                          *)
LEMMA CoversAppendSync ==
    ASSUME NEW q \in Seq(HubMsgs), NEW t \in Types, NEW h \in 0 .. Wrap - 1, NEW l, NEW I,
           Below(I, h)
    PROVE  Covers(Append(q, Sync(t, h)), t, l, I)
<1> DEFINE Q == Append(q, Sync(t, h))
<1>1. Len(Q) = Len(q) + 1 /\ Len(q) \in Nat /\ Q[Len(q) + 1] = Sync(t, h)
  BY MsgTypes
<1> HIDE DEF Q
<1>2. ~NoSync(Q, t)  BY <1>1 DEF NoSync
<1>3. ASSUME NEW i \in 1 .. Len(Q), NEW k \in 0 .. Wrap - 1, FinalSync(Q, t, i, k)
      PROVE  k = h
  <2>1. i = Len(q) + 1  BY <1>1, <1>3 DEF FinalSync
  <2>2. Sync(t, h) = Sync(t, k)  BY <1>1, <1>3, <2>1 DEF FinalSync
  <2> QED  BY <2>2 DEF Sync
<1> QED  BY <1>2, <1>3 DEF Covers, Q

(* The first packet is handled: if it is a NODE_SYNC_DATA of this type,    *)
(* SetLastGUID stores its id.                                              *)
LEMMA CoversTail ==
    ASSUME NEW q \in Seq(HubMsgs), q # <<>>, NEW t, NEW l, NEW k, NEW I, Covers(q, t, l, I),
           \/ l = k /\ \A h \in 0 .. Wrap - 1 : Head(q) # Sync(t, h)
           \/ k \in 0 .. Wrap - 1 /\ Head(q) = Sync(t, k)
    PROVE  Covers(Tail(q), t, k, I)
<1>1. /\ Len(Tail(q)) = Len(q) - 1 /\ Len(q) \in Nat \ {0} /\ Head(q) = q[1]
      /\ \A i \in 1 .. Len(Tail(q)) : Tail(q)[i] = q[i + 1]
  OBVIOUS
<1>2. NoSync(Tail(q), t) => Below(I, k)
  <2> SUFFICES ASSUME NoSync(Tail(q), t) PROVE Below(I, k)
    OBVIOUS
  <2>1. \A j \in 2 .. Len(q), h \in 0 .. Wrap - 1 : q[j] # Sync(t, h)
    <3> SUFFICES ASSUME NEW j \in 2 .. Len(q), NEW h \in 0 .. Wrap - 1 PROVE q[j] # Sync(t, h)
      OBVIOUS
    <3>1. j - 1 \in 1 .. Len(Tail(q)) /\ Tail(q)[j - 1] = q[j]  BY <1>1
    <3> QED  BY <3>1 DEF NoSync
  <2>2. CASE l = k /\ \A h \in 0 .. Wrap - 1 : Head(q) # Sync(t, h)
    <3>1. NoSync(q, t)  BY <1>1, <2>1, <2>2 DEF NoSync
    <3> QED  BY <2>2, <3>1 DEF Covers
  <2>3. CASE k \in 0 .. Wrap - 1 /\ Head(q) = Sync(t, k)
    <3>1. FinalSync(q, t, 1, k)  BY <1>1, <2>1, <2>3 DEF FinalSync
    <3> QED  BY <1>1, <2>3, <3>1 DEF Covers
  <2> QED  BY <2>2, <2>3
<1>3. ASSUME NEW i \in 1 .. Len(Tail(q)), NEW h \in 0 .. Wrap - 1, FinalSync(Tail(q), t, i, h)
      PROVE  Below(I, h)
  <2>1. i + 1 \in 1 .. Len(q) /\ q[i + 1] = Sync(t, h)  BY <1>1, <1>3 DEF FinalSync
  <2>2. ASSUME NEW j \in 1 .. Len(q), NEW g \in 0 .. Wrap - 1, j > i + 1
        PROVE  q[j] # Sync(t, g)
    <3>1. j - 1 \in 1 .. Len(Tail(q)) /\ j - 1 > i /\ Tail(q)[j - 1] = q[j]  BY <1>1, <2>2
    <3> QED  BY <1>3, <3>1 DEF FinalSync
  <2>3. FinalSync(q, t, i + 1, h)  BY <2>1, <2>2 DEF FinalSync
  <2> QED  BY <2>1, <2>3 DEF Covers
<1> QED  BY <1>2, <1>3 DEF Covers

(* A queue without NODE_SYNC_DATA leaves the hub with what it has.         *)
LEMMA CoversQuiet ==
    ASSUME NEW q \in Seq(HubMsgs), NEW t \in Types, NEW l, NEW I, NoSync(q, t)
    PROVE  Covers(q, t, l, I) <=> Below(I, l)
BY DEF Covers, NoSync, FinalSync

(* The id of SendInitAuthedNode is not below the last one the hub knows.   *)
LEMMA SeedNotBehind ==
    ASSUME TypeOK, NEW n \in Nodes, NEW t \in Types
    PROVE  last[n][t] \in Nat /\ SeedGuid(n, t) \in Nat /\ last[n][t] <= SeedGuid(n, t)
<1>1. last[n][t] \in Nat /\ SeedGuid(n, t) \in Nat
  BY SeedType, WrapAssumption DEF TypeOK
<1> QED  BY <1>1 DEF SeedGuid

(* The hub's knowledge after a step, from the new values of its state.     *)
LEMMA HubCoversNext ==
    ASSUME NEW m \in Nodes, NEW t \in Types, NEW q, NEW l, NEW I, Covers(q, t, l, I),
           toHub'[m] = q, last'[m][t] = l, issued'[m][t] = I
    PROVE  HubCovers(m, t)'
BY DEF HubCovers, Covers, NoSync, FinalSync, Below, Sync

(* The order of node m depends on its own queues and counters; emptying a  *)
(* queue or forgetting the counters does not disturb it.                   *)
LEMMA InOrderFrame ==
    ASSUME NEW m \in Nodes, NEW t \in Types, InOrder(m, t), HubCovers(m, t)',
           issued'[m][t] = issued[m][t],
           toNode'[m] = toNode[m] \/ toNode'[m] = <<>>,
           recvQ'[m] = recvQ[m] \/ recvQ'[m] = <<>>,
           given'[m] = {} \/ (given'[m] = given[m] /\ cur'[m][t] = cur[m][t])
    PROVE  InOrder(m, t)'
BY DEF InOrder, SentCovers, QueuedCovers, CounterCovers, Below, AuthMaster

(* Every step keeps what the hub holds, what is in flight and what the     *)
(* node counts from above the ids that the node has drawn.                 *)
LEMMA NextInOrder ==
    TypeOK /\ DownClean /\ HandshakeInv /\ InOrderInv /\ [Next]_vars => InOrderInv'
<1> SUFFICES ASSUME TypeOK, DownClean, HandshakeInv, InOrderInv, [Next]_vars, Clean',
                    NEW m \in Nodes, m \notin unsynced', NEW t \in Zeroed
             PROVE  InOrder(m, t)'
  BY DEF InOrderInv, Zeroed
<1> USE DEF hubVars, chanVars, nodeVars, histVars
<1>0. /\ InOrder(m, t) /\ Handshake(m) /\ t \in Types
      /\ toHub[m] \in Seq(HubMsgs)
  BY HistoryGrows DEF HandshakeInv, InOrderInv, Zeroed, TypeOK
<1>a. HubCovers(m, t)  BY <1>0 DEF InOrder
<1>1. ASSUME UNCHANGED <<issued, cur>>, toHub'[m] = toHub[m], last'[m][t] = last[m][t],
             toNode'[m] = toNode[m] \/ toNode'[m] = <<>>,
             recvQ'[m] = recvQ[m] \/ recvQ'[m] = <<>>, given'[m] = given[m]
      PROVE  InOrder(m, t)'
  <2>1. HubCovers(m, t)'
    BY <1>0, <1>a, <1>1, HubCoversNext DEF HubCovers
  <2> QED  BY <1>0, <1>1, <2>1, InOrderFrame
<1>2. CASE RefreshOnlineStat \/ UNCHANGED vars
  BY <1>1, <1>2 DEF RefreshOnlineStat, vars
<1>3. ASSUME NEW q \in Seq(HubMsgs), NoSync(toHub[m], t), NoSync(q, t), toHub'[m] = q,
             UNCHANGED <<issued, last, cur>>,
             toNode'[m] = toNode[m] \/ toNode'[m] = <<>>,
             recvQ'[m] = recvQ[m] \/ recvQ'[m] = <<>>, given'[m] = given[m]
      PROVE  InOrder(m, t)'
  <2>1. Below(issued[m][t], last[m][t])
    BY <1>0, <1>a, <1>3, CoversQuiet DEF HubCovers
  <2>2. Covers(q, t, last[m][t], issued[m][t])
    BY <1>0, <1>3, <2>1, CoversQuiet
  <2>3. HubCovers(m, t)'
    BY <1>0, <1>3, <2>2, HubCoversNext
  <2> QED  BY <1>0, <1>3, <2>3, InOrderFrame
<1>4. ASSUME NEW n \in Nodes, Construct(n) \/ Reconnect(n) PROVE InOrder(m, t)'
  <2>1. CASE m = n /\ OpenNodeConnection(n)
    <3>1. toHub[m] = <<>>  BY <1>0, <1>4, <2>1 DEF Handshake, Construct, Reconnect
    <3>2. toHub'[m] = <<Challenge>>  BY <2>1 DEF OpenNodeConnection, TypeOK
    <3>3. <<Challenge>> \in Seq(HubMsgs)  BY MsgTypes
    <3>4. NoSync(<<>>, t) /\ NoSync(<<Challenge>>, t)
      BY Distinct, OnePacket DEF NoSync
    <3>5. toNode'[m] = <<>>  BY <2>1 DEF OpenNodeConnection, TypeOK
    <3> QED  BY <1>3, <1>4, <3>1, <3>2, <3>3, <3>4, <3>5 DEF Construct, Reconnect
  <2>2. CASE m # n \/ UNCHANGED chanVars
    BY <1>1, <1>4, <2>2 DEF Construct, Reconnect, OpenNodeConnection, TypeOK
  <2> QED  BY <1>4, <2>1, <2>2 DEF Construct, Reconnect
<1>5. ASSUME NEW n \in Nodes, DropSocket(n) PROVE InOrder(m, t)'
  BY <1>1, <1>5 DEF DropSocket
<1>6. ASSUME NEW n \in Nodes, DropQueued(n), UNCHANGED <<issued, last, cur, recvQ, given>>,
             toNode'[m] = toNode[m] \/ toNode'[m] = <<>>
      PROVE  InOrder(m, t)'
  <2>1. CASE m # n
    BY <1>1, <1>6, <2>1 DEF DropQueued, TypeOK
  <2>2. CASE m = n
    <3>1. ~HasSync(toHub[m])  BY <1>6, <2>2 DEF DropQueued
    <3>2. NoSync(toHub[m], t)  BY <3>1 DEF HasSync, NoSync, Sync
    <3>3. toHub'[m] = <<>>  BY <1>6, <2>2 DEF DropQueued, TypeOK
    <3>4. <<>> \in Seq(HubMsgs) /\ NoSync(<<>>, t)  BY DEF NoSync
    <3> QED  BY <1>3, <1>6, <3>2, <3>3, <3>4
  <2> QED  BY <2>1, <2>2
<1>7. ASSUME NEW n \in Nodes, HandleClose(n) PROVE InOrder(m, t)'
  BY <1>6, <1>7 DEF HandleClose
<1>8. ASSUME NEW n \in Nodes, CloseSocket(n), UNCHANGED <<issued, last, cur, recvQ, given>>
      PROVE  InOrder(m, t)'
  BY <1>6, <1>8 DEF CloseSocket, CutLink, TypeOK
<1>9. ASSUME NEW n \in Nodes, NEW x, Receive(n, x), toHub' = [toHub EXCEPT ![n] = Tail(@)],
             m = n => \/ last'[m][t] = last[m][t] /\ \A h \in 0 .. Wrap - 1 : x # Sync(t, h)
                      \/ last'[m][t] \in 0 .. Wrap - 1 /\ x = Sync(t, last'[m][t]),
             m # n => last'[m][t] = last[m][t],
             UNCHANGED <<issued, cur, recvQ, given, toNode>>
      PROVE  InOrder(m, t)'
  <2>1. CASE m # n
    BY <1>1, <1>9, <2>1 DEF TypeOK
  <2>2. CASE m = n
    <3>1. toHub[m] # <<>> /\ Head(toHub[m]) = x /\ toHub'[m] = Tail(toHub[m])
      BY <1>9, <2>2 DEF Receive, Next_, TypeOK
    <3>2. Covers(Tail(toHub[m]), t, last'[m][t], issued[m][t])
      BY <1>0, <1>a, <1>9, <2>2, <3>1, CoversTail DEF HubCovers
    <3>3. HubCovers(m, t)'
      BY <1>0, <1>9, <3>1, <3>2, HubCoversNext
    <3> QED  BY <1>0, <1>9, <3>3, InOrderFrame
  <2> QED  BY <2>1, <2>2
<1>10. ASSUME NEW n \in Nodes, Handle_SMSG_AUTH_CHALLENGE(n) PROVE InOrder(m, t)'
  <2>0. Receive(n, Challenge) /\ toHub' = [toHub EXCEPT ![n] = Tail(@)] /\ SendToNode(n, AuthMaster)
          /\ UNCHANGED <<last, issued, cur, recvQ, given>>
    BY <1>10 DEF Handle_SMSG_AUTH_CHALLENGE
  <2>1. CASE m # n \/ sock[n] # "up"
    <3>1. toNode'[m] = toNode[m]  BY <2>0, <2>1 DEF SendToNode, TypeOK
    <3>2. CASE m # n
      BY <1>1, <2>0, <3>1, <3>2 DEF TypeOK
    <3>3. CASE m = n
      <4>1. toHub[m] # <<>> /\ Head(toHub[m]) = Challenge /\ toHub'[m] = Tail(toHub[m])
        BY <2>0, <3>3 DEF Receive, Next_, TypeOK
      <4>2. Covers(Tail(toHub[m]), t, last[m][t], issued[m][t])
        BY <1>0, <1>a, <4>1, Distinct, CoversTail DEF HubCovers
      <4>3. HubCovers(m, t)'  BY <1>0, <2>0, <4>1, <4>2, HubCoversNext
      <4> QED  BY <1>0, <2>0, <3>1, <4>3, InOrderFrame
    <3> QED  BY <3>2, <3>3
  <2>2. CASE m = n /\ sock[n] = "up"
    <3>1. toHub[m] # <<>> /\ Head(toHub[m]) = Challenge /\ toHub'[m] = Tail(toHub[m])
      BY <2>0, <2>2 DEF Receive, Next_, TypeOK
    <3>2. Covers(Tail(toHub[m]), t, last[m][t], issued[m][t])
      BY <1>0, <1>a, <3>1, Distinct, CoversTail DEF HubCovers
    <3>3. HubCovers(m, t)'  BY <1>0, <2>0, <3>1, <3>2, HubCoversNext
    <3>4. toNode'[m] = Append(toNode[m], AuthMaster) /\ toNode[m] \in Seq(NodeMsgs)
      BY <2>0, <2>2 DEF SendToNode, TypeOK
    <3>5. SentCovers(m, t)'
      BY <1>0, <2>0, <3>4, MsgTypes, AppendElements DEF InOrder, SentCovers, Below,
         AuthMaster
    <3>6. QueuedCovers(m, t)' /\ CounterCovers(m, t)'
      BY <1>0, <2>0 DEF InOrder, QueuedCovers, CounterCovers, Below
    <3> QED  BY <3>3, <3>5, <3>6 DEF InOrder
  <2> QED  BY <2>1, <2>2
<1>11. ASSUME NEW n \in Nodes, Handle_SMSG_AUTH_RESPONSE(n) PROVE InOrder(m, t)'
  <2>1. CASE CloseSocket(n) /\ UNCHANGED <<last, wrapped>>
    BY <1>8, <1>11, <2>1 DEF Handle_SMSG_AUTH_RESPONSE
  <2>2. CASE Receive(n, AuthResponse("AUTH_OK")) /\ SendInitAuthedNode(n)
               /\ toHub' = [toHub EXCEPT ![n] = Tail(@)]
    <3> DEFINE gs == [u \in Types |-> SeedGuid(n, u)]
               x == InitNode(GetNodeCount, gs)
    <3>0. UNCHANGED <<issued, cur, recvQ, given>>
      BY <1>11 DEF Handle_SMSG_AUTH_RESPONSE
    <3>1. /\ last' = [last EXCEPT ![n] = gs]
          /\ toNode' = IF sock[n] = "up" THEN [toNode EXCEPT ![n] = Append(@, x)] ELSE toNode
      BY <2>2 DEF SendInitAuthedNode, SendToNode
    <3>2. x.guid = gs /\ gs[t] = SeedGuid(n, t)
      BY <1>0 DEF InitNode
    <3> HIDE DEF x, gs
    <3>3. CASE m # n
      BY <1>1, <2>2, <3>0, <3>1, <3>3 DEF TypeOK
    <3>4. CASE m = n
      <4>1. toHub[m] # <<>> /\ Head(toHub[m]) = AuthResponse("AUTH_OK") /\ toHub'[m] = Tail(toHub[m])
        BY <2>2, <3>4 DEF Receive, Next_, TypeOK
      <4>2. \A h \in 0 .. Wrap - 1 : Head(toHub[m]) # Sync(t, h)
        BY <4>1, Distinct
      <4>3. Covers(Tail(toHub[m]), t, last[m][t], issued[m][t])
        BY <1>0, <1>a, <4>1, <4>2, CoversTail DEF HubCovers
      <4>4. last[m][t] \in Nat /\ gs[t] \in Nat /\ last[m][t] <= gs[t] /\ last'[m][t] = gs[t]
        BY <1>0, <3>1, <3>2, <3>4, SeedNotBehind DEF TypeOK
      <4>5. \A g \in issued[m][t] : g \in Nat
        BY <1>0, WrapAssumption DEF TypeOK
      <4>6. Below(issued[m][t], last[m][t]) => Below(issued[m][t], gs[t])
        BY <4>4, <4>5 DEF Below
      <4>7. Covers(Tail(toHub[m]), t, gs[t], issued[m][t])
        BY <4>3, <4>6 DEF Covers
      <4>8. HubCovers(m, t)'  BY <1>0, <3>0, <4>1, <4>4, <4>7, HubCoversNext
      <4>9. SentCovers(m, t)'
        <5>1. CASE sock[n] # "up"
          BY <1>0, <3>0, <3>1, <5>1 DEF InOrder, SentCovers, Below
        <5>2. CASE sock[n] = "up"
          <6>1. ~NoneOf(m, AuthResponse("AUTH_OK"))
            BY <1>0, <4>1 DEF NoneOf
          <6>2. Added(m)
            BY <1>0, <3>4, <4>1, <5>2, <6>1, Distinct, OnePacket
               DEF Handshake, Answered, Pending, Challenged, SeedSent, SeedQueued, Greeted
          <6>3. NoSync(toHub[m], t)
            BY <6>2, Distinct, OnePacket DEF Added, NoSync
          <6>4. Below(issued[m][t], gs[t])
            BY <1>0, <1>a, <4>6, <6>3, CoversQuiet DEF HubCovers
          <6>5. toNode'[m] = <<x>>
            BY <3>1, <3>4, <5>2, <6>2, OnePacket DEF Added, TypeOK
          <6>6. \A i \in 1 .. Len(toNode'[m]) : toNode'[m][i] = x
            BY <6>5
          <6> QED  BY <3>0, <3>2, <6>4, <6>6 DEF SentCovers, Below
        <5> QED  BY <5>1, <5>2
      <4>10. QueuedCovers(m, t)' /\ CounterCovers(m, t)'
        BY <1>0, <3>0 DEF InOrder, QueuedCovers, CounterCovers, Below
      <4> QED  BY <4>8, <4>9, <4>10 DEF InOrder
    <3> QED  BY <3>3, <3>4
  <2> QED  BY <1>11, <2>1, <2>2 DEF Handle_SMSG_AUTH_RESPONSE
<1>12. ASSUME NEW n \in Nodes, Handle_NODE_INIT_ACK(n) PROVE InOrder(m, t)'
  <2>0. UNCHANGED <<issued, last, cur, recvQ, given>>  BY <1>12 DEF Handle_NODE_INIT_ACK
  <2>1. CASE CloseSocket(n)
    BY <1>8, <2>0, <2>1
  <2>2. CASE Receive(n, InitAck("ACK_OK")) /\ toHub' = [toHub EXCEPT ![n] = Tail(@)] /\ toNode' = toNode
    <3>1. \A h \in 0 .. Wrap - 1 : InitAck("ACK_OK") # Sync(t, h)  BY DEF InitAck, Sync
    <3> QED  BY <1>9, <2>0, <2>2, <3>1
  <2> QED  BY <1>12, <2>1, <2>2 DEF Handle_NODE_INIT_ACK
<1>13. ASSUME NEW n \in Nodes, Handle_NODE_SYNC_DATA(n) PROVE InOrder(m, t)'
  <2>1. PICK u \in Types, g \in 0 .. Wrap - 1 :
          Receive(n, Sync(u, g)) /\ last' = [last EXCEPT ![n][u] = g]
    BY <1>13 DEF Handle_NODE_SYNC_DATA
  <2>2. toHub' = [toHub EXCEPT ![n] = Tail(@)] /\ UNCHANGED <<issued, cur, recvQ, given, toNode>>
    BY <1>13 DEF Handle_NODE_SYNC_DATA
  <2>3. m # n => last'[m][t] = last[m][t]  BY <2>1 DEF TypeOK
  <2>4. CASE m = n /\ t = u
    <3>1. last'[m][t] = g  BY <1>0, <2>1, <2>4 DEF TypeOK
    <3> QED  BY <1>9, <2>1, <2>2, <2>3, <2>4, <3>1
  <2>5. CASE m = n /\ t # u
    <3>1. last'[m][t] = last[m][t]  BY <1>0, <2>1, <2>5 DEF TypeOK
    <3>2. \A h \in 0 .. Wrap - 1 : Sync(u, g) # Sync(t, h)  BY <2>5 DEF Sync
    <3> QED  BY <1>9, <2>1, <2>2, <2>3, <3>1, <3>2
  <2>6. CASE m # n
    BY <1>9, <2>1, <2>2, <2>3, <2>6
  <2> QED  BY <2>4, <2>5, <2>6
<1>14. ASSUME NEW x \in HubMsgs, \A h \in 0 .. Wrap - 1 : x # Sync(t, h),
              toHub'[m] = Append(toHub[m], x), UNCHANGED <<issued, last>>
       PROVE  HubCovers(m, t)'
  <2>1. Covers(Append(toHub[m], x), t, last[m][t], issued[m][t])
    BY <1>0, <1>a, <1>14, CoversAppendOther DEF HubCovers
  <2> QED  BY <1>0, <1>14, <2>1, HubCoversNext
<1>15. ASSUME NEW n \in Nodes, HandleAuthSession(n) PROVE InOrder(m, t)'
  <2>0. /\ UNCHANGED <<issued, last, cur, recvQ, given>>
        /\ toNode[n] # <<>> /\ toNode \in [Nodes -> Seq(NodeMsgs)]
    BY <1>15 DEF HandleAuthSession, Next_, TypeOK
  <2>1. CASE m # n
    BY <1>1, <1>15, <2>0, <2>1 DEF HandleAuthSession, CutLink, TypeOK
  <2>2. CASE /\ m = n
             /\ toHub' = [toHub EXCEPT ![n] = Append(@, AuthResponse("AUTH_FAILED"))]
             /\ CutLink(n)
    <3>1. toHub'[m] = Append(toHub[m], AuthResponse("AUTH_FAILED")) /\ toNode'[m] = <<>>
      BY <2>2 DEF CutLink, TypeOK
    <3>2. \A h \in 0 .. Wrap - 1 : AuthResponse("AUTH_FAILED") # Sync(t, h)
      BY DEF AuthResponse, Sync
    <3>3. HubCovers(m, t)'  BY <1>14, <2>0, <3>1, <3>2, MsgTypes
    <3> QED  BY <1>0, <2>0, <3>1, <3>3, InOrderFrame
  <2>3. CASE m = n /\ toNode' = [toNode EXCEPT ![n] = Tail(@)] /\ toHub' = toHub
    <3>1. toNode'[m] = Tail(toNode[m])  BY <2>0, <2>3
    <3>2. SentCovers(m, t)'
      BY <1>0, <2>0, <2>3, <3>1, TailElements DEF InOrder, SentCovers, Below, AuthMaster
    <3>3. HubCovers(m, t)'  BY <1>0, <1>a, <2>0, <2>3, HubCoversNext DEF HubCovers
    <3>4. QueuedCovers(m, t)' /\ CounterCovers(m, t)'
      BY <1>0, <2>0 DEF InOrder, QueuedCovers, CounterCovers, Below
    <3> QED  BY <3>2, <3>3, <3>4 DEF InOrder
  <2> QED  BY <1>15, <2>1, <2>2, <2>3 DEF HandleAuthSession
<1>16. ASSUME NEW n \in Nodes, AddSession_(n) PROVE InOrder(m, t)'
  <2>0. /\ UNCHANGED <<issued, last, cur, given, toNode>>
        /\ recvQ'[m] = recvQ[m] \/ recvQ'[m] = <<>>
    BY <1>16 DEF AddSession_, TypeOK
  <2>1. CASE m = n /\ pend[n] = "live"
    <3>1. toHub'[m] = Append(toHub[m], AuthResponse("AUTH_OK"))
      BY <1>16, <2>1 DEF AddSession_, TypeOK
    <3>2. HubCovers(m, t)'  BY <1>14, <2>0, <3>1, Distinct, MsgTypes
    <3> QED  BY <1>0, <2>0, <3>2, InOrderFrame
  <2>2. CASE m # n \/ pend[n] # "live"
    <3>1. toHub'[m] = toHub[m]  BY <1>16, <2>2 DEF AddSession_, TypeOK
    <3> QED  BY <1>1, <2>0, <3>1
  <2> QED  BY <2>1, <2>2
<1>17. ASSUME NEW n \in Nodes, QueueServerPacket(n) PROVE InOrder(m, t)'
  <2>0. /\ UNCHANGED <<issued, last, cur, given, toHub>>
        /\ toNode[n] # <<>> /\ Head(toNode[n]) # AuthMaster
        /\ toNode \in [Nodes -> Seq(NodeMsgs)] /\ recvQ \in [Nodes -> Seq(InitMsgs)]
    BY <1>17 DEF QueueServerPacket, TypeOK
  <2>1. CASE m # n
    BY <1>1, <1>17, <2>0, <2>1 DEF QueueServerPacket
  <2>2. CASE m = n
    <3>1. toNode'[m] = Tail(toNode[m]) /\ recvQ'[m] = Append(recvQ[m], Head(toNode[m]))
      BY <1>17, <2>0, <2>2 DEF QueueServerPacket
    <3>2. SentCovers(m, t)'
      BY <1>0, <2>0, <2>2, <3>1, TailElements DEF InOrder, SentCovers, Below, AuthMaster
    <3>3. Head(toNode[m]) \in InitMsgs  BY <2>0, <2>2, MsgTypes
    <3>4. Below(issued[m][t], Head(toNode[m]).guid[t])
      <4>1. 1 \in 1 .. Len(toNode[m]) /\ toNode[m][1] = Head(toNode[m])  BY <2>0, <2>2
      <4> QED  BY <1>0, <2>0, <2>2, <4>1 DEF InOrder, SentCovers
    <3>5. \A i \in 1 .. Len(recvQ'[m]) : recvQ'[m][i] = Head(toNode[m])
             \/ (i \in 1 .. Len(recvQ[m]) /\ recvQ'[m][i] = recvQ[m][i])
      BY <2>0, <3>1, <3>3, AppendElements
    <3>6. QueuedCovers(m, t)'
      BY <1>0, <2>0, <3>4, <3>5 DEF InOrder, QueuedCovers, Below
    <3>7. HubCovers(m, t)'  BY <1>0, <1>a, <2>0, HubCoversNext DEF HubCovers
    <3>8. CounterCovers(m, t)'
      BY <1>0, <2>0 DEF InOrder, CounterCovers, Below
    <3> QED  BY <3>2, <3>6, <3>7, <3>8 DEF InOrder
  <2> QED  BY <2>1, <2>2
<1>18. ASSUME NEW n \in Nodes, Handle_LOGON_INIT_NODE(n) PROVE InOrder(m, t)'
  <2> DEFINE x == Head(recvQ[n])
             ok == Accepted(x.guid)
             c == IF ok = Types THEN "ACK_OK" ELSE "GUID_FAIL"
  <2>0. /\ UNCHANGED <<issued, last, toNode>> /\ recvQ[n] # <<>>
        /\ cur' = [cur EXCEPT ![n] = [u \in Types |-> IF u \in ok THEN x.guid[u] ELSE @[u]]]
        /\ given' = [given EXCEPT ![n] = @ \cup ok]
        /\ toHub' = IF sess[n] = "live" THEN [toHub EXCEPT ![n] = Append(@, InitAck(c))] ELSE toHub
        /\ recvQ' = [recvQ EXCEPT ![n] = Tail(@)]
    BY <1>18 DEF Handle_LOGON_INIT_NODE
  <2>a. c \in {"ACK_OK", "GUID_FAIL"} /\ recvQ \in [Nodes -> Seq(InitMsgs)]
    BY DEF TypeOK
  <2> HIDE DEF c, ok
  <2>1. CASE m # n
    <3>1. /\ toHub'[m] = toHub[m] /\ recvQ'[m] = recvQ[m] /\ given'[m] = given[m]
          /\ cur'[m] = cur[m]
      BY <2>0, <2>1 DEF TypeOK
    <3>2. HubCovers(m, t)'  BY <1>0, <1>a, <2>0, <3>1, HubCoversNext DEF HubCovers
    <3> QED  BY <1>0, <2>0, <3>1, <3>2, InOrderFrame
  <2>2. CASE m = n
    <3>1. HubCovers(m, t)'
      <4>1. CASE sess[n] = "live"
        <5>1. toHub'[m] = Append(toHub[m], InitAck(c))  BY <2>0, <2>2, <4>1 DEF TypeOK
        <5>2. \A h \in 0 .. Wrap - 1 : InitAck(c) # Sync(t, h)  BY DEF InitAck, Sync
        <5>3. InitAck(c) \in HubMsgs  BY <2>a, MsgTypes
        <5> QED  BY <1>14, <2>0, <5>1, <5>2, <5>3
      <4>2. CASE sess[n] # "live"
        BY <1>0, <1>a, <2>0, <4>2, HubCoversNext DEF HubCovers
      <4> QED  BY <4>1, <4>2
    <3>2. SentCovers(m, t)'
      BY <1>0, <2>0 DEF InOrder, SentCovers, Below
    <3>3. recvQ'[m] = Tail(recvQ[m])  BY <2>0, <2>2, <2>a
    <3>4. QueuedCovers(m, t)'
      <4>1. recvQ[m] # <<>> /\ recvQ[m] \in Seq(InitMsgs)  BY <2>0, <2>2, <2>a
      <4>2. \A i \in 1 .. Len(recvQ'[m]) : i + 1 \in 1 .. Len(recvQ[m]) /\ recvQ'[m][i] = recvQ[m][i + 1]
        BY <3>3, <4>1, TailElements
      <4>3. issued' = issued /\ \A i \in 1 .. Len(recvQ[m]) : Below(issued[m][t], recvQ[m][i].guid[t])
        BY <1>0, <2>0 DEF InOrder, QueuedCovers
      <4> QED  BY <4>2, <4>3 DEF QueuedCovers, Below
    <3>5. Below(issued[m][t], x.guid[t])
      <4>1. 1 \in 1 .. Len(recvQ[m]) /\ recvQ[m][1] = x  BY <2>0, <2>2, <2>a
      <4> QED  BY <1>0, <4>1 DEF InOrder, QueuedCovers
    <3>6. CounterCovers(m, t)'
      <4>1. t \in ok => cur'[m][t] = x.guid[t]  BY <1>0, <2>0, <2>2 DEF TypeOK
      <4>2. t \notin ok => cur'[m][t] = cur[m][t] /\ (t \in given'[m] => t \in given[m])
        BY <1>0, <2>0, <2>2 DEF TypeOK
      <4> QED  BY <1>0, <2>0, <3>5, <4>1, <4>2 DEF InOrder, CounterCovers, Below
    <3> QED  BY <3>1, <3>2, <3>4, <3>6 DEF InOrder
  <2> QED  BY <2>1, <2>2
<1>19. ASSUME NEW n \in Nodes, RemoveClosed(n) PROVE InOrder(m, t)'
  BY <1>1, <1>19 DEF RemoveClosed, TypeOK
<1>20. ASSUME NEW n \in Nodes, NEW u \in Types, GenerateLowGuid(n, u) PROVE InOrder(m, t)'
  <2> DEFINE g == Add32(cur[n][u], range[n])
  <2>0. /\ cur' = [cur EXCEPT ![n][u] = g]
        /\ issued' = [issued EXCEPT ![n][u] = @ \cup {g}]
        /\ toHub' = IF sess[n] = "live" THEN [toHub EXCEPT ![n] = Append(@, Sync(u, g))] ELSE toHub
        /\ UNCHANGED <<last, toNode, recvQ, given>>
    BY <1>20 DEF GenerateLowGuid
  <2>a. cur[n][u] \in 0 .. Wrap - 1 /\ range[n] \in 0 .. Wrap - 1 /\ Wrap \in Nat
    BY WrapAssumption DEF TypeOK
  <2>b. g \in 0 .. Wrap - 1  BY <2>a, Add32Type
  <2>c. u \in given[n] /\ ~(cur[n][u] + range[n] >= Wrap)
    BY <1>20 DEF GenerateLowGuid, Clean
  <2>d. cur[n][u] <= g  BY <2>a, <2>c DEF Add32
  <2>e. Sync(u, g) \in HubMsgs  BY <2>b, MsgTypes
  <2> HIDE DEF g
  <2>1. CASE m # n
    <3>1. toHub'[m] = toHub[m] /\ issued'[m] = issued[m] /\ cur'[m] = cur[m]
      BY <2>0, <2>1 DEF TypeOK
    <3>2. HubCovers(m, t)'  BY <1>0, <1>a, <2>0, <3>1, HubCoversNext DEF HubCovers
    <3> QED  BY <1>0, <2>0, <3>1, <3>2, InOrderFrame
  <2>2. CASE m = n
    <3>1. sess[n] = "live" /\ greeted[n]
      BY <1>20, <2>2 DEF GenerateLowGuid
    <3>2. Greeted(m)
      BY <1>0, <2>2, <3>1
         DEF Handshake, Challenged, Answered, Pending, Added, SeedSent, SeedQueued, Unlinked
    <3>3. toHub'[m] = Append(toHub[m], Sync(u, g))  BY <2>0, <2>2, <3>1 DEF TypeOK
    <3>4. SentCovers(m, t)' /\ QueuedCovers(m, t)'
      BY <2>0, <3>2 DEF Greeted, SentCovers, QueuedCovers
    <3>5. CASE t # u
      <4>1. issued'[m][t] = issued[m][t] /\ cur'[m][t] = cur[m][t]
        BY <1>0, <2>0, <3>5 DEF TypeOK
      <4>2. \A h \in 0 .. Wrap - 1 : Sync(u, g) # Sync(t, h)  BY <3>5 DEF Sync
      <4>3. Covers(Append(toHub[m], Sync(u, g)), t, last[m][t], issued[m][t])
        BY <1>0, <1>a, <2>e, <4>2, CoversAppendOther DEF HubCovers
      <4>4. HubCovers(m, t)'  BY <1>0, <2>0, <3>3, <4>1, <4>3, HubCoversNext
      <4> QED  BY <1>0, <2>0, <4>1, <4>4, InOrderFrame
    <3>6. CASE t = u
      <4>1. issued'[m][t] = issued[m][t] \cup {g} /\ cur'[m][t] = g
        BY <1>0, <2>0, <2>2, <3>6 DEF TypeOK
      <4>2. Below(issued[m][t], cur[m][t])
        BY <1>0, <2>2, <2>c, <3>6 DEF InOrder, CounterCovers
      <4>3. \A h \in issued[m][t] : h \in Nat
        BY <1>0, WrapAssumption DEF TypeOK
      <4>4. Below(issued[m][t] \cup {g}, g)
        BY <2>2, <2>a, <2>b, <2>d, <3>6, <4>2, <4>3 DEF Below
      <4>5. Covers(Append(toHub[m], Sync(t, g)), t, last[m][t], issued[m][t] \cup {g})
        BY <1>0, <2>b, <4>4, CoversAppendSync
      <4>6. HubCovers(m, t)'  BY <1>0, <2>0, <3>3, <3>6, <4>1, <4>5, HubCoversNext
      <4>7. CounterCovers(m, t)'  BY <4>1, <4>4 DEF CounterCovers, Below
      <4> QED  BY <3>4, <4>6, <4>7 DEF InOrder
    <3> QED  BY <3>5, <3>6
  <2> QED  BY <2>1, <2>2
<1>21. ASSUME NEW n \in Nodes, Boot(n) PROVE InOrder(m, t)'
  <2>0. UNCHANGED <<issued, last, toHub, toNode, recvQ, given>>  BY <1>21 DEF Boot
  <2>1. HubCovers(m, t)'  BY <1>0, <1>a, <2>0, HubCoversNext DEF HubCovers
  <2>2. given'[m] = {} \/ cur'[m] = cur[m]
    BY <1>21, <2>0 DEF Boot, DownClean, TypeOK
  <2> QED  BY <1>0, <2>0, <2>1, <2>2, InOrderFrame
<1>22. ASSUME NEW n \in Nodes, MarkOnline(n) \/ MarkOffline(n) PROVE InOrder(m, t)'
  BY <1>1, <1>22 DEF MarkOnline, MarkOffline
<1>23. ASSUME NEW n \in Nodes, Stop(n) PROVE InOrder(m, t)'
  <2>0. UNCHANGED <<issued, last, toHub>>  BY <1>23 DEF Stop
  <2>1. HubCovers(m, t)'  BY <1>0, <1>a, <2>0, HubCoversNext DEF HubCovers
  <2>2. /\ given'[m] = {} \/ (given'[m] = given[m] /\ cur'[m] = cur[m])
        /\ toNode'[m] = toNode[m] \/ toNode'[m] = <<>>
        /\ recvQ'[m] = recvQ[m] \/ recvQ'[m] = <<>>
    BY <1>23 DEF Stop, TypeOK
  <2> QED  BY <1>0, <2>0, <2>1, <2>2, InOrderFrame
<1>24. ASSUME NEW n \in Nodes, BreakLink(n) PROVE InOrder(m, t)'
  BY <1>1, <1>24 DEF BreakLink, CutLink, TypeOK
<1>25. ASSUME NEW n \in Nodes, Handle_SMSG_AUTH_CHALLENGE_NoRealm(n) PROVE InOrder(m, t)'
  <2>1. /\ toHub'[m] = <<>> /\ toNode'[m] = <<>>
        /\ UNCHANGED <<last, issued, cur, recvQ, given>>
    BY <1>25 DEF Handle_SMSG_AUTH_CHALLENGE_NoRealm
  <2>2. ~HasSync(toHub[m])
    BY <1>25 DEF Handle_SMSG_AUTH_CHALLENGE_NoRealm
  <2>3. NoSync(toHub[m], t)
    BY <2>2 DEF HasSync, NoSync, Sync
  <2>4. <<>> \in Seq(HubMsgs) /\ NoSync(<<>>, t)
    BY DEF NoSync
  <2> QED
    BY <1>3, <2>1, <2>3, <2>4
<1> QED
  BY <1>2, <1>4, <1>5, <1>7, <1>10, <1>11, <1>12, <1>13, <1>15, <1>16, <1>17, <1>18,
     <1>19, <1>20, <1>21, <1>22, <1>23, <1>24, <1>25
  DEF Next, HubStep, NodeStep

(* LOGON_INIT_NODE never sets a counter back behind an id that the node    *)
(* has drawn, over any number of connections, refused logins and restarts, *)
(* as long as the hub was told of every id before it seeded the node again.*)
THEOREM SeedsNeverBehind == Spec => []NeverBehind
<1>1. Init => HandshakeInv
  <2> SUFFICES ASSUME Init, NEW n \in Nodes PROVE Handshake(n)
    BY DEF HandshakeInv
  <2>1. /\ sock[n] = "unbuilt" /\ toHub[n] = <<>> /\ toNode[n] = <<>>
        /\ pend[n] = "none" /\ sess[n] = "none"
    BY DEF Init
  <2> QED
    BY <2>1 DEF Handshake, Unlinked
<1>2. Init => InOrderInv
  BY DEF Init, InOrderInv, InOrder, HubCovers, SentCovers, QueuedCovers, CounterCovers,
         Covers, NoSync, FinalSync, Below, Zeroed
<1>3. NumberingInv => DownClean  BY DEF NumberingInv
<1>4. InOrderInv => NeverBehind
  BY DEF InOrderInv, InOrder, CounterCovers, Below, NeverBehind
<1> QED
  BY <1>1, <1>2, <1>3, <1>4, NextHandshake, NextInOrder, TypeCorrect, NumberingCorrect, PTL
  DEF Spec
=============================================================================
