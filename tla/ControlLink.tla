----------------------------- MODULE ControlLink -----------------------------
(***************************************************************************)
(* The control link between the hub (the shade proxy) and its nodes.       *)
(*                                                                         *)
(* Hub side: RoutingHelper (the node list), ControlSession (one per node). *)
(* Node side: PoolSocket / PoolSession / PoolSessionMgr and the id         *)
(* counters of ObjectMgr.  A node draws item, mail and corpse ids from     *)
(* counters that the hub seeds in LOGON_INIT_NODE: node n starts at        *)
(* (highest id in the database) + n and steps by the number of nodes, and  *)
(* reports every id it draws with NODE_SYNC_DATA, so that the hub can seed *)
(* the node again after a reconnect.                                       *)
(*                                                                         *)
(* sock[n] is the hub's end of the TCP connection:                         *)
(*   "unbuilt"  the ControlSession does not exist yet                      *)
(*   "none"     m_Socket = NULL, CTL_FLAG_NODE_RECONNECT set               *)
(*   "up"       connected                                                  *)
(*   "cut"      the connection is dead, the reactor has not noticed yet    *)
(*   "closing"  IsClosing(), ControlSession::Update has not run yet        *)
(*   "ended"    the process of the hub has ended                           *)
(* A session of the node is "live" while its socket is the hub's current   *)
(* connection, and "stale" once that connection is dead.                   *)
(***************************************************************************)
EXTENDS Integers, Sequences

CONSTANTS
    Nodes,      \* the keys of m_nodelist
    Types,      \* the entity types with hub-seeded ids
    Base,       \* ObjectMgr's m_hiItemGuid, m_mailid, m_hiCorpseGuid at the hub
    Wrap,       \* 2^32: ids are uint32
    Garbage,    \* the values an uninitialised uint32 may hold
    BootGuids,  \* what the node's own SetHighestGuids may find in the database
    MaxDraws,   \* bound: ids drawn
    MaxFaults   \* bound: crashes, shutdowns, broken connections, refused logins,
                \* realms without a row

\* LOGON_INIT_NODE carries the ids in this order.
Rank == [item |-> 1, mail |-> 2, corpse |-> 3]

ASSUME NodesAssumption ==
    /\ Nodes \subseteq Nat \ {0}
    /\ \E m \in Nodes : \A n \in Nodes : n <= m

ASSUME TypesAssumption == Types \subseteq {"item", "mail", "corpse"}

ASSUME WrapAssumption ==
    /\ Wrap \in Nat
    /\ \A n \in Nodes : n < Wrap
    /\ Base \in [Types -> 1 .. Wrap - 1]
    /\ Garbage \subseteq 0 .. Wrap - 1
    /\ BootGuids \subseteq 0 .. Wrap - 1

ASSUME BoundsAssumption == MaxDraws \in Nat /\ MaxFaults \in Nat

VARIABLES
    \* hub
    online,     \* NodeList::online
    canEnter,   \* NodeList::can_enter
    last,       \* NodeList::LastItemGUID, LastMailGUID, LastCorpseID
    sock,       \* ControlSession::m_Socket
    \* database
    db,         \* nodelist.Online
    \* connection
    toHub,      \* packets sent by the node's current session, not yet handled
    toNode,     \* packets sent by the hub, not yet received by the node
    \* node
    up,         \* the process runs and listens
    pend,       \* PoolSessionMgr::addSessQueue
    sess,       \* PoolSessionMgr::m_sessions
    recvQ,      \* PoolSession::_recvPoolQueue
    range,      \* ObjectMgr::_hiRange
    cur,        \* ObjectMgr::_hiItemGuid, _mailId, _hiCorpseGuid
    \* history
    given,      \* the counters that a LOGON_INIT_NODE has set since the boot
    greeted,    \* the session in m_sessions has handled its LOGON_INIT_NODE
    issued,     \* the ids a node has drawn
    assigned,   \* can_enter has been written since LoadNodeList
    early,      \* nodes that drew an id before its counter was given
    unsynced,   \* nodes that drew an id the hub never heard of, or hears too late
    wrapped,    \* nodes with an id that ran past 2^32
    draws,      \* ids drawn so far
    faults

hubVars  == <<online, canEnter, last, sock, assigned>>
chanVars == <<toHub, toNode>>
nodeVars == <<up, pend, sess, recvQ, range, cur, given, greeted>>
histVars == <<issued, early, unsynced, wrapped, draws>>
vars == <<hubVars, db, chanVars, nodeVars, histVars, faults>>

-----------------------------------------------------------------------------
\* 0xFFFFFFFE, the bound the node checks its counters against.
MaxGuid == Wrap - 2

\* RoutingHelper::GetNodeCount: the highest node id, sent as the step width.
GetNodeCount == CHOOSE m \in Nodes : \A n \in Nodes : n <= m

\* Mutant of Add32: the sum is not cut to 32 bits.
Add32Unbounded(a, b) == a + b

\* uint32 addition.
Add32(a, b) == IF a + b < Wrap THEN a + b ELSE a + b - Wrap

\* The fields that LoadNodeList sets to zero; LastCorpseID is not one of them.
Zeroed == Types \ {"corpse"}

Challenge   == [type |-> "SMSG_AUTH_CHALLENGE"]
AuthMaster  == [type |-> "LOGON_AUTH_MASTER"]
AuthResponse(c) == [type |-> "SMSG_AUTH_RESPONSE", code |-> c]
InitAck(c)  == [type |-> "NODE_INIT_ACK", code |-> c]
Sync(t, g)  == [type |-> "NODE_SYNC_DATA", id |-> t, guid |-> g]
InitNode(r, gs) == [type |-> "LOGON_INIT_NODE", range |-> r, guid |-> gs]

HubMsgs == {Challenge} \cup [type : {"SMSG_AUTH_RESPONSE"}, code : {"AUTH_OK", "AUTH_FAILED"}]
             \cup [type : {"NODE_INIT_ACK"}, code : {"ACK_OK", "GUID_FAIL"}]
             \cup [type : {"NODE_SYNC_DATA"}, id : Types, guid : 0 .. Wrap - 1]
InitMsgs == [type : {"LOGON_INIT_NODE"}, range : 0 .. Wrap - 1,
             guid : [Types -> 0 .. Wrap - 1]]
NodeMsgs == {AuthMaster} \cup InitMsgs

Next_(q, m) == q # <<>> /\ Head(q) = m

HasSync(q) == \E i \in 1 .. Len(q) : q[i].type = "NODE_SYNC_DATA"

Stale(s) == IF s = "live" THEN "stale" ELSE s

-----------------------------------------------------------------------------
(* LoadNodeList leaves can_enter and LastCorpseID uninitialised.  The      *)
(* nodelist row of a node that crashed earlier still says Online = 1.      *)
Init ==
    /\ db \in [Nodes -> BOOLEAN]
    /\ online = db
    /\ canEnter \in [Nodes -> BOOLEAN]
    /\ \E g \in [Nodes -> Garbage \cup {0}] :
         last = [n \in Nodes |-> [t \in Types |-> IF t \in Zeroed THEN 0 ELSE g[n]]]
    /\ sock = [n \in Nodes |-> "unbuilt"]
    /\ toHub = [n \in Nodes |-> <<>>]
    /\ toNode = [n \in Nodes |-> <<>>]
    /\ up = [n \in Nodes |-> FALSE]
    /\ pend = [n \in Nodes |-> "none"]
    /\ sess = [n \in Nodes |-> "none"]
    /\ recvQ = [n \in Nodes |-> <<>>]
    /\ range = [n \in Nodes |-> 0]
    /\ cur = [n \in Nodes |-> [t \in Types |-> 0]]
    /\ given = [n \in Nodes |-> {}]
    /\ greeted = [n \in Nodes |-> FALSE]
    /\ issued = [n \in Nodes |-> [t \in Types |-> {}]]
    /\ assigned = [n \in Nodes |-> FALSE]
    /\ early = {}
    /\ unsynced = {}
    /\ wrapped = {}
    /\ draws = 0
    /\ faults = 0

-----------------------------------------------------------------------------
(* The TCP connection of node n dies: what the hub has sent is lost, and   *)
(* the node's sessions belong to a dead socket from now on.                *)
CutLink(n) ==
    /\ toNode' = [toNode EXCEPT ![n] = <<>>]
    /\ pend' = [pend EXCEPT ![n] = Stale(pend[n])]
    /\ sess' = [sess EXCEPT ![n] = Stale(sess[n])]

(* The hub's socket turns IsClosing(): packets still queued on it are      *)
(* never read (GetNextSinglePacket and GetNextMultiPacket return false).   *)
DropQueued(n) ==
    /\ sock' = [sock EXCEPT ![n] = "closing"]
    /\ toHub' = [toHub EXCEPT ![n] = <<>>]
    /\ unsynced' = IF HasSync(toHub[n]) THEN unsynced \cup {n} ELSE unsynced

(* OpenNodeConnection succeeds; PoolSocket::open sends the challenge.      *)
OpenNodeConnection(n) ==
    /\ up[n]
    /\ sock' = [sock EXCEPT ![n] = "up"]
    /\ toHub' = [toHub EXCEPT ![n] = <<Challenge>>]
    /\ toNode' = [toNode EXCEPT ![n] = <<>>]

(* ControlSession's constructor connects without looking at online.        *)
Construct(n) ==
    /\ sock[n] = "unbuilt"
    /\ \/ OpenNodeConnection(n)
       \/ /\ ~up[n]
          /\ sock' = [sock EXCEPT ![n] = "none"]
          /\ UNCHANGED chanVars
    /\ UNCHANGED <<online, canEnter, last, assigned, db, nodeVars, histVars, faults>>

(* ControlSession::Update, the reconnect branch.                           *)
Reconnect(n) ==
    /\ sock[n] = "none"
    /\ online[n]
    /\ OpenNodeConnection(n)
    /\ UNCHANGED <<online, canEnter, last, assigned, db, nodeVars, histVars, faults>>

(* Mutant of DropSocket: SetNodeOffline forgets can_enter.                 *)
DropSocketStillOpen(n) ==
    /\ sock[n] = "closing"
    /\ online' = [online EXCEPT ![n] = FALSE]
    /\ sock' = [sock EXCEPT ![n] = "none"]
    /\ UNCHANGED <<canEnter, assigned, last, db, chanVars, nodeVars, histVars, faults>>

(* ControlSession::Update, the socket is closing: RoutingHelper::          *)
(* SetNodeOffline, then drop the socket and start to reconnect.            *)
DropSocket(n) ==
    /\ sock[n] = "closing"
    /\ online' = [online EXCEPT ![n] = FALSE]
    /\ canEnter' = [canEnter EXCEPT ![n] = FALSE]
    /\ assigned' = [assigned EXCEPT ![n] = TRUE]
    /\ sock' = [sock EXCEPT ![n] = "none"]
    /\ UNCHANGED <<last, db, chanVars, nodeVars, histVars, faults>>

(* Mutants of RefreshOnlineStat: it opens the nodes to clients as well; it *)
(* leaves a node offline that was dropped once.                            *)
RefreshOpens ==
    /\ \A n \in Nodes : sock[n] # "ended"
    /\ online' = [n \in Nodes |-> online[n] \/ db[n]]
    /\ canEnter' = [n \in Nodes |-> canEnter[n] \/ db[n]]
    /\ assigned' = [n \in Nodes |-> TRUE]
    /\ UNCHANGED <<last, sock, db, chanVars, nodeVars, histVars, faults>>

RefreshNothing == UNCHANGED vars

(* RoutingHelper::RefreshOnlineStat.                                       *)
RefreshOnlineStat ==
    /\ \A n \in Nodes : sock[n] # "ended"
    /\ online' = [n \in Nodes |-> online[n] \/ db[n]]
    /\ UNCHANGED <<canEnter, last, sock, assigned, db, chanVars, nodeVars, histVars, faults>>

(* The reactor thread sees the dead connection: Socket::handle_close.      *)
HandleClose(n) ==
    /\ sock[n] = "cut"
    /\ DropQueued(n)
    /\ UNCHANGED <<online, canEnter, last, assigned, db, toNode, nodeVars,
                   issued, early, wrapped, draws, faults>>

-----------------------------------------------------------------------------
(* ControlSession::UpdateControlIO hands the next queued packet to its     *)
(* handler.                                                                *)
Receive(n, m) ==
    /\ sock[n] \in {"up", "cut"}
    /\ Next_(toHub[n], m)

(* SendPacket on a connection that is already dead goes nowhere.           *)
SendToNode(n, m) ==
    toNode' = IF sock[n] = "up" THEN [toNode EXCEPT ![n] = Append(@, m)] ELSE toNode

(* CloseSocket from a handler; the packet being handled is gone already.   *)
CloseSocket(n) ==
    /\ CutLink(n)
    /\ DropQueued(n)

Handle_SMSG_AUTH_CHALLENGE(n) ==
    /\ Receive(n, Challenge)
    /\ SendToNode(n, AuthMaster)
    /\ toHub' = [toHub EXCEPT ![n] = Tail(@)]
    /\ UNCHANGED <<hubVars, db, nodeVars, histVars, faults>>

(* The same handler without a row for this realm: it closes the socket and *)
(* reads the row all the same, through a null pointer.  The hub ends.      *)
Handle_SMSG_AUTH_CHALLENGE_NoRealm(n) ==
    /\ Receive(n, Challenge)
    /\ faults < MaxFaults
    /\ faults' = faults + 1
    /\ sock' = [m \in Nodes |-> "ended"]
    /\ online' = [m \in Nodes |-> FALSE] /\ canEnter' = [m \in Nodes |-> FALSE]
    /\ toHub' = [m \in Nodes |-> <<>>] /\ toNode' = [m \in Nodes |-> <<>>]
    /\ pend' = [m \in Nodes |-> Stale(pend[m])]
    /\ sess' = [m \in Nodes |-> Stale(sess[m])]
    /\ unsynced' = unsynced \cup {m \in Nodes : HasSync(toHub[m])}
    /\ UNCHANGED <<last, assigned, db, up, recvQ, range, cur, given, greeted,
                   issued, early, wrapped, draws>>

(* Mutants of SeedGuid: every node starts at the same id; what the node    *)
(* has used since is forgotten.                                            *)
SeedSame(n, t) == IF last[n][t] # 0 THEN last[n][t] ELSE Base[t]

SeedAfresh(n, t) == Add32(Base[t], n - 1)

(* The id SendInitAuthedNode sends for type t: the last one the hub knows  *)
(* of, or the node's own offset above the database.                        *)
SeedGuid(n, t) ==
    IF last[n][t] # 0 THEN last[n][t] ELSE Add32(Base[t], n - 1)

SendInitAuthedNode(n) ==
    /\ last' = [last EXCEPT ![n] = [t \in Types |-> SeedGuid(n, t)]]
    /\ SendToNode(n, InitNode(GetNodeCount, [t \in Types |-> SeedGuid(n, t)]))
    /\ wrapped' = IF \E t \in Types : last[n][t] = 0 /\ Base[t] + n - 1 >= Wrap
                  THEN wrapped \cup {n} ELSE wrapped

Handle_SMSG_AUTH_RESPONSE(n) ==
    /\ \/ /\ Receive(n, AuthResponse("AUTH_OK"))
          /\ SendInitAuthedNode(n)
          /\ toHub' = [toHub EXCEPT ![n] = Tail(@)]
          /\ UNCHANGED <<sock, pend, sess, unsynced>>
       \/ /\ Receive(n, AuthResponse("AUTH_FAILED"))
          /\ CloseSocket(n)
          /\ UNCHANGED <<last, wrapped>>
    /\ UNCHANGED <<online, canEnter, assigned, db, up, recvQ, range, cur, given,
                   greeted, issued, early, draws, faults>>

(* NODE_INIT_ACK: RoutingHelper::SetNodeOnline opens the node to clients.  *)
Handle_NODE_INIT_ACK(n) ==
    /\ \/ /\ Receive(n, InitAck("ACK_OK"))
          /\ canEnter' = [canEnter EXCEPT ![n] = TRUE]
          /\ assigned' = [assigned EXCEPT ![n] = TRUE]
          /\ toHub' = [toHub EXCEPT ![n] = Tail(@)]
          /\ UNCHANGED <<sock, toNode, pend, sess, unsynced>>
       \/ /\ Receive(n, InitAck("GUID_FAIL"))
          /\ CloseSocket(n)
          /\ UNCHANGED <<canEnter, assigned>>
    /\ UNCHANGED <<online, last, db, up, recvQ, range, cur, given, greeted,
                   issued, early, wrapped, draws, faults>>

(* NODE_SYNC_DATA: RoutingHelper::SetLastGUID.                             *)
Handle_NODE_SYNC_DATA(n) ==
    /\ \E t \in Types, g \in 0 .. Wrap - 1 :
         /\ Receive(n, Sync(t, g))
         /\ last' = [last EXCEPT ![n][t] = g]
    /\ toHub' = [toHub EXCEPT ![n] = Tail(@)]
    /\ UNCHANGED <<online, canEnter, sock, assigned, db, toNode, nodeVars, histVars, faults>>

-----------------------------------------------------------------------------
(* Node: PoolSocket::HandleAuthSession.  A name that is not in logonlist   *)
(* is refused and the socket closed.                                       *)
HandleAuthSession(n) ==
    /\ Next_(toNode[n], AuthMaster)
    /\ \/ /\ pend' = [pend EXCEPT ![n] = "live"]
          /\ toNode' = [toNode EXCEPT ![n] = Tail(@)]
          /\ UNCHANGED <<toHub, sock, sess, faults>>
       \/ /\ faults < MaxFaults
          /\ faults' = faults + 1
          /\ toHub' = [toHub EXCEPT ![n] = Append(@, AuthResponse("AUTH_FAILED"))]
          /\ sock' = [sock EXCEPT ![n] = "cut"]
          /\ CutLink(n)
    /\ UNCHANGED <<online, canEnter, last, assigned, db, up, recvQ, range, cur,
                   given, greeted, histVars>>

(* Node: PoolSessionMgr::AddSession_ replaces the session of this hub and  *)
(* deletes the old one with its packet queue.                              *)
AddSession_(n) ==
    /\ pend[n] # "none"
    /\ sess' = [sess EXCEPT ![n] = pend[n]]
    /\ pend' = [pend EXCEPT ![n] = "none"]
    /\ recvQ' = [recvQ EXCEPT ![n] = <<>>]
    /\ greeted' = [greeted EXCEPT ![n] = FALSE]
    /\ toHub' = IF pend[n] = "live"
                THEN [toHub EXCEPT ![n] = Append(@, AuthResponse("AUTH_OK"))] ELSE toHub
    /\ UNCHANGED <<hubVars, db, toNode, up, range, cur, given, histVars, faults>>

(* Node: PoolSocket::ProcessIncoming gives the packet to the session.      *)
QueueServerPacket(n) ==
    /\ toNode[n] # <<>> /\ Head(toNode[n]) # AuthMaster
    /\ recvQ' = [recvQ EXCEPT ![n] = Append(@, Head(toNode[n]))]
    /\ toNode' = [toNode EXCEPT ![n] = Tail(@)]
    /\ UNCHANGED <<hubVars, db, toHub, up, pend, sess, range, cur, given, greeted,
                   histVars, faults>>

(* The counters LOGON_INIT_NODE sets: it stops at the first id that is not *)
(* below 0xFFFFFFFE.                                                       *)
Accepted(gs) == {t \in Types : \A u \in Types : Rank[u] <= Rank[t] => gs[u] < MaxGuid}

Handle_LOGON_INIT_NODE(n) ==
    /\ sess[n] # "none"
    /\ recvQ[n] # <<>>
    /\ LET m  == Head(recvQ[n])
           ok == Accepted(m.guid)
       IN  /\ range' = [range EXCEPT ![n] = m.range]
           /\ cur' = [cur EXCEPT ![n] =
                        [t \in Types |-> IF t \in ok THEN m.guid[t] ELSE @[t]]]
           /\ given' = [given EXCEPT ![n] = @ \cup ok]
           /\ toHub' = IF sess[n] = "live"
                       THEN [toHub EXCEPT ![n] = Append(@, InitAck(IF ok = Types THEN "ACK_OK" ELSE "GUID_FAIL"))]
                       ELSE toHub
    /\ recvQ' = [recvQ EXCEPT ![n] = Tail(@)]
    /\ greeted' = [greeted EXCEPT ![n] = TRUE]
    /\ UNCHANGED <<hubVars, db, toNode, up, pend, sess, histVars, faults>>

(* Node: PoolSessionMgr::Update removes a session whose socket is closed.  *)
RemoveClosed(n) ==
    /\ sess[n] = "stale"
    /\ sess' = [sess EXCEPT ![n] = "none"]
    /\ recvQ' = [recvQ EXCEPT ![n] = <<>>]
    /\ greeted' = [greeted EXCEPT ![n] = FALSE]
    /\ UNCHANGED <<hubVars, db, chanVars, up, pend, range, cur, given, histVars, faults>>

(* Node: GenerateLowGuidWhenNode and GenerateMailIDWhenNode.  The ASSERT   *)
(* stops item and corpse ids at 0xFFFFFFFE; a mail id only requests a      *)
(* shutdown there and is drawn all the same.  SendGUIDSync is silent when  *)
(* there is no session.                                                    *)
GenerateLowGuid(n, t) ==
    /\ up[n]
    /\ t = "mail" \/ cur[n][t] < MaxGuid
    /\ draws < MaxDraws
    /\ draws' = draws + 1
    /\ LET g == Add32(cur[n][t], range[n])
       IN  /\ cur' = [cur EXCEPT ![n][t] = g]
           /\ issued' = [issued EXCEPT ![n][t] = @ \cup {g}]
           /\ toHub' = IF sess[n] = "live"
                       THEN [toHub EXCEPT ![n] = Append(@, Sync(t, g))] ELSE toHub
    /\ wrapped' = IF cur[n][t] + range[n] >= Wrap THEN wrapped \cup {n} ELSE wrapped
    /\ early' = IF t \in given[n] THEN early ELSE early \cup {n}
    /\ unsynced' = IF sess[n] = "live" /\ greeted[n] THEN unsynced ELSE unsynced \cup {n}
    /\ UNCHANGED <<hubVars, db, toNode, up, pend, sess, recvQ, range, given, greeted, faults>>

-----------------------------------------------------------------------------
(* Node start: SetHighestGuids reads the database, _hiRange is never       *)
(* initialised; the listener opens before nodelist.Online is set.          *)
Boot(n) ==
    /\ ~up[n]
    /\ up' = [up EXCEPT ![n] = TRUE]
    /\ \E r \in Garbage : range' = [range EXCEPT ![n] = r]
    /\ \E g \in BootGuids : cur' = [cur EXCEPT ![n] = [t \in Types |-> g]]
    /\ db' = [db EXCEPT ![n] = FALSE]
    /\ UNCHANGED <<hubVars, chanVars, pend, sess, recvQ, given, greeted, histVars, faults>>

MarkOnline(n) ==
    /\ up[n] /\ ~db[n]
    /\ db' = [db EXCEPT ![n] = TRUE]
    /\ UNCHANGED <<hubVars, chanVars, nodeVars, histVars, faults>>

(* The process stops serving, by a crash or at the start of a shutdown,    *)
(* and its sessions and counters are gone.                                 *)
Stop(n) ==
    /\ up[n]
    /\ faults < MaxFaults
    /\ faults' = faults + 1
    /\ up' = [up EXCEPT ![n] = FALSE]
    /\ sock' = [sock EXCEPT ![n] = IF @ = "up" THEN "cut" ELSE @]
    /\ toNode' = [toNode EXCEPT ![n] = <<>>]
    /\ pend' = [pend EXCEPT ![n] = "none"]
    /\ sess' = [sess EXCEPT ![n] = "none"]
    /\ recvQ' = [recvQ EXCEPT ![n] = <<>>]
    /\ range' = [range EXCEPT ![n] = 0]
    /\ cur' = [cur EXCEPT ![n] = [t \in Types |-> 0]]
    /\ given' = [given EXCEPT ![n] = {}]
    /\ greeted' = [greeted EXCEPT ![n] = FALSE]
    /\ UNCHANGED <<online, canEnter, last, assigned, db, toHub, histVars>>

(* The end of an orderly shutdown; a crash never gets here.                *)
MarkOffline(n) ==
    /\ ~up[n] /\ db[n]
    /\ db' = [db EXCEPT ![n] = FALSE]
    /\ UNCHANGED <<hubVars, chanVars, nodeVars, histVars, faults>>

(* The network breaks the connection.                                      *)
BreakLink(n) ==
    /\ sock[n] = "up"
    /\ faults < MaxFaults
    /\ faults' = faults + 1
    /\ sock' = [sock EXCEPT ![n] = "cut"]
    /\ CutLink(n)
    /\ UNCHANGED <<online, canEnter, last, assigned, db, toHub, up, recvQ, range,
                   cur, given, greeted, histVars>>

-----------------------------------------------------------------------------
HubStep(n) ==
    \/ Construct(n) \/ Reconnect(n) \/ DropSocket(n) \/ HandleClose(n)
    \/ Handle_SMSG_AUTH_CHALLENGE(n) \/ Handle_SMSG_AUTH_RESPONSE(n)
    \/ Handle_NODE_INIT_ACK(n) \/ Handle_NODE_SYNC_DATA(n)

NodeStep(n) ==
    \/ HandleAuthSession(n) \/ AddSession_(n) \/ QueueServerPacket(n)
    \/ Handle_LOGON_INIT_NODE(n) \/ RemoveClosed(n)

Next ==
    \/ RefreshOnlineStat
    \/ \E n \in Nodes :
         \/ HubStep(n)
         \/ NodeStep(n)
         \/ Handle_SMSG_AUTH_CHALLENGE_NoRealm(n)
         \/ \E t \in Types : GenerateLowGuid(n, t)
         \/ Boot(n) \/ MarkOnline(n) \/ Stop(n) \/ MarkOffline(n) \/ BreakLink(n)

Spec == Init /\ [][Next]_vars

(* Fairness: the hub's world thread updates every ControlSession and, every *)
(* 30 seconds, the online flags; its reactor reports dead sockets; a node   *)
(* that runs handles its packets and ends its start-up.                     *)
FairSpec ==
    /\ Spec
    /\ WF_vars(RefreshOnlineStat)
    /\ \A n \in Nodes : WF_vars(HubStep(n)) /\ WF_vars(NodeStep(n)) /\ WF_vars(MarkOnline(n))

-----------------------------------------------------------------------------
(* PROPERTIES                                                              *)

(* Type invariant of the hub, the connection and the node.                 *)
TypeOK ==
    /\ online \in [Nodes -> BOOLEAN] /\ canEnter \in [Nodes -> BOOLEAN]
    /\ db \in [Nodes -> BOOLEAN] /\ up \in [Nodes -> BOOLEAN]
    /\ greeted \in [Nodes -> BOOLEAN] /\ assigned \in [Nodes -> BOOLEAN]
    /\ last \in [Nodes -> [Types -> 0 .. Wrap - 1]]
    /\ sock \in [Nodes -> {"unbuilt", "none", "up", "cut", "closing", "ended"}]
    /\ toHub \in [Nodes -> Seq(HubMsgs)]
    /\ toNode \in [Nodes -> Seq(NodeMsgs)]
    /\ recvQ \in [Nodes -> Seq(InitMsgs)]
    /\ pend \in [Nodes -> {"none", "live", "stale"}]
    /\ sess \in [Nodes -> {"none", "live", "stale"}]
    /\ range \in [Nodes -> 0 .. Wrap - 1]
    /\ cur \in [Nodes -> [Types -> 0 .. Wrap - 1]]
    /\ given \in [Nodes -> SUBSET Types]
    /\ issued \in [Nodes -> [Types -> SUBSET (0 .. Wrap - 1)]]
    /\ early \subseteq Nodes /\ unsynced \subseteq Nodes /\ wrapped \subseteq Nodes
    /\ draws \in Nat /\ faults \in Nat

(* No counter has wrapped and no node has drawn an id before the hub       *)
(* seeded its counter.                                                     *)
Clean == wrapped = {} /\ early = {}

(* Two nodes never draw the same item or mail id, whatever connections     *)
(* break, processes restart and NODE_SYNC_DATA packets are lost: the       *)
(* interleaved numbering of SendInitAuthedNode and GenerateLowGuidWhenNode. *)
DistinctAcrossNodes ==
    Clean => \A m, n \in Nodes : m # n =>
               \A t \in Zeroed : issued[m][t] \cap issued[n][t] = {}

(* Node n owns the ids Base + (n - 1) + k * GetNodeCount.                  *)
InClass(n, t, g) == \E k \in 0 .. Wrap : g = Base[t] + (n - 1) + k * GetNodeCount

SeedOk(n, t, m) == m.range = GetNodeCount /\ InClass(n, t, m.guid[t])

(* Inductive strengthening of DistinctAcrossNodes: every id that is        *)
(* stored, in flight or drawn belongs to the class of its node.            *)
LastOk(n, t) == last[n][t] # 0 => InClass(n, t, last[n][t])
SentOk(n, t) == \A i \in 1 .. Len(toNode[n]) :
                   toNode[n][i] # AuthMaster => SeedOk(n, t, toNode[n][i])
QueuedOk(n, t) == \A i \in 1 .. Len(recvQ[n]) : SeedOk(n, t, recvQ[n][i])
SyncOk(n, t) == \A i \in 1 .. Len(toHub[n]), g \in 0 .. Wrap - 1 :
                   toHub[n][i] = Sync(t, g) => InClass(n, t, g)
CounterOk(n, t) == t \in given[n] =>
                     range[n] = GetNodeCount /\ InClass(n, t, cur[n][t])
IssuedOk(n, t) == \A g \in issued[n][t] : InClass(n, t, g)

ClassAt(n, t) ==
    /\ LastOk(n, t) /\ SentOk(n, t) /\ QueuedOk(n, t)
    /\ SyncOk(n, t) /\ CounterOk(n, t) /\ IssuedOk(n, t)

ClassInv == Clean => \A n \in Nodes, t \in Zeroed : ClassAt(n, t)

(* A process that does not run holds no connection, session or counter, so *)
(* the garbage a boot puts into _hiRange is never taken for a given step.  *)
DownClean ==
    \A n \in Nodes : ~up[n] =>
        /\ sock[n] # "up" /\ toNode[n] = <<>>
        /\ pend[n] = "none" /\ sess[n] = "none" /\ given[n] = {}

NumberingInv == DownClean /\ ClassInv

(* A node whose every id reached the hub before the hub seeded it again    *)
(* is never set back behind an id it has already drawn, so it draws no id  *)
(* twice (Handle_LOGON_INIT_NODE overwrites the counter unconditionally).  *)
NeverBehind ==
    Clean => \A n \in Nodes \ unsynced : \A t \in given[n] \cap Zeroed :
               \A g \in issued[n][t] : g <= cur[n][t]

(* While the connection stands, a node that clients may enter has taken    *)
(* every counter from this hub (SetNodeOnline only after NODE_INIT_ACK,    *)
(* SetNodeOffline before the next connection).                             *)
EnterInitialised ==
    \A n \in Nodes :
        canEnter[n] /\ assigned[n] /\ sock[n] = "up" => given[n] = Types

(* The hub never routes clients to a node that it has no control           *)
(* connection with.                                                        *)
NoEnterWithoutLink ==
    \A n \in Nodes : canEnter[n] /\ assigned[n] => sock[n] \in {"up", "cut", "closing"}

(* A node that stays up is in the end open to clients for good, unless one *)
(* of its id counters is used up or the hub ends for want of a realm;      *)
(* crashes and broken connections are finitely many.                       *)
EventuallyEnterable ==
    \A n \in Nodes :
        <>[]up[n] => <>[](\/ canEnter[n] \/ sock[n] = "ended"
                         \/ \E t \in Types : last[n][t] >= MaxGuid)

(* What the source says of these fields and does not keep.                 *)

(* NodeList::LastItemGUID is "The last used ItemGUID": the id that a       *)
(* LOGON_INIT_NODE seeds a counter with is not behind an id the node used. *)
LastGuidIsLastUsed ==
    Clean => \A n \in Nodes : \A i \in 1 .. Len(recvQ[n]) : \A t \in Zeroed :
               \A g \in issued[n][t] : g <= recvQ[n][i].guid[t]
=============================================================================
