--------------------------- MODULE SessionRouting ----------------------------
(***************************************************************************)
(* One player's ClientSession in the hub and its connections to the nodes. *)
(*                                                                         *)
(* Two threads work on the session without a lock: an updater thread runs  *)
(* UpdateMulti (login callbacks, reconnect, packets with multipass) and    *)
(* the world thread runs UpdateSingle (packets without multipass, among    *)
(* them SMSG_LOGOUT_COMPLETE and CMSG_PLAYER_LOGIN).  They share _nodeId,  *)
(* _NodeSocket, _sessionflags and _player.  RoutingHelper names the node   *)
(* to connect to; node 1 is the master.                                    *)
(*                                                                         *)
(* upc is the place of the updater thread in UpdateMulti, wpc the place of *)
(* the world thread in Handle_SMSG_LOGOUT_COMPLETE.  The client stays      *)
(* connected: its hanging up is the subject of ClientSessions.             *)
(***************************************************************************)
EXTENDS Integers, Sequences, SequencesExt

CONSTANTS
    Nodes,      \* the node ids; 1 is the master
    Backup,     \* GetBackupNodeForID(1), 0 if there is none
    Primary,    \* GetNodeForID(1): the node that 1 is the backup of, or 0
    MaxConns,   \* bound: NodeSockets alive at a time
    Timeout,    \* CONFIG_SOCKET_TIMEOUTTIME
    MaxTime,    \* bound: ticks of the clock
    Limit       \* bounds: faults, transfers, logins, logouts, cancels, failed
                \* loads, logins that a node refuses

Counted == {"fault", "transfer", "login", "logout", "cancel", "kick", "refuse"}

ASSUME RoutingAssumption ==
    /\ Nodes \subseteq Nat \ {0} /\ 1 \in Nodes
    /\ Backup \in Nodes \cup {0} /\ Primary \in Nodes \cup {0}
    /\ MaxConns \in Nat \ {0} /\ Timeout \in Nat /\ MaxTime \in Nat
    /\ Limit \in [Counted -> Nat]

Conns == 1 .. MaxConns
Null  == 0

VARIABLES
    \* RoutingHelper
    online,     \* NodeList::online
    enter,      \* NodeList::can_enter
    onMaster,   \* m_OnMaster
    \* ClientSession
    nodeId,     \* _nodeId, 0 when there is no node to go to
    flags,      \* _sessionflags
    sock,       \* _NodeSocket
    player,     \* _player: "none" or "loaded"
    login,      \* _charLoginCallback: "none", "pending" or "ready"
    timer,      \* _reconnect_timer: "running" or "due"
    lastAction, \* ClientSocket::_lastActionTime
    upc, wpc,
    \* the NodeSockets, the nodes, the clock
    conn,
    up,         \* the nodes that run
    now,
    used        \* how much of each bound is used up

routeVars == <<online, enter, onMaster>>
nodeVars  == <<nodeId, sock, timer>>
userVars  == <<player, login, lastAction>>
sessVars  == <<nodeVars, flags, userVars>>
envVars   == <<up, now, used>>
vars      == <<routeVars, sessVars, upc, wpc, conn, envVars>>

-----------------------------------------------------------------------------
(* A connection: link is "free" (no socket), "open" or "closed"            *)
(* (IsClosing()); far is what the node at the other end has got to; multi  *)
(* and single are the two packet queues of the NodeSocket.  dropped is     *)
(* history: a SMSG_LOGOUT_COMPLETE of this connection was dropped.         *)
Socket(l, n, m) ==
    [link |-> l, at |-> n, far |-> "new", multi |-> m, single |-> <<>>, toNode |-> <<>>,
     dropped |-> FALSE]

Free      == Socket("free", 0, <<>>)
Closed(n) == Socket("closed", n, <<>>)

IsOpen(c) == c # Null /\ conn[c].link = "open"

Packet(p, n) == [type |-> p, node |-> n]

(* Mutant of CloseSubSocket: the connection stays open.                    *)
KeepSubSocket == conn

(* ClientSession::SendPacketToNode and CloseSubSocket, as what becomes of  *)
(* the connections: nothing without an open socket.                        *)
SendPacketToNode(p) ==
    IF IsOpen(sock) THEN [conn EXCEPT ![sock].toNode = Append(@, p)] ELSE conn

CloseSubSocket ==
    IF IsOpen(sock) THEN [conn EXCEPT ![sock] = Closed(@.at)] ELSE conn

Use(b) == used[b] < Limit[b] /\ used' = [used EXCEPT ![b] = @ + 1]

(* RoutingHelper::ConnectToMaster: the node to go to, and m_OnMaster after *)
(* the call.  MasterNode is 1 again at every call.                         *)
CheckNodeID(n) == n \in online

Substitute == IF onMaster THEN Backup ELSE Primary

\* Mutant of ConnectToMaster: no node is -1, as in GetNodeForMap.
ConnectToNone ==
    IF CheckNodeID(1) THEN 1
    ELSE IF CheckNodeID(Substitute) THEN Substitute ELSE -1

ConnectToMaster ==
    IF CheckNodeID(1) THEN 1
    ELSE IF CheckNodeID(Substitute) THEN Substitute ELSE 0

OnMasterAfter ==
    IF ~CheckNodeID(1) /\ CheckNodeID(Substitute) THEN ~onMaster ELSE onMaster

-----------------------------------------------------------------------------
Init ==
    /\ online = Nodes /\ enter = Nodes /\ onMaster = TRUE
    /\ nodeId = 0 /\ flags = {} /\ sock = Null /\ timer = "running"
    /\ player = "none" /\ login = "none" /\ lastAction = 0
    /\ upc = "unborn" /\ wpc = "unborn"
    /\ conn = [c \in Conns |-> Free]
    /\ up = Nodes /\ now = 0 /\ used = [b \in Counted |-> 0]

(* The constructor of ClientSession.                                       *)
Construct ==
    /\ upc = "unborn"
    /\ nodeId' = ConnectToMaster /\ onMaster' = OnMasterAfter
    /\ flags' = {"RECONNECT"}
    /\ lastAction' = now
    /\ upc' = "top" /\ wpc' = "idle"
    /\ UNCHANGED <<online, enter, sock, timer, player, login, conn, envVars>>

(* Another client's session is constructed, or looks for the master again. *)
OtherConnectToMaster ==
    /\ onMaster' = OnMasterAfter
    /\ UNCHANGED <<online, enter, sessVars, upc, wpc, conn, envVars>>

-----------------------------------------------------------------------------
(* UpdateMulti, the updater thread.  A kicked session leaves the thread;   *)
(* the idle test compares the last action with a time in the future.       *)
UpdateMulti ==
    /\ upc = "top"
    /\ upc' = IF "KICKED" \in flags THEN "exit" ELSE "callback"
    /\ flags' = IF "KICKED" \notin flags /\ lastAction > now + Timeout
                THEN (flags \cup {"KICKED"}) \ {"RECONNECT"} ELSE flags
    /\ UNCHANGED <<routeVars, nodeVars, userVars, wpc, conn, envVars>>

(* ProcessQueryCallbacks: HandlePlayerLogin when the character has been    *)
(* read.  LoadFromDB may fail, which kicks.                                *)
HandlePlayerLogin ==
    /\ upc = "callback" /\ login = "ready"
    /\ login' = "none"
    /\ \/ /\ player' = "loaded"
          /\ conn' = SendPacketToNode("CMSG_PLAYER_LOGIN")
          /\ upc' = "reconnect"
          /\ UNCHANGED <<flags, used>>
       \/ /\ Use("kick")
          /\ flags' = flags \cup {"KICKED"}
          /\ upc' = "kick"
          /\ UNCHANGED <<player, conn>>
    /\ UNCHANGED <<routeVars, nodeVars, lastAction, wpc, up, now>>

ProcessQueryCallbacks ==
    /\ upc = "callback" /\ login # "ready"
    /\ upc' = "reconnect"
    /\ UNCHANGED <<routeVars, sessVars, wpc, conn, envVars>>

(* The second half of KickPlayer.                                          *)
KickPlayer ==
    /\ upc = "kick"
    /\ flags' = flags \ {"RECONNECT"}
    /\ upc' = "reconnect"
    /\ UNCHANGED <<routeVars, nodeVars, userVars, wpc, conn, envVars>>

(* The reconnect block of UpdateMulti: not now, ...                        *)
ReconnectDue == "RECONNECT" \in flags /\ timer = "due"

NoReconnect ==
    /\ upc = "reconnect" /\ ~ReconnectDue
    /\ upc' = "io"
    /\ UNCHANGED <<routeVars, sessVars, wpc, conn, envVars>>

(* ... look for a master, ...                                              *)
FindMaster ==
    /\ upc = "reconnect" /\ ReconnectDue /\ nodeId = 0
    /\ nodeId' = ConnectToMaster /\ onMaster' = OnMasterAfter
    /\ timer' = "running" /\ upc' = "io"
    /\ UNCHANGED <<online, enter, sock, flags, userVars, wpc, conn, envVars>>

(* ... find the node closed or dead, ...                                   *)
Answers(n) == n \in enter /\ CheckNodeID(n) /\ n \in up

CannotEnter ==
    /\ upc = "reconnect" /\ ReconnectDue /\ nodeId # 0 /\ ~Answers(nodeId)
    /\ timer' = "running" /\ upc' = "io"
    /\ UNCHANGED <<routeVars, nodeId, sock, flags, userVars, wpc, conn, envVars>>

(* ... or connect.  A socket that is still in _NodeSocket is overwritten,  *)
(* not released.                                                           *)
OpenNodeConnection ==
    /\ upc = "reconnect" /\ ReconnectDue /\ Answers(nodeId)
    /\ \E c \in Conns :
         /\ conn[c] = Free /\ \A d \in Conns : conn[d] = Free => c <= d
         /\ sock' = c
         /\ conn' = [d \in Conns |->
               IF d = c THEN Socket("open", nodeId, <<Packet("SMSG_AUTH_CHALLENGE", 0)>>)
               ELSE IF d = sock /\ ~IsOpen(d) THEN Free ELSE conn[d]]
    /\ upc' = "opened"
    /\ UNCHANGED <<routeVars, nodeId, timer, flags, userVars, wpc, envVars>>

ClearReconnect ==
    /\ upc = "opened"
    /\ flags' = flags \ {"RECONNECT"}
    /\ upc' = "wait"
    /\ UNCHANGED <<routeVars, nodeVars, userVars, wpc, conn, envVars>>

\* Mutant of SetWaitForOk: FLAG_ACCOUNT_WAIT_FOR_OK is not set.
SetNoWait ==
    /\ upc = "wait"
    /\ timer' = "running" /\ upc' = "io"
    /\ UNCHANGED <<routeVars, nodeId, sock, flags, userVars, wpc, conn, envVars>>

SetWaitForOk ==
    /\ upc = "wait"
    /\ flags' = flags \cup {"WAIT_FOR_OK"}
    /\ timer' = "running" /\ upc' = "io"
    /\ UNCHANGED <<routeVars, nodeId, sock, userVars, wpc, conn, envVars>>

-----------------------------------------------------------------------------
(* UpdateMultiNodeIO: the next packet of the node.                         *)
NextMulti(p, n) ==
    /\ upc = "io" /\ IsOpen(sock)
    /\ conn[sock].multi # <<>> /\ Head(conn[sock].multi) = Packet(p, n)

Taken(cs) == [cs EXCEPT ![sock].multi = Tail(@)]

Handle_SMSG_AUTH_CHALLENGE ==
    /\ NextMulti("SMSG_AUTH_CHALLENGE", 0)
    /\ flags' = flags \ {"FORCE_TELEPORT"}
    /\ conn' = Taken(SendPacketToNode("CMSG_AUTH_SESSION"))
    /\ UNCHANGED <<routeVars, nodeVars, userVars, upc, wpc, envVars>>

Handle_SMSG_AUTH_RESPONSE ==
    /\ NextMulti("SMSG_AUTH_RESPONSE", 0)
    /\ flags' = flags \ {"WAIT_FOR_OK"}
    /\ conn' = Taken(IF "WAIT_FOR_OK" \in flags /\ player = "loaded"
                     THEN SendPacketToNode("CMSG_PLAYER_LOGIN") ELSE conn)
    /\ UNCHANGED <<routeVars, nodeVars, userVars, upc, wpc, envVars>>

(* Mutant of Handle_NODE_MISC_DATA: _nodeId is set before the check.       *)
TransferUnchecked(n) ==
    /\ NextMulti("NODE_MISC_DATA", n)
    /\ nodeId' = n
    /\ \/ /\ n # nodeId /\ CheckNodeID(n)
          /\ conn' = CloseSubSocket
          /\ timer' = "running"
          /\ flags' = flags \cup {"RECONNECT"}
       \/ /\ n = nodeId \/ ~CheckNodeID(n)
          /\ conn' = Taken(conn)
          /\ UNCHANGED <<flags, timer>>
    /\ UNCHANGED <<routeVars, sock, userVars, upc, wpc, envVars>>

(* NODE_MISC_DATA with CL_DEF_TRANSFER_TO_NODE.                            *)
Handle_NODE_MISC_DATA(n) ==
    /\ NextMulti("NODE_MISC_DATA", n)
    /\ \/ /\ n # nodeId /\ CheckNodeID(n)
          /\ nodeId' = n
          /\ conn' = CloseSubSocket
          /\ timer' = "running"
          /\ flags' = flags \cup {"RECONNECT"}
       \/ /\ n = nodeId \/ ~CheckNodeID(n)
          /\ conn' = Taken(conn)
          /\ UNCHANGED <<nodeId, flags, timer>>
    /\ UNCHANGED <<routeVars, sock, userVars, upc, wpc, envVars>>

(* Mutant of DropFlags: the reconnect is not armed.                        *)
DropUnarmed == IF player = "loaded" THEN {"FORCE_TELEPORT"} ELSE {}

(* No packet is left: UpdateMulti lets go of a closing node socket.        *)
DropFlags ==
    {"RECONNECT"} \cup (IF player = "loaded" THEN {"FORCE_TELEPORT"} ELSE {})

DropNodeSocket ==
    /\ upc = "io"
    /\ IsOpen(sock) => conn[sock].multi = <<>>
    /\ IF sock = Null \/ IsOpen(sock) THEN UNCHANGED <<sock, flags, conn>>
       ELSE /\ conn' = [conn EXCEPT ![sock] = Free]
            /\ sock' = Null
            /\ flags' = flags \cup DropFlags
    /\ upc' = "client"
    /\ UNCHANGED <<routeVars, nodeId, timer, userVars, wpc, envVars>>

(* UpdateMultiClientIO: HandlePacket sends both packets to the node and    *)
(* calls the handler afterwards, which changes the flag.                   *)
ClientPacket(b, p, handler) ==
    /\ upc = "client" /\ player = "loaded"
    /\ Use(b)
    /\ conn' = SendPacketToNode(p)
    /\ lastAction' = now
    /\ upc' = handler
    /\ UNCHANGED <<routeVars, nodeVars, flags, player, login, wpc, up, now>>

ClientLogoutRequest == ClientPacket("logout", "CMSG_LOGOUT_REQUEST", "logout")
ClientLogoutCancel  == ClientPacket("cancel", "CMSG_LOGOUT_CANCEL", "cancel")

HandlePlayerLogoutRequest ==
    /\ upc = "logout" /\ upc' = "client"
    /\ flags' = flags \cup {"LOGOUT_REQUEST"}
    /\ UNCHANGED <<routeVars, nodeVars, userVars, wpc, conn, envVars>>

HandleLogoutCancelOpcode ==
    /\ upc = "cancel" /\ upc' = "client"
    /\ flags' = flags \ {"LOGOUT_REQUEST"}
    /\ UNCHANGED <<routeVars, nodeVars, userVars, wpc, conn, envVars>>

UpdateMultiDone ==
    /\ upc = "client"
    /\ upc' = "top"
    /\ UNCHANGED <<routeVars, sessVars, wpc, conn, envVars>>

-----------------------------------------------------------------------------
(* UpdateSingle, the world thread.  A kicked session leaves the map.       *)
UpdateSingle ==
    /\ wpc = "idle" /\ "KICKED" \in flags
    /\ wpc' = "exit"
    /\ UNCHANGED <<routeVars, sessVars, upc, conn, envVars>>

(* UpdateSingleNodeIO: the next packet of the node.                        *)
NextSingle(p) ==
    /\ wpc = "idle" /\ "KICKED" \notin flags /\ IsOpen(sock)
    /\ conn[sock].single # <<>> /\ Head(conn[sock].single) = p

(* The node refuses the logout.                                            *)
Handle_SMSG_LOGOUT_RESPONSE ==
    /\ NextSingle("SMSG_LOGOUT_RESPONSE")
    /\ conn' = [conn EXCEPT ![sock].single = Tail(@)]
    /\ flags' = flags \ {"LOGOUT_REQUEST"}
    /\ UNCHANGED <<routeVars, nodeVars, userVars, upc, wpc, envVars>>

(* Handle_SMSG_LOGOUT_COMPLETE: log the player out and, unless the session *)
(* is on the master already, ...                                           *)
Handle_SMSG_LOGOUT_COMPLETE ==
    /\ NextSingle("SMSG_LOGOUT_COMPLETE")
    /\ \/ /\ "LOGOUT_REQUEST" \in flags
          /\ player' = "none"
          /\ onMaster' = OnMasterAfter
          /\ wpc' = IF nodeId # ConnectToMaster THEN "close" ELSE "idle"
          /\ conn' = [conn EXCEPT ![sock].single = Tail(@)]
       \/ /\ "LOGOUT_REQUEST" \notin flags
          /\ conn' = [conn EXCEPT ![sock].single = Tail(@), ![sock].dropped = TRUE]
          /\ UNCHANGED <<player, onMaster, wpc>>
    /\ UNCHANGED <<online, enter, nodeVars, flags, login, lastAction, upc, envVars>>

(* ... go back there, one shared variable after the other.                 *)
LogoutClose ==
    /\ wpc = "close" /\ wpc' = "wipe"
    /\ conn' = CloseSubSocket
    /\ UNCHANGED <<routeVars, sessVars, upc, envVars>>

LogoutWipe ==
    /\ wpc = "wipe" /\ wpc' = "zero"
    /\ flags' = {}
    /\ UNCHANGED <<routeVars, nodeVars, userVars, upc, conn, envVars>>

LogoutZero ==
    /\ wpc = "zero" /\ wpc' = "home"
    /\ nodeId' = 0
    /\ UNCHANGED <<routeVars, sock, timer, flags, userVars, upc, conn, envVars>>

LogoutHome ==
    /\ wpc = "home" /\ wpc' = "arm"
    /\ nodeId' = ConnectToMaster /\ onMaster' = OnMasterAfter
    /\ timer' = "running"
    /\ UNCHANGED <<online, enter, sock, flags, userVars, upc, conn, envVars>>

LogoutArm ==
    /\ wpc = "arm" /\ wpc' = "idle"
    /\ flags' = flags \cup {"RECONNECT"}
    /\ UNCHANGED <<routeVars, nodeVars, userVars, upc, conn, envVars>>

(* CMSG_PLAYER_LOGIN: HandlePlayerLoginOpcode answers with an error when   *)
(* the node is offline.  It drops the player that is there, ...            *)
HandlePlayerLoginOpcode ==
    /\ wpc = "idle" /\ "KICKED" \notin flags
    /\ Use("login")
    /\ lastAction' = now
    /\ IF CheckNodeID(nodeId) THEN player' = "none" /\ wpc' = "query"
                              ELSE UNCHANGED <<player, wpc>>
    /\ UNCHANGED <<routeVars, nodeVars, flags, login, upc, conn, up, now>>

(* ... and starts to read the character, unless the queries cannot be set  *)
(* up; a character of somebody else is a reason to kick.                   *)
LoginQuery ==
    /\ wpc = "query"
    /\ \/ /\ login' \in {login, "pending"}
          /\ wpc' = "idle"
          /\ UNCHANGED <<flags, used>>
       \/ /\ Use("kick")
          /\ flags' = flags \cup {"KICKED"}
          /\ wpc' = "kick"
          /\ UNCHANGED login
    /\ UNCHANGED <<routeVars, nodeVars, player, lastAction, upc, conn, up, now>>

LoginKick ==
    /\ wpc = "kick" /\ wpc' = "idle"
    /\ flags' = flags \ {"RECONNECT"}
    /\ UNCHANGED <<routeVars, nodeVars, userVars, upc, conn, envVars>>

-----------------------------------------------------------------------------
(* The database thread answers the query; the reconnect timer, which only  *)
(* counts while FLAG_ACCOUNT_RECONNECT is set, runs out; the clock ticks.  *)
QueryDone ==
    /\ login = "pending"
    /\ login' = "ready"
    /\ UNCHANGED <<routeVars, nodeVars, flags, player, lastAction, upc, wpc, conn, envVars>>

TimerFires ==
    /\ "RECONNECT" \in flags /\ timer = "running"
    /\ timer' = "due"
    /\ UNCHANGED <<routeVars, nodeId, sock, flags, userVars, upc, wpc, conn, envVars>>

Tick ==
    /\ now < MaxTime
    /\ now' = now + 1
    /\ UNCHANGED <<routeVars, sessVars, upc, wpc, conn, up, used>>

-----------------------------------------------------------------------------
(* The node at the other end of c: WorldSocket::ProcessIncoming and        *)
(* WorldSession.  It serves c, and c becomes t.                            *)
Serves(c, t) ==
    /\ IsOpen(c) /\ conn[c].at \in up
    /\ conn' = [conn EXCEPT ![c] = t]
    /\ UNCHANGED <<routeVars, sessVars, upc, wpc, up, now>>

Arrives(c, p) == IsOpen(c) /\ conn[c].toNode # <<>> /\ Head(conn[c].toNode) = p

(* c after the node has read a packet and got to f.                        *)
Read(c, f) == [conn[c] EXCEPT !.toNode = Tail(@), !.far = f]

HandleAuthSession(c) ==
    /\ Arrives(c, "CMSG_AUTH_SESSION")
    /\ \/ /\ Serves(c, [Read(c, "authed") EXCEPT
                           !.multi = Append(@, Packet("SMSG_AUTH_RESPONSE", 0))])
          /\ UNCHANGED used
       \/ Serves(c, Closed(conn[c].at)) /\ Use("fault")

(* A packet before the login of the session closes the connection, and so  *)
(* does a player login while a player is there (WorldSession::KickPlayer). *)
(* An earlier session of the account that the node still has can make it   *)
(* refuse the login (CHAR_LOGIN_DUPLICATE_CHARACTER); a character that it  *)
(* cannot load is kicked.                                                  *)
NodePlayerLogin(c) ==
    /\ Arrives(c, "CMSG_PLAYER_LOGIN")
    /\ \/ /\ conn[c].far \in {"authed", "refused"}
          /\ \/ Serves(c, Read(c, "world")) /\ UNCHANGED used
             \/ Serves(c, Read(c, "refused")) /\ Use("refuse")
             \/ Serves(c, Closed(conn[c].at)) /\ Use("fault")
       \/ /\ conn[c].far \in {"new", "world", "leaving"}
          /\ Serves(c, Closed(conn[c].at)) /\ UNCHANGED used

(* The node refuses a logout in combat, or starts the logout timer.        *)
NodeLogoutRequest(c) ==
    /\ Arrives(c, "CMSG_LOGOUT_REQUEST")
    /\ UNCHANGED used
    /\ \/ conn[c].far = "new" /\ Serves(c, Closed(conn[c].at))
       \/ conn[c].far \in {"authed", "refused", "leaving"} /\ Serves(c, Read(c, conn[c].far))
       \/ conn[c].far = "world" /\ Serves(c, Read(c, "leaving"))
       \/ /\ conn[c].far = "world"
          /\ Serves(c, [Read(c, "world") EXCEPT !.single = Append(@, "SMSG_LOGOUT_RESPONSE")])

NodeLogoutCancel(c) ==
    /\ Arrives(c, "CMSG_LOGOUT_CANCEL")
    /\ UNCHANGED used
    /\ \/ conn[c].far = "new" /\ Serves(c, Closed(conn[c].at))
       \/ conn[c].far \in {"authed", "refused", "world"} /\ Serves(c, Read(c, conn[c].far))
       \/ conn[c].far = "leaving" /\ Serves(c, Read(c, "world"))

(* WorldSession::Update: the logout timer has run out.                     *)
LogoutPlayer(c) ==
    /\ conn[c].far = "leaving"
    /\ Serves(c, [conn[c] EXCEPT !.far = "authed", !.single = Append(@, "SMSG_LOGOUT_COMPLETE")])
    /\ UNCHANGED used

(* WorldSession::Update: the player has left for a map of node n.          *)
TransferToNode(c, n) ==
    /\ conn[c].far \in {"world", "leaving"} /\ n # conn[c].at
    /\ Use("transfer")
    /\ Serves(c, [conn[c] EXCEPT !.multi = Append(@, Packet("NODE_MISC_DATA", n))])

-----------------------------------------------------------------------------
(* The nodes, and what the control link (ControlLink) makes of them.       *)
Crash(n) ==
    /\ n \in up /\ up' = up \ {n}
    /\ Use("fault")
    /\ conn' = [c \in Conns |-> IF IsOpen(c) /\ conn[c].at = n THEN Closed(n) ELSE conn[c]]
    /\ UNCHANGED <<routeVars, sessVars, upc, wpc, now>>

Restart(n) ==
    /\ n \notin up /\ up' = up \cup {n}
    /\ UNCHANGED <<routeVars, sessVars, upc, wpc, conn, now, used>>

SetNodeOffline(n) ==
    /\ n \in online \cup enter
    /\ \/ n \notin up /\ UNCHANGED used
       \/ n \in up /\ Use("fault")
    /\ online' = online \ {n} /\ enter' = enter \ {n}
    /\ UNCHANGED <<onMaster, sessVars, upc, wpc, conn, up, now>>

RefreshOnlineStat(n) ==
    /\ n \in up \ online
    /\ online' = online \cup {n}
    /\ UNCHANGED <<enter, onMaster, sessVars, upc, wpc, conn, envVars>>

SetNodeOnline(n) ==
    /\ n \in up \ enter
    /\ enter' = enter \cup {n}
    /\ UNCHANGED <<online, onMaster, sessVars, upc, wpc, conn, envVars>>

-----------------------------------------------------------------------------
UpdaterStep ==
    \/ UpdateMulti \/ HandlePlayerLogin \/ ProcessQueryCallbacks \/ KickPlayer
    \/ NoReconnect \/ FindMaster \/ CannotEnter \/ OpenNodeConnection
    \/ ClearReconnect \/ SetWaitForOk
    \/ Handle_SMSG_AUTH_CHALLENGE \/ Handle_SMSG_AUTH_RESPONSE
    \/ \E n \in Nodes : Handle_NODE_MISC_DATA(n)
    \/ DropNodeSocket \/ HandlePlayerLogoutRequest \/ HandleLogoutCancelOpcode
    \/ UpdateMultiDone

WorldStep ==
    \/ UpdateSingle \/ Handle_SMSG_LOGOUT_RESPONSE \/ Handle_SMSG_LOGOUT_COMPLETE
    \/ LogoutClose \/ LogoutWipe \/ LogoutZero \/ LogoutHome \/ LogoutArm
    \/ LoginQuery \/ LoginKick

ClientStep ==
    \/ ClientLogoutRequest \/ ClientLogoutCancel \/ HandlePlayerLoginOpcode

NodeReceives(c) ==
    \/ HandleAuthSession(c) \/ NodePlayerLogin(c) \/ NodeLogoutRequest(c)
    \/ NodeLogoutCancel(c)

Next ==
    \/ Construct \/ OtherConnectToMaster
    \/ UpdaterStep \/ WorldStep \/ ClientStep
    \/ QueryDone \/ TimerFires \/ Tick
    \/ \E c \in Conns :
         NodeReceives(c) \/ LogoutPlayer(c) \/ \E n \in Nodes : TransferToNode(c, n)
    \/ \E n \in Nodes :
         \/ Crash(n) \/ Restart(n)
         \/ SetNodeOffline(n) \/ RefreshOnlineStat(n) \/ SetNodeOnline(n)

Spec == Init /\ [][Next]_vars

(* Fairness: both threads loop as long as the process runs, the database   *)
(* answers, timers run out, a running node reads its packets, and the hub  *)
(* notices nodes that run.                                                 *)
FairSpec ==
    /\ Spec
    /\ WF_vars(Construct) /\ WF_vars(UpdaterStep) /\ WF_vars(WorldStep)
    /\ WF_vars(QueryDone) /\ WF_vars(TimerFires) /\ WF_vars(Tick)
    /\ \A c \in Conns : WF_vars(NodeReceives(c)) /\ WF_vars(LogoutPlayer(c))
    /\ \A n \in Nodes : WF_vars(RefreshOnlineStat(n)) /\ WF_vars(SetNodeOnline(n))

-----------------------------------------------------------------------------
(* PROPERTIES                                                              *)

(* Type invariant of the session, its connections and the node list.       *)
TypeOK ==
    /\ online \subseteq Nodes /\ enter \subseteq Nodes /\ up \subseteq Nodes
    /\ onMaster \in BOOLEAN
    /\ nodeId \in Nodes \cup {0} /\ sock \in Conns \cup {Null}
    /\ flags \subseteq {"RECONNECT", "WAIT_FOR_OK", "LOGOUT_REQUEST", "FORCE_TELEPORT", "KICKED"}
    /\ player \in {"none", "loaded"} /\ login \in {"none", "pending", "ready"}
    /\ timer \in {"running", "due"} /\ lastAction \in Nat /\ now \in Nat
    /\ upc \in {"unborn", "top", "callback", "kick", "reconnect", "opened", "wait", "io",
                "client", "logout", "cancel", "exit"}
    /\ wpc \in {"unborn", "idle", "close", "wipe", "zero", "home", "arm", "query", "kick",
                "exit"}
    /\ conn \in [Conns ->
         [link : {"free", "open", "closed"}, at : Nodes \cup {0},
          far : {"new", "authed", "refused", "world", "leaving"},
          multi : Seq([type : {"SMSG_AUTH_CHALLENGE", "SMSG_AUTH_RESPONSE", "NODE_MISC_DATA"},
                       node : Nodes \cup {0}]),
          single : Seq({"SMSG_LOGOUT_RESPONSE", "SMSG_LOGOUT_COMPLETE"}),
          toNode : Seq({"CMSG_AUTH_SESSION", "CMSG_PLAYER_LOGIN", "CMSG_LOGOUT_REQUEST",
                        "CMSG_LOGOUT_CANCEL"}),
          dropped : BOOLEAN]]
    /\ used \in [Counted -> Nat]

(* Neither thread is inside a block that changes the session step by step. *)
AtRest == upc \in {"top", "callback", "reconnect", "client"} /\ wpc = "idle"

NoLogout == used["logout"] = 0

(* Nodes crash and send the player on, and still the hub keeps one node    *)
(* connection per session: no node is left with a connection that          *)
(* _NodeSocket has forgotten, so a player is in the world once.  It needs  *)
(* that nobody has logged out: the logout of the world thread races with   *)
(* the reconnect, whose last step may clear the flag that the logout has   *)
(* just set for another node.                                              *)
OneConnection == NoLogout => \A c \in Conns : IsOpen(c) => c = sock

OnItsNode ==
    AtRest /\ IsOpen(sock) /\ "RECONNECT" \notin flags => conn[sock].at = nodeId

(* A session that is not about to reconnect talks to the node _nodeId,     *)
(* as long as nobody has logged out.                                       *)
RightNode == NoLogout => OnItsNode

(* A session without a node connection has its reconnect armed, whatever   *)
(* the world thread's logout and the updater thread do at the same time.   *)
(* The two steps of KickPlayer around a logout would lose both flags.      *)
ReconnectArmed ==
    used["kick"] = 0 /\ AtRest /\ sock = Null => "RECONNECT" \in flags

InWorld == IsOpen(sock) /\ conn[sock].far \in {"world", "leaving"}

(* The player waits at the character screen: the node refused the login.   *)
Refused == IsOpen(sock) /\ conn[sock].far = "refused"

(* The hub has dropped the node's SMSG_LOGOUT_COMPLETE, because the flag   *)
(* was not set yet (an instant logout overtakes the handler) or not any    *)
(* more (a cancel or a refusal crossed it): it has a player that no node   *)
(* has, until the connection is lost.                                      *)
Stranded == IsOpen(sock) /\ conn[sock].dropped

(* A loaded player gets into the world of a node (or logs out, is kicked,  *)
(* or is told that the node refuses him), whatever crashes, transfers,     *)
(* logouts, cancels and repeated logins came before: provided every node   *)
(* runs in the end, and this connection has not dropped the answer to a    *)
(* logout.                                                                 *)
PlayerEntersWorld ==
    <>[](up = Nodes) =>
        [](player = "loaded" => <>(InWorld \/ player = "none" \/ "KICKED" \in flags
                                        \/ Refused \/ Stranded))

(* What the source says and the code does not keep.                        *)

(* "Wenn Node1 tot ist gehts zum Backup": a session without a node goes to *)
(* the backup when node 1 stays dead and the backup stays alive.           *)
FailoverToBackup ==
    <>[](CheckNodeID(Backup) /\ ~CheckNodeID(1)) => []<>(nodeId # 0)
=============================================================================
