------------------------ MODULE SessionRoutingProofs ------------------------
(***************************************************************************)
(* One session, two threads and any number of nodes: a session keeps one   *)
(* node connection and talks to the node it believes to be on, as long as  *)
(* nobody has logged out, and a session without a connection has its       *)
(* reconnect armed, logouts included.                                      *)
(*                                                                         *)
(* Only OpenNodeConnection opens a connection: every other step follows    *)
(* the connections there are (Follows).  The rest of the argument is about *)
(* _sessionflags and the places of the two threads.                        *)
(***************************************************************************)
EXTENDS SessionRouting, TLAPS

\* What the type invariant says of a connection.
FromNode == [type : {"SMSG_AUTH_CHALLENGE", "SMSG_AUTH_RESPONSE", "NODE_MISC_DATA"},
             node : Nodes \cup {0}]
Answer   == {"SMSG_LOGOUT_RESPONSE", "SMSG_LOGOUT_COMPLETE"}
ToNode   == {"CMSG_AUTH_SESSION", "CMSG_PLAYER_LOGIN", "CMSG_LOGOUT_REQUEST",
             "CMSG_LOGOUT_CANCEL"}
Far      == {"new", "authed", "refused", "world", "leaving"}
Sockets  == [link : {"free", "open", "closed"}, at : Nodes \cup {0}, far : Far,
             multi : Seq(FromNode), single : Seq(Answer), toNode : Seq(ToNode),
             dropped : BOOLEAN]

ConnOK == conn \in [Conns -> Sockets] /\ sock \in Conns \cup {Null}

\* The socket t is s, but for its queues and what the node has got to.
Like(s, t) == t \in Sockets /\ t.link = s.link /\ t.at = s.at

\* The connections cs are those there are now, some of them closed.
Follows(cs) ==
    /\ cs \in [Conns -> Sockets]
    /\ \A c \in Conns :
         cs[c].link = "open" => conn[c].link = "open" /\ cs[c].at = conn[c].at

-----------------------------------------------------------------------------
(* Connections.                                                            *)

(* The sockets that the code makes are sockets, and a closed one is closed. *)
LEMMA SocketMade ==
    /\ Free \in Sockets /\ Free.link = "free"
    /\ \A n \in Nodes \cup {0} : Closed(n) \in Sockets /\ Closed(n).link = "closed"
    /\ \A n \in Nodes \cup {0} :
         LET s == Socket("open", n, <<Packet("SMSG_AUTH_CHALLENGE", 0)>>)
         IN  s \in Sockets /\ s.link = "open" /\ s.at = n
<1>1. ASSUME NEW l \in {"free", "open", "closed"}, NEW n \in Nodes \cup {0},
             NEW m \in Seq(FromNode)
      PROVE  Socket(l, n, m) \in Sockets /\ Socket(l, n, m).link = l
             /\ Socket(l, n, m).at = n
  <2>1. <<>> \in Seq(Answer) /\ <<>> \in Seq(ToNode)
    OBVIOUS
  <2> QED
    BY <2>1 DEF Socket, Sockets, Far
<1>2. <<>> \in Seq(FromNode)
  OBVIOUS
<1>3. <<Packet("SMSG_AUTH_CHALLENGE", 0)>> \in Seq(FromNode)
  <2>1. Packet("SMSG_AUTH_CHALLENGE", 0) \in FromNode
    BY DEF Packet, FromNode
  <2> QED
    BY <2>1
<1>4. Free \in Sockets /\ Free.link = "free"
  <2>1. ASSUME NEW n \in Nodes \cup {0}, NEW m \in Seq(FromNode)
        PROVE  Socket("free", n, m) \in Sockets /\ Socket("free", n, m).link = "free"
    BY <1>1
  <2>2. 0 \in Nodes \cup {0}
    OBVIOUS
  <2>3. ASSUME NEW m \in Seq(FromNode)
        PROVE  Socket("free", 0, m) \in Sockets /\ Socket("free", 0, m).link = "free"
    BY <2>1, <2>2
  <2> QED
    BY <2>3, <1>2 DEF Free
<1>5. \A n \in Nodes \cup {0} : Closed(n) \in Sockets /\ Closed(n).link = "closed"
  <2>1. ASSUME NEW n \in Nodes \cup {0}
        PROVE  Socket("closed", n, <<>>) \in Sockets /\ Socket("closed", n, <<>>).link = "closed"
    <3>1. "closed" \in {"free", "open", "closed"}
      OBVIOUS
    <3>2. ASSUME NEW m \in Seq(FromNode)
          PROVE  Socket("closed", n, m) \in Sockets /\ Socket("closed", n, m).link = "closed"
      BY <1>1, <3>1
    <3> QED
      BY <1>2, <3>2
  <2> QED
    BY <2>1 DEF Closed
<1>6. ASSUME NEW n \in Nodes \cup {0}
      PROVE  LET s == Socket("open", n, <<Packet("SMSG_AUTH_CHALLENGE", 0)>>)
             IN  s \in Sockets /\ s.link = "open" /\ s.at = n
  <2>1. "open" \in {"free", "open", "closed"}
    OBVIOUS
  <2>2. ASSUME NEW m \in Seq(FromNode)
        PROVE  /\ Socket("open", n, m) \in Sockets /\ Socket("open", n, m).link = "open"
               /\ Socket("open", n, m).at = n
    BY <1>1, <2>1
  <2> QED
    BY <1>3, <2>2
<1> QED
  BY <1>4, <1>5, <1>6

(* A queue that grows or shrinks stays a queue of its direction.           *)
LEMMA SocketQueues ==
    ASSUME NEW s \in Sockets
    PROVE  /\ \A p \in ToNode : /\ Like(s, [s EXCEPT !.toNode = Append(@, p)])
                                /\ [s EXCEPT !.toNode = Append(@, p)].multi = s.multi
           /\ s.multi # <<>> => Like(s, [s EXCEPT !.multi = Tail(@)])
           /\ s.single # <<>> =>
                /\ Like(s, [s EXCEPT !.single = Tail(@)])
                /\ Like(s, [s EXCEPT !.single = Tail(@), !.dropped = TRUE])
           /\ s.toNode # <<>> =>
                \A f \in Far : Like(s, [s EXCEPT !.toNode = Tail(@), !.far = f])
           /\ \A p \in FromNode : Like(s, [s EXCEPT !.multi = Append(@, p)])
           /\ \A p \in Answer : Like(s, [s EXCEPT !.single = Append(@, p)])
           /\ \A p \in Answer :
                Like(s, [s EXCEPT !.far = "authed", !.single = Append(@, p)])
<1> USE DEF Sockets, Like
<1>1. s.multi \in Seq(FromNode) /\ s.single \in Seq(Answer) /\ s.toNode \in Seq(ToNode)
  OBVIOUS
<1>2. "authed" \in Far
  BY DEF Far
<1>3. \A p \in ToNode : /\ Like(s, [s EXCEPT !.toNode = Append(@, p)])
                        /\ [s EXCEPT !.toNode = Append(@, p)].multi = s.multi
  <2>1. \A p \in ToNode : Append(s.toNode, p) \in Seq(ToNode)
    BY <1>1
  <2> QED
    BY <2>1
<1>4. s.multi # <<>> => Like(s, [s EXCEPT !.multi = Tail(@)])
  <2>1. s.multi # <<>> => Tail(s.multi) \in Seq(FromNode)
    BY <1>1
  <2> QED
    BY <2>1
<1>5. s.single # <<>> =>
        /\ Like(s, [s EXCEPT !.single = Tail(@)])
        /\ Like(s, [s EXCEPT !.single = Tail(@), !.dropped = TRUE])
  <2>1. s.single # <<>> => Tail(s.single) \in Seq(Answer)
    BY <1>1
  <2> QED
    BY <2>1
<1>6. s.toNode # <<>> =>
        \A f \in Far : Like(s, [s EXCEPT !.toNode = Tail(@), !.far = f])
  <2>1. s.toNode # <<>> => Tail(s.toNode) \in Seq(ToNode)
    BY <1>1
  <2> QED
    BY <2>1
<1>7. \A p \in FromNode : Like(s, [s EXCEPT !.multi = Append(@, p)])
  <2>1. \A p \in FromNode : Append(s.multi, p) \in Seq(FromNode)
    BY <1>1
  <2> QED
    BY <2>1
<1>8. \A p \in Answer :
        /\ Like(s, [s EXCEPT !.single = Append(@, p)])
        /\ Like(s, [s EXCEPT !.far = "authed", !.single = Append(@, p)])
  <2>1. \A p \in Answer : Append(s.single, p) \in Seq(Answer)
    BY <1>1
  <2> QED
    BY <2>1, <1>2
<1> QED
  BY <1>3, <1>4, <1>5, <1>6, <1>7, <1>8

(* Connections of which none is new, and one changes, ...                  *)
LEMMA OneChanges ==
    ASSUME ConnOK, NEW cs, Follows(cs), NEW c \in Conns, NEW t,
           Like(cs[c], t) \/ (t \in Sockets /\ t.link # "open")
    PROVE  Follows([cs EXCEPT ![c] = t])
  BY DEF Follows, Like

(* ... is sent something (SendPacketToNode), ...                           *)
LEMMA SendFollows ==
    ASSUME ConnOK, NEW p \in ToNode
    PROVE  /\ Follows(SendPacketToNode(p))
           /\ IsOpen(sock) => SendPacketToNode(p)[sock].multi = conn[sock].multi
<1>1. CASE IsOpen(sock)
  <2>1. sock \in Conns /\ conn[sock] \in Sockets
    BY <1>1 DEF ConnOK, IsOpen
  <2> DEFINE t == [conn[sock] EXCEPT !.toNode = Append(@, p)]
  <2>2. Like(conn[sock], t) /\ t.multi = conn[sock].multi
    BY <2>1, SocketQueues
  <2>3. SendPacketToNode(p) = [conn EXCEPT ![sock] = t]
    BY <1>1, <2>1 DEF SendPacketToNode, ConnOK
  <2>4. Follows(conn)
    BY DEF ConnOK, Follows
  <2> HIDE DEF t
  <2>5. Follows([conn EXCEPT ![sock] = t])
    BY <2>1, <2>2, <2>4, OneChanges
  <2> QED
    BY <2>1, <2>2, <2>3, <2>5 DEF ConnOK
<1>2. CASE ~IsOpen(sock)
  BY <1>2 DEF SendPacketToNode, Follows, ConnOK
<1> QED
  BY <1>1, <1>2

(* ... is closed (CloseSubSocket), ...                                     *)
LEMMA CloseFollows ==
    ASSUME ConnOK
    PROVE  /\ Follows(CloseSubSocket)
           /\ sock # Null => CloseSubSocket[sock].link # "open"
<1>1. Follows(conn)
  BY DEF ConnOK, Follows
<1>2. CASE IsOpen(sock)
  <2>1. sock \in Conns /\ conn[sock] \in Sockets
    BY <1>2 DEF ConnOK, IsOpen
  <2> DEFINE t == Closed(conn[sock].at)
  <2>2. t \in Sockets /\ t.link # "open"
    BY <2>1, SocketMade DEF Sockets
  <2>3. CloseSubSocket = [conn EXCEPT ![sock] = t]
    BY <1>2, <2>1 DEF CloseSubSocket, ConnOK
  <2> HIDE DEF t
  <2>5. Follows([conn EXCEPT ![sock] = t])
    BY <2>1, <2>2, <1>1, OneChanges
  <2> QED
    BY <2>1, <2>2, <2>3, <2>5 DEF ConnOK
<1>3. CASE ~IsOpen(sock)
  BY <1>1, <1>3 DEF CloseSubSocket, IsOpen
<1> QED
  BY <1>2, <1>3

(* ... or has a packet taken from it.                                      *)
LEMMA TakenFollows ==
    ASSUME ConnOK, sock \in Conns, NEW cs, Follows(cs), cs[sock].multi # <<>>
    PROVE  Follows(Taken(cs))
<1> DEFINE t == [cs[sock] EXCEPT !.multi = Tail(@)]
<1>1. cs[sock] \in Sockets /\ cs \in [Conns -> Sockets]
  BY DEF Follows
<1>2. Like(cs[sock], t)
  BY <1>1, SocketQueues
<1>3. Taken(cs) = [cs EXCEPT ![sock] = t]
  BY <1>1 DEF Taken
<1> HIDE DEF t
<1>4. Follows([cs EXCEPT ![sock] = t])
  BY <1>2, OneChanges
<1> QED
  BY <1>3, <1>4

(* Nothing happens to the connections.                                     *)
LEMMA SameFollows ==
    ASSUME ConnOK, conn' = conn
    PROVE  Follows(conn')
  BY DEF ConnOK, Follows

(* A packet of the node is at the head of the multi queue.                 *)
LEMMA NextMultiOpen ==
    ASSUME ConnOK, NEW p, NEW n, NextMulti(p, n)
    PROVE  sock \in Conns /\ conn[sock].multi # <<>> /\ IsOpen(sock)
  BY DEF NextMulti, IsOpen, ConnOK

(* The packets that the node reads and sends leave a connection a          *)
(* connection.                                                             *)
LEMMA ServesFollows ==
    ASSUME ConnOK, NEW c \in Conns, NEW t, Serves(c, t),
           Like(conn[c], t) \/ t = Closed(conn[c].at)
    PROVE  Follows(conn')
<1>1. conn[c] \in Sockets /\ Follows(conn)
  BY DEF ConnOK, Follows
<1>2. conn[c].at \in Nodes \cup {0}
  BY <1>1 DEF Sockets
<1>3. Like(conn[c], t) \/ (t \in Sockets /\ t.link # "open")
  BY <1>2, SocketMade
<1>4. Follows([conn EXCEPT ![c] = t])
  BY <1>1, <1>3, OneChanges
<1> QED
  BY <1>4 DEF Serves

(* The node reads a packet.                                                *)
LEMMA ReadLike ==
    ASSUME ConnOK, NEW c \in Conns, NEW p, Arrives(c, p), NEW f \in Far
    PROVE  Like(conn[c], Read(c, f))
<1>1. conn[c] \in Sockets /\ conn[c].toNode # <<>>
  BY DEF ConnOK, Arrives
<1> QED
  BY <1>1, SocketQueues DEF Read

\* Like is transitive: the node reads one packet and sends another.
LEMMA LikeLike ==
    ASSUME NEW s, NEW t, NEW u, Like(s, t), Like(t, u)
    PROVE  Like(s, u)
  BY DEF Like

(* What the node does with a connection follows the connections.           *)
LEMMA NodeFollows ==
    ASSUME ConnOK, NEW c \in Conns,
           NodeReceives(c) \/ LogoutPlayer(c) \/ \E n \in Nodes : TransferToNode(c, n)
    PROVE  Follows(conn')
<1>1. conn[c] \in Sockets
  BY DEF ConnOK
<1>2. {"new", "authed", "refused", "world", "leaving"} = Far
  BY DEF Far
<1>3. CASE HandleAuthSession(c)
  <2> DEFINE r == Read(c, "authed")
             q == Packet("SMSG_AUTH_RESPONSE", 0)
  <2>1. Like(conn[c], r)
    BY <1>3, <1>2, ReadLike DEF HandleAuthSession
  <2>2. q \in FromNode
    BY DEF Packet, FromNode
  <2>3. r \in Sockets
    BY <2>1 DEF Like
  <2>4. Serves(c, [r EXCEPT !.multi = Append(@, q)]) \/ Serves(c, Closed(conn[c].at))
    BY <1>3 DEF HandleAuthSession
  <2> HIDE DEF r, q
  <2>5. Like(r, [r EXCEPT !.multi = Append(@, q)])
    BY <2>2, <2>3, SocketQueues
  <2>6. Like(conn[c], [r EXCEPT !.multi = Append(@, q)])
    BY <2>1, <2>5, LikeLike
  <2> QED
    BY <2>4, <2>6, ServesFollows
<1>4. CASE NodePlayerLogin(c)
  <2>1. \A f \in Far : Like(conn[c], Read(c, f))
    BY <1>4, ReadLike DEF NodePlayerLogin
  <2>2. (\E f \in Far : Serves(c, Read(c, f))) \/ Serves(c, Closed(conn[c].at))
    BY <1>2, <1>4 DEF NodePlayerLogin
  <2> QED
    BY <2>1, <2>2, ServesFollows
<1>5. CASE NodeLogoutRequest(c)
  <2> DEFINE r == Read(c, "world")
             q == "SMSG_LOGOUT_RESPONSE"
  <2>1. \A f \in Far : Like(conn[c], Read(c, f))
    BY <1>5, ReadLike DEF NodeLogoutRequest
  <2>2. q \in Answer
    BY DEF Answer
  <2>3. Like(conn[c], r) /\ r \in Sockets
    BY <2>1, <1>2 DEF Like
  <2>4. \/ \E f \in Far : Serves(c, Read(c, f))
        \/ Serves(c, [r EXCEPT !.single = Append(@, q)]) \/ Serves(c, Closed(conn[c].at))
    BY <1>5, <1>2 DEF NodeLogoutRequest
  <2> HIDE DEF r, q
  <2>5. Like(r, [r EXCEPT !.single = Append(@, q)])
    BY <2>2, <2>3, SocketQueues
  <2>6. Like(conn[c], [r EXCEPT !.single = Append(@, q)])
    BY <2>3, <2>5, LikeLike
  <2> QED
    BY <2>1, <2>4, <2>6, ServesFollows
<1>6. CASE NodeLogoutCancel(c)
  <2>1. \A f \in Far : Like(conn[c], Read(c, f))
    BY <1>6, ReadLike DEF NodeLogoutCancel
  <2>2. (\E f \in Far : Serves(c, Read(c, f))) \/ Serves(c, Closed(conn[c].at))
    BY <1>6, <1>2 DEF NodeLogoutCancel
  <2> QED
    BY <2>1, <2>2, ServesFollows
<1>7. CASE LogoutPlayer(c)
  <2>1. "SMSG_LOGOUT_COMPLETE" \in Answer
    BY DEF Answer
  <2>2. Like(conn[c], [conn[c] EXCEPT !.far = "authed",
                                      !.single = Append(@, "SMSG_LOGOUT_COMPLETE")])
    BY <1>1, <2>1, SocketQueues
  <2> QED
    BY <1>7, <2>2, ServesFollows DEF LogoutPlayer
<1>8. ASSUME NEW n \in Nodes, TransferToNode(c, n)
      PROVE  Follows(conn')
  <2> DEFINE q == Packet("NODE_MISC_DATA", n)
  <2>1. q \in FromNode
    BY DEF Packet, FromNode
  <2>2. Serves(c, [conn[c] EXCEPT !.multi = Append(@, q)])
    BY <1>8 DEF TransferToNode
  <2> HIDE DEF q
  <2>3. Like(conn[c], [conn[c] EXCEPT !.multi = Append(@, q)])
    BY <1>1, <2>1, SocketQueues
  <2> QED
    BY <2>2, <2>3, ServesFollows
<1> QED
  BY <1>3, <1>4, <1>5, <1>6, <1>7, <1>8 DEF NodeReceives

(* A packet for the world thread is taken from the single queue.           *)
LEMMA SingleFollows ==
    ASSUME ConnOK, NEW p, NextSingle(p),
           \/ conn' = [conn EXCEPT ![sock].single = Tail(@)]
           \/ conn' = [conn EXCEPT ![sock].single = Tail(@), ![sock].dropped = TRUE]
    PROVE  Follows(conn')
<1> DEFINE t == [conn[sock] EXCEPT !.single = Tail(@)]
           u == [conn[sock] EXCEPT !.single = Tail(@), !.dropped = TRUE]
<1>1. sock \in Conns /\ conn[sock].single # <<>>
  BY DEF NextSingle, IsOpen, ConnOK
<1>2. conn[sock] \in Sockets /\ Follows(conn)
  BY <1>1 DEF ConnOK, Follows
<1>3. conn' = [conn EXCEPT ![sock] = t] \/ conn' = [conn EXCEPT ![sock] = u]
  BY <1>1, <1>2 DEF ConnOK
<1>4. Like(conn[sock], t) /\ Like(conn[sock], u)
  BY <1>1, <1>2, SocketQueues
<1> HIDE DEF t, u
<1>5. Follows([conn EXCEPT ![sock] = t]) /\ Follows([conn EXCEPT ![sock] = u])
  BY <1>1, <1>2, <1>4, OneChanges
<1> QED
  BY <1>3, <1>5

(* The node n is gone, and its connections are closed.                     *)
LEMMA CrashFollows ==
    ASSUME ConnOK, NEW n \in Nodes, Crash(n)
    PROVE  Follows(conn')
<1>1. \A c \in Conns : IsOpen(c) <=> c # Null /\ conn[c].link = "open"
  BY DEF IsOpen
<1>2. conn' = [c \in Conns |-> IF IsOpen(c) /\ conn[c].at = n THEN Closed(n) ELSE conn[c]]
  BY DEF Crash
<1>3. Closed(n) \in Sockets /\ Closed(n).link = "closed"
  BY SocketMade
<1> QED
  BY <1>2, <1>3 DEF Follows, ConnOK

\* An action that has nothing to do with the connections.
Elsewhere ==
    \/ Construct \/ OtherConnectToMaster \/ QueryDone \/ TimerFires \/ Tick
    \/ UpdateMulti \/ ProcessQueryCallbacks \/ KickPlayer \/ NoReconnect \/ FindMaster
    \/ CannotEnter \/ ClearReconnect \/ SetWaitForOk \/ UpdateMultiDone
    \/ UpdateSingle \/ LogoutWipe \/ LogoutZero \/ LogoutHome \/ LogoutArm \/ LoginKick
    \/ HandlePlayerLogoutRequest \/ HandleLogoutCancelOpcode
    \/ HandlePlayerLoginOpcode \/ LoginQuery
    \/ \E n \in Nodes : Restart(n) \/ SetNodeOffline(n) \/ RefreshOnlineStat(n)
                          \/ SetNodeOnline(n)

(* Only OpenNodeConnection opens a connection.                             *)
LEMMA ConnStep ==
    ASSUME ConnOK, Next
    PROVE  OpenNodeConnection \/ Follows(conn')
<1>1. Follows(conn)
  BY DEF ConnOK, Follows
<1>2. CASE Elsewhere
  <2>1. conn' = conn
    BY <1>2 DEF Elsewhere, Construct, OtherConnectToMaster, QueryDone, TimerFires, Tick,
       UpdateMulti, ProcessQueryCallbacks, KickPlayer, NoReconnect, FindMaster,
       CannotEnter, ClearReconnect, SetWaitForOk, UpdateMultiDone, UpdateSingle,
       LogoutWipe, LogoutZero, LogoutHome, LogoutArm, LoginKick, HandlePlayerLogoutRequest,
       HandleLogoutCancelOpcode, HandlePlayerLoginOpcode, LoginQuery, Restart, SetNodeOffline, RefreshOnlineStat, SetNodeOnline
  <2> QED
    BY <2>1, SameFollows
<1>3. CASE HandlePlayerLogin
  <2>1. "CMSG_PLAYER_LOGIN" \in ToNode
    BY DEF ToNode
  <2>2. conn' = conn \/ conn' = SendPacketToNode("CMSG_PLAYER_LOGIN")
    BY <1>3 DEF HandlePlayerLogin
  <2> QED
    BY <2>1, <2>2, <1>1, SendFollows
<1>4. CASE Handle_SMSG_AUTH_CHALLENGE
  <2>1. "CMSG_AUTH_SESSION" \in ToNode
    BY DEF ToNode
  <2>2. sock \in Conns /\ conn[sock].multi # <<>> /\ IsOpen(sock)
        /\ conn' = Taken(SendPacketToNode("CMSG_AUTH_SESSION"))
    BY <1>4, NextMultiOpen DEF Handle_SMSG_AUTH_CHALLENGE
  <2>3. Follows(SendPacketToNode("CMSG_AUTH_SESSION"))
        /\ SendPacketToNode("CMSG_AUTH_SESSION")[sock].multi # <<>>
    BY <2>1, <2>2, SendFollows
  <2> QED
    BY <2>2, <2>3, TakenFollows
<1>5. CASE Handle_SMSG_AUTH_RESPONSE
  <2>1. "CMSG_PLAYER_LOGIN" \in ToNode
    BY DEF ToNode
  <2>2. sock \in Conns /\ conn[sock].multi # <<>> /\ IsOpen(sock)
        /\ (conn' = Taken(SendPacketToNode("CMSG_PLAYER_LOGIN")) \/ conn' = Taken(conn))
    BY <1>5, NextMultiOpen DEF Handle_SMSG_AUTH_RESPONSE
  <2>3. Follows(SendPacketToNode("CMSG_PLAYER_LOGIN"))
        /\ SendPacketToNode("CMSG_PLAYER_LOGIN")[sock].multi # <<>>
    BY <2>1, <2>2, SendFollows
  <2>4. Follows(Taken(SendPacketToNode("CMSG_PLAYER_LOGIN")))
    BY <2>2, <2>3, TakenFollows
  <2>5. Follows(Taken(conn))
    BY <2>2, <1>1, TakenFollows
  <2> QED
    BY <2>2, <2>4, <2>5
<1>6. ASSUME NEW n \in Nodes, Handle_NODE_MISC_DATA(n)
      PROVE  Follows(conn')
  <2>1. sock \in Conns /\ conn[sock].multi # <<>>
        /\ (conn' = CloseSubSocket \/ conn' = Taken(conn))
    BY <1>6, NextMultiOpen DEF Handle_NODE_MISC_DATA
  <2>2. Follows(Taken(conn))
    BY <2>1, <1>1, TakenFollows
  <2> QED
    BY <2>1, <2>2, CloseFollows
<1>7. CASE DropNodeSocket
  <2>1. CASE sock = Null \/ IsOpen(sock)
    BY <1>7, <2>1, SameFollows DEF DropNodeSocket
  <2>2. CASE ~(sock = Null \/ IsOpen(sock))
    <3>1. conn' = [conn EXCEPT ![sock] = Free] /\ sock \in Conns
      BY <1>7, <2>2 DEF DropNodeSocket, ConnOK
    <3>2. Follows([conn EXCEPT ![sock] = Free])
      BY <3>1, <1>1, SocketMade, OneChanges
    <3> QED
      BY <3>1, <3>2
  <2> QED
    BY <2>1, <2>2
<1>8. CASE ClientLogoutRequest \/ ClientLogoutCancel
  <2>1. "CMSG_LOGOUT_REQUEST" \in ToNode /\ "CMSG_LOGOUT_CANCEL" \in ToNode
    BY DEF ToNode
  <2>2. conn' = SendPacketToNode("CMSG_LOGOUT_REQUEST")
        \/ conn' = SendPacketToNode("CMSG_LOGOUT_CANCEL")
    BY <1>8 DEF ClientLogoutRequest, ClientLogoutCancel, ClientPacket
  <2> QED
    BY <2>1, <2>2, SendFollows
<1>9. CASE Handle_SMSG_LOGOUT_RESPONSE \/ Handle_SMSG_LOGOUT_COMPLETE
  BY <1>9, SingleFollows DEF Handle_SMSG_LOGOUT_RESPONSE, Handle_SMSG_LOGOUT_COMPLETE
<1>10. CASE LogoutClose
  BY <1>10, CloseFollows DEF LogoutClose
<1> QED
  BY <1>2, <1>3, <1>4, <1>5, <1>6, <1>7, <1>8, <1>9, <1>10, NodeFollows, CrashFollows
  DEF Next, UpdaterStep, WorldStep, ClientStep, Elsewhere

(* Only OpenNodeConnection stores a _NodeSocket, only DropNodeSocket       *)
(* forgets it.                                                             *)
LEMMA SockStep ==
    ASSUME Next, ~OpenNodeConnection
    PROVE  sock' = sock \/ sock' = Null
<1> USE DEF sessVars, nodeVars
<1>1. CASE UpdaterStep
  BY <1>1 DEF UpdaterStep, UpdateMulti, HandlePlayerLogin, ProcessQueryCallbacks,
     KickPlayer, NoReconnect, FindMaster, CannotEnter, ClearReconnect, SetWaitForOk,
     Handle_SMSG_AUTH_CHALLENGE, Handle_SMSG_AUTH_RESPONSE, Handle_NODE_MISC_DATA,
     DropNodeSocket, HandlePlayerLogoutRequest, HandleLogoutCancelOpcode, UpdateMultiDone
<1>2. CASE WorldStep
  BY <1>2 DEF WorldStep, UpdateSingle, Handle_SMSG_LOGOUT_RESPONSE,
     Handle_SMSG_LOGOUT_COMPLETE, LogoutClose, LogoutWipe, LogoutZero, LogoutHome,
     LogoutArm, LoginQuery, LoginKick
<1>3. CASE ClientStep
  BY <1>3 DEF ClientStep, ClientLogoutRequest, ClientLogoutCancel, ClientPacket,
     HandlePlayerLoginOpcode
<1>4. CASE Construct \/ OtherConnectToMaster \/ QueryDone \/ TimerFires \/ Tick
  BY <1>4 DEF Construct, OtherConnectToMaster, QueryDone, TimerFires, Tick
<1>5. ASSUME NEW c \in Conns,
             NodeReceives(c) \/ LogoutPlayer(c) \/ \E n \in Nodes : TransferToNode(c, n)
      PROVE  sock' = sock
  BY <1>5 DEF NodeReceives, HandleAuthSession, NodePlayerLogin, NodeLogoutRequest,
     NodeLogoutCancel, LogoutPlayer, TransferToNode, Serves
<1>6. ASSUME NEW n \in Nodes,
             Crash(n) \/ Restart(n) \/ SetNodeOffline(n) \/ RefreshOnlineStat(n)
               \/ SetNodeOnline(n)
      PROVE  sock' = sock
  BY <1>6 DEF Crash, Restart, SetNodeOffline, RefreshOnlineStat, SetNodeOnline
<1> QED
  BY <1>1, <1>2, <1>3, <1>4, <1>5, <1>6 DEF Next

(* OpenNodeConnection opens one to _nodeId, and _NodeSocket is that one.   *)
LEMMA OpenOne ==
    ASSUME ConnOK, OpenNodeConnection, nodeId \in Nodes \cup {0}
    PROVE  /\ conn' \in [Conns -> Sockets] /\ sock' \in Conns
           /\ conn'[sock'].at = nodeId
           /\ \A c \in Conns : conn'[c].link = "open" => c = sock' \/ conn[c].link = "open"
<1> DEFINE s == Socket("open", nodeId, <<Packet("SMSG_AUTH_CHALLENGE", 0)>>)
<1>1. s \in Sockets /\ s.link = "open" /\ s.at = nodeId
  BY SocketMade
<1>2. PICK c \in Conns :
         /\ sock' = c
         /\ conn' = [d \in Conns |-> IF d = c THEN s
                                     ELSE IF d = sock /\ ~IsOpen(d) THEN Free ELSE conn[d]]
  BY DEF OpenNodeConnection
<1> HIDE DEF s
<1>3. Free \in Sockets /\ Free.link = "free"
  BY SocketMade
<1> QED
  BY <1>1, <1>2, <1>3 DEF ConnOK

-----------------------------------------------------------------------------
(* The session.                                                            *)

Flag == {"RECONNECT", "WAIT_FOR_OK", "LOGOUT_REQUEST", "FORCE_TELEPORT", "KICKED"}

\* What the type invariant says of the rest.
SessOK ==
    /\ online \subseteq Nodes /\ enter \subseteq Nodes /\ up \subseteq Nodes
    /\ onMaster \in BOOLEAN
    /\ nodeId \in Nodes \cup {0} /\ flags \subseteq Flag
    /\ player \in {"none", "loaded"} /\ login \in {"none", "pending", "ready"}
    /\ timer \in {"running", "due"} /\ lastAction \in Nat /\ now \in Nat
    /\ upc \in {"unborn", "top", "callback", "kick", "reconnect", "opened", "wait", "io",
                "client", "logout", "cancel", "exit"}
    /\ wpc \in {"unborn", "idle", "close", "wipe", "zero", "home", "arm", "query", "kick",
                "exit"}
    /\ used \in [Counted -> Nat]

(* The type invariant has these two parts.                                 *)
LEMMA TypeParts == TypeOK <=> SessOK /\ ConnOK
  BY DEF TypeOK, SessOK, ConnOK, Sockets, FromNode, Answer, ToNode, Far, Flag

(* RoutingHelper::ConnectToMaster names a node of the list, or none.       *)
LEMMA MasterIsNode ==
    ASSUME SessOK
    PROVE  ConnectToMaster \in Nodes \cup {0} /\ OnMasterAfter \in BOOLEAN
<1>1. ConnectToMaster \in Nodes \cup {0}
  BY DEF ConnectToMaster, CheckNodeID, SessOK
<1>2. OnMasterAfter \in BOOLEAN
  <2>1. CASE ~CheckNodeID(1) /\ CheckNodeID(Substitute)
    BY <2>1 DEF OnMasterAfter
  <2>2. CASE ~(~CheckNodeID(1) /\ CheckNodeID(Substitute))
    BY <2>2 DEF OnMasterAfter, SessOK
  <2> QED
    BY <2>1, <2>2
<1> QED
  BY <1>1, <1>2

\* Nothing that is used up comes back.
Grown == used' \in [Counted -> Nat] /\ \A b \in Counted : used'[b] >= used[b]

(* What a step uses up is counted.                                         *)
LEMMA UseGrows ==
    ASSUME SessOK
    PROVE  /\ \A b \in Counted : Use(b) => Grown /\ used'[b] # 0
           /\ used' = used => Grown
<1>1. used \in [Counted -> Nat]
  BY DEF SessOK
<1>2. ASSUME NEW b \in Counted, Use(b)
      PROVE  Grown /\ used'[b] # 0
  BY <1>1, <1>2 DEF Use, Grown
<1>3. used' = used => Grown
  BY <1>1 DEF Grown
<1> QED
  BY <1>2, <1>3

(* The bounds that a step uses up are counted up.                          *)
LEMMA UsedStep ==
    ASSUME SessOK, Next
    PROVE  Grown
<1>1. {"fault", "transfer", "login", "logout", "cancel", "kick", "refuse"} = Counted
  BY DEF Counted
<1>2. used' = used \/ \E b \in Counted : Use(b)
  <2>1. CASE UpdaterStep
    BY <2>1, <1>1 DEF UpdaterStep, envVars, UpdateMulti, HandlePlayerLogin,
     ProcessQueryCallbacks, KickPlayer, NoReconnect, FindMaster, CannotEnter,
     OpenNodeConnection, ClearReconnect, SetWaitForOk, Handle_SMSG_AUTH_CHALLENGE,
     Handle_SMSG_AUTH_RESPONSE, Handle_NODE_MISC_DATA, DropNodeSocket,
     HandlePlayerLogoutRequest, HandleLogoutCancelOpcode, UpdateMultiDone
  <2>2. CASE WorldStep
    BY <2>2, <1>1 DEF WorldStep, envVars, NextSingle, UpdateSingle,
     Handle_SMSG_LOGOUT_RESPONSE, Handle_SMSG_LOGOUT_COMPLETE, LogoutClose, LogoutWipe,
     LogoutZero, LogoutHome, LogoutArm, LoginQuery, LoginKick
  <2>3. CASE ClientStep
    BY <2>3, <1>1 DEF ClientStep, envVars, ClientLogoutRequest, ClientLogoutCancel,
     ClientPacket, HandlePlayerLoginOpcode
  <2>4. CASE Construct \/ OtherConnectToMaster \/ QueryDone \/ TimerFires \/ Tick
    BY <2>4, <1>1 DEF Construct, OtherConnectToMaster, QueryDone, TimerFires, Tick, envVars
  <2>5. ASSUME NEW c \in Conns,
               NodeReceives(c) \/ LogoutPlayer(c) \/ \E n \in Nodes : TransferToNode(c, n)
        PROVE  used' = used \/ \E b \in Counted : Use(b)
    BY <2>5, <1>1 DEF NodeReceives, HandleAuthSession, NodePlayerLogin, NodeLogoutRequest,
       NodeLogoutCancel, LogoutPlayer, TransferToNode
  <2>6. ASSUME NEW n \in Nodes,
               Crash(n) \/ Restart(n) \/ SetNodeOffline(n) \/ RefreshOnlineStat(n)
                 \/ SetNodeOnline(n)
        PROVE  used' = used \/ \E b \in Counted : Use(b)
    BY <2>6, <1>1 DEF Crash, Restart, SetNodeOffline, RefreshOnlineStat, SetNodeOnline,
       envVars
  <2> QED
    BY <2>1, <2>2, <2>3, <2>4, <2>5, <2>6 DEF Next
<1> QED
  BY <1>2, UseGrows

(* Every step leaves the session and the node list well typed.             *)
LEMMA SessStep ==
    ASSUME SessOK, Next
    PROVE  SessOK'
<1> USE DEF SessOK
<1>0. used' \in [Counted -> Nat]
  BY UsedStep DEF Grown
<1>1. CASE Construct
    BY <1>1, <1>0, MasterIsNode DEF Flag, Construct, routeVars, nodeVars, userVars,
     sessVars, envVars
<1>2. CASE OtherConnectToMaster
    BY <1>2, <1>0, MasterIsNode DEF Flag, OtherConnectToMaster, routeVars, nodeVars,
     userVars, sessVars, envVars
<1>3. CASE UpdateMulti
  BY <1>3, <1>0 DEF Flag, UpdateMulti, routeVars, nodeVars, userVars, sessVars, envVars
<1>4. CASE HandlePlayerLogin
    BY <1>4, <1>0 DEF HandlePlayerLogin, routeVars, nodeVars, userVars, sessVars,
     envVars, Flag
<1>5. CASE ProcessQueryCallbacks
    BY <1>5, <1>0 DEF Flag, ProcessQueryCallbacks, routeVars, nodeVars, userVars,
     sessVars, envVars
<1>6. CASE KickPlayer
  BY <1>6, <1>0 DEF KickPlayer, routeVars, nodeVars, userVars, sessVars, envVars, Flag
<1>7. CASE NoReconnect
  BY <1>7, <1>0 DEF Flag, NoReconnect, routeVars, nodeVars, userVars, sessVars, envVars
<1>8. CASE FindMaster
    BY <1>8, <1>0, MasterIsNode DEF Flag, FindMaster, routeVars, nodeVars, userVars,
     sessVars, envVars
<1>9. CASE CannotEnter
  BY <1>9, <1>0 DEF Flag, CannotEnter, routeVars, nodeVars, userVars, sessVars, envVars
<1>10. CASE OpenNodeConnection
    BY <1>10, <1>0 DEF Flag, OpenNodeConnection, routeVars, nodeVars, userVars,
     sessVars, envVars
<1>11. CASE ClearReconnect
    BY <1>11, <1>0 DEF Flag, ClearReconnect, routeVars, nodeVars, userVars, sessVars,
     envVars
<1>12. CASE SetWaitForOk
    BY <1>12, <1>0 DEF Flag, SetWaitForOk, routeVars, nodeVars, userVars, sessVars,
     envVars
<1>13. CASE Handle_SMSG_AUTH_CHALLENGE
    BY <1>13, <1>0 DEF Flag, Handle_SMSG_AUTH_CHALLENGE, routeVars, nodeVars, userVars,
     sessVars, envVars
<1>14. CASE Handle_SMSG_AUTH_RESPONSE
    BY <1>14, <1>0 DEF Flag, Handle_SMSG_AUTH_RESPONSE, routeVars, nodeVars, userVars,
     sessVars, envVars
<1>15. ASSUME NEW n \in Nodes, Handle_NODE_MISC_DATA(n)
      PROVE  SessOK'
  <2>1. /\ nodeId' \in {n, nodeId} /\ timer' \in {"running", timer}
        /\ flags' \in {flags, flags \cup {"RECONNECT"}}
        /\ UNCHANGED <<routeVars, sock, userVars, upc, wpc, envVars>>
    BY <1>15 DEF Handle_NODE_MISC_DATA
  <2>2. nodeId' \in Nodes \cup {0} /\ flags' \subseteq Flag /\ timer' \in {"running", "due"}
    BY <2>1 DEF Flag
  <2> QED
    BY <1>0, <2>1, <2>2 DEF routeVars, userVars, envVars
<1>16. CASE DropNodeSocket
    BY <1>16, <1>0 DEF Flag, DropFlags, DropNodeSocket, routeVars, nodeVars, userVars,
     sessVars, envVars
<1>17. CASE UpdateMultiDone
    BY <1>17, <1>0 DEF Flag, UpdateMultiDone, routeVars, nodeVars, userVars, sessVars,
     envVars
<1>18. CASE UpdateSingle
    BY <1>18, <1>0 DEF Flag, UpdateSingle, routeVars, nodeVars, userVars, sessVars,
     envVars
<1>19. CASE Handle_SMSG_LOGOUT_RESPONSE
    BY <1>19, <1>0 DEF Flag, NextSingle, Handle_SMSG_LOGOUT_RESPONSE, routeVars,
     nodeVars, userVars, sessVars, envVars
<1>20. CASE Handle_SMSG_LOGOUT_COMPLETE
    BY <1>20, <1>0, MasterIsNode DEF Flag, NextSingle, Handle_SMSG_LOGOUT_COMPLETE,
     routeVars, nodeVars, userVars, sessVars, envVars
<1>21. CASE LogoutClose
  BY <1>21, <1>0 DEF Flag, LogoutClose, routeVars, nodeVars, userVars, sessVars, envVars
<1>22. CASE LogoutWipe
  BY <1>22, <1>0 DEF Flag, LogoutWipe, routeVars, nodeVars, userVars, sessVars, envVars
<1>23. CASE LogoutZero
  BY <1>23, <1>0 DEF Flag, LogoutZero, routeVars, nodeVars, userVars, sessVars, envVars
<1>24. CASE LogoutHome
    BY <1>24, <1>0, MasterIsNode DEF Flag, LogoutHome, routeVars, nodeVars, userVars,
     sessVars, envVars
<1>25. CASE LogoutArm
  BY <1>25, <1>0 DEF Flag, LogoutArm, routeVars, nodeVars, userVars, sessVars, envVars
<1>26. CASE LoginKick
  BY <1>26, <1>0 DEF Flag, LoginKick, routeVars, nodeVars, userVars, sessVars, envVars
<1>27. CASE HandlePlayerLogoutRequest
    BY <1>27, <1>0 DEF Flag, HandlePlayerLogoutRequest, routeVars, nodeVars, userVars,
     sessVars, envVars
<1>28. CASE HandleLogoutCancelOpcode
    BY <1>28, <1>0 DEF Flag, HandleLogoutCancelOpcode, routeVars, nodeVars, userVars,
     sessVars, envVars
<1>29. CASE HandlePlayerLoginOpcode
    BY <1>29, <1>0 DEF Flag, HandlePlayerLoginOpcode, routeVars, nodeVars, userVars,
     sessVars, envVars
<1>30. CASE QueryDone
  BY <1>30, <1>0 DEF Flag, QueryDone, routeVars, nodeVars, userVars, sessVars, envVars
<1>31. CASE TimerFires
  BY <1>31, <1>0 DEF Flag, TimerFires, routeVars, nodeVars, userVars, sessVars, envVars
<1>32. CASE Tick
  BY <1>32, <1>0 DEF Flag, Tick, routeVars, nodeVars, userVars, sessVars, envVars
<1>33. ASSUME NEW c \in Conns,
              NodeReceives(c) \/ LogoutPlayer(c) \/ \E n \in Nodes : TransferToNode(c, n)
       PROVE  SessOK'
  BY <1>33, <1>0 DEF NodeReceives, HandleAuthSession, NodePlayerLogin, NodeLogoutRequest,
     NodeLogoutCancel, LogoutPlayer, TransferToNode, Serves, routeVars,
     nodeVars, userVars, sessVars, envVars
<1>34. ASSUME NEW n \in Nodes,
              Crash(n) \/ Restart(n) \/ SetNodeOffline(n) \/ RefreshOnlineStat(n)
                \/ SetNodeOnline(n)
       PROVE  SessOK'
  BY <1>34, <1>0 DEF Crash, Restart, SetNodeOffline, RefreshOnlineStat, SetNodeOnline,
     routeVars, nodeVars, userVars, sessVars, envVars
<1>35. CASE LoginQuery
  <2>1. /\ flags' \subseteq Flag /\ login' \in {login, "pending"} /\ wpc' \in {"idle", "kick"}
        /\ used' = used \/ Use("kick")
        /\ UNCHANGED <<routeVars, nodeVars, player, lastAction, upc, conn, up, now>>
    BY <1>35 DEF LoginQuery, Flag
  <2>2. used' \in [Counted -> Nat]  BY <2>1, <1>0
  <2> QED  BY <2>1, <2>2 DEF routeVars, nodeVars
<1>36. CASE ClientLogoutRequest
  BY <1>36, <1>0 DEF Flag, ClientLogoutRequest, ClientPacket, routeVars, nodeVars,
     userVars, sessVars, envVars
<1>37. CASE ClientLogoutCancel
  BY <1>37, <1>0 DEF Flag, ClientLogoutCancel, ClientPacket, routeVars, nodeVars,
     userVars, sessVars, envVars
<1> QED
  BY <1>1, <1>2, <1>3, <1>4, <1>5, <1>6, <1>7, <1>8, <1>9, <1>10, <1>11, <1>12, <1>13,
     <1>14, <1>15, <1>16, <1>17, <1>18, <1>19, <1>20, <1>21, <1>22, <1>23, <1>24, <1>25,
     <1>26, <1>27, <1>28, <1>29, <1>30, <1>31, <1>32, <1>33, <1>34, <1>35, <1>36, <1>37
  DEF Next, UpdaterStep, WorldStep, ClientStep

-----------------------------------------------------------------------------
(* One connection, to the right node.  As long as nobody has logged out    *)
(* the world thread leaves the node connection alone, and the updater      *)
(* thread opens one only when it has closed the last one: between          *)
(* OpenNodeConnection and ClearReconnect alone does an open connection go  *)
(* with FLAG_ACCOUNT_RECONNECT.                                            *)

AloneInv ==
    NoLogout =>
        /\ "LOGOUT_REQUEST" \notin flags
        /\ wpc \in {"unborn", "idle", "query", "kick", "exit"} /\ upc # "logout"
        /\ upc = "unborn" => sock = Null
        /\ \A c \in Conns : conn[c].link = "open" => c = sock /\ conn[c].at = nodeId
        /\ "RECONNECT" \in flags /\ upc # "opened" =>
             sock = Null \/ conn[sock].link # "open"

(* Every step keeps the session alone with its one connection.             *)
LEMMA AloneStep ==
    ASSUME SessOK, ConnOK, AloneInv, Next
    PROVE  AloneInv'
<1>0. SUFFICES ASSUME NoLogout' PROVE AloneInv'
  BY DEF AloneInv
<1>1. NoLogout
  <2>1. used["logout"] \in Nat /\ used'["logout"] >= used["logout"]
    BY UsedStep DEF Grown, SessOK, Counted
  <2> QED
    BY <2>1, <1>0 DEF NoLogout
<1>2. ~Use("logout")
  BY <1>0, UseGrows DEF NoLogout, Counted
<1>3. \A c \in Conns : c # Null
  BY RoutingAssumption DEF Conns, Null
<1>4. CASE OpenNodeConnection
  <2>1. /\ sock' \in Conns /\ conn'[sock'].at = nodeId
        /\ \A c \in Conns : conn'[c].link = "open" => c = sock' \/ conn[c].link = "open"
    BY <1>4, OpenOne DEF SessOK
  <2>2. /\ upc = "reconnect" /\ upc' = "opened" /\ "RECONNECT" \in flags
        /\ UNCHANGED <<flags, wpc, nodeId>>
    BY <1>4 DEF OpenNodeConnection, ReconnectDue, userVars
  <2>3. \A c \in Conns : conn[c].link # "open"
    BY <2>2, <1>1, <1>3 DEF AloneInv
  <2> QED
    BY <2>1, <2>2, <2>3, <1>1 DEF AloneInv
<1>5. CASE Follows(conn')
  <2> USE DEF AloneInv
  <2>1. /\ \A c \in Conns :
             conn'[c].link = "open" => conn[c].link = "open" /\ conn'[c].at = conn[c].at
        /\ sock = Null \/ conn[sock].link # "open" =>
             sock = Null \/ conn'[sock].link # "open"
    BY <1>5 DEF Follows, ConnOK
  <2>2. CASE Construct
    BY <2>2, <1>1, <1>2, <1>3, <2>1 DEF Construct, routeVars, nodeVars, userVars,
       sessVars, envVars
  <2>3. CASE OtherConnectToMaster
    BY <2>3, <1>1, <1>2, <1>3, <2>1 DEF OtherConnectToMaster, routeVars, nodeVars,
       userVars, sessVars, envVars
  <2>4. CASE UpdateMulti
    BY <2>4, <1>1, <1>2, <1>3, <2>1 DEF UpdateMulti, routeVars, nodeVars, userVars,
       sessVars, envVars
  <2>5. CASE HandlePlayerLogin
    BY <2>5, <1>1, <1>2, <1>3, <2>1 DEF HandlePlayerLogin, routeVars, nodeVars,
       userVars, sessVars, envVars
  <2>6. CASE ProcessQueryCallbacks
    BY <2>6, <1>1, <1>2, <1>3, <2>1 DEF ProcessQueryCallbacks, routeVars, nodeVars,
       userVars, sessVars, envVars
  <2>7. CASE KickPlayer
    BY <2>7, <1>1, <1>2, <1>3, <2>1 DEF KickPlayer, routeVars, nodeVars, userVars,
       sessVars, envVars
  <2>8. CASE NoReconnect
    BY <2>8, <1>1, <1>2, <1>3, <2>1 DEF NoReconnect, routeVars, nodeVars, userVars,
       sessVars, envVars, ReconnectDue
  <2>9. CASE FindMaster
    BY <2>9, <1>1, <1>2, <1>3, <2>1 DEF FindMaster, routeVars, nodeVars, userVars,
       sessVars, envVars, ReconnectDue
  <2>10. CASE CannotEnter
    BY <2>10, <1>1, <1>2, <1>3, <2>1 DEF CannotEnter, routeVars, nodeVars, userVars,
       sessVars, envVars
  <2>12. CASE ClearReconnect
    BY <2>12, <1>1, <1>2, <1>3, <2>1 DEF ClearReconnect, routeVars, nodeVars, userVars,
       sessVars, envVars
  <2>13. CASE SetWaitForOk
    BY <2>13, <1>1, <1>2, <1>3, <2>1 DEF SetWaitForOk, routeVars, nodeVars, userVars,
       sessVars, envVars
  <2>14. CASE Handle_SMSG_AUTH_CHALLENGE
    BY <2>14, <1>1, <1>2, <1>3, <2>1 DEF Handle_SMSG_AUTH_CHALLENGE, routeVars,
       nodeVars, userVars, sessVars, envVars
  <2>15. CASE Handle_SMSG_AUTH_RESPONSE
    BY <2>15, <1>1, <1>2, <1>3, <2>1 DEF Handle_SMSG_AUTH_RESPONSE, routeVars, nodeVars,
       userVars, sessVars, envVars
  <2>16. ASSUME NEW n \in Nodes, Handle_NODE_MISC_DATA(n)
        PROVE  AloneInv'
    <3>1. sock \in Conns
      BY <2>16, NextMultiOpen DEF Handle_NODE_MISC_DATA
    <3>2. CASE conn' = CloseSubSocket
      BY <3>1, <3>2, <2>16, <1>1, <1>3, <2>1, CloseFollows DEF Handle_NODE_MISC_DATA,
         routeVars,
         userVars, envVars
    <3>3. CASE UNCHANGED <<nodeId, flags>>
      BY <3>3, <2>16, <1>1, <1>3, <2>1 DEF Handle_NODE_MISC_DATA
    <3> QED
      BY <3>2, <3>3, <2>16 DEF Handle_NODE_MISC_DATA
  <2>17. CASE DropNodeSocket
    BY <2>17, <1>1, <1>2, <1>3, <2>1 DEF DropNodeSocket, routeVars, nodeVars, userVars,
       sessVars, envVars, IsOpen, DropFlags, ConnOK
  <2>18. CASE UpdateMultiDone
    BY <2>18, <1>1, <1>2, <1>3, <2>1 DEF UpdateMultiDone, routeVars, nodeVars, userVars,
       sessVars, envVars
  <2>19. CASE UpdateSingle
    BY <2>19, <1>1, <1>2, <1>3, <2>1 DEF UpdateSingle, routeVars, nodeVars, userVars,
       sessVars, envVars
  <2>20. CASE Handle_SMSG_LOGOUT_RESPONSE
    BY <2>20, <1>1, <1>2, <1>3, <2>1 DEF Handle_SMSG_LOGOUT_RESPONSE, routeVars,
       nodeVars, userVars, sessVars, envVars, NextSingle
  <2>21. CASE Handle_SMSG_LOGOUT_COMPLETE
    BY <2>21, <1>1, <1>2, <1>3, <2>1 DEF Handle_SMSG_LOGOUT_COMPLETE, routeVars,
       nodeVars, userVars, sessVars, envVars, NextSingle
  <2>22. CASE LogoutClose
    BY <2>22, <1>1, <1>2, <1>3, <2>1 DEF LogoutClose, routeVars, nodeVars, userVars,
       sessVars, envVars
  <2>23. CASE LogoutWipe
    BY <2>23, <1>1, <1>2, <1>3, <2>1 DEF LogoutWipe, routeVars, nodeVars, userVars,
       sessVars, envVars
  <2>24. CASE LogoutZero
    BY <2>24, <1>1, <1>2, <1>3, <2>1 DEF LogoutZero, routeVars, nodeVars, userVars,
       sessVars, envVars
  <2>25. CASE LogoutHome
    BY <2>25, <1>1, <1>2, <1>3, <2>1 DEF LogoutHome, routeVars, nodeVars, userVars,
       sessVars, envVars
  <2>26. CASE LogoutArm
    BY <2>26, <1>1, <1>2, <1>3, <2>1 DEF LogoutArm, routeVars, nodeVars, userVars,
       sessVars, envVars
  <2>27. CASE LoginKick
    BY <2>27, <1>1, <1>2, <1>3, <2>1 DEF LoginKick, routeVars, nodeVars, userVars,
       sessVars, envVars
  <2>28. CASE HandlePlayerLogoutRequest
    BY <2>28, <1>1, <1>2, <1>3, <2>1 DEF HandlePlayerLogoutRequest, routeVars, nodeVars,
       userVars, sessVars, envVars
  <2>29. CASE HandleLogoutCancelOpcode
    BY <2>29, <1>1, <1>2, <1>3, <2>1 DEF HandleLogoutCancelOpcode, routeVars, nodeVars,
       userVars, sessVars, envVars
  <2>30. CASE HandlePlayerLoginOpcode
    BY <2>30, <1>1, <1>2, <1>3, <2>1 DEF HandlePlayerLoginOpcode, routeVars, nodeVars,
       userVars, sessVars, envVars
  <2>31. CASE QueryDone
    BY <2>31, <1>1, <1>2, <1>3, <2>1 DEF QueryDone, routeVars, nodeVars, userVars,
       sessVars, envVars
  <2>32. CASE TimerFires
    BY <2>32, <1>1, <1>2, <1>3, <2>1 DEF TimerFires, routeVars, nodeVars, userVars,
       sessVars, envVars
  <2>33. CASE Tick
    BY <2>33, <1>1, <1>2, <1>3, <2>1 DEF Tick, routeVars, nodeVars, userVars, sessVars,
       envVars
  <2>34. ASSUME NEW c \in Conns,
                NodeReceives(c) \/ LogoutPlayer(c) \/ \E n \in Nodes : TransferToNode(c, n)
         PROVE  AloneInv'
    BY <2>34, <1>1, <2>1 DEF NodeReceives, HandleAuthSession, NodePlayerLogin,
       NodeLogoutRequest, NodeLogoutCancel, LogoutPlayer, TransferToNode, Serves,
       routeVars, nodeVars, userVars, sessVars, envVars
  <2>35. ASSUME NEW n \in Nodes,
                Crash(n) \/ Restart(n) \/ SetNodeOffline(n) \/ RefreshOnlineStat(n)
                  \/ SetNodeOnline(n)
         PROVE  AloneInv'
    BY <2>35, <1>1, <2>1 DEF Crash, Restart, SetNodeOffline, RefreshOnlineStat,
       SetNodeOnline, routeVars, nodeVars, userVars, sessVars, envVars
  <2>36. CASE LoginQuery
    BY <2>36, <1>1, <1>2, <1>3, <2>1 DEF LoginQuery, routeVars, nodeVars,
       userVars, sessVars, envVars
  <2>37. CASE ClientLogoutRequest
    BY <2>37, <1>1, <1>2, <1>3, <2>1 DEF ClientLogoutRequest, ClientPacket, routeVars, nodeVars,
       userVars, sessVars, envVars
  <2>38. CASE ClientLogoutCancel
    BY <2>38, <1>1, <1>2, <1>3, <2>1 DEF ClientLogoutCancel, ClientPacket, routeVars, nodeVars,
       userVars, sessVars, envVars
  <2> QED
    BY <1>4, <2>2, <2>3, <2>4, <2>5, <2>6, <2>7, <2>8, <2>9, <2>10, <2>12, <2>13, <2>14,
       <2>15, <2>16, <2>17, <2>18, <2>19, <2>20, <2>21, <2>22, <2>23, <2>24, <2>25, <2>26,
       <2>27, <2>28, <2>29, <2>30, <2>31, <2>32, <2>33, <2>34, <2>35, <2>36, <2>37, <2>38
    DEF Next, UpdaterStep, WorldStep, ClientStep
<1> QED
  BY <1>4, <1>5, ConnStep

-----------------------------------------------------------------------------
(* The reconnect is armed.  A session loses _NodeSocket only where it sets *)
(* FLAG_ACCOUNT_RECONNECT.  The logout of the world thread wipes all flags *)
(* but sets this one again before it is done; the updater thread clears it *)
(* only after it has stored a new _NodeSocket.                             *)

ArmedInv ==
    /\ lastAction <= now
    /\ upc = "unborn" <=> wpc = "unborn"
    /\ used["kick"] = 0 =>
         /\ "KICKED" \notin flags
         /\ upc \notin {"kick", "exit"} /\ wpc \notin {"kick", "exit"}
         /\ upc \in {"opened", "wait"} => sock # Null
         /\ sock = Null /\ upc # "unborn" =>
              "RECONNECT" \in flags \/ wpc \in {"zero", "home", "arm"}

(* Every step keeps it armed.                                              *)
LEMMA ArmedStep ==
    ASSUME SessOK, ConnOK, ArmedInv, Next
    PROVE  ArmedInv'
<1> USE DEF ArmedInv
<1>0. /\ lastAction \in Nat /\ now \in Nat /\ Timeout \in Nat
      /\ used'["kick"] = 0 => used["kick"] = 0
      /\ Use("kick") => used'["kick"] # 0
      /\ \A c \in Conns : c # Null
  <2>1. used["kick"] \in Nat /\ used'["kick"] >= used["kick"]
    BY UsedStep DEF Grown, SessOK, Counted
  <2>2. Use("kick") => used'["kick"] # 0
    BY UseGrows DEF Counted
  <2> QED
    BY <2>1, <2>2, RoutingAssumption DEF SessOK, Conns, Null
<1>1. CASE Construct
  BY <1>1, <1>0 DEF Construct, routeVars, nodeVars, userVars, sessVars, envVars
<1>2. CASE OtherConnectToMaster
    BY <1>2, <1>0 DEF OtherConnectToMaster, routeVars, nodeVars, userVars, sessVars,
     envVars
<1>3. CASE UpdateMulti
  BY <1>3, <1>0 DEF UpdateMulti, routeVars, nodeVars, userVars, sessVars, envVars
<1>4. CASE HandlePlayerLogin
  BY <1>4, <1>0 DEF HandlePlayerLogin, routeVars, nodeVars, userVars, sessVars, envVars
<1>5. CASE ProcessQueryCallbacks
    BY <1>5, <1>0 DEF ProcessQueryCallbacks, routeVars, nodeVars, userVars, sessVars,
     envVars
<1>6. CASE KickPlayer
  BY <1>6, <1>0 DEF KickPlayer, routeVars, nodeVars, userVars, sessVars, envVars
<1>7. CASE NoReconnect
  BY <1>7, <1>0 DEF NoReconnect, routeVars, nodeVars, userVars, sessVars, envVars
<1>8. CASE FindMaster
  BY <1>8, <1>0 DEF FindMaster, routeVars, nodeVars, userVars, sessVars, envVars
<1>9. CASE CannotEnter
  BY <1>9, <1>0 DEF CannotEnter, routeVars, nodeVars, userVars, sessVars, envVars
<1>10. CASE OpenNodeConnection
    BY <1>10, <1>0 DEF OpenNodeConnection, routeVars, nodeVars, userVars, sessVars,
     envVars
<1>11. CASE ClearReconnect
  BY <1>11, <1>0 DEF ClearReconnect, routeVars, nodeVars, userVars, sessVars, envVars
<1>12. CASE SetWaitForOk
  BY <1>12, <1>0 DEF SetWaitForOk, routeVars, nodeVars, userVars, sessVars, envVars
<1>13. CASE Handle_SMSG_AUTH_CHALLENGE
    BY <1>13, <1>0 DEF Handle_SMSG_AUTH_CHALLENGE, routeVars, nodeVars, userVars,
     sessVars, envVars
<1>14. CASE Handle_SMSG_AUTH_RESPONSE
    BY <1>14, <1>0 DEF Handle_SMSG_AUTH_RESPONSE, routeVars, nodeVars, userVars,
     sessVars, envVars
<1>15. ASSUME NEW n \in Nodes, Handle_NODE_MISC_DATA(n)
      PROVE  ArmedInv'
    BY <1>15, <1>0 DEF Handle_NODE_MISC_DATA, routeVars, nodeVars, userVars, sessVars,
     envVars
<1>16. CASE DropNodeSocket
    BY <1>16, <1>0 DEF DropNodeSocket, routeVars, nodeVars, userVars, sessVars, envVars,
     DropFlags
<1>17. CASE UpdateMultiDone
  BY <1>17, <1>0 DEF UpdateMultiDone, routeVars, nodeVars, userVars, sessVars, envVars
<1>18. CASE UpdateSingle
  BY <1>18, <1>0 DEF UpdateSingle, routeVars, nodeVars, userVars, sessVars, envVars
<1>19. CASE Handle_SMSG_LOGOUT_RESPONSE
    BY <1>19, <1>0 DEF Handle_SMSG_LOGOUT_RESPONSE, routeVars, nodeVars, userVars,
     sessVars, envVars, NextSingle
<1>20. CASE Handle_SMSG_LOGOUT_COMPLETE
    BY <1>20, <1>0 DEF Handle_SMSG_LOGOUT_COMPLETE, routeVars, nodeVars, userVars,
     sessVars, envVars, NextSingle
<1>21. CASE LogoutClose
  BY <1>21, <1>0 DEF LogoutClose, routeVars, nodeVars, userVars, sessVars, envVars
<1>22. CASE LogoutWipe
  BY <1>22, <1>0 DEF LogoutWipe, routeVars, nodeVars, userVars, sessVars, envVars
<1>23. CASE LogoutZero
  BY <1>23, <1>0 DEF LogoutZero, routeVars, nodeVars, userVars, sessVars, envVars
<1>24. CASE LogoutHome
  BY <1>24, <1>0 DEF LogoutHome, routeVars, nodeVars, userVars, sessVars, envVars
<1>25. CASE LogoutArm
  BY <1>25, <1>0 DEF LogoutArm, routeVars, nodeVars, userVars, sessVars, envVars
<1>26. CASE LoginKick
  BY <1>26, <1>0 DEF LoginKick, routeVars, nodeVars, userVars, sessVars, envVars
<1>27. CASE HandlePlayerLogoutRequest
    BY <1>27, <1>0 DEF HandlePlayerLogoutRequest, routeVars, nodeVars, userVars,
     sessVars, envVars
<1>28. CASE HandleLogoutCancelOpcode
    BY <1>28, <1>0 DEF HandleLogoutCancelOpcode, routeVars, nodeVars, userVars,
     sessVars, envVars
<1>29. CASE HandlePlayerLoginOpcode
    BY <1>29, <1>0 DEF HandlePlayerLoginOpcode, routeVars, nodeVars, userVars, sessVars,
     envVars
<1>30. CASE QueryDone
  BY <1>30, <1>0 DEF QueryDone, routeVars, nodeVars, userVars, sessVars, envVars
<1>31. CASE TimerFires
  BY <1>31, <1>0 DEF TimerFires, routeVars, nodeVars, userVars, sessVars, envVars
<1>32. CASE Tick
  BY <1>32, <1>0 DEF Tick, routeVars, nodeVars, userVars, sessVars, envVars
<1>33. ASSUME NEW c \in Conns,
              NodeReceives(c) \/ LogoutPlayer(c) \/ \E n \in Nodes : TransferToNode(c, n)
       PROVE  ArmedInv'
  BY <1>33, <1>0 DEF NodeReceives, HandleAuthSession, NodePlayerLogin, NodeLogoutRequest,
     NodeLogoutCancel, LogoutPlayer, TransferToNode, Serves, routeVars,
     nodeVars, userVars, sessVars, envVars
<1>34. ASSUME NEW n \in Nodes,
              Crash(n) \/ Restart(n) \/ SetNodeOffline(n) \/ RefreshOnlineStat(n)
                \/ SetNodeOnline(n)
       PROVE  ArmedInv'
  BY <1>34, <1>0 DEF Crash, Restart, SetNodeOffline, RefreshOnlineStat, SetNodeOnline,
     routeVars, nodeVars, userVars, sessVars, envVars
<1>35. CASE LoginQuery
  BY <1>35, <1>0 DEF LoginQuery, routeVars, nodeVars,
     userVars, sessVars, envVars
<1>36. CASE ClientLogoutRequest
  BY <1>36, <1>0 DEF ClientLogoutRequest, ClientPacket, routeVars, nodeVars,
     userVars, sessVars, envVars
<1>37. CASE ClientLogoutCancel
  BY <1>37, <1>0 DEF ClientLogoutCancel, ClientPacket, routeVars, nodeVars,
     userVars, sessVars, envVars
<1> QED
  BY <1>1, <1>2, <1>3, <1>4, <1>5, <1>6, <1>7, <1>8, <1>9, <1>10, <1>11, <1>12, <1>13,
     <1>14, <1>15, <1>16, <1>17, <1>18, <1>19, <1>20, <1>21, <1>22, <1>23, <1>24, <1>25,
     <1>26, <1>27, <1>28, <1>29, <1>30, <1>31, <1>32, <1>33, <1>34, <1>35, <1>36, <1>37
  DEF Next, UpdaterStep, WorldStep, ClientStep

-----------------------------------------------------------------------------

RoutingInv == SessOK /\ ConnOK /\ AloneInv /\ ArmedInv

(* The inductive invariant of the session.                                 *)
THEOREM RoutingCorrect == Spec => []RoutingInv
<1>1. Init => RoutingInv
  <2> SUFFICES ASSUME Init PROVE RoutingInv
    OBVIOUS
  <2> USE DEF Init
  <2>1. SessOK
    BY DEF SessOK, Flag
  <2>2. ConnOK
    BY SocketMade DEF ConnOK
  <2>3. AloneInv
    BY SocketMade DEF AloneInv
  <2>4. ArmedInv
    BY DEF ArmedInv
  <2> QED
    BY <2>1, <2>2, <2>3, <2>4 DEF RoutingInv
<1>2. RoutingInv /\ [Next]_vars => RoutingInv'
  <2> SUFFICES ASSUME RoutingInv, [Next]_vars PROVE RoutingInv'
    OBVIOUS
  <2>1. CASE Next
    <3>1. SessOK' /\ AloneInv' /\ ArmedInv'
      BY <2>1, SessStep, AloneStep, ArmedStep DEF RoutingInv
    <3>2. conn' \in [Conns -> Sockets]
      BY <2>1, ConnStep, OpenOne DEF RoutingInv, SessOK, Follows
    <3>3. sock' \in Conns \cup {Null}
      <4>1. CASE OpenNodeConnection
        BY <4>1, OpenOne DEF RoutingInv, SessOK
      <4>2. CASE ~OpenNodeConnection
        <5>1. sock' = sock \/ sock' = Null
          BY <2>1, <4>2, SockStep
        <5> QED
          BY <5>1 DEF RoutingInv, ConnOK
      <4> QED
        BY <4>1, <4>2
    <3> QED
      BY <3>1, <3>2, <3>3 DEF RoutingInv, ConnOK
  <2>2. CASE UNCHANGED vars
    BY <2>2 DEF RoutingInv, SessOK, ConnOK, AloneInv, ArmedInv, NoLogout, vars, routeVars,
       nodeVars, userVars, sessVars, envVars
  <2> QED
    BY <2>1, <2>2
<1> QED
  BY <1>1, <1>2, PTL DEF Spec

(* Type correctness of the session, its connections and the node list, for *)
(* every set of nodes and however many sockets the hub may have.           *)
THEOREM SessionTypes == Spec => []TypeOK
<1>1. RoutingInv => TypeOK
  BY TypeParts DEF RoutingInv
<1> QED
  BY <1>1, RoutingCorrect, PTL

(* No node keeps a connection that the session has forgotten, however the  *)
(* nodes crash and send the player on, as long as nobody has logged out.   *)
THEOREM OnlyConnection == Spec => []OneConnection
<1>1. RoutingInv => OneConnection
  BY DEF RoutingInv, AloneInv, OneConnection, IsOpen
<1> QED
  BY <1>1, RoutingCorrect, PTL

(* A session that is not about to reconnect talks to the node _nodeId, as  *)
(* long as nobody has logged out.                                          *)
THEOREM TalksToItsNode == Spec => []RightNode
<1>1. RoutingInv => RightNode
  BY DEF RoutingInv, ConnOK, AloneInv, RightNode, OnItsNode, IsOpen
<1> QED
  BY <1>1, RoutingCorrect, PTL

(* A session without a node connection has its reconnect armed whenever    *)
(* both threads are at rest, whatever logout and reconnect do at the same  *)
(* time, as long as nobody is kicked.                                      *)
THEOREM AlwaysArmed == Spec => []ReconnectArmed
<1>1. RoutingInv => ReconnectArmed
  BY DEF RoutingInv, ArmedInv, ReconnectArmed, AtRest
<1> QED
  BY <1>1, RoutingCorrect, PTL
=============================================================================
