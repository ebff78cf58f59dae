---------------------------- MODULE ChatChannels ----------------------------
(***************************************************************************)
(* The players of the hub and the chat channels they are in.               *)
(*                                                                         *)
(* A ClientSession owns a Player object (_player) from login to logout.    *)
(* ObjectMgr keeps the registry of players by guid (m_PlayerMap); logins   *)
(* and logouts only put the object into _NewPlayer or _DelPlayer, and the  *)
(* world thread brings the registry up to date in ObjectMgr::Update.  The  *)
(* channels know their members by guid and look the Player up in the       *)
(* registry; the Player keeps pointers to its channels (m_channels).       *)
(*                                                                         *)
(* The world thread runs ObjectMgr::Update and then the sessions' packets; *)
(* an updater thread finishes logins (the query callback) and destroys     *)
(* sessions.  One character per account.                                   *)
(***************************************************************************)
EXTENDS Channel, Sequences

CONSTANTS
    Session,    \* the sessions, each created at most once
    Char,       \* the character a session logs in
    Team,       \* the team of a character
    Resident,   \* sessions whose player is in the map from the start
    GM,         \* the characters with a game master's account
    Name,       \* names of channels
    World,      \* the ones called "World" or "world"
    Settings,   \* what the two uninitialised configuration flags may say
    Stored,     \* table channels, by team and name
    TwoSide,    \* AllowTwoSide.Interaction.Channel
    Modes,      \* flags that SetMode is called for
    MaxPlayers, \* Player objects
    MaxChannels,\* Channel objects
    MaxCalls    \* packets handled and sessions added and erased

Teams == {"alliance", "horde"}

ASSUME CharAssumption ==
    /\ Char \in [Session -> Guid] /\ Team \in [Guid -> Teams] /\ GM \subseteq Guid
    /\ Resident \subseteq Session /\ IsFiniteSet(Resident)
    /\ Resident = 1 .. Cardinality(Resident) /\ Cardinality(Resident) =< MaxPlayers
    /\ World \subseteq Name /\ Stored \in [Teams -> [Name -> Rows]]
    /\ Modes \subseteq {"moderator", "muted"} /\ TwoSide \in BOOLEAN
    /\ {MaxPlayers, MaxChannels, MaxCalls} \subseteq Nat

Player == 1 .. MaxPlayers
ChanId == 1 .. MaxChannels
None   == 0

VARIABLES
    \* sessions
    state,      \* of a session: none, live (in the manager's map), erased, replaced, freed
    player,     \* _player
    loading,    \* sessions whose _charLoginCallback is pending
    adding,     \* sessions inside HandlePlayerLogin, before Player_Add
    \* players
    of,         \* m_session of the objects created so far
    deleted,
    chans,      \* m_channels
    \* ObjectMgr
    newPlayer, delPlayer,
    map,        \* m_PlayerMap
    phase,      \* where the world thread is
    \* channels
    config,     \* CONFIG_PRESERVE_CUSTOM_CHANNELS and CONFIG_RESTRICTED_LFG_CHANNEL,
                \* which are never assigned: those that are true
    heap,       \* the Channel objects
    mgr,        \* ChannelMgr::channels of both teams
    \* history
    irregular,  \* characters for whom something went wrong: see Irregular
    calls       \* packets and connections so far

sessVars == <<state, player, loading, adding>>
regVars  == <<newPlayer, delPlayer, map, phase, deleted>>
chatVars == <<chans, heap, mgr>>
vars == <<sessVars, of, regVars, config, chatVars, irregular, calls>>

GuidOf(o) == Char[of[o]]

Created == DOMAIN of

\* ObjectMgr::FindPlayer, and FindPlayerByName for the name of the character.
FindPlayer(g) == map[g]

\* GetSecurity of the player who is found.
IsGM(g) == FindPlayer(g) # None /\ g \in GM

\* channelMgr
ChannelMgr(t) == IF TwoSide THEN "alliance" ELSE t

\* The part of the state that channels change, as a value.
Chat == [chans |-> chans, heap |-> heap, mgr |-> mgr]

Becomes(w) ==
    /\ chans' = w.chans
    /\ heap'  = w.heap
    /\ mgr'   = w.mgr

-----------------------------------------------------------------------------
(* Channel objects.                                                        *)

GetChannel(w, t, n) == w.mgr[ChannelMgr(t)][n]

\* The channel at c becomes ch.
Write(w, c, ch) ==
    [w EXCEPT !.heap = [d \in DOMAIN w.heap \cup {c} |-> IF d = c THEN ch ELSE w.heap[d]]]

\* An address that nothing refers to.
Free(w) == ChanId \ (DOMAIN w.heap \cup UNION {w.chans[o] : o \in Created})

\* The row that the constructor reads, when channels are preserved.  It is the
\* one of the hub's start: the hub changes none.  CHAR_INS_CHANNEL takes four
\* parameters, of which the constructor binds two in the wrong places, and
\* CHAR_UPD_CHANNEL three, of which UpdateChannelInDB binds six: the worker
\* thread stops the hub at the fourth (CheckValidIndex), where a behaviour ends.
RowOf(t, n, kind) ==
    IF "preserve" \in config /\ ~InDBC(kind) THEN Stored[ChannelMgr(t)][n] ELSE NoRow

\* GetJoinChannel, with the kind of id that the client has sent.
GetJoinChannel(w, t, n, kind) ==
    IF GetChannel(w, t, n) # None THEN w
    ELSE LET c == Min(Free(w))
         IN  [Write(w, c, NewChannel(kind, RowOf(t, n, kind)))
                EXCEPT !.mgr = [@ EXCEPT ![ChannelMgr(t)][n] = c]]

\* Mutant of LeftChannel: the deleted channel stays in the map of names.
LeftChannelNamed(w, t, n) ==
    LET c == GetChannel(w, t, n)
    IN  IF c = None \/ Members(w.heap[c]) # {} \/ IsConstant(w.heap[c]) THEN w
        ELSE [w EXCEPT !.heap = Restrict(@, DOMAIN @ \ {c})]

\* ChannelMgr::LeftChannel, which deletes an empty custom channel.
LeftChannel(w, t, n) ==
    LET c == GetChannel(w, t, n)
    IN  IF c = None \/ Members(w.heap[c]) # {} \/ IsConstant(w.heap[c]) THEN w
        ELSE [w EXCEPT !.heap = Restrict(@, DOMAIN @ \ {c}),
                       !.mgr  = [@ EXCEPT ![ChannelMgr(t)][n] = None]]

\* The Player found for g remembers the channel (JoinedChannel), or forgets it.
Remember(w, g, c) ==
    IF FindPlayer(g) = None THEN w ELSE [w EXCEPT !.chans[FindPlayer(g)] = @ \cup {c}]

\* Mutant of Forget: the player keeps the pointer.
ForgetNothing(w, g, c) == w

Forget(w, g, c) ==
    IF FindPlayer(g) = None THEN w ELSE [w EXCEPT !.chans[FindPlayer(g)] = @ \ {c}]

\* One manager's half of HandleJoinChannel.  A refused join leaves the channel
\* that GetJoinChannel has made.
JoinAt(w, t, n, kind, g, pass) ==
    LET w1 == GetJoinChannel(w, t, n, kind)
        c  == GetChannel(w1, t, n)
        ch == w1.heap[c]
    IN  IF Admits(ch, g, pass, FindPlayer(g) # None /\ "restrict_lfg" \in config)
        THEN Write(Remember(w1, g, c), c, Joined(ch, g)) ELSE w1

\* One manager's half of HandleLeaveChannel.
LeaveAt(w, t, n, g) ==
    LET c == GetChannel(w, t, n)
    IN  IF c = None THEN w
        ELSE LeftChannel(IF IsOn(w.heap[c], g)
                         THEN Write(Forget(w, g, c), c, Left(w.heap[c], g))
                         ELSE w, t, n)

\* CleanupChannels, the calls of Leave: g leaves the channels of cs.
LeaveAll(w, g, cs) ==
    [c \in DOMAIN w.heap |->
       IF c \in cs /\ IsOn(w.heap[c], g) THEN Left(w.heap[c], g) ELSE w.heap[c]]

\* CleanupChannels, the calls of LeftChannel: the manager of the player's own
\* team is asked about the name of every channel left, and deletes the channel
\* of that name that it has itself, if that one is empty.
Emptied(w, m, cs, h) ==
    {n \in Name : /\ \E t \in Teams : w.mgr[t][n] \in cs
                  /\ w.mgr[m][n] # None
                  /\ Members(h[w.mgr[m][n]]) = {} /\ ~IsConstant(h[w.mgr[m][n]])}

\* Mutant of CleanupChannels: the list is emptied, the channels are not told.
CleanupListOnly(w, o) == [w EXCEPT !.chans[o] = {}]

\* Player::CleanupChannels.  A pointer to a deleted channel is passed over.  The
\* order of the channels does not matter: each is left once, and a channel is
\* looked at for the last time after it was left.
CleanupChannels(w, o) ==
    LET g    == GuidOf(o)
        m    == ChannelMgr(Team[g])
        cs   == w.chans[o] \cap DOMAIN w.heap
        h    == LeaveAll(w, g, cs)
        gone == Emptied(w, m, cs, h)
        kept == [n \in Name |-> IF n \in gone THEN None ELSE w.mgr[m][n]]
    IN  [w EXCEPT !.chans = [@ EXCEPT ![o] = {}],
                  !.heap  = Restrict(h, DOMAIN h \ {w.mgr[m][n] : n \in gone}),
                  !.mgr   = [@ EXCEPT ![m] = kept]]

-----------------------------------------------------------------------------
\* History: the three things that can go wrong with the player of g.
\*   - CMSG_PLAYER_LOGIN comes while the session has a player;
\*   - a channel opcode comes while the map does not have the player;
\*   - the entry of the map is not that of the player that is removed.
Irregular(g, happened) ==
    irregular' = IF happened THEN irregular \cup {g} ELSE irregular

-----------------------------------------------------------------------------
(* Sessions, on the world thread.                                          *)

Call == calls < MaxCalls /\ calls' = calls + 1

\* ClientSessionMgr::AddSession_ leaves the session it replaces to nobody.
AddSession_(s) ==
    /\ Call
    /\ phase = "sessions" /\ state[s] = "none"
    /\ state' = [r \in Session |->
                   IF r = s THEN "live"
                   ELSE IF state[r] = "live" /\ Char[r] = Char[s] THEN "replaced"
                   ELSE state[r]]
    /\ UNCHANGED <<player, loading, adding, of, regVars, config, chatVars, irregular>>

\* UpdateSingle returns false: the session leaves the manager's map.
EraseSession(s) ==
    /\ Call
    /\ phase = "sessions" /\ state[s] = "live"
    /\ state' = [state EXCEPT ![s] = "erased"]
    /\ UNCHANGED <<player, loading, adding, of, regVars, config, chatVars, irregular>>

\* HandlePlayerLoginOpcode forgets the player before it asks whether there is
\* one, and starts the query; CharCanLogin may refuse, which is a kick.
HandlePlayerLoginOpcode(s) ==
    /\ Call
    /\ phase = "sessions" /\ state[s] = "live"
    /\ player' = [player EXCEPT ![s] = None]
    /\ loading' \in {loading} \cup {loading \cup {s} : n \in Len(of) + 1 .. MaxPlayers}
    /\ Irregular(Char[s], player[s] # None)
    /\ UNCHANGED <<state, adding, of, regVars, config, chatVars>>

\* PlayerLogout
PlayerLogout(s) ==
    /\ Becomes(CleanupChannels(Chat, player[s]))
    /\ delPlayer' = Append(delPlayer, player[s])
    /\ player' = [player EXCEPT ![s] = None]

Handle_SMSG_LOGOUT_COMPLETE(s) ==
    /\ Call
    /\ phase = "sessions" /\ state[s] = "live" /\ player[s] # None
    /\ PlayerLogout(s)
    /\ UNCHANGED <<state, loading, adding, of, newPlayer, map, phase, deleted,
                   config, irregular>>

-----------------------------------------------------------------------------
(* Sessions, on an updater thread, which holds on to an erased or replaced *)
(* session until it has seen that it is kicked.                            *)

Updated(s) == state[s] \in {"live", "erased", "replaced"}

\* HandlePlayerLogin, called back with the character's data, sets _player ...
HandlePlayerLogin(s) ==
    /\ Updated(s) /\ s \in loading /\ s \notin adding
    /\ loading' = loading \ {s}
    /\ \/ /\ Cardinality(Created) < MaxPlayers
          /\ of' = Append(of, s)
          /\ player' = [player EXCEPT ![s] = Len(of')]
          /\ adding' = adding \cup {s}
       \/ UNCHANGED <<of, player, adding>>     \* LoadFromDB fails
    /\ UNCHANGED <<state, regVars, config, chatVars, irregular, calls>>

\* ... and gives the object to ObjectMgr.
Player_Add(s) ==
    /\ s \in adding
    /\ adding' = adding \ {s}
    /\ newPlayer' = Append(newPlayer, Max({o \in Created : of[o] = s}))
    /\ UNCHANGED <<state, player, loading, of, delPlayer, map, phase, deleted,
                   config, chatVars, irregular, calls>>

\* The last reference to an erased session is dropped: ~ClientSession.
Destroy(s) ==
    /\ state[s] = "erased" /\ s \notin adding
    /\ state' = [state EXCEPT ![s] = "freed"]
    /\ loading' = loading \ {s}
    /\ IF player[s] = None THEN UNCHANGED <<player, delPlayer, chatVars>> ELSE PlayerLogout(s)
    /\ UNCHANGED <<adding, of, newPlayer, map, phase, deleted, config, irregular, calls>>

-----------------------------------------------------------------------------
(* ObjectMgr::Update.  The other threads run between its steps.            *)

\* A player of _NewPlayer takes the place of the one with the same guid.
UpdateNew ==
    /\ phase = "add" /\ newPlayer # <<>>
    /\ LET o == Head(newPlayer)
           g == GuidOf(o)
       IN  /\ IF map[g] = None THEN UNCHANGED chatVars
              ELSE Becomes(CleanupChannels(Chat, map[g]))
           /\ map' = [map EXCEPT ![g] = o]
    /\ newPlayer' = Tail(newPlayer)
    /\ UNCHANGED <<sessVars, of, delPlayer, phase, deleted, config, irregular, calls>>

\* A player of _DelPlayer is deleted if there is an entry for its guid, and
\* that entry is erased, whichever player it is.
UpdateDel ==
    /\ phase = "del" /\ delPlayer # <<>>
    /\ LET o == Head(delPlayer)
           g == GuidOf(o)
       IN  /\ deleted' = IF map[g] = None THEN deleted ELSE deleted \cup {o}
           /\ map' = [map EXCEPT ![g] = None]
           /\ Irregular(g, map[g] # o)
    /\ delPlayer' = Tail(delPlayer)
    /\ UNCHANGED <<sessVars, of, newPlayer, phase, config, chatVars, calls>>

\* The world thread goes on: to _DelPlayer, to the sessions, to the next turn.
Turn ==
    /\ \/ phase = "add" /\ newPlayer = <<>> /\ phase' = "del"
       \/ phase = "del" /\ delPlayer = <<>> /\ phase' = "sessions"
       \/ phase = "sessions" /\ phase' = "add"
    /\ UNCHANGED <<sessVars, of, newPlayer, delPlayer, map, deleted, config,
                   chatVars, irregular, calls>>

-----------------------------------------------------------------------------
(* The channel opcodes of a session that has a player, on the world thread.*)

Opcode(s) ==
    /\ phase = "sessions" /\ state[s] = "live" /\ player[s] # None
    /\ Irregular(Char[s], FindPlayer(Char[s]) # player[s])
    /\ Call
    /\ UNCHANGED <<sessVars, of, regVars, config>>

\* AccountMgr::IsVIPorPlayer is false for everybody: both managers are asked.
HandleJoinChannel(s, n, kind, pass) ==
    /\ Opcode(s)
    /\ Cardinality(Free(Chat)) > 1
    /\ Becomes(JoinAt(JoinAt(Chat, "alliance", n, kind, Char[s], pass),
                      "horde", n, kind, Char[s], pass))

HandleLeaveChannel(s, n) ==
    /\ Opcode(s)
    /\ Becomes(LeaveAt(LeaveAt(Chat, "alliance", n, Char[s]), "horde", n, Char[s]))

\* The others ask the manager of the player's team.
Own(s, n) == GetChannel(Chat, Team[Char[s]], n)

Change(s, n, ch) == Becomes(Write(Chat, Own(s, n), ch))

\* Kick and Ban, of a player who is found by name.
HandleChannelKick(s, n, bad, ban) ==
    LET c == Own(s, n)
        good == Char[s]
    IN  /\ Opcode(s)
        /\ c # None /\ FindPlayer(bad) # None
        /\ MayKick(heap[c], good, bad, IsGM(good))
        /\ Becomes(Write(Forget(Chat, bad, c), c, Kicked(heap[c], good, bad, ban)))

HandleChannelUnban(s, n, bad) ==
    LET c == Own(s, n)
    IN  /\ Opcode(s)
        /\ c # None /\ FindPlayer(bad) # None /\ bad \in heap[c].banned
        /\ Moderates(heap[c], Char[s], IsGM(Char[s]))
        /\ Change(s, n, UnBanned(heap[c], bad))

\* Only the password of a "World" channel can be set.
HandleChannelPassword(s, n, pass) ==
    LET c == Own(s, n)
    IN  /\ Opcode(s)
        /\ c # None /\ n \in World
        /\ Moderates(heap[c], Char[s], IsGM(Char[s]))
        /\ Change(s, n, [heap[c] EXCEPT !.password = pass])

\* Moderator, Unmoderator, Mute and Unmute.
HandleChannelMode(s, n, q, flag, set) ==
    LET c == Own(s, n)
        p == Char[s]
        near == Team[p] = Team[q] \/ TwoSide \/ (IsGM(p) /\ IsGM(q))
    IN  /\ Opcode(s)
        /\ c # None /\ FindPlayer(p) # None /\ FindPlayer(q) # None
        /\ MaySetMode(heap[c], p, q, flag, IsGM(p), near)
        /\ Change(s, n, SetMode(heap[c], q, flag, set))

HandleChannelSetOwner(s, n, q) ==
    LET c == Own(s, n)
        p == Char[s]
    IN  /\ Opcode(s)
        /\ c # None /\ FindPlayer(p) # None /\ FindPlayer(q) # None
        /\ MaySetOwner(heap[c], p, q, IsGM(p), Team[p] = Team[q] \/ TwoSide)
        /\ Change(s, n, SetOwner(heap[c], q))

-----------------------------------------------------------------------------
Init ==
    /\ state = [s \in Session |-> IF s \in Resident THEN "live" ELSE "none"]
    /\ player = [s \in Session |-> IF s \in Resident THEN s ELSE None]
    /\ loading = {} /\ adding = {}
    /\ of = [s \in Resident |-> s] /\ deleted = {}
    /\ chans = [o \in Player |-> {}]
    /\ newPlayer = <<>> /\ delPlayer = <<>>
    /\ map = [g \in Guid |-> Max({None} \cup {s \in Resident : Char[s] = g})]
    /\ phase = "sessions"
    /\ config \in Settings
    /\ heap = [c \in {} |-> 0]
    /\ mgr = [t \in Teams |-> [n \in Name |-> None]]
    /\ irregular = {} /\ calls = 0

SessionStep(s) ==
    \/ AddSession_(s) \/ EraseSession(s) \/ HandlePlayerLoginOpcode(s)
    \/ Handle_SMSG_LOGOUT_COMPLETE(s)
    \/ HandlePlayerLogin(s) \/ Player_Add(s) \/ Destroy(s)

ChannelStep(s, n) ==
    \/ \E pass \in Password \cup {NoPassword} :
          \/ \E kind \in Kinds : HandleJoinChannel(s, n, kind, pass)
          \/ HandleChannelPassword(s, n, pass)
    \/ HandleLeaveChannel(s, n)
    \/ \E q \in Guid :
          \/ \E ban \in BOOLEAN : HandleChannelKick(s, n, q, ban)
          \/ HandleChannelUnban(s, n, q)
          \/ \E flag \in Modes, set \in BOOLEAN : HandleChannelMode(s, n, q, flag, set)
          \/ HandleChannelSetOwner(s, n, q)

Next ==
    \/ \E s \in Session : SessionStep(s)
    \/ UpdateNew \/ UpdateDel \/ Turn
    \/ \E s \in Session, n \in Name : ChannelStep(s, n)

Spec == Init /\ [][Next]_vars

-----------------------------------------------------------------------------
\* Type correctness: the queues and the map name players that were made, and
\* the managers name only channels that have not been deleted (LeftChannel).
TypeOK ==
    /\ state \in [Session -> {"none", "live", "erased", "replaced", "freed"}]
    /\ player \in [Session -> Created \cup {None}]
    /\ loading \subseteq Session /\ adding \subseteq Session
    /\ of \in Seq(Session) /\ Created \subseteq Player /\ deleted \subseteq Created
    /\ chans \in [Player -> SUBSET ChanId]
    /\ newPlayer \in Seq(Created) /\ delPlayer \in Seq(Created)
    /\ map \in [Guid -> Created \cup {None}]
    /\ phase \in {"add", "del", "sessions"}
    /\ DOMAIN heap \subseteq ChanId
    /\ \A c \in DOMAIN heap : heap[c] \in Channels
    /\ mgr \in [Teams -> [Name -> DOMAIN heap \cup {None}]]

\* Leave finds the owner by the member's flag, KickOrBan and SetMode by
\* m_ownerGUID.  Through owners that leave, are kicked, kick themselves, hand
\* the channel over or log out, only the one m_ownerGUID names has the flag.
OneOwnerEach == \A c \in DOMAIN heap : OneOwner(heap[c])

\* Who has the owner flag has the moderator flag too.  SetMode compares with
\* m_ownerGUID before it takes the moderator's flag from somebody, while Leave
\* and SetOwner hand both flags on; they must agree on who the owner is, also
\* for a kicked owner, and for a game master who makes an owner of anybody.
OwnersModerate == \A c \in DOMAIN heap : OwnerModerates(heap[c])

\* Nobody is in a channel whose list of bans has him: the bans that KickOrBan
\* makes while he is in, those that the constructor has loaded, and those of
\* the owner or of the one who kicks.  The entry that players[newowner] adds
\* again when somebody bans himself is the exception.  A ban lasts as long as
\* the Channel object: a channel that is made again has those of the table.
BannedStayOut == \A c \in DOMAIN heap : BannedIsOut(heap[c])

\* CleanupChannels calls Leave through the pointers of m_channels, at logout
\* and when a player is replaced in the map.  For a character for whom nothing
\* irregular has happened they all point to channels that exist and that he
\* is in.
NoDanglingChannel ==
    \A o \in Created \ deleted :
        GuidOf(o) \notin irregular =>
            \A c \in chans[o] : c \in DOMAIN heap /\ IsOn(heap[c], GuidOf(o))

\* SendToAll sends to the session of the Player that the map has for a member.
\* The member is there, knows the channel, and neither the Player nor its
\* session has been deleted, though updater threads delete sessions while the
\* world thread sends.  Entries added again by [] and irregular characters
\* are exceptions.
MembersReachable ==
    \A c \in DOMAIN heap : \A g \in Members(heap[c]) \ irregular :
        heap[c].players[g].player # NoGuid =>
            /\ FindPlayer(g) # None
            /\ c \in chans[FindPlayer(g)]
            /\ FindPlayer(g) \notin deleted
            /\ state[of[FindPlayer(g)]] # "freed"
=============================================================================
