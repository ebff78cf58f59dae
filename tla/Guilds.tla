------------------------------- MODULE Guilds -------------------------------
(***************************************************************************)
(* The guilds of the hub (shade/Guilds) and what else keeps a membership:  *)
(* the Player object (m_GuildId), the global player data, the tables of    *)
(* the characters database, and a node, which has read the tables when it  *)
(* started and tells the hub the guild of a player who enters it.          *)
(*                                                                         *)
(* The handlers write the database with statements that one worker thread  *)
(* executes in order, some time later; a crash of the hub loses the rest.  *)
(* A restart loads the tables and repairs what it finds (Validate).        *)
(* The opcodes are handled by one updater thread, one after the other.     *)
(* Bank, notes, texts, logs, petitions and messages are left out, and so   *)
(* is a player's rank, which nothing reads.                                *)
(***************************************************************************)
EXTENDS Naturals, Sequences, FiniteSets, SequencesExt, Functions

CONSTANTS
    Char,       \* characters
    Guild,      \* guild ids
    Broken,     \* characters whose data CheckStats refuses
    New,        \* characters created after the hub has started
    Grants,     \* what a leader may set the rights of a rank to
    MinRanks,   \* GUILD_RANKS_MIN_COUNT
    MaxRanks,   \* GUILD_RANKS_MAX_COUNT
    MaxRankId,  \* greatest value of a rank's column, a uint8
    Tables,     \* what the database may hold at first
    Garbage,    \* values of a player's uninitialised m_GuildIdInvited
    MaxCalls,   \* opcodes, logins and logouts, messages and starts of the node
    MaxCrashes  \* crashes of the hub

None == 0

GuildMaster == 0
Officer     == 1

\* The bits of a rank's rights that the opcodes ask for: empty is
\* GR_RIGHT_EMPTY, which every right of GuildRankRights includes.
Right == {"empty", "invite", "remove", "promote", "demote"}

\* The rights of a new rank, those to listen and to speak left out.
NewRights == {"empty"}

Rights == Grants \cup {NewRights, Right}

\* Guids and guild ids are uint32.
ASSUME GuildsAssumption ==
    /\ Char \subseteq Nat \ {0} /\ Guild \subseteq Nat \ {0} /\ Broken \subseteq Char
    /\ New \subseteq Char /\ Grants \subseteq SUBSET Right
    /\ IsFiniteSet(Char) /\ IsFiniteSet(Guild)
    /\ Garbage \in [Char -> SUBSET Nat]
    /\ {MinRanks, MaxRanks, MaxRankId, MaxCalls, MaxCrashes} \subseteq Nat
    /\ 2 < MinRanks /\ MinRanks <= MaxRanks /\ MaxRanks <= MaxRankId

RankId == 0 .. MaxRankId

\* Functions from a part of S to T.
Partial(S, T) == UNION {[D -> T] : D \in SUBSET S}

\* The tables guild (its leaders), guild_rank and guild_member.
Rows == [guild  : Partial(Guild, Char),
         ranks  : [Guild -> Partial(RankId, Rights)],
         member : Partial(Char, [guild : Guild, rank : RankId])]

\* A character that is yet to be created has no row.
ASSUME TablesAssumption ==
    Tables \subseteq Rows /\ \A d \in Tables : DOMAIN d.member \cap New = {}

VARIABLES
    \* hub
    up,         \* the hub runs
    store,      \* GuildStore
    online,     \* characters with a session that has a player
    found,      \* those of them that ObjectMgr finds
    inGuild,    \* m_GuildId of the player
    invited,    \* m_GuildIdInvited of the player
    storage,    \* guildId in the global player data
    pend,       \* statements for the worker thread
    \* database and node
    db,
    view,       \* the guild of a character, as the node knows it
    \* history
    strayed,    \* characters whose m_GuildId or row has gone its own way: see Tell
    calls, crashes

hubVars == <<store, online, found, inGuild, invited, storage, pend, strayed>>
vars == <<up, hubVars, db, view, calls, crashes>>

\* The state that the guild operations change, as a value.
Hub == [store |-> store, inGuild |-> inGuild, invited |-> invited,
        storage |-> storage, pend |-> pend, strayed |-> strayed]

Becomes(w) ==
    /\ store' = w.store
    /\ inGuild' = w.inGuild
    /\ invited' = w.invited
    /\ storage' = w.storage
    /\ pend' = w.pend
    /\ strayed' = w.strayed

GuildsOf(s, c) == {g \in DOMAIN s : c \in DOMAIN s[g].members}

\* f with the value v at x.
With(f, x, v) == [y \in DOMAIN f \cup {x} |-> IF y = x THEN v ELSE f[y]]

Without(f, x) == Restrict(f, DOMAIN f \ {x})

-----------------------------------------------------------------------------
(* The prepared statements.  They name a member by guid alone.             *)

UpdLeader(g, c)    == [op |-> "leader", guild |-> g, char |-> c]
UpdRank(c, r)      == [op |-> "rank", char |-> c, rank |-> r]
InsMember(g, c, r) == [op |-> "join", guild |-> g, char |-> c, rank |-> r]
DelMember(c)       == [op |-> "leave", char |-> c]
InsRank(g, r, b)   == [op |-> "newrank", guild |-> g, rank |-> r, rights |-> b]
UpdRights(g, r, b) == [op |-> "rights", guild |-> g, rank |-> r, rights |-> b]
DelRanks(g, r)     == [op |-> "delranks", guild |-> g, rank |-> r]
DelGuild(g)        == [op |-> "disband", guild |-> g]

\* A second row for a guid is refused.
Execute(d, s) ==
    CASE s.op = "leader" ->
           IF s.guild \in DOMAIN d.guild THEN [d EXCEPT !.guild[s.guild] = s.char] ELSE d
      [] s.op = "rank" ->
           IF s.char \in DOMAIN d.member THEN [d EXCEPT !.member[s.char].rank = s.rank] ELSE d
      [] s.op = "join" ->
           IF s.char \in DOMAIN d.member THEN d
           ELSE [d EXCEPT !.member = With(@, s.char, [guild |-> s.guild, rank |-> s.rank])]
      [] s.op = "leave" -> [d EXCEPT !.member = Without(@, s.char)]
      [] s.op = "newrank" ->
           IF s.rank \in DOMAIN d.ranks[s.guild] THEN d
           ELSE [d EXCEPT !.ranks[s.guild] = With(@, s.rank, s.rights)]
      [] s.op = "rights" ->
           IF s.rank \in DOMAIN d.ranks[s.guild]
           THEN [d EXCEPT !.ranks[s.guild][s.rank] = s.rights] ELSE d
      [] s.op = "delranks" ->
           [d EXCEPT !.ranks[s.guild] = Restrict(@, {r \in DOMAIN @ : r < s.rank})]
      [] s.op = "disband" ->
           [guild |-> Without(d.guild, s.guild),
            ranks |-> [d.ranks EXCEPT ![s.guild] = Restrict(@, {})], member |-> d.member]

\* The database when the worker thread has executed 0, 1, ... statements of p.
Progress(d, p) ==
    LET after[n \in 0 .. Len(p)] == IF n = 0 THEN d ELSE Execute(after[n - 1], p[n])
    IN  after

\* The database once the worker thread has caught up.
Drained(d, p) == Progress(d, p)[Len(p)]

ExecAll(w, p) == [w EXCEPT !.pend = @ \o p]

Exec(w, s) == ExecAll(w, <<s>>)

-----------------------------------------------------------------------------
(* Guild, RankInfo and Member.  ranks[r + 1]: the rights of rank r.        *)

LowestRank(G) == Len(G.ranks) - 1

DefaultRanks == [i \in 1 .. MinRanks |-> IF i <= 2 THEN Right ELSE NewRights]

\* GetRankRights: a rank that does not exist has no bit set.
RankRights(G, r) == IF r <= LowestRank(G) THEN G.ranks[r + 1] ELSE {}

\* Who has not the bit GR_RIGHT_EMPTY has every right.
HasRankRight(G, c, right) ==
    /\ c \in DOMAIN G.members
    /\ RankRights(G, G.members[c]) \cap {"empty", right} # {"empty"}

IsLeader(G, c) ==
    G.leader = c \/ (c \in DOMAIN G.members /\ G.members[c] = GuildMaster)

\* The characters in the global player data, which are read when the hub starts.
Known == IF crashes = 0 THEN Char \ New ELSE Char

\* Mutant of Tell: the global data are not brought up to date.
TellPlayer(w, C, g) ==
    [w EXCEPT !.inGuild = [c \in Char |-> IF c \in C \cap found THEN g ELSE w.inGuild[c]],
              !.strayed = @ \cup (C \cap (online \ found)) \cup (C \ Known)]

\* The m_GuildId of the players C that ObjectMgr finds, and the global data.
\* History: a player who is online and not found does not hear of it, and the
\* global data do not hear of a character that they do not have.
Tell(w, C, g) ==
    [w EXCEPT !.storage = [c \in Char |-> IF c \in C \cap Known THEN g ELSE w.storage[c]],
              !.inGuild = [c \in Char |-> IF c \in C \cap found THEN g ELSE w.inGuild[c]],
              !.strayed = @ \cup (C \cap (online \ found)) \cup (C \ Known)]

\* The hub with the guild object G.
Edit(w, g, G) == [w EXCEPT !.store[g] = G]

ChangeRank(w, g, c, r) ==
    Exec(Edit(w, g, [w.store[g] EXCEPT !.members[c] = r]), UpdRank(c, r))

\* Mutant of SetLeaderGUID: the new leader keeps his rank.
SetLeaderUnranked(w, g, c) ==
    Exec(Edit(w, g, [w.store[g] EXCEPT !.leader = c]), UpdLeader(g, c))

SetLeaderGUID(w, g, c) ==
    Exec(ChangeRank(Edit(w, g, [w.store[g] EXCEPT !.leader = c]), g, c, GuildMaster),
         UpdLeader(g, c))

\* DeleteMember, of anybody but the leader, or while the guild is disbanded.
Drop(w, g, c) ==
    Exec(Tell(Edit(w, g, [w.store[g] EXCEPT !.members = Without(@, c)]), {c}, None),
         DelMember(c))

\* Disband removes the members in the order of an unordered_map.
Disband(w, g, order) ==
    LET v == Tell(w, DOMAIN w.store[g].members, None)
    IN  ExecAll([v EXCEPT !.store = Without(@, g)],
                [i \in DOMAIN order |-> DelMember(order[i])] \o <<DelGuild(g)>>)

\* The members of highest rank next to c; the unordered_map decides.
Heirs(G, c) ==
    {h \in DOMAIN G.members \ {c} :
        \A d \in DOMAIN G.members \ {c} : G.members[h] <= G.members[d]}

\* DeleteMember; heir is one of Heirs, if there is any.
DeleteMember(w, g, c, heir) ==
    IF w.store[g].leader # c THEN Drop(w, g, c)
    ELSE IF Heirs(w.store[g], c) = {} THEN Disband(w, g, SetToSeq(DOMAIN w.store[g].members))
    ELSE Drop(SetLeaderGUID(w, g, heir), g, c)

\* Mutant of AddMember: the row is not written.
AddMemberUnsaved(w, g, c) ==
    LET r == LowestRank(w.store[g])
        v == [Edit(w, g, [w.store[g] EXCEPT !.members = With(@, c, r)]) EXCEPT
                 !.invited[c] = IF c \in found THEN None ELSE @]
    IN  IF (IF c \in found THEN w.inGuild[c] ELSE w.storage[c]) # None THEN w
        ELSE Tell(v, {c}, g)

\* AddMember without a rank.
AddMember(w, g, c) ==
    LET r == LowestRank(w.store[g])
        v == [Edit(w, g, [w.store[g] EXCEPT !.members = With(@, c, r)]) EXCEPT
                 !.invited[c] = IF c \in found THEN None ELSE @]
    IN  IF (IF c \in found THEN w.inGuild[c] ELSE w.storage[c]) # None THEN w
        ELSE Exec(Tell(v, {c}, g), InsMember(g, c, r))

-----------------------------------------------------------------------------
(* The opcodes.  c is the player of the session.                           *)

Rest == UNCHANGED <<up, online, found, db, view, crashes>>

\* GetPlayer()->GetGuild() is g.
Opcode(c, g) ==
    /\ c \in online /\ g = inGuild[c] /\ g \in DOMAIN store
    /\ Rest

HandleInviteMember(c, g, d) ==
    /\ Opcode(c, g)
    /\ d \in found /\ inGuild[d] = None /\ invited[d] = None
    /\ HasRankRight(store[g], c, "invite")
    /\ Becomes([Hub EXCEPT !.invited[d] = g])

HandleGuildAcceptOpcode(c, g) ==
    /\ c \in online /\ inGuild[c] = None /\ g = invited[c] /\ g \in DOMAIN store
    /\ Rest
    /\ Becomes(AddMember(Hub, g, c))

\* SetInGuild(0), whether he is in a guild or not.
HandleGuildDeclineOpcode(c) ==
    /\ Rest
    /\ c \in online
    /\ Becomes([Hub EXCEPT !.invited[c] = None, !.inGuild[c] = None, !.storage[c] = None,
                           !.strayed = IF GuildsOf(store, c) = {} THEN @ ELSE @ \cup {c}])

\* A leader may leave as the last member only, which disbands the guild.
HandleLeaveMember(c, g) ==
    /\ Opcode(c, g)
    /\ \/ /\ ~IsLeader(store[g], c)
          /\ Becomes(DeleteMember(Hub, g, c, None))
       \/ /\ IsLeader(store[g], c) /\ Cardinality(DOMAIN store[g].members) <= 1
          /\ Becomes(Disband(Hub, g, SetToSeq(DOMAIN store[g].members)))

HandleRemoveMember(c, g, d, heir) ==
    LET G == store[g]
    IN  /\ Opcode(c, g)
        /\ HasRankRight(G, c, "remove") /\ d \in DOMAIN G.members
        /\ G.members[d] # GuildMaster /\ G.members[d] > G.members[c]
        /\ heir \in (IF G.leader = d THEN Heirs(G, d) ELSE {None})
        /\ Becomes(DeleteMember(Hub, g, d, heir))

\* Mutant of MayPromote: up to one's own rank.
MayPromoteToOwn(G, c, d) == G.members[d] > G.members[c]

\* Only to a rank below one's own.
MayPromote(G, c, d) == G.members[d] > G.members[c] + 1

HandleUpdateMemberRank(c, g, d, demote) ==
    LET G == store[g]
    IN  /\ Opcode(c, g)
        /\ HasRankRight(G, c, IF demote THEN "demote" ELSE "promote")
        /\ d \in DOMAIN G.members /\ d # c
        /\ IF demote THEN G.members[d] > G.members[c] /\ G.members[d] < LowestRank(G)
                     ELSE MayPromote(G, c, d)
        /\ Becomes(ChangeRank(Hub, g, d, IF demote THEN G.members[d] + 1
                                                   ELSE G.members[d] - 1))

\* The old leader becomes an officer, also when he has named himself.
HandleSetLeader(c, g, d) ==
    LET G == store[g]
    IN  /\ Opcode(c, g)
        /\ IsLeader(G, c) /\ {c, d} \subseteq DOMAIN G.members
        /\ Becomes(ChangeRank(SetLeaderGUID(Hub, g, d), g, c, Officer))

\* HandleAddNewRank and _CreateRank.
HandleAddNewRank(c, g) ==
    LET G == store[g]
    IN  /\ Opcode(c, g)
        /\ Len(G.ranks) < MaxRanks /\ IsLeader(G, c)
        /\ Becomes(Exec(Edit(Hub, g, [G EXCEPT !.ranks = Append(@, NewRights)]),
                        InsRank(g, Len(G.ranks), NewRights)))

\* Mutant of MayRemoveRank: one rank fewer is enough.
MayRemoveLastRank(G) == Len(G.ranks) >= MinRanks

MayRemoveRank(G) == Len(G.ranks) > MinRanks

\* Members of the rank that is removed keep it.
HandleRemoveLowestRank(c, g) ==
    LET G == store[g]
    IN  /\ Opcode(c, g)
        /\ MayRemoveRank(G) /\ IsLeader(G, c)
        /\ Becomes(Exec(Edit(Hub, g, [G EXCEPT !.ranks = Front(@)]),
                        DelRanks(g, LowestRank(G))))

\* The guild master's rank keeps all rights.
HandleSetRankInfo(c, g, r, rights) ==
    LET G == store[g]
    IN  /\ Opcode(c, g)
        /\ IsLeader(G, c) /\ r \in 1 .. LowestRank(G) /\ G.ranks[r + 1] # rights
        /\ Becomes(Exec(Edit(Hub, g, [G EXCEPT !.ranks[r + 1] = rights]),
                        UpdRights(g, r, rights)))

HandleDisband(c, g, order) ==
    /\ Opcode(c, g)
    /\ IsLeader(store[g], c)
    /\ Becomes(Disband(Hub, g, order))

-----------------------------------------------------------------------------
(* Players.                                                                *)

\* HandlePlayerLogin.
Login(c, garbage) ==
    LET g == storage[c]
        in == IF g # None /\ g \in GuildsOf(store, c) THEN g ELSE None
    IN  /\ c \notin online \cup Broken
        /\ online' = online \cup {c}
        /\ inGuild' = [inGuild EXCEPT ![c] = in]
        /\ storage' = [storage EXCEPT ![c] = in]
        /\ invited' = [invited EXCEPT ![c] = garbage]
        /\ UNCHANGED <<up, store, found, pend, strayed, db, view, crashes>>

\* ObjectMgr::Update registers the player.
UpdateNew(c) ==
    /\ up /\ c \in online \ found
    /\ found' = found \cup {c}
    /\ UNCHANGED <<up, store, online, inGuild, invited, storage, pend, strayed,
                   db, view, calls, crashes>>

\* PlayerLogout, with the removal from ObjectMgr.
Logout(c) ==
    /\ c \in found
    /\ online' = online \ {c}
    /\ found' = found \ {c}
    /\ inGuild' = [inGuild EXCEPT ![c] = None]
    /\ invited' = [invited EXCEPT ![c] = None]
    /\ UNCHANGED <<up, store, storage, pend, strayed, db, view, crashes>>

\* CL_PLR_SEND_GUILD_ID: the player has entered the node, which knows of a
\* guild.  History: he strays if it is not his guild.
Handle_NODE_PLAYER_DATA(c) ==
    /\ c \in online /\ view[c] # None
    /\ inGuild' = [inGuild EXCEPT ![c] = view[c]]
    /\ strayed' = IF GuildsOf(store, c) = {view[c]} THEN strayed ELSE strayed \cup {c}
    /\ UNCHANGED <<up, store, online, found, invited, storage, pend, db, view, crashes>>

-----------------------------------------------------------------------------
(* The database and the restart.  How many statements the worker thread    *)
(* has executed shows only when somebody reads the tables; it is chosen    *)
(* then.                                                                   *)

GuildRow(d, c) == IF c \in DOMAIN d.member THEN d.member[c].guild ELSE None

\* The node starts and reads the tables.
NodeStart(n) ==
    /\ db' = Progress(db, pend)[n]
    /\ pend' = SubSeq(pend, n + 1, Len(pend))
    /\ view' = [c \in Char |-> GuildRow(db', c)]
    /\ UNCHANGED <<up, store, online, found, inGuild, invited, storage, strayed, crashes>>

Nobody == [c \in Char |-> None]

Crash(n) ==
    /\ up /\ crashes < MaxCrashes
    /\ db' = Progress(db, pend)[n]
    /\ crashes' = crashes + 1
    /\ up' = FALSE
    /\ store' = [g \in {} |-> None] /\ pend' = <<>>
    /\ online' = {} /\ found' = {}
    /\ inGuild' = Nobody /\ invited' = Nobody /\ storage' = Nobody
    /\ UNCHANGED <<view, strayed, calls>>

\* The orphans that LoadGuilds deletes first.
Swept(d) ==
    LET guilds == {g \in DOMAIN d.guild : \E c \in DOMAIN d.member : d.member[c].guild = g}
    IN  [guild |-> Restrict(d.guild, guilds),
         ranks |-> [g \in Guild |-> IF g \in guilds THEN d.ranks[g] ELSE Restrict(d.ranks[g], {})],
         member |-> Restrict(d.member, {c \in DOMAIN d.member : d.member[c].guild \in guilds})]

\* The i-th number of S.
Nth(S, i) == CHOOSE r \in S : Cardinality({q \in S : q < r}) = i - 1

\* RankInfo::LoadFromDB: the guild master's rank has all rights.
RightsIn(f, r) == IF r = GuildMaster THEN Right ELSE f[r]

\* LoadFromDB, LoadRankFromDB and LoadMemberFromDB, for all guilds.
Loaded(d) ==
    LET Sound(g) == {c \in DOMAIN d.member \ Broken : d.member[c].guild = g}
    IN  [store |-> [g \in DOMAIN d.guild |->
                      [leader |-> d.guild[g],
                       ranks |-> [i \in 1 .. Cardinality(DOMAIN d.ranks[g]) |->
                                    RightsIn(d.ranks[g], Nth(DOMAIN d.ranks[g], i))],
                       members |-> [c \in Sound(g) |-> d.member[c].rank]]],
         inGuild |-> Nobody, invited |-> Nobody,
         storage |-> [c \in Char |-> IF c \in Broken THEN None ELSE GuildRow(d, c)],
         pend |-> SetToSeq({DelMember(c) : c \in DOMAIN d.member \cap Broken}),
         strayed |-> strayed]

\* Validate: the ranks.
ValidateRanks(w, d, g) ==
    LET n == Len(w.store[g].ranks)
    IN  IF n \in MinRanks .. MaxRanks /\ DOMAIN d.ranks[g] = 0 .. n - 1 THEN w
        ELSE ExecAll(Edit(w, g, [w.store[g] EXCEPT !.ranks = DefaultRanks]),
                     <<DelRanks(g, 0)>> \o
                     [i \in 1 .. MinRanks |-> InsRank(g, i - 1, DefaultRanks[i])])

\* ChangeRank for the members C, in the order of an unordered_map.
ChangeRanks(w, g, C, r) ==
    LET order == SetToSeq(C)
    IN  ExecAll(Edit(w, g, [w.store[g] EXCEPT
                               !.members = [c \in DOMAIN @ |-> IF c \in C THEN r ELSE @[c]]]),
                [i \in DOMAIN order |-> UpdRank(order[i], r)])

\* Validate: members of a rank that does not exist.  The one that follows the
\* lowest rank is let pass.
ValidateMembers(w, g) ==
    LET G == w.store[g]
    IN  ChangeRanks(w, g, {c \in DOMAIN G.members : G.members[c] > Len(G.ranks)}, LowestRank(G))

\* Validate: the leader.
ValidateLeader(w, g, heir) ==
    LET G == w.store[g]
    IN  IF G.leader \notin DOMAIN G.members THEN DeleteMember(w, g, G.leader, heir)
        ELSE IF G.members[G.leader] # GuildMaster THEN SetLeaderGUID(w, g, G.leader)
        ELSE w

\* Validate: no other guild master (Guild.AllowMultipleGuildMaster = 0).
ValidateMasters(w, g) ==
    LET G == w.store[g]
    IN  IF g \notin DOMAIN w.store THEN w
        ELSE ChangeRanks(w, g, {c \in DOMAIN G.members \ {G.leader} : G.members[c] = GuildMaster},
                         Officer)

\* The guild g as Validate finds it when it comes to the leader.
Graded(w, d, g) == ValidateMembers(ValidateRanks(w, d, g), g)

Validate(w, d, g, heir) ==
    ValidateMasters(ValidateLeader(Graded(w, d, g), g, heir), g)

\* Who may succeed the leader in Validate.
Successors(G) ==
    IF G.leader \in DOMAIN G.members \/ DOMAIN G.members = {} THEN {None} ELSE Heirs(G, G.leader)

\* The hub when 0, 1, ... guilds are validated, in the order of an unordered_map.
Validated(w, d, order, heir) ==
    LET after[k \in 0 .. Len(order)] ==
          IF k = 0 THEN w ELSE Validate(after[k - 1], d, order[k], heir[order[k]])
    IN  after

\* LoadGuilds; heir[g] is the successor of an absent leader.
LoadGuilds(heir, order) ==
    LET d == Swept(db)
        w == Loaded(d)
        after == Validated(w, d, order, heir)
    IN  /\ ~up
        /\ up' = TRUE
        /\ db' = d
        /\ \A g \in DOMAIN w.store : heir[g] \in Successors(Graded(w, d, g).store[g])
        /\ Becomes(after[Len(order)])
        /\ UNCHANGED <<online, found, view, calls, crashes>>

-----------------------------------------------------------------------------
\* The leaders whose row is that of another guild.
Astray(d) ==
    {c \in Char : \E g \in DOMAIN d.guild : d.guild[g] = c /\ GuildRow(d, c) \notin {g, None}}

Init ==
    /\ up = FALSE
    /\ store = [g \in {} |-> None] /\ pend = <<>>
    /\ online = {} /\ found = {}
    /\ inGuild = Nobody /\ invited = Nobody /\ storage = Nobody
    /\ db \in Tables
    /\ view = [c \in Char |-> GuildRow(db, c)]
    /\ strayed = Astray(db) /\ calls = 0 /\ crashes = 0

OpcodeStep(c, g) ==
    \/ HandleGuildAcceptOpcode(c, g)
    \/ HandleLeaveMember(c, g)
    \/ HandleAddNewRank(c, g)
    \/ HandleRemoveLowestRank(c, g)
    \/ \E d \in Char : \/ HandleInviteMember(c, g, d)
                       \/ HandleSetLeader(c, g, d)
                       \/ \E h \in Char \cup {None} : HandleRemoveMember(c, g, d, h)
                       \/ \E demote \in BOOLEAN : HandleUpdateMemberRank(c, g, d, demote)
    \/ \E r \in 1 .. MaxRanks, b \in Grants : HandleSetRankInfo(c, g, r, b)
    \/ \E o \in SetToSeqs(DOMAIN store[g].members) : HandleDisband(c, g, o)

PlayerStep(c) ==
    \/ HandleGuildDeclineOpcode(c)
    \/ \E garbage \in Garbage[c] : Login(c, garbage)
    \/ Logout(c) \/ Handle_NODE_PLAYER_DATA(c)

\* What is bounded by MaxCalls.
Called ==
    \/ \E c \in Char : PlayerStep(c)
    \/ \E c \in online, g \in DOMAIN store : OpcodeStep(c, g)
    \/ \E n \in 0 .. Len(pend) : NodeStart(n)

Next ==
    \/ up /\ calls < MaxCalls /\ calls' = calls + 1 /\ Called
    \/ \E c \in Char : UpdateNew(c)
    \/ \E n \in 0 .. Len(pend) : Crash(n)
    \/ \E heir \in [Guild -> Char \cup {None}], order \in SetToSeqs(DOMAIN Swept(db).guild) :
          LoadGuilds(heir, order)

Spec == Init /\ [][Next]_vars

-----------------------------------------------------------------------------
Statement ==
    [op : {"leader"}, guild : Guild, char : Char]
      \cup [op : {"rank"}, char : Char, rank : RankId]
      \cup [op : {"join"}, guild : Guild, char : Char, rank : RankId]
      \cup [op : {"leave"}, char : Char]
      \cup [op : {"newrank", "rights"}, guild : Guild, rank : RankId, rights : Rights]
      \cup [op : {"delranks"}, guild : Guild, rank : RankId]
      \cup [op : {"disband"}, guild : Guild]

GuildObject == [leader : Char, ranks : Seq(Rights), members : Partial(Char, RankId)]

\* Type correctness of hub and tables: a guild keeps at least MinRanks ranks
\* (HandleRemoveRank) and at most MaxRanks (HandleAddNewRank), also after a
\* restart from tables with fewer.
TypeOK ==
    /\ up \in BOOLEAN
    /\ found \subseteq online /\ online \subseteq Char /\ strayed \subseteq Char
    /\ inGuild \in [Char -> Guild \cup {None}]
    /\ storage \in [Char -> Guild \cup {None}]
    /\ invited \in [Char -> Nat]
    /\ view \in [Char -> Guild \cup {None}]
    /\ db \in Rows /\ pend \in Seq(Statement)
    /\ DOMAIN store \subseteq Guild /\ store \in [DOMAIN store -> GuildObject]
    /\ \A g \in DOMAIN store :
         /\ Len(store[g].ranks) \in MinRanks .. MaxRanks
         /\ \A c \in DOMAIN store[g].members : store[g].members[c] <= MaxRanks

\* A guild is led by one of its members, and nobody else has the rank of the
\* guild master, which _IsLeader takes for leadership: through leaders who
\* hand over, to themselves too, who leave, decline or are removed, through
\* members of a removed rank, who have every right, and through crashes
\* between the statements of one operation.
LedByMember ==
    \A g \in DOMAIN store :
        /\ store[g].leader \in DOMAIN store[g].members
        /\ \A c \in DOMAIN store[g].members :
             store[g].members[c] = GuildMaster => c = store[g].leader

\* m_members of the guilds, the global player data and the m_GuildId of the
\* players agree, and so nobody is in two guilds, for a character that has not
\* strayed.
MembershipAgrees ==
    up => \A c \in Char \ strayed :
            /\ GuildsOf(store, c) = {storage[c]} \ {None}
            /\ c \in online => inGuild[c] = storage[c]

\* What the worker thread will have written is what the hub has in memory:
\* guilds, leaders, ranks and their rights as a restart would read them, and
\* the members who have not strayed.
Durable ==
    LET d == Drained(db, pend)
    IN  up => /\ DOMAIN store = DOMAIN d.guild
              /\ \A g \in DOMAIN store :
                   /\ d.guild[g] = store[g].leader
                   /\ DOMAIN d.ranks[g] = 0 .. LowestRank(store[g])
                   /\ \A r \in DOMAIN d.ranks[g] :
                        store[g].ranks[r + 1] = RightsIn(d.ranks[g], r)
              /\ \A c \in Char \ strayed :
                   IF c \in DOMAIN d.member
                   THEN LET g == d.member[c].guild
                        IN  GuildsOf(store, c) = {g} /\ store[g].members[c] = d.member[c].rank
                   ELSE GuildsOf(store, c) = {}

\* A restart, wherever the hub crashed, gives every guild that still has a
\* sound member a leader with the guild master's rank, and loses none of the
\* members whose rows are there.
RestartRepairs ==
    [][~up /\ up' =>
        /\ \A g \in DOMAIN store' : store'[g].members[store'[g].leader] = GuildMaster
        /\ \A c \in DOMAIN db.member \ Broken :
             db.member[c].guild \in DOMAIN db.guild
               => c \in DOMAIN store'[db.member[c].guild].members]_vars
=============================================================================
