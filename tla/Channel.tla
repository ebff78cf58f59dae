------------------------------ MODULE Channel ------------------------------
(***************************************************************************)
(* A chat channel of the hub (shade/Chat/Channel): its members, its owner, *)
(* its bans and its password, as a value, and the operations of the class  *)
(* as functions from a channel to a channel.                               *)
(*                                                                         *)
(* players is a std::map from guid to PlayerInfo.  The operator [] of the  *)
(* map adds a missing entry whose PlayerInfo.player is 0, and the class    *)
(* reads guids from there: NoGuid is therefore a possible key.             *)
(* m_announce only decides which messages are sent and is left out.        *)
(***************************************************************************)
EXTENDS Naturals, FiniteSets, FiniteSetsExt, Functions

CONSTANTS
    Guid,       \* guids of the characters
    Password    \* the passwords clients use, NoPassword excluded

ASSUME GuidAssumption == Guid \subseteq Nat \ {0}

NoGuid     == 0
NoPassword == "none"

Flags == {"owner", "moderator", "muted"}

Info == [player : Guid \cup {NoGuid}, flags : SUBSET Flags]

\* The id that the client sends with the name of the channel: 0, a number that
\* ChatChannels.dbc does not have, a channel of that file, or one of its LFG
\* channels.
Kinds == {"custom", "unknown", "builtin", "lfg"}

\* The constructor finds the id in ChatChannels.dbc.
InDBC(kind) == kind \in {"builtin", "lfg"}

Channels ==
    [kind     : Kinds,
     ownership: BOOLEAN,
     players  : UNION {[M -> Info] : M \in SUBSET (Guid \cup {NoGuid})},
     owner    : Guid \cup {NoGuid},
     banned   : SUBSET Guid,
     password : Password \cup {NoPassword}]

\* What the database says of a channel, and what holds without it.
Rows == [ownership : BOOLEAN, banned : SUBSET Guid, password : Password \cup {NoPassword}]

NoRow == [ownership |-> TRUE, banned |-> {}, password |-> NoPassword]

\* The constructor; a channel of the DBC hands out no ownership, another one
\* takes what row says.
NewChannel(kind, row) ==
    [kind |-> kind, ownership |-> row.ownership /\ ~InDBC(kind),
     players |-> [g \in {} |-> 0], owner |-> NoGuid,
     banned |-> row.banned, password |-> row.password]

\* IsConstant: m_channelId is not 0, whether the DBC has it or not.
IsConstant(ch) == ch.kind # "custom"

Members(ch) == DOMAIN ch.players

IsOn(ch, p) == p \in Members(ch)

HasFlag(ch, p, f) == IsOn(ch, p) /\ f \in ch.players[p].flags

-----------------------------------------------------------------------------
\* players[p] = info
Put(ch, p, info) ==
    [ch EXCEPT !.players = [q \in Members(ch) \cup {p} |->
                              IF q = p THEN info ELSE ch.players[q]]]

\* players[p].flags |= new, which adds the entry if there is none.
SetFlags(ch, p, new) ==
    Put(ch, p, IF IsOn(ch, p)
               THEN [ch.players[p] EXCEPT !.flags = @ \cup new]
               ELSE [player |-> NoGuid, flags |-> new])

ClearFlag(ch, p, f) ==
    IF IsOn(ch, p) THEN Put(ch, p, [ch.players[p] EXCEPT !.flags = @ \ {f}]) ELSE ch

Erase(ch, p) == [ch EXCEPT !.players = Restrict(@, Members(ch) \ {p})]

\* Mutant of SetOwner: the old owner keeps the flag.
SetOwnerOnly(ch, p) ==
    IF p = NoGuid THEN [ch EXCEPT !.owner = p]
                  ELSE SetFlags([ch EXCEPT !.owner = p], p, {"owner", "moderator"})

\* SetOwner(guid).
SetOwner(ch, p) ==
    LET rest == [ClearFlag(ch, ch.owner, "owner") EXCEPT !.owner = p]
    IN  IF p = NoGuid THEN rest ELSE SetFlags(rest, p, {"owner", "moderator"})

-----------------------------------------------------------------------------
\* The early returns of Join; closed: the player is found and the configuration
\* keeps players out of LFG channels.
Admits(ch, p, pass, closed) ==
    /\ ~IsOn(ch, p)
    /\ p \notin ch.banned
    /\ ch.password \in {NoPassword, pass}
    /\ ~(ch.kind = "lfg" /\ closed)

\* Join, once p is admitted.  The first member of a custom channel with
\* ownership owns it.
Joined(ch, p) ==
    LET in == Put(ch, p, [player |-> p, flags |-> {}])
    IN  IF IsConstant(ch) \/ ~ch.ownership \/ ch.owner # NoGuid THEN in ELSE SetOwner(in, p)

\* Leave, of a member.  The owner's place goes to the first entry of the map,
\* to the guid that its PlayerInfo holds.
Left(ch, p) ==
    LET rest == Erase(ch, p)
    IN  IF IsConstant(ch) \/ ~ch.ownership \/ ~HasFlag(ch, p, "owner") \/ Members(rest) = {}
        THEN rest
        ELSE LET heir == rest.players[Min(Members(rest))].player
             IN  SetOwner(SetFlags(rest, heir, {"moderator"}), heir)

\* The rights that KickOrBan, UnBan, Password and SetMode ask for; gm: the
\* account of p is a game master's.
Moderates(ch, p, gm) == IsOn(ch, p) /\ (gm \/ HasFlag(ch, p, "moderator"))

MayKick(ch, good, bad, gm) ==
    /\ Moderates(ch, good, gm)
    /\ IsOn(ch, bad)
    /\ gm \/ bad # ch.owner \/ good = ch.owner

\* Mutant of Kicked: a ban only keeps out who is not in the channel.
KickedOrBanned(ch, good, bad, ban) ==
    IF ban THEN [ch EXCEPT !.banned = @ \cup {bad}]
    ELSE LET rest == Erase(ch, bad)
         IN  IF ~ch.ownership \/ ch.owner # bad \/ Members(rest) = {}
             THEN rest
             ELSE SetOwner(SetFlags(rest, good, {"moderator"}), good)

\* KickOrBan, once it is allowed.  The owner's place goes to the kicker, who
\* is added again when he kicks himself.  Whether the channel is constant is
\* not asked here.
Kicked(ch, good, bad, ban) ==
    LET rest == [Erase(ch, bad) EXCEPT !.banned = IF ban THEN @ \cup {bad} ELSE @]
    IN  IF ~ch.ownership \/ ch.owner # bad \/ Members(rest) = {}
        THEN rest
        ELSE SetOwner(SetFlags(rest, good, {"moderator"}), good)

UnBanned(ch, bad) == [ch EXCEPT !.banned = @ \ {bad}]

\* Mutant of MaySetMode: a moderator may change the owner's flags.
MaySetAnyMode(ch, p, q, flag, gm, near) ==
    /\ Moderates(ch, p, gm)
    /\ ~(p = ch.owner /\ q = ch.owner /\ flag = "moderator")
    /\ IsOn(ch, q)
    /\ near

\* Both sides of SetMode's conditions on p and q; near: q is of p's team, or
\* teams do not matter, or both are game masters.
MaySetMode(ch, p, q, flag, gm, near) ==
    /\ Moderates(ch, p, gm)
    /\ ~(p = ch.owner /\ q = ch.owner /\ flag = "moderator")
    /\ IsOn(ch, q)
    /\ near
    /\ q # ch.owner \/ p = ch.owner

SetMode(ch, q, flag, set) ==
    IF set THEN SetFlags(ch, q, {flag}) ELSE ClearFlag(ch, q, flag)

\* SetOwner(name).
MaySetOwner(ch, p, q, gm, near) ==
    IsOn(ch, p) /\ (gm \/ p = ch.owner) /\ IsOn(ch, q) /\ near

-----------------------------------------------------------------------------
(* What a channel may not be in, whoever does what.                        *)

\* At most one member has the owner flag, the one that m_ownerGUID names:
\* Leave decides by the flag, KickOrBan and SetMode by m_ownerGUID, and they
\* must agree on who the owner is.
OneOwner(ch) ==
    \A p \in Members(ch) : HasFlag(ch, p, "owner") => p = ch.owner

\* Who has the owner flag has the moderator flag, without which the class lets
\* nobody kick, ban or set flags.
OwnerModerates(ch) ==
    \A p \in Members(ch) : HasFlag(ch, p, "owner") => HasFlag(ch, p, "moderator")

\* A banned character is not a member, unless [] has re-added it.
BannedIsOut(ch) ==
    \A p \in Members(ch) \cap ch.banned : ch.players[p].player = NoGuid
=============================================================================
