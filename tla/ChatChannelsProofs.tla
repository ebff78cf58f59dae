------------------------- MODULE ChatChannelsProofs -------------------------
(***************************************************************************)
(* Proofs about the chat channels of the hub.  The operations of the class *)
(* Channel keep the owner flag with m_ownerGUID and the banned out; from   *)
(* that, every channel of the hub does, through joins, kicks, logouts and  *)
(* players that take the place of another, for every number of characters, *)
(* sessions and channels.                                                  *)
(***************************************************************************)
EXTENDS ChatChannels, FiniteSetTheorems, WellFoundedInduction, TLAPS

AnyGuid == Guid \cup {NoGuid}

(* begin() of a std::map that is not empty is its smallest key: the        *)
(* intervals 0 .. x are well ordered by inclusion.                         *)
LEMMA MinExists ==
    ASSUME NEW S \in SUBSET Nat, S # {}
    PROVE  \E x \in S : \A y \in S : x =< y
<1> DEFINE I == {0 .. x : x \in S}
           R == StrictSubsetOrdering(Nat)
<1>1. IsWellFoundedOn(R, FiniteSubsetsOf(Nat))
  BY FS_StrictSubsetOrderingWellFounded
<1>2. I \subseteq FiniteSubsetsOf(Nat)
  <2> SUFFICES ASSUME NEW x \in S PROVE 0 .. x \in FiniteSubsetsOf(Nat)
    OBVIOUS
  <2>1. 0 \in Int /\ x \in Int /\ 0 .. x \in SUBSET Nat  OBVIOUS
  <2>2. IsFiniteSet(0 .. x)  BY <2>1, FS_Interval
  <2> QED  BY <2>1, <2>2 DEF FiniteSubsetsOf
<1>3. I # {}  OBVIOUS
<1> HIDE DEF I
<1>4. PICK i \in I : \A j \in I : ~(<<j, i>> \in R)
  BY <1>1, <1>2, <1>3, WFMin
<1>5. PICK x \in S : i = 0 .. x  BY <1>4 DEF I
<1>6. \A y \in S : x =< y
  <2> SUFFICES ASSUME NEW y \in S, ~(x =< y) PROVE FALSE
    OBVIOUS
  <2>1. 0 .. y \in I  BY DEF I
  <2>2. x \in Nat /\ y \in Nat /\ y < x  OBVIOUS
  <2>3. 0 .. y \subseteq 0 .. x /\ x \in 0 .. x /\ x \notin 0 .. y  BY <2>2
  <2>4. 0 .. y \subseteq 0 .. x /\ 0 .. y # 0 .. x  BY <2>3
  <2>5. 0 .. y \in SUBSET Nat /\ 0 .. x \in SUBSET Nat  OBVIOUS
  <2>6. <<0 .. y, 0 .. x>> \in R  BY <2>4, <2>5 DEF StrictSubsetOrdering
  <2> QED  BY <1>4, <1>5, <2>1, <2>6
<1> QED  BY <1>5, <1>6

(* A set of natural numbers that is not empty has its least element.       *)
LEMMA MinIsElement ==
    ASSUME NEW S \in SUBSET Nat, S # {}
    PROVE  Min(S) \in S
BY MinExists DEF Min

-----------------------------------------------------------------------------
(* The fields of a channel.                                                *)
LEMMA ChannelFields ==
    ASSUME NEW ch \in Channels
    PROVE  /\ ch = [kind |-> ch.kind, ownership |-> ch.ownership, players |-> ch.players, owner |-> ch.owner,
                    banned |-> ch.banned, password |-> ch.password]
           /\ Members(ch) \subseteq AnyGuid
           /\ ch.players \in [Members(ch) -> Info]
           /\ ch.kind \in Kinds /\ ch.ownership \in BOOLEAN /\ ch.owner \in AnyGuid /\ ch.banned \subseteq Guid
           /\ ch.password \in Password \cup {NoPassword}
<1>1. PICK M \in SUBSET AnyGuid : ch.players \in [M -> Info]
  BY DEF Channels, AnyGuid
<1>2. M = Members(ch)  BY <1>1 DEF Members
<1> QED  BY <1>1, <1>2 DEF Channels, AnyGuid

(* A record with such fields is a channel.                                 *)
LEMMA ChannelMade ==
    ASSUME NEW k \in Kinds, NEW w \in BOOLEAN, NEW M \in SUBSET AnyGuid, NEW ps \in [M -> Info],
           NEW o \in AnyGuid, NEW b \in SUBSET Guid, NEW pw \in Password \cup {NoPassword}
    PROVE  [kind |-> k, ownership |-> w, players |-> ps, owner |-> o, banned |-> b,
            password |-> pw] \in Channels
BY DEF Channels, AnyGuid

(* r is the channel ch with another entry, or none, for p.                 *)
SameBut(r, ch, p) ==
    /\ r \in Channels
    /\ r.owner = ch.owner /\ r.banned = ch.banned /\ r.kind = ch.kind
    /\ Members(r) \ {p} = Members(ch) \ {p}
    /\ \A q \in Members(ch) \ {p} : r.players[q] = ch.players[q]

(* players[p] = info.                                                      *)
LEMMA PutFacts ==
    ASSUME NEW ch \in Channels, NEW p \in AnyGuid, NEW info \in Info
    PROVE  /\ SameBut(Put(ch, p, info), ch, p)
           /\ Members(Put(ch, p, info)) = Members(ch) \cup {p}
           /\ Put(ch, p, info).players[p] = info
<1> DEFINE M == Members(ch) \cup {p}
           f == [q \in M |-> IF q = p THEN info ELSE ch.players[q]]
<1>1. Put(ch, p, info) = [kind |-> ch.kind, ownership |-> ch.ownership, players |-> f, owner |-> ch.owner,
                          banned |-> ch.banned, password |-> ch.password]
  BY ChannelFields DEF Put
<1>2. M \in SUBSET AnyGuid /\ f \in [M -> Info]  BY ChannelFields
<1>3. f[p] = info /\ \A q \in Members(ch) \ {p} : f[q] = ch.players[q]  OBVIOUS
<1>4. DOMAIN f = M  OBVIOUS
<1> HIDE DEF f
<1>5. Put(ch, p, info) \in Channels
  <2>1. [kind |-> ch.kind, ownership |-> ch.ownership, players |-> f, owner |-> ch.owner,
         banned |-> ch.banned, password |-> ch.password] \in Channels
    BY <1>2, ChannelFields, ChannelMade
  <2> QED  BY <1>1, <2>1
<1>6. /\ Put(ch, p, info).players = f /\ Put(ch, p, info).owner = ch.owner
      /\ Put(ch, p, info).banned = ch.banned /\ Put(ch, p, info).kind = ch.kind
  BY <1>1
<1> QED  BY <1>3, <1>4, <1>5, <1>6 DEF Members, SameBut

(* players[p].flags |= new: a missing entry is added without a guid.       *)
LEMMA SetFlagsFacts ==
    ASSUME NEW ch \in Channels, NEW p \in AnyGuid, NEW new \in SUBSET Flags
    PROVE  /\ SameBut(SetFlags(ch, p, new), ch, p)
           /\ Members(SetFlags(ch, p, new)) = Members(ch) \cup {p}
           /\ p \in Members(ch) =>
                /\ SetFlags(ch, p, new).players[p].flags = ch.players[p].flags \cup new
                /\ SetFlags(ch, p, new).players[p].player = ch.players[p].player
           /\ p \notin Members(ch) =>
                /\ SetFlags(ch, p, new).players[p].flags = new
                /\ SetFlags(ch, p, new).players[p].player = NoGuid
<1> DEFINE i == IF IsOn(ch, p) THEN [ch.players[p] EXCEPT !.flags = @ \cup new]
                               ELSE [player |-> NoGuid, flags |-> new]
<1>1. i \in Info  BY ChannelFields DEF Info, IsOn, AnyGuid
<1>2. /\ p \in Members(ch) =>
           i.flags = ch.players[p].flags \cup new /\ i.player = ch.players[p].player
      /\ p \notin Members(ch) => i.flags = new /\ i.player = NoGuid
  BY ChannelFields DEF Info, IsOn
<1>3. SetFlags(ch, p, new) = Put(ch, p, i)  BY DEF SetFlags
<1> HIDE DEF i
<1> QED  BY <1>1, <1>2, <1>3, PutFacts

(* players[p].flags &= ~f, of a member.                                    *)
LEMMA ClearFlagFacts ==
    ASSUME NEW ch \in Channels, NEW p \in AnyGuid, NEW f
    PROVE  /\ SameBut(ClearFlag(ch, p, f), ch, p)
           /\ Members(ClearFlag(ch, p, f)) = Members(ch)
           /\ IsOn(ch, p) => /\ ClearFlag(ch, p, f).players[p].player = ch.players[p].player
                             /\ ClearFlag(ch, p, f).players[p].flags = ch.players[p].flags \ {f}
<1>1. CASE ~IsOn(ch, p)  BY <1>1 DEF ClearFlag, SameBut
<1>2. CASE IsOn(ch, p)
  <2> DEFINE i == [ch.players[p] EXCEPT !.flags = @ \ {f}]
  <2>1. i \in Info  BY <1>2, ChannelFields DEF Info, IsOn
  <2>2. i.flags = ch.players[p].flags \ {f} /\ i.player = ch.players[p].player
    BY <1>2, ChannelFields DEF Info, IsOn
  <2>3. ClearFlag(ch, p, f) = Put(ch, p, i)  BY <1>2 DEF ClearFlag
  <2> HIDE DEF i
  <2>4. /\ SameBut(Put(ch, p, i), ch, p) /\ Members(Put(ch, p, i)) = Members(ch) \cup {p}
        /\ Put(ch, p, i).players[p] = i
    BY <2>1, PutFacts
  <2> QED  BY <1>2, <2>2, <2>3, <2>4 DEF IsOn
<1> QED  BY <1>1, <1>2

(* players.erase(p).                                                       *)
LEMMA EraseFacts ==
    ASSUME NEW ch \in Channels, NEW p
    PROVE  SameBut(Erase(ch, p), ch, p) /\ Members(Erase(ch, p)) = Members(ch) \ {p}
<1> DEFINE M == Members(ch) \ {p}
           f == [q \in M |-> ch.players[q]]
<1>1. Erase(ch, p) = [kind |-> ch.kind, ownership |-> ch.ownership, players |-> f, owner |-> ch.owner,
                      banned |-> ch.banned, password |-> ch.password]
  BY ChannelFields DEF Erase, Restrict
<1>2. M \in SUBSET AnyGuid /\ f \in [M -> Info]  BY ChannelFields
<1>3. \A q \in M : f[q] = ch.players[q]  OBVIOUS
<1> HIDE DEF f
<1> QED  BY <1>1, <1>2, <1>3, ChannelFields, ChannelMade DEF Members, SameBut

-----------------------------------------------------------------------------
(* What every operation of Channel keeps.                                  *)
Sound(ch) == ch \in Channels /\ OneOwner(ch) /\ OwnerModerates(ch) /\ BannedIsOut(ch)

(* The entry of p decides whether a channel that differs in it is sound.   *)
LEMMA SoundBut ==
    ASSUME NEW ch, Sound(ch), NEW p, NEW r, SameBut(r, ch, p),
           p \in Members(r) =>
             /\ "owner" \in r.players[p].flags => p = ch.owner
             /\ "owner" \in r.players[p].flags => "moderator" \in r.players[p].flags
             /\ p \in ch.banned => r.players[p].player = NoGuid
    PROVE  Sound(r)
<1>1. OneOwner(r)  BY DEF Sound, SameBut, OneOwner, HasFlag, IsOn
<1>2. BannedIsOut(r)  BY DEF Sound, SameBut, BannedIsOut
<1>3. OwnerModerates(r)  BY DEF Sound, SameBut, OwnerModerates, HasFlag, IsOn
<1> QED  BY <1>1, <1>2, <1>3 DEF Sound, SameBut

(* A flag other than "owner" may be given to anyone.                       *)
LEMMA FlagsSound ==
    ASSUME NEW ch, Sound(ch), NEW p \in AnyGuid, NEW new \in SUBSET (Flags \ {"owner"})
    PROVE  Sound(SetFlags(ch, p, new))
<1> DEFINE r == SetFlags(ch, p, new)
<1>1. ch \in Channels /\ new \in SUBSET Flags  BY DEF Sound
<1>2. /\ SameBut(r, ch, p)
      /\ p \in Members(ch) =>
           r.players[p].flags = ch.players[p].flags \cup new /\ r.players[p].player = ch.players[p].player
      /\ p \notin Members(ch) => r.players[p].flags = new /\ r.players[p].player = NoGuid
  BY <1>1, SetFlagsFacts
<1> HIDE DEF r
<1>3. "owner" \in r.players[p].flags => p = ch.owner
  BY <1>2 DEF Sound, OneOwner, HasFlag, IsOn
<1>4. p \in ch.banned => r.players[p].player = NoGuid
  BY <1>2 DEF Sound, BannedIsOut, IsOn
<1>5. "owner" \in r.players[p].flags => "moderator" \in r.players[p].flags
  BY <1>2 DEF Sound, OwnerModerates, HasFlag, IsOn
<1>6. Sound(r)  BY <1>2, <1>3, <1>4, <1>5, SoundBut
<1> QED  BY <1>6 DEF r

(* A flag may be taken from anyone, but the moderator's from the owner.    *)
LEMMA ClearSound ==
    ASSUME NEW ch, Sound(ch), NEW p \in AnyGuid, NEW f, f = "moderator" => p # ch.owner
    PROVE  Sound(ClearFlag(ch, p, f))
<1> DEFINE r == ClearFlag(ch, p, f)
<1>1. ch \in Channels  BY DEF Sound
<1>2. /\ SameBut(r, ch, p) /\ Members(r) = Members(ch)
      /\ IsOn(ch, p) => /\ r.players[p].player = ch.players[p].player
                        /\ r.players[p].flags = ch.players[p].flags \ {f}
  BY <1>1, ClearFlagFacts
<1> HIDE DEF r
<1>3. p \in Members(r) => ("owner" \in r.players[p].flags => p = ch.owner)
  BY <1>2 DEF Sound, OneOwner, HasFlag, IsOn
<1>4. p \in Members(r) => (p \in ch.banned => r.players[p].player = NoGuid)
  BY <1>2 DEF Sound, BannedIsOut, IsOn
<1>5. p \in Members(r) => ("owner" \in r.players[p].flags => "moderator" \in r.players[p].flags)
  BY <1>2, <1>3 DEF Sound, OwnerModerates, HasFlag, IsOn
<1>6. Sound(r)  BY <1>2, <1>3, <1>4, <1>5, SoundBut
<1> QED  BY <1>6 DEF r

(* A member may be erased.                                                 *)
LEMMA EraseSound ==
    ASSUME NEW ch, Sound(ch), NEW p
    PROVE  Sound(Erase(ch, p))
<1>1. ch \in Channels  BY DEF Sound
<1>2. SameBut(Erase(ch, p), ch, p) /\ p \notin Members(Erase(ch, p))
  BY <1>1, EraseFacts
<1> QED  BY <1>2, SoundBut

(* SetOwner takes the flag from the old owner before the new one gets it.  *)
LEMMA OwnerSound ==
    ASSUME NEW ch, Sound(ch), NEW p \in AnyGuid
    PROVE  Sound(SetOwner(ch, p))
<1> DEFINE cl == ClearFlag(ch, ch.owner, "owner")
           rest == [cl EXCEPT !.owner = p]
<1>1. ch \in Channels /\ ch.owner \in AnyGuid  BY ChannelFields DEF Sound
<1>2. /\ SameBut(cl, ch, ch.owner) /\ Members(cl) = Members(ch)
      /\ IsOn(ch, ch.owner) => cl.players[ch.owner].flags = ch.players[ch.owner].flags \ {"owner"}
  BY <1>1, ClearFlagFacts
<1>3. Sound(cl)  BY <1>1, ClearSound
<1> HIDE DEF cl
<1>4. \A q \in Members(cl) : "owner" \notin cl.players[q].flags
  BY <1>2 DEF Sound, OneOwner, HasFlag, IsOn, SameBut
<1>5. cl \in Channels  BY <1>3 DEF Sound
<1>6. /\ rest = [kind |-> cl.kind, ownership |-> cl.ownership, players |-> cl.players, owner |-> p,
                 banned |-> cl.banned, password |-> cl.password]
      /\ rest \in Channels
  BY <1>5, ChannelFields, ChannelMade
<1>7. /\ Members(rest) = Members(cl) /\ rest.players = cl.players /\ rest.owner = p
      /\ rest.banned = cl.banned
  BY <1>6 DEF Members
<1> HIDE DEF rest
<1>8. \A q \in Members(rest) : "owner" \notin rest.players[q].flags
  BY <1>4, <1>7
<1>9. Sound(rest)
  BY <1>3, <1>6, <1>7, <1>8 DEF Sound, OneOwner, OwnerModerates, HasFlag, BannedIsOut
<1>10. CASE p = NoGuid
  <2>1. SetOwner(ch, p) = rest  BY <1>10 DEF SetOwner, rest, cl
  <2> QED  BY <1>9, <2>1
<1>11. CASE p # NoGuid
  <2> DEFINE new == {"owner", "moderator"}
             r == SetFlags(rest, p, new)
  <2>1. SetOwner(ch, p) = r  BY <1>11 DEF SetOwner, rest, cl
  <2>2. new \in SUBSET Flags  BY DEF Flags
  <2>3. /\ SameBut(r, rest, p)
        /\ p \in Members(rest) => r.players[p].player = rest.players[p].player
        /\ p \notin Members(rest) => r.players[p].player = NoGuid
        /\ "moderator" \in r.players[p].flags
    BY <1>6, <2>2, SetFlagsFacts
  <2> HIDE DEF r
  <2>4. p \in rest.banned => r.players[p].player = NoGuid
    BY <1>9, <2>3 DEF Sound, BannedIsOut, IsOn
  <2>5. Sound(r)  BY <1>7, <1>9, <2>3, <2>4, SoundBut
  <2> QED  BY <2>1, <2>5
<1> QED  BY <1>10, <1>11

(* The constructor makes a channel without members.                        *)
LEMMA NewSound ==
    ASSUME NEW k \in Kinds, NEW row \in Rows
    PROVE  Sound(NewChannel(k, row)) /\ Members(NewChannel(k, row)) = {}
<1> DEFINE f == [g \in {} |-> 0]
           w == row.ownership /\ ~InDBC(k)
           r == NewChannel(k, row)
<1>1. f \in [{} -> Info] /\ DOMAIN f = {}  OBVIOUS
<1> HIDE DEF f
<1>2. r = [kind |-> k, ownership |-> w, players |-> f, owner |-> NoGuid,
           banned |-> row.banned, password |-> row.password]
  BY DEF NewChannel, f
<1>3. /\ NoGuid \in AnyGuid /\ {} \in SUBSET AnyGuid /\ w \in BOOLEAN
      /\ row.banned \in SUBSET Guid /\ row.password \in Password \cup {NoPassword}
  BY DEF AnyGuid, Rows
<1> HIDE DEF r, w
<1>4. r \in Channels
  <2>1. \A M \in SUBSET AnyGuid : f \in [M -> Info] =>
          [kind |-> k, ownership |-> w, players |-> f, owner |-> NoGuid,
           banned |-> row.banned, password |-> row.password] \in Channels
    BY <1>3, ChannelMade
  <2> QED  BY <1>1, <1>2, <1>3, <2>1
<1>5. Members(r) = {}  BY <1>1, <1>2 DEF Members
<1>6. Sound(r)  BY <1>4, <1>5 DEF Sound, OneOwner, OwnerModerates, BannedIsOut
<1> QED  BY <1>5, <1>6 DEF r

(* Join: whoever is not banned becomes a member without flags, and the     *)
(* owner if there is none.                                                 *)
LEMMA JoinSound ==
    ASSUME NEW ch, Sound(ch), NEW p \in Guid, p \notin ch.banned
    PROVE  Sound(Joined(ch, p))
<1> DEFINE i == [player |-> p, flags |-> {}]
           in == Put(ch, p, i)
<1>1. ch \in Channels /\ p \in AnyGuid /\ i \in Info  BY DEF Sound, AnyGuid, Info
<1>2. SameBut(in, ch, p) /\ in.players[p] = i  BY <1>1, PutFacts
<1>3. "owner" \notin i.flags  OBVIOUS
<1>4. Sound(in)  BY <1>2, <1>3, SoundBut
<1> HIDE DEF in
<1>5. Sound(SetOwner(in, p))  BY <1>1, <1>4, OwnerSound
<1>6. Joined(ch, p) = in \/ Joined(ch, p) = SetOwner(in, p)  BY DEF Joined, in
<1> QED  BY <1>4, <1>5, <1>6

(* Leave: the owner's place goes to the first entry of the map.            *)
LEMMA LeaveSound ==
    ASSUME NEW ch, Sound(ch), NEW p
    PROVE  Sound(Left(ch, p))
<1> DEFINE rest == Erase(ch, p)
           heir == rest.players[Min(Members(rest))].player
<1>1. Sound(rest)  BY EraseSound
<1> HIDE DEF rest
<1>2. CASE IsConstant(ch) \/ ~ch.ownership \/ ~HasFlag(ch, p, "owner") \/ Members(rest) = {}
  <2>1. Left(ch, p) = rest  BY <1>2 DEF Left, rest
  <2> QED  BY <1>1, <2>1
<1>3. CASE ~(IsConstant(ch) \/ ~ch.ownership \/ ~HasFlag(ch, p, "owner") \/ Members(rest) = {})
  <2>1. rest \in Channels  BY <1>1 DEF Sound
  <2>2. Members(rest) \in SUBSET Nat
    BY <2>1, ChannelFields, GuidAssumption DEF AnyGuid, NoGuid
  <2>3. Min(Members(rest)) \in Members(rest)  BY <1>3, <2>2, MinIsElement
  <2>4. heir \in AnyGuid  BY <2>1, <2>3, ChannelFields DEF Info, AnyGuid
  <2>5. Left(ch, p) = SetOwner(SetFlags(rest, heir, {"moderator"}), heir)
    BY <1>3 DEF Left, rest
  <2> HIDE DEF heir
  <2>6. {"moderator"} \in SUBSET (Flags \ {"owner"})  BY DEF Flags
  <2>7. Sound(SetFlags(rest, heir, {"moderator"}))  BY <1>1, <2>4, <2>6, FlagsSound
  <2> QED  BY <2>4, <2>5, <2>7, OwnerSound
<1> QED  BY <1>2, <1>3

(* KickOrBan: the banned member is erased first, and the entry that []     *)
(* adds for a kicker who has kicked himself holds no guid.                 *)
LEMMA KickSound ==
    ASSUME NEW ch, Sound(ch), NEW good \in Guid, NEW bad \in Guid, NEW ban \in BOOLEAN
    PROVE  Sound(Kicked(ch, good, bad, ban))
<1> DEFINE er == Erase(ch, bad)
           b == IF ban THEN er.banned \cup {bad} ELSE er.banned
           rest == [er EXCEPT !.banned = b]
<1>1. ch \in Channels  BY DEF Sound
<1>2. Sound(er) /\ bad \notin Members(er)  BY <1>1, EraseSound, EraseFacts
<1> HIDE DEF er
<1>3. er \in Channels  BY <1>2 DEF Sound
<1>4. b \in SUBSET Guid /\ b \ {bad} \subseteq er.banned  BY <1>3, ChannelFields
<1> HIDE DEF b
<1>5. /\ rest = [kind |-> er.kind, ownership |-> er.ownership, players |-> er.players, owner |-> er.owner,
                 banned |-> b, password |-> er.password]
      /\ rest \in Channels
  BY <1>3, <1>4, ChannelFields, ChannelMade
<1>6. /\ Members(rest) = Members(er) /\ rest.players = er.players /\ rest.owner = er.owner
      /\ rest.banned = b
  BY <1>5 DEF Members
<1> HIDE DEF rest
<1>7. OneOwner(rest)  BY <1>2, <1>6 DEF Sound, OneOwner, HasFlag, IsOn
<1>8. /\ BannedIsOut(rest)
      /\ OwnerModerates(rest)
  BY <1>2, <1>4, <1>6 DEF Sound, BannedIsOut, OwnerModerates, HasFlag, IsOn
<1>9. Sound(rest)  BY <1>5, <1>7, <1>8 DEF Sound
<1>10. {"moderator"} \in SUBSET (Flags \ {"owner"}) /\ good \in AnyGuid  BY DEF Flags, AnyGuid
<1>11. Sound(SetOwner(SetFlags(rest, good, {"moderator"}), good))
  BY <1>9, <1>10, FlagsSound, OwnerSound
<1>12. \/ Kicked(ch, good, bad, ban) = rest
       \/ Kicked(ch, good, bad, ban) = SetOwner(SetFlags(rest, good, {"moderator"}), good)
  BY DEF Kicked, rest, b, er
<1> QED  BY <1>9, <1>11, <1>12

(* UnBan and Password change one field each.                               *)
LEMMA FieldsSound ==
    ASSUME NEW ch, Sound(ch), NEW bad, NEW pw \in Password \cup {NoPassword}
    PROVE  Sound(UnBanned(ch, bad)) /\ Sound([ch EXCEPT !.password = pw])
<1>1. ch \in Channels  BY DEF Sound
<1>2. Sound(UnBanned(ch, bad))
  <2> DEFINE r == UnBanned(ch, bad)
  <2>1. r = [kind |-> ch.kind, ownership |-> ch.ownership, players |-> ch.players, owner |-> ch.owner,
             banned |-> ch.banned \ {bad}, password |-> ch.password]
    <3> DEFINE b == ch.banned \ {bad}
    <3>1. r = [ch EXCEPT !.banned = b]  BY DEF UnBanned
    <3> HIDE DEF b, r
    <3>2. r = [kind |-> ch.kind, ownership |-> ch.ownership, players |-> ch.players, owner |-> ch.owner,
               banned |-> b, password |-> ch.password]
      BY <1>1, <3>1, ChannelFields
    <3> QED  BY <3>2 DEF b
  <2>2. ch.banned \ {bad} \in SUBSET Guid  BY <1>1, ChannelFields
  <2>3. r \in Channels  BY <1>1, <2>1, <2>2, ChannelFields, ChannelMade
  <2>4. /\ Members(r) = Members(ch) /\ r.players = ch.players /\ r.owner = ch.owner
        /\ r.banned \subseteq ch.banned
    BY <2>1 DEF Members
  <2> HIDE DEF r
  <2>5. Sound(r)  BY <2>3, <2>4 DEF Sound, OneOwner, OwnerModerates, HasFlag, IsOn, BannedIsOut
  <2> QED  BY <2>5 DEF r
<1>3. Sound([ch EXCEPT !.password = pw])
  <2> DEFINE r == [ch EXCEPT !.password = pw]
  <2>1. r = [kind |-> ch.kind, ownership |-> ch.ownership, players |-> ch.players, owner |-> ch.owner,
             banned |-> ch.banned, password |-> pw]
    BY <1>1, ChannelFields
  <2>3. r \in Channels  BY <1>1, <2>1, ChannelFields, ChannelMade
  <2>4. /\ Members(r) = Members(ch) /\ r.players = ch.players /\ r.owner = ch.owner
        /\ r.banned \subseteq ch.banned
    BY <2>1 DEF Members
  <2> HIDE DEF r
  <2>5. Sound(r)  BY <2>3, <2>4 DEF Sound, OneOwner, OwnerModerates, HasFlag, IsOn, BannedIsOut
  <2> QED  BY <2>5 DEF r
<1> QED  BY <1>2, <1>3

(* SetMode gives and takes "moderator" and "muted" only.                   *)
LEMMA ModeSound ==
    ASSUME NEW ch, Sound(ch), NEW q \in Guid, NEW flag \in Modes, NEW set \in BOOLEAN,
           flag = "moderator" /\ ~set => q # ch.owner
    PROVE  Sound(SetMode(ch, q, flag, set))
<1>1. {flag} \in SUBSET (Flags \ {"owner"}) /\ q \in AnyGuid
  BY CharAssumption DEF Flags, AnyGuid
<1> QED  BY <1>1, FlagsSound, ClearSound DEF SetMode

-----------------------------------------------------------------------------
(* The managers, the channels and the players' lists, as the value Chat.   *)

(* No channel is known under two names, or to both managers.               *)
OneName(m) ==
    \A t1, t2 \in Teams : \A n1, n2 \in Name :
        m[t1][n1] = m[t2][n2] /\ m[t1][n1] # None => t1 = t2 /\ n1 = n2

WorldOK(w) ==
    /\ w = [chans |-> w.chans, heap |-> w.heap, mgr |-> w.mgr]
    /\ w.chans \in [Player -> SUBSET ChanId]
    /\ DOMAIN w.heap \subseteq ChanId
    /\ \A c \in DOMAIN w.heap : Sound(w.heap[c])
    /\ w.mgr \in [Teams -> [Name -> DOMAIN w.heap \cup {None}]]
    /\ OneName(w.mgr)

(* What the constructor takes from the table.                              *)
LEMMA RowTypes ==
    ASSUME NEW t \in Teams, NEW n \in Name, NEW kind \in Kinds
    PROVE  RowOf(t, n, kind) \in Rows
BY CharAssumption DEF RowOf, NoRow, Rows, ChannelMgr, Teams

(* Both managers are teams' managers, also when there is only one.         *)
LEMMA MgrIsTeam ==
    ASSUME NEW t \in Teams
    PROVE  ChannelMgr(t) \in Teams
BY DEF ChannelMgr, Teams

(* Writing a channel back.                                                 *)
LEMMA WriteOK ==
    ASSUME NEW w, WorldOK(w), NEW c \in ChanId, NEW ch, Sound(ch)
    PROVE  /\ WorldOK(Write(w, c, ch))
           /\ Write(w, c, ch).chans = w.chans
           /\ Write(w, c, ch).mgr = w.mgr
           /\ DOMAIN Write(w, c, ch).heap = DOMAIN w.heap \cup {c}
           /\ Write(w, c, ch).heap[c] = ch
           /\ \A d \in DOMAIN w.heap \ {c} : Write(w, c, ch).heap[d] = w.heap[d]
<1> DEFINE h == [d \in DOMAIN w.heap \cup {c} |-> IF d = c THEN ch ELSE w.heap[d]]
           v == Write(w, c, ch)
<1>1. v = [w EXCEPT !.heap = h]  BY DEF Write
<1>2. /\ DOMAIN h = DOMAIN w.heap \cup {c} /\ h[c] = ch
      /\ \A d \in DOMAIN w.heap \ {c} : h[d] = w.heap[d]
  OBVIOUS
<1> HIDE DEF h, v
<1>3. v = [chans |-> w.chans, heap |-> h, mgr |-> w.mgr]
  BY <1>1 DEF WorldOK
<1>4. v.chans = w.chans /\ v.heap = h /\ v.mgr = w.mgr
  BY <1>3
<1>5. v = [chans |-> v.chans, heap |-> v.heap, mgr |-> v.mgr]
  BY <1>3, <1>4
<1>6. /\ DOMAIN v.heap \subseteq ChanId
      /\ v.mgr \in [Teams -> [Name -> DOMAIN v.heap \cup {None}]]
  BY <1>2, <1>4 DEF WorldOK
<1>7. \A d \in DOMAIN v.heap : Sound(v.heap[d])
  BY <1>2, <1>4 DEF WorldOK
<1>8. WorldOK(v)  BY <1>4, <1>5, <1>6, <1>7 DEF WorldOK
<1> QED  BY <1>2, <1>4, <1>8 DEF v

-----------------------------------------------------------------------------
(* Who is in a channel.  An entry that [] has added holds no guid; the      *)
(* others are the ones that SendToAll reaches.                              *)
Real(ch, q) == q \in Members(ch) /\ ch.players[q].player # NoGuid

(* Whatever happened between ch and r, q was neither removed nor let in.   *)
Kept(ch, r, q) == (IsOn(ch, q) => IsOn(r, q)) /\ (Real(r, q) => Real(ch, q))

(* An operation on one member keeps the others.                            *)
LEMMA KeptBut ==
    ASSUME NEW ch \in Channels, NEW p, NEW r, SameBut(r, ch, p), NEW q, q # p
    PROVE  Kept(ch, r, q)
BY DEF SameBut, Kept, Real, IsOn

(* Two operations that keep a member.                                      *)
LEMMA KeptTwice ==
    ASSUME NEW a, NEW b, NEW c, NEW q, Kept(a, b, q), Kept(b, c, q)
    PROVE  Kept(a, c, q)
BY DEF Kept

(* Flags are given and taken without anybody coming or going, whoever gets *)
(* them.                                                                   *)
LEMMA FlagsKeep ==
    ASSUME NEW ch \in Channels, NEW p \in AnyGuid, NEW new \in SUBSET Flags, NEW f, NEW q
    PROVE  Kept(ch, SetFlags(ch, p, new), q) /\ Kept(ch, ClearFlag(ch, p, f), q)
<1>1. Kept(ch, SetFlags(ch, p, new), q)
  <2> DEFINE r == SetFlags(ch, p, new)
  <2>1. /\ SameBut(r, ch, p) /\ Members(r) = Members(ch) \cup {p}
        /\ p \in Members(ch) => r.players[p].player = ch.players[p].player
        /\ p \notin Members(ch) => r.players[p].player = NoGuid
    BY SetFlagsFacts
  <2> HIDE DEF r
  <2>2. q = p => Kept(ch, r, q)  BY <2>1 DEF Kept, Real, IsOn
  <2>3. q # p => Kept(ch, r, q)  BY <2>1, KeptBut
  <2> QED  BY <2>2, <2>3 DEF r
<1>2. Kept(ch, ClearFlag(ch, p, f), q)
  <2> DEFINE r == ClearFlag(ch, p, f)
  <2>1. /\ SameBut(r, ch, p) /\ Members(r) = Members(ch)
        /\ p \in Members(ch) => r.players[p].player = ch.players[p].player
    BY ClearFlagFacts DEF IsOn
  <2> HIDE DEF r
  <2>2. q = p => Kept(ch, r, q)  BY <2>1 DEF Kept, Real, IsOn
  <2>3. q # p => Kept(ch, r, q)  BY <2>1, KeptBut
  <2> QED  BY <2>2, <2>3 DEF r
<1> QED  BY <1>1, <1>2

(* A new owner is neither let in: his entry, if he has none, holds no guid.*)
LEMMA OwnerKeeps ==
    ASSUME NEW ch, Sound(ch), NEW p \in AnyGuid, NEW q
    PROVE  Kept(ch, SetOwner(ch, p), q)
<1> DEFINE cl == ClearFlag(ch, ch.owner, "owner")
           rest == [cl EXCEPT !.owner = p]
<1>1. ch \in Channels /\ ch.owner \in AnyGuid  BY ChannelFields DEF Sound
<1>2. Sound(cl)  BY <1>1, ClearSound
<1>3. Kept(ch, cl, q)
  <2>1. {} \in SUBSET Flags  OBVIOUS
  <2> QED  BY <1>1, <2>1, FlagsKeep
<1> HIDE DEF cl
<1>4. cl \in Channels  BY <1>2 DEF Sound
<1>5. /\ rest = [kind |-> cl.kind, ownership |-> cl.ownership, players |-> cl.players, owner |-> p,
                 banned |-> cl.banned, password |-> cl.password]
      /\ rest \in Channels
  BY <1>4, ChannelFields, ChannelMade
<1>6. Members(rest) = Members(cl) /\ rest.players = cl.players  BY <1>5 DEF Members
<1> HIDE DEF rest
<1>7. Kept(ch, rest, q)  BY <1>3, <1>6 DEF Kept, Real, IsOn
<1>8. {"owner", "moderator"} \in SUBSET Flags  BY DEF Flags
<1>9. Kept(rest, SetFlags(rest, p, {"owner", "moderator"}), q)  BY <1>5, <1>8, FlagsKeep
<1>10. \/ SetOwner(ch, p) = rest
       \/ SetOwner(ch, p) = SetFlags(rest, p, {"owner", "moderator"})
  BY DEF SetOwner, rest, cl
<1> QED  BY <1>7, <1>9, <1>10, KeptTwice

(* Join lets in p, and nobody else.                                        *)
LEMMA JoinKeeps ==
    ASSUME NEW ch, Sound(ch), NEW p \in Guid, p \notin ch.banned
    PROVE  /\ IsOn(Joined(ch, p), p)
           /\ \A q : q # p => Kept(ch, Joined(ch, p), q)
<1> DEFINE i == [player |-> p, flags |-> {}]
           in == Put(ch, p, i)
<1>1. ch \in Channels /\ p \in AnyGuid /\ i \in Info  BY DEF Sound, AnyGuid, Info
<1>2. SameBut(in, ch, p) /\ in.players[p] = i /\ IsOn(in, p)
  BY <1>1, PutFacts DEF IsOn
<1>3. "owner" \notin i.flags  OBVIOUS
<1>4. Sound(in)  BY <1>2, <1>3, SoundBut
<1> HIDE DEF in
<1>5. \A q : Kept(in, SetOwner(in, p), q)  BY <1>1, <1>4, OwnerKeeps
<1>6. \A q : q # p => Kept(ch, in, q)  BY <1>1, <1>2, KeptBut
<1>7. Joined(ch, p) = in \/ Joined(ch, p) = SetOwner(in, p)  BY DEF Joined, in
<1>8. IsOn(Joined(ch, p), p)  BY <1>2, <1>5, <1>7 DEF Kept
<1>9. \A q : q # p => Kept(ch, Joined(ch, p), q)  BY <1>5, <1>6, <1>7, KeptTwice
<1> QED  BY <1>8, <1>9

(* Leave removes p, and nobody else.                                       *)
LEMMA LeaveKeeps ==
    ASSUME NEW ch, Sound(ch), NEW p
    PROVE  /\ ~Real(Left(ch, p), p)
           /\ \A q : q # p => Kept(ch, Left(ch, p), q)
<1> DEFINE rest == Erase(ch, p)
           heir == rest.players[Min(Members(rest))].player
           mod == SetFlags(rest, heir, {"moderator"})
<1>1. Sound(rest) /\ ch \in Channels  BY EraseSound DEF Sound
<1>2. ~Real(rest, p) /\ \A q : q # p => Kept(ch, rest, q)
  BY <1>1, EraseFacts, KeptBut DEF Real
<1> HIDE DEF rest
<1>3. CASE IsConstant(ch) \/ ~ch.ownership \/ ~HasFlag(ch, p, "owner") \/ Members(rest) = {}
  <2>1. Left(ch, p) = rest  BY <1>3 DEF Left, rest
  <2> QED  BY <1>2, <2>1
<1>4. CASE ~(IsConstant(ch) \/ ~ch.ownership \/ ~HasFlag(ch, p, "owner") \/ Members(rest) = {})
  <2>1. rest \in Channels  BY <1>1 DEF Sound
  <2>2. Members(rest) \in SUBSET Nat
    BY <2>1, ChannelFields, GuidAssumption DEF AnyGuid, NoGuid
  <2>3. Min(Members(rest)) \in Members(rest)  BY <1>4, <2>2, MinIsElement
  <2>4. heir \in AnyGuid  BY <2>1, <2>3, ChannelFields DEF Info, AnyGuid
  <2>5. Left(ch, p) = SetOwner(mod, heir)
    BY <1>4 DEF Left, rest
  <2> HIDE DEF heir
  <2>6. {"moderator"} \in SUBSET (Flags \ {"owner"}) /\ {"moderator"} \in SUBSET Flags
    BY DEF Flags
  <2>7. Sound(mod)  BY <1>1, <2>4, <2>6, FlagsSound
  <2>8. \A q : Kept(rest, mod, q)  BY <2>1, <2>4, <2>6, FlagsKeep
  <2> HIDE DEF mod
  <2>9. \A q : Kept(mod, SetOwner(mod, heir), q)  BY <2>4, <2>7, OwnerKeeps
  <2>10. \A q : Kept(rest, Left(ch, p), q)  BY <2>5, <2>8, <2>9, KeptTwice
  <2>11. ~Real(Left(ch, p), p)  BY <1>2, <2>10 DEF Kept
  <2>12. \A q : q # p => Kept(ch, Left(ch, p), q)  BY <1>2, <2>10, KeptTwice
  <2> QED  BY <2>11, <2>12
<1> QED  BY <1>3, <1>4

(* KickOrBan removes bad, and nobody else.                                 *)
LEMMA KickKeeps ==
    ASSUME NEW ch, Sound(ch), NEW good \in Guid, NEW bad \in Guid, NEW ban \in BOOLEAN
    PROVE  /\ ~Real(Kicked(ch, good, bad, ban), bad)
           /\ \A q : q # bad => Kept(ch, Kicked(ch, good, bad, ban), q)
<1> DEFINE er == Erase(ch, bad)
           b == IF ban THEN er.banned \cup {bad} ELSE er.banned
           rest == [er EXCEPT !.banned = b]
           mod == SetFlags(rest, good, {"moderator"})
           r == Kicked(ch, good, bad, ban)
<1>1. ch \in Channels  BY DEF Sound
<1>2. Sound(er) /\ bad \notin Members(er) /\ SameBut(er, ch, bad)
  BY <1>1, EraseSound, EraseFacts
<1> HIDE DEF er
<1>3. er \in Channels  BY <1>2 DEF Sound
<1>4. b \in SUBSET Guid /\ b \ {bad} \subseteq er.banned  BY <1>3, ChannelFields
<1> HIDE DEF b
<1>5. /\ rest = [kind |-> er.kind, ownership |-> er.ownership, players |-> er.players, owner |-> er.owner,
                 banned |-> b, password |-> er.password]
      /\ rest \in Channels
  BY <1>3, <1>4, ChannelFields, ChannelMade
<1>6. /\ Members(rest) = Members(er) /\ rest.players = er.players /\ rest.owner = er.owner
      /\ rest.banned = b
  BY <1>5 DEF Members
<1>7. r = rest \/ r = SetOwner(mod, good)
  BY DEF Kicked, rest, b, er, mod
<1> HIDE DEF rest, r
<1>8. OneOwner(rest)  BY <1>2, <1>6 DEF Sound, OneOwner, HasFlag, IsOn
<1>9. /\ BannedIsOut(rest)
      /\ OwnerModerates(rest)
  BY <1>2, <1>4, <1>6 DEF Sound, BannedIsOut, OwnerModerates, HasFlag, IsOn
<1>10. Sound(rest)  BY <1>5, <1>8, <1>9 DEF Sound
<1>11. /\ {"moderator"} \in SUBSET (Flags \ {"owner"}) /\ {"moderator"} \in SUBSET Flags
       /\ good \in AnyGuid
  BY DEF Flags, AnyGuid
<1>12. Sound(mod)  BY <1>10, <1>11, FlagsSound
<1>13. \A q : Kept(rest, mod, q)  BY <1>5, <1>11, FlagsKeep
<1> HIDE DEF mod
<1>14. \A q : Kept(mod, SetOwner(mod, good), q)  BY <1>11, <1>12, OwnerKeeps
<1>15. \A q : Kept(rest, r, q)
  <2>1. \A q : Kept(rest, rest, q)  BY DEF Kept
  <2> QED  BY <1>7, <1>13, <1>14, <2>1, KeptTwice
<1>16. ~Real(rest, bad)  BY <1>2, <1>6 DEF Real
<1>17. \A q : q # bad => Kept(ch, rest, q)
  <2>1. \A q : q # bad => Kept(ch, er, q)  BY <1>1, <1>2, KeptBut
  <2> QED  BY <1>6, <2>1 DEF Kept, Real, IsOn
<1>18. ~Real(r, bad) /\ \A q : q # bad => Kept(ch, r, q)
  BY <1>15, <1>16, <1>17, KeptTwice DEF Kept
<1> QED  BY <1>18 DEF r

(* UnBan, Password and SetMode leave everybody where he is.                *)
LEMMA FieldsKeep ==
    ASSUME NEW ch, Sound(ch), NEW bad, NEW pw, NEW q
    PROVE  Kept(ch, UnBanned(ch, bad), q) /\ Kept(ch, [ch EXCEPT !.password = pw], q)
<1>1. /\ UnBanned(ch, bad).players = ch.players
      /\ [ch EXCEPT !.password = pw].players = ch.players
  <2>1. ch \in Channels  BY DEF Sound
  <2> DEFINE b == ch.banned \ {bad}
  <2>2. UnBanned(ch, bad) = [ch EXCEPT !.banned = b]  BY DEF UnBanned
  <2> HIDE DEF b
  <2> QED  BY <2>1, <2>2, ChannelFields
<1> DEFINE r == UnBanned(ch, bad)
           v == [ch EXCEPT !.password = pw]
<1>2. r.players = ch.players /\ v.players = ch.players  BY <1>1
<1> HIDE DEF r, v
<1>3. Kept(ch, r, q) /\ Kept(ch, v, q)  BY <1>2 DEF Kept, Real, IsOn, Members
<1> QED  BY <1>3 DEF r, v

(* SetMode keeps every member.                                             *)
LEMMA ModeKeeps ==
    ASSUME NEW ch, Sound(ch), NEW p \in Guid, NEW flag \in Modes, NEW set \in BOOLEAN, NEW q
    PROVE  Kept(ch, SetMode(ch, p, flag, set), q)
<1>1. {flag} \in SUBSET Flags /\ p \in AnyGuid /\ ch \in Channels
  BY CharAssumption DEF Flags, AnyGuid, Sound
<1> QED  BY <1>1, FlagsKeep DEF SetMode

-----------------------------------------------------------------------------
(* The same for the hub's channels: who is in the channel at address c.    *)
On(w, c, q) == c \in DOMAIN w.heap /\ IsOn(w.heap[c], q)

Entry(w, c, q) == c \in DOMAIN w.heap /\ Real(w.heap[c], q)

(* From w to v q is neither removed from a channel nor let into one.       *)
Untouched(w, v, q) ==
    \A c : (On(w, c, q) => On(v, c, q)) /\ (Entry(v, c, q) => Entry(w, c, q))

(* The list of the Player o and the channels' entries for q say the same.  *)
Matches(w, q, o) ==
    \A c : (c \in w.chans[o] => On(w, c, q)) /\ (Entry(w, c, q) => c \in w.chans[o])

(* An object goes on matching the channels if neither side changes for it. *)
LEMMA MatchesKept ==
    ASSUME NEW w, NEW v, NEW q, NEW o, Matches(w, q, o), Untouched(w, v, q),
           v.chans[o] = w.chans[o]
    PROVE  Matches(v, q, o)
BY DEF Matches, Untouched

(* Writing back a channel that keeps q leaves q untouched.                 *)
LEMMA WriteUntouched ==
    ASSUME NEW w, WorldOK(w), NEW c \in ChanId, NEW ch, Sound(ch), NEW q,
           c \in DOMAIN w.heap => Kept(w.heap[c], ch, q),
           c \notin DOMAIN w.heap => q \notin Members(ch)
    PROVE  Untouched(w, Write(w, c, ch), q)
<1> DEFINE v == Write(w, c, ch)
<1>1. /\ DOMAIN v.heap = DOMAIN w.heap \cup {c} /\ v.heap[c] = ch
      /\ \A d \in DOMAIN w.heap \ {c} : v.heap[d] = w.heap[d]
  BY WriteOK
<1> HIDE DEF v
<1>2. Untouched(w, v, q)  BY <1>1 DEF Untouched, On, Entry, Kept, IsOn, Real
<1> QED  BY <1>2 DEF v

-----------------------------------------------------------------------------
(* The operations on the hub's channels.                                   *)

(* m_PlayerMap holds Player objects.                                       *)
MapOK == map \in [Guid -> Player \cup {None}]

(* A Player has another list of channels.                                  *)
LEMMA ListOK ==
    ASSUME NEW w, WorldOK(w), NEW o \in Player, NEW l \in SUBSET ChanId
    PROVE  LET v == [w EXCEPT !.chans[o] = l]
           IN  /\ WorldOK(v)
               /\ v.heap = w.heap /\ v.mgr = w.mgr
               /\ v.chans[o] = l
               /\ \A p \in Player : p # o => v.chans[p] = w.chans[p]
<1> DEFINE v == [w EXCEPT !.chans[o] = l]
           k == [w.chans EXCEPT ![o] = l]
<1>1. v = [w EXCEPT !.chans = k]  OBVIOUS
<1>2. /\ k \in [Player -> SUBSET ChanId] /\ k[o] = l
      /\ \A p \in Player : p # o => k[p] = w.chans[p]
  BY DEF WorldOK
<1> HIDE DEF k, v
<1>3. v = [chans |-> k, heap |-> w.heap, mgr |-> w.mgr]
  BY <1>1 DEF WorldOK
<1>4. v.chans = k /\ v.heap = w.heap /\ v.mgr = w.mgr
  BY <1>3
<1>5. v = [chans |-> v.chans, heap |-> v.heap, mgr |-> v.mgr]
  BY <1>3, <1>4
<1>6. WorldOK(v)  BY <1>2, <1>4, <1>5 DEF WorldOK
<1> QED  BY <1>2, <1>4, <1>6 DEF v

(* JoinedChannel and LeftChannel of the Player that is found.              *)
LEMMA RememberFacts ==
    ASSUME NEW w, WorldOK(w), NEW g \in Guid, NEW c \in ChanId, MapOK
    PROVE  LET v == Remember(w, g, c)
           IN  /\ WorldOK(v)
               /\ v.heap = w.heap /\ v.mgr = w.mgr
               /\ \A o \in Player : o # map[g] => v.chans[o] = w.chans[o]
               /\ map[g] # None => v.chans[map[g]] = w.chans[map[g]] \cup {c}
<1>1. CASE map[g] = None  BY <1>1 DEF Remember, FindPlayer
<1>2. CASE map[g] # None
  <2> DEFINE l == w.chans[map[g]] \cup {c}
  <2>1. map[g] \in Player  BY <1>2 DEF MapOK
  <2>2. l \in SUBSET ChanId  BY <2>1 DEF WorldOK
  <2>3. Remember(w, g, c) = [w EXCEPT !.chans[map[g]] = l]
    BY <1>2 DEF Remember, FindPlayer
  <2> HIDE DEF l
  <2>4. LET v == [w EXCEPT !.chans[map[g]] = l]
        IN  /\ WorldOK(v)
            /\ v.heap = w.heap /\ v.mgr = w.mgr
            /\ v.chans[map[g]] = l
            /\ \A p \in Player : p # map[g] => v.chans[p] = w.chans[p]
    <3> DEFINE o == map[g]
    <3>1. WorldOK(w) /\ o \in Player /\ l \in SUBSET ChanId  BY <2>1, <2>2
    <3> HIDE DEF o
    <3>2. LET v == [w EXCEPT !.chans[o] = l]
          IN  /\ WorldOK(v)
              /\ v.heap = w.heap /\ v.mgr = w.mgr
              /\ v.chans[o] = l
              /\ \A p \in Player : p # o => v.chans[p] = w.chans[p]
      BY <3>1, ListOK, ZenonT(30)
    <3> QED  BY <3>2 DEF o
  <2> QED  BY <2>3, <2>4 DEF l
<1> QED  BY <1>1, <1>2

(* Forgetting a channel changes the list of one player.                    *)
LEMMA ForgetFacts ==
    ASSUME NEW w, WorldOK(w), NEW g \in Guid, NEW c, MapOK
    PROVE  LET v == Forget(w, g, c)
           IN  /\ WorldOK(v)
               /\ v.heap = w.heap /\ v.mgr = w.mgr
               /\ \A o \in Player : o # map[g] => v.chans[o] = w.chans[o]
               /\ map[g] # None => v.chans[map[g]] = w.chans[map[g]] \ {c}
<1>1. CASE map[g] = None  BY <1>1 DEF Forget, FindPlayer
<1>2. CASE map[g] # None
  <2> DEFINE l == w.chans[map[g]] \ {c}
  <2>1. map[g] \in Player  BY <1>2 DEF MapOK
  <2>2. l \in SUBSET ChanId  BY <2>1 DEF WorldOK
  <2>3. Forget(w, g, c) = [w EXCEPT !.chans[map[g]] = l]
    BY <1>2 DEF Forget, FindPlayer
  <2> HIDE DEF l
  <2>4. LET v == [w EXCEPT !.chans[map[g]] = l]
        IN  /\ WorldOK(v)
            /\ v.heap = w.heap /\ v.mgr = w.mgr
            /\ v.chans[map[g]] = l
            /\ \A p \in Player : p # map[g] => v.chans[p] = w.chans[p]
    <3> DEFINE o == map[g]
    <3>1. WorldOK(w) /\ o \in Player /\ l \in SUBSET ChanId  BY <2>1, <2>2
    <3> HIDE DEF o
    <3>2. LET v == [w EXCEPT !.chans[o] = l]
          IN  /\ WorldOK(v)
              /\ v.heap = w.heap /\ v.mgr = w.mgr
              /\ v.chans[o] = l
              /\ \A p \in Player : p # o => v.chans[p] = w.chans[p]
      BY <3>1, ListOK, ZenonT(30)
    <3> QED  BY <3>2 DEF o
  <2> QED  BY <2>3, <2>4 DEF l
<1> QED  BY <1>1, <1>2

(* GetJoinChannel finds the channel of a name or makes one that nobody is  *)
(* in, at an address that nothing refers to.                               *)
LEMMA GetJoinFacts ==
    ASSUME NEW w, WorldOK(w), NEW t \in Teams, NEW n \in Name, NEW b \in Kinds,
           Free(w) # {}
    PROVE  LET v == GetJoinChannel(w, t, n, b)
               c == GetChannel(v, t, n)
           IN  /\ WorldOK(v)
               /\ v.chans = w.chans
               /\ c \in DOMAIN v.heap /\ c \in ChanId
               /\ DOMAIN v.heap \subseteq DOMAIN w.heap \cup {c}
               /\ \A q : Untouched(w, v, q)
<1> DEFINE m == ChannelMgr(t)
           v == GetJoinChannel(w, t, n, b)
<1>1. m \in Teams  BY MgrIsTeam
<1>2. CASE GetChannel(w, t, n) # None
  <2>1. v = w  BY <1>2 DEF GetJoinChannel
  <2>2. GetChannel(w, t, n) \in DOMAIN w.heap
    BY <1>1, <1>2 DEF GetChannel, WorldOK
  <2>3. \A q : Untouched(w, w, q)  BY DEF Untouched
  <2> QED  BY <2>1, <2>2, <2>3 DEF WorldOK
<1>3. CASE GetChannel(w, t, n) = None
  <2> DEFINE c == Min(Free(w))
             row == RowOf(t, n, b)
             ch == NewChannel(b, row)
             u == Write(w, c, ch)
             k == [w.mgr EXCEPT ![m][n] = c]
  <2>1. c \in Free(w)
    <3>1. Free(w) \in SUBSET Nat  BY DEF Free, ChanId
    <3> QED  BY <3>1, MinIsElement
  <2> HIDE DEF c
  <2>2. c \in ChanId /\ c \notin DOMAIN w.heap /\ c # None
    BY <2>1 DEF Free, ChanId, None
  <2>3. row \in Rows  BY RowTypes
  <2> HIDE DEF row
  <2>4. Sound(ch) /\ Members(ch) = {}  BY <2>3, NewSound
  <2> HIDE DEF ch
  <2>5. /\ WorldOK(u) /\ u.chans = w.chans /\ u.mgr = w.mgr
        /\ DOMAIN u.heap = DOMAIN w.heap \cup {c}
    BY <2>2, <2>4, WriteOK
  <2>6. \A q : Untouched(w, u, q)
    BY <2>2, <2>4, WriteUntouched
  <2>7. v = [u EXCEPT !.mgr = k]
    <3>1. v = [u EXCEPT !.mgr = [@ EXCEPT ![m][n] = c]]
      BY <1>3 DEF GetJoinChannel, u, c, ch, row
    <3> QED  BY <2>5, <3>1
  <2> HIDE DEF u, v
  <2>8. k \in [Teams -> [Name -> DOMAIN u.heap \cup {None}]]
    BY <1>1, <2>5 DEF WorldOK
  <2>9. k[m][n] = c  BY <1>1 DEF WorldOK
  <2>10. \A t1 \in Teams, n1 \in Name : ~(t1 = m /\ n1 = n) => k[t1][n1] = w.mgr[t1][n1]
    BY <1>1 DEF WorldOK
  <2> HIDE DEF k
  <2>11. \A t1 \in Teams, n1 \in Name : w.mgr[t1][n1] # c
    BY <2>2 DEF WorldOK
  <2>12. OneName(k)
    BY <2>9, <2>10, <2>11 DEF WorldOK, OneName
  <2>13. v = [chans |-> u.chans, heap |-> u.heap, mgr |-> k]
    BY <2>5, <2>7 DEF WorldOK
  <2>14. v.chans = u.chans /\ v.heap = u.heap /\ v.mgr = k
    BY <2>13
  <2>15. v = [chans |-> v.chans, heap |-> v.heap, mgr |-> v.mgr]
    BY <2>13, <2>14
  <2>16. WorldOK(v)  BY <2>5, <2>8, <2>12, <2>14, <2>15 DEF WorldOK
  <2>17. GetChannel(v, t, n) = c  BY <2>9, <2>14 DEF GetChannel
  <2>18. \A q : Untouched(w, v, q)
    BY <2>6, <2>14 DEF Untouched, On, Entry
  <2> QED  BY <2>2, <2>5, <2>14, <2>16, <2>17, <2>18 DEF v
<1> QED  BY <1>2, <1>3

(* From w to v only the character g joins or leaves channels, and if his   *)
(* Player is found, its list stays in step.                                *)
ActsFor(w, v, g) ==
    /\ WorldOK(v)
    /\ \A o \in Player : o # map[g] => v.chans[o] = w.chans[o]
    /\ \A q : q # g => Untouched(w, v, q)
    /\ map[g] # None /\ Matches(w, g, map[g]) => Matches(v, g, map[g])

(* An operation that touches no list acts for anyone.                      *)
LEMMA QuietActs ==
    ASSUME NEW w, NEW v, WorldOK(v), v.chans = w.chans, \A q : Untouched(w, v, q), NEW g
    PROVE  ActsFor(w, v, g)
<1>1. map[g] # None /\ Matches(w, g, map[g]) => Matches(v, g, map[g])
  BY MatchesKept
<1> QED  BY <1>1 DEF ActsFor

(* Two operations for the same character.                                  *)
LEMMA ActsTwice ==
    ASSUME NEW u, NEW w, NEW v, NEW g, ActsFor(u, w, g), ActsFor(w, v, g)
    PROVE  ActsFor(u, v, g)
<1>1. \A q : q # g => Untouched(u, v, q)  BY DEF ActsFor, Untouched
<1> QED  BY <1>1 DEF ActsFor

(* Join.  At most one address is taken.                                    *)
LEMMA JoinAtFacts ==
    ASSUME NEW w, WorldOK(w), NEW t \in Teams, NEW n \in Name, NEW b \in Kinds,
           NEW g \in Guid, NEW pass, MapOK, Free(w) # {}, Created \subseteq Player
    PROVE  /\ ActsFor(w, JoinAt(w, t, n, b, g, pass), g)
           /\ \E c : Free(w) \ {c} \subseteq Free(JoinAt(w, t, n, b, g, pass))
<1> DEFINE w1 == GetJoinChannel(w, t, n, b)
           c  == GetChannel(w1, t, n)
           ch == w1.heap[c]
           w2 == Remember(w1, g, c)
           v2 == Write(w2, c, Joined(ch, g))
           closed == FindPlayer(g) # None /\ "restrict_lfg" \in config
           v  == JoinAt(w, t, n, b, g, pass)
<1>1. v = IF Admits(ch, g, pass, closed) THEN v2 ELSE w1  BY DEF JoinAt
<1>2. /\ WorldOK(w1) /\ w1.chans = w.chans
      /\ c \in DOMAIN w1.heap /\ c \in ChanId
      /\ DOMAIN w1.heap \subseteq DOMAIN w.heap \cup {c}
      /\ \A q : Untouched(w, w1, q)
  BY GetJoinFacts
<1> HIDE DEF w1, c, v
<1>3. Sound(ch)  BY <1>2 DEF WorldOK
<1>4. ActsFor(w, w1, g)  BY <1>2, QuietActs
<1>5. CASE ~Admits(ch, g, pass, closed)
  <2>1. v = w1  BY <1>1, <1>5
  <2>2. Free(w) \ {c} \subseteq Free(v)  BY <1>2, <2>1 DEF Free
  <2> QED  BY <1>4, <2>1, <2>2 DEF v
<1>6. CASE Admits(ch, g, pass, closed)
  <2>1. v = v2  BY <1>1, <1>6
  <2>2. g \notin ch.banned  BY <1>6 DEF Admits
  <2>3. /\ Sound(Joined(ch, g)) /\ IsOn(Joined(ch, g), g)
        /\ \A q : q # g => Kept(ch, Joined(ch, g), q)
    BY <1>3, <2>2, JoinSound, JoinKeeps
  <2> DEFINE jo == Joined(ch, g)
  <2> HIDE DEF jo
  <2>4. /\ WorldOK(w2) /\ w2.heap = w1.heap /\ w2.mgr = w1.mgr
        /\ \A o \in Player : o # map[g] => w2.chans[o] = w1.chans[o]
        /\ map[g] # None => w2.chans[map[g]] = w1.chans[map[g]] \cup {c}
    BY <1>2, RememberFacts
  <2> HIDE DEF w2
  <2>5. /\ WorldOK(v2) /\ v2.chans = w2.chans
        /\ DOMAIN v2.heap = DOMAIN w2.heap \cup {c} /\ v2.heap[c] = jo
        /\ \A d \in DOMAIN w2.heap \ {c} : v2.heap[d] = w2.heap[d]
    BY <1>2, <2>3, <2>4, WriteOK DEF jo
  <2>6. \A q : q # g => Untouched(w2, v2, q)
    BY <1>2, <2>3, <2>4, WriteUntouched
  <2> HIDE DEF v2
  <2>7. \A q : q # g => Untouched(w1, v2, q)
    BY <2>4, <2>6 DEF Untouched, On, Entry
  <2>8. map[g] # None /\ Matches(w1, g, map[g]) => Matches(v2, g, map[g])
    <3> SUFFICES ASSUME map[g] # None, Matches(w1, g, map[g]), NEW d
                 PROVE  /\ d \in v2.chans[map[g]] => On(v2, d, g)
                        /\ Entry(v2, d, g) => d \in v2.chans[map[g]]
      BY DEF Matches
    <3>1. v2.chans[map[g]] = w1.chans[map[g]] \cup {c}  BY <2>4, <2>5
    <3>2. CASE d = c
      BY <2>3, <2>5, <3>1, <3>2 DEF On, jo
    <3>3. CASE d # c
      <4>1. On(v2, d, g) <=> On(w1, d, g)  BY <2>4, <2>5, <3>3 DEF On
      <4>2. Entry(v2, d, g) <=> Entry(w1, d, g)  BY <2>4, <2>5, <3>3 DEF Entry
      <4> QED  BY <3>1, <3>3, <4>1, <4>2 DEF Matches
    <3> QED  BY <3>2, <3>3
  <2>9. \A o \in Player : o # map[g] => v2.chans[o] = w1.chans[o]
    BY <2>4, <2>5
  <2>10. ActsFor(w1, v2, g)  BY <2>5, <2>7, <2>8, <2>9 DEF ActsFor
  <2>11. ActsFor(w, v, g)  BY <1>4, <2>1, <2>10, ActsTwice
  <2>12. \A o \in Created : v2.chans[o] \subseteq w.chans[o] \cup {c}
    <3>1. \A o \in Created : o \in Player /\ o # None  BY DEF Player, None
    <3> QED  BY <1>2, <2>4, <2>5, <3>1
  <2>13. Free(w) \ {c} \subseteq Free(v)
    BY <1>2, <2>1, <2>4, <2>5, <2>12 DEF Free
  <2> QED  BY <2>11, <2>13 DEF v
<1> QED  BY <1>5, <1>6

(* LeftChannel deletes an empty channel, which was known under one name.   *)
LEMMA LeftChannelFacts ==
    ASSUME NEW w, WorldOK(w), NEW t \in Teams, NEW n \in Name
    PROVE  LET v == LeftChannel(w, t, n)
           IN  WorldOK(v) /\ v.chans = w.chans /\ \A q : Untouched(w, v, q)
<1> DEFINE m == ChannelMgr(t)
           c == GetChannel(w, t, n)
           v == LeftChannel(w, t, n)
           M == DOMAIN w.heap \ {c}
           h == [d \in M |-> w.heap[d]]
           k == [w.mgr EXCEPT ![m][n] = None]
<1>1. m \in Teams  BY MgrIsTeam
<1>2. CASE c = None \/ Members(w.heap[c]) # {} \/ IsConstant(w.heap[c])
  <2>1. v = w  BY <1>2 DEF LeftChannel
  <2>2. \A q : Untouched(w, w, q)  BY DEF Untouched
  <2> QED  BY <2>1, <2>2
<1>3. CASE ~(c = None \/ Members(w.heap[c]) # {} \/ IsConstant(w.heap[c]))
  <2>1. v = [w EXCEPT !.heap = h, !.mgr = k]
    BY <1>3 DEF LeftChannel, Restrict
  <2>2. c = w.mgr[m][n] /\ c # None /\ Members(w.heap[c]) = {}
    BY <1>3 DEF GetChannel
  <2>3. DOMAIN h = M /\ \A d \in M : h[d] = w.heap[d]  OBVIOUS
  <2> HIDE DEF h, v, c
  <2>4. /\ k[m][n] = None
        /\ \A t1 \in Teams, n1 \in Name : ~(t1 = m /\ n1 = n) => k[t1][n1] = w.mgr[t1][n1]
    BY <1>1 DEF WorldOK
  <2>5. \A t1 \in Teams, n1 \in Name : ~(t1 = m /\ n1 = n) => w.mgr[t1][n1] # c
    BY <1>1, <2>2 DEF WorldOK, OneName
  <2>6. k \in [Teams -> [Name -> M \cup {None}]]
    <3>1. k \in [Teams -> [Name -> DOMAIN w.heap \cup {None}]]  BY <1>1 DEF WorldOK
    <3>2. \A t1 \in Teams, n1 \in Name : k[t1][n1] \in M \cup {None}
      BY <2>4, <2>5, <3>1
    <3> HIDE DEF k
    <3> QED  BY <3>1, <3>2
  <2> HIDE DEF k
  <2>7. OneName(k)  BY <2>4 DEF WorldOK, OneName
  <2>8. v = [chans |-> w.chans, heap |-> h, mgr |-> k]
    BY <2>1 DEF WorldOK
  <2>9. v.chans = w.chans /\ v.heap = h /\ v.mgr = k
    BY <2>8
  <2>10. v = [chans |-> v.chans, heap |-> v.heap, mgr |-> v.mgr]
    BY <2>8, <2>9
  <2>11. WorldOK(v)  BY <2>3, <2>6, <2>7, <2>9, <2>10 DEF WorldOK
  <2>12. \A q : Untouched(w, v, q)
    BY <2>2, <2>3, <2>9 DEF Untouched, On, Entry, IsOn
  <2> QED  BY <2>9, <2>11, <2>12 DEF v
<1> QED  BY <1>2, <1>3

(* A Player forgets a channel that its character is erased from: Leave and *)
(* KickOrBan.                                                              *)
LEMMA RemovalFacts ==
    ASSUME NEW w, WorldOK(w), NEW t \in Teams, NEW n \in Name, NEW g \in Guid, MapOK,
           NEW c \in DOMAIN w.heap, NEW ch, Sound(ch), ~Real(ch, g),
           \A q : q # g => Kept(w.heap[c], ch, q)
    PROVE  LET v == Write(Forget(w, g, c), c, ch)
           IN  ActsFor(w, v, g) /\ (map[g] # None => v.chans[map[g]] \subseteq w.chans[map[g]])
<1> DEFINE w2 == Forget(w, g, c)
           v  == Write(w2, c, ch)
<1>1. c \in ChanId  BY DEF WorldOK
<1>2. /\ WorldOK(w2) /\ w2.heap = w.heap
      /\ \A o \in Player : o # map[g] => w2.chans[o] = w.chans[o]
      /\ map[g] # None => w2.chans[map[g]] = w.chans[map[g]] \ {c}
  BY ForgetFacts
<1> HIDE DEF w2
<1>3. /\ WorldOK(v) /\ v.chans = w2.chans
      /\ DOMAIN v.heap = DOMAIN w2.heap \cup {c} /\ v.heap[c] = ch
      /\ \A d \in DOMAIN w2.heap \ {c} : v.heap[d] = w2.heap[d]
  BY <1>1, <1>2, WriteOK
<1>4. \A q : q # g => Untouched(w2, v, q)
  BY <1>1, <1>2, WriteUntouched
<1> HIDE DEF v
<1>5. \A q : q # g => Untouched(w, v, q)
  BY <1>2, <1>4 DEF Untouched, On, Entry
<1>6. map[g] # None /\ Matches(w, g, map[g]) => Matches(v, g, map[g])
  <2> SUFFICES ASSUME map[g] # None, Matches(w, g, map[g]), NEW d
               PROVE  /\ d \in v.chans[map[g]] => On(v, d, g)
                      /\ Entry(v, d, g) => d \in v.chans[map[g]]
    BY DEF Matches
  <2>1. v.chans[map[g]] = w.chans[map[g]] \ {c}  BY <1>2, <1>3
  <2>2. CASE d = c  BY <1>3, <2>1, <2>2 DEF Entry
  <2>3. CASE d # c
    <3>1. On(v, d, g) <=> On(w, d, g)  BY <1>2, <1>3, <2>3 DEF On
    <3>2. Entry(v, d, g) <=> Entry(w, d, g)  BY <1>2, <1>3, <2>3 DEF Entry
    <3> QED  BY <2>1, <2>3, <3>1, <3>2 DEF Matches
  <2> QED  BY <2>2, <2>3
<1>7. ActsFor(w, v, g)  BY <1>2, <1>3, <1>5, <1>6 DEF ActsFor
<1>8. map[g] # None => v.chans[map[g]] \subseteq w.chans[map[g]]  BY <1>2, <1>3
<1> QED  BY <1>7, <1>8 DEF v, w2

(* LeaveAt acts for the character that leaves.                             *)
LEMMA LeaveAtFacts ==
    ASSUME NEW w, WorldOK(w), NEW t \in Teams, NEW n \in Name, NEW g \in Guid, MapOK
    PROVE  ActsFor(w, LeaveAt(w, t, n, g), g)
<1> DEFINE c  == GetChannel(w, t, n)
           ch == w.heap[c]
           u  == Write(Forget(w, g, c), c, Left(ch, g))
           w2 == IF IsOn(ch, g) THEN u ELSE w
<1>0. ActsFor(w, w, g)
  <2>1. \A q : Untouched(w, w, q)  BY DEF Untouched
  <2> QED  BY <2>1, QuietActs
<1>1. CASE c = None
  <2>1. LeaveAt(w, t, n, g) = w  BY <1>1 DEF LeaveAt
  <2> QED  BY <1>0, <2>1
<1>2. CASE c # None
  <2>1. LeaveAt(w, t, n, g) = LeftChannel(w2, t, n)  BY <1>2 DEF LeaveAt
  <2>2. c \in DOMAIN w.heap  BY <1>2, MgrIsTeam DEF GetChannel, WorldOK
  <2> HIDE DEF c
  <2>3. Sound(ch)  BY <2>2 DEF WorldOK
  <2>4. /\ Sound(Left(ch, g)) /\ ~Real(Left(ch, g), g)
        /\ \A q : q # g => Kept(ch, Left(ch, g), q)
    BY <2>3, LeaveSound, LeaveKeeps
  <2>5. ActsFor(w, u, g)  BY <2>2, <2>4, RemovalFacts
  <2> HIDE DEF u
  <2>6. ActsFor(w, w2, g)  BY <1>0, <2>5
  <2>7. WorldOK(w2)  BY <2>6 DEF ActsFor
  <2> HIDE DEF w2
  <2> DEFINE v == LeftChannel(w2, t, n)
  <2>8. WorldOK(v) /\ v.chans = w2.chans /\ \A q : Untouched(w2, v, q)
    BY <2>7, LeftChannelFacts
  <2> HIDE DEF v
  <2>9. ActsFor(w2, v, g)  BY <2>8, QuietActs
  <2> QED  BY <2>1, <2>6, <2>9, ActsTwice DEF v
<1> QED  BY <1>1, <1>2

(* A channel is changed with everybody staying where he is.                *)
LEMMA ChangeFacts ==
    ASSUME NEW w, WorldOK(w), NEW t \in Teams, NEW n \in Name, NEW g,
           NEW c \in DOMAIN w.heap, NEW ch, Sound(ch), \A q : Kept(w.heap[c], ch, q)
    PROVE  ActsFor(w, Write(w, c, ch), g)
<1>1. c \in ChanId  BY DEF WorldOK
<1> DEFINE v == Write(w, c, ch)
<1>2. WorldOK(v) /\ v.chans = w.chans  BY <1>1, WriteOK
<1>3. \A q : Untouched(w, v, q)  BY <1>1, WriteUntouched
<1> HIDE DEF v
<1>4. ActsFor(w, v, g)  BY <1>2, <1>3, QuietActs
<1> QED  BY <1>4 DEF v

(* CleanupChannels of the Player o: its character leaves the channels of   *)
(* its list and no others.                                                 *)
LEMMA CleanupFacts ==
    ASSUME NEW w, WorldOK(w), NEW o \in Player, GuidOf(o) \in Guid
    PROVE  LET v == CleanupChannels(w, o)
           IN  /\ WorldOK(v)
               /\ v.chans[o] = {}
               /\ \A p \in Player : p # o => v.chans[p] = w.chans[p]
               /\ \A q : q # GuidOf(o) => Untouched(w, v, q)
               /\ \A c : Entry(v, c, GuidOf(o)) => Entry(w, c, GuidOf(o)) /\ c \notin w.chans[o]
               /\ \A c : On(w, c, GuidOf(o)) /\ c \notin w.chans[o] => On(v, c, GuidOf(o))
<1> DEFINE g == GuidOf(o)
           m == ChannelMgr(Team[g])
           cs == w.chans[o] \cap DOMAIN w.heap
           h == LeaveAll(w, g, cs)
           gone == Emptied(w, m, cs, h)
           dead == {w.mgr[m][n] : n \in gone}
           M == DOMAIN h \ dead
           h2 == [c \in M |-> h[c]]
           km == [n \in Name |-> IF n \in gone THEN None ELSE w.mgr[m][n]]
           k == [w.mgr EXCEPT ![m] = km]
           l == [w.chans EXCEPT ![o] = {}]
           v == CleanupChannels(w, o)
<1>1. v = [w EXCEPT !.chans = l, !.heap = h2, !.mgr = k]
  <2>1. h2 = Restrict(h, M)  BY DEF Restrict
  <2> HIDE DEF h2
  <2>2. v = [w EXCEPT !.chans = [@ EXCEPT ![o] = {}], !.heap = Restrict(h, M),
                      !.mgr = [@ EXCEPT ![m] = km]]
    BY DEF CleanupChannels
  <2> HIDE DEF v, km, M, h
  <2> QED  BY <2>1, <2>2
<1>2. m \in Teams
  <2>1. Team[g] \in Teams  BY CharAssumption
  <2> QED  BY <2>1, MgrIsTeam
<1> HIDE DEF m, g
<1>3. /\ DOMAIN h = DOMAIN w.heap
      /\ \A c \in DOMAIN w.heap : c \in cs /\ IsOn(w.heap[c], g) => h[c] = Left(w.heap[c], g)
      /\ \A c \in DOMAIN w.heap : ~(c \in cs /\ IsOn(w.heap[c], g)) => h[c] = w.heap[c]
  BY DEF LeaveAll
<1>4. \A c \in DOMAIN h : /\ Sound(h[c])
                          /\ \A q : q # g => Kept(w.heap[c], h[c], q)
                          /\ c \in cs => ~Real(h[c], g)
  <2> SUFFICES ASSUME NEW c \in DOMAIN h
               PROVE  /\ Sound(h[c]) /\ (\A q : q # g => Kept(w.heap[c], h[c], q))
                      /\ c \in cs => ~Real(h[c], g)
    OBVIOUS
  <2>1. Sound(w.heap[c]) /\ c \in DOMAIN w.heap  BY <1>3 DEF WorldOK
  <2>2. CASE c \in cs /\ IsOn(w.heap[c], g)
    <3>1. h[c] = Left(w.heap[c], g)  BY <1>3, <2>1, <2>2
    <3>2. Sound(Left(w.heap[c], g))  BY <2>1, LeaveSound
    <3>3. /\ ~Real(Left(w.heap[c], g), g)
          /\ \A q : q # g => Kept(w.heap[c], Left(w.heap[c], g), q)
      BY <2>1, LeaveKeeps
    <3> QED  BY <3>1, <3>2, <3>3
  <2>3. CASE ~(c \in cs /\ IsOn(w.heap[c], g))
    BY <1>3, <2>1, <2>3 DEF Kept, Real, IsOn
  <2> QED  BY <2>2, <2>3
<1> HIDE DEF h
<1>5. \A n \in gone : /\ n \in Name /\ w.mgr[m][n] # None
                      /\ Members(h[w.mgr[m][n]]) = {}
  BY DEF Emptied
<1> HIDE DEF gone
<1>6. \A c \in dead : Members(h[c]) = {}  BY <1>5
<1>7. DOMAIN h2 = M /\ \A c \in M : h2[c] = h[c]  OBVIOUS
<1>8. /\ \A n \in gone : k[m][n] = None
      /\ \A t \in Teams, n \in Name : ~(t = m /\ n \in gone) => k[t][n] = w.mgr[t][n]
      /\ k \in [Teams -> [Name -> DOMAIN w.heap \cup {None}]]
  <2>1. w.mgr \in [Teams -> [Name -> DOMAIN w.heap \cup {None}]]  BY DEF WorldOK
  <2>2. /\ km \in [Name -> DOMAIN w.heap \cup {None}]
        /\ \A n \in gone : km[n] = None
        /\ \A n \in Name : n \notin gone => km[n] = w.mgr[m][n]
    BY <1>2, <1>5, <2>1
  <2> HIDE DEF km
  <2>3. k[m] = km /\ \A t \in Teams : t # m => k[t] = w.mgr[t]  BY <1>2, <2>1
  <2>4. k \in [Teams -> [Name -> DOMAIN w.heap \cup {None}]]  BY <1>2, <2>1, <2>2
  <2> HIDE DEF k
  <2> QED  BY <2>2, <2>3, <2>4
<1>9. \A t \in Teams, n \in Name : ~(t = m /\ n \in gone) => w.mgr[t][n] \notin dead
  BY <1>2, <1>5 DEF WorldOK, OneName
<1>10. \A t \in Teams, n \in Name : k[t][n] \in M \cup {None}
  BY <1>3, <1>8, <1>9
<1> HIDE DEF k, M
<1>11. k \in [Teams -> [Name -> DOMAIN h2 \cup {None}]]  BY <1>7, <1>8, <1>10
<1>12. OneName(k)  BY <1>8 DEF WorldOK, OneName
<1>13. /\ l \in [Player -> SUBSET ChanId] /\ l[o] = {}
       /\ \A p \in Player : p # o => l[p] = w.chans[p]
  BY DEF WorldOK
<1> HIDE DEF h2, v, l, dead
<1>14. v = [chans |-> l, heap |-> h2, mgr |-> k]
  BY <1>1 DEF WorldOK
<1>15. v.chans = l /\ v.heap = h2 /\ v.mgr = k  BY <1>14
<1>16. v = [chans |-> v.chans, heap |-> v.heap, mgr |-> v.mgr]
  BY <1>14, <1>15
<1>17. DOMAIN v.heap \subseteq DOMAIN w.heap /\ \A c \in DOMAIN v.heap : v.heap[c] = h[c]
  BY <1>3, <1>7, <1>15 DEF M
<1>18. WorldOK(v)
  <2>1. DOMAIN v.heap \subseteq ChanId /\ \A c \in DOMAIN v.heap : Sound(v.heap[c])
    BY <1>3, <1>4, <1>17 DEF WorldOK
  <2> QED  BY <1>11, <1>12, <1>13, <1>15, <1>16, <2>1 DEF WorldOK
<1>19. \A c, q : c \in DOMAIN w.heap /\ IsOn(h[c], q) => On(v, c, q)
  BY <1>3, <1>6, <1>7, <1>15 DEF On, IsOn, M
<1>20. \A q : q # g => Untouched(w, v, q)
  BY <1>3, <1>4, <1>17, <1>19 DEF Untouched, On, Entry, Kept
<1>21. \A c : Entry(v, c, g) => Entry(w, c, g) /\ c \notin w.chans[o]
  BY <1>3, <1>4, <1>17 DEF Entry
<1>22. \A c : On(w, c, g) /\ c \notin w.chans[o] => On(v, c, g)
  BY <1>3, <1>19 DEF On
<1> QED  BY <1>13, <1>15, <1>18, <1>20, <1>21, <1>22 DEF v, g

-----------------------------------------------------------------------------
(* Queues and numbers.                                                     *)

(* The largest element of a finite set of numbers.                         *)
LEMMA MaxIsElement ==
    ASSUME NEW N \in Nat, NEW S \in SUBSET (0 .. N), S # {}
    PROVE  Max(S) \in S
<1> DEFINE D == {N - x : x \in S}
<1>1. \A x \in S : x \in Nat /\ N - x \in Nat  OBVIOUS
<1>2. D \in SUBSET Nat /\ D # {}
  <2>1. D \in SUBSET Nat  BY <1>1
  <2>2. PICK x \in S : TRUE  OBVIOUS
  <2>3. N - x \in D  OBVIOUS
  <2> QED  BY <2>1, <2>3
<1>3. PICK x \in S : \A e \in D : N - x =< e
  <2>1. PICK d \in D : \A e \in D : d =< e
    <3> HIDE DEF D
    <3> QED  BY <1>2, MinExists
  <2> QED  BY <2>1
<1>4. \A y \in S : N - x =< N - y  BY <1>3
<1>5. \A y \in S : x >= y  BY <1>4
<1> QED  BY <1>5 DEF Max

(* A queue with one element more.                                          *)
LEMMA AppendFacts ==
    ASSUME NEW S, NEW q \in Seq(S), NEW e \in S
    PROVE  /\ Append(q, e) \in Seq(S)
           /\ Range(Append(q, e)) = Range(q) \cup {e}
           /\ DOMAIN Append(q, e) = 1 .. Len(q) + 1
           /\ \A i \in 1 .. Len(q) : Append(q, e)[i] = q[i]
           /\ Append(q, e)[Len(q) + 1] = e
           /\ Range(q) \subseteq S
BY SMTT(30) DEF Range

(* A queue without its first element.                                      *)
LEMMA TailFacts ==
    ASSUME NEW S, NEW q \in Seq(S), q # <<>>
    PROVE  /\ Head(q) \in S /\ Tail(q) \in Seq(S)
           /\ Range(q) = Range(Tail(q)) \cup {Head(q)}
           /\ (\A i, j \in DOMAIN q : q[i] = q[j] => i = j) =>
                /\ Head(q) \notin Range(Tail(q))
                /\ \A i, j \in DOMAIN Tail(q) : Tail(q)[i] = Tail(q)[j] => i = j
<1>1. /\ Len(q) \in Nat /\ Len(q) > 0 /\ Head(q) = q[1] /\ DOMAIN q = 1 .. Len(q)
      /\ DOMAIN Tail(q) = 1 .. Len(q) - 1
      /\ \A i \in 1 .. Len(q) - 1 : Tail(q)[i] = q[i + 1]
  OBVIOUS
<1>2. Head(q) \in S /\ Tail(q) \in Seq(S)  OBVIOUS
<1>3. Range(q) = Range(Tail(q)) \cup {Head(q)}
  <2>1. ASSUME NEW i \in DOMAIN q PROVE q[i] \in Range(Tail(q)) \cup {Head(q)}
    <3>1. CASE i = 1  BY <1>1, <3>1
    <3>2. CASE i # 1
      <4>1. i - 1 \in DOMAIN Tail(q) /\ Tail(q)[i - 1] = q[i]  BY <1>1, <3>2
      <4> QED  BY <4>1 DEF Range
    <3> QED  BY <3>1, <3>2
  <2>2. ASSUME NEW i \in DOMAIN Tail(q) PROVE Tail(q)[i] \in Range(q)
    <3>1. i + 1 \in DOMAIN q /\ Tail(q)[i] = q[i + 1]  BY <1>1
    <3> QED  BY <3>1 DEF Range
  <2>3. Head(q) \in Range(q)  BY <1>1 DEF Range
  <2> QED  BY <2>1, <2>2, <2>3 DEF Range
<1>4. ASSUME \A i, j \in DOMAIN q : q[i] = q[j] => i = j
      PROVE  /\ Head(q) \notin Range(Tail(q))
             /\ \A i, j \in DOMAIN Tail(q) : Tail(q)[i] = Tail(q)[j] => i = j
  <2>1. \A i \in DOMAIN Tail(q) : i + 1 \in DOMAIN q /\ Tail(q)[i] = q[i + 1] /\ i + 1 # 1
    BY <1>1
  <2>2. Head(q) \notin Range(Tail(q))  BY <1>1, <1>4, <2>1 DEF Range
  <2>3. ASSUME NEW i \in DOMAIN Tail(q), NEW j \in DOMAIN Tail(q), Tail(q)[i] = Tail(q)[j]
        PROVE  i = j
    <3>1. i + 1 = j + 1  BY <1>4, <2>1, <2>3
    <3> QED  BY <1>1, <3>1
  <2> QED  BY <2>2, <2>3
<1> QED  BY <1>2, <1>3, <1>4

-----------------------------------------------------------------------------
(* Types.  Player_Add takes the object that HandlePlayerLogin has made.    *)

SessTypes ==
    /\ state \in [Session -> {"none", "live", "erased", "replaced", "freed"}]
    /\ player \in [Session -> Created \cup {None}]
    /\ loading \subseteq Session /\ adding \subseteq Session
    /\ of \in Seq(Session) /\ Created \subseteq Player /\ deleted \subseteq Created
    /\ newPlayer \in Seq(Created) /\ delPlayer \in Seq(Created)
    /\ map \in [Guid -> Created \cup {None}]
    /\ phase \in {"add", "del", "sessions"}
    /\ \A s \in adding : \E o \in Created : of[o] = s

TypeInv == SessTypes /\ WorldOK(Chat)

(* The type invariant and the map follow from the inductive one.           *)
LEMMA TypeInvTypes ==
    TypeInv => TypeOK /\ MapOK
<1> SUFFICES ASSUME TypeInv PROVE TypeOK /\ MapOK
  OBVIOUS
<1>1. /\ chans \in [Player -> SUBSET ChanId] /\ DOMAIN heap \subseteq ChanId
      /\ \A c \in DOMAIN heap : Sound(heap[c])
      /\ mgr \in [Teams -> [Name -> DOMAIN heap \cup {None}]]
  BY DEF TypeInv, WorldOK, Chat
<1>2. \A c \in DOMAIN heap : heap[c] \in Channels  BY <1>1 DEF Sound
<1> QED  BY <1>1, <1>2 DEF TypeInv, SessTypes, TypeOK, MapOK

(* The objects made so far are 1, 2, ...; none is number 0.                *)
LEMMA ObjectFacts ==
    ASSUME SessTypes
    PROVE  /\ Len(of) \in Nat /\ Created = 1 .. Len(of) /\ None \notin Created
           /\ Cardinality(Created) = Len(of)
           /\ \A o \in Created : of[o] \in Session /\ GuidOf(o) \in Guid /\ o \in Player
           /\ \A s \in adding : Max({o \in Created : of[o] = s}) \in {o \in Created : of[o] = s}
<1>1. Len(of) \in Nat /\ Created = 1 .. Len(of)  BY DEF SessTypes, Created
<1>2. None \notin Created  BY <1>1 DEF None
<1>3. Cardinality(Created) = Len(of)
  <2>1. 1 \in Int /\ Len(of) \in Int  BY <1>1
  <2>2. Cardinality(1 .. Len(of)) = IF 1 > Len(of) THEN 0 ELSE Len(of) - 1 + 1
    BY <2>1, FS_Interval
  <2> QED  BY <1>1, <2>2
<1>4. \A o \in Created : of[o] \in Session /\ GuidOf(o) \in Guid /\ o \in Player
  <2> SUFFICES ASSUME NEW o \in Created
               PROVE  of[o] \in Session /\ GuidOf(o) \in Guid /\ o \in Player
    OBVIOUS
  <2>1. of[o] \in Session /\ o \in Player
    <3>1. of \in Seq(Session) /\ Created \subseteq Player  BY DEF SessTypes
    <3>2. o \in 1 .. Len(of)  BY <1>1
    <3> QED  BY <3>1, <3>2
  <2> QED  BY <2>1, CharAssumption DEF GuidOf
<1>5. ASSUME NEW s \in adding
      PROVE  Max({o \in Created : of[o] = s}) \in {o \in Created : of[o] = s}
  <2> DEFINE S == {o \in Created : of[o] = s}
  <2>1. S # {} /\ S \in SUBSET (0 .. Len(of))  BY <1>1 DEF SessTypes
  <2> HIDE DEF S
  <2>2. Max(S) \in S  BY <1>1, <2>1, MaxIsElement
  <2> QED  BY <2>2 DEF S
<1> QED  BY <1>1, <1>2, <1>3, <1>4, <1>5

(* A step that changes the channels ends in the value it names.            *)
LEMMA BecomesChat ==
    ASSUME NEW w, WorldOK(w), Becomes(w)
    PROVE  Chat' = w
BY DEF WorldOK, Becomes, Chat

(* A step that leaves the variables of the chat leaves the chat.           *)
LEMMA ChatStays ==
    UNCHANGED chatVars => Chat' = Chat
BY DEF chatVars, Chat

(* The types hold at first.                                                *)
LEMMA InitTypes ==
    Init => TypeInv
<1> SUFFICES ASSUME Init PROVE TypeInv
  OBVIOUS
<1> DEFINE N == Cardinality(Resident)
<1>1. N \in Nat  BY CharAssumption, FS_CardinalityType
<1>2. Resident = 1 .. N /\ N =< MaxPlayers /\ MaxPlayers \in Nat /\ Resident \subseteq Session
  BY CharAssumption
<1> HIDE DEF N
<1>3. of \in Seq(Session) /\ Created = 1 .. N /\ Created \subseteq Player
  BY <1>1, <1>2 DEF Init, Created, Player
<1>4. map \in [Guid -> Created \cup {None}]
  <2>1. ASSUME NEW g \in Guid
        PROVE  Max({None} \cup {s \in Resident : Char[s] = g}) \in Created \cup {None}
    <3> DEFINE S == {None} \cup {s \in Resident : Char[s] = g}
    <3>1. S # {} /\ S \in SUBSET (0 .. N)  BY <1>1, <1>2 DEF None
    <3>2. S \subseteq Created \cup {None}  BY <1>2, <1>3
    <3> HIDE DEF S
    <3>3. Max(S) \in S  BY <1>1, <3>1, MaxIsElement
    <3> QED  BY <3>2, <3>3 DEF S
  <2> QED  BY <2>1 DEF Init
<1>5. player \in [Session -> Created \cup {None}]
  BY <1>2, <1>3 DEF Init
<1>6. SessTypes  BY <1>3, <1>4, <1>5 DEF Init, SessTypes
<1>7. WorldOK(Chat)
  <2>1. Chat.chans = chans /\ Chat.heap = heap /\ Chat.mgr = mgr
    BY DEF Chat
  <2>2. chans \in [Player -> SUBSET ChanId] /\ DOMAIN heap = {}  BY DEF Init
  <2>3. mgr \in [Teams -> [Name -> DOMAIN heap \cup {None}]] /\ OneName(mgr)
    BY DEF Init, OneName
  <2>4. Chat = [chans |-> Chat.chans, heap |-> Chat.heap, mgr |-> Chat.mgr]
    BY DEF Chat
  <2> HIDE DEF Chat
  <2> QED  BY <2>1, <2>2, <2>3, <2>4 DEF WorldOK
<1> QED  BY <1>6, <1>7 DEF TypeInv

-----------------------------------------------------------------------------
(* What a channel opcode of session s does: somebody joins or leaves, and  *)
(* it is the character of s or one who is only removed.                    *)
OpcodeActs(s, v) ==
    \E g \in Guid :
        /\ ActsFor(Chat, v, g)
        /\ g # Char[s] => map[g] # None /\ v.chans[map[g]] \subseteq Chat.chans[map[g]]

(* Two addresses are free, so that both halves of a join find one.         *)
LEMMA TwoFree ==
    ASSUME Cardinality(Free(Chat)) > 1
    PROVE  Free(Chat) # {} /\ \A c : Free(Chat) \ {c} # {}
<1> DEFINE F == Free(Chat)
<1>1. IsFiniteSet(F)
  <2>1. MaxChannels \in Int /\ 1 \in Int  BY CharAssumption
  <2>2. IsFiniteSet(ChanId)  BY <2>1, FS_Interval DEF ChanId
  <2>3. F \in SUBSET ChanId  BY DEF Free
  <2> QED  BY <2>2, <2>3, FS_Subset
<1>2. Cardinality(F) > 1  OBVIOUS
<1> HIDE DEF F
<1>3. F # {}  BY <1>2, FS_EmptySet
<1>4. \A c : F # {c}
  <2> SUFFICES ASSUME NEW c, F = {c} PROVE FALSE
    OBVIOUS
  <2>1. Cardinality(F) = 1  BY <1>1, FS_Singleton
  <2> QED  BY <1>2, <2>1
<1>5. \A c : F \ {c} # {}  BY <1>3, <1>4
<1> QED  BY <1>3, <1>5 DEF F

(* What a channel opcode does to the chat, it does for its sender.         *)
LEMMA ChannelEffect ==
    ASSUME TypeInv, NEW s \in Session, NEW n \in Name, ChannelStep(s, n)
    PROVE  OpcodeActs(s, Chat')
<1> DEFINE g == Char[s]
           t == Team[g]
           c == Own(s, n)
<1>1. g \in Guid /\ t \in Teams  BY CharAssumption
<1>2. WorldOK(Chat) /\ MapOK /\ Created \subseteq Player
  BY TypeInvTypes DEF TypeInv, SessTypes
<1>3. Chat.heap = heap  BY DEF Chat
<1>4. c # None => c \in DOMAIN heap /\ Sound(heap[c])
  <2>1. c = Chat.mgr[ChannelMgr(t)][n]  BY DEF Own, GetChannel
  <2>2. ChannelMgr(t) \in Teams  BY <1>1, MgrIsTeam
  <2> HIDE DEF c, t
  <2>3. c \in DOMAIN Chat.heap \cup {None}  BY <1>2, <2>1, <2>2 DEF WorldOK
  <2>4. \A d \in DOMAIN Chat.heap : Sound(Chat.heap[d])  BY <1>2 DEF WorldOK
  <2> QED  BY <1>3, <2>3, <2>4
<1>5. ASSUME NEW b \in Kinds, NEW pass, HandleJoinChannel(s, n, b, pass)
      PROVE  OpcodeActs(s, Chat')
  <2> DEFINE u == JoinAt(Chat, "alliance", n, b, g, pass)
             v == JoinAt(u, "horde", n, b, g, pass)
  <2>1. Becomes(v)  BY <1>5 DEF HandleJoinChannel
  <2>2. Free(Chat) # {} /\ \A d : Free(Chat) \ {d} # {}
    BY <1>5, TwoFree DEF HandleJoinChannel
  <2>3. "alliance" \in Teams /\ "horde" \in Teams  BY DEF Teams
  <2>4. ActsFor(Chat, u, g) /\ \E d : Free(Chat) \ {d} \subseteq Free(u)
    BY <1>1, <1>2, <2>2, <2>3, JoinAtFacts
  <2> HIDE DEF u
  <2>5. WorldOK(u) /\ Free(u) # {}  BY <2>2, <2>4 DEF ActsFor
  <2>6. ActsFor(u, v, g)
    BY <1>1, <1>2, <2>3, <2>5, JoinAtFacts
  <2> HIDE DEF v
  <2>7. ActsFor(Chat, v, g)  BY <2>4, <2>6, ActsTwice
  <2>8. Chat' = v  BY <2>1, <2>6, BecomesChat DEF ActsFor
  <2> QED  BY <1>1, <2>7, <2>8 DEF OpcodeActs
<1>6. ASSUME HandleLeaveChannel(s, n) PROVE OpcodeActs(s, Chat')
  <2> DEFINE u == LeaveAt(Chat, "alliance", n, g)
             v == LeaveAt(u, "horde", n, g)
  <2>1. Becomes(v)  BY <1>6 DEF HandleLeaveChannel
  <2>2. "alliance" \in Teams /\ "horde" \in Teams  BY DEF Teams
  <2>3. ActsFor(Chat, u, g)  BY <1>1, <1>2, <2>2, LeaveAtFacts
  <2> HIDE DEF u
  <2>4. WorldOK(u)  BY <2>3 DEF ActsFor
  <2>5. ActsFor(u, v, g)  BY <1>1, <1>2, <2>2, <2>4, LeaveAtFacts
  <2> HIDE DEF v
  <2>6. ActsFor(Chat, v, g)  BY <2>3, <2>5, ActsTwice
  <2>7. Chat' = v  BY <2>1, <2>5, BecomesChat DEF ActsFor
  <2> QED  BY <1>1, <2>6, <2>7 DEF OpcodeActs
<1>7. ASSUME NEW bad \in Guid, NEW ban \in BOOLEAN, HandleChannelKick(s, n, bad, ban)
      PROVE  OpcodeActs(s, Chat')
  <2> DEFINE k == Kicked(heap[c], g, bad, ban)
             v == Write(Forget(Chat, bad, c), c, k)
  <2>1. c # None /\ map[bad] # None /\ Becomes(v)
    BY <1>7 DEF HandleChannelKick, FindPlayer
  <2>2. /\ Sound(k) /\ ~Real(k, bad)
        /\ \A q : q # bad => Kept(heap[c], k, q)
    BY <1>1, <1>4, <2>1, KickSound, KickKeeps
  <2> HIDE DEF k, c
  <2>3. ActsFor(Chat, v, bad) /\ (map[bad] # None => v.chans[map[bad]] \subseteq Chat.chans[map[bad]])
    BY <1>1, <1>2, <1>3, <1>4, <2>1, <2>2, RemovalFacts
  <2> HIDE DEF v
  <2>4. Chat' = v  BY <2>1, <2>3, BecomesChat DEF ActsFor
  <2> QED  BY <2>1, <2>3, <2>4 DEF OpcodeActs
<1>8. ASSUME NEW ch, c # None, Sound(ch), \A q : Kept(heap[c], ch, q), Change(s, n, ch)
      PROVE  OpcodeActs(s, Chat')
  <2> DEFINE v == Write(Chat, c, ch)
  <2>1. Becomes(v)  BY <1>8 DEF Change
  <2> HIDE DEF c
  <2>2. ActsFor(Chat, v, g)
    BY <1>1, <1>2, <1>3, <1>4, <1>8, ChangeFacts
  <2> HIDE DEF v
  <2>3. Chat' = v  BY <2>1, <2>2, BecomesChat DEF ActsFor
  <2> QED  BY <1>1, <2>2, <2>3 DEF OpcodeActs
<1>9. ASSUME NEW q \in Guid, HandleChannelUnban(s, n, q) PROVE OpcodeActs(s, Chat')
  <2>1. c # None /\ Change(s, n, UnBanned(heap[c], q))
    BY <1>9 DEF HandleChannelUnban
  <2>2. NoPassword \in Password \cup {NoPassword}  OBVIOUS
  <2>3. Sound(UnBanned(heap[c], q)) /\ \A p : Kept(heap[c], UnBanned(heap[c], q), p)
    BY <1>4, <2>1, <2>2, FieldsSound, FieldsKeep
  <2> QED  BY <1>8, <2>1, <2>3
<1>10. ASSUME NEW pass \in Password \cup {NoPassword}, HandleChannelPassword(s, n, pass)
       PROVE  OpcodeActs(s, Chat')
  <2> DEFINE r == [heap[c] EXCEPT !.password = pass]
  <2>1. c # None /\ Change(s, n, r)  BY <1>10 DEF HandleChannelPassword
  <2>2. Sound(r) /\ \A p : Kept(heap[c], r, p)
    BY <1>4, <2>1, FieldsSound, FieldsKeep
  <2> HIDE DEF r
  <2> QED  BY <1>8, <2>1, <2>2
<1>11. ASSUME NEW q \in Guid, NEW flag \in Modes, NEW set \in BOOLEAN,
              HandleChannelMode(s, n, q, flag, set)
       PROVE  OpcodeActs(s, Chat')
  <2>1. /\ c # None /\ Change(s, n, SetMode(heap[c], q, flag, set))
        /\ flag = "moderator" => q # heap[c].owner
    BY <1>11 DEF HandleChannelMode, MaySetMode
  <2>2. /\ Sound(SetMode(heap[c], q, flag, set))
        /\ \A p : Kept(heap[c], SetMode(heap[c], q, flag, set), p)
    BY <1>4, <2>1, ModeSound, ModeKeeps
  <2> QED  BY <1>8, <2>1, <2>2
<1>12. ASSUME NEW q \in Guid, HandleChannelSetOwner(s, n, q) PROVE OpcodeActs(s, Chat')
  <2>1. c # None /\ Change(s, n, SetOwner(heap[c], q)) /\ q \in AnyGuid
    BY <1>12 DEF HandleChannelSetOwner, AnyGuid
  <2>2. Sound(SetOwner(heap[c], q)) /\ \A p : Kept(heap[c], SetOwner(heap[c], q), p)
    BY <1>4, <2>1, OwnerSound, OwnerKeeps
  <2> QED  BY <1>8, <2>1, <2>2
<1> QED  BY <1>5, <1>6, <1>7, <1>9, <1>10, <1>11, <1>12 DEF ChannelStep

(* CleanupChannels, at logout and when a Player is replaced in the map.    *)
CleanedUp(o, v) ==
    /\ WorldOK(v)
    /\ v.chans[o] = {}
    /\ \A p \in Player : p # o => v.chans[p] = Chat.chans[p]
    /\ \A q : q # GuidOf(o) => Untouched(Chat, v, q)
    /\ \A c : Entry(v, c, GuidOf(o)) => Entry(Chat, c, GuidOf(o)) /\ c \notin Chat.chans[o]
    /\ \A c : On(Chat, c, GuidOf(o)) /\ c \notin Chat.chans[o] => On(v, c, GuidOf(o))

(* CleanupChannels takes the player out of every channel.                  *)
LEMMA CleanupEffect ==
    ASSUME TypeInv, NEW o \in Created, Becomes(CleanupChannels(Chat, o))
    PROVE  CleanedUp(o, Chat')
<1> DEFINE v == CleanupChannels(Chat, o)
<1>1. o \in Player /\ GuidOf(o) \in Guid /\ WorldOK(Chat)
  BY ObjectFacts DEF TypeInv
<1>2. CleanedUp(o, v)  BY <1>1, CleanupFacts DEF CleanedUp
<1> HIDE DEF v
<1>3. Chat' = v  BY <1>2, BecomesChat DEF CleanedUp, v
<1> QED  BY <1>2, <1>3

(* The steps that change the channels.                                     *)
LEMMA ChatEffect ==
    ASSUME TypeInv, [Next]_vars
    PROVE  \/ Chat' = Chat
           \/ \E o \in Created : CleanedUp(o, Chat')
           \/ \E s \in Session, n \in Name : ChannelStep(s, n) /\ OpcodeActs(s, Chat')
<1>1. CASE UNCHANGED vars  BY <1>1, ChatStays DEF vars, chatVars
<1>2. ASSUME NEW s \in Session, SessionStep(s)
      PROVE  Chat' = Chat \/ \E o \in Created : CleanedUp(o, Chat')
  <2>1. player[s] # None => player[s] \in Created  BY DEF TypeInv, SessTypes
  <2>2. ASSUME PlayerLogout(s), player[s] # None
        PROVE  \E o \in Created : CleanedUp(o, Chat')
    BY <2>1, <2>2, CleanupEffect DEF PlayerLogout
  <2>3. CASE Handle_SMSG_LOGOUT_COMPLETE(s)
    BY <2>2, <2>3 DEF Handle_SMSG_LOGOUT_COMPLETE
  <2>4. CASE Destroy(s)
    BY <2>2, <2>4, ChatStays DEF Destroy
  <2>5. CASE \/ AddSession_(s) \/ EraseSession(s) \/ HandlePlayerLoginOpcode(s)
             \/ HandlePlayerLogin(s) \/ Player_Add(s)
    BY <2>5, ChatStays DEF AddSession_, EraseSession, HandlePlayerLoginOpcode,
                           HandlePlayerLogin, Player_Add
  <2> QED  BY <1>2, <2>3, <2>4, <2>5 DEF SessionStep
<1>3. CASE UpdateNew
  <2> DEFINE g == GuidOf(Head(newPlayer))
  <2>1. Head(newPlayer) \in Created  BY <1>3 DEF UpdateNew, TypeInv, SessTypes
  <2>2. g \in Guid  BY <2>1, ObjectFacts DEF TypeInv
  <2>3. map[g] # None => map[g] \in Created  BY <2>2 DEF TypeInv, SessTypes
  <2>4. IF map[g] = None THEN UNCHANGED chatVars ELSE Becomes(CleanupChannels(Chat, map[g]))
    BY <1>3 DEF UpdateNew
  <2> HIDE DEF g
  <2> QED  BY <2>3, <2>4, ChatStays, CleanupEffect
<1>4. CASE UpdateDel \/ Turn  BY <1>4, ChatStays DEF UpdateDel, Turn
<1>5. ASSUME NEW s \in Session, NEW n \in Name, ChannelStep(s, n)
      PROVE  ChannelStep(s, n) /\ OpcodeActs(s, Chat')
  BY <1>5, ChannelEffect
<1> QED  BY <1>1, <1>2, <1>3, <1>4, <1>5 DEF Next

(* Of the rest of the state a channel opcode changes the history only.     *)
LEMMA OpcodeFrame ==
    ASSUME NEW s \in Session, NEW n \in Name, ChannelStep(s, n)
    PROVE  /\ UNCHANGED <<sessVars, of, regVars>>
           /\ state[s] = "live" /\ player[s] # None
           /\ Irregular(Char[s], map[Char[s]] # player[s])
<1>1. Opcode(s)
  BY DEF ChannelStep, HandleJoinChannel, HandleLeaveChannel, HandleChannelKick,
         HandleChannelUnban, HandleChannelPassword, HandleChannelMode, HandleChannelSetOwner
<1> QED  BY <1>1 DEF Opcode, FindPlayer

(* Every step preserves the types of the sessions.                         *)
LEMMA NextSessTypes ==
    ASSUME SessTypes, [Next]_vars
    PROVE  SessTypes'
<1> USE DEF SessTypes
<1>1. CASE UNCHANGED vars  BY <1>1 DEF vars, sessVars, regVars, Created
<1>2. ASSUME NEW s \in Session, AddSession_(s) PROVE SessTypes'
  BY <1>2 DEF AddSession_, regVars, Created
<1>3. ASSUME NEW s \in Session, EraseSession(s) PROVE SessTypes'
  BY <1>3 DEF EraseSession, regVars, Created
<1>4. ASSUME NEW s \in Session, HandlePlayerLoginOpcode(s) PROVE SessTypes'
  <2>1. loading' \subseteq Session  BY <1>4 DEF HandlePlayerLoginOpcode
  <2> QED  BY <1>4, <2>1 DEF HandlePlayerLoginOpcode, regVars, Created
<1>5. ASSUME NEW s \in Session, PlayerLogout(s), player[s] # None
      PROVE  delPlayer' \in Seq(Created) /\ player' \in [Session -> Created \cup {None}]
  BY <1>5 DEF PlayerLogout
<1>6. ASSUME NEW s \in Session, Handle_SMSG_LOGOUT_COMPLETE(s) PROVE SessTypes'
  BY <1>5, <1>6 DEF Handle_SMSG_LOGOUT_COMPLETE, Created
<1>7. ASSUME NEW s \in Session, Destroy(s) PROVE SessTypes'
  <2>1. delPlayer' \in Seq(Created) /\ player' \in [Session -> Created \cup {None}]
    BY <1>5, <1>7 DEF Destroy
  <2> QED  BY <1>7, <2>1 DEF Destroy, Created
<1>8. ASSUME NEW s \in Session, HandlePlayerLogin(s) PROVE SessTypes'
  <2>1. CASE UNCHANGED <<of, player, adding>>
    BY <1>8, <2>1 DEF HandlePlayerLogin, regVars, Created
  <2>2. CASE /\ Cardinality(Created) < MaxPlayers
             /\ of' = Append(of, s)
             /\ player' = [player EXCEPT ![s] = Len(of')]
             /\ adding' = adding \cup {s}
    <3>1. Len(of) \in Nat /\ Created = 1 .. Len(of) /\ Cardinality(Created) = Len(of)
      BY ObjectFacts
    <3>2. /\ of' \in Seq(Session) /\ Created' = 1 .. Len(of) + 1 /\ Len(of') = Len(of) + 1
          /\ of'[Len(of) + 1] = s /\ \A o \in Created : of'[o] = of[o]
      BY <2>2, <3>1 DEF Created
    <3>3. Created \subseteq Created' /\ Len(of') \in Created'  BY <3>1, <3>2
    <3>4. Created' \subseteq Player
      BY <2>2, <3>1, <3>2, CharAssumption DEF Player
    <3>5. newPlayer' \in Seq(Created') /\ delPlayer' \in Seq(Created')
      BY <1>8, <3>3 DEF HandlePlayerLogin, regVars
    <3>6. \A r \in adding' : \E o \in Created' : of'[o] = r
      BY <2>2, <3>2, <3>3
    <3>7. /\ player' \in [Session -> Created' \cup {None}] /\ map' \in [Guid -> Created' \cup {None}]
          /\ deleted' \subseteq Created'
      BY <1>8, <2>2, <3>3 DEF HandlePlayerLogin, regVars
    <3>8. /\ UNCHANGED <<state, phase>>
          /\ loading' \subseteq Session /\ adding' \subseteq Session
      BY <1>8, <2>2 DEF HandlePlayerLogin, regVars
    <3> QED  BY <3>2, <3>4, <3>5, <3>6, <3>7, <3>8
  <2> QED  BY <1>8, <2>1, <2>2 DEF HandlePlayerLogin
<1>9. ASSUME NEW s \in Session, Player_Add(s) PROVE SessTypes'
  <2>1. Max({o \in Created : of[o] = s}) \in Created
    BY <1>9, ObjectFacts DEF Player_Add
  <2>2. newPlayer' \in Seq(Created)  BY <1>9, <2>1 DEF Player_Add
  <2> QED  BY <1>9, <2>2 DEF Player_Add, Created
<1>10. CASE UpdateNew
  <2>1. Head(newPlayer) \in Created /\ Tail(newPlayer) \in Seq(Created)
    BY <1>10 DEF UpdateNew
  <2> QED  BY <1>10, <2>1 DEF UpdateNew, sessVars, Created
<1>11. CASE UpdateDel
  <2>1. Head(delPlayer) \in Created /\ Tail(delPlayer) \in Seq(Created)
    BY <1>11 DEF UpdateDel
  <2>2. deleted' \subseteq Created  BY <1>11, <2>1 DEF UpdateDel
  <2> QED  BY <1>11, <2>1, <2>2 DEF UpdateDel, sessVars, Created
<1>12. CASE Turn  BY <1>12 DEF Turn, sessVars, Created
<1>13. ASSUME NEW s \in Session, NEW n \in Name, ChannelStep(s, n) PROVE SessTypes'
  BY <1>13, OpcodeFrame DEF sessVars, regVars, Created
<1> QED
  BY <1>1, <1>2, <1>3, <1>4, <1>6, <1>7, <1>8, <1>9, <1>10, <1>11, <1>12, <1>13
     DEF Next, SessionStep

(* Every step preserves the types.                                         *)
LEMMA NextTypes ==
    TypeInv /\ [Next]_vars => TypeInv'
<1> SUFFICES ASSUME TypeInv, [Next]_vars PROVE TypeInv'
  OBVIOUS
<1>1. SessTypes'  BY NextSessTypes DEF TypeInv
<1>2. WorldOK(Chat')
  BY ChatEffect DEF TypeInv, CleanedUp, OpcodeActs, ActsFor
<1> QED  BY <1>1, <1>2 DEF TypeInv

(* Types, in every state.                                                  *)
THEOREM ChatTypes == Spec => []TypeOK
<1>1. TypeInv => TypeOK  BY TypeInvTypes
<1> QED  BY <1>1, InitTypes, NextTypes, PTL DEF Spec

(* Whatever the players of the hub do with a channel, and whenever they    *)
(* log out or are replaced, only the member that m_ownerGUID names has the *)
(* owner flag: Leave, KickOrBan and SetMode agree on who the owner is.     *)
THEOREM OwnersAgree == Spec => []OneOwnerEach
<1>1. TypeInv => OneOwnerEach
  BY DEF TypeInv, WorldOK, Chat, Sound, OneOwnerEach
<1> QED  BY <1>1, InitTypes, NextTypes, PTL DEF Spec

(* Whoever has the owner flag has the moderator flag: SetMode, which goes  *)
(* by m_ownerGUID, never takes it from him, whoever made him the owner.    *)
THEOREM OwnersAreModerators == Spec => []OwnersModerate
<1>1. TypeInv => OwnersModerate
  BY DEF TypeInv, WorldOK, Chat, Sound, OwnersModerate
<1> QED  BY <1>1, InitTypes, NextTypes, PTL DEF Spec

(* Nobody is in a channel whose list of bans has him, whether the ban is   *)
(* one of KickOrBan or was read from the table by the constructor, whatever*)
(* the table says.                                                         *)
THEOREM BansHold == Spec => []BannedStayOut
<1>1. TypeInv => BannedStayOut
  BY DEF TypeInv, WorldOK, Chat, Sound, BannedStayOut
<1> QED  BY <1>1, InitTypes, NextTypes, PTL DEF Spec

-----------------------------------------------------------------------------
(* The way of a Player object: made by HandlePlayerLogin, put into         *)
(* _NewPlayer, into the map, and into _DelPlayer at the session's logout.  *)

Latest(s) == Max({o \in Created : of[o] = s})

(* On its way into the map.                                                *)
Coming(o) == (\E s \in adding : o = Latest(s)) \/ o \in Range(newPlayer)

(* The login has been asked for after the last logout.                     *)
LoadingOK == \A s \in loading : player[s] = None

PlayingOK ==
    \A s \in Session : player[s] # None =>
        /\ of[player[s]] = s
        /\ player[s] \notin Range(delPlayer) /\ player[s] \notin deleted

(* An object is in one place on its way, and is there once.                *)
WayOK ==
    /\ \A g \in Guid : map[g] # None => GuidOf(map[g]) = g /\ ~Coming(map[g])
    /\ \A i, j \in DOMAIN newPlayer : newPlayer[i] = newPlayer[j] => i = j
    /\ \A s \in adding : Latest(s) \notin Range(newPlayer)

(* An object that is coming or that is found is played, or has been logged *)
(* out and will be taken out of the map.                                   *)
AliveOK ==
    \A o \in Created :
        GuidOf(o) \notin irregular /\ (Coming(o) \/ map[GuidOf(o)] = o) =>
            /\ player[of[o]] = o \/ o \in Range(delPlayer)
            /\ o \notin deleted

RegInv == LoadingOK /\ PlayingOK /\ WayOK /\ AliveOK

(* The objects on their way depend on these variables only.                *)
LEMMA ComingFrame ==
    ASSUME UNCHANGED <<adding, of, newPlayer>>
    PROVE  /\ \A s : Latest(s)' = Latest(s)
           /\ \A o : Coming(o)' <=> Coming(o)
           /\ \A o : GuidOf(o)' = GuidOf(o)
           /\ Created' = Created
BY DEF Latest, Coming, Created, GuidOf

(* The way of an object into the map depends on four variables.            *)
LEMMA WayFrame ==
    ASSUME UNCHANGED <<adding, of, newPlayer, map>>, WayOK
    PROVE  WayOK'
BY ComingFrame DEF WayOK

(* A step that moves no player preserves the life of the players.          *)
LEMMA RegFrame ==
    ASSUME RegInv, UNCHANGED <<player, adding, of, newPlayer, delPlayer, map, deleted>>,
           loading' \subseteq loading, irregular \subseteq irregular'
    PROVE  RegInv'
<1>1. LoadingOK' /\ PlayingOK'  BY DEF RegInv, LoadingOK, PlayingOK
<1>2. WayOK'  BY WayFrame DEF RegInv
<1>3. AliveOK'  BY ComingFrame DEF RegInv, AliveOK
<1> QED  BY <1>1, <1>2, <1>3 DEF RegInv

(* A second CMSG_PLAYER_LOGIN is irregular; any other finds no player.     *)
LEMMA RegLoginOpcode ==
    ASSUME SessTypes, RegInv, NEW s \in Session, HandlePlayerLoginOpcode(s)
    PROVE  RegInv'
<1>1. /\ player' = [player EXCEPT ![s] = None] /\ loading' \subseteq loading \cup {s}
      /\ UNCHANGED <<adding, of, newPlayer, delPlayer, map, deleted>>
      /\ irregular \subseteq irregular' /\ (player[s] # None => Char[s] \in irregular')
  BY DEF HandlePlayerLoginOpcode, regVars, Irregular
<1>2. player'[s] = None /\ \A r \in Session : r # s => player'[r] = player[r]
  BY <1>1 DEF SessTypes
<1>3. LoadingOK'  BY <1>1, <1>2 DEF RegInv, LoadingOK, SessTypes
<1>4. PlayingOK'  BY <1>1, <1>2 DEF RegInv, PlayingOK
<1>5. WayOK'  BY <1>1, WayFrame DEF RegInv
<1>6. AliveOK'
  <2> SUFFICES ASSUME NEW o \in Created, GuidOf(o) \notin irregular',
                      Coming(o) \/ map[GuidOf(o)] = o
               PROVE  (player'[of[o]] = o \/ o \in Range(delPlayer)) /\ o \notin deleted
    BY <1>1, ComingFrame DEF AliveOK
  <2>1. /\ player[of[o]] = o \/ o \in Range(delPlayer)
        /\ o \notin deleted /\ of[o] \in Session
    BY <1>1, ObjectFacts DEF RegInv, AliveOK
  <2>2. CASE of[o] # s  BY <1>2, <2>1, <2>2
  <2>3. CASE of[o] = s
    <3>1. player[s] = None  BY <1>1, <2>3 DEF GuidOf
    <3>2. player[s] # o  BY <3>1, ObjectFacts
    <3> QED  BY <2>1, <2>3, <3>2
  <2> QED  BY <2>2, <2>3
<1> QED  BY <1>3, <1>4, <1>5, <1>6 DEF RegInv

(* A logout moves the player to _DelPlayer.                                *)
LEMMA RegLogout ==
    ASSUME SessTypes, RegInv, NEW s \in Session, player[s] # None, PlayerLogout(s),
           UNCHANGED <<adding, of, newPlayer, map, deleted, irregular>>,
           loading' \subseteq loading
    PROVE  RegInv'
<1>1. player[s] \in Created  BY DEF SessTypes
<1>2. Range(delPlayer') = Range(delPlayer) \cup {player[s]}
  BY <1>1, AppendFacts DEF SessTypes, PlayerLogout
<1>3. player'[s] = None /\ \A r \in Session : r # s => player'[r] = player[r]
  BY DEF SessTypes, PlayerLogout
<1>4. LoadingOK'  BY <1>3 DEF RegInv, LoadingOK, SessTypes
<1>5. PlayingOK'
  <2>1. \A r \in Session : r # s /\ player[r] # None => player[r] # player[s]
    BY DEF RegInv, PlayingOK
  <2> QED  BY <1>2, <1>3, <2>1 DEF RegInv, PlayingOK
<1>6. WayOK'  BY WayFrame DEF RegInv
<1>7. AliveOK'
  <2> SUFFICES ASSUME NEW o \in Created, GuidOf(o) \notin irregular,
                      Coming(o) \/ map[GuidOf(o)] = o
               PROVE  (player'[of[o]] = o \/ o \in Range(delPlayer')) /\ o \notin deleted
    BY ComingFrame DEF AliveOK
  <2>1. /\ player[of[o]] = o \/ o \in Range(delPlayer)
        /\ o \notin deleted /\ of[o] \in Session
    BY ObjectFacts DEF RegInv, AliveOK
  <2> QED  BY <1>2, <1>3, <2>1
<1> QED  BY <1>4, <1>5, <1>6, <1>7 DEF RegInv

(* The new object is coming, and no other object changes its place.        *)
LEMMA RegLogin ==
    ASSUME SessTypes, RegInv, NEW s \in Session, HandlePlayerLogin(s)
    PROVE  RegInv'
<1>1. CASE UNCHANGED <<of, player, adding>>
  BY <1>1, RegFrame DEF HandlePlayerLogin, regVars
<1>2. CASE /\ of' = Append(of, s) /\ player' = [player EXCEPT ![s] = Len(of')]
           /\ adding' = adding \cup {s}
  <2> DEFINE new == Len(of) + 1
  <2>0. /\ s \notin adding /\ s \in loading /\ loading' = loading \ {s}
        /\ UNCHANGED <<newPlayer, delPlayer, map, deleted, irregular>>
    BY DEF HandlePlayerLogin, regVars
  <2>1. Len(of) \in Nat /\ Created = 1 .. Len(of) /\ None \notin Created
    BY ObjectFacts
  <2>2. /\ Created' = 1 .. new /\ Len(of') = new
        /\ of'[new] = s /\ \A o \in Created : of'[o] = of[o]
    BY <1>2, <2>1 DEF Created, SessTypes
  <2>3. /\ Created' = Created \cup {new} /\ new \notin Created /\ new # None
        /\ \A o \in Created : GuidOf(o)' = GuidOf(o)
    BY <2>1, <2>2 DEF GuidOf, None
  <2>4. player'[s] = new /\ \A r \in Session : r # s => player'[r] = player[r]
    BY <1>2, <2>2 DEF SessTypes
  <2>5. player[s] = None  BY <2>0 DEF RegInv, LoadingOK
  <2>6. Latest(s)' = new
    <3> DEFINE S == {o \in Created' : of'[o] = s}
    <3>1. new \in S /\ \A y \in S : y \in Nat /\ y =< new  BY <2>1, <2>2
    <3> HIDE DEF S
    <3>2. new \in Nat  BY <2>1
    <3> HIDE DEF new
    <3>3. \A x \in S : (\A y \in S : x >= y) => x = new  BY <3>1, <3>2
    <3>4. \A y \in S : new >= y  BY <3>1, <3>2
    <3>5. Max(S) = new  BY <3>1, <3>3, <3>4 DEF Max
    <3> QED  BY <3>5 DEF Latest, S
  <2>7. \A r \in adding : Latest(r)' = Latest(r)
    <3> SUFFICES ASSUME NEW r \in adding PROVE Latest(r)' = Latest(r)
      OBVIOUS
    <3>1. r # s  BY <2>0
    <3>2. {o \in Created' : of'[o] = r} = {o \in Created : of[o] = r}
      BY <2>2, <2>3, <3>1
    <3> QED  BY <3>2 DEF Latest
  <2> HIDE DEF new
  <2>8. \A o : Coming(o)' <=> Coming(o) \/ o = new
    <3>1. \A o : Coming(o)' <=> (\E r \in adding' : o = Latest(r)') \/ o \in Range(newPlayer)
      BY <2>0 DEF Coming
    <3> QED  BY <1>2, <2>6, <2>7, <3>1 DEF Coming
  <2>9. Range(newPlayer) \subseteq Created /\ Range(delPlayer) \subseteq Created
        /\ deleted \subseteq Created
    BY DEF SessTypes, Range
  <2>10. LoadingOK'  BY <2>0, <2>4 DEF RegInv, LoadingOK, SessTypes
  <2>11. PlayingOK'
    <3> SUFFICES ASSUME NEW r \in Session, player'[r] # None
                 PROVE  /\ of'[player'[r]] = r
                        /\ player'[r] \notin Range(delPlayer) /\ player'[r] \notin deleted
      BY <2>0 DEF PlayingOK
    <3>1. CASE r = s  BY <2>2, <2>3, <2>4, <2>9, <3>1
    <3>2. CASE r # s
      <4>1. player[r] \in Created /\ player'[r] = player[r]  BY <2>4, <3>2 DEF SessTypes
      <4> QED  BY <2>2, <4>1 DEF RegInv, PlayingOK
    <3> QED  BY <3>1, <3>2
  <2>12. WayOK'
    <3>1. \A g \in Guid : map[g] # None => map[g] \in Created  BY DEF SessTypes
    <3>3. \A r \in adding' : Latest(r)' \notin Range(newPlayer)
      BY <1>2, <2>3, <2>6, <2>7, <2>9 DEF RegInv, WayOK
    <3>4. ASSUME NEW g \in Guid, map'[g] # None
          PROVE  GuidOf(map[g])' = g /\ ~Coming(map[g])'
      <4>1. PICK o \in Created : o = map[g] /\ map'[g] = o  BY <2>0, <3>1, <3>4
      <4>2. GuidOf(o)' = g /\ ~Coming(o)'
        BY <2>3, <2>8, <3>4, <4>1 DEF RegInv, WayOK
      <4> QED  BY <4>1, <4>2 DEF GuidOf, Coming
    <3> QED  BY <2>0, <3>3, <3>4 DEF RegInv, WayOK
  <2>13. AliveOK'
    <3> SUFFICES ASSUME NEW o \in Created', GuidOf(o)' \notin irregular,
                        Coming(o)' \/ map[GuidOf(o)'] = o
                 PROVE  (player'[of'[o]] = o \/ o \in Range(delPlayer)) /\ o \notin deleted
      BY <2>0 DEF AliveOK
    <3>1. CASE o = new  BY <2>2, <2>3, <2>4, <2>9, <3>1
    <3>2. CASE o # new
      <4>1. o \in Created /\ of'[o] = of[o] /\ GuidOf(o)' = GuidOf(o) /\ of[o] \in Session
        BY <2>2, <2>3, <3>2, ObjectFacts
      <4>2. (player[of[o]] = o \/ o \in Range(delPlayer)) /\ o \notin deleted
        BY <2>8, <3>2, <4>1 DEF RegInv, AliveOK
      <4>3. of[o] = s => o \in Range(delPlayer)  BY <2>1, <2>5, <4>1, <4>2
      <4> QED  BY <2>4, <4>1, <4>2, <4>3
    <3> QED  BY <3>1, <3>2
  <2> QED  BY <2>10, <2>11, <2>12, <2>13 DEF RegInv
<1> QED  BY <1>1, <1>2 DEF HandlePlayerLogin

(* Player_Add hands on the object that HandlePlayerLogin has made.         *)
LEMMA RegAdd ==
    ASSUME SessTypes, RegInv, NEW s \in Session, Player_Add(s)
    PROVE  RegInv'
<1> DEFINE o == Latest(s)
<1>1. /\ s \in adding /\ adding' = adding \ {s} /\ newPlayer' = Append(newPlayer, o)
      /\ UNCHANGED <<player, loading, of, delPlayer, map, deleted, irregular>>
  BY DEF Player_Add, Latest
<1>2. o \in Created /\ of[o] = s /\ \A r \in adding : of[Latest(r)] = r
  BY <1>1, ObjectFacts DEF Latest
<1> HIDE DEF o
<1>3. /\ Range(newPlayer') = Range(newPlayer) \cup {o}
      /\ DOMAIN newPlayer' = 1 .. Len(newPlayer) + 1
      /\ \A i \in 1 .. Len(newPlayer) : newPlayer'[i] = newPlayer[i]
      /\ newPlayer'[Len(newPlayer) + 1] = o
      /\ Len(newPlayer) \in Nat /\ DOMAIN newPlayer = 1 .. Len(newPlayer)
  BY <1>1, <1>2, AppendFacts DEF SessTypes
<1>4. /\ \A r : Latest(r)' = Latest(r)
      /\ \A x : GuidOf(x)' = GuidOf(x)
      /\ Created' = Created
  BY <1>1 DEF Latest, Created, GuidOf
<1>5. \A x : Coming(x)' => Coming(x)
  BY <1>1, <1>3, <1>4 DEF Coming, o
<1>6. LoadingOK' /\ PlayingOK'  BY <1>1 DEF RegInv, LoadingOK, PlayingOK
<1>7. WayOK'
  <2>1. ASSUME NEW g \in Guid, map'[g] # None
        PROVE  GuidOf(map[g])' = g /\ ~Coming(map[g])'
    <3>1. PICK x : x = map[g] /\ map'[g] = x  BY <1>1
    <3>2. GuidOf(x)' = g /\ ~Coming(x)'  BY <1>4, <1>5, <2>1, <3>1 DEF RegInv, WayOK
    <3> QED  BY <3>1, <3>2 DEF GuidOf, Coming
  <2>2. o \notin Range(newPlayer)  BY <1>1 DEF RegInv, WayOK, o
  <2>3. ASSUME NEW i \in DOMAIN newPlayer', NEW j \in DOMAIN newPlayer',
               newPlayer'[i] = newPlayer'[j]
        PROVE  i = j
    <3>1. \A k \in 1 .. Len(newPlayer) : newPlayer'[k] # o /\ newPlayer'[k] = newPlayer[k]
      BY <1>3, <2>2 DEF Range
    <3> QED  BY <1>3, <2>3, <3>1 DEF RegInv, WayOK
  <2>4. \A r \in adding' : Latest(r)' \notin Range(newPlayer')
    <3>1. \A r \in adding' : r \in adding /\ r # s  BY <1>1
    <3> QED  BY <1>2, <1>3, <1>4, <3>1 DEF RegInv, WayOK
  <2> QED  BY <2>1, <2>3, <2>4 DEF WayOK
<1>8. AliveOK'  BY <1>1, <1>4, <1>5 DEF RegInv, AliveOK
<1> QED  BY <1>6, <1>7, <1>8 DEF RegInv

(* UpdateNew: the first object of _NewPlayer goes into the map.            *)
LEMMA RegNew ==
    ASSUME SessTypes, RegInv, UpdateNew
    PROVE  RegInv'
<1> DEFINE o == Head(newPlayer)
           g == GuidOf(o)
<1>1. /\ newPlayer # <<>> /\ newPlayer' = Tail(newPlayer) /\ map' = [map EXCEPT ![g] = o]
      /\ UNCHANGED <<player, loading, adding, of, delPlayer, deleted, irregular>>
  BY DEF UpdateNew, sessVars
<1>2. /\ o \in Created /\ Range(newPlayer) = Range(newPlayer') \cup {o}
      /\ o \notin Range(newPlayer')
      /\ \A i, j \in DOMAIN newPlayer' : newPlayer'[i] = newPlayer'[j] => i = j
  BY <1>1, TailFacts DEF SessTypes, RegInv, WayOK
<1> HIDE DEF o
<1>3. g \in Guid /\ map'[g] = o /\ \A h \in Guid : h # g => map'[h] = map[h]
  BY <1>1, <1>2, ObjectFacts DEF SessTypes
<1>4. /\ \A r : Latest(r)' = Latest(r)
      /\ \A x : GuidOf(x)' = GuidOf(x)
      /\ Created' = Created
  BY <1>1 DEF Latest, Created, GuidOf
<1>5. \A x : Coming(x)' => Coming(x) /\ x # o
  BY <1>1, <1>2, <1>4 DEF Coming, RegInv, WayOK
<1>6. Coming(o)  BY <1>2 DEF Coming
<1>7. LoadingOK' /\ PlayingOK'  BY <1>1 DEF RegInv, LoadingOK, PlayingOK
<1>8. WayOK'
  <2>1. ASSUME NEW h \in Guid, map'[h] # None
        PROVE  GuidOf(map[h])' = h /\ ~Coming(map[h])'
    <3>1. PICK x : map'[h] = x  OBVIOUS
    <3>2. GuidOf(x)' = h /\ ~Coming(x)'
      BY <1>3, <1>4, <1>5, <2>1, <3>1 DEF RegInv, WayOK
    <3> QED  BY <3>1, <3>2 DEF GuidOf, Coming
  <2>2. \A r \in adding' : Latest(r)' \notin Range(newPlayer')
    BY <1>1, <1>2, <1>4 DEF RegInv, WayOK
  <2> QED  BY <1>2, <2>1, <2>2 DEF WayOK
<1>9. AliveOK'
  <2> SUFFICES ASSUME NEW x \in Created, GuidOf(x) \notin irregular,
                      Coming(x)' \/ map'[GuidOf(x)] = x
               PROVE  (player[of[x]] = x \/ x \in Range(delPlayer)) /\ x \notin deleted
    BY <1>1, <1>4 DEF AliveOK
  <2>1. GuidOf(x) \in Guid  BY ObjectFacts
  <2>2. Coming(x) \/ map[GuidOf(x)] = x  BY <1>3, <1>5, <1>6, <2>1
  <2> QED  BY <2>2 DEF RegInv, AliveOK
<1> QED  BY <1>7, <1>8, <1>9 DEF RegInv

(* UpdateDel: an entry that is another object's makes the character        *)
(* irregular.                                                              *)
LEMMA RegDel ==
    ASSUME SessTypes, RegInv, UpdateDel
    PROVE  RegInv'
<1> DEFINE o == Head(delPlayer)
           g == GuidOf(o)
<1>1. /\ delPlayer # <<>> /\ delPlayer' = Tail(delPlayer) /\ map' = [map EXCEPT ![g] = None]
      /\ deleted' \subseteq deleted \cup {o}
      /\ irregular \subseteq irregular' /\ (map[g] # o => g \in irregular')
      /\ UNCHANGED <<player, loading, adding, of, newPlayer>>
  BY DEF UpdateDel, sessVars, Irregular
<1>2. o \in Created /\ Range(delPlayer) = Range(delPlayer') \cup {o}
  BY <1>1, TailFacts DEF SessTypes
<1> HIDE DEF o
<1>3. g \in Guid /\ map'[g] = None /\ \A h \in Guid : h # g => map'[h] = map[h]
  BY <1>1, <1>2, ObjectFacts DEF SessTypes
<1>4. LoadingOK' /\ PlayingOK'
  BY <1>1, <1>2 DEF RegInv, LoadingOK, PlayingOK
<1>5. WayOK'
  <2>1. ASSUME NEW h \in Guid, map'[h] # None
        PROVE  GuidOf(map[h])' = h /\ ~Coming(map[h])'
    <3>1. PICK x : map'[h] = x /\ map[h] = x  BY <1>3, <2>1
    <3>2. GuidOf(x)' = h /\ ~Coming(x)'
      BY <1>1, <2>1, <3>1, ComingFrame DEF RegInv, WayOK
    <3> QED  BY <3>1, <3>2 DEF GuidOf, Coming
  <2> QED  BY <1>1, <2>1, ComingFrame DEF RegInv, WayOK
<1>6. AliveOK'
  <2> SUFFICES ASSUME NEW x \in Created, GuidOf(x) \notin irregular',
                      Coming(x) \/ map'[GuidOf(x)] = x
               PROVE  (player[of[x]] = x \/ x \in Range(delPlayer')) /\ x \notin deleted'
    BY <1>1, ComingFrame DEF AliveOK
  <2>1. GuidOf(x) \in Guid /\ x # None  BY ObjectFacts
  <2>2. Coming(x) \/ map[GuidOf(x)] = x  BY <1>3, <2>1
  <2>3. (player[of[x]] = x \/ x \in Range(delPlayer)) /\ x \notin deleted
    BY <1>1, <2>2 DEF RegInv, AliveOK
  <2>4. x # o
    <3> SUFFICES ASSUME x = o PROVE FALSE
      OBVIOUS
    <3>1. map[g] = o  BY <1>1
    <3>2. ~Coming(x)  BY <1>3, <2>1, <3>1 DEF RegInv, WayOK
    <3> QED  BY <1>3, <2>1, <3>2
  <2> QED  BY <1>1, <1>2, <2>3, <2>4
<1> QED  BY <1>4, <1>5, <1>6 DEF RegInv

(* Every step preserves the life of the players.                           *)
LEMMA NextReg ==
    ASSUME SessTypes, RegInv, [Next]_vars
    PROVE  RegInv'
<1>1. CASE UNCHANGED vars  BY <1>1, RegFrame DEF vars, sessVars, regVars
<1>2. ASSUME NEW s \in Session, AddSession_(s) \/ EraseSession(s) PROVE RegInv'
  BY <1>2, RegFrame DEF AddSession_, EraseSession, regVars
<1>3. ASSUME NEW s \in Session, Handle_SMSG_LOGOUT_COMPLETE(s) PROVE RegInv'
  BY <1>3, RegLogout DEF Handle_SMSG_LOGOUT_COMPLETE
<1>4. ASSUME NEW s \in Session, Destroy(s) PROVE RegInv'
  <2>1. CASE player[s] = None  BY <1>4, <2>1, RegFrame DEF Destroy
  <2>2. CASE player[s] # None  BY <1>4, <2>2, RegLogout DEF Destroy
  <2> QED  BY <2>1, <2>2
<1>5. CASE Turn  BY <1>5, RegFrame DEF Turn, sessVars
<1>6. ASSUME NEW s \in Session, NEW n \in Name, ChannelStep(s, n) PROVE RegInv'
  BY <1>6, OpcodeFrame, RegFrame DEF sessVars, regVars, Irregular
<1> QED
  BY <1>1, <1>2, <1>3, <1>4, <1>5, <1>6, RegLoginOpcode, RegLogin, RegAdd, RegNew, RegDel
     DEF Next, SessionStep

(* It holds at first.                                                      *)
LEMMA InitReg ==
    Init => RegInv
<1> SUFFICES ASSUME Init PROVE RegInv
  OBVIOUS
<1>1. SessTypes  BY InitTypes DEF TypeInv
<1>2. Range(newPlayer) = {} /\ Range(delPlayer) = {} /\ adding = {} /\ loading = {} /\ deleted = {}
  BY DEF Init, Range
<1>3. \A o : ~Coming(o)  BY <1>2 DEF Coming
<1>4. Created = Resident /\ \A o \in Created : of[o] = o /\ player[o] = o
  BY CharAssumption DEF Init, Created
<1>5. \A s \in Session : player[s] # None => player[s] = s /\ s \in Resident
  BY DEF Init
<1>6. PlayingOK  BY <1>2, <1>4, <1>5 DEF PlayingOK
<1>7. \A g \in Guid : map[g] # None => GuidOf(map[g]) = g
  <2> SUFFICES ASSUME NEW g \in Guid, map[g] # None PROVE GuidOf(map[g]) = g
    OBVIOUS
  <2> DEFINE S == {None} \cup {s \in Resident : Char[s] = g}
             N == Cardinality(Resident)
  <2>1. N \in Nat /\ Resident = 1 .. N  BY CharAssumption, FS_CardinalityType
  <2> HIDE DEF N
  <2>2. S # {} /\ S \in SUBSET (0 .. N)  BY <2>1 DEF None
  <2> HIDE DEF S
  <2>3. Max(S) \in S  BY <2>1, <2>2, MaxIsElement
  <2>4. map[g] = Max(S)  BY DEF Init, S
  <2>5. map[g] \in Resident /\ Char[map[g]] = g  BY <2>3, <2>4 DEF S
  <2> QED  BY <1>4, <2>5 DEF GuidOf
<1>8. WayOK  BY <1>2, <1>3, <1>7 DEF WayOK, Init
<1>9. AliveOK  BY <1>2, <1>3, <1>4 DEF AliveOK
<1> QED  BY <1>2, <1>6, <1>8, <1>9 DEF RegInv, LoadingOK

-----------------------------------------------------------------------------
(* The lists of the Players and the entries of the channels.               *)

(* Whoever is found is in the channels of his list; whoever is not found   *)
(* is in none.  No entry that SendToAll would follow has the guid 0.       *)
ListedOK ==
    /\ \A c : ~Entry(Chat, c, NoGuid)
    /\ \A g \in Guid \ irregular :
          /\ map[g] # None => Matches(Chat, g, map[g])
          /\ map[g] = None => \A c : ~Entry(Chat, c, g)

(* The list of a Player that is not in the map, that is logged out, or     *)
(* whose session is gone is empty.                                         *)
EmptyOK ==
    /\ \A o \in Created \ deleted :
          GuidOf(o) \notin irregular /\ map[GuidOf(o)] # o => chans[o] = {}
    /\ \A g \in Guid \ irregular :
          /\ map[g] # None
          /\ map[g] \in Range(delPlayer) \/ state[of[map[g]]] = "freed"
          => chans[map[g]] = {}
    /\ \A o \in Player \ Created : chans[o] = {}

TidyInv == ListedOK /\ EmptyOK

(* The parts of the chat that the lists are about.                         *)
LEMMA ChatFields ==
    /\ Chat.chans = chans /\ Chat'.chans = chans'
    /\ Chat.heap = heap /\ Chat'.heap = heap'
BY DEF Chat

(* Lists and entries match as long as chat and map stay.                   *)
LEMMA ListedFrame ==
    ASSUME ListedOK, Chat' = Chat, map' = map, irregular \subseteq irregular'
    PROVE  ListedOK'
<1>1. \A c : ~Entry(Chat', c, NoGuid)  BY DEF ListedOK
<1>2. \A g \in Guid \ irregular' :
        /\ map'[g] # None => Matches(Chat', g, map'[g])
        /\ map'[g] = None => \A c : ~Entry(Chat', c, g)
  BY DEF ListedOK
<1> QED  BY <1>1, <1>2 DEF ListedOK

(* Steps that leave the channels and the map alone.                        *)
LEMMA TidyFrame ==
    ASSUME SessTypes, TidyInv, UNCHANGED <<chatVars, of, map, deleted, delPlayer>>,
           irregular \subseteq irregular',
           \A s \in Session : state'[s] = "freed" => state[s] = "freed"
    PROVE  TidyInv'
<1>1. Chat' = Chat  BY ChatStays
<1>2. ListedOK'  BY <1>1, ListedFrame DEF TidyInv
<1>3. chans' = chans  BY DEF chatVars
<1>4. \A g \in Guid : map[g] # None => of[map[g]] \in Session
  BY ObjectFacts DEF SessTypes
<1>5. EmptyOK'  BY <1>3, <1>4 DEF TidyInv, EmptyOK, Created, GuidOf
<1> QED  BY <1>2, <1>5 DEF TidyInv

(* A logout: the list of the Player is emptied, and with it its character  *)
(* leaves the channels, if that is the Player that is found.               *)
LEMMA TidyLogout ==
    ASSUME TypeInv, RegInv, TidyInv, NEW s \in Session, player[s] # None, PlayerLogout(s),
           UNCHANGED <<of, map, deleted, irregular>>,
           \A r \in Session : r # s /\ state'[r] = "freed" => state[r] = "freed"
    PROVE  TidyInv'
<1> DEFINE o == player[s]
           g == GuidOf(o)
<1>1. /\ SessTypes /\ o \in Created /\ o \in Player /\ of[o] = s /\ o \notin deleted
      /\ g \in Guid /\ g = Char[s]
  BY ObjectFacts DEF TypeInv, SessTypes, RegInv, PlayingOK, GuidOf
<1>2. CleanedUp(o, Chat')  BY <1>1, CleanupEffect DEF PlayerLogout
<1>3. Range(delPlayer') = Range(delPlayer) \cup {o}
  BY <1>1, AppendFacts DEF SessTypes, PlayerLogout
<1>4. Created' = Created /\ \A x : GuidOf(x)' = GuidOf(x)  BY DEF Created, GuidOf
<1> HIDE DEF o
<1>5. chans'[o] = {} /\ \A p \in Player : p # o => chans'[p] = chans[p]
  BY <1>2, ChatFields DEF CleanedUp
<1>6. \A h \in Guid : map[h] # None => map[h] \in Created /\ map[h] \in Player /\ GuidOf(map[h]) = h
  BY <1>1, ObjectFacts DEF SessTypes, RegInv, WayOK
<1>7. \A c : ~Entry(Chat', c, NoGuid)
  <2>1. NoGuid # g  BY <1>1, GuidAssumption DEF NoGuid
  <2> QED  BY <1>2, <2>1 DEF CleanedUp, Untouched, TidyInv, ListedOK
<1>8. ASSUME NEW h \in Guid \ irregular
      PROVE  /\ map[h] # None => Matches(Chat', h, map[h])
             /\ map[h] = None => \A c : ~Entry(Chat', c, h)
  <2>1. CASE h # g
    <3>1. Untouched(Chat, Chat', h)  BY <1>2, <2>1 DEF CleanedUp
    <3>2. ASSUME map[h] # None PROVE Matches(Chat', h, map[h])
      <4>1. map[h] # o /\ map[h] \in Player  BY <1>6, <2>1, <3>2
      <4>2. Chat'.chans[map[h]] = Chat.chans[map[h]]  BY <1>2, <4>1 DEF CleanedUp
      <4>3. Matches(Chat, h, map[h])  BY <3>2 DEF TidyInv, ListedOK
      <4> QED  BY <3>1, <4>2, <4>3, MatchesKept
    <3> QED  BY <3>1, <3>2 DEF Untouched, TidyInv, ListedOK
  <2>2. CASE h = g /\ map[h] = o
    <3>1. Matches(Chat, g, o)  BY <1>1, <1>6, <2>2, ObjectFacts DEF TidyInv, ListedOK
    <3>2. \A c : ~Entry(Chat', c, g)  BY <1>2, <3>1 DEF CleanedUp, Matches
    <3>3. Chat'.chans[o] = {}  BY <1>2 DEF CleanedUp
    <3> QED  BY <2>2, <3>2, <3>3 DEF Matches
  <2>3. CASE h = g /\ map[h] # o
    <3>1. Chat.chans[o] = {}
      BY <1>1, <2>3, ChatFields DEF TidyInv, EmptyOK
    <3>2. Untouched(Chat, Chat', g)  BY <1>2, <3>1 DEF CleanedUp, Untouched
    <3>3. ASSUME map[h] # None PROVE Matches(Chat', h, map[h])
      <4>1. map[h] # o /\ map[h] \in Player  BY <1>6, <2>3, <3>3
      <4>2. Chat'.chans[map[h]] = Chat.chans[map[h]]  BY <1>2, <4>1 DEF CleanedUp
      <4>3. Matches(Chat, h, map[h])  BY <3>3 DEF TidyInv, ListedOK
      <4> QED  BY <2>3, <3>2, <4>2, <4>3, MatchesKept
    <3> QED  BY <2>3, <3>2, <3>3 DEF Untouched, TidyInv, ListedOK
  <2> QED  BY <2>1, <2>2, <2>3
<1>9. ListedOK'
  <2>1. \A h \in Guid \ irregular' :
          /\ map'[h] # None => Matches(Chat', h, map'[h])
          /\ map'[h] = None => \A c : ~Entry(Chat', c, h)
    BY <1>8
  <2> QED  BY <1>7, <2>1 DEF ListedOK
<1>10. EmptyOK'
  <2>1. ASSUME NEW p \in Created, p \notin deleted, GuidOf(p) \notin irregular, map[GuidOf(p)] # p
        PROVE  chans'[p] = {}
    <3>1. chans[p] = {} /\ p \in Player  BY <1>1, <2>1, ObjectFacts DEF TidyInv, EmptyOK
    <3> QED  BY <1>5, <3>1
  <2>2. ASSUME NEW h \in Guid \ irregular, map[h] # None,
               map[h] \in Range(delPlayer') \/ state'[of[map[h]]] = "freed"
        PROVE  chans'[map[h]] = {}
    <3> DEFINE p == map[h]
    <3>1. p \in Created /\ p \in Player /\ GuidOf(p) = h /\ of[p] \in Session
      BY <1>1, <1>6, <2>2, ObjectFacts
    <3>2. CASE p = o  BY <1>5, <3>2
    <3>3. CASE p # o /\ (p \in Range(delPlayer) \/ state[of[p]] = "freed")
      <4>1. chans[p] = {}  BY <2>2, <3>3 DEF TidyInv, EmptyOK
      <4> QED  BY <1>5, <3>1, <3>3, <4>1
    <3>4. CASE p # o /\ ~(p \in Range(delPlayer) \/ state[of[p]] = "freed")
      <4>1. of[p] = s  BY <1>3, <2>2, <3>1, <3>4
      <4>2. player[of[p]] = p  BY <3>1, <3>4 DEF RegInv, AliveOK
      <4> QED  BY <3>4, <4>1, <4>2 DEF o
    <3> QED  BY <3>2, <3>3, <3>4
  <2>3. \A p \in Player \ Created : chans'[p] = {}
    BY <1>5 DEF TidyInv, EmptyOK
  <2> QED  BY <1>4, <2>1, <2>2, <2>3 DEF EmptyOK
<1> QED  BY <1>9, <1>10 DEF TidyInv

(* The session of a Player that was logged out before is destroyed.        *)
LEMMA TidyDestroy ==
    ASSUME TypeInv, RegInv, TidyInv, NEW s \in Session, player[s] = None, Destroy(s)
    PROVE  TidyInv'
<1>1. /\ UNCHANGED <<chatVars, of, map, deleted, delPlayer, irregular>>
      /\ state' = [state EXCEPT ![s] = "freed"]
  BY DEF Destroy
<1>2. SessTypes /\ Chat' = Chat /\ chans' = chans
  BY <1>1, ChatStays DEF TypeInv, chatVars
<1>3. ListedOK'  BY <1>1, <1>2, ListedFrame DEF TidyInv
<1>4. ASSUME NEW g \in Guid \ irregular, map[g] # None,
             map[g] \in Range(delPlayer) \/ state'[of[map[g]]] = "freed"
      PROVE  chans[map[g]] = {}
  <2> DEFINE o == map[g]
  <2>1. o \in Created /\ GuidOf(o) = g /\ of[o] \in Session
    BY <1>2, <1>4, ObjectFacts DEF SessTypes, RegInv, WayOK
  <2>2. player[of[o]] = o \/ o \in Range(delPlayer)  BY <2>1 DEF RegInv, AliveOK
  <2>3. of[o] = s => o \in Range(delPlayer)  BY <1>4, <2>2
  <2>4. of[o] # s => state'[of[o]] = state[of[o]]
    BY <1>1, <1>2, <2>1 DEF SessTypes
  <2> QED  BY <1>4, <2>3, <2>4 DEF TidyInv, EmptyOK
<1>5. EmptyOK'  BY <1>1, <1>2, <1>4 DEF TidyInv, EmptyOK, Created, GuidOf
<1> QED  BY <1>3, <1>5 DEF TidyInv

(* The new object's list is empty.                                         *)
LEMMA TidyLogin ==
    ASSUME TypeInv, RegInv, TidyInv, NEW s \in Session, HandlePlayerLogin(s)
    PROVE  TidyInv'
<1>1. UNCHANGED <<chatVars, map, deleted, delPlayer, irregular, state>>
  BY DEF HandlePlayerLogin, regVars
<1>2. SessTypes /\ Chat' = Chat /\ chans' = chans
  BY <1>1, ChatStays DEF TypeInv, chatVars
<1>3. ListedOK'  BY <1>1, <1>2, ListedFrame DEF TidyInv
<1>4. CASE of' = of
  BY <1>1, <1>2, <1>4, TidyFrame
<1>5. CASE of' = Append(of, s)
  <2>1. /\ Created \subseteq Created' /\ \A o \in Created' \ Created : o \in Player
        /\ \A o \in Created : of'[o] = of[o] /\ GuidOf(o)' = GuidOf(o)
    <3>1. Len(of) \in Nat /\ Created = 1 .. Len(of)  BY <1>2, ObjectFacts
    <3>2. Created' = 1 .. Len(of) + 1 /\ \A o \in Created : of'[o] = of[o]
      BY <1>2, <1>5, <3>1 DEF Created, SessTypes
    <3>3. Created' \subseteq Player
      <4>1. SessTypes'  BY <1>2, NextSessTypes DEF Next, SessionStep
      <4> QED  BY <4>1 DEF SessTypes
    <3> QED  BY <3>1, <3>2, <3>3 DEF GuidOf
  <2>2. ASSUME NEW o \in Created', o \notin deleted, GuidOf(o)' \notin irregular,
               map[GuidOf(o)'] # o
        PROVE  chans[o] = {}
    <3>1. CASE o \in Created  BY <2>1, <2>2, <3>1 DEF TidyInv, EmptyOK
    <3>2. CASE o \notin Created  BY <2>1, <3>2 DEF TidyInv, EmptyOK
    <3> QED  BY <3>1, <3>2
  <2>3. ASSUME NEW g \in Guid \ irregular, map[g] # None,
               map[g] \in Range(delPlayer) \/ state[of'[map[g]]] = "freed"
        PROVE  chans[map[g]] = {}
    <3>1. map[g] \in Created  BY <1>2, <2>3 DEF SessTypes
    <3> QED  BY <2>1, <2>3, <3>1 DEF TidyInv, EmptyOK
  <2>4. \A o \in Player \ Created' : chans[o] = {}
    BY <2>1 DEF TidyInv, EmptyOK
  <2>5. EmptyOK'  BY <1>1, <1>2, <2>2, <2>3, <2>4 DEF EmptyOK
  <2> QED  BY <1>3, <2>5 DEF TidyInv
<1> QED  BY <1>4, <1>5 DEF HandlePlayerLogin

(* UpdateNew: the Player that loses its place in the map loses its         *)
(* channels, and the one that takes it has none.                           *)
LEMMA TidyNew ==
    ASSUME TypeInv, RegInv, TidyInv, UpdateNew
    PROVE  TidyInv'
<1> DEFINE o == Head(newPlayer)
           g == GuidOf(o)
           old == map[g]
<1>1. /\ newPlayer # <<>> /\ map' = [map EXCEPT ![g] = o]
      /\ IF old = None THEN UNCHANGED chatVars ELSE Becomes(CleanupChannels(Chat, old))
      /\ UNCHANGED <<state, of, delPlayer, deleted, irregular>>
  BY DEF UpdateNew, sessVars
<1>2. SessTypes /\ o \in Created /\ Coming(o)
  BY <1>1, TailFacts DEF TypeInv, SessTypes, Coming
<1> HIDE DEF o
<1>3. g \in Guid /\ map'[g] = o /\ \A h \in Guid : h # g => map'[h] = map[h]
  BY <1>1, <1>2, ObjectFacts DEF SessTypes
<1>4. \A h \in Guid : map[h] # None =>
        map[h] \in Created /\ map[h] \in Player /\ GuidOf(map[h]) = h /\ map[h] # o
  BY <1>2, ObjectFacts DEF SessTypes, RegInv, WayOK
<1>5. Created' = Created /\ \A x : GuidOf(x)' = GuidOf(x)  BY <1>1 DEF Created, GuidOf
<1>6. o # None /\ o \in Player /\ old # o  BY <1>2, <1>3, <1>4, ObjectFacts
<1>7. g \notin irregular => chans[o] = {}
  BY <1>2, <1>3, <1>4, <1>6 DEF RegInv, AliveOK, TidyInv, EmptyOK
<1> HIDE DEF old
<1>8. old # None => CleanedUp(old, Chat') /\ GuidOf(old) = g
  <2> SUFFICES ASSUME old # None PROVE CleanedUp(old, Chat') /\ GuidOf(old) = g
    OBVIOUS
  <2>1. old \in Created /\ GuidOf(old) = g  BY <1>3, <1>4 DEF old
  <2> QED  BY <1>1, <2>1, CleanupEffect
<1>9. old = None => Chat' = Chat  BY <1>1, ChatStays
<1>10. /\ \A p \in Player : p # old => Chat'.chans[p] = Chat.chans[p]
       /\ old # None => Chat'.chans[old] = {}
       /\ \A q : q # g => Untouched(Chat, Chat', q)
  <2>1. \A q : Untouched(Chat, Chat, q)  BY DEF Untouched
  <2> QED  BY <1>8, <1>9, <2>1 DEF CleanedUp
<1>11. g \notin irregular => \A c : ~Entry(Chat', c, g)
  <2>1. CASE old = None
    BY <1>3, <1>9, <2>1 DEF TidyInv, ListedOK, old
  <2>2. CASE old # None
    <3>1. g \notin irregular => Matches(Chat, g, old)
      BY <1>3, <2>2 DEF TidyInv, ListedOK, old
    <3> QED  BY <1>8, <2>2, <3>1 DEF CleanedUp, Matches
  <2> QED  BY <2>1, <2>2
<1>12. \A c : ~Entry(Chat', c, NoGuid)
  <2>1. NoGuid # g  BY <1>3, GuidAssumption DEF NoGuid
  <2> QED  BY <1>10, <2>1 DEF Untouched, TidyInv, ListedOK
<1> HIDE DEF g
<1>13. ASSUME NEW h \in Guid \ irregular
       PROVE  /\ map'[h] # None => Matches(Chat', h, map'[h])
              /\ map'[h] = None => \A c : ~Entry(Chat', c, h)
  <2>1. CASE h # g
    <3>1. Untouched(Chat, Chat', h) /\ map'[h] = map[h]  BY <1>3, <1>10, <2>1
    <3>2. ASSUME map[h] # None PROVE Matches(Chat', h, map[h])
      <4>1. map[h] # old /\ map[h] \in Player
        BY <1>3, <1>4, <2>1, <3>2 DEF old
      <4>2. Chat'.chans[map[h]] = Chat.chans[map[h]]  BY <1>10, <4>1
      <4>3. Matches(Chat, h, map[h])  BY <3>2 DEF TidyInv, ListedOK
      <4> QED  BY <3>1, <4>2, <4>3, MatchesKept
    <3> QED  BY <3>1, <3>2 DEF Untouched, TidyInv, ListedOK
  <2>2. CASE h = g
    <3>1. Chat'.chans[o] = {}  BY <1>6, <1>7, <1>10, <2>2, ChatFields
    <3>2. Matches(Chat', g, o)  BY <1>11, <2>2, <3>1 DEF Matches
    <3> QED  BY <1>3, <1>6, <2>2, <3>2
  <2> QED  BY <2>1, <2>2
<1>14. ListedOK'
  <2>1. \A h \in Guid \ irregular' :
          /\ map'[h] # None => Matches(Chat', h, map'[h])
          /\ map'[h] = None => \A c : ~Entry(Chat', c, h)
    BY <1>1, <1>13
  <2> QED  BY <1>12, <2>1 DEF ListedOK
<1>15. /\ \A p \in Player : p # old => chans'[p] = chans[p]
       /\ old # None => chans'[old] = {}
  BY <1>10, ChatFields
<1>16. EmptyOK'
  <2>1. ASSUME NEW p \in Created, p \notin deleted, GuidOf(p) \notin irregular,
               map'[GuidOf(p)] # p
        PROVE  chans'[p] = {}
    <3>1. p \in Player /\ p # None /\ GuidOf(p) \in Guid  BY <1>2, ObjectFacts
    <3>2. CASE p = old  BY <1>15, <3>1, <3>2
    <3>3. CASE p # old
      <4>1. map[GuidOf(p)] # p  BY <1>3, <2>1, <3>1, <3>3 DEF old
      <4> QED  BY <1>15, <2>1, <3>1, <3>3, <4>1 DEF TidyInv, EmptyOK
    <3> QED  BY <3>2, <3>3
  <2>2. ASSUME NEW h \in Guid \ irregular, map'[h] # None,
               map'[h] \in Range(delPlayer) \/ state[of[map'[h]]] = "freed"
        PROVE  chans'[map'[h]] = {}
    <3>1. CASE h = g  BY <1>3, <1>6, <1>7, <1>15, <3>1
    <3>2. CASE h # g
      <4>1. map'[h] = map[h] /\ map[h] \in Player /\ map[h] # old
        BY <1>3, <1>4, <2>2, <3>2 DEF old
      <4> QED  BY <1>15, <2>2, <4>1 DEF TidyInv, EmptyOK
    <3> QED  BY <3>1, <3>2
  <2>3. \A p \in Player \ Created : chans'[p] = {}
    <3>1. old # None => old \in Created  BY <1>3, <1>4 DEF old
    <3>2. \A p \in Player : p # None  BY DEF Player, None
    <3> QED  BY <1>15, <3>1, <3>2 DEF TidyInv, EmptyOK
  <2> QED  BY <1>1, <1>5, <2>1, <2>2, <2>3 DEF EmptyOK
<1> QED  BY <1>14, <1>16 DEF TidyInv

(* UpdateDel: whoever is taken out of the map had been logged out, and is  *)
(* in no channel.                                                          *)
LEMMA TidyDel ==
    ASSUME TypeInv, RegInv, TidyInv, UpdateDel
    PROVE  TidyInv'
<1> DEFINE o == Head(delPlayer)
           g == GuidOf(o)
<1>1. /\ delPlayer # <<>> /\ delPlayer' = Tail(delPlayer) /\ map' = [map EXCEPT ![g] = None]
      /\ deleted \subseteq deleted'
      /\ irregular \subseteq irregular' /\ (map[g] # o => g \in irregular')
      /\ UNCHANGED <<state, of, chatVars>>
  BY DEF UpdateDel, sessVars, Irregular
<1>2. SessTypes /\ o \in Created /\ Range(delPlayer) = Range(delPlayer') \cup {o}
  BY <1>1, TailFacts DEF TypeInv, SessTypes
<1>3. Chat' = Chat /\ chans' = chans /\ Chat.chans = chans
  BY <1>1, ChatStays DEF chatVars, Chat
<1> HIDE DEF o
<1>4. g \in Guid /\ o # None /\ map'[g] = None /\ \A h \in Guid : h # g => map'[h] = map[h]
  BY <1>1, <1>2, ObjectFacts DEF SessTypes
<1>5. g \notin irregular' => g \notin irregular /\ map[g] = o /\ chans[o] = {}
  BY <1>1, <1>2, <1>4 DEF TidyInv, EmptyOK
<1> HIDE DEF g
<1>6. g \notin irregular' => \A c : ~Entry(Chat, c, g)
  <2>1. g \notin irregular' => Matches(Chat, g, o)
    BY <1>4, <1>5 DEF TidyInv, ListedOK
  <2> QED  BY <1>3, <1>5, <2>1 DEF Matches
<1>7. ListedOK'
  <2>1. ASSUME NEW h \in Guid \ irregular'
        PROVE  /\ map'[h] # None => Matches(Chat, h, map'[h])
               /\ map'[h] = None => \A c : ~Entry(Chat, c, h)
    <3>1. CASE h = g  BY <1>4, <1>6, <2>1, <3>1
    <3>2. CASE h # g  BY <1>1, <1>4, <2>1, <3>2 DEF TidyInv, ListedOK
    <3> QED  BY <3>1, <3>2
  <2>2. \A h \in Guid \ irregular' :
          /\ map'[h] # None => Matches(Chat', h, map'[h])
          /\ map'[h] = None => \A c : ~Entry(Chat', c, h)
    BY <1>3, <2>1
  <2>3. \A c : ~Entry(Chat', c, NoGuid)  BY <1>3 DEF TidyInv, ListedOK
  <2> QED  BY <2>2, <2>3 DEF ListedOK
<1>8. EmptyOK'
  <2>1. ASSUME NEW p \in Created, p \notin deleted', GuidOf(p) \notin irregular',
               map'[GuidOf(p)] # p
        PROVE  chans[p] = {}
    <3>1. p \notin deleted /\ GuidOf(p) \notin irregular /\ GuidOf(p) \in Guid
      BY <1>1, <1>2, <2>1, ObjectFacts
    <3>2. CASE map[GuidOf(p)] # p  BY <3>1, <3>2 DEF TidyInv, EmptyOK
    <3>3. CASE map[GuidOf(p)] = p
      <4>1. GuidOf(p) = g  BY <1>4, <2>1, <3>1, <3>3
      <4> QED  BY <1>5, <2>1, <3>3, <4>1
    <3> QED  BY <3>2, <3>3
  <2>2. ASSUME NEW h \in Guid \ irregular', map'[h] # None,
               map'[h] \in Range(delPlayer') \/ state[of[map'[h]]] = "freed"
        PROVE  chans[map'[h]] = {}
    <3>1. h # g /\ map'[h] = map[h] /\ h \notin irregular  BY <1>1, <1>4, <2>2
    <3> QED  BY <1>2, <2>2, <3>1 DEF TidyInv, EmptyOK
  <2>3. \A p \in Player \ Created : chans[p] = {}  BY DEF TidyInv, EmptyOK
  <2>4. Created' = Created /\ \A x : GuidOf(x)' = GuidOf(x)  BY <1>1 DEF Created, GuidOf
  <2> QED  BY <1>1, <1>3, <2>1, <2>2, <2>3, <2>4 DEF EmptyOK
<1> QED  BY <1>7, <1>8 DEF TidyInv

(* A channel opcode: the one who joins is played and found, or he is       *)
(* irregular from now on.                                                  *)
LEMMA TidyOpcode ==
    ASSUME TypeInv, RegInv, TidyInv, NEW s \in Session, NEW n \in Name, ChannelStep(s, n)
    PROVE  TidyInv'
<1>1. /\ UNCHANGED <<state, of, map, delPlayer, deleted>>
      /\ state[s] = "live" /\ player[s] # None
      /\ irregular \subseteq irregular' /\ (map[Char[s]] # player[s] => Char[s] \in irregular')
  BY OpcodeFrame DEF sessVars, regVars, Irregular
<1>2. PICK g \in Guid :
        /\ ActsFor(Chat, Chat', g)
        /\ g # Char[s] => map[g] # None /\ Chat'.chans[map[g]] \subseteq Chat.chans[map[g]]
  BY ChannelEffect DEF OpcodeActs
<1>3. /\ SessTypes
      /\ \A h \in Guid : map[h] # None =>
           map[h] \in Created /\ map[h] \in Player /\ GuidOf(map[h]) = h /\ of[map[h]] \in Session
  BY ObjectFacts DEF TypeInv, SessTypes, RegInv, WayOK
<1>4. Created' = Created /\ \A x : GuidOf(x)' = GuidOf(x)  BY <1>1 DEF Created, GuidOf
<1>5. /\ \A o \in Player : o # map[g] => chans'[o] = chans[o]
      /\ g # Char[s] => map[g] # None /\ chans'[map[g]] \subseteq chans[map[g]]
  BY <1>2, ChatFields DEF ActsFor
<1>6. \A c : ~Entry(Chat', c, NoGuid)
  <2>1. NoGuid # g  BY GuidAssumption DEF NoGuid
  <2> QED  BY <1>2, <2>1 DEF ActsFor, Untouched, TidyInv, ListedOK
<1>7. g \notin irregular' => map[g] # None  BY <1>1, <1>5
<1>8. ASSUME NEW h \in Guid \ irregular'
      PROVE  /\ map[h] # None => Matches(Chat', h, map[h])
             /\ map[h] = None => \A c : ~Entry(Chat', c, h)
  <2>1. CASE h = g
    <3>1. Matches(Chat, g, map[g])
      BY <1>1, <1>7, <1>8, <2>1 DEF TidyInv, ListedOK
    <3> QED  BY <1>2, <1>7, <1>8, <2>1, <3>1 DEF ActsFor
  <2>2. CASE h # g
    <3>1. Untouched(Chat, Chat', h)  BY <1>2, <2>2 DEF ActsFor
    <3>2. ASSUME map[h] # None PROVE Matches(Chat', h, map[h])
      <4>1. map[h] \in Player /\ map[h] # map[g]
        BY <1>3, <2>2, <3>2
      <4>2. Chat'.chans[map[h]] = Chat.chans[map[h]]  BY <1>2, <4>1 DEF ActsFor
      <4>3. Matches(Chat, h, map[h])  BY <1>1, <1>8, <3>2 DEF TidyInv, ListedOK
      <4> QED  BY <3>1, <4>2, <4>3, MatchesKept
    <3> QED  BY <1>1, <1>8, <3>1, <3>2 DEF Untouched, TidyInv, ListedOK
  <2> QED  BY <2>1, <2>2
<1>9. ListedOK'
  <2>1. \A h \in Guid \ irregular' :
          /\ map'[h] # None => Matches(Chat', h, map'[h])
          /\ map'[h] = None => \A c : ~Entry(Chat', c, h)
    BY <1>1, <1>8
  <2> QED  BY <1>6, <2>1 DEF ListedOK
<1>10. EmptyOK'
  <2>1. ASSUME NEW p \in Created, p \notin deleted, GuidOf(p) \notin irregular',
               map[GuidOf(p)] # p
        PROVE  chans'[p] = {}
    <3>1. p \in Player /\ p # None  BY <1>3, ObjectFacts
    <3>2. p # map[g]  BY <1>3, <2>1, <3>1
    <3> QED  BY <1>1, <1>5, <2>1, <3>1, <3>2 DEF TidyInv, EmptyOK
  <2>2. ASSUME NEW h \in Guid \ irregular', map[h] # None,
               map[h] \in Range(delPlayer) \/ state[of[map[h]]] = "freed"
        PROVE  chans'[map[h]] = {}
    <3>1. chans[map[h]] = {} /\ map[h] \in Player
      BY <1>1, <1>3, <2>2 DEF TidyInv, EmptyOK
    <3>2. CASE map[h] # map[g]  BY <1>5, <3>1, <3>2
    <3>3. CASE map[h] = map[g] /\ g # Char[s]  BY <1>5, <3>1, <3>3
    <3>4. CASE map[h] = map[g] /\ g = Char[s]
      <4>1. h = g  BY <1>3, <2>2, <3>4
      <4>2. map[h] = player[s]  BY <1>1, <2>2, <3>4, <4>1
      <4>3. of[player[s]] = s /\ player[s] \notin Range(delPlayer)
        BY <1>1 DEF RegInv, PlayingOK
      <4> QED  BY <1>1, <2>2, <4>2, <4>3
    <3> QED  BY <3>2, <3>3, <3>4
  <2>3. \A p \in Player \ Created : chans'[p] = {}
    <3>1. \A p \in Player : p # None  BY DEF Player, None
    <3> QED  BY <1>3, <1>5, <3>1 DEF TidyInv, EmptyOK
  <2> QED  BY <1>1, <1>4, <2>1, <2>2, <2>3 DEF EmptyOK
<1> QED  BY <1>9, <1>10 DEF TidyInv

(* Every step preserves the match of lists and entries.                    *)
LEMMA NextTidy ==
    ASSUME TypeInv, RegInv, TidyInv, [Next]_vars
    PROVE  TidyInv'
<1>1. CASE UNCHANGED vars
  BY <1>1, TidyFrame DEF vars, sessVars, regVars, TypeInv
<1>2. ASSUME NEW s \in Session,
             AddSession_(s) \/ EraseSession(s) \/ HandlePlayerLoginOpcode(s) \/ Player_Add(s)
      PROVE  TidyInv'
  <2>1. /\ UNCHANGED <<chatVars, of, map, deleted, delPlayer>>
        /\ irregular \subseteq irregular'
    BY <1>2 DEF AddSession_, EraseSession, HandlePlayerLoginOpcode, Player_Add, regVars,
                Irregular
  <2>2. \A r \in Session : state'[r] = "freed" => state[r] = "freed"
    BY <1>2 DEF AddSession_, EraseSession, HandlePlayerLoginOpcode, Player_Add,
                TypeInv, SessTypes
  <2> QED  BY <2>1, <2>2, TidyFrame DEF TypeInv
<1>3. ASSUME NEW s \in Session, Handle_SMSG_LOGOUT_COMPLETE(s) PROVE TidyInv'
  BY <1>3, TidyLogout DEF Handle_SMSG_LOGOUT_COMPLETE
<1>4. ASSUME NEW s \in Session, Destroy(s) PROVE TidyInv'
  <2>1. CASE player[s] = None  BY <1>4, <2>1, TidyDestroy
  <2>2. CASE player[s] # None
    <3>1. \A r \in Session : r # s /\ state'[r] = "freed" => state[r] = "freed"
      BY <1>4 DEF Destroy, TypeInv, SessTypes
    <3> QED  BY <1>4, <2>2, <3>1, TidyLogout DEF Destroy
  <2> QED  BY <2>1, <2>2
<1>5. CASE Turn  BY <1>5, TidyFrame DEF Turn, sessVars, TypeInv
<1> QED
  BY <1>1, <1>2, <1>3, <1>4, <1>5, TidyLogin, TidyNew, TidyDel, TidyOpcode
     DEF Next, SessionStep

(* They match at first.                                                    *)
LEMMA InitTidy ==
    Init => TidyInv
<1> SUFFICES ASSUME Init PROVE TidyInv
  OBVIOUS
<1>1. DOMAIN heap = {} /\ chans = [o \in Player |-> {}]  BY DEF Init
<1>2. \A c, q : ~Entry(Chat, c, q)  BY <1>1, ChatFields DEF Entry
<1>3. SessTypes  BY InitTypes DEF TypeInv
<1>4. \A g \in Guid : map[g] # None => map[g] \in Player
  BY <1>3, ObjectFacts DEF SessTypes
<1>5. \A g \in Guid : map[g] # None => Matches(Chat, g, map[g])
  BY <1>1, <1>2, <1>4, ChatFields DEF Matches
<1>6. \A o \in Created : o \in Player  BY <1>3, ObjectFacts
<1> QED  BY <1>1, <1>2, <1>4, <1>5, <1>6 DEF TidyInv, ListedOK, EmptyOK

(* The inductive invariant of the players and their channels.              *)
ChatInv == TypeInv /\ RegInv /\ TidyInv

(* Every channel is sound at first.                                        *)
LEMMA InitChat ==
    Init => ChatInv
BY InitTypes, InitReg, InitTidy DEF ChatInv

(* Every step preserves the soundness of the channels.                     *)
LEMMA NextChat ==
    ChatInv /\ [Next]_vars => ChatInv'
BY NextTypes, NextReg, NextTidy DEF ChatInv, TypeInv

(* CleanupChannels follows the pointers of m_channels: those of a regular  *)
(* character lead to channels that exist and that he is in, although       *)
(* channels are deleted by whoever leaves them last.                       *)
THEOREM ListsLeadToChannels == Spec => []NoDanglingChannel
<1>1. ChatInv => NoDanglingChannel
  <2> SUFFICES ASSUME ChatInv, NEW o \in Created \ deleted, GuidOf(o) \notin irregular,
                      NEW c \in chans[o]
               PROVE  c \in DOMAIN heap /\ IsOn(heap[c], GuidOf(o))
    BY DEF NoDanglingChannel
  <2>1. GuidOf(o) \in Guid /\ o # None  BY ObjectFacts DEF ChatInv, TypeInv
  <2>2. map[GuidOf(o)] = o  BY DEF ChatInv, TidyInv, EmptyOK
  <2>3. Matches(Chat, GuidOf(o), o)  BY <2>1, <2>2 DEF ChatInv, TidyInv, ListedOK
  <2>4. On(Chat, c, GuidOf(o))  BY <2>3, ChatFields DEF Matches
  <2> QED  BY <2>4, ChatFields DEF On
<1> QED  BY <1>1, InitChat, NextChat, PTL DEF Spec

(* SendToAll reaches a Player and a session that have not been deleted, of *)
(* every regular member, whatever the updater threads delete meanwhile.    *)
THEOREM MembersAreReached == Spec => []MembersReachable
<1>1. ChatInv => MembersReachable
  <2> SUFFICES ASSUME ChatInv, NEW c \in DOMAIN heap, NEW g \in Members(heap[c]) \ irregular,
                      heap[c].players[g].player # NoGuid
               PROVE  /\ map[g] # None /\ c \in chans[map[g]]
                      /\ map[g] \notin deleted /\ state[of[map[g]]] # "freed"
    BY DEF MembersReachable, FindPlayer
  <2>1. Entry(Chat, c, g)  BY ChatFields DEF Entry, Real
  <2>2. g \in Guid
    <3>1. heap[c] \in Channels  BY TypeInvTypes DEF ChatInv, TypeOK
    <3>2. g \in AnyGuid  BY <3>1, ChannelFields
    <3>3. g # NoGuid  BY <2>1 DEF ChatInv, TidyInv, ListedOK
    <3> QED  BY <3>2, <3>3 DEF AnyGuid
  <2>3. map[g] # None  BY <2>1, <2>2 DEF ChatInv, TidyInv, ListedOK
  <2>4. Matches(Chat, g, map[g])  BY <2>2, <2>3 DEF ChatInv, TidyInv, ListedOK
  <2>5. c \in chans[map[g]]  BY <2>1, <2>4, ChatFields DEF Matches
  <2>6. map[g] \in Created /\ GuidOf(map[g]) = g
    BY <2>2, <2>3 DEF ChatInv, TypeInv, SessTypes, RegInv, WayOK
  <2>7. map[g] \notin deleted  BY <2>6 DEF ChatInv, RegInv, AliveOK
  <2>8. state[of[map[g]]] # "freed"
    BY <2>2, <2>3, <2>5 DEF ChatInv, TidyInv, EmptyOK
  <2> QED  BY <2>3, <2>5, <2>7, <2>8
<1> QED  BY <1>1, InitChat, NextChat, PTL DEF Spec
=============================================================================
