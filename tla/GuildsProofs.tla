---------------------------- MODULE GuildsProofs ----------------------------
(***************************************************************************)
(* Proofs about Guilds.  Every operation of the hub changes its memory and *)
(* appends statements for the database.  Sound says that the tables, once  *)
(* the statements are executed, are the memory again, and that no prefix   *)
(* of them leaves a leader in another guild; each operation preserves it,  *)
(* and so does every pass of Validate after a restart.                     *)
(***************************************************************************)
EXTENDS Guilds, DataLemmas

-----------------------------------------------------------------------------
(* The worker thread.                                                      *)

(* Progress starts with the database and executes a statement at a time.   *)
LEMMA ProgressIs ==
    ASSUME NEW d, NEW p, Len(p) \in Nat
    PROVE  /\ Progress(d, p)[0] = d
           /\ \A n \in 1 .. Len(p) : Progress(d, p)[n] = Execute(Progress(d, p)[n - 1], p[n])
<1> DEFINE Runs(m, f) == f = [n \in 0 .. m |-> IF n = 0 THEN d ELSE Execute(f[n - 1], p[n])]
           S == {m \in Nat : \E f : Runs(m, f)}
<1>1. 0 \in S
  <2> DEFINE f == [n \in 0 .. 0 |-> d]
  <2>1. Runs(0, f)
    OBVIOUS
  <2> QED
    BY <2>1
<1>2. ASSUME NEW m \in Nat, m \in S
      PROVE  m + 1 \in S
  <2>1. PICK f : Runs(m, f)
    BY <1>2
  <2> DEFINE h == [n \in 0 .. m + 1 |-> IF n < m + 1 THEN f[n] ELSE Execute(f[m], p[m + 1])]
  <2>2. \A n \in 0 .. m : f[n] = IF n = 0 THEN d ELSE Execute(f[n - 1], p[n])
    BY <2>1
  <2>3. \A n \in 0 .. m + 1 : h[n] = IF n = 0 THEN d ELSE Execute(h[n - 1], p[n])
    BY <2>2
  <2>4. h = [n \in 0 .. m + 1 |-> h[n]]
    OBVIOUS
  <2>5. Runs(m + 1, h)
    BY <2>3, <2>4
  <2> HIDE DEF Runs, h
  <2>6. \E g : Runs(m + 1, g)
    BY <2>5
  <2> QED
    BY <2>6
<1> HIDE DEF S, Runs
<1>3. S = Nat
  BY <1>1, <1>2, Induction DEF S
<1>4. PICK f : Runs(Len(p), f)
  BY <1>3 DEF S
<1>5. Progress(d, p) = CHOOSE h : Runs(Len(p), h)
  BY DEF Progress, Runs
<1>6. Runs(Len(p), Progress(d, p))
  BY <1>4, <1>5
<1> QED
  BY <1>6 DEF Runs

(* The same for two numbers of statements.                                 *)
LEMMA ProgressStep ==
    ASSUME NEW d, NEW p, Len(p) \in Nat, NEW n \in Nat, NEW m, m = n + 1, m =< Len(p)
    PROVE  Progress(d, p)[m] = Execute(Progress(d, p)[n], p[m])
<1>1. m \in 1 .. Len(p) /\ m - 1 = n
  OBVIOUS
<1>2. \A i \in 1 .. Len(p) : Progress(d, p)[i] = Execute(Progress(d, p)[i - 1], p[i])
  BY ProgressIs
<1> QED
  BY <1>1, <1>2

(* It depends only on the statements that are executed.                    *)
LEMMA ProgressPrefix ==
    ASSUME NEW d, NEW p, NEW q, Len(p) \in Nat, Len(q) \in Nat, NEW m \in Nat,
           m =< Len(p), m =< Len(q), \A i \in 1 .. m : p[i] = q[i]
    PROVE  Progress(d, p)[m] = Progress(d, q)[m]
<1> DEFINE S == {n \in Nat : n =< m => Progress(d, p)[n] = Progress(d, q)[n]}
<1>1. 0 \in S
  BY ProgressIs
<1>2. ASSUME NEW n \in Nat, n \in S
      PROVE  n + 1 \in S
  <2> SUFFICES ASSUME n + 1 =< m
               PROVE  Progress(d, p)[n + 1] = Progress(d, q)[n + 1]
    OBVIOUS
  <2>1. Progress(d, p)[n] = Progress(d, q)[n] /\ p[n + 1] = q[n + 1]
    BY <1>2
  <2>2. n + 1 \in 1 .. Len(p) /\ n + 1 \in 1 .. Len(q) /\ (n + 1) - 1 = n
    OBVIOUS
  <2>3. Progress(d, p)[n + 1] = Execute(Progress(d, p)[n], p[n + 1])
    BY <2>2, ProgressIs
  <2>4. Progress(d, q)[n + 1] = Execute(Progress(d, q)[n], q[n + 1])
    BY <2>2, ProgressIs
  <2> QED
    BY <2>1, <2>3, <2>4
<1> HIDE DEF S
<1>3. S = Nat
  BY <1>1, <1>2, Induction DEF S
<1> QED
  BY <1>3 DEF S

-----------------------------------------------------------------------------
(* Tables that are safe wherever the hub crashes.                          *)

\* The tables are tables, and leaders who have a row elsewhere are known.
Fit(d, X) == d \in Rows /\ Astray(d) \subseteq X

Safe(d, p, X) == \A n \in 0 .. Len(p) : Fit(Progress(d, p)[n], X)

\* The statements r are p, and then q.
Joined(p, q, r) ==
    /\ Len(p) \in Nat /\ Len(q) \in Nat /\ Len(r) \in Nat /\ Len(p) + Len(q) = Len(r)
    /\ \A i \in 1 .. Len(p) : r[i] = p[i]
    /\ \A i \in 1 .. Len(q) : r[Len(p) + i] = q[i]

(* The tables while statements r are executed that are p, and then q.       *)
LEMMA Sequel ==
    ASSUME NEW d, NEW p, NEW q, NEW r, Joined(p, q, r)
    PROVE  /\ \A n \in 0 .. Len(p) : Progress(d, r)[n] = Progress(d, p)[n]
           /\ \A k \in 0 .. Len(q) : Progress(Drained(d, p), q)[k] = Progress(d, r)[Len(p) + k]
<1> DEFINE e == Drained(d, p)
<1>1. /\ Len(p) \in Nat /\ Len(q) \in Nat /\ Len(r) \in Nat /\ Len(p) + Len(q) = Len(r)
      /\ \A i \in 1 .. Len(p) : r[i] = p[i]
      /\ \A i \in 1 .. Len(q) : r[Len(p) + i] = q[i]
  BY DEF Joined
<1>2. ASSUME NEW n \in 0 .. Len(p)
      PROVE  Progress(d, r)[n] = Progress(d, p)[n]
  <2>1. n \in Nat /\ n =< Len(p) /\ n =< Len(r)
    BY <1>1
  <2>2. \A i \in 1 .. n : r[i] = p[i]
    BY <1>1, <2>1
  <2> QED
    BY <1>1, <2>1, <2>2, ProgressPrefix
<1>3. e = Progress(d, r)[Len(p)]
  <2>1. Len(p) \in 0 .. Len(p)
    OBVIOUS
  <2> QED
    BY <1>2, <2>1 DEF Drained
<1> HIDE DEF e
<1> DEFINE S == {k \in Nat : k =< Len(q) => Progress(e, q)[k] = Progress(d, r)[Len(p) + k]}
<1>4. 0 \in S
  BY <1>3, ProgressIs
<1>5. ASSUME NEW n \in Nat, n \in S
      PROVE  n + 1 \in S
  <2> SUFFICES ASSUME n + 1 =< Len(q)
               PROVE  Progress(e, q)[n + 1] = Progress(d, r)[Len(p) + (n + 1)]
    OBVIOUS
  <2>1. Progress(e, q)[n] = Progress(d, r)[Len(p) + n] /\ r[Len(p) + (n + 1)] = q[n + 1]
    BY <1>1, <1>5
  <2>2. /\ n + 1 \in 1 .. Len(q) /\ (n + 1) - 1 = n
        /\ Len(p) + (n + 1) \in 1 .. Len(r) /\ (Len(p) + (n + 1)) - 1 = Len(p) + n
    BY <1>1
  <2>3. Progress(e, q)[n + 1] = Execute(Progress(e, q)[n], q[n + 1])
    BY <1>1, <2>2, ProgressIs
  <2>4. Progress(d, r)[Len(p) + (n + 1)]
          = Execute(Progress(d, r)[Len(p) + n], r[Len(p) + (n + 1)])
    <3> DEFINE i == Len(p) + n
               j == Len(p) + (n + 1)
    <3>1. i \in Nat /\ j = i + 1 /\ j =< Len(r)
      BY <1>1, <2>2
    <3> HIDE DEF i, j, S
    <3>2. Progress(d, r)[j] = Execute(Progress(d, r)[i], r[j])
      BY <1>1, <3>1, ProgressStep
    <3> QED
      BY <3>2 DEF i, j
  <2> QED
    BY <2>1, <2>3, <2>4
<1> HIDE DEF S
<1>6. S = Nat
  BY <1>4, <1>5, Induction DEF S
<1>7. ASSUME NEW k \in 0 .. Len(q)
      PROVE  Progress(e, q)[k] = Progress(d, r)[Len(p) + k]
  <2>1. k \in Nat /\ k =< Len(q)
    OBVIOUS
  <2> QED
    BY <1>6, <2>1 DEF S
<1> QED
  BY <1>2, <1>7 DEF e

(* Their outcome.                                                          *)
LEMMA Follows ==
    ASSUME NEW d, NEW p, NEW q, NEW r, NEW X, Joined(p, q, r)
    PROVE  /\ Drained(d, r) = Drained(Drained(d, p), q)
           /\ Safe(d, p, X) /\ Safe(Drained(d, p), q, X) => Safe(d, r, X)
<1> DEFINE e == Drained(d, p)
<1>1. /\ Len(p) \in Nat /\ Len(q) \in Nat /\ Len(r) \in Nat /\ Len(p) + Len(q) = Len(r)
      /\ \A i \in 1 .. Len(p) : r[i] = p[i]
      /\ \A i \in 1 .. Len(q) : r[Len(p) + i] = q[i]
  BY DEF Joined
<1>2. /\ \A n \in 0 .. Len(p) : Progress(d, r)[n] = Progress(d, p)[n]
      /\ \A k \in 0 .. Len(q) : Progress(e, q)[k] = Progress(d, r)[Len(p) + k]
  BY Sequel
<1> HIDE DEF e
<1>8. Drained(d, r) = Drained(e, q)
  <2>1. Len(q) \in 0 .. Len(q)
    BY <1>1
  <2> QED
    BY <1>1, <1>2, <2>1 DEF Drained
<1>9. ASSUME Safe(d, p, X), Safe(e, q, X)
      PROVE  Safe(d, r, X)
  <2> SUFFICES ASSUME NEW n \in 0 .. Len(r) PROVE Fit(Progress(d, r)[n], X)
    BY DEF Safe
  <2>1. CASE n =< Len(p)
    BY <1>1, <1>2, <1>9, <2>1 DEF Safe
  <2>2. CASE n > Len(p)
    <3>1. n - Len(p) \in 0 .. Len(q) /\ Len(p) + (n - Len(p)) = n
      BY <1>1, <2>2
    <3> QED
      BY <1>2, <1>9, <3>1 DEF Safe
  <2> QED
    BY <1>1, <2>1, <2>2
<1> QED
  BY <1>8, <1>9 DEF e

(* What is left when p is executed.                                        *)
LEMMA Remainder ==
    ASSUME NEW d, NEW p, NEW q, NEW r, NEW X, Joined(p, q, r)
    PROVE  /\ Progress(d, r)[Len(p)] = Drained(d, p)
           /\ Safe(d, r, X) => Safe(Drained(d, p), q, X)
<1> DEFINE e == Drained(d, p)
<1>1. /\ Len(p) \in Nat /\ Len(q) \in Nat /\ Len(r) \in Nat /\ Len(p) + Len(q) = Len(r)
      /\ \A i \in 1 .. Len(p) : r[i] = p[i]
      /\ \A i \in 1 .. Len(q) : r[Len(p) + i] = q[i]
  BY DEF Joined
<1>2. /\ \A n \in 0 .. Len(p) : Progress(d, r)[n] = Progress(d, p)[n]
      /\ \A k \in 0 .. Len(q) : Progress(e, q)[k] = Progress(d, r)[Len(p) + k]
  BY Sequel
<1> HIDE DEF e
<1>8. Len(p) \in 0 .. Len(p)
  OBVIOUS
<1>9. Progress(d, r)[Len(p)] = e
  BY <1>2, <1>8 DEF e, Drained
<1>10. ASSUME Safe(d, r, X)
       PROVE  Safe(e, q, X)
  <2> SUFFICES ASSUME NEW k \in 0 .. Len(q) PROVE Fit(Progress(e, q)[k], X)
    BY DEF Safe
  <2>1. Len(p) + k \in 0 .. Len(r)
    BY <1>1
  <2> QED
    BY <1>2, <1>10, <2>1 DEF Safe
<1> QED
  BY <1>9, <1>10 DEF e

(* Statements that follow others.                                          *)
LEMMA Continued ==
    ASSUME NEW T, NEW p \in Seq(T), NEW q \in Seq(T), NEW d, NEW X
    PROVE  /\ Drained(d, p \o q) = Drained(Drained(d, p), q)
           /\ Safe(d, p, X) /\ Safe(Drained(d, p), q, X) => Safe(d, p \o q, X)
<1> DEFINE r == p \o q
<1>1. /\ Len(r) \in Nat /\ Len(p) + Len(q) = Len(r) /\ Len(p) \in Nat /\ Len(q) \in Nat
      /\ \A i \in 1 .. Len(p) : r[i] = p[i]
      /\ \A i \in 1 .. Len(q) : r[Len(p) + i] = q[i]
  OBVIOUS
<1> HIDE DEF r
<1>3. Joined(p, q, r)
  BY <1>1 DEF Joined
<1>2. /\ Drained(d, r) = Drained(Drained(d, p), q)
      /\ Safe(d, p, X) /\ Safe(Drained(d, p), q, X) => Safe(d, r, X)
  BY <1>3, Follows
<1> QED
  BY <1>2 DEF r

(* One statement, or none.                                                 *)
LEMMA OneStatement ==
    ASSUME NEW d, NEW s, NEW X
    PROVE  /\ Drained(d, <<s>>) = Execute(d, s) /\ Drained(d, <<>>) = d
           /\ Fit(d, X) => Safe(d, <<>>, X)
           /\ Fit(d, X) /\ Fit(Execute(d, s), X) => Safe(d, <<s>>, X)
<1>1. Len(<<s>>) = 1 /\ <<s>>[1] = s /\ Len(<<>>) = 0
  OBVIOUS
<1>2. Progress(d, <<s>>)[0] = d /\ Progress(d, <<>>)[0] = d
  BY <1>1, ProgressIs
<1>3. Progress(d, <<s>>)[1] = Execute(d, s)
  <2>1. 1 \in 1 .. Len(<<s>>) /\ 1 - 1 = 0
    BY <1>1
  <2> QED
    BY <1>1, <1>2, <2>1, ProgressIs
<1> QED
  BY <1>1, <1>2, <1>3 DEF Drained, Safe

-----------------------------------------------------------------------------
(* What a statement does to the tables.                                    *)

(* The functions from a part of S to T.                                    *)
LEMMA PartialIs ==
    ASSUME NEW S, NEW T, NEW f
    PROVE  f \in Partial(S, T) <=> DOMAIN f \subseteq S /\ f \in [DOMAIN f -> T]
  BY DEF Partial

(* The rows of the tables.                                                 *)
LEMMA RowsIs ==
    ASSUME NEW d \in Rows
    PROVE  /\ DOMAIN d.guild \subseteq Guild /\ d.guild \in [DOMAIN d.guild -> Char]
           /\ d.ranks \in [Guild -> Partial(RankId, Rights)]
           /\ DOMAIN d.member \subseteq Char
           /\ d.member \in [DOMAIN d.member -> [guild : Guild, rank : RankId]]
           /\ d = [guild |-> d.guild, ranks |-> d.ranks, member |-> d.member]
<1>1. /\ d.guild \in Partial(Guild, Char) /\ d.ranks \in [Guild -> Partial(RankId, Rights)]
      /\ d.member \in Partial(Char, [guild : Guild, rank : RankId])
      /\ d = [guild |-> d.guild, ranks |-> d.ranks, member |-> d.member]
  BY DEF Rows
<1>2. DOMAIN d.guild \subseteq Guild /\ d.guild \in [DOMAIN d.guild -> Char]
  BY <1>1, PartialIs
<1>3. /\ DOMAIN d.member \subseteq Char
      /\ d.member \in [DOMAIN d.member -> [guild : Guild, rank : RankId]]
  <2> DEFINE m == d.member
             T == [guild : Guild, rank : RankId]
  <2>1. m \in Partial(Char, T)
    BY <1>1
  <2> HIDE DEF m, T
  <2>2. DOMAIN m \subseteq Char /\ m \in [DOMAIN m -> T]
    BY <2>1, PartialIs
  <2> QED
    BY <2>2 DEF m, T
<1> QED
  BY <1>1, <1>2, <1>3

(* Tables put together of parts.                                           *)
LEMMA RowsOf ==
    ASSUME NEW f, NEW r \in [Guild -> Partial(RankId, Rights)], NEW m,
           DOMAIN f \subseteq Guild, f \in [DOMAIN f -> Char],
           DOMAIN m \subseteq Char, m \in [DOMAIN m -> [guild : Guild, rank : RankId]]
    PROVE  [guild |-> f, ranks |-> r, member |-> m] \in Rows
<1>1. f \in Partial(Guild, Char) /\ m \in Partial(Char, [guild : Guild, rank : RankId])
  BY PartialIs
<1> QED
  BY <1>1 DEF Rows

(* UpdLeader.                                                              *)
LEMMA ExecLeader ==
    ASSUME NEW d \in Rows, NEW g \in Guild, NEW c \in Char
    PROVE  LET e == Execute(d, UpdLeader(g, c))
           IN  /\ e \in Rows /\ e.ranks = d.ranks /\ e.member = d.member
               /\ DOMAIN e.guild = DOMAIN d.guild
               /\ \A h \in DOMAIN d.guild : e.guild[h] = IF h = g THEN c ELSE d.guild[h]
<1> DEFINE f == [h \in DOMAIN d.guild |-> IF h = g THEN c ELSE d.guild[h]]
           e == [guild |-> f, ranks |-> d.ranks, member |-> d.member]
<1>1. Execute(d, UpdLeader(g, c)) = e
  BY RowsIs DEF Execute, UpdLeader
<1>2. e \in Rows
  <2>1. DOMAIN f \subseteq Guild /\ f \in [DOMAIN f -> Char]
    BY RowsIs
  <2> HIDE DEF f
  <2> QED
    BY <2>1, RowsIs, RowsOf
<1> QED
  BY <1>1, <1>2

(* UpdRank.                                                                *)
LEMMA ExecRank ==
    ASSUME NEW d \in Rows, NEW c \in Char, NEW r \in RankId
    PROVE  LET e == Execute(d, UpdRank(c, r))
           IN  /\ e \in Rows /\ e.ranks = d.ranks /\ e.guild = d.guild
               /\ DOMAIN e.member = DOMAIN d.member
               /\ \A x \in DOMAIN d.member :
                    /\ e.member[x].guild = d.member[x].guild
                    /\ e.member[x].rank = IF x = c THEN r ELSE d.member[x].rank
<1> DEFINE m == [x \in DOMAIN d.member |->
                   [guild |-> d.member[x].guild, rank |-> IF x = c THEN r ELSE d.member[x].rank]]
           e == [guild |-> d.guild, ranks |-> d.ranks, member |-> m]
<1>1. Execute(d, UpdRank(c, r)) = e
  BY RowsIs DEF Execute, UpdRank
<1>2. e \in Rows
  <2>1. DOMAIN m \subseteq Char /\ m \in [DOMAIN m -> [guild : Guild, rank : RankId]]
    BY RowsIs
  <2> HIDE DEF m
  <2> QED
    BY <2>1, RowsIs, RowsOf
<1> QED
  BY <1>1, <1>2

(* InsMember.                                                              *)
LEMMA ExecJoin ==
    ASSUME NEW d \in Rows, NEW g \in Guild, NEW c \in Char, NEW r \in RankId
    PROVE  LET e == Execute(d, InsMember(g, c, r))
           IN  /\ e \in Rows /\ e.ranks = d.ranks /\ e.guild = d.guild
               /\ DOMAIN e.member = DOMAIN d.member \cup {c}
               /\ \A x \in DOMAIN d.member : e.member[x] = d.member[x]
               /\ c \notin DOMAIN d.member => e.member[c].guild = g /\ e.member[c].rank = r
<1>1. CASE c \in DOMAIN d.member
  <2>1. Execute(d, InsMember(g, c, r)) = d
    BY <1>1 DEF Execute, InsMember
  <2> QED
    BY <1>1, <2>1
<1>2. CASE c \notin DOMAIN d.member
  <2> DEFINE m == [x \in DOMAIN d.member \cup {c} |->
                     IF x = c THEN [guild |-> g, rank |-> r] ELSE d.member[x]]
             e == [guild |-> d.guild, ranks |-> d.ranks, member |-> m]
  <2>1. Execute(d, InsMember(g, c, r)) = e
    BY <1>2, RowsIs DEF Execute, InsMember, With
  <2>2. e \in Rows
    <3>1. DOMAIN m \subseteq Char /\ m \in [DOMAIN m -> [guild : Guild, rank : RankId]]
      BY RowsIs
    <3> HIDE DEF m
    <3> QED
      BY <3>1, RowsIs, RowsOf
  <2> QED
    BY <1>2, <2>1, <2>2
<1> QED
  BY <1>1, <1>2

(* DelMember.                                                              *)
LEMMA ExecLeave ==
    ASSUME NEW d \in Rows, NEW c \in Char
    PROVE  LET e == Execute(d, DelMember(c))
           IN  /\ e \in Rows /\ e.ranks = d.ranks /\ e.guild = d.guild
               /\ DOMAIN e.member = DOMAIN d.member \ {c}
               /\ \A x \in DOMAIN e.member : e.member[x] = d.member[x]
<1> DEFINE m == [x \in DOMAIN d.member \ {c} |-> d.member[x]]
           e == [guild |-> d.guild, ranks |-> d.ranks, member |-> m]
<1>1. Execute(d, DelMember(c)) = e
  BY RowsIs DEF Execute, DelMember, Without, Restrict
<1>2. e \in Rows
  <2>1. DOMAIN m \subseteq Char /\ m \in [DOMAIN m -> [guild : Guild, rank : RankId]]
    BY RowsIs
  <2> HIDE DEF m
  <2> QED
    BY <2>1, RowsIs, RowsOf
<1> QED
  BY <1>1, <1>2

(* New rights of a guild's ranks.                                          *)
LEMMA RanksOf ==
    ASSUME NEW d \in Rows, NEW g \in Guild, NEW f,
           DOMAIN f \subseteq RankId, f \in [DOMAIN f -> Rights]
    PROVE  LET e == [d EXCEPT !.ranks[g] = f]
           IN  /\ e \in Rows /\ e.member = d.member /\ e.guild = d.guild /\ e.ranks[g] = f
               /\ \A h \in Guild \ {g} : e.ranks[h] = d.ranks[h]
<1> DEFINE r == [d.ranks EXCEPT ![g] = f]
<1>1. f \in Partial(RankId, Rights)
  BY PartialIs
<1>2. r \in [Guild -> Partial(RankId, Rights)] /\ r[g] = f
      /\ \A h \in Guild \ {g} : r[h] = d.ranks[h]
  BY <1>1, RowsIs
<1>3. [d EXCEPT !.ranks[g] = f] = [guild |-> d.guild, ranks |-> r, member |-> d.member]
  BY RowsIs
<1> HIDE DEF r
<1>4. [guild |-> d.guild, ranks |-> r, member |-> d.member] \in Rows
  BY <1>2, RowsIs, RowsOf
<1> QED
  BY <1>2, <1>3, <1>4

(* The ranks of a guild in the tables.                                     *)
LEMMA RanksAre ==
    ASSUME NEW d \in Rows, NEW g \in Guild
    PROVE  DOMAIN d.ranks[g] \subseteq RankId /\ d.ranks[g] \in [DOMAIN d.ranks[g] -> Rights]
<1>1. d.ranks[g] \in Partial(RankId, Rights)
  BY RowsIs
<1> QED
  BY <1>1, PartialIs

(* InsRank, of a rank that does not exist.                                 *)
LEMMA ExecNewRank ==
    ASSUME NEW d \in Rows, NEW g \in Guild, NEW r \in RankId, NEW b \in Rights
    PROVE  LET e == Execute(d, InsRank(g, r, b))
           IN  /\ e \in Rows /\ e.member = d.member /\ e.guild = d.guild
               /\ \A h \in Guild \ {g} : e.ranks[h] = d.ranks[h]
               /\ r \notin DOMAIN d.ranks[g] => e.ranks[g] = With(d.ranks[g], r, b)
<1>1. CASE r \in DOMAIN d.ranks[g]
  <2>1. Execute(d, InsRank(g, r, b)) = d
    BY <1>1 DEF Execute, InsRank
  <2> QED
    BY <1>1, <2>1
<1>2. CASE r \notin DOMAIN d.ranks[g]
  <2> DEFINE f == With(d.ranks[g], r, b)
  <2>1. Execute(d, InsRank(g, r, b)) = [d EXCEPT !.ranks[g] = f]
    BY <1>2 DEF Execute, InsRank
  <2>2. DOMAIN f \subseteq RankId /\ f \in [DOMAIN f -> Rights]
    BY RanksAre DEF With
  <2> HIDE DEF f
  <2>3. LET e == [d EXCEPT !.ranks[g] = f]
        IN  /\ e \in Rows /\ e.member = d.member /\ e.guild = d.guild /\ e.ranks[g] = f
            /\ \A h \in Guild \ {g} : e.ranks[h] = d.ranks[h]
    BY <2>2, RanksOf
  <2> QED
    BY <2>1, <2>3 DEF f
<1> QED
  BY <1>1, <1>2

(* UpdRights, of a rank that exists.                                       *)
LEMMA ExecRights ==
    ASSUME NEW d \in Rows, NEW g \in Guild, NEW r \in RankId, NEW b \in Rights
    PROVE  LET e == Execute(d, UpdRights(g, r, b))
           IN  /\ e \in Rows /\ e.member = d.member /\ e.guild = d.guild
               /\ \A h \in Guild \ {g} : e.ranks[h] = d.ranks[h]
               /\ r \in DOMAIN d.ranks[g] => e.ranks[g] = With(d.ranks[g], r, b)
<1>1. CASE r \notin DOMAIN d.ranks[g]
  <2>1. Execute(d, UpdRights(g, r, b)) = d
    BY <1>1 DEF Execute, UpdRights
  <2> QED
    BY <1>1, <2>1
<1>2. CASE r \in DOMAIN d.ranks[g]
  <2> DEFINE f == With(d.ranks[g], r, b)
  <2>1. Execute(d, UpdRights(g, r, b)) = [d EXCEPT !.ranks[g] = f]
    <3>1. Execute(d, UpdRights(g, r, b)) = [d EXCEPT !.ranks[g][r] = b]
      BY <1>2 DEF Execute, UpdRights
    <3>2. [d.ranks[g] EXCEPT ![r] = b] = f
      BY <1>2, RanksAre DEF With
    <3>3. [d EXCEPT !.ranks[g][r] = b] = [d EXCEPT !.ranks[g] = [d.ranks[g] EXCEPT ![r] = b]]
      BY RowsIs
    <3> QED
      BY <3>1, <3>2, <3>3
  <2>2. DOMAIN f \subseteq RankId /\ f \in [DOMAIN f -> Rights]
    BY RanksAre DEF With
  <2> HIDE DEF f
  <2>3. LET e == [d EXCEPT !.ranks[g] = f]
        IN  /\ e \in Rows /\ e.member = d.member /\ e.guild = d.guild /\ e.ranks[g] = f
            /\ \A h \in Guild \ {g} : e.ranks[h] = d.ranks[h]
    BY <2>2, RanksOf
  <2> QED
    BY <2>1, <2>3 DEF f
<1> QED
  BY <1>1, <1>2

(* DelRanks.                                                               *)
LEMMA ExecDelRanks ==
    ASSUME NEW d \in Rows, NEW g \in Guild, NEW r \in RankId
    PROVE  LET e == Execute(d, DelRanks(g, r))
           IN  /\ e \in Rows /\ e.member = d.member /\ e.guild = d.guild
               /\ \A h \in Guild \ {g} : e.ranks[h] = d.ranks[h]
               /\ e.ranks[g] = Restrict(d.ranks[g], {y \in DOMAIN d.ranks[g] : y < r})
<1> DEFINE f == Restrict(d.ranks[g], {y \in DOMAIN d.ranks[g] : y < r})
<1>1. Execute(d, DelRanks(g, r)) = [d EXCEPT !.ranks[g] = f]
  BY DEF Execute, DelRanks
<1>2. DOMAIN f \subseteq RankId /\ f \in [DOMAIN f -> Rights]
  BY RanksAre DEF Restrict
<1> HIDE DEF f
<1>3. LET e == [d EXCEPT !.ranks[g] = f]
      IN  /\ e \in Rows /\ e.member = d.member /\ e.guild = d.guild /\ e.ranks[g] = f
          /\ \A h \in Guild \ {g} : e.ranks[h] = d.ranks[h]
  BY <1>2, RanksOf
<1> QED
  BY <1>1, <1>3 DEF f

(* DelGuild.                                                               *)
LEMMA ExecDisband ==
    ASSUME NEW d \in Rows, NEW g \in Guild
    PROVE  LET e == Execute(d, DelGuild(g))
           IN  /\ e \in Rows /\ e.member = d.member
               /\ DOMAIN e.guild = DOMAIN d.guild \ {g}
               /\ \A h \in DOMAIN e.guild : e.guild[h] = d.guild[h]
               /\ \A h \in Guild \ {g} : e.ranks[h] = d.ranks[h]
<1> DEFINE f == Without(d.guild, g)
           n == Restrict(d.ranks[g], {})
           r == [d.ranks EXCEPT ![g] = n]
<1>1. Execute(d, DelGuild(g)) = [guild |-> f, ranks |-> r, member |-> d.member]
  BY DEF Execute, DelGuild
<1>2. /\ DOMAIN f = DOMAIN d.guild \ {g} /\ f \in [DOMAIN f -> Char] /\ DOMAIN f \subseteq Guild
      /\ \A h \in DOMAIN f : f[h] = d.guild[h]
  BY RowsIs DEF Without, Restrict
<1>3. n \in Partial(RankId, Rights)
  BY PartialIs DEF Restrict
<1> HIDE DEF f, n
<1>4. r \in [Guild -> Partial(RankId, Rights)] /\ \A h \in Guild \ {g} : r[h] = d.ranks[h]
  BY <1>3, RowsIs
<1> HIDE DEF r
<1>5. [guild |-> f, ranks |-> r, member |-> d.member] \in Rows
  BY <1>2, <1>4, RowsIs, RowsOf
<1> QED
  BY <1>1, <1>2, <1>4, <1>5

(* Tables with fewer guilds and rows are fit.                              *)
LEMMA FitLess ==
    ASSUME NEW d, NEW X, Fit(d, X), NEW e \in Rows,
           DOMAIN e.guild \subseteq DOMAIN d.guild,
           \A h \in DOMAIN e.guild : e.guild[h] = d.guild[h],
           \A c \in Char : GuildRow(e, c) \in {GuildRow(d, c), None}
    PROVE  Fit(e, X)
<1> SUFFICES ASSUME NEW c \in Char, NEW g \in DOMAIN e.guild,
                    e.guild[g] = c, GuildRow(e, c) \notin {g, None}
             PROVE  c \in X
  BY DEF Fit, Astray
<1>1. g \in DOMAIN d.guild /\ d.guild[g] = c /\ GuildRow(d, c) \notin {g, None}
  OBVIOUS
<1>2. c \in Astray(d)
  BY <1>1 DEF Astray
<1> QED
  BY <1>2 DEF Fit

(* A new leader whose row is one of the guild, or who is known to stray.   *)
LEMMA FitLeader ==
    ASSUME NEW d, NEW X, Fit(d, X), NEW g \in Guild, NEW c \in Char,
           c \notin X => GuildRow(d, c) \in {g, None}
    PROVE  Fit(Execute(d, UpdLeader(g, c)), X)
<1> DEFINE e == Execute(d, UpdLeader(g, c))
<1>1. d \in Rows
  BY DEF Fit
<1>2. /\ e \in Rows /\ e.ranks = d.ranks /\ e.member = d.member /\ DOMAIN e.guild = DOMAIN d.guild
      /\ \A h \in DOMAIN d.guild : e.guild[h] = IF h = g THEN c ELSE d.guild[h]
  BY <1>1, ExecLeader
<1> HIDE DEF e
<1>3. ASSUME NEW x \in Char, NEW h \in DOMAIN e.guild,
             e.guild[h] = x, GuildRow(e, x) \notin {h, None}
      PROVE  x \in X
  <2>1. GuildRow(e, x) = GuildRow(d, x)
    BY <1>2 DEF GuildRow
  <2>2. CASE h = g
    BY <1>2, <1>3, <2>1, <2>2
  <2>3. CASE h # g
    <3>1. h \in DOMAIN d.guild /\ d.guild[h] = x /\ GuildRow(d, x) \notin {h, None}
      BY <1>2, <1>3, <2>1, <2>3
    <3>2. x \in Astray(d)
      BY <3>1 DEF Astray
    <3> QED
      BY <3>2 DEF Fit
  <2> QED
    BY <2>2, <2>3
<1>4. Astray(e) \subseteq X
  BY <1>3 DEF Astray
<1> QED
  BY <1>2, <1>4 DEF Fit, e

(* A new row of somebody who leads no other guild, or is known to stray.   *)
LEMMA FitJoin ==
    ASSUME NEW d, NEW X, Fit(d, X), NEW g \in Guild, NEW c \in Char, NEW r \in RankId,
           c \notin X => \A h \in DOMAIN d.guild : d.guild[h] = c => h = g
    PROVE  Fit(Execute(d, InsMember(g, c, r)), X)
<1> DEFINE e == Execute(d, InsMember(g, c, r))
<1>1. d \in Rows
  BY DEF Fit
<1>2. /\ e \in Rows /\ e.guild = d.guild /\ DOMAIN e.member = DOMAIN d.member \cup {c}
      /\ \A x \in DOMAIN d.member : e.member[x] = d.member[x]
      /\ c \notin DOMAIN d.member => e.member[c].guild = g
  BY <1>1, ExecJoin
<1> HIDE DEF e
<1>3. ASSUME NEW x \in Char, NEW h \in DOMAIN e.guild,
             e.guild[h] = x, GuildRow(e, x) \notin {h, None}
      PROVE  x \in X
  <2>1. CASE x = c /\ c \notin DOMAIN d.member
    <3>1. GuildRow(e, x) = g
      BY <1>2, <2>1 DEF GuildRow
    <3> QED
      BY <1>2, <1>3, <2>1, <3>1
  <2>2. CASE ~(x = c /\ c \notin DOMAIN d.member)
    <3>1. GuildRow(e, x) = GuildRow(d, x)
      BY <1>2, <2>2 DEF GuildRow
    <3>2. x \in Astray(d)
      BY <1>2, <1>3, <3>1 DEF Astray
    <3> QED
      BY <3>2 DEF Fit
  <2> QED
    BY <2>1, <2>2
<1>4. Astray(e) \subseteq X
  BY <1>3 DEF Astray
<1> QED
  BY <1>2, <1>4 DEF Fit, e

(* Statements for the row of a member keep the tables fit.                 *)
LEMMA FitRow ==
    ASSUME NEW d, NEW X, Fit(d, X), NEW c \in Char, NEW r \in RankId
    PROVE  Fit(Execute(d, UpdRank(c, r)), X) /\ Fit(Execute(d, DelMember(c)), X)
<1>1. d \in Rows
  BY DEF Fit
<1>2. Fit(Execute(d, UpdRank(c, r)), X)
  <2> DEFINE e == Execute(d, UpdRank(c, r))
  <2>1. /\ e \in Rows /\ e.guild = d.guild /\ DOMAIN e.member = DOMAIN d.member
        /\ \A x \in DOMAIN d.member : e.member[x].guild = d.member[x].guild
    BY <1>1, ExecRank
  <2> HIDE DEF e
  <2>2. \A x \in Char : GuildRow(e, x) = GuildRow(d, x)
    BY <2>1 DEF GuildRow
  <2> QED
    BY <2>1, <2>2, FitLess DEF e
<1>3. Fit(Execute(d, DelMember(c)), X)
  <2> DEFINE e == Execute(d, DelMember(c))
  <2>1. /\ e \in Rows /\ e.guild = d.guild /\ DOMAIN e.member = DOMAIN d.member \ {c}
        /\ \A x \in DOMAIN e.member : e.member[x] = d.member[x]
    BY <1>1, ExecLeave
  <2> HIDE DEF e
  <2>2. \A x \in Char : GuildRow(e, x) \in {GuildRow(d, x), None}
    BY <2>1 DEF GuildRow
  <2> QED
    BY <2>1, <2>2, FitLess DEF e
<1> QED
  BY <1>2, <1>3

(* Statements for a guild keep the tables fit.                             *)
LEMMA FitGuild ==
    ASSUME NEW d, NEW X, Fit(d, X), NEW g \in Guild, NEW r \in RankId, NEW b \in Rights
    PROVE  /\ Fit(Execute(d, InsRank(g, r, b)), X) /\ Fit(Execute(d, UpdRights(g, r, b)), X)
           /\ Fit(Execute(d, DelRanks(g, r)), X) /\ Fit(Execute(d, DelGuild(g)), X)
<1>1. d \in Rows
  BY DEF Fit
<1>4. ASSUME NEW e \in Rows, e.guild = d.guild, e.member = d.member
      PROVE  Fit(e, X)
  <2>1. \A x \in Char : GuildRow(e, x) = GuildRow(d, x)
    BY <1>4 DEF GuildRow
  <2> QED
    BY <1>4, <2>1, FitLess
<1>5. Fit(Execute(d, DelGuild(g)), X)
  <2> DEFINE e == Execute(d, DelGuild(g))
  <2>1. /\ e \in Rows /\ e.member = d.member /\ DOMAIN e.guild = DOMAIN d.guild \ {g}
        /\ \A h \in DOMAIN e.guild : e.guild[h] = d.guild[h]
    BY <1>1, ExecDisband
  <2> HIDE DEF e
  <2>2. \A x \in Char : GuildRow(e, x) = GuildRow(d, x)
    BY <2>1 DEF GuildRow
  <2> QED
    BY <2>1, <2>2, FitLess DEF e
<1>6. Fit(Execute(d, InsRank(g, r, b)), X)
  <2>1. LET e == Execute(d, InsRank(g, r, b))
        IN  e \in Rows /\ e.member = d.member /\ e.guild = d.guild
    BY <1>1, ExecNewRank
  <2> QED
    BY <1>4, <2>1
<1>7. Fit(Execute(d, UpdRights(g, r, b)), X)
  <2>1. LET e == Execute(d, UpdRights(g, r, b))
        IN  e \in Rows /\ e.member = d.member /\ e.guild = d.guild
    BY <1>1, ExecRights
  <2> QED
    BY <1>4, <2>1
<1>8. Fit(Execute(d, DelRanks(g, r)), X)
  <2>1. LET e == Execute(d, DelRanks(g, r))
        IN  e \in Rows /\ e.member = d.member /\ e.guild = d.guild
    BY <1>1, ExecDelRanks
  <2> QED
    BY <1>4, <2>1
<1> QED
  BY <1>5, <1>6, <1>7, <1>8

-----------------------------------------------------------------------------
(* Statements that are added to those that wait.                           *)

(* The tables once the statements are executed.                            *)
LEMMA DrainedFit ==
    ASSUME NEW d, NEW X, NEW p, Len(p) \in Nat, Safe(d, p, X)
    PROVE  Fit(Drained(d, p), X) /\ Fit(d, X)
<1>1. Len(p) \in 0 .. Len(p) /\ 0 \in 0 .. Len(p)
  OBVIOUS
<1> QED
  BY <1>1, ProgressIs DEF Safe, Drained

(* What is known of strays may grow.                                       *)
LEMMA SafeWider ==
    ASSUME NEW d, NEW p, NEW X, NEW Y, Safe(d, p, X), X \subseteq Y
    PROVE  Safe(d, p, Y)
  BY DEF Safe, Fit

(* Induction over the statements: what is so of the tables at first, and   *)
(* after each statement.                                                   *)
LEMMA Batch ==
    ASSUME NEW d, NEW p, Len(p) \in Nat, NEW F, <<0, d>> \in F,
           \A n \in Nat : \A x : n < Len(p) /\ <<n, x>> \in F => <<n + 1, Execute(x, p[n + 1])>> \in F
    PROVE  \A n \in 0 .. Len(p) : <<n, Progress(d, p)[n]>> \in F
<1> DEFINE S == {n \in Nat : n =< Len(p) => <<n, Progress(d, p)[n]>> \in F}
<1>1. 0 \in S
  BY ProgressIs
<1>2. ASSUME NEW n \in Nat, n \in S
      PROVE  n + 1 \in S
  <2> SUFFICES ASSUME n + 1 =< Len(p)
               PROVE  <<n + 1, Progress(d, p)[n + 1]>> \in F
    OBVIOUS
  <2>1. n < Len(p) /\ <<n, Progress(d, p)[n]>> \in F
    BY <1>2
  <2>2. Progress(d, p)[n + 1] = Execute(Progress(d, p)[n], p[n + 1])
    BY ProgressStep
  <2>3. <<n + 1, Execute(Progress(d, p)[n], p[n + 1])>> \in F
    BY <2>1
  <2> QED
    BY <2>2, <2>3
<1> HIDE DEF S
<1>3. S = Nat
  BY <1>1, <1>2, Induction DEF S
<1> QED
  BY <1>3 DEF S

(* UpdRank for characters in some order.                                   *)
LEMMA BatchRank ==
    ASSUME NEW d, NEW X, Fit(d, X), NEW o \in Seq(Char), NEW r \in RankId,
           NEW p, p = [i \in DOMAIN o |-> UpdRank(o[i], r)]
    PROVE  LET e == Drained(d, p)
           IN  /\ p \in Seq(Statement) /\ Safe(d, p, X)
               /\ e \in Rows /\ e.guild = d.guild /\ e.ranks = d.ranks
               /\ DOMAIN e.member = DOMAIN d.member
               /\ \A x \in DOMAIN d.member :
                    /\ e.member[x].guild = d.member[x].guild
                    /\ e.member[x].rank =
                         IF \E i \in 1 .. Len(o) : o[i] = x THEN r ELSE d.member[x].rank
<1>1. /\ p \in Seq(Statement) /\ Len(p) = Len(o) /\ Len(p) \in Nat
      /\ \A n \in 1 .. Len(p) : p[n] = UpdRank(o[n], r) /\ o[n] \in Char
  BY DEF UpdRank, Statement
<1> DEFINE After(n, x) ==
             /\ Fit(x, X) /\ x.guild = d.guild /\ x.ranks = d.ranks
             /\ DOMAIN x.member = DOMAIN d.member
             /\ \A c \in DOMAIN d.member :
                  /\ x.member[c].guild = d.member[c].guild
                  /\ x.member[c].rank = IF \E i \in 1 .. n : o[i] = c THEN r ELSE d.member[c].rank
           F == {y \in Nat \X Rows : After(y[1], y[2])}
<1>2. d \in Rows
  BY DEF Fit
<1>3. <<0, d>> \in F
  BY <1>2
<1>4. ASSUME NEW n \in Nat, NEW x, n < Len(p), <<n, x>> \in F
      PROVE  <<n + 1, Execute(x, p[n + 1])>> \in F
  <2> DEFINE y == Execute(x, UpdRank(o[n + 1], r))
  <2>1. x \in Rows /\ After(n, x)
    BY <1>4
  <2>2. n + 1 \in 1 .. Len(p) /\ n + 1 \in Nat
    BY <1>1, <1>4
  <2>3. o[n + 1] \in Char /\ p[n + 1] = UpdRank(o[n + 1], r)
    BY <1>1, <2>2
  <2>4. /\ y \in Rows /\ y.ranks = x.ranks /\ y.guild = x.guild
        /\ DOMAIN y.member = DOMAIN x.member
        /\ \A c \in DOMAIN x.member :
             /\ y.member[c].guild = x.member[c].guild
             /\ y.member[c].rank = IF c = o[n + 1] THEN r ELSE x.member[c].rank
    BY <2>1, <2>3, ExecRank
  <2>5. Fit(y, X)
    BY <2>1, <2>3, FitRow
  <2> HIDE DEF y
  <2>6. \A c : (\E i \in 1 .. n + 1 : o[i] = c) <=> (c = o[n + 1] \/ \E i \in 1 .. n : o[i] = c)
    <3>1. \A i : i \in 1 .. n + 1 <=> i \in 1 .. n \/ i = n + 1
      OBVIOUS
    <3> QED
      BY <3>1
  <2>7. After(n + 1, y)
    <3>1. /\ y.guild = d.guild /\ y.ranks = d.ranks /\ DOMAIN y.member = DOMAIN d.member
          /\ \A c \in DOMAIN d.member : y.member[c].guild = d.member[c].guild
      BY <2>1, <2>4
    <3>2. ASSUME NEW c \in DOMAIN d.member
          PROVE  y.member[c].rank = IF \E i \in 1 .. n + 1 : o[i] = c THEN r ELSE d.member[c].rank
      <4>1. y.member[c].rank = IF c = o[n + 1] THEN r ELSE x.member[c].rank
        BY <2>1, <2>4
      <4>2. x.member[c].rank = IF \E i \in 1 .. n : o[i] = c THEN r ELSE d.member[c].rank
        BY <2>1
      <4>3. (\E i \in 1 .. n + 1 : o[i] = c) <=> (c = o[n + 1] \/ \E i \in 1 .. n : o[i] = c)
        BY <2>6
      <4> QED
        BY <4>1, <4>2, <4>3
    <3> QED
      BY <2>5, <3>1, <3>2
  <2> HIDE DEF After
  <2>8. <<n + 1, y>> \in F
    BY <2>2, <2>4, <2>7
  <2> QED
    BY <2>3, <2>8 DEF y
<1> HIDE DEF F
<1>5. \A n \in 0 .. Len(p) : <<n, Progress(d, p)[n]>> \in F
  BY <1>1, <1>3, <1>4, Batch
<1>6. \A n \in 0 .. Len(p) : After(n, Progress(d, p)[n]) /\ Progress(d, p)[n] \in Rows
  <2> HIDE DEF After
  <2> QED
    BY <1>5 DEF F
<1>7. Safe(d, p, X)
  BY <1>6 DEF Safe
<1>8. After(Len(o), Drained(d, p)) /\ Drained(d, p) \in Rows
  <2>1. Len(o) \in 0 .. Len(p) /\ Len(p) = Len(o)
    BY <1>1
  <2> HIDE DEF After
  <2> QED
    BY <1>6, <2>1 DEF Drained
<1> QED
  BY <1>1, <1>7, <1>8

(* DelMember for characters in some order.                                 *)
LEMMA BatchLeave ==
    ASSUME NEW d, NEW X, Fit(d, X), NEW o \in Seq(Char),
           NEW p, p = [i \in DOMAIN o |-> DelMember(o[i])]
    PROVE  LET e == Drained(d, p)
           IN  /\ p \in Seq(Statement) /\ Safe(d, p, X)
               /\ e \in Rows /\ e.guild = d.guild /\ e.ranks = d.ranks
               /\ DOMAIN e.member = {x \in DOMAIN d.member : \A i \in 1 .. Len(o) : o[i] # x}
               /\ \A x \in DOMAIN e.member : e.member[x] = d.member[x]
<1>1. /\ p \in Seq(Statement) /\ Len(p) = Len(o) /\ Len(p) \in Nat
      /\ \A n \in 1 .. Len(p) : p[n] = DelMember(o[n]) /\ o[n] \in Char
  BY DEF DelMember, Statement
<1> DEFINE After(n, x) ==
             /\ Fit(x, X) /\ x.guild = d.guild /\ x.ranks = d.ranks
             /\ DOMAIN x.member = {c \in DOMAIN d.member : \A i \in 1 .. n : o[i] # c}
             /\ \A c \in DOMAIN x.member : x.member[c] = d.member[c]
           F == {y \in Nat \X Rows : After(y[1], y[2])}
<1>2. d \in Rows
  BY DEF Fit
<1>3. <<0, d>> \in F
  BY <1>2
<1>4. ASSUME NEW n \in Nat, NEW x, n < Len(p), <<n, x>> \in F
      PROVE  <<n + 1, Execute(x, p[n + 1])>> \in F
  <2> DEFINE y == Execute(x, DelMember(o[n + 1]))
  <2>1. x \in Rows /\ After(n, x)
    BY <1>4
  <2>2. n + 1 \in 1 .. Len(p) /\ n + 1 \in Nat
    BY <1>1, <1>4
  <2>3. o[n + 1] \in Char /\ p[n + 1] = DelMember(o[n + 1])
    BY <1>1, <2>2
  <2>4. /\ y \in Rows /\ y.ranks = x.ranks /\ y.guild = x.guild
        /\ DOMAIN y.member = DOMAIN x.member \ {o[n + 1]}
        /\ \A c \in DOMAIN y.member : y.member[c] = x.member[c]
    BY <2>1, <2>3, ExecLeave
  <2>5. Fit(y, X)
    <3>1. GuildMaster \in RankId
      BY GuildsAssumption DEF GuildMaster, RankId
    <3> QED
      BY <2>1, <2>3, <3>1, FitRow
  <2> HIDE DEF y
  <2>6. \A c : (\A i \in 1 .. n + 1 : o[i] # c) <=> (c # o[n + 1] /\ \A i \in 1 .. n : o[i] # c)
    <3>1. \A i : i \in 1 .. n + 1 <=> i \in 1 .. n \/ i = n + 1
      OBVIOUS
    <3> QED
      BY <3>1
  <2>7. DOMAIN y.member = {c \in DOMAIN d.member : \A i \in 1 .. n + 1 : o[i] # c}
    BY <2>1, <2>4, <2>6
  <2>8. After(n + 1, y)
    BY <2>1, <2>4, <2>5, <2>7
  <2> HIDE DEF After
  <2>9. <<n + 1, y>> \in F
    BY <2>2, <2>4, <2>8
  <2> HIDE DEF F
  <2> QED
    BY <2>3, <2>9 DEF y
<1> HIDE DEF F
<1>5. \A n \in 0 .. Len(p) : <<n, Progress(d, p)[n]>> \in F
  BY <1>1, <1>3, <1>4, Batch
<1>6. \A n \in 0 .. Len(p) : After(n, Progress(d, p)[n]) /\ Progress(d, p)[n] \in Rows
  BY <1>5 DEF F
<1>7. Safe(d, p, X)
  BY <1>6 DEF Safe
<1>8. After(Len(o), Drained(d, p)) /\ Drained(d, p) \in Rows
  <2>1. Len(o) \in 0 .. Len(p) /\ Len(p) = Len(o)
    BY <1>1
  <2> HIDE DEF After
  <2> QED
    BY <1>6, <2>1 DEF Drained
<1> QED
  BY <1>1, <1>7, <1>8

(* InsRank for the ranks 0, 1, ... of a guild that has none.               *)
LEMMA BatchNewRank ==
    ASSUME NEW d, NEW X, Fit(d, X), NEW g \in Guild, DOMAIN d.ranks[g] = {},
           NEW R \in Seq(Rights), Len(R) =< MaxRanks,
           NEW p, p = [i \in 1 .. Len(R) |-> InsRank(g, i - 1, R[i])]
    PROVE  LET e == Drained(d, p)
           IN  /\ p \in Seq(Statement) /\ Safe(d, p, X)
               /\ e \in Rows /\ e.guild = d.guild /\ e.member = d.member
               /\ \A h \in Guild \ {g} : e.ranks[h] = d.ranks[h]
               /\ e.ranks[g] = [r \in 0 .. Len(R) - 1 |-> R[r + 1]]
<1>1. \A n \in 1 .. Len(R) : n - 1 \in RankId /\ R[n] \in Rights
  BY GuildsAssumption DEF RankId
<1>2. /\ p \in Seq(Statement) /\ Len(p) = Len(R) /\ Len(p) \in Nat
      /\ \A n \in 1 .. Len(p) : p[n] = InsRank(g, n - 1, R[n])
  <2>1. \A n \in 1 .. Len(R) : InsRank(g, n - 1, R[n]) \in Statement
    BY <1>1 DEF InsRank, Statement
  <2> QED
    BY <2>1
<1> DEFINE After(n, x) ==
             /\ Fit(x, X) /\ x.guild = d.guild /\ x.member = d.member
             /\ \A h \in Guild \ {g} : x.ranks[h] = d.ranks[h]
             /\ x.ranks[g] = [r \in 0 .. n - 1 |-> R[r + 1]]
           F == {y \in Nat \X Rows : After(y[1], y[2])}
<1>3. d \in Rows
  BY DEF Fit
<1>4. <<0, d>> \in F
  <2>1. d.ranks[g] = [r \in 0 .. 0 - 1 |-> R[r + 1]]
    <3>1. 0 .. 0 - 1 = {}
      OBVIOUS
    <3>2. d.ranks[g] = [r \in {} |-> R[r + 1]]
      BY <1>3, RanksAre
    <3> QED
      BY <3>1, <3>2
  <2> QED
    BY <1>3, <2>1
<1>5. ASSUME NEW n \in Nat, NEW x, n < Len(p), <<n, x>> \in F
      PROVE  <<n + 1, Execute(x, p[n + 1])>> \in F
  <2> DEFINE y == Execute(x, InsRank(g, n, R[n + 1]))
  <2>1. x \in Rows /\ After(n, x)
    BY <1>5
  <2>2. n + 1 \in 1 .. Len(p) /\ n + 1 \in Nat /\ (n + 1) - 1 = n
    BY <1>2, <1>5
  <2>3. n \in RankId /\ R[n + 1] \in Rights /\ p[n + 1] = InsRank(g, n, R[n + 1])
    BY <1>1, <1>2, <2>2
  <2>4. n \notin DOMAIN x.ranks[g]
    BY <2>1
  <2>5. /\ y \in Rows /\ y.member = x.member /\ y.guild = x.guild
        /\ \A h \in Guild \ {g} : y.ranks[h] = x.ranks[h]
        /\ y.ranks[g] = With(x.ranks[g], n, R[n + 1])
    <3> DEFINE b == R[n + 1]
    <3>1. x \in Rows /\ n \in RankId /\ b \in Rights /\ n \notin DOMAIN x.ranks[g]
          /\ y = Execute(x, InsRank(g, n, b))
      BY <2>1, <2>3, <2>4
    <3> HIDE DEF b, y
    <3> QED
      BY <3>1, ExecNewRank DEF b
  <2>6. Fit(y, X)
    BY <2>1, <2>3, FitGuild
  <2> HIDE DEF y
  <2>7. With(x.ranks[g], n, R[n + 1]) = [r \in 0 .. n |-> R[r + 1]]
    BY <2>1 DEF With
  <2>8. After(n + 1, y)
    BY <2>1, <2>2, <2>5, <2>6, <2>7
  <2> HIDE DEF After
  <2>9. <<n + 1, y>> \in F
    BY <2>2, <2>5, <2>8
  <2> HIDE DEF F
  <2> QED
    BY <2>3, <2>9 DEF y
<1> HIDE DEF F
<1>6. \A n \in 0 .. Len(p) : <<n, Progress(d, p)[n]>> \in F
  BY <1>2, <1>4, <1>5, Batch
<1>7. \A n \in 0 .. Len(p) : After(n, Progress(d, p)[n]) /\ Progress(d, p)[n] \in Rows
  BY <1>6 DEF F
<1>8. Safe(d, p, X)
  BY <1>7 DEF Safe
<1>9. After(Len(R), Drained(d, p)) /\ Drained(d, p) \in Rows
  <2>1. Len(R) \in 0 .. Len(p) /\ Len(p) = Len(R)
    BY <1>2
  <2> HIDE DEF After
  <2> QED
    BY <1>7, <2>1 DEF Drained
<1> QED
  BY <1>2, <1>8, <1>9

-----------------------------------------------------------------------------
(* The hub.                                                                *)

Store == Partial(Guild, GuildObject)

HubType == [store : Store, inGuild : [Char -> Guild \cup {None}], invited : [Char -> Nat],
            storage : [Char -> Guild \cup {None}], pend : Seq(Statement), strayed : SUBSET Char]

\* What the rows, the guilds, the global data and the player say of c agree;
\* O are the players online.
At(e, w, O, c) ==
    /\ GuildsOf(w.store, c) = {w.storage[c]} \ {None}
    /\ GuildRow(e, c) = w.storage[c]
    /\ \A g \in GuildsOf(w.store, c) : w.store[g].members[c] = e.member[c].rank
    /\ c \in O => w.inGuild[c] = w.storage[c]

\* The guilds and their leaders are those of the tables.
Mirrors(e, s) ==
    /\ DOMAIN s = DOMAIN e.guild
    /\ \A g \in DOMAIN s : e.guild[g] = s[g].leader

\* The hub w on the tables d.
Sound(d, w, O) ==
    /\ w \in HubType /\ Safe(d, w.pend, w.strayed)
    /\ Mirrors(Drained(d, w.pend), w.store)
    /\ \A c \in Char \ w.strayed : At(Drained(d, w.pend), w, O, c)

(* The parts of the hub.                                                   *)
LEMMA HubIs ==
    ASSUME NEW w \in HubType
    PROVE  /\ w.store \in Store /\ w.inGuild \in [Char -> Guild \cup {None}]
           /\ w.invited \in [Char -> Nat] /\ w.storage \in [Char -> Guild \cup {None}]
           /\ w.pend \in Seq(Statement) /\ w.strayed \subseteq Char
           /\ w = [store |-> w.store, inGuild |-> w.inGuild, invited |-> w.invited,
                   storage |-> w.storage, pend |-> w.pend, strayed |-> w.strayed]
  BY DEF HubType

(* The parts of a guild.                                                   *)
LEMMA GuildIs ==
    ASSUME NEW G \in GuildObject
    PROVE  /\ G.leader \in Char /\ G.ranks \in Seq(Rights)
           /\ DOMAIN G.members \subseteq Char /\ G.members \in [DOMAIN G.members -> RankId]
           /\ G = [leader |-> G.leader, ranks |-> G.ranks, members |-> G.members]
<1>1. /\ G.leader \in Char /\ G.ranks \in Seq(Rights) /\ G.members \in Partial(Char, RankId)
      /\ G = [leader |-> G.leader, ranks |-> G.ranks, members |-> G.members]
  BY DEF GuildObject
<1> QED
  BY <1>1, PartialIs

(* The guilds.                                                             *)
LEMMA StoreIs ==
    ASSUME NEW s \in Store
    PROVE  /\ DOMAIN s \subseteq Guild /\ s \in [DOMAIN s -> GuildObject]
           /\ \A g \in DOMAIN s :
                /\ s[g] \in GuildObject /\ s[g].leader \in Char /\ s[g].ranks \in Seq(Rights)
                /\ DOMAIN s[g].members \subseteq Char
                /\ s[g].members \in [DOMAIN s[g].members -> RankId]
                /\ s[g] = [leader |-> s[g].leader, ranks |-> s[g].ranks, members |-> s[g].members]
<1>1. DOMAIN s \subseteq Guild /\ s \in [DOMAIN s -> GuildObject]
  BY PartialIs DEF Store
<1>2. ASSUME NEW g \in DOMAIN s
      PROVE  s[g] \in GuildObject
  BY <1>1
<1> QED
  BY <1>1, <1>2, GuildIs

\* v is the hub with these parts.
Form(v, s, i, n, t, p, x) ==
    v = [store |-> s, inGuild |-> i, invited |-> n, storage |-> t, pend |-> p, strayed |-> x]

(* A hub has parts.                                                        *)
LEMMA HubForm ==
    ASSUME NEW w \in HubType
    PROVE  Form(w, w.store, w.inGuild, w.invited, w.storage, w.pend, w.strayed)
  BY HubIs DEF Form

(* Another part.                                                           *)
LEMMA PutForm ==
    ASSUME NEW v, NEW s, NEW i, NEW n, NEW t, NEW p, NEW x, Form(v, s, i, n, t, p, x), NEW y
    PROVE  /\ Form([v EXCEPT !.store = y], y, i, n, t, p, x)
           /\ Form([v EXCEPT !.inGuild = y], s, y, n, t, p, x)
           /\ Form([v EXCEPT !.invited = y], s, i, y, t, p, x)
           /\ Form([v EXCEPT !.storage = y], s, i, n, y, p, x)
           /\ Form([v EXCEPT !.pend = y], s, i, n, t, y, x)
           /\ Form([v EXCEPT !.strayed = y], s, i, n, t, p, y)
<1>1. Form([v EXCEPT !.store = y], y, i, n, t, p, x)
  BY DEF Form
<1>2. Form([v EXCEPT !.inGuild = y], s, y, n, t, p, x)
  BY DEF Form
<1>3. Form([v EXCEPT !.invited = y], s, i, y, t, p, x)
  BY DEF Form
<1>4. Form([v EXCEPT !.storage = y], s, i, n, y, p, x)
  BY DEF Form
<1>5. Form([v EXCEPT !.pend = y], s, i, n, t, y, x)
  BY DEF Form
<1>6. Form([v EXCEPT !.strayed = y], s, i, n, t, p, y)
  BY DEF Form
<1> QED
  BY <1>1, <1>2, <1>3, <1>4, <1>5, <1>6

\* Another guild object.
Place(s, g, G) == [s EXCEPT ![g] = G]

(* More statements, or another guild object.                               *)
LEMMA ExecForm ==
    ASSUME NEW v, NEW s, NEW i, NEW n, NEW t, NEW p, NEW x, Form(v, s, i, n, t, p, x)
    PROVE  /\ \A q : Form(ExecAll(v, q), s, i, n, t, p \o q, x)
           /\ \A g, G : Form(Edit(v, g, G), Place(s, g, G), i, n, t, p, x)
<1>1. ASSUME NEW q
      PROVE  Form(ExecAll(v, q), s, i, n, t, p \o q, x)
  <2> DEFINE y == p \o q
  <2>1. v.pend = p
    BY DEF Form
  <2>2. ExecAll(v, q) = [v EXCEPT !.pend = y]
    BY <2>1, Zenon DEF ExecAll
  <2> HIDE DEF y
  <2>3. Form([v EXCEPT !.pend = y], s, i, n, t, y, x)
    BY PutForm
  <2> QED
    BY <2>2, <2>3 DEF y
<1>2. ASSUME NEW g, NEW G
      PROVE  Form(Edit(v, g, G), Place(s, g, G), i, n, t, p, x)
  BY DEF Form, Edit, Place
<1> QED
  BY <1>1, <1>2

(* A store with another guild object.                                      *)
LEMMA PlaceIs ==
    ASSUME NEW s \in Store, NEW g \in DOMAIN s, NEW G \in GuildObject
    PROVE  /\ Place(s, g, G) \in Store /\ DOMAIN Place(s, g, G) = DOMAIN s
           /\ Place(s, g, G)[g] = G
           /\ \A h \in DOMAIN s \ {g} : Place(s, g, G)[h] = s[h]
<1> DEFINE t == Place(s, g, G)
<1>1. DOMAIN t \subseteq Guild /\ t \in [DOMAIN t -> GuildObject] /\ DOMAIN t = DOMAIN s
      /\ t[g] = G /\ \A h \in DOMAIN s \ {g} : t[h] = s[h]
  BY StoreIs DEF Place
<1>2. t \in Store
  BY <1>1, PartialIs DEF Store
<1> QED
  BY <1>1, <1>2

(* A guild object of its parts.                                            *)
LEMMA GuildOf ==
    ASSUME NEW l \in Char, NEW R \in Seq(Rights), NEW m, DOMAIN m \subseteq Char,
           m \in [DOMAIN m -> RankId]
    PROVE  [leader |-> l, ranks |-> R, members |-> m] \in GuildObject
<1>1. m \in Partial(Char, RankId)
  BY PartialIs
<1> QED
  BY <1>1 DEF GuildObject

(* Tell changes what is said of the characters C.                          *)
LEMMA TellForm ==
    ASSUME NEW v, NEW s, NEW i, NEW n, NEW t, NEW p, NEW x, Form(v, s, i, n, t, p, x),
           NEW C, NEW g
    PROVE  Form(Tell(v, C, g), s, [c \in Char |-> IF c \in C \cap found THEN g ELSE i[c]], n,
                [c \in Char |-> IF c \in C \cap Known THEN g ELSE t[c]], p, x \cup (C \cap (online \ found)) \cup (C \ Known))
<1> DEFINE a == [c \in Char |-> IF c \in C \cap found THEN g ELSE i[c]]
           b == [c \in Char |-> IF c \in C \cap Known THEN g ELSE t[c]]
           y == x \cup (C \cap (online \ found)) \cup (C \ Known)
<1>1. Tell(v, C, g) = [v EXCEPT !.storage = b, !.inGuild = a, !.strayed = y]
  <2>1. v.storage = t /\ v.inGuild = i /\ v.strayed = x
    BY DEF Form
  <2> QED
    BY <2>1, Zenon DEF Tell
<1> HIDE DEF a, b, y
<1>2. [v EXCEPT !.storage = b, !.inGuild = a, !.strayed = y]
        = [[[v EXCEPT !.storage = b] EXCEPT !.inGuild = a] EXCEPT !.strayed = y]
  OBVIOUS
<1>3. Form([v EXCEPT !.storage = b], s, i, n, b, p, x)
  BY PutForm
<1>4. Form([[v EXCEPT !.storage = b] EXCEPT !.inGuild = a], s, a, n, b, p, x)
  BY <1>3, PutForm
<1>5. Form([[[v EXCEPT !.storage = b] EXCEPT !.inGuild = a] EXCEPT !.strayed = y],
           s, a, n, b, p, y)
  BY <1>4, PutForm
<1> QED
  BY <1>1, <1>2, <1>5 DEF a, b, y

-----------------------------------------------------------------------------
(* The operations on the hub keep it sound.                                *)

\* The ranks of the guilds of v are those they have in w, here and there.
Kept(d, w, v) ==
    \A h \in DOMAIN v.store :
        /\ h \in DOMAIN w.store
        /\ v.store[h].ranks = w.store[h].ranks
        /\ Drained(d, v.pend).ranks[h] = Drained(d, w.pend).ranks[h]

(* What is sound can be executed.                                          *)
LEMMA SoundIs ==
    ASSUME NEW d, NEW w, NEW O, Sound(d, w, O)
    PROVE  /\ w \in HubType /\ w.store \in Store /\ w.pend \in Seq(Statement)
           /\ Drained(d, w.pend) \in Rows /\ Fit(Drained(d, w.pend), w.strayed)
<1>1. w \in HubType /\ w.store \in Store /\ w.pend \in Seq(Statement) /\ Safe(d, w.pend, w.strayed)
  BY HubIs DEF Sound
<1>2. Len(w.pend) \in Nat
  BY <1>1
<1>3. Fit(Drained(d, w.pend), w.strayed)
  BY <1>1, <1>2, DrainedFit
<1> QED
  BY <1>1, <1>3 DEF Fit

(* A member who has not strayed is in this guild only, and has a row.      *)
LEMMA MemberAt ==
    ASSUME NEW e \in Rows, NEW w \in HubType, NEW O, NEW c \in Char, At(e, w, O, c),
           NEW g \in DOMAIN w.store, c \in DOMAIN w.store[g].members
    PROVE  /\ GuildsOf(w.store, c) = {g} /\ w.storage[c] = g /\ GuildRow(e, c) = g
           /\ c \in DOMAIN e.member /\ e.member[c].guild = g
<1>1. g \in GuildsOf(w.store, c) /\ g \in Guild /\ g # None
  BY HubIs, StoreIs, GuildsAssumption DEF GuildsOf, None
<1>2. w.storage[c] = g /\ GuildRow(e, c) = g /\ GuildsOf(w.store, c) = {g}
  BY <1>1 DEF At
<1> QED
  BY <1>1, <1>2 DEF GuildRow

\* From tables e and hub w to f and v the members C of g get the rank r.
Regrade(e, w, f, v, g, C, r) ==
    /\ C \subseteq DOMAIN w.store[g].members
    /\ DOMAIN v.store = DOMAIN w.store
    /\ \A h \in DOMAIN w.store :
         /\ DOMAIN v.store[h].members = DOMAIN w.store[h].members
         /\ \A x \in DOMAIN w.store[h].members :
              v.store[h].members[x] = IF h = g /\ x \in C THEN r ELSE w.store[h].members[x]
    /\ v.storage = w.storage /\ v.inGuild = w.inGuild
    /\ DOMAIN f.member = DOMAIN e.member
    /\ \A x \in DOMAIN e.member :
         /\ f.member[x].guild = e.member[x].guild
         /\ f.member[x].rank = IF x \in C THEN r ELSE e.member[x].rank

(* Other ranks for members of a guild.                                     *)
LEMMA Regraded ==
    ASSUME NEW e \in Rows, NEW f, NEW w \in HubType, NEW v, NEW O, NEW g \in DOMAIN w.store,
           NEW C, NEW r, Regrade(e, w, f, v, g, C, r), NEW c \in Char, At(e, w, O, c)
    PROVE  At(f, v, O, c)
<1>1. GuildsOf(v.store, c) = GuildsOf(w.store, c)
  BY DEF GuildsOf, Regrade
<1>2. GuildRow(f, c) = GuildRow(e, c)
  BY DEF GuildRow, Regrade
<1>3. ASSUME NEW h \in GuildsOf(w.store, c)
      PROVE  v.store[h].members[c] = f.member[c].rank
  <2>1. h \in DOMAIN w.store /\ c \in DOMAIN w.store[h].members
    BY <1>3 DEF GuildsOf
  <2>2. GuildsOf(w.store, c) = {h} /\ c \in DOMAIN e.member
    BY <2>1, MemberAt
  <2>3. c \in C => h = g
    BY <2>2 DEF GuildsOf, Regrade
  <2>4. w.store[h].members[c] = e.member[c].rank
    BY <1>3 DEF At
  <2> QED
    BY <2>1, <2>2, <2>3, <2>4 DEF Regrade
<1>4. v.storage = w.storage /\ v.inGuild = w.inGuild
  BY DEF Regrade
<1> QED
  BY <1>1, <1>2, <1>3, <1>4 DEF At

\* The hub v has come from w with the statements q; they will make the tables f.
Step(d, w, O, v, q, f) ==
    /\ v \in HubType /\ q \in Seq(Statement) /\ v.pend = w.pend \o q
    /\ w.strayed \subseteq v.strayed
    /\ Safe(Drained(d, w.pend), q, v.strayed) /\ f = Drained(Drained(d, w.pend), q)
    /\ Mirrors(f, v.store) /\ \A c \in Char \ v.strayed : At(f, v, O, c)

(* Such a step is sound.                                                   *)
LEMMA Advanced ==
    ASSUME NEW d, NEW w, NEW O, Sound(d, w, O), NEW v, NEW q, NEW f, Step(d, w, O, v, q, f)
    PROVE  Sound(d, v, O) /\ Drained(d, v.pend) = f
<1>1. w.pend \in Seq(Statement) /\ Safe(d, w.pend, w.strayed)
  BY SoundIs DEF Sound
<1>2. w.strayed \subseteq v.strayed
  BY DEF Step
<1>3. Safe(d, w.pend, v.strayed)
  BY <1>1, <1>2, SafeWider
<1>4. q \in Seq(Statement) /\ Safe(Drained(d, w.pend), q, v.strayed)
  BY DEF Step
<1>5. /\ w.pend \o q \in Seq(Statement) /\ Safe(d, w.pend \o q, v.strayed)
      /\ Drained(d, w.pend \o q) = Drained(Drained(d, w.pend), q)
  BY <1>1, <1>3, <1>4, Continued
<1>6. Safe(d, v.pend, v.strayed) /\ Drained(d, v.pend) = f
  BY <1>5 DEF Step
<1> QED
  BY <1>6 DEF Step, Sound

(* ChangeRank of a member.                                                 *)
LEMMA ChangeRankSound ==
    ASSUME NEW d, NEW w, NEW O, Sound(d, w, O), NEW g \in DOMAIN w.store,
           NEW c \in DOMAIN w.store[g].members, NEW r \in RankId
    PROVE  LET v == ChangeRank(w, g, c, r)
           IN  /\ Sound(d, v, O) /\ Kept(d, w, v)
               /\ v.strayed = w.strayed /\ DOMAIN v.store = DOMAIN w.store
               /\ \A h \in DOMAIN w.store \ {g} : v.store[h] = w.store[h]
               /\ v.store[g].leader = w.store[g].leader
               /\ DOMAIN v.store[g].members = DOMAIN w.store[g].members
               /\ \A x \in DOMAIN w.store[g].members :
                    v.store[g].members[x] = IF x = c THEN r ELSE w.store[g].members[x]
<1> DEFINE G == w.store[g]
           H == [G EXCEPT !.members[c] = r]
           t == Place(w.store, g, H)
           e == Drained(d, w.pend)
           q == <<UpdRank(c, r)>>
           p == w.pend \o q
           f == Execute(e, UpdRank(c, r))
           v == ChangeRank(w, g, c, r)
<1>1. /\ w \in HubType /\ w.store \in Store /\ w.pend \in Seq(Statement) /\ e \in Rows
      /\ Fit(e, w.strayed)
  BY SoundIs
<1>2. /\ G \in GuildObject /\ DOMAIN G.members \subseteq Char
  BY <1>1, StoreIs
<1>3. c \in Char /\ q \in Seq(Statement)
  BY <1>2 DEF UpdRank, Statement
<1>4. /\ H \in GuildObject /\ H.leader = G.leader /\ H.ranks = G.ranks
      /\ DOMAIN H.members = DOMAIN G.members
      /\ \A x \in DOMAIN G.members : H.members[x] = IF x = c THEN r ELSE G.members[x]
  <2> DEFINE m == [G.members EXCEPT ![c] = r]
  <2>1. DOMAIN m \subseteq Char /\ m \in [DOMAIN m -> RankId] /\ DOMAIN m = DOMAIN G.members
        /\ \A x \in DOMAIN G.members : m[x] = IF x = c THEN r ELSE G.members[x]
    BY <1>2, GuildIs
  <2>2. H = [leader |-> G.leader, ranks |-> G.ranks, members |-> m]
    <3> HIDE DEF G
    <3>1. PICK l, R, M : G = [leader |-> l, ranks |-> R, members |-> M]
      BY <1>2, GuildIs
    <3> QED
      BY <3>1
  <2> HIDE DEF m
  <2>3. [leader |-> G.leader, ranks |-> G.ranks, members |-> m] \in GuildObject
    BY <1>2, <2>1, GuildIs, GuildOf
  <2> QED
    BY <2>1, <2>2, <2>3
<1>5. Form(v, t, w.inGuild, w.invited, w.storage, p, w.strayed)
  <2>1. Form(w, w.store, w.inGuild, w.invited, w.storage, w.pend, w.strayed)
    BY <1>1, HubForm
  <2>2. v = ExecAll(Edit(w, g, H), q)
    BY DEF ChangeRank, Exec
  <2> HIDE DEF H, v, q
  <2> QED
    BY <2>1, <2>2, ExecForm
<1> HIDE DEF H, v
<1>6. /\ t \in Store /\ DOMAIN t = DOMAIN w.store /\ t[g] = H
      /\ \A h \in DOMAIN w.store \ {g} : t[h] = w.store[h]
  BY <1>1, <1>4, PlaceIs
<1>7. /\ f \in Rows /\ f.ranks = e.ranks /\ f.guild = e.guild
      /\ DOMAIN f.member = DOMAIN e.member
      /\ \A x \in DOMAIN e.member :
           /\ f.member[x].guild = e.member[x].guild
           /\ f.member[x].rank = IF x = c THEN r ELSE e.member[x].rank
  BY <1>1, <1>3, ExecRank
<1>8. Safe(e, q, w.strayed) /\ Drained(e, q) = f
  BY <1>1, <1>3, FitRow, OneStatement
<1> HIDE DEF t, e, f, q, p
<1>9. /\ v \in HubType /\ v.store = t /\ v.inGuild = w.inGuild /\ v.storage = w.storage
      /\ v.pend = w.pend \o q /\ v.strayed = w.strayed
  <2>1. p \in Seq(Statement)
    BY <1>1, <1>3 DEF p
  <2>2. v.store = t /\ v.inGuild = w.inGuild /\ v.storage = w.storage
        /\ v.pend = p /\ v.strayed = w.strayed
    BY <1>5 DEF Form
  <2>3. v \in HubType
    BY <1>1, <1>5, <1>6, <2>1, HubIs DEF Form, HubType
  <2> QED
    BY <2>2, <2>3 DEF p
<1>10. Mirrors(f, t)
  BY <1>4, <1>6, <1>7 DEF Mirrors, Sound, e
<1>11. ASSUME NEW x \in Char \ w.strayed
       PROVE  At(f, v, O, x)
  <2>1. At(e, w, O, x)
    BY DEF Sound, e
  <2>2. Regrade(e, w, f, v, g, {c}, r)
    BY <1>4, <1>6, <1>7, <1>9 DEF Regrade
  <2> QED
    BY <1>1, <2>1, <2>2, Regraded
<1>12. Sound(d, v, O) /\ Drained(d, v.pend) = f
  <2>1. Step(d, w, O, v, q, f)
    BY <1>3, <1>8, <1>9, <1>10, <1>11 DEF Step, e
  <2> QED
    BY <2>1, Advanced
<1>13. Kept(d, w, v)
  BY <1>4, <1>6, <1>7, <1>9, <1>12 DEF Kept, e
<1> QED
  BY <1>4, <1>6, <1>9, <1>12, <1>13 DEF v

(* An order of some characters.                                            *)
LEMMA OrderIs ==
    ASSUME NEW C, C \subseteq Char
    PROVE  /\ SetToSeq(C) \in SetToSeqs(C)
           /\ \A o \in SetToSeqs(C) :
                o \in Seq(Char) /\ \A x : x \in C <=> \E i \in 1 .. Len(o) : o[i] = x
<1>1. IsFiniteSet(C)
  BY GuildsAssumption, FS_Subset
<1>2. SetToSeq(C) \in SetToSeqs(C)
  BY <1>1, Orders
<1>3. ASSUME NEW o \in SetToSeqs(C)
      PROVE  o \in Seq(Char) /\ \A x : x \in C <=> \E i \in 1 .. Len(o) : o[i] = x
  <2>1. o \in Seq(C) /\ \A x \in C : \E i \in 1 .. Len(o) : o[i] = x
    BY <1>1, Orders
  <2>2. o \in Seq(Char) /\ \A i \in 1 .. Len(o) : o[i] \in C
    BY <2>1
  <2> QED
    BY <2>1, <2>2
<1> QED
  BY <1>2, <1>3

\* In v the members C of g have the rank r.
Promoted(d, w, v, O, g, C, r) ==
    /\ Sound(d, v, O) /\ Kept(d, w, v)
    /\ v.strayed = w.strayed /\ DOMAIN v.store = DOMAIN w.store
    /\ \A h \in DOMAIN w.store \ {g} : v.store[h] = w.store[h]
    /\ v.store[g].leader = w.store[g].leader
    /\ DOMAIN v.store[g].members = DOMAIN w.store[g].members
    /\ \A x \in DOMAIN w.store[g].members :
         v.store[g].members[x] = IF x \in C THEN r ELSE w.store[g].members[x]

(* ChangeRanks of members.                                                 *)
LEMMA ChangeRanksSound ==
    ASSUME NEW d, NEW w, NEW O, Sound(d, w, O), NEW g \in DOMAIN w.store,
           NEW C, C \subseteq DOMAIN w.store[g].members, NEW r \in RankId
    PROVE  Promoted(d, w, ChangeRanks(w, g, C, r), O, g, C, r)
<1> DEFINE G == w.store[g]
           H == [G EXCEPT !.members = [c \in DOMAIN @ |-> IF c \in C THEN r ELSE @[c]]]
           t == Place(w.store, g, H)
           e == Drained(d, w.pend)
           o == SetToSeq(C)
           q == [i \in DOMAIN o |-> UpdRank(o[i], r)]
           p == w.pend \o q
           f == Drained(e, q)
           v == ChangeRanks(w, g, C, r)
<1>1. /\ w \in HubType /\ w.store \in Store /\ w.pend \in Seq(Statement) /\ e \in Rows
      /\ Fit(e, w.strayed)
  BY SoundIs
<1>2. /\ G \in GuildObject /\ DOMAIN G.members \subseteq Char
  BY <1>1, StoreIs
<1>3. o \in Seq(Char) /\ \A x : x \in C <=> \E i \in 1 .. Len(o) : o[i] = x
  <2>1. C \subseteq Char
    BY <1>2
  <2> QED
    BY <2>1, OrderIs
<1>4. /\ H \in GuildObject /\ H.leader = G.leader /\ H.ranks = G.ranks
      /\ DOMAIN H.members = DOMAIN G.members
      /\ \A x \in DOMAIN G.members : H.members[x] = IF x \in C THEN r ELSE G.members[x]
  <2> DEFINE m == [c \in DOMAIN G.members |-> IF c \in C THEN r ELSE G.members[c]]
  <2>1. DOMAIN m \subseteq Char /\ m \in [DOMAIN m -> RankId] /\ DOMAIN m = DOMAIN G.members
        /\ \A x \in DOMAIN G.members : m[x] = IF x \in C THEN r ELSE G.members[x]
    BY <1>2, GuildIs
  <2>2. H = [G EXCEPT !.members = m]
    OBVIOUS
  <2> HIDE DEF m, H
  <2>3. H = [leader |-> G.leader, ranks |-> G.ranks, members |-> m]
    <3> HIDE DEF G
    <3>1. PICK l, R, M : G = [leader |-> l, ranks |-> R, members |-> M]
      BY <1>2, GuildIs
    <3> QED
      BY <2>2, <3>1
  <2>4. [leader |-> G.leader, ranks |-> G.ranks, members |-> m] \in GuildObject
    BY <1>2, <2>1, GuildIs, GuildOf
  <2> QED
    BY <2>1, <2>3, <2>4
<1>5. Form(v, t, w.inGuild, w.invited, w.storage, p, w.strayed)
  <2>1. Form(w, w.store, w.inGuild, w.invited, w.storage, w.pend, w.strayed)
    BY <1>1, HubForm
  <2>2. v = ExecAll(Edit(w, g, H), q)
    BY Zenon DEF ChangeRanks
  <2> HIDE DEF H, v, q
  <2> QED
    BY <2>1, <2>2, ExecForm
<1> HIDE DEF H, v
<1>6. /\ t \in Store /\ DOMAIN t = DOMAIN w.store /\ t[g] = H
      /\ \A h \in DOMAIN w.store \ {g} : t[h] = w.store[h]
  BY <1>1, <1>4, PlaceIs
<1> HIDE DEF t, e, o
<1>7. /\ q \in Seq(Statement) /\ Safe(e, q, w.strayed)
      /\ f \in Rows /\ f.ranks = e.ranks /\ f.guild = e.guild
      /\ DOMAIN f.member = DOMAIN e.member
      /\ \A x \in DOMAIN e.member :
           /\ f.member[x].guild = e.member[x].guild
           /\ f.member[x].rank =
                IF \E i \in 1 .. Len(o) : o[i] = x THEN r ELSE e.member[x].rank
  BY <1>1, <1>3, BatchRank
<1>8. f = Drained(e, q)
  OBVIOUS
<1> HIDE DEF f, q, p
<1>9. /\ v \in HubType /\ v.store = t /\ v.inGuild = w.inGuild /\ v.storage = w.storage
      /\ v.pend = w.pend \o q /\ v.strayed = w.strayed
  <2>1. p \in Seq(Statement)
    BY <1>1, <1>7 DEF p
  <2>2. v.store = t /\ v.inGuild = w.inGuild /\ v.storage = w.storage
        /\ v.pend = p /\ v.strayed = w.strayed
    BY <1>5 DEF Form
  <2>3. v \in HubType
    BY <1>1, <1>5, <1>6, <2>1, HubIs DEF Form, HubType
  <2> QED
    BY <2>2, <2>3 DEF p
<1>10. Mirrors(f, t)
  BY <1>4, <1>6, <1>7 DEF Mirrors, Sound, e
<1>11. ASSUME NEW x \in Char \ w.strayed
       PROVE  At(f, v, O, x)
  <2>1. At(e, w, O, x)
    BY DEF Sound, e
  <2>2. Regrade(e, w, f, v, g, C, r)
    BY <1>3, <1>4, <1>6, <1>7, <1>9 DEF Regrade
  <2> QED
    BY <1>1, <2>1, <2>2, Regraded
<1>12. Sound(d, v, O) /\ Drained(d, v.pend) = f
  <2>1. Step(d, w, O, v, q, f)
    BY <1>7, <1>8, <1>9, <1>10, <1>11 DEF Step, e
  <2> QED
    BY <2>1, Advanced
<1>13. Kept(d, w, v)
  BY <1>4, <1>6, <1>7, <1>9, <1>12 DEF Kept, e
<1> QED
  BY <1>4, <1>6, <1>9, <1>12, <1>13 DEF v, Promoted

(* SetLeaderGUID of a member.                                              *)
LEMMA SetLeaderSound ==
    ASSUME NEW d, NEW w, NEW O, Sound(d, w, O), NEW g \in DOMAIN w.store,
           NEW c \in DOMAIN w.store[g].members
    PROVE  LET v == SetLeaderGUID(w, g, c)
           IN  /\ Sound(d, v, O) /\ Kept(d, w, v)
               /\ v.strayed = w.strayed /\ DOMAIN v.store = DOMAIN w.store
               /\ \A h \in DOMAIN w.store \ {g} : v.store[h] = w.store[h]
               /\ v.store[g].leader = c
               /\ DOMAIN v.store[g].members = DOMAIN w.store[g].members
               /\ \A x \in DOMAIN w.store[g].members :
                    v.store[g].members[x] = IF x = c THEN GuildMaster ELSE w.store[g].members[x]
<1> DEFINE G == w.store[g]
           L == [G EXCEPT !.leader = c]
           l == Edit(w, g, L)
           H == [l.store[g] EXCEPT !.members[c] = GuildMaster]
           t == Place(Place(w.store, g, L), g, H)
           u == ChangeRank(w, g, c, GuildMaster)
           e == Drained(d, u.pend)
           q == <<UpdLeader(g, c)>>
           f == Execute(e, UpdLeader(g, c))
           v == SetLeaderGUID(w, g, c)
<1>1. /\ w \in HubType /\ w.store \in Store /\ w.pend \in Seq(Statement)
  BY SoundIs
<1>2. /\ G \in GuildObject /\ DOMAIN G.members \subseteq Char /\ g \in Guild /\ c \in Char
      /\ GuildMaster \in RankId
  BY <1>1, StoreIs, GuildsAssumption DEF GuildMaster, RankId
<1>3. /\ Sound(d, u, O) /\ Kept(d, w, u) /\ u.strayed = w.strayed /\ DOMAIN u.store = DOMAIN w.store
      /\ \A h \in DOMAIN w.store \ {g} : u.store[h] = w.store[h]
      /\ u.store[g].leader = G.leader /\ DOMAIN u.store[g].members = DOMAIN G.members
      /\ \A x \in DOMAIN G.members :
           u.store[g].members[x] = IF x = c THEN GuildMaster ELSE G.members[x]
  BY <1>2, ChangeRankSound
<1>4. u \in HubType /\ u.store \in Store /\ e \in Rows /\ Fit(e, u.strayed)
  BY <1>3, SoundIs
<1>5. /\ L \in GuildObject /\ L.leader = c /\ L.ranks = G.ranks /\ L.members = G.members
  <2>1. L = [leader |-> c, ranks |-> G.ranks, members |-> G.members]
    <3> HIDE DEF G
    <3>1. PICK k, R, M : G = [leader |-> k, ranks |-> R, members |-> M]
      BY <1>2, GuildIs
    <3> QED
      BY <3>1
  <2>2. [leader |-> c, ranks |-> G.ranks, members |-> G.members] \in GuildObject
    BY <1>2, GuildIs, GuildOf
  <2> QED
    BY <2>1, <2>2
<1>6. Form(w, w.store, w.inGuild, w.invited, w.storage, w.pend, w.strayed)
  BY <1>1, HubForm
<1> HIDE DEF L
<1>7. /\ Form(l, Place(w.store, g, L), w.inGuild, w.invited, w.storage, w.pend, w.strayed)
  BY <1>6, ExecForm
<1>8. /\ Place(w.store, g, L) \in Store /\ DOMAIN Place(w.store, g, L) = DOMAIN w.store
      /\ Place(w.store, g, L)[g] = L
      /\ \A h \in DOMAIN w.store \ {g} : Place(w.store, g, L)[h] = w.store[h]
  BY <1>1, <1>5, PlaceIs
<1>9. l.store[g] = L
  BY <1>7, <1>8 DEF Form
<1>10. /\ H \in GuildObject /\ H.leader = c /\ H.ranks = G.ranks
       /\ DOMAIN H.members = DOMAIN G.members
       /\ \A x \in DOMAIN G.members : H.members[x] = IF x = c THEN GuildMaster ELSE G.members[x]
  <2> HIDE DEF l
  <2> DEFINE m == [G.members EXCEPT ![c] = GuildMaster]
  <2>1. DOMAIN m \subseteq Char /\ m \in [DOMAIN m -> RankId] /\ DOMAIN m = DOMAIN G.members
        /\ \A x \in DOMAIN G.members : m[x] = IF x = c THEN GuildMaster ELSE G.members[x]
    BY <1>2, GuildIs
  <2>2. H = [leader |-> c, ranks |-> G.ranks, members |-> m]
    <3> HIDE DEF G
    <3>1. PICK k, R, M : l.store[g] = [leader |-> k, ranks |-> R, members |-> M]
      BY <1>5, <1>9, GuildIs
    <3> QED
      BY <1>5, <1>9, <3>1
  <2> HIDE DEF m
  <2>3. [leader |-> c, ranks |-> G.ranks, members |-> m] \in GuildObject
    BY <1>2, <2>1, GuildIs, GuildOf
  <2> QED
    BY <2>1, <2>2, <2>3
<1>11. Form(v, t, w.inGuild, w.invited, w.storage,
            (w.pend \o <<UpdRank(c, GuildMaster)>>) \o q, w.strayed)
  <2>1. v = ExecAll(ExecAll(Edit(l, g, H), <<UpdRank(c, GuildMaster)>>), q)
    BY DEF SetLeaderGUID, Exec, ChangeRank, L
  <2> HIDE DEF H, l, v, q
  <2>2. Form(Edit(l, g, H), t, w.inGuild, w.invited, w.storage, w.pend, w.strayed)
    BY <1>7, ExecForm
  <2> HIDE DEF t
  <2>3. Form(ExecAll(Edit(l, g, H), <<UpdRank(c, GuildMaster)>>), t, w.inGuild, w.invited,
             w.storage, w.pend \o <<UpdRank(c, GuildMaster)>>, w.strayed)
    BY <2>2, ExecForm
  <2> QED
    BY <2>1, <2>3, ExecForm
<1>12. /\ u.pend = w.pend \o <<UpdRank(c, GuildMaster)>> /\ u.inGuild = w.inGuild
       /\ u.storage = w.storage
  <2> DEFINE K == [G EXCEPT !.members[c] = GuildMaster]
  <2>1. u = ExecAll(Edit(w, g, K), <<UpdRank(c, GuildMaster)>>)
    BY DEF Exec, ChangeRank
  <2> HIDE DEF K, u
  <2>2. Form(Edit(w, g, K), Place(w.store, g, K), w.inGuild, w.invited, w.storage, w.pend, w.strayed)
    BY <1>6, ExecForm
  <2>3. Form(u, Place(w.store, g, K), w.inGuild, w.invited, w.storage,
             w.pend \o <<UpdRank(c, GuildMaster)>>, w.strayed)
    BY <2>1, <2>2, ExecForm
  <2> QED
    BY <2>3 DEF Form
<1> HIDE DEF H, l, v
<1>13. /\ t \in Store /\ DOMAIN t = DOMAIN w.store /\ t[g] = H
       /\ \A h \in DOMAIN w.store \ {g} : t[h] = w.store[h]
  BY <1>8, <1>10, PlaceIs
<1> HIDE DEF t, u, e
<1>14. /\ f \in Rows /\ f.ranks = e.ranks /\ f.member = e.member /\ DOMAIN f.guild = DOMAIN e.guild
       /\ \A h \in DOMAIN e.guild : f.guild[h] = IF h = g THEN c ELSE e.guild[h]
  BY <1>2, <1>4, ExecLeader
<1>15. q \in Seq(Statement) /\ Safe(e, q, u.strayed) /\ f = Drained(e, q)
  <2>1. c \notin u.strayed => GuildRow(e, c) \in {g, None}
    <3> SUFFICES ASSUME c \notin u.strayed PROVE GuildRow(e, c) = g
      OBVIOUS
    <3>1. At(e, u, O, c)
      BY <1>2, <1>3 DEF Sound, e
    <3>2. g \in DOMAIN u.store /\ c \in DOMAIN u.store[g].members
      BY <1>3
    <3> QED
      BY <1>2, <1>4, <3>1, <3>2, MemberAt
  <2>2. Fit(f, u.strayed)
    BY <1>2, <1>4, <2>1, FitLeader
  <2>3. q \in Seq(Statement)
    BY <1>2 DEF UpdLeader, Statement
  <2> QED
    BY <1>4, <2>2, <2>3, OneStatement
<1> HIDE DEF f, q
<1>16. /\ v \in HubType /\ v.store = t /\ v.inGuild = u.inGuild /\ v.storage = u.storage
       /\ v.pend = u.pend \o q /\ v.strayed = u.strayed
  <2> DEFINE p == u.pend \o q
  <2>1. p \in Seq(Statement)
    BY <1>4, <1>15, HubIs
  <2>2. Form(v, t, w.inGuild, w.invited, w.storage, p, w.strayed)
    BY <1>11, <1>12
  <2> HIDE DEF p
  <2>3. v.store = t /\ v.inGuild = w.inGuild /\ v.storage = w.storage
        /\ v.pend = p /\ v.strayed = w.strayed
    BY <2>2 DEF Form
  <2>4. v \in HubType
    BY <1>1, <1>13, <2>1, <2>2, HubIs DEF Form, HubType
  <2> QED
    BY <1>3, <1>12, <2>3, <2>4 DEF p
<1>17. Mirrors(f, v.store)
  <2>1. Mirrors(e, u.store)
    BY <1>3 DEF Sound, e
  <2> QED
    BY <1>3, <1>10, <1>13, <1>14, <1>16, <2>1 DEF Mirrors
<1>18. ASSUME NEW x \in Char \ v.strayed
       PROVE  At(f, v, O, x)
  <2>1. At(e, u, O, x)
    BY <1>3, <1>16 DEF Sound, e
  <2>2. Regrade(e, u, f, v, g, {}, GuildMaster)
    BY <1>3, <1>10, <1>13, <1>14, <1>16 DEF Regrade
  <2>3. g \in DOMAIN u.store
    BY <1>3
  <2> QED
    BY <1>4, <2>1, <2>2, <2>3, Regraded
<1>19. Sound(d, v, O) /\ Drained(d, v.pend) = f
  <2>1. Step(d, u, O, v, q, f)
    BY <1>15, <1>16, <1>17, <1>18 DEF Step, e
  <2> QED
    BY <1>3, <2>1, Advanced
<1>20. Kept(d, w, v)
  BY <1>3, <1>10, <1>13, <1>14, <1>16, <1>19 DEF Kept, e
<1> QED
  BY <1>3, <1>10, <1>13, <1>16, <1>19, <1>20 DEF v

\* From tables e and hub w to f and v the characters C leave their guild.
Removal(e, w, f, v, C) ==
    /\ \A x \in Char \ C :
         /\ GuildsOf(v.store, x) = GuildsOf(w.store, x)
         /\ \A h \in GuildsOf(w.store, x) : v.store[h].members[x] = w.store[h].members[x]
    /\ \A x \in C \ w.strayed : GuildsOf(v.store, x) = {}
    /\ v.storage = [x \in Char |-> IF x \in C \cap Known THEN None ELSE w.storage[x]]
    /\ v.inGuild = [x \in Char |-> IF x \in C \cap found THEN None ELSE w.inGuild[x]]
    /\ v.strayed = w.strayed \cup (C \cap (online \ found)) \cup (C \ Known)
    /\ DOMAIN f.member = DOMAIN e.member \ C
    /\ \A x \in DOMAIN f.member : f.member[x] = e.member[x]

(* Characters who leave.                                                   *)
LEMMA Removed ==
    ASSUME NEW e \in Rows, NEW f, NEW w \in HubType, NEW v, NEW C,
           Removal(e, w, f, v, C), NEW c \in Char, c \notin v.strayed,
           At(e, w, online, c)
    PROVE  At(f, v, online, c)
<1>1. c \notin w.strayed /\ (c \in C \cap online => c \in found) /\ (c \in C => c \in Known)
  BY DEF Removal
<1>2. CASE c \in C
  <2>1. GuildsOf(v.store, c) = {} /\ v.storage[c] = None /\ (c \in online => v.inGuild[c] = None)
    BY <1>1, <1>2 DEF Removal
  <2>2. GuildRow(f, c) = None
    BY <1>2 DEF Removal, GuildRow
  <2> QED
    BY <2>1, <2>2 DEF At
<1>3. CASE c \notin C
  <2>1. GuildsOf(v.store, c) = GuildsOf(w.store, c) /\ v.storage[c] = w.storage[c]
        /\ v.inGuild[c] = w.inGuild[c]
        /\ \A h \in GuildsOf(w.store, c) : v.store[h].members[c] = w.store[h].members[c]
    BY <1>3 DEF Removal
  <2>2. /\ c \in DOMAIN f.member <=> c \in DOMAIN e.member
        /\ c \in DOMAIN e.member => f.member[c] = e.member[c]
    BY <1>3 DEF Removal
  <2>3. GuildRow(f, c) = GuildRow(e, c)
    BY <2>2 DEF GuildRow
  <2>4. ASSUME NEW h \in GuildsOf(w.store, c) PROVE c \in DOMAIN e.member
    <3>1. h \in DOMAIN w.store /\ c \in DOMAIN w.store[h].members
      BY <2>4 DEF GuildsOf
    <3> QED
      BY <3>1, MemberAt
  <2> QED
    BY <2>1, <2>2, <2>3, <2>4 DEF At
<1> QED
  BY <1>2, <1>3

(* Drop of a character who is in no other guild, or is known to stray.     *)
LEMMA DropSound ==
    ASSUME NEW d, NEW w, Sound(d, w, online), NEW g \in DOMAIN w.store, NEW c \in Char,
           c \notin w.strayed => GuildsOf(w.store, c) \subseteq {g}
    PROVE  LET v == Drop(w, g, c)
           IN  /\ Sound(d, v, online) /\ Kept(d, w, v)
               /\ DOMAIN v.store = DOMAIN w.store
               /\ w.strayed \subseteq v.strayed
               /\ \A h \in DOMAIN w.store \ {g} : v.store[h] = w.store[h]
               /\ v.store[g].leader = w.store[g].leader
               /\ DOMAIN v.store[g].members = DOMAIN w.store[g].members \ {c}
               /\ \A x \in DOMAIN v.store[g].members :
                    v.store[g].members[x] = w.store[g].members[x]
<1> DEFINE G == w.store[g]
           H == [G EXCEPT !.members = Without(@, c)]
           t == Place(w.store, g, H)
           e == Drained(d, w.pend)
           q == <<DelMember(c)>>
           p == w.pend \o q
           f == Execute(e, DelMember(c))
           C == {c}
           i == [x \in Char |-> IF x \in C \cap found THEN None ELSE w.inGuild[x]]
           z == [x \in Char |-> IF x \in C \cap Known THEN None ELSE w.storage[x]]
           X == w.strayed \cup (C \cap (online \ found)) \cup (C \ Known)
           v == Drop(w, g, c)
<1>1. /\ w \in HubType /\ w.store \in Store /\ w.pend \in Seq(Statement) /\ e \in Rows
      /\ Fit(e, w.strayed)
  BY SoundIs
<1>2. /\ G \in GuildObject /\ DOMAIN G.members \subseteq Char
  BY <1>1, StoreIs
<1>3. q \in Seq(Statement)
  BY DEF DelMember, Statement
<1>4. /\ H \in GuildObject /\ H.leader = G.leader /\ H.ranks = G.ranks
      /\ DOMAIN H.members = DOMAIN G.members \ {c}
      /\ \A x \in DOMAIN H.members : H.members[x] = G.members[x]
  <2> DEFINE m == Without(G.members, c)
  <2>1. DOMAIN m \subseteq Char /\ m \in [DOMAIN m -> RankId] /\ DOMAIN m = DOMAIN G.members \ {c}
        /\ \A x \in DOMAIN m : m[x] = G.members[x]
    BY <1>2, GuildIs DEF Without, Restrict
  <2>2. H = [G EXCEPT !.members = m]
    OBVIOUS
  <2> HIDE DEF m, H
  <2>3. H = [leader |-> G.leader, ranks |-> G.ranks, members |-> m]
    <3> HIDE DEF G
    <3>1. PICK l, R, M : G = [leader |-> l, ranks |-> R, members |-> M]
      BY <1>2, GuildIs
    <3> QED
      BY <2>2, <3>1
  <2>4. [leader |-> G.leader, ranks |-> G.ranks, members |-> m] \in GuildObject
    BY <1>2, <2>1, GuildIs, GuildOf
  <2> QED
    BY <2>1, <2>3, <2>4
<1>5. Form(v, t, i, w.invited, z, p, X)
  <2>1. Form(w, w.store, w.inGuild, w.invited, w.storage, w.pend, w.strayed)
    BY <1>1, HubForm
  <2>2. v = ExecAll(Tell(Edit(w, g, H), C, None), q)
    BY DEF Drop, Exec
  <2> HIDE DEF H, v, q, C
  <2>3. Form(Edit(w, g, H), t, w.inGuild, w.invited, w.storage, w.pend, w.strayed)
    BY <2>1, ExecForm
  <2>4. Form(Tell(Edit(w, g, H), C, None), t, i, w.invited, z, w.pend, X)
    BY <2>3, TellForm
  <2> QED
    BY <2>2, <2>4, ExecForm
<1> HIDE DEF H, v
<1>6. /\ t \in Store /\ DOMAIN t = DOMAIN w.store /\ t[g] = H
      /\ \A h \in DOMAIN w.store \ {g} : t[h] = w.store[h]
  BY <1>1, <1>4, PlaceIs
<1>7. /\ f \in Rows /\ f.ranks = e.ranks /\ f.guild = e.guild
      /\ DOMAIN f.member = DOMAIN e.member \ {c}
      /\ \A x \in DOMAIN f.member : f.member[x] = e.member[x]
  BY <1>1, ExecLeave
<1>8. Safe(e, q, X) /\ f = Drained(e, q) /\ w.strayed \subseteq X /\ X \subseteq Char
  <2>1. GuildMaster \in RankId
    BY GuildsAssumption DEF GuildMaster, RankId
  <2>2. Fit(f, w.strayed)
    BY <1>1, <2>1, FitRow
  <2>3. Safe(e, q, w.strayed) /\ f = Drained(e, q)
    BY <1>1, <2>2, OneStatement
  <2>4. w.strayed \subseteq X /\ X \subseteq Char
    BY <1>1, HubIs
  <2> QED
    BY <2>3, <2>4, SafeWider
<1> HIDE DEF t, e, f, q, p
<1>9. /\ v \in HubType /\ v.store = t /\ v.inGuild = i /\ v.storage = z
      /\ v.pend = w.pend \o q /\ v.strayed = X
  <2>1. p \in Seq(Statement)
    BY <1>1, <1>3 DEF p
  <2>2. i \in [Char -> Guild \cup {None}] /\ z \in [Char -> Guild \cup {None}]
    BY <1>1, HubIs
  <2> HIDE DEF i, z, X
  <2>3. v.store = t /\ v.inGuild = i /\ v.storage = z /\ v.pend = p /\ v.strayed = X
    BY <1>5 DEF Form
  <2>4. v \in HubType
    BY <1>1, <1>5, <1>6, <1>8, <2>1, <2>2, HubIs DEF Form, HubType
  <2> QED
    BY <2>3, <2>4 DEF p
<1>10. Mirrors(f, v.store)
  BY <1>4, <1>6, <1>7, <1>9 DEF Mirrors, Sound, e
<1>11. Removal(e, w, f, v, C)
  <2>1. ASSUME NEW x \in Char \ C
        PROVE  /\ GuildsOf(v.store, x) = GuildsOf(w.store, x)
               /\ \A h \in GuildsOf(w.store, x) : v.store[h].members[x] = w.store[h].members[x]
    <3>1. ASSUME NEW h \in DOMAIN w.store
          PROVE  /\ (x \in DOMAIN v.store[h].members) <=> (x \in DOMAIN w.store[h].members)
                 /\ x \in DOMAIN w.store[h].members =>
                      v.store[h].members[x] = w.store[h].members[x]
      <4> HIDE DEF i, z, X
      <4>1. v.store[h] = IF h = g THEN H ELSE w.store[h]
        BY <1>6, <1>9
      <4>2. CASE h = g
        BY <1>4, <4>1, <4>2
      <4>3. CASE h # g
        BY <4>1, <4>3
      <4> QED
        BY <4>2, <4>3
    <3>2. DOMAIN v.store = DOMAIN w.store
      BY <1>6, <1>9
    <3> HIDE DEF C, i, z, X
    <3> QED
      BY <3>1, <3>2 DEF GuildsOf
  <2>2. ASSUME NEW x \in C \ w.strayed
        PROVE  GuildsOf(v.store, x) = {}
    BY <1>4, <1>6, <1>9 DEF GuildsOf
  <2> QED
    BY <1>7, <1>9, <2>1, <2>2 DEF Removal
<1>12. ASSUME NEW x \in Char \ v.strayed
       PROVE  At(f, v, online, x)
  <2>1. At(e, w, online, x)
    BY <1>9 DEF Sound, e
  <2> QED
    BY <1>1, <1>11, <2>1, Removed
<1>13. Sound(d, v, online) /\ Drained(d, v.pend) = f
  <2>1. Step(d, w, online, v, q, f)
    BY <1>3, <1>8, <1>9, <1>10, <1>12 DEF Step, e
  <2> QED
    BY <2>1, Advanced
<1>14. Kept(d, w, v)
  BY <1>4, <1>6, <1>7, <1>9, <1>13 DEF Kept, e
<1> QED
  BY <1>4, <1>6, <1>8, <1>9, <1>13, <1>14 DEF v

(* Disband, in any order.                                                  *)
LEMMA DisbandSound ==
    ASSUME NEW d, NEW w, Sound(d, w, online), NEW g \in DOMAIN w.store,
           NEW o \in SetToSeqs(DOMAIN w.store[g].members)
    PROVE  LET v == Disband(w, g, o)
           IN  /\ Sound(d, v, online) /\ Kept(d, w, v)
               /\ w.strayed \subseteq v.strayed
               /\ DOMAIN v.store = DOMAIN w.store \ {g}
               /\ \A h \in DOMAIN v.store : v.store[h] = w.store[h]
<1> DEFINE C == DOMAIN w.store[g].members
           t == Without(w.store, g)
           e == Drained(d, w.pend)
           k == [j \in DOMAIN o |-> DelMember(o[j])]
           l == <<DelGuild(g)>>
           q == k \o l
           p == w.pend \o q
           b == Drained(e, k)
           f == Execute(b, DelGuild(g))
           i == [x \in Char |-> IF x \in C \cap found THEN None ELSE w.inGuild[x]]
           z == [x \in Char |-> IF x \in C \cap Known THEN None ELSE w.storage[x]]
           X == w.strayed \cup (C \cap (online \ found)) \cup (C \ Known)
           v == Disband(w, g, o)
<1>1. /\ w \in HubType /\ w.store \in Store /\ w.pend \in Seq(Statement) /\ e \in Rows
      /\ Fit(e, w.strayed)
  BY SoundIs
<1>2. C \subseteq Char /\ g \in Guild
  BY <1>1, StoreIs
<1>3. o \in Seq(Char) /\ \A x : x \in C <=> \E j \in 1 .. Len(o) : o[j] = x
  <2> HIDE DEF C
  <2>1. o \in SetToSeqs(C)
    BY DEF C
  <2> QED
    BY <1>2, <2>1, OrderIs
<1>4. /\ k \in Seq(Statement) /\ Safe(e, k, w.strayed)
      /\ b \in Rows /\ b.guild = e.guild /\ b.ranks = e.ranks
      /\ DOMAIN b.member = {x \in DOMAIN e.member : \A j \in 1 .. Len(o) : o[j] # x}
      /\ \A x \in DOMAIN b.member : b.member[x] = e.member[x]
  <2> HIDE DEF C, e
  <2> QED
    BY <1>1, <1>3, BatchLeave
<1> HIDE DEF k
<1>5. Fit(b, w.strayed) /\ l \in Seq(Statement) /\ k \in Seq(Statement)
  <2>1. Len(k) \in Nat
    BY <1>4
  <2>2. Fit(b, w.strayed)
    BY <1>4, <2>1, DrainedFit
  <2>3. l \in Seq(Statement)
    BY <1>2 DEF DelGuild, Statement
  <2> QED
    BY <1>4, <2>2, <2>3
<1>6. Fit(f, w.strayed)
  <2>1. GuildMaster \in RankId /\ Right \in Rights
    BY GuildsAssumption DEF GuildMaster, RankId, Rights
  <2> HIDE DEF b
  <2> QED
    BY <1>2, <1>5, <2>1, FitGuild
<1>7. Safe(b, l, w.strayed) /\ f = Drained(b, l)
  <2> HIDE DEF b
  <2> QED
    BY <1>5, <1>6, OneStatement
<1>8. q \in Seq(Statement) /\ Safe(e, q, w.strayed) /\ f = Drained(e, q)
  <2> HIDE DEF l, f, e
  <2>1. q \in Seq(Statement)
    BY <1>5
  <2>2. Drained(e, k \o l) = Drained(b, l) /\ Safe(e, k \o l, w.strayed)
    BY <1>4, <1>5, <1>7, Continued
  <2> QED
    BY <1>7, <2>1, <2>2
<1>9. Safe(e, q, X) /\ w.strayed \subseteq X /\ X \subseteq Char
  <2>1. w.strayed \subseteq X /\ X \subseteq Char
    BY <1>1, <1>2, HubIs
  <2> HIDE DEF X, e, q
  <2> QED
    BY <1>8, <2>1, SafeWider
<1>10. /\ f \in Rows /\ f.member = b.member /\ DOMAIN f.guild = DOMAIN b.guild \ {g}
       /\ \A h \in DOMAIN f.guild : f.guild[h] = b.guild[h]
       /\ \A h \in Guild \ {g} : f.ranks[h] = b.ranks[h]
  <2> HIDE DEF b
  <2> QED
    BY <1>2, <1>4, ExecDisband
<1>11. DOMAIN f.member = DOMAIN e.member \ C /\ \A x \in DOMAIN f.member : f.member[x] = e.member[x]
  <2> HIDE DEF C, f, b, e
  <2> QED
    BY <1>3, <1>4, <1>10
<1>12. Form(v, t, i, w.invited, z, p, X)
  <2> DEFINE u == Tell(w, C, None)
             s == [u EXCEPT !.store = t]
  <2>1. Form(w, w.store, w.inGuild, w.invited, w.storage, w.pend, w.strayed)
    BY <1>1, HubForm
  <2> HIDE DEF C
  <2>2. Form(u, w.store, i, w.invited, z, w.pend, X)
    BY <2>1, TellForm
  <2>3. u.store = w.store
    BY <2>2 DEF Form
  <2>4. v = ExecAll([u EXCEPT !.store = Without(@, g)], q)
    BY DEF Disband, C, k
  <2> HIDE DEF u, i, z, X, t
  <2>5. [u EXCEPT !.store = Without(@, g)] = s
    BY <2>3 DEF t
  <2>6. Form(s, t, i, w.invited, z, w.pend, X)
    BY <2>2, PutForm
  <2> HIDE DEF s, v, q
  <2> QED
    BY <2>4, <2>5, <2>6, ExecForm
<1>13. /\ t \in Store /\ DOMAIN t = DOMAIN w.store \ {g} /\ \A h \in DOMAIN t : t[h] = w.store[h]
  <2>1. /\ DOMAIN t = DOMAIN w.store \ {g} /\ \A h \in DOMAIN t : t[h] = w.store[h]
        /\ DOMAIN t \subseteq Guild /\ t \in [DOMAIN t -> GuildObject]
    BY <1>1, StoreIs DEF Without, Restrict
  <2> HIDE DEF t
  <2>2. t \in Store
    BY <2>1, PartialIs DEF Store
  <2> QED
    BY <2>1, <2>2
<1> HIDE DEF t, e, f, q, p, v
<1>14. /\ v \in HubType /\ v.store = t /\ v.inGuild = i /\ v.storage = z
       /\ v.pend = w.pend \o q /\ v.strayed = X
  <2>1. p \in Seq(Statement)
    BY <1>1, <1>8 DEF p
  <2>2. i \in [Char -> Guild \cup {None}] /\ z \in [Char -> Guild \cup {None}]
    BY <1>1, HubIs
  <2> HIDE DEF i, z, X
  <2>3. v.store = t /\ v.inGuild = i /\ v.storage = z /\ v.pend = p /\ v.strayed = X
    BY <1>12 DEF Form
  <2>4. v \in HubType
    BY <1>1, <1>12, <1>13, <1>9, <2>1, <2>2, HubIs DEF Form, HubType
  <2> QED
    BY <2>3, <2>4 DEF p
<1>15. Mirrors(f, v.store)
  <2>1. Mirrors(e, w.store)
    BY DEF Sound, e
  <2> QED
    BY <1>4, <1>10, <1>13, <1>14, <2>1 DEF Mirrors
<1>16. Removal(e, w, f, v, C)
  <2>1. ASSUME NEW x \in Char \ C
        PROVE  /\ GuildsOf(v.store, x) = GuildsOf(w.store, x)
               /\ \A h \in GuildsOf(w.store, x) : v.store[h].members[x] = w.store[h].members[x]
    BY <1>13, <1>14 DEF GuildsOf
  <2>2. ASSUME NEW x \in C \ w.strayed
        PROVE  GuildsOf(v.store, x) = {}
    <3>1. At(e, w, online, x)
      BY <1>2 DEF Sound, e
    <3>2. GuildsOf(w.store, x) = {g}
      <4>1. e \in Rows /\ w \in HubType /\ g \in DOMAIN w.store /\ x \in Char
            /\ x \in DOMAIN w.store[g].members
        BY <1>1, <1>2
      <4> QED
        BY <3>1, <4>1, MemberAt
    <3> QED
      BY <1>13, <1>14, <3>2 DEF GuildsOf
  <2> HIDE DEF C
  <2> QED
    BY <1>11, <1>14, <2>1, <2>2 DEF Removal
<1>17. ASSUME NEW x \in Char \ v.strayed
       PROVE  At(f, v, online, x)
  <2>1. At(e, w, online, x)
    BY <1>14 DEF Sound, e
  <2> HIDE DEF C
  <2> QED
    BY <1>1, <1>16, <2>1, Removed
<1>18. Sound(d, v, online) /\ Drained(d, v.pend) = f
  <2>1. Step(d, w, online, v, q, f)
    BY <1>8, <1>9, <1>14, <1>15, <1>17 DEF Step, e
  <2> QED
    BY <2>1, Advanced
<1>19. Kept(d, w, v)
  <2>1. DOMAIN t \subseteq Guild \ {g}
    BY <1>1, <1>13, StoreIs
  <2> QED
    BY <1>4, <1>10, <1>13, <1>14, <1>18, <2>1 DEF Kept, e
<1> QED
  BY <1>9, <1>13, <1>14, <1>18, <1>19 DEF v

(* AddMember of a character who has no guild.                              *)
LEMMA AddMemberSound ==
    ASSUME NEW d, NEW w, Sound(d, w, online), found \subseteq online,
           NEW g \in DOMAIN w.store, NEW c \in Char,
           Len(w.store[g].ranks) \in MinRanks .. MaxRanks,
           \A h \in DOMAIN w.store : w.store[h].leader \in DOMAIN w.store[h].members,
           (IF c \in found THEN w.inGuild[c] ELSE w.storage[c]) = None
    PROVE  LET v == AddMember(w, g, c)
           IN  /\ Sound(d, v, online) /\ Kept(d, w, v)
               /\ DOMAIN v.store = DOMAIN w.store
               /\ w.strayed \subseteq v.strayed
               /\ \A h \in DOMAIN w.store \ {g} : v.store[h] = w.store[h]
               /\ v.store[g].leader = w.store[g].leader
               /\ DOMAIN v.store[g].members = DOMAIN w.store[g].members \cup {c}
               /\ \A x \in DOMAIN v.store[g].members :
                    v.store[g].members[x] = IF x = c THEN LowestRank(w.store[g])
                                                     ELSE w.store[g].members[x]
<1> DEFINE G == w.store[g]
           r == LowestRank(G)
           H == [G EXCEPT !.members = With(@, c, r)]
           t == Place(w.store, g, H)
           e == Drained(d, w.pend)
           q == <<InsMember(g, c, r)>>
           p == w.pend \o q
           f == Execute(e, InsMember(g, c, r))
           C == {c}
           i == [x \in Char |-> IF x \in C \cap found THEN g ELSE w.inGuild[x]]
           y == [w.invited EXCEPT ![c] = IF c \in found THEN None ELSE @]
           z == [x \in Char |-> IF x \in C \cap Known THEN g ELSE w.storage[x]]
           X == w.strayed \cup (C \cap (online \ found)) \cup (C \ Known)
           v == AddMember(w, g, c)
<1>1. /\ w \in HubType /\ w.store \in Store /\ w.pend \in Seq(Statement) /\ e \in Rows
      /\ Fit(e, w.strayed)
  BY SoundIs
<1>2. /\ G \in GuildObject /\ DOMAIN G.members \subseteq Char /\ g \in Guild /\ g # None
  BY <1>1, StoreIs, GuildsAssumption DEF None
<1>3. r \in RankId /\ q \in Seq(Statement)
  <2>1. r \in RankId
    BY GuildsAssumption DEF LowestRank, RankId
  <2> HIDE DEF r
  <2> QED
    BY <1>2, <2>1 DEF InsMember, Statement
<1> HIDE DEF r
<1>4. /\ H \in GuildObject /\ H.leader = G.leader /\ H.ranks = G.ranks
      /\ DOMAIN H.members = DOMAIN G.members \cup {c}
      /\ \A x \in DOMAIN H.members : H.members[x] = IF x = c THEN r ELSE G.members[x]
  <2> DEFINE m == With(G.members, c, r)
  <2>1. DOMAIN m \subseteq Char /\ m \in [DOMAIN m -> RankId] /\ DOMAIN m = DOMAIN G.members \cup {c}
        /\ \A x \in DOMAIN m : m[x] = IF x = c THEN r ELSE G.members[x]
    BY <1>2, <1>3, GuildIs DEF With
  <2>2. H = [G EXCEPT !.members = m]
    OBVIOUS
  <2> HIDE DEF m, H
  <2>3. H = [leader |-> G.leader, ranks |-> G.ranks, members |-> m]
    <3> HIDE DEF G
    <3>1. PICK l, R, M : G = [leader |-> l, ranks |-> R, members |-> M]
      BY <1>2, GuildIs
    <3> QED
      BY <2>2, <3>1
  <2>4. [leader |-> G.leader, ranks |-> G.ranks, members |-> m] \in GuildObject
    BY <1>2, <2>1, GuildIs, GuildOf
  <2> QED
    BY <2>1, <2>3, <2>4
<1>5. Form(v, t, i, y, z, p, X)
  <2> DEFINE k == Edit(w, g, H)
             u == [k EXCEPT !.invited[c] = IF c \in found THEN None ELSE @]
  <2>1. Form(w, w.store, w.inGuild, w.invited, w.storage, w.pend, w.strayed)
    BY <1>1, HubForm
  <2>2. v = ExecAll(Tell(u, C, g), q)
    BY DEF AddMember, Exec, r
  <2> HIDE DEF H, v, q, C
  <2>3. Form(k, t, w.inGuild, w.invited, w.storage, w.pend, w.strayed)
    BY <2>1, ExecForm
  <2> HIDE DEF k
  <2>4. u = [k EXCEPT !.invited = y]
    BY <2>3 DEF Form
  <2> HIDE DEF u, y
  <2>5. Form([k EXCEPT !.invited = y], t, w.inGuild, y, w.storage, w.pend, w.strayed)
    BY <2>3, PutForm
  <2>6. Form(Tell(u, C, g), t, i, y, z, w.pend, X)
    BY <2>4, <2>5, TellForm
  <2> QED
    BY <2>2, <2>6, ExecForm
<1> HIDE DEF H, v
<1>6. /\ t \in Store /\ DOMAIN t = DOMAIN w.store /\ t[g] = H
      /\ \A h \in DOMAIN w.store \ {g} : t[h] = w.store[h]
  BY <1>1, <1>4, PlaceIs
<1>7. /\ f \in Rows /\ f.ranks = e.ranks /\ f.guild = e.guild
      /\ DOMAIN f.member = DOMAIN e.member \cup {c}
      /\ \A x \in DOMAIN e.member : f.member[x] = e.member[x]
      /\ c \notin DOMAIN e.member => f.member[c].guild = g /\ f.member[c].rank = r
  BY <1>1, <1>2, <1>3, ExecJoin
<1>8. w.strayed \subseteq X /\ X \subseteq Char
  BY <1>1, HubIs
<1>9. ASSUME c \notin X
      PROVE  /\ At(e, w, online, c) /\ w.storage[c] = None /\ GuildsOf(w.store, c) = {}
             /\ c \notin DOMAIN e.member /\ (c \in online => c \in found) /\ c \in Known
  <2>1. At(e, w, online, c) /\ (c \in online => c \in found) /\ c \in Known
    BY <1>8, <1>9 DEF Sound
  <2>2. w.storage[c] = None
    BY <2>1 DEF At
  <2>3. GuildsOf(w.store, c) = {} /\ GuildRow(e, c) = None
    BY <2>1, <2>2 DEF At
  <2>4. c \notin DOMAIN e.member
    BY <1>1, <2>3, RowsIs, GuildsAssumption DEF GuildRow, None
  <2> QED
    BY <2>1, <2>2, <2>3, <2>4
<1>10. Safe(e, q, X) /\ f = Drained(e, q)
  <2>1. Fit(e, X)
    BY <1>1, <1>8 DEF Fit
  <2>2. ASSUME c \notin X, NEW h \in DOMAIN e.guild, e.guild[h] = c
        PROVE  h = g
    <3>1. h \in DOMAIN w.store /\ w.store[h].leader = c
      BY <2>2 DEF Sound, Mirrors
    <3>2. h \in GuildsOf(w.store, c)
      BY <3>1 DEF GuildsOf
    <3> QED
      BY <1>9, <2>2, <3>2
  <2> HIDE DEF X, e
  <2>3. Fit(f, X)
    BY <1>2, <1>3, <2>1, <2>2, FitJoin
  <2> QED
    BY <2>1, <2>3, OneStatement
<1> HIDE DEF t, e, f, q, p
<1>11. /\ v \in HubType /\ v.store = t /\ v.inGuild = i /\ v.storage = z
       /\ v.pend = w.pend \o q /\ v.strayed = X
  <2>1. p \in Seq(Statement)
    BY <1>1, <1>3 DEF p
  <2>2. /\ i \in [Char -> Guild \cup {None}] /\ z \in [Char -> Guild \cup {None}]
        /\ y \in [Char -> Nat]
    BY <1>1, <1>2, HubIs DEF None
  <2> HIDE DEF i, z, X, y
  <2>3. v.store = t /\ v.inGuild = i /\ v.storage = z /\ v.pend = p /\ v.strayed = X
    BY <1>5 DEF Form
  <2>4. v \in HubType
    BY <1>1, <1>5, <1>6, <1>8, <2>1, <2>2, HubIs DEF Form, HubType
  <2> QED
    BY <2>3, <2>4 DEF p
<1>12. Mirrors(f, v.store)
  BY <1>4, <1>6, <1>7, <1>11 DEF Mirrors, Sound, e
<1>13. ASSUME NEW x \in Char \ X
       PROVE  At(f, v, online, x)
  <2>1. CASE x = c
    <3>1. /\ GuildsOf(w.store, c) = {} /\ c \notin DOMAIN e.member /\ (c \in online => c \in found) /\ c \in Known
      BY <1>9, <1>13, <2>1
    <3>2. GuildsOf(v.store, c) = {g}
      BY <1>4, <1>6, <1>11, <3>1 DEF GuildsOf
    <3>3. v.storage[c] = g /\ (c \in online => v.inGuild[c] = g)
      BY <1>11, <3>1
    <3>4. GuildRow(f, c) = g /\ f.member[c].rank = r
      BY <1>7, <3>1 DEF GuildRow
    <3>5. v.store[g].members[c] = r
      BY <1>4, <1>6, <1>11
    <3> QED
      BY <1>2, <2>1, <3>2, <3>3, <3>4, <3>5 DEF At
  <2>2. CASE x # c
    <3>1. At(e, w, online, x)
      BY <1>8, <1>13 DEF Sound, e
    <3>2. /\ GuildsOf(v.store, x) = GuildsOf(w.store, x)
          /\ \A h \in GuildsOf(w.store, x) : v.store[h].members[x] = w.store[h].members[x]
      BY <1>4, <1>6, <1>11, <2>2 DEF GuildsOf
    <3>3. v.storage[x] = w.storage[x] /\ v.inGuild[x] = w.inGuild[x]
      BY <1>11, <2>2
    <3>4. /\ x \in DOMAIN f.member <=> x \in DOMAIN e.member
          /\ x \in DOMAIN e.member => f.member[x] = e.member[x]
      BY <1>7, <2>2
    <3>5. GuildRow(f, x) = GuildRow(e, x)
      BY <3>4 DEF GuildRow
    <3>6. ASSUME NEW h \in GuildsOf(w.store, x) PROVE x \in DOMAIN e.member
      <4>1. h \in DOMAIN w.store /\ x \in DOMAIN w.store[h].members
        BY <3>6 DEF GuildsOf
      <4> QED
        BY <1>1, <3>1, <4>1, MemberAt
    <3> QED
      BY <3>1, <3>2, <3>3, <3>4, <3>5, <3>6 DEF At
  <2> QED
    BY <2>1, <2>2
<1>14. Sound(d, v, online) /\ Drained(d, v.pend) = f
  <2>1. Step(d, w, online, v, q, f)
    BY <1>3, <1>8, <1>10, <1>11, <1>12, <1>13 DEF Step, e
  <2> QED
    BY <2>1, Advanced
<1>15. Kept(d, w, v)
  BY <1>4, <1>6, <1>7, <1>11, <1>14 DEF Kept, e
<1> QED
  BY <1>4, <1>6, <1>8, <1>11, <1>14, <1>15 DEF v, r

\* The statements q for the guild object H of g make f of the tables e: they
\* change the guild's ranks only.
Reform(e, w, g, H, q, f) ==
    /\ H \in GuildObject /\ H.leader = w.store[g].leader /\ H.members = w.store[g].members
    /\ q \in Seq(Statement) /\ Safe(e, q, w.strayed) /\ Drained(e, q) = f
    /\ f.guild = e.guild /\ f.member = e.member
    /\ \A h \in Guild \ {g} : f.ranks[h] = e.ranks[h]

\* The hub v has the guild object H, and the tables will be f.
Reformed(d, w, O, g, H, f, v) ==
    /\ Sound(d, v, O) /\ Drained(d, v.pend) = f
    /\ v.strayed = w.strayed /\ DOMAIN v.store = DOMAIN w.store
    /\ v.store[g] = H /\ \A h \in DOMAIN w.store \ {g} : v.store[h] = w.store[h]

(* Other ranks of a guild.                                                 *)
LEMMA RanksSound ==
    ASSUME NEW d, NEW w, NEW O, Sound(d, w, O), NEW g \in DOMAIN w.store, NEW H, NEW q, NEW f,
           Reform(Drained(d, w.pend), w, g, H, q, f)
    PROVE  Reformed(d, w, O, g, H, f, ExecAll(Edit(w, g, H), q))
<1> DEFINE t == Place(w.store, g, H)
           e == Drained(d, w.pend)
           p == w.pend \o q
           v == ExecAll(Edit(w, g, H), q)
<1>1. /\ w \in HubType /\ w.store \in Store /\ w.pend \in Seq(Statement) /\ e \in Rows
  BY SoundIs
<1>2. /\ H \in GuildObject /\ H.leader = w.store[g].leader /\ H.members = w.store[g].members
      /\ q \in Seq(Statement) /\ Safe(e, q, w.strayed) /\ Drained(e, q) = f
      /\ f.guild = e.guild /\ f.member = e.member
  BY DEF Reform
<1>3. Form(v, t, w.inGuild, w.invited, w.storage, p, w.strayed)
  <2>1. Form(w, w.store, w.inGuild, w.invited, w.storage, w.pend, w.strayed)
    BY <1>1, HubForm
  <2> QED
    BY <2>1, ExecForm
<1> HIDE DEF v
<1>4. /\ t \in Store /\ DOMAIN t = DOMAIN w.store /\ t[g] = H
      /\ \A h \in DOMAIN w.store \ {g} : t[h] = w.store[h]
  BY <1>1, <1>2, PlaceIs
<1> HIDE DEF t, e, p
<1>5. /\ v \in HubType /\ v.store = t /\ v.inGuild = w.inGuild /\ v.storage = w.storage
      /\ v.pend = w.pend \o q /\ v.strayed = w.strayed
  <2>1. p \in Seq(Statement)
    BY <1>1, <1>2 DEF p
  <2>2. v.store = t /\ v.inGuild = w.inGuild /\ v.storage = w.storage
        /\ v.pend = p /\ v.strayed = w.strayed
    BY <1>3 DEF Form
  <2>3. v \in HubType
    BY <1>1, <1>3, <1>4, <2>1, HubIs DEF Form, HubType
  <2> QED
    BY <2>2, <2>3 DEF p
<1>6. Mirrors(f, t)
  BY <1>2, <1>4 DEF Mirrors, Sound, e
<1>7. ASSUME NEW x \in Char \ w.strayed
      PROVE  At(f, v, O, x)
  <2>1. At(e, w, O, x)
    BY DEF Sound, e
  <2>2. GuildsOf(v.store, x) = GuildsOf(w.store, x)
    BY <1>2, <1>4, <1>5 DEF GuildsOf
  <2>3. GuildRow(f, x) = GuildRow(e, x)
    BY <1>2 DEF GuildRow
  <2>4. \A h \in GuildsOf(w.store, x) : v.store[h].members[x] = w.store[h].members[x]
    BY <1>2, <1>4, <1>5 DEF GuildsOf
  <2> QED
    BY <1>2, <1>5, <2>1, <2>2, <2>3, <2>4 DEF At
<1>8. Sound(d, v, O) /\ Drained(d, v.pend) = f
  <2>1. Step(d, w, O, v, q, f)
    BY <1>2, <1>5, <1>6, <1>7 DEF Step, e
  <2> QED
    BY <2>1, Advanced
<1> QED
  BY <1>4, <1>5, <1>8 DEF v, Reformed

-----------------------------------------------------------------------------
(* The guilds of a hub that is up.                                         *)

\* The rows f are those of the ranks R, with the rights that a restart gives them.
Written(f, R) ==
    /\ DOMAIN f = 0 .. Len(R) - 1
    /\ \A r \in 0 .. Len(R) - 1 : R[r + 1] = RightsIn(f, r)

\* The ranks of the guild h are in the tables e, and not too few or too many.
Ranked(e, G, h) ==
    /\ Len(G.ranks) \in MinRanks .. MaxRanks
    /\ \A c \in DOMAIN G.members : G.members[c] =< MaxRanks
    /\ Written(e.ranks[h], G.ranks)

Led(G) ==
    /\ G.leader \in DOMAIN G.members
    /\ \A c \in DOMAIN G.members : G.members[c] = GuildMaster => c = G.leader

Good(d, w) ==
    /\ Sound(d, w, online)
    /\ \A h \in DOMAIN w.store : Ranked(Drained(d, w.pend), w.store[h], h) /\ Led(w.store[h])

(* An operation on one guild that leaves its ranks alone.                  *)
LEMMA GoodKept ==
    ASSUME NEW d, NEW w, Good(d, w), NEW v, Sound(d, v, online), Kept(d, w, v), NEW g,
           \A h \in DOMAIN v.store \ {g} : v.store[h] = w.store[h],
           g \in DOMAIN v.store => /\ Led(v.store[g])
                                   /\ \A c \in DOMAIN v.store[g].members :
                                        v.store[g].members[c] =< MaxRanks
    PROVE  Good(d, v)
<1> SUFFICES ASSUME NEW h \in DOMAIN v.store
             PROVE  Ranked(Drained(d, v.pend), v.store[h], h) /\ Led(v.store[h])
  BY DEF Good
<1>1. /\ h \in DOMAIN w.store /\ v.store[h].ranks = w.store[h].ranks
      /\ Drained(d, v.pend).ranks[h] = Drained(d, w.pend).ranks[h]
  BY DEF Kept
<1>2. Ranked(Drained(d, w.pend), w.store[h], h) /\ Led(w.store[h])
  BY <1>1 DEF Good
<1>3. LowestRank(v.store[h]) = LowestRank(w.store[h])
  BY <1>1 DEF LowestRank
<1>4. CASE h = g
  BY <1>1, <1>2, <1>3, <1>4 DEF Ranked
<1>5. CASE h # g
  BY <1>1, <1>2, <1>5 DEF Ranked
<1> QED
  BY <1>4, <1>5

(* An operation on the ranks of one guild.                                 *)
LEMMA GoodRanks ==
    ASSUME NEW d, NEW w, Good(d, w), NEW g \in DOMAIN w.store, NEW H, NEW q, NEW f,
           Reform(Drained(d, w.pend), w, g, H, q, f), Ranked(f, H, g)
    PROVE  Good(d, ExecAll(Edit(w, g, H), q))
<1> DEFINE v == ExecAll(Edit(w, g, H), q)
           e == Drained(d, w.pend)
<1>1. Sound(d, w, online)
  BY DEF Good
<1>2. Reformed(d, w, online, g, H, f, v)
  BY <1>1, RanksSound
<1> HIDE DEF v
<1>4. /\ Sound(d, v, online) /\ Drained(d, v.pend) = f /\ DOMAIN v.store = DOMAIN w.store
      /\ v.store[g] = H /\ \A h \in DOMAIN w.store \ {g} : v.store[h] = w.store[h]
  BY <1>2 DEF Reformed
<1>3. ASSUME NEW h \in DOMAIN w.store
      PROVE  Ranked(f, v.store[h], h) /\ Led(v.store[h])
  <2>1. h \in Guild /\ Ranked(e, w.store[h], h) /\ Led(w.store[h])
    BY <1>1, SoundIs, StoreIs DEF Good
  <2>2. CASE h = g
    BY <1>4, <2>1, <2>2 DEF Led, Reform
  <2>3. CASE h # g
    BY <1>4, <2>1, <2>3 DEF Ranked, Reform
  <2> QED
    BY <2>2, <2>3
<1> QED
  BY <1>3, <1>4 DEF Good, v

\* A guild object with other ranks.
Reranked(G, R) == [G EXCEPT !.ranks = R]

(* Only the ranks are others.                                              *)
LEMMA RerankedIs ==
    ASSUME NEW G \in GuildObject, NEW R \in Seq(Rights)
    PROVE  /\ Reranked(G, R) \in GuildObject /\ Reranked(G, R).leader = G.leader
           /\ Reranked(G, R).members = G.members /\ Reranked(G, R).ranks = R
<1> DEFINE H == Reranked(G, R)
<1>1. PICK l, N, M : G = [leader |-> l, ranks |-> N, members |-> M]
  BY GuildIs
<1>2. H = [leader |-> G.leader, ranks |-> R, members |-> G.members]
  BY <1>1 DEF Reranked
<1>3. [leader |-> G.leader, ranks |-> R, members |-> G.members] \in GuildObject
  BY GuildIs, GuildOf
<1> HIDE DEF H
<1> QED
  BY <1>2, <1>3 DEF H

(* One statement for the ranks of a guild.                                 *)
LEMMA GoodRerank ==
    ASSUME NEW d, NEW w, Good(d, w), NEW g \in DOMAIN w.store, NEW R \in Seq(Rights),
           Len(R) \in MinRanks .. MaxRanks, NEW s \in Statement,
           \A e \in Rows : \A X : Fit(e, X) => Fit(Execute(e, s), X),
           \A e \in Rows : LET f == Execute(e, s)
                           IN  /\ f.guild = e.guild /\ f.member = e.member
                               /\ \A h \in Guild \ {g} : f.ranks[h] = e.ranks[h],
           \A e \in Rows : Ranked(e, w.store[g], g) =>
               Written(Execute(e, s).ranks[g], R)
    PROVE  Good(d, ExecAll(Edit(w, g, Reranked(w.store[g], R)), <<s>>))
<1> DEFINE G == w.store[g]
           H == Reranked(G, R)
           e == Drained(d, w.pend)
           f == Execute(e, s)
           q == <<s>>
<1>1. /\ w \in HubType /\ w.store \in Store /\ e \in Rows /\ Fit(e, w.strayed)
  BY SoundIs DEF Good
<1>2. G \in GuildObject /\ Ranked(e, G, g)
  BY <1>1, StoreIs DEF Good
<1>3. H \in GuildObject /\ H.leader = G.leader /\ H.members = G.members /\ H.ranks = R
  BY <1>2, RerankedIs
<1>4. /\ f.guild = e.guild /\ f.member = e.member /\ Fit(f, w.strayed)
      /\ \A h \in Guild \ {g} : f.ranks[h] = e.ranks[h]
      /\ Written(f.ranks[g], R)
  BY <1>1, <1>2
<1>5. Safe(e, q, w.strayed) /\ Drained(e, q) = f
  BY <1>1, <1>4, OneStatement
<1>6. q \in Seq(Statement)
  OBVIOUS
<1> HIDE DEF H, q, f, e
<1>7. Reform(e, w, g, H, q, f)
  BY <1>3, <1>4, <1>5, <1>6 DEF Reform
<1>8. Ranked(f, H, g)
  BY <1>2, <1>3, <1>4 DEF Ranked, LowestRank
<1>9. Good(d, ExecAll(Edit(w, g, H), q))
  BY <1>7, <1>8, GoodRanks DEF e
<1> QED
  BY <1>9 DEF H, q

(* Append leaves the elements that are there.                              *)
LEMMA AppendIs ==
    ASSUME NEW T, NEW p \in Seq(T), NEW x \in T
    PROVE  \A i \in 1 .. Len(p) : Append(p, x)[i] = p[i]
  OBVIOUS

(* HandleAddNewRank.                                                       *)
LEMMA AddRankGood ==
    ASSUME NEW d, NEW w, Good(d, w), NEW g \in DOMAIN w.store,
           Len(w.store[g].ranks) < MaxRanks
    PROVE  Good(d, Exec(Edit(w, g, [w.store[g] EXCEPT !.ranks = Append(@, NewRights)]),
                        InsRank(g, Len(w.store[g].ranks), NewRights)))
<1> DEFINE G == w.store[g]
           n == Len(G.ranks)
           R == Append(G.ranks, NewRights)
           s == InsRank(g, n, NewRights)
<1>1. G \in GuildObject /\ G.ranks \in Seq(Rights) /\ g \in Guild /\ n \in MinRanks .. MaxRanks
  BY SoundIs, StoreIs DEF Good, Ranked
<1>2. n \in RankId /\ s \in Statement /\ NewRights \in Rights
  <2>1. n \in RankId
    BY <1>1, GuildsAssumption DEF RankId
  <2> HIDE DEF n
  <2> QED
    BY <1>1, <2>1 DEF Statement, InsRank, Rights
<1>3. /\ R \in Seq(Rights) /\ Len(R) = n + 1 /\ Len(R) \in MinRanks .. MaxRanks
      /\ \A i \in 1 .. n : R[i] = G.ranks[i]
      /\ R[n + 1] = NewRights
  <2> HIDE DEF G
  <2>1. R \in Seq(Rights) /\ Len(R) = n + 1 /\ R[n + 1] = NewRights
    BY <1>1, <1>2
  <2>2. \A i \in 1 .. n : R[i] = G.ranks[i]
    <3> DEFINE P == G.ranks
    <3>1. P \in Seq(Rights) /\ NewRights \in Rights
      BY <1>1, <1>2
    <3> HIDE DEF P
    <3>2. \A i \in 1 .. Len(P) : Append(P, NewRights)[i] = P[i]
      BY <3>1, AppendIs, Zenon
    <3> QED
      BY <3>2 DEF P
  <2>3. n + 1 \in MinRanks .. MaxRanks
    BY <1>1, GuildsAssumption DEF G
  <2> QED
    BY <2>1, <2>2, <2>3
<1> HIDE DEF n, R
<1>4. \A e \in Rows : \A X : Fit(e, X) => Fit(Execute(e, s), X)
  BY <1>1, <1>2, FitGuild
<1>5. \A e \in Rows : LET f == Execute(e, s)
                      IN  /\ f.guild = e.guild /\ f.member = e.member
                          /\ \A h \in Guild \ {g} : f.ranks[h] = e.ranks[h]
  BY <1>1, <1>2, ExecNewRank
<1>6. ASSUME NEW e \in Rows, Ranked(e, G, g)
      PROVE  Written(Execute(e, s).ranks[g], R)
  <2>1. /\ n \in Nat \ {0} /\ DOMAIN e.ranks[g] = 0 .. n - 1
        /\ \A r \in 0 .. n - 1 : G.ranks[r + 1] = RightsIn(e.ranks[g], r)
    BY <1>1, <1>6, GuildsAssumption DEF Ranked, Written, n
  <2>2. n \notin DOMAIN e.ranks[g] /\ (0 .. n - 1) \cup {n} = 0 .. n
    BY <2>1
  <2> DEFINE f == With(e.ranks[g], n, NewRights)
  <2>3. Execute(e, s).ranks[g] = f
    BY <1>1, <1>2, <2>2, ExecNewRank
  <2>4. DOMAIN f = 0 .. n /\ f[n] = NewRights /\ \A r \in 0 .. n - 1 : f[r] = e.ranks[g][r]
    BY <2>1, <2>2 DEF With
  <2> HIDE DEF f
  <2>5. ASSUME NEW r \in 0 .. n
        PROVE  R[r + 1] = RightsIn(f, r)
    <3>1. CASE r = n
      BY <1>3, <2>1, <2>4, <3>1 DEF RightsIn, GuildMaster
    <3>2. CASE r # n
      <4>1. r + 1 \in 1 .. n /\ r \in 0 .. n - 1
        BY <2>1, <3>2
      <4> QED
        BY <1>3, <2>1, <2>4, <4>1 DEF RightsIn
    <3> QED
      BY <3>1, <3>2
  <2>6. Len(R) - 1 = n
    BY <1>3, <2>1
  <2> QED
    BY <2>3, <2>4, <2>5, <2>6 DEF Written
<1> HIDE DEF s
<1>7. Good(d, ExecAll(Edit(w, g, Reranked(G, R)), <<s>>))
  BY <1>2, <1>3, <1>4, <1>5, <1>6, GoodRerank
<1>8. [G EXCEPT !.ranks = Append(@, NewRights)] = Reranked(G, R)
  BY DEF Reranked, R
<1> QED
  BY <1>7, <1>8 DEF Exec, s, n

(* HandleRemoveLowestRank.                                                 *)
LEMMA RemoveRankGood ==
    ASSUME NEW d, NEW w, Good(d, w), NEW g \in DOMAIN w.store,
           Len(w.store[g].ranks) > MinRanks
    PROVE  Good(d, Exec(Edit(w, g, [w.store[g] EXCEPT !.ranks = Front(@)]),
                        DelRanks(g, LowestRank(w.store[g]))))
<1> DEFINE G == w.store[g]
           n == LowestRank(G)
           R == Front(G.ranks)
           s == DelRanks(g, n)
<1>1. /\ G \in GuildObject /\ G.ranks \in Seq(Rights) /\ g \in Guild
      /\ Len(G.ranks) \in MinRanks .. MaxRanks
  BY SoundIs, StoreIs DEF Good, Ranked
<1>2. n \in RankId /\ s \in Statement
  <2>1. n \in RankId
    BY <1>1, GuildsAssumption DEF RankId, LowestRank
  <2> HIDE DEF n
  <2> QED
    BY <1>1, <2>1 DEF Statement, DelRanks
<1>3. /\ R \in Seq(Rights) /\ Len(R) = n /\ Len(R) \in MinRanks .. MaxRanks
      /\ \A i \in 1 .. n : R[i] = G.ranks[i]
  <2>1. n = Len(G.ranks) - 1 /\ n \in MinRanks .. MaxRanks
    BY <1>1, GuildsAssumption DEF LowestRank
  <2> DEFINE P == G.ranks
  <2>2. P \in Seq(Rights) /\ n = Len(P) - 1 /\ n \in Nat /\ R = SubSeq(P, 1, Len(P) - 1)
    BY <1>1, <1>2, <2>1 DEF Front, RankId
  <2> HIDE DEF P, n, G, R
  <2>3. R \in Seq(Rights) /\ Len(R) = n /\ \A i \in 1 .. n : R[i] = P[i]
    BY <2>2
  <2> QED
    BY <2>1, <2>3 DEF P
<1> HIDE DEF n, R
<1>4. \A e \in Rows : \A X : Fit(e, X) => Fit(Execute(e, s), X)
  <2>1. Right \in Rights
    BY DEF Rights
  <2> QED
    BY <1>1, <1>2, <2>1, FitGuild
<1>5. \A e \in Rows : LET f == Execute(e, s)
                      IN  /\ f.guild = e.guild /\ f.member = e.member
                          /\ \A h \in Guild \ {g} : f.ranks[h] = e.ranks[h]
  BY <1>1, <1>2, ExecDelRanks
<1>6. ASSUME NEW e \in Rows, Ranked(e, G, g)
      PROVE  Written(Execute(e, s).ranks[g], R)
  <2>1. /\ Len(G.ranks) - 1 = n /\ DOMAIN e.ranks[g] = 0 .. n
        /\ \A r \in 0 .. n : G.ranks[r + 1] = RightsIn(e.ranks[g], r)
    BY <1>1, <1>6 DEF Ranked, Written, LowestRank, n
  <2>2. Execute(e, s).ranks[g] = Restrict(e.ranks[g], {y \in DOMAIN e.ranks[g] : y < n})
    BY <1>1, <1>2, ExecDelRanks
  <2>3. n \in Nat /\ {y \in DOMAIN e.ranks[g] : y < n} = 0 .. n - 1
    BY <1>2, <2>1 DEF RankId
  <2> DEFINE f == Restrict(e.ranks[g], 0 .. n - 1)
  <2>4. DOMAIN f = 0 .. n - 1 /\ \A r \in 0 .. n - 1 : f[r] = e.ranks[g][r]
    BY DEF Restrict
  <2> HIDE DEF f
  <2>5. ASSUME NEW r \in 0 .. n - 1
        PROVE  R[r + 1] = RightsIn(f, r)
    <3>1. r \in 0 .. n /\ r + 1 \in 1 .. n
      BY <2>3
    <3> QED
      BY <1>3, <2>1, <2>4, <3>1 DEF RightsIn
  <2> QED
    BY <1>3, <2>2, <2>3, <2>4, <2>5 DEF Written, f
<1> HIDE DEF s
<1>7. Good(d, ExecAll(Edit(w, g, Reranked(G, R)), <<s>>))
  BY <1>2, <1>3, <1>4, <1>5, <1>6, GoodRerank
<1>8. [G EXCEPT !.ranks = Front(@)] = Reranked(G, R)
  BY DEF Reranked, R
<1> QED
  BY <1>7, <1>8 DEF Exec, s, n

(* HandleSetRankInfo.                                                      *)
LEMMA SetRightsGood ==
    ASSUME NEW d, NEW w, Good(d, w), NEW g \in DOMAIN w.store, NEW b \in Rights,
           NEW x \in 1 .. LowestRank(w.store[g])
    PROVE  Good(d, Exec(Edit(w, g, [w.store[g] EXCEPT !.ranks[x + 1] = b]), UpdRights(g, x, b)))
<1> DEFINE G == w.store[g]
           n == LowestRank(G)
           R == [G.ranks EXCEPT ![x + 1] = b]
           s == UpdRights(g, x, b)
<1>1. /\ G \in GuildObject /\ G.ranks \in Seq(Rights) /\ g \in Guild
      /\ Len(G.ranks) \in MinRanks .. MaxRanks
  BY SoundIs, StoreIs DEF Good, Ranked
<1>2. n \in Nat /\ Len(G.ranks) = n + 1 /\ x \in 1 .. n /\ x \in RankId /\ s \in Statement
  <2>1. n \in Nat /\ Len(G.ranks) = n + 1 /\ x \in 1 .. n /\ x \in RankId
    BY <1>1, GuildsAssumption DEF RankId, LowestRank
  <2> HIDE DEF n
  <2> QED
    BY <1>1, <2>1 DEF Statement, UpdRights
<1>3. /\ R \in Seq(Rights) /\ Len(R) = n + 1 /\ Len(R) \in MinRanks .. MaxRanks
      /\ \A i \in 1 .. n + 1 : R[i] = IF i = x + 1 THEN b ELSE G.ranks[i]
  <2> DEFINE P == G.ranks
  <2>1. P \in Seq(Rights) /\ Len(P) = n + 1 /\ n \in Nat /\ x \in 1 .. n /\ Len(P) \in MinRanks .. MaxRanks
    BY <1>1, <1>2
  <2> HIDE DEF P, n, G
  <2>2. R \in Seq(Rights) /\ Len(R) = Len(P)
    BY <2>1 DEF P
  <2>3. \A i \in 1 .. n + 1 : R[i] = IF i = x + 1 THEN b ELSE P[i]
    BY <2>1 DEF P
  <2> QED
    BY <2>1, <2>2, <2>3 DEF P
<1> HIDE DEF n, R
<1>4. \A e \in Rows : \A X : Fit(e, X) => Fit(Execute(e, s), X)
  BY <1>1, <1>2, FitGuild
<1>5. \A e \in Rows : LET f == Execute(e, s)
                      IN  /\ f.guild = e.guild /\ f.member = e.member
                          /\ \A h \in Guild \ {g} : f.ranks[h] = e.ranks[h]
  BY <1>1, <1>2, ExecRights
<1>6. ASSUME NEW e \in Rows, Ranked(e, G, g)
      PROVE  Written(Execute(e, s).ranks[g], R)
  <2>1. /\ DOMAIN e.ranks[g] = 0 .. n
        /\ \A r \in 0 .. n : G.ranks[r + 1] = RightsIn(e.ranks[g], r)
    BY <1>2, <1>6 DEF Ranked, Written
  <2>2. x \in 1 .. n /\ x \in DOMAIN e.ranks[g] /\ (0 .. n) \cup {x} = 0 .. n
    BY <1>2, <2>1
  <2> DEFINE f == With(e.ranks[g], x, b)
  <2>3. Execute(e, s).ranks[g] = f
    BY <1>1, <1>2, <2>2, ExecRights
  <2>4. DOMAIN f = 0 .. n /\ \A r \in 0 .. n : f[r] = IF r = x THEN b ELSE e.ranks[g][r]
    BY <2>1, <2>2 DEF With
  <2> HIDE DEF f
  <2>5. ASSUME NEW r \in 0 .. n
        PROVE  R[r + 1] = RightsIn(f, r)
    <3>1. r + 1 \in 1 .. n + 1 /\ (r + 1 = x + 1 <=> r = x)
      BY <1>2
    <3>2. CASE r = x
      BY <1>3, <2>2, <2>4, <3>1, <3>2 DEF RightsIn, GuildMaster
    <3>3. CASE r # x
      BY <1>3, <2>1, <2>4, <3>1, <3>3 DEF RightsIn
    <3> QED
      BY <3>2, <3>3
  <2>6. Len(R) - 1 = n
    BY <1>2, <1>3
  <2> QED
    BY <2>3, <2>4, <2>5, <2>6 DEF Written
<1> HIDE DEF s
<1>7. Good(d, ExecAll(Edit(w, g, Reranked(G, R)), <<s>>))
  BY <1>2, <1>3, <1>4, <1>5, <1>6, GoodRerank
<1>8. [G EXCEPT !.ranks[x + 1] = b] = Reranked(G, R)
  <2> HIDE DEF G
  <2>1. PICK l, N, M : G = [leader |-> l, ranks |-> N, members |-> M]
    BY <1>1, GuildIs
  <2> QED
    BY <2>1 DEF Reranked, R
<1> QED
  BY <1>7, <1>8 DEF Exec, s

(* Two operations that leave the ranks alone.                              *)
LEMMA KeptTwice ==
    ASSUME NEW d, NEW w, NEW u, NEW v, Kept(d, w, u), Kept(d, u, v)
    PROVE  Kept(d, w, v)
  BY DEF Kept

(* The guilds of a character who has a right to act in g or is in it.      *)
LEMMA OnlyGuild ==
    ASSUME NEW d, NEW w, Good(d, w), NEW g \in DOMAIN w.store, NEW c \in Char,
           \/ c \in DOMAIN w.store[g].members
           \/ c \in online /\ w.inGuild[c] = g
    PROVE  c \notin w.strayed => GuildsOf(w.store, c) \subseteq {g}
<1> SUFFICES ASSUME c \notin w.strayed PROVE GuildsOf(w.store, c) \subseteq {g}
  OBVIOUS
<1> DEFINE e == Drained(d, w.pend)
<1>1. w \in HubType /\ e \in Rows /\ At(e, w, online, c)
  BY SoundIs DEF Good, Sound
<1>2. CASE c \in DOMAIN w.store[g].members
  BY <1>1, <1>2, MemberAt
<1>3. CASE c \in online /\ w.inGuild[c] = g
  BY <1>1, <1>3 DEF At
<1> QED
  BY <1>2, <1>3

(* Drop, of anybody but the leader.                                        *)
LEMMA DropGood ==
    ASSUME NEW d, NEW w, Good(d, w), NEW g \in DOMAIN w.store, NEW c \in Char,
           c \notin w.strayed => GuildsOf(w.store, c) \subseteq {g}, c # w.store[g].leader
    PROVE  Good(d, Drop(w, g, c))
<1> DEFINE v == Drop(w, g, c)
<1>1. Sound(d, w, online)
  BY DEF Good
<1>2. /\ Sound(d, v, online) /\ Kept(d, w, v)
      /\ DOMAIN v.store = DOMAIN w.store
      /\ \A h \in DOMAIN w.store \ {g} : v.store[h] = w.store[h]
      /\ v.store[g].leader = w.store[g].leader
      /\ DOMAIN v.store[g].members = DOMAIN w.store[g].members \ {c}
      /\ \A x \in DOMAIN v.store[g].members :
           v.store[g].members[x] = w.store[g].members[x]
  BY <1>1, DropSound
<1> HIDE DEF v
<1>3. Ranked(Drained(d, w.pend), w.store[g], g) /\ Led(w.store[g])
  BY DEF Good
<1>4. Led(v.store[g])
  BY <1>2, <1>3 DEF Led
<1>5. \A x \in DOMAIN v.store[g].members : v.store[g].members[x] =< MaxRanks
  BY <1>2, <1>3 DEF Ranked
<1>6. Good(d, v)
  BY <1>2, <1>4, <1>5, GoodKept
<1> QED
  BY <1>6 DEF v

(* Disband.                                                                *)
LEMMA DisbandGood ==
    ASSUME NEW d, NEW w, Good(d, w), NEW g \in DOMAIN w.store,
           NEW o \in SetToSeqs(DOMAIN w.store[g].members)
    PROVE  Good(d, Disband(w, g, o))
<1> DEFINE v == Disband(w, g, o)
<1>1. Sound(d, w, online)
  BY DEF Good
<1>2. /\ Sound(d, v, online) /\ Kept(d, w, v)
      /\ DOMAIN v.store = DOMAIN w.store \ {g}
      /\ \A h \in DOMAIN v.store : v.store[h] = w.store[h]
  BY <1>1, DisbandSound
<1> HIDE DEF v
<1>3. Good(d, v)
  BY <1>2, GoodKept
<1> QED
  BY <1>3 DEF v

(* SetLeaderGUID of another member, and the leader leaves.                 *)
LEMMA SucceedGood ==
    ASSUME NEW d, NEW w, Good(d, w), NEW g \in DOMAIN w.store, NEW c \in Char,
           c \notin w.strayed => GuildsOf(w.store, c) \subseteq {g}, c = w.store[g].leader,
           NEW x \in DOMAIN w.store[g].members \ {c}
    PROVE  Good(d, Drop(SetLeaderGUID(w, g, x), g, c))
<1> DEFINE u == SetLeaderGUID(w, g, x)
           v == Drop(u, g, c)
<1>1. Sound(d, w, online)
  BY DEF Good
<1>2. /\ Sound(d, u, online) /\ Kept(d, w, u)
      /\ u.strayed = w.strayed /\ DOMAIN u.store = DOMAIN w.store
      /\ \A h \in DOMAIN w.store \ {g} : u.store[h] = w.store[h]
      /\ u.store[g].leader = x
      /\ DOMAIN u.store[g].members = DOMAIN w.store[g].members
      /\ \A y \in DOMAIN w.store[g].members :
           u.store[g].members[y] = IF y = x THEN GuildMaster ELSE w.store[g].members[y]
  BY <1>1, SetLeaderSound
<1> HIDE DEF u
<1>3. GuildsOf(u.store, c) = GuildsOf(w.store, c)
  BY <1>2 DEF GuildsOf
<1>4. /\ Sound(d, v, online) /\ Kept(d, u, v)
      /\ DOMAIN v.store = DOMAIN u.store
      /\ \A h \in DOMAIN u.store \ {g} : v.store[h] = u.store[h]
      /\ v.store[g].leader = u.store[g].leader
      /\ DOMAIN v.store[g].members = DOMAIN u.store[g].members \ {c}
      /\ \A y \in DOMAIN v.store[g].members :
           v.store[g].members[y] = u.store[g].members[y]
  <2>1. /\ Sound(d, u, online) /\ g \in DOMAIN u.store /\ c \in Char
        /\ c \notin u.strayed => GuildsOf(u.store, c) \subseteq {g}
    BY <1>2, <1>3
  <2> QED
    BY <2>1, DropSound
<1> HIDE DEF v
<1>5. Ranked(Drained(d, w.pend), w.store[g], g) /\ Led(w.store[g])
  BY DEF Good
<1>6. Led(v.store[g])
  BY <1>2, <1>4, <1>5 DEF Led
<1>7. \A y \in DOMAIN v.store[g].members : v.store[g].members[y] =< MaxRanks
  BY <1>2, <1>4, <1>5, GuildsAssumption DEF Ranked, GuildMaster
<1>8. Kept(d, w, v)
  BY <1>2, <1>4, KeptTwice
<1>9. Good(d, v)
  BY <1>2, <1>4, <1>6, <1>7, <1>8, GoodKept
<1> QED
  BY <1>9 DEF v, u

(* DeleteMember.                                                           *)
LEMMA DeleteGood ==
    ASSUME NEW d, NEW w, Good(d, w), NEW g \in DOMAIN w.store, NEW c \in Char,
           c \notin w.strayed => GuildsOf(w.store, c) \subseteq {g}, NEW x,
           w.store[g].leader = c => x \in Heirs(w.store[g], c)
    PROVE  Good(d, DeleteMember(w, g, c, x))
<1>1. CASE w.store[g].leader # c
  BY <1>1, DropGood DEF DeleteMember
<1>2. CASE w.store[g].leader = c
  <2>1. Heirs(w.store[g], c) # {} /\ x \in DOMAIN w.store[g].members \ {c}
    BY <1>2 DEF Heirs
  <2> QED
    BY <1>2, <2>1, SucceedGood DEF DeleteMember
<1> QED
  BY <1>1, <1>2

(* AddMember.                                                              *)
LEMMA AddMemberGood ==
    ASSUME NEW d, NEW w, Good(d, w), found \subseteq online,
           NEW g \in DOMAIN w.store, NEW c \in Char, w.inGuild[c] = None, c \in online
    PROVE  Good(d, AddMember(w, g, c))
<1> DEFINE v == AddMember(w, g, c)
<1>1. Sound(d, w, online) /\ \A h \in DOMAIN w.store : Led(w.store[h])
  BY DEF Good
<1>2. Ranked(Drained(d, w.pend), w.store[g], g)
  BY DEF Good
<1>3. CASE (IF c \in found THEN w.inGuild[c] ELSE w.storage[c]) # None
  BY <1>3 DEF AddMember
<1>4. CASE (IF c \in found THEN w.inGuild[c] ELSE w.storage[c]) = None
  <2>1. /\ Len(w.store[g].ranks) \in MinRanks .. MaxRanks
        /\ \A h \in DOMAIN w.store : w.store[h].leader \in DOMAIN w.store[h].members
    BY <1>1, <1>2 DEF Ranked, Led
  <2>2. /\ Sound(d, v, online) /\ Kept(d, w, v)
        /\ DOMAIN v.store = DOMAIN w.store
        /\ \A h \in DOMAIN w.store \ {g} : v.store[h] = w.store[h]
        /\ v.store[g].leader = w.store[g].leader
        /\ DOMAIN v.store[g].members = DOMAIN w.store[g].members \cup {c}
        /\ \A x \in DOMAIN v.store[g].members :
             v.store[g].members[x] = IF x = c THEN LowestRank(w.store[g])
                                              ELSE w.store[g].members[x]
    BY <1>1, <1>4, <2>1, AddMemberSound
  <2> HIDE DEF v
  <2>3. LowestRank(w.store[g]) \in 2 .. MaxRanks
    BY <2>1, GuildsAssumption DEF LowestRank
  <2>4. Led(v.store[g])
    BY <1>1, <2>2, <2>3 DEF Led, GuildMaster
  <2>5. \A x \in DOMAIN v.store[g].members : v.store[g].members[x] =< MaxRanks
    BY <1>2, <2>2, <2>3 DEF Ranked
  <2>6. Good(d, v)
    BY <2>2, <2>4, <2>5, GoodKept
  <2> QED
    BY <2>6 DEF v
<1> QED
  BY <1>3, <1>4

(* ChangeRank to a rank that is not the guild master's.                    *)
LEMMA ChangeRankGood ==
    ASSUME NEW d, NEW w, Good(d, w), NEW g \in DOMAIN w.store,
           NEW c \in DOMAIN w.store[g].members, NEW r \in 1 .. MaxRanks
    PROVE  Good(d, ChangeRank(w, g, c, r))
<1> DEFINE v == ChangeRank(w, g, c, r)
<1>1. Sound(d, w, online) /\ r \in RankId
  BY GuildsAssumption DEF Good, RankId
<1>2. /\ Sound(d, v, online) /\ Kept(d, w, v)
      /\ DOMAIN v.store = DOMAIN w.store
      /\ \A h \in DOMAIN w.store \ {g} : v.store[h] = w.store[h]
      /\ v.store[g].leader = w.store[g].leader
      /\ DOMAIN v.store[g].members = DOMAIN w.store[g].members
      /\ \A x \in DOMAIN w.store[g].members :
           v.store[g].members[x] = IF x = c THEN r ELSE w.store[g].members[x]
  BY <1>1, ChangeRankSound
<1> HIDE DEF v
<1>3. Ranked(Drained(d, w.pend), w.store[g], g) /\ Led(w.store[g])
  BY DEF Good
<1>4. Led(v.store[g])
  BY <1>2, <1>3 DEF Led, GuildMaster
<1>5. \A x \in DOMAIN v.store[g].members : v.store[g].members[x] =< MaxRanks
  BY <1>2, <1>3 DEF Ranked
<1>6. Good(d, v)
  BY <1>2, <1>4, <1>5, GoodKept
<1> QED
  BY <1>6 DEF v

(* HandleSetLeader, by the leader or a guild master.                       *)
LEMMA HandOverGood ==
    ASSUME NEW d, NEW w, Good(d, w), NEW g \in DOMAIN w.store,
           NEW c \in DOMAIN w.store[g].members, NEW x \in DOMAIN w.store[g].members,
           IsLeader(w.store[g], c)
    PROVE  Good(d, ChangeRank(SetLeaderGUID(w, g, x), g, c, Officer))
<1> DEFINE u == SetLeaderGUID(w, g, x)
           v == ChangeRank(u, g, c, Officer)
<1>1. Sound(d, w, online) /\ Officer \in RankId
  BY GuildsAssumption DEF Good, RankId, Officer
<1>2. /\ Sound(d, u, online) /\ Kept(d, w, u)
      /\ DOMAIN u.store = DOMAIN w.store
      /\ \A h \in DOMAIN w.store \ {g} : u.store[h] = w.store[h]
      /\ u.store[g].leader = x
      /\ DOMAIN u.store[g].members = DOMAIN w.store[g].members
      /\ \A y \in DOMAIN w.store[g].members :
           u.store[g].members[y] = IF y = x THEN GuildMaster ELSE w.store[g].members[y]
  BY <1>1, SetLeaderSound
<1> HIDE DEF u
<1>3. /\ Sound(d, v, online) /\ Kept(d, u, v)
      /\ DOMAIN v.store = DOMAIN u.store
      /\ \A h \in DOMAIN u.store \ {g} : v.store[h] = u.store[h]
      /\ v.store[g].leader = u.store[g].leader
      /\ DOMAIN v.store[g].members = DOMAIN u.store[g].members
      /\ \A y \in DOMAIN u.store[g].members :
           v.store[g].members[y] = IF y = c THEN Officer ELSE u.store[g].members[y]
  BY <1>1, <1>2, ChangeRankSound
<1> HIDE DEF v
<1>4. Ranked(Drained(d, w.pend), w.store[g], g) /\ Led(w.store[g])
  BY DEF Good
<1>5. c = w.store[g].leader
  BY <1>4 DEF Led, IsLeader
<1>6. Led(v.store[g])
  BY <1>2, <1>3, <1>4, <1>5 DEF Led, GuildMaster, Officer
<1>7. \A y \in DOMAIN v.store[g].members : v.store[g].members[y] =< MaxRanks
  BY <1>2, <1>3, <1>4, GuildsAssumption DEF Ranked, GuildMaster, Officer
<1>8. Kept(d, w, v)
  BY <1>2, <1>3, KeptTwice
<1>9. Good(d, v)
  BY <1>2, <1>3, <1>6, <1>7, <1>8, GoodKept
<1> QED
  BY <1>9 DEF v, u

-----------------------------------------------------------------------------
(* What a restart loads.                                                   *)

(* A finite set of naturals has an i-th number, for each i up to its size. *)
LEMMA NthIs ==
    ASSUME NEW S \in SUBSET Nat, IsFiniteSet(S), NEW i \in 1 .. Cardinality(S)
    PROVE  Nth(S, i) \in S
<1> DEFINE Below(r) == {q \in S : q < r}
           T == {k \in Nat : k < Cardinality(S) => \E r \in S : Cardinality(Below(r)) = k}
<1>1. Cardinality(S) \in Nat /\ (S = {} <=> Cardinality(S) = 0)
  BY FS_CardinalityType, FS_EmptySet
<1>2. 0 \in T
  <2> SUFFICES ASSUME 0 < Cardinality(S) PROVE \E r \in S : Cardinality(Below(r)) = 0
    OBVIOUS
  <2>1. PICK r \in S : \A q \in S : r =< q
    BY <1>1, LeastNatural
  <2>4. \A q \in S : ~(q < r)
    <3> SUFFICES ASSUME NEW q \in S PROVE ~(q < r)
      OBVIOUS
    <3>1. q \in Nat /\ r \in Nat /\ r =< q
      BY <2>1
    <3> QED
      BY <3>1
  <2>2. Below(r) = {}
    BY <2>4
  <2>3. Cardinality(Below(r)) = 0
    BY <2>2, FS_EmptySet
  <2> QED
    BY <2>3
<1>3. ASSUME NEW k \in Nat, k \in T
      PROVE  k + 1 \in T
  <2> SUFFICES ASSUME k + 1 < Cardinality(S) PROVE \E r \in S : Cardinality(Below(r)) = k + 1
    OBVIOUS
  <2>1. PICK r \in S : Cardinality(Below(r)) = k
    BY <1>1, <1>3
  <2> DEFINE B == Below(r) \cup {r}
             A == {q \in S : r < q}
  <2>2. IsFiniteSet(Below(r)) /\ r \notin Below(r)
    BY FS_Subset
  <2>3. Cardinality(B) = k + 1
    <3> HIDE DEF Below
    <3> QED
      BY <2>1, <2>2, FS_AddElement
  <2>4. A # {}
    <3> SUFFICES ASSUME A = {} PROVE FALSE
      OBVIOUS
    <3>2. \A q \in S : q \in Nat /\ r \in Nat /\ ~(r < q)
      OBVIOUS
    <3>3. \A q \in S : q < r \/ q = r
      BY <3>2
    <3>1. B = S
      BY <3>3
    <3> HIDE DEF B, A
    <3> QED
      BY <1>1, <2>3, <3>1
  <2>5. PICK y \in A : \A q \in A : y =< q
    <3>1. A \in SUBSET Nat
      OBVIOUS
    <3> HIDE DEF A
    <3> QED
      BY <2>4, <3>1, LeastNatural
  <2>6. y \in S /\ Below(y) = B
    <3>1. y \in S /\ r < y
      BY <2>5
    <3>2. \A q \in S : q < y <=> q < r \/ q = r
      BY <2>5, <3>1
    <3> QED
      BY <3>1, <3>2
  <2> HIDE DEF Below, B, A
  <2> QED
    BY <2>3, <2>6
<1> HIDE DEF T
<1>4. T = Nat
  BY <1>2, <1>3, Induction DEF T
<1>5. i - 1 \in T /\ i - 1 < Cardinality(S)
  BY <1>1, <1>4
<1>6. \E r \in S : Cardinality(Below(r)) = i - 1
  BY <1>5 DEF T
<1> QED
  BY <1>6 DEF Nth

(* Ranks without a gap.                                                    *)
LEMMA NthRank ==
    ASSUME NEW n \in Nat, NEW i \in 1 .. n
    PROVE  Nth(0 .. n - 1, i) = i - 1
<1> DEFINE S == 0 .. n - 1
<1>1. ASSUME NEW r \in S
      PROVE  Cardinality({q \in S : q < r}) = r
  <2>1. {q \in S : q < r} = 0 .. r - 1
    OBVIOUS
  <2>2. Cardinality(0 .. r - 1) = r
    <3>1. 0 \in Int /\ r - 1 \in Int /\ r \in Nat
      OBVIOUS
    <3>2. Cardinality(0 .. r - 1) = IF 0 > r - 1 THEN 0 ELSE (r - 1) - 0 + 1
      BY <3>1, FS_Interval
    <3> QED
      BY <3>1, <3>2
  <2> QED
    BY <2>1, <2>2
<1>2. i - 1 \in S
  OBVIOUS
<1>3. Cardinality({q \in S : q < i - 1}) = i - 1
  BY <1>1, <1>2
<1>4. \A r \in S : Cardinality({q \in S : q < r}) = i - 1 => r = i - 1
  BY <1>1
<1> HIDE DEF S
<1>5. \E r \in S : Cardinality({q \in S : q < r}) = i - 1
  BY <1>2, <1>3
<1>6. Nth(S, i) \in S /\ Cardinality({q \in S : q < Nth(S, i)}) = i - 1
  BY <1>5 DEF Nth
<1>7. Nth(S, i) = i - 1
  BY <1>4, <1>6
<1> QED
  BY <1>7 DEF S

\* Tables without a member of a guild that does not exist.
Clean(d) == \A c \in DOMAIN d.member : d.member[c].guild \in DOMAIN d.guild

(* The orphans are gone, and no row of a guild that exists is.             *)
LEMMA SweptIs ==
    ASSUME NEW d, NEW X, Fit(d, X)
    PROVE  /\ Swept(d) \in Rows /\ Fit(Swept(d), X) /\ Clean(Swept(d))
           /\ DOMAIN Swept(d).member
                = {c \in DOMAIN d.member : d.member[c].guild \in DOMAIN d.guild}
           /\ \A c \in DOMAIN Swept(d).member : Swept(d).member[c] = d.member[c]
<1> DEFINE guilds == {g \in DOMAIN d.guild : \E c \in DOMAIN d.member : d.member[c].guild = g}
           e == Swept(d)
           a == Restrict(d.guild, guilds)
           b == [g \in Guild |-> IF g \in guilds THEN d.ranks[g] ELSE Restrict(d.ranks[g], {})]
           m == Restrict(d.member, {c \in DOMAIN d.member : d.member[c].guild \in guilds})
<1>1. d \in Rows
  BY DEF Fit
<1>2. e = [guild |-> a, ranks |-> b, member |-> m]
  BY DEF Swept
<1>3. /\ DOMAIN a = guilds /\ DOMAIN a \subseteq Guild /\ a \in [DOMAIN a -> Char]
      /\ \A g \in DOMAIN a : a[g] = d.guild[g]
  BY <1>1, RowsIs DEF Restrict
<1>4. /\ DOMAIN m = {c \in DOMAIN d.member : d.member[c].guild \in guilds}
      /\ DOMAIN m \subseteq Char /\ m \in [DOMAIN m -> [guild : Guild, rank : RankId]]
      /\ \A c \in DOMAIN m : m[c] = d.member[c]
  BY <1>1, RowsIs DEF Restrict
<1>5. b \in [Guild -> Partial(RankId, Rights)]
  <2>1. ASSUME NEW g \in Guild
        PROVE  Restrict(d.ranks[g], {}) \in Partial(RankId, Rights)
    BY PartialIs DEF Restrict
  <2> HIDE DEF guilds
  <2> QED
    BY <1>1, <2>1, RowsIs
<1> HIDE DEF a, b, m, e
<1>6. e \in Rows /\ e.guild = a /\ e.member = m
  BY <1>2, <1>3, <1>4, <1>5, RowsOf
<1>7. DOMAIN m = {c \in DOMAIN d.member : d.member[c].guild \in DOMAIN d.guild}
  BY <1>4
<1>8. Clean(e)
  BY <1>3, <1>4, <1>6 DEF Clean
<1>9. Fit(e, X)
  <2>1. \A c \in Char : GuildRow(e, c) \in {GuildRow(d, c), None}
    BY <1>4, <1>6 DEF GuildRow
  <2>2. DOMAIN e.guild \subseteq DOMAIN d.guild /\ \A h \in DOMAIN e.guild : e.guild[h] = d.guild[h]
    BY <1>3, <1>6
  <2> QED
    BY <1>6, <2>1, <2>2, FitLess
<1> QED
  BY <1>4, <1>6, <1>7, <1>8, <1>9 DEF e

(* The statements for the broken characters, in some order.                *)
LEMMA BrokenOrder ==
    ASSUME NEW B, B \subseteq Char
    PROVE  \E o \in Seq(Char) :
             /\ SetToSeq({DelMember(c) : c \in B}) = [i \in DOMAIN o |-> DelMember(o[i])]
             /\ \A x : x \in B <=> \E i \in 1 .. Len(o) : o[i] = x
<1> DEFINE S == {DelMember(c) : c \in B}
           f == [c \in B |-> DelMember(c)]
           p == SetToSeq(S)
           o == [i \in 1 .. Len(p) |-> p[i].char]
<1>1. IsFiniteSet(S)
  <2>1. IsFiniteSet(B)
    BY GuildsAssumption, FS_Subset
  <2>2. f \in Surjection(B, S)
    BY DEF Surjection
  <2> QED
    BY <2>1, <2>2, FS_Surjection
<1>2. \A s \in S : s.char \in B /\ DelMember(s.char) = s
  BY DEF DelMember
<1>3. \A c \in B : DelMember(c) \in S /\ DelMember(c).char = c
  BY DEF DelMember
<1> HIDE DEF S
<1>4. p \in Seq(S) /\ \A s \in S : \E i \in 1 .. Len(p) : p[i] = s
  BY <1>1, Orders
<1> HIDE DEF p
<1>5. \A i \in 1 .. Len(p) : p[i] \in S
  BY <1>4
<1>6. o \in Seq(Char) /\ DOMAIN o = 1 .. Len(p) /\ Len(o) = Len(p)
      /\ \A i \in 1 .. Len(p) : o[i] = p[i].char
  BY <1>2, <1>4, <1>5
<1> HIDE DEF o
<1>7. p = [i \in DOMAIN o |-> DelMember(o[i])]
  <2>1. p = [i \in 1 .. Len(p) |-> p[i]]
    BY <1>4
  <2>2. \A i \in 1 .. Len(p) : p[i] = DelMember(o[i])
    BY <1>2, <1>5, <1>6
  <2> QED
    BY <1>6, <2>1, <2>2
<1>8. ASSUME NEW x
      PROVE  x \in B <=> \E i \in 1 .. Len(o) : o[i] = x
  <2>1. ASSUME x \in B PROVE \E i \in 1 .. Len(o) : o[i] = x
    <3>1. PICK i \in 1 .. Len(p) : p[i] = DelMember(x)
      BY <1>3, <1>4, <2>1
    <3> QED
      BY <1>3, <1>6, <2>1, <3>1
  <2>2. ASSUME NEW i \in 1 .. Len(o), o[i] = x PROVE x \in B
    BY <1>2, <1>5, <1>6, <2>2
  <2> QED
    BY <2>1, <2>2
<1> QED
  BY <1>6, <1>7, <1>8 DEF p, S

\* The ranks that LoadRankFromDB makes of the rows f of a guild.
RankList(f) == [i \in 1 .. Cardinality(DOMAIN f) |-> RightsIn(f, Nth(DOMAIN f, i))]

\* The rows f are those of the ranks R, if they have no gap.
Listed(f, R) == DOMAIN f = 0 .. Len(R) - 1 => Written(f, R)

(* They are the rows again, if these have no gap.                          *)
LEMMA LoadedRanks ==
    ASSUME NEW f, DOMAIN f \subseteq RankId, f \in [DOMAIN f -> Rights]
    PROVE  RankList(f) \in Seq(Rights) /\ Listed(f, RankList(f))
<1> DEFINE D == DOMAIN f
           n == Cardinality(D)
           R == [i \in 1 .. n |-> RightsIn(f, Nth(D, i))]
<1>1. D \subseteq RankId /\ f \in [D -> Rights]
  OBVIOUS
<1>2. D \in SUBSET Nat /\ IsFiniteSet(D)
  <2>1. 0 \in Int /\ MaxRankId \in Int
    BY GuildsAssumption
  <2>2. IsFiniteSet(RankId)
    BY <2>1, FS_Interval DEF RankId
  <2>3. RankId \subseteq Nat
    BY DEF RankId
  <2> HIDE DEF D
  <2> QED
    BY <1>1, <2>2, <2>3, FS_Subset
<1>3. n \in Nat
  BY <1>2, FS_CardinalityType
<1>4. \A i \in 1 .. n : Nth(D, i) \in D
  BY <1>2, NthIs
<1> HIDE DEF D, n
<1>5. \A i \in 1 .. n : RightsIn(f, Nth(D, i)) \in Rights
  BY <1>1, <1>4 DEF RightsIn, Rights
<1>6. R \in Seq(Rights) /\ Len(R) = n
  BY <1>3, <1>5
<1>7. ASSUME D = 0 .. n - 1
      PROVE  \A r \in 0 .. n - 1 : R[r + 1] = RightsIn(f, r)
  <2>1. ASSUME NEW r \in 0 .. n - 1
        PROVE  R[r + 1] = RightsIn(f, r)
    <3>1. r + 1 \in 1 .. n /\ (r + 1) - 1 = r
      BY <1>3
    <3>2. Nth(D, r + 1) = r
      BY <1>3, <1>7, <3>1, NthRank
    <3> QED
      BY <3>1, <3>2
  <2> QED
    BY <2>1
<1>8. RankList(f) = R
  BY DEF RankList, D, n
<1> HIDE DEF R
<1> QED
  BY <1>6, <1>7, <1>8 DEF D, Listed, Written

\* What a restart reads of the guild g.
Record(d, g) == Loaded(d).store[g]

\* G has been read of the guild g.
ReadOf(d, g, G) ==
    /\ G \in GuildObject /\ G.leader = d.guild[g]
    /\ DOMAIN G.members = {c \in DOMAIN d.member \ Broken : d.member[c].guild = g}
    /\ \A c \in DOMAIN G.members : G.members[c] = d.member[c].rank
    /\ Listed(d.ranks[g], G.ranks)

(* The guild object that a restart reads.                                  *)
LEMMA RecordIs ==
    ASSUME NEW d \in Rows, NEW g \in DOMAIN d.guild
    PROVE  ReadOf(d, g, Record(d, g))
<1> DEFINE R == RankList(d.ranks[g])
           C == {c \in DOMAIN d.member \ Broken : d.member[c].guild = g}
           m == [c \in C |-> d.member[c].rank]
           G == Record(d, g)
<1>1. G = [leader |-> d.guild[g], ranks |-> R, members |-> m]
  BY DEF Record, Loaded, RankList
<1>2. g \in Guild /\ d.guild[g] \in Char
  BY RowsIs
<1>3. R \in Seq(Rights) /\ Listed(d.ranks[g], R)
  BY <1>2, LoadedRanks, RanksAre
<1>4. DOMAIN m = C /\ C \subseteq Char /\ m \in [DOMAIN m -> RankId]
      /\ \A c \in C : m[c] = d.member[c].rank
  BY RowsIs
<1> HIDE DEF m, R, G
<1>5. [leader |-> d.guild[g], ranks |-> R, members |-> m] \in GuildObject
  BY <1>2, <1>3, <1>4, GuildOf
<1>6. G.leader = d.guild[g] /\ G.ranks = R /\ G.members = m /\ G \in GuildObject
  BY <1>1, <1>5
<1> QED
  BY <1>3, <1>4, <1>6 DEF G, ReadOf

(* What a restart has loaded agrees with the tables, with the statements   *)
(* that remove the broken characters.                                      *)
LEMMA LoadedSound ==
    ASSUME NEW d, Fit(d, strayed), strayed \subseteq Char, Clean(d)
    PROVE  LET w == Loaded(d)
           IN  /\ Sound(d, w, {}) /\ w.strayed = strayed
               /\ DOMAIN w.store = DOMAIN d.guild
               /\ Drained(d, w.pend).ranks = d.ranks
<1> DEFINE w == Loaded(d)
           B == DOMAIN d.member \cap Broken
           e == Drained(d, w.pend)
           z == [c \in Char |-> IF c \in Broken THEN None ELSE GuildRow(d, c)]
<1>1. d \in Rows
  BY DEF Fit
<1>2. B \subseteq Char
  BY <1>1, RowsIs
<1>3. PICK o \in Seq(Char) :
        /\ SetToSeq({DelMember(c) : c \in B}) = [i \in DOMAIN o |-> DelMember(o[i])]
        /\ \A x : x \in B <=> \E i \in 1 .. Len(o) : o[i] = x
  BY <1>2, BrokenOrder
<1> DEFINE p == [i \in DOMAIN o |-> DelMember(o[i])]
<1>4. /\ w.pend = p /\ w.strayed = strayed /\ w.inGuild = Nobody /\ w.invited = Nobody
      /\ w.storage = z /\ DOMAIN w.store = DOMAIN d.guild
      /\ \A g \in DOMAIN d.guild : w.store[g] = Record(d, g)
      /\ w = [store |-> w.store, inGuild |-> Nobody, invited |-> Nobody, storage |-> z,
              pend |-> p, strayed |-> strayed]
  BY <1>3 DEF Loaded, Record
<1> HIDE DEF w
<1>5. LET b == Drained(d, p)
      IN  /\ p \in Seq(Statement) /\ Safe(d, p, strayed)
          /\ b \in Rows /\ b.guild = d.guild /\ b.ranks = d.ranks
          /\ DOMAIN b.member = {x \in DOMAIN d.member : \A i \in 1 .. Len(o) : o[i] # x}
          /\ \A x \in DOMAIN b.member : b.member[x] = d.member[x]
  <2> HIDE DEF B
  <2> QED
    BY BatchLeave
<1> HIDE DEF p
<1>6. /\ p \in Seq(Statement) /\ Safe(d, p, strayed)
      /\ e \in Rows /\ e.guild = d.guild /\ e.ranks = d.ranks
      /\ DOMAIN e.member = DOMAIN d.member \ Broken
      /\ \A x \in DOMAIN e.member : e.member[x] = d.member[x]
  BY <1>3, <1>4, <1>5
<1> HIDE DEF e
<1>7. ASSUME NEW g \in DOMAIN d.guild
      PROVE  /\ w.store[g] \in GuildObject /\ w.store[g].leader = d.guild[g]
             /\ DOMAIN w.store[g].members
                  = {c \in DOMAIN d.member \ Broken : d.member[c].guild = g}
             /\ \A c \in DOMAIN w.store[g].members : w.store[g].members[c] = d.member[c].rank
  BY <1>1, <1>4, RecordIs DEF ReadOf
<1>8. w.store \in Store
  <2>1. DOMAIN d.guild \subseteq Guild
    BY <1>1, RowsIs
  <2>2. w.store \in [DOMAIN w.store -> GuildObject]
    <3>1. w.store = [g \in DOMAIN d.guild |-> w.store[g]]
      BY <1>4 DEF w, Loaded
    <3> QED
      BY <1>4, <1>7, <3>1
  <2> QED
    BY <1>4, <2>1, <2>2, PartialIs DEF Store
<1>9. z \in [Char -> Guild \cup {None}]
  BY <1>1, RowsIs DEF GuildRow
<1>10. w \in HubType
  <2>1. Nobody \in [Char -> Guild \cup {None}] /\ Nobody \in [Char -> Nat]
    BY DEF Nobody, None
  <2> HIDE DEF z
  <2> QED
    BY <1>4, <1>6, <1>8, <1>9, <2>1 DEF HubType
<1>11. Mirrors(e, w.store)
  BY <1>4, <1>6, <1>7 DEF Mirrors
<1>12. ASSUME NEW c \in Char
       PROVE  At(e, w, {}, c)
  <2>1. CASE c \in DOMAIN e.member
    <3> DEFINE g == d.member[c].guild
    <3>1. c \in DOMAIN d.member \ Broken /\ g \in DOMAIN d.guild /\ g \in Guild /\ g # None
      BY <1>1, <1>6, <2>1, RowsIs, GuildsAssumption DEF Clean, None
    <3>2. GuildsOf(w.store, c) = {g}
      BY <1>4, <1>7, <3>1 DEF GuildsOf
    <3>3. w.storage[c] = g /\ GuildRow(e, c) = g
      BY <1>4, <1>6, <3>1 DEF GuildRow
    <3>4. w.store[g].members[c] = e.member[c].rank
      BY <1>6, <1>7, <3>1
    <3> HIDE DEF g
    <3> QED
      BY <3>1, <3>2, <3>3, <3>4 DEF At
  <2>2. CASE c \notin DOMAIN e.member
    <3>1. GuildsOf(w.store, c) = {}
      BY <1>4, <1>6, <1>7, <2>2 DEF GuildsOf
    <3>2. w.storage[c] = None /\ GuildRow(e, c) = None
      BY <1>4, <1>6, <2>2 DEF GuildRow
    <3> QED
      BY <3>1, <3>2 DEF At
  <2> QED
    BY <2>1, <2>2
<1>13. Sound(d, w, {})
  BY <1>4, <1>6, <1>10, <1>11, <1>12 DEF Sound, e
<1> QED
  BY <1>4, <1>6, <1>13 DEF w, e

-----------------------------------------------------------------------------
(* Validate.                                                               *)

\* From w to v nothing happens but to the guild g.
Aside(d, w, v, g) ==
    /\ DOMAIN v.store \subseteq DOMAIN w.store /\ DOMAIN w.store \ {g} \subseteq DOMAIN v.store
    /\ \A h \in DOMAIN w.store \ {g} :
         /\ v.store[h] = w.store[h]
         /\ Drained(d, v.pend).ranks[h] = Drained(d, w.pend).ranks[h]

(* Two steps for the same guild.                                           *)
LEMMA AsideTwice ==
    ASSUME NEW d, NEW w, NEW u, NEW v, NEW g, Aside(d, w, u, g), Aside(d, u, v, g)
    PROVE  Aside(d, w, v, g)
  BY DEF Aside

(* A step that leaves the ranks alone.                                     *)
LEMMA AsideKept ==
    ASSUME NEW d, NEW w, NEW v, NEW g, Kept(d, w, v),
           DOMAIN w.store \ {g} \subseteq DOMAIN v.store,
           \A h \in DOMAIN v.store \ {g} : v.store[h] = w.store[h]
    PROVE  Aside(d, w, v, g)
  BY DEF Kept, Aside

\* The ranks of the guild h are in the tables e.
InTables(e, G, h) ==
    /\ Len(G.ranks) \in MinRanks .. MaxRanks
    /\ Written(e.ranks[h], G.ranks)

\* The guild g has been read and its ranks in the tables are as they were.
Unread(d, w, g) ==
    /\ g \in DOMAIN w.store
    /\ Drained(d, w.pend).ranks[g] = d.ranks[g] /\ Listed(d.ranks[g], w.store[g].ranks)

\* The ranks of g are validated.
RankValid(d, w, v, O, g) ==
    /\ Sound(d, v, O) /\ Aside(d, w, v, g) /\ v.strayed = w.strayed /\ g \in DOMAIN v.store
    /\ v.store[g].leader = w.store[g].leader /\ v.store[g].members = w.store[g].members
    /\ InTables(Drained(d, v.pend), v.store[g], g)

(* The default ranks replace those in the tables.                          *)
LEMMA DefaultRanksSound ==
    ASSUME NEW d, NEW w, NEW O, Sound(d, w, O), NEW g \in DOMAIN w.store
    PROVE  RankValid(d, w, ExecAll(Edit(w, g, Reranked(w.store[g], DefaultRanks)),
                                   <<DelRanks(g, 0)>> \o
                                   [i \in 1 .. MinRanks |-> InsRank(g, i - 1, DefaultRanks[i])]),
                     O, g)
<1> DEFINE G == w.store[g]
           R == DefaultRanks
           H == Reranked(G, R)
           e == Drained(d, w.pend)
           a == DelRanks(g, 0)
           k == <<a>>
           b == Execute(e, a)
           l == [i \in 1 .. MinRanks |-> InsRank(g, i - 1, R[i])]
           q == k \o l
           f == Drained(b, l)
           v == ExecAll(Edit(w, g, H), q)
<1>1. w \in HubType /\ w.store \in Store /\ e \in Rows /\ Fit(e, w.strayed)
  BY SoundIs
<1>2. G \in GuildObject /\ g \in Guild
  BY <1>1, StoreIs
<1>3. R \in Seq(Rights) /\ Len(R) = MinRanks /\ MinRanks \in MinRanks .. MaxRanks
  <2>1. MinRanks \in Nat /\ MinRanks \in MinRanks .. MaxRanks
    BY GuildsAssumption
  <2>3. R \in [1 .. MinRanks -> Rights]
    BY DEF DefaultRanks, Rights
  <2> HIDE DEF R
  <2> QED
    BY <2>1, <2>3
<1>4. /\ H \in GuildObject /\ H.leader = G.leader /\ H.members = G.members /\ H.ranks = R
  <2> HIDE DEF G, R
  <2> QED
    BY <1>2, <1>3, RerankedIs
<1>5. 0 \in RankId /\ a \in Statement
  <2>1. 0 \in RankId
    BY GuildsAssumption DEF RankId
  <2> QED
    BY <1>2, <2>1 DEF DelRanks, Statement
<1>6. /\ b \in Rows /\ b.member = e.member /\ b.guild = e.guild
      /\ \A h \in Guild \ {g} : b.ranks[h] = e.ranks[h]
      /\ b.ranks[g] = Restrict(e.ranks[g], {y \in DOMAIN e.ranks[g] : y < 0})
  <2> HIDE DEF e
  <2> QED
    BY <1>1, <1>2, <1>5, ExecDelRanks
<1>7. DOMAIN b.ranks[g] = {}
  <2>1. DOMAIN e.ranks[g] \subseteq RankId
    BY <1>1, <1>2, RanksAre
  <2>2. {y \in DOMAIN e.ranks[g] : y < 0} = {}
    BY <2>1 DEF RankId
  <2> HIDE DEF e, b
  <2> QED
    BY <1>6, <2>2 DEF Restrict
<1>8. Fit(b, w.strayed)
  <2>1. Right \in Rights
    BY DEF Rights
  <2> HIDE DEF e
  <2> QED
    BY <1>1, <1>2, <1>5, <2>1, FitGuild
<1>9. Safe(e, k, w.strayed) /\ Drained(e, k) = b
  <2> HIDE DEF e, a
  <2> QED
    BY <1>1, <1>8, OneStatement
<1>10. /\ l \in Seq(Statement) /\ Safe(b, l, w.strayed)
       /\ f \in Rows /\ f.guild = b.guild /\ f.member = b.member
       /\ \A h \in Guild \ {g} : f.ranks[h] = b.ranks[h]
       /\ f.ranks[g] = [r \in 0 .. Len(R) - 1 |-> R[r + 1]]
  <2>1. l = [i \in 1 .. Len(R) |-> InsRank(g, i - 1, R[i])] /\ Len(R) =< MaxRanks
    BY <1>3
  <2>2. Fit(b, w.strayed) /\ g \in Guild /\ DOMAIN b.ranks[g] = {} /\ R \in Seq(Rights)
    BY <1>2, <1>3, <1>7, <1>8
  <2> HIDE DEF b, l, R
  <2> QED
    BY <2>1, <2>2, BatchNewRank, SMTT(40)
<1> HIDE DEF l
<1>11. q \in Seq(Statement) /\ Safe(e, q, w.strayed) /\ Drained(e, q) = f
  <2>1. k \in Seq(Statement)
    BY <1>5
  <2> HIDE DEF k, e, b
  <2>2. Drained(e, k \o l) = Drained(Drained(e, k), l) /\ Safe(e, k \o l, w.strayed)
    BY <1>9, <1>10, <2>1, Continued
  <2>3. q \in Seq(Statement)
    BY <1>10, <2>1
  <2> QED
    BY <1>9, <2>2, <2>3
<1> HIDE DEF e, H, q, f, R
<1>12. Reform(e, w, g, H, q, f)
  BY <1>4, <1>6, <1>10, <1>11 DEF Reform
<1>13. Reformed(d, w, O, g, H, f, v)
  BY <1>12, RanksSound DEF e
<1> HIDE DEF v
<1>14. /\ Sound(d, v, O) /\ Drained(d, v.pend) = f
       /\ v.strayed = w.strayed /\ DOMAIN v.store = DOMAIN w.store
       /\ v.store[g] = H /\ \A h \in DOMAIN w.store \ {g} : v.store[h] = w.store[h]
  BY <1>13 DEF Reformed
<1>15. Aside(d, w, v, g)
  <2>1. DOMAIN w.store \subseteq Guild
    BY <1>1, StoreIs
  <2> QED
    BY <1>6, <1>10, <1>14, <2>1 DEF Aside, e
<1>16. InTables(f, H, g)
  <2>1. ASSUME NEW r \in 0 .. Len(R) - 1
        PROVE  R[r + 1] = RightsIn(f.ranks[g], r)
    <3>1. f.ranks[g][r] = R[r + 1] /\ (r = GuildMaster => R[r + 1] = Right)
      BY <1>3, <1>10, GuildsAssumption DEF R, DefaultRanks, GuildMaster
    <3> QED
      BY <3>1 DEF RightsIn
  <2>2. DOMAIN f.ranks[g] = 0 .. Len(R) - 1
    BY <1>10
  <2> QED
    BY <1>3, <1>4, <2>1, <2>2 DEF InTables, Written
<1>17. RankValid(d, w, v, O, g)
  BY <1>4, <1>14, <1>15, <1>16 DEF RankValid
<1> QED
  BY <1>17 DEF v, H, q, R, l

(* Validate: the ranks.                                                    *)
LEMMA ValidateRanksSound ==
    ASSUME NEW d, NEW w, NEW O, Sound(d, w, O), NEW g, Unread(d, w, g)
    PROVE  RankValid(d, w, ValidateRanks(w, d, g), O, g)
<1> DEFINE G == w.store[g]
           n == Len(G.ranks)
<1>1. g \in DOMAIN w.store
  BY DEF Unread
<1>2. CASE n \in MinRanks .. MaxRanks /\ DOMAIN d.ranks[g] = 0 .. n - 1
  <2>1. ValidateRanks(w, d, g) = w
    BY <1>2 DEF ValidateRanks
  <2>2. InTables(Drained(d, w.pend), G, g)
    BY <1>2 DEF Unread, Listed, InTables, LowestRank
  <2>3. Aside(d, w, w, g)
    BY DEF Aside
  <2> QED
    BY <1>1, <2>1, <2>2, <2>3 DEF RankValid
<1>3. CASE ~(n \in MinRanks .. MaxRanks /\ DOMAIN d.ranks[g] = 0 .. n - 1)
  <2>1. ValidateRanks(w, d, g)
          = ExecAll(Edit(w, g, Reranked(w.store[g], DefaultRanks)),
                    <<DelRanks(g, 0)>> \o
                    [i \in 1 .. MinRanks |-> InsRank(g, i - 1, DefaultRanks[i])])
    BY <1>3 DEF ValidateRanks, Reranked
  <2> QED
    BY <1>1, <2>1, DefaultRanksSound
<1> QED
  BY <1>2, <1>3

\* The ranks of g and of its members are validated.
GradeValid(d, w, v, O, g) ==
    /\ Sound(d, v, O) /\ Aside(d, w, v, g) /\ v.strayed = w.strayed /\ g \in DOMAIN v.store
    /\ v.store[g].leader = w.store[g].leader
    /\ DOMAIN v.store[g].members = DOMAIN w.store[g].members
    /\ Ranked(Drained(d, v.pend), v.store[g], g)

(* Validate: the ranks and the members.                                    *)
LEMMA GradedSound ==
    ASSUME NEW d, NEW w, NEW O, Sound(d, w, O), NEW g, Unread(d, w, g)
    PROVE  GradeValid(d, w, Graded(w, d, g), O, g)
<1> DEFINE u == ValidateRanks(w, d, g)
           G == u.store[g]
           r == LowestRank(G)
           C == {c \in DOMAIN G.members : G.members[c] > Len(G.ranks)}
           v == ChangeRanks(u, g, C, r)
<1>1. RankValid(d, w, u, O, g)
  BY ValidateRanksSound
<1> HIDE DEF u
<1>2. /\ Sound(d, u, O) /\ Aside(d, w, u, g) /\ u.strayed = w.strayed /\ g \in DOMAIN u.store
      /\ G.leader = w.store[g].leader /\ G.members = w.store[g].members
      /\ InTables(Drained(d, u.pend), G, g)
  BY <1>1 DEF RankValid
<1>3. Graded(w, d, g) = v
  BY DEF Graded, ValidateMembers, u
<1>4. /\ Len(G.ranks) \in MinRanks .. MaxRanks /\ r = Len(G.ranks) - 1 /\ r \in RankId
      /\ r =< MaxRanks
  BY <1>2, GuildsAssumption DEF InTables, LowestRank, RankId
<1>5. C \subseteq DOMAIN G.members /\ G \in GuildObject
  BY <1>2, SoundIs, StoreIs
<1>6. \A c \in DOMAIN G.members : G.members[c] \in Nat
  BY <1>5, GuildIs DEF RankId
<1>7. \A c \in DOMAIN G.members \ C : G.members[c] =< MaxRanks
  BY <1>4, <1>6, GuildsAssumption, SMTT(30)
<1> HIDE DEF C, r
<1>8. /\ Sound(d, v, O) /\ Kept(d, u, v)
      /\ v.strayed = u.strayed /\ DOMAIN v.store = DOMAIN u.store
      /\ \A h \in DOMAIN u.store \ {g} : v.store[h] = u.store[h]
      /\ v.store[g].leader = u.store[g].leader
      /\ DOMAIN v.store[g].members = DOMAIN u.store[g].members
      /\ \A x \in DOMAIN u.store[g].members :
           v.store[g].members[x] = IF x \in C THEN r ELSE u.store[g].members[x]
  <2>1. Sound(d, u, O) /\ g \in DOMAIN u.store /\ r \in RankId
    BY <1>2, <1>4
  <2>2. C \subseteq DOMAIN u.store[g].members
    BY <1>5
  <2>3. Promoted(d, u, v, O, g, C, r)
    BY <2>1, <2>2, ChangeRanksSound
  <2> QED
    BY <2>3 DEF Promoted
<1> HIDE DEF v
<1>9. Aside(d, u, v, g)
  BY <1>8, AsideKept
<1>10. Aside(d, w, v, g)
  BY <1>2, <1>9, AsideTwice
<1>11. /\ v.store[g].ranks = G.ranks
       /\ Drained(d, v.pend).ranks[g] = Drained(d, u.pend).ranks[g]
  BY <1>2, <1>8 DEF Kept
<1>12. \A x \in DOMAIN v.store[g].members : v.store[g].members[x] =< MaxRanks
  BY <1>4, <1>7, <1>8
<1>13. Ranked(Drained(d, v.pend), v.store[g], g)
  BY <1>2, <1>11, <1>12 DEF Ranked, InTables, LowestRank
<1>14. GradeValid(d, w, v, O, g)
  BY <1>2, <1>8, <1>10, <1>13 DEF GradeValid
<1> QED
  BY <1>3, <1>14

(* A guild object that has been written.                                   *)
LEMMA EditAt ==
    ASSUME NEW w \in HubType, NEW g \in DOMAIN w.store, NEW G, NEW q
    PROVE  ExecAll(Edit(w, g, G), q).store[g] = G
<1> DEFINE v == ExecAll(Edit(w, g, G), q)
<1>1. Form(w, w.store, w.inGuild, w.invited, w.storage, w.pend, w.strayed)
  BY HubForm
<1>2. Form(v, Place(w.store, g, G), w.inGuild, w.invited, w.storage, w.pend \o q, w.strayed)
  BY <1>1, ExecForm
<1> HIDE DEF v
<1>3. v.store = Place(w.store, g, G)
  BY <1>2 DEF Form
<1>4. Place(w.store, g, G)[g] = G
  BY DEF Place
<1> QED
  BY <1>3, <1>4 DEF v

(* What Validate makes of the ranks of a guild depends on that guild only. *)
LEMMA GradedLocal ==
    ASSUME NEW d, NEW w, NEW u, NEW O, Sound(d, w, O), Sound(d, u, O), NEW g,
           Unread(d, w, g), Unread(d, u, g), u.store[g] = w.store[g]
    PROVE  Graded(u, d, g).store[g] = Graded(w, d, g).store[g]
<1> DEFINE Ranks(G) == IF Len(G.ranks) \in MinRanks .. MaxRanks
                            /\ DOMAIN d.ranks[g] = 0 .. Len(G.ranks) - 1
                       THEN G ELSE [G EXCEPT !.ranks = DefaultRanks]
           Late(G) == {c \in DOMAIN G.members : G.members[c] > Len(G.ranks)}
           Members(G) ==
             [G EXCEPT !.members = [c \in DOMAIN @ |-> IF c \in Late(G) THEN LowestRank(G)
                                                                        ELSE @[c]]]
<1>1. ASSUME NEW x, Sound(d, x, O), Unread(d, x, g)
      PROVE  Graded(x, d, g).store[g] = Members(Ranks(x.store[g]))
  <2> DEFINE y == ValidateRanks(x, d, g)
             G == y.store[g]
             o == SetToSeq(Late(G))
             q == [i \in DOMAIN o |-> UpdRank(o[i], LowestRank(G))]
  <2>1. x \in HubType /\ g \in DOMAIN x.store
    BY <1>1, SoundIs DEF Unread
  <2>2. y.store[g] = Ranks(x.store[g])
    <3>1. CASE Len(x.store[g].ranks) \in MinRanks .. MaxRanks
                 /\ DOMAIN d.ranks[g] = 0 .. Len(x.store[g].ranks) - 1
      BY <3>1 DEF ValidateRanks
    <3>2. CASE ~(Len(x.store[g].ranks) \in MinRanks .. MaxRanks
                   /\ DOMAIN d.ranks[g] = 0 .. Len(x.store[g].ranks) - 1)
      <4> DEFINE H == [x.store[g] EXCEPT !.ranks = DefaultRanks]
                 l == <<DelRanks(g, 0)>> \o
                      [i \in 1 .. MinRanks |-> InsRank(g, i - 1, DefaultRanks[i])]
      <4>1. y = ExecAll(Edit(x, g, H), l)
        BY <3>2 DEF ValidateRanks
      <4>2. Ranks(x.store[g]) = H
        BY <3>2
      <4> HIDE DEF y, H, l, Ranks
      <4>3. ExecAll(Edit(x, g, H), l).store[g] = H
        BY <2>1, EditAt
      <4> QED
        BY <4>1, <4>2, <4>3
    <3> QED
      BY <3>1, <3>2
  <2>3. RankValid(d, x, y, O, g)
    BY <1>1, ValidateRanksSound
  <2> HIDE DEF y
  <2>4. y \in HubType /\ g \in DOMAIN y.store
    <3>1. Sound(d, y, O) /\ g \in DOMAIN y.store
      BY <2>3 DEF RankValid
    <3> QED
      BY <3>1, SoundIs
  <2>5. Graded(x, d, g) = ExecAll(Edit(y, g, Members(G)), q)
    BY DEF Graded, ValidateMembers, ChangeRanks, y
  <2> HIDE DEF q, Members, Ranks
  <2>6. ExecAll(Edit(y, g, Members(G)), q).store[g] = Members(G)
    BY <2>4, EditAt
  <2> QED
    BY <2>2, <2>5, <2>6
<1> HIDE DEF Members, Ranks
<1>2. /\ Graded(u, d, g).store[g] = Members(Ranks(u.store[g]))
      /\ Graded(w, d, g).store[g] = Members(Ranks(w.store[g]))
  BY <1>1
<1> QED
  BY <1>2

\* The leader of g is validated, or the guild was empty and is gone.
LeaderValid(d, u, v, g) ==
    /\ Sound(d, v, online) /\ Aside(d, u, v, g)
    /\ g \in DOMAIN v.store =>
         /\ Ranked(Drained(d, v.pend), v.store[g], g)
         /\ v.store[g].leader \in DOMAIN v.store[g].members
         /\ v.store[g].members[v.store[g].leader] = GuildMaster
         /\ DOMAIN v.store[g].members = DOMAIN u.store[g].members
    /\ g \notin DOMAIN v.store => DOMAIN u.store[g].members = {}

(* The guilds of a leader who is not a member.                             *)
LEMMA LeaderOnly ==
    ASSUME NEW d, NEW w, NEW O, Sound(d, w, O), NEW g \in DOMAIN w.store, NEW c \in Char,
           c = w.store[g].leader
    PROVE  c \notin w.strayed => GuildsOf(w.store, c) \subseteq {g}
<1> SUFFICES ASSUME c \notin w.strayed PROVE GuildsOf(w.store, c) \subseteq {g}
  OBVIOUS
<1> DEFINE e == Drained(d, w.pend)
<1>1. Fit(e, w.strayed)
  BY SoundIs
<1>2. At(e, w, O, c) /\ g \in DOMAIN e.guild /\ e.guild[g] = c
  BY DEF Sound, Mirrors
<1>3. GuildRow(e, c) \in {g, None}
  BY <1>1, <1>2 DEF Fit, Astray
<1> QED
  BY <1>2, <1>3 DEF At

(* SetLeaderGUID of a member validates the leader.                         *)
LEMMA SetLeaderValid ==
    ASSUME NEW d, NEW u, Sound(d, u, online), NEW g \in DOMAIN u.store,
           Ranked(Drained(d, u.pend), u.store[g], g), NEW x \in DOMAIN u.store[g].members
    PROVE  LET v == SetLeaderGUID(u, g, x)
           IN  /\ LeaderValid(d, u, v, g) /\ g \in DOMAIN v.store /\ v.store[g].leader = x
               /\ v.strayed = u.strayed /\ \A c : GuildsOf(v.store, c) = GuildsOf(u.store, c)
<1> DEFINE v == SetLeaderGUID(u, g, x)
<1>1. /\ Sound(d, v, online) /\ Kept(d, u, v)
      /\ v.strayed = u.strayed /\ DOMAIN v.store = DOMAIN u.store
      /\ \A h \in DOMAIN u.store \ {g} : v.store[h] = u.store[h]
      /\ v.store[g].leader = x
      /\ DOMAIN v.store[g].members = DOMAIN u.store[g].members
      /\ \A y \in DOMAIN u.store[g].members :
           v.store[g].members[y] = IF y = x THEN GuildMaster ELSE u.store[g].members[y]
  BY SetLeaderSound
<1> HIDE DEF v
<1>2. Aside(d, u, v, g)
  BY <1>1, AsideKept
<1>3. \A y \in DOMAIN v.store[g].members : v.store[g].members[y] =< MaxRanks
  BY <1>1, GuildsAssumption DEF Ranked, GuildMaster
<1>4. Ranked(Drained(d, v.pend), v.store[g], g)
  <2>1. /\ v.store[g].ranks = u.store[g].ranks
        /\ Drained(d, v.pend).ranks[g] = Drained(d, u.pend).ranks[g]
    BY <1>1 DEF Kept
  <2> QED
    BY <1>3, <2>1 DEF Ranked, LowestRank
<1>5. LeaderValid(d, u, v, g)
  BY <1>1, <1>2, <1>4 DEF LeaderValid
<1>6. \A c : GuildsOf(v.store, c) = GuildsOf(u.store, c)
  BY <1>1 DEF GuildsOf
<1> QED
  BY <1>1, <1>5, <1>6 DEF v

(* Validate: the leader.                                                   *)
LEMMA ValidateLeaderSound ==
    ASSUME NEW d, NEW u, Sound(d, u, online), NEW g \in DOMAIN u.store,
           Ranked(Drained(d, u.pend), u.store[g], g), NEW x, x \in Successors(u.store[g])
    PROVE  LeaderValid(d, u, ValidateLeader(u, g, x), g)
<1> DEFINE G == u.store[g]
           l == G.leader
           v == ValidateLeader(u, g, x)
<1>1. G \in GuildObject /\ l \in Char
  BY SoundIs, StoreIs
<1>2. CASE l \notin DOMAIN G.members /\ DOMAIN G.members = {}
  <2>1. Heirs(G, l) = {}
    BY <1>2 DEF Heirs
  <2>2. v = Disband(u, g, SetToSeq(DOMAIN G.members))
    BY <1>2, <2>1 DEF ValidateLeader, DeleteMember
  <2>3. SetToSeq(DOMAIN G.members) \in SetToSeqs(DOMAIN G.members)
    BY <1>1, GuildIs, OrderIs
  <2>4. /\ Sound(d, v, online) /\ Kept(d, u, v)
        /\ DOMAIN v.store = DOMAIN u.store \ {g}
        /\ \A h \in DOMAIN v.store : v.store[h] = u.store[h]
    BY <2>2, <2>3, DisbandSound
  <2> HIDE DEF v
  <2>5. Aside(d, u, v, g)
    BY <2>4, AsideKept
  <2>6. LeaderValid(d, u, v, g)
    BY <1>2, <2>4, <2>5 DEF LeaderValid
  <2> QED
    BY <2>6 DEF v
<1>3. CASE l \notin DOMAIN G.members /\ DOMAIN G.members # {}
  <2> DEFINE s == SetLeaderGUID(u, g, x)
  <2>1. x \in Heirs(G, l)
    BY <1>3 DEF Successors
  <2>2. Heirs(G, l) # {} /\ x \in DOMAIN G.members
    BY <2>1 DEF Heirs
  <2>3. v = Drop(s, g, l)
    BY <1>3, <2>2 DEF ValidateLeader, DeleteMember
  <2>4. /\ LeaderValid(d, u, s, g) /\ g \in DOMAIN s.store /\ s.store[g].leader = x
        /\ s.strayed = u.strayed /\ GuildsOf(s.store, l) = GuildsOf(u.store, l)
    <3>1. x \in DOMAIN u.store[g].members
      BY <2>2
    <3> QED
      BY <3>1, SetLeaderValid, SMTT(40)
  <2> HIDE DEF s
  <2>5. /\ Sound(d, s, online) /\ Aside(d, u, s, g)
        /\ Ranked(Drained(d, s.pend), s.store[g], g)
        /\ s.store[g].members[x] = GuildMaster
        /\ DOMAIN s.store[g].members = DOMAIN u.store[g].members
    BY <2>4 DEF LeaderValid
  <2>6. l \notin s.strayed => GuildsOf(s.store, l) \subseteq {g}
    BY <1>1, <2>4, LeaderOnly
  <2>7. /\ Sound(d, v, online) /\ Kept(d, s, v)
        /\ DOMAIN v.store = DOMAIN s.store
        /\ \A h \in DOMAIN s.store \ {g} : v.store[h] = s.store[h]
        /\ v.store[g].leader = s.store[g].leader
        /\ DOMAIN v.store[g].members = DOMAIN s.store[g].members \ {l}
        /\ \A y \in DOMAIN v.store[g].members : v.store[g].members[y] = s.store[g].members[y]
    <3> HIDE DEF v, l
    <3> QED
      BY <1>1, <2>3, <2>4, <2>5, <2>6, DropSound
  <2> HIDE DEF v
  <2>8. Aside(d, u, v, g)
    <3>1. Aside(d, s, v, g)
      BY <2>7, AsideKept
    <3> QED
      BY <2>5, <3>1, AsideTwice
  <2>9. DOMAIN v.store[g].members = DOMAIN G.members
    BY <1>3, <2>5, <2>7
  <2>10. Ranked(Drained(d, v.pend), v.store[g], g)
    <3>1. /\ v.store[g].ranks = s.store[g].ranks
          /\ Drained(d, v.pend).ranks[g] = Drained(d, s.pend).ranks[g]
      BY <2>4, <2>7 DEF Kept
    <3>2. \A y \in DOMAIN v.store[g].members : v.store[g].members[y] =< MaxRanks
      BY <2>5, <2>7 DEF Ranked
    <3> QED
      BY <2>5, <3>1, <3>2 DEF Ranked, LowestRank
  <2>11. LeaderValid(d, u, v, g)
    BY <2>2, <2>4, <2>5, <2>7, <2>8, <2>9, <2>10 DEF LeaderValid
  <2> QED
    BY <2>11 DEF v
<1>4. CASE l \in DOMAIN G.members /\ G.members[l] # GuildMaster
  <2>1. v = SetLeaderGUID(u, g, l)
    BY <1>4 DEF ValidateLeader
  <2>2. LeaderValid(d, u, SetLeaderGUID(u, g, l), g)
    BY <1>4, SetLeaderValid
  <2> QED
    BY <2>1, <2>2
<1>5. CASE l \in DOMAIN G.members /\ G.members[l] = GuildMaster
  <2>1. v = u
    BY <1>5 DEF ValidateLeader
  <2>2. Aside(d, u, u, g)
    BY DEF Aside
  <2>3. LeaderValid(d, u, u, g)
    BY <1>5, <2>2 DEF LeaderValid
  <2> QED
    BY <2>1, <2>3
<1> QED
  BY <1>2, <1>3, <1>4, <1>5

\* The guild g is validated, or it was empty and is gone.
Restored(d, w, v, g) ==
    /\ Sound(d, v, online) /\ Aside(d, w, v, g)
    /\ g \in DOMAIN v.store =>
         /\ Ranked(Drained(d, v.pend), v.store[g], g) /\ Led(v.store[g])
         /\ v.store[g].members[v.store[g].leader] = GuildMaster
         /\ DOMAIN v.store[g].members = DOMAIN w.store[g].members
    /\ g \notin DOMAIN v.store => DOMAIN w.store[g].members = {}

(* Validate: no other guild master.                                        *)
LEMMA ValidateMastersSound ==
    ASSUME NEW d, NEW w, NEW u, NEW g, LeaderValid(d, w, u, g)
    PROVE  Restored(d, w, ValidateMasters(u, g), g)
<1> DEFINE v == ValidateMasters(u, g)
           G == u.store[g]
           C == {c \in DOMAIN G.members \ {G.leader} : G.members[c] = GuildMaster}
<1>1. Sound(d, u, online) /\ Aside(d, w, u, g)
  BY DEF LeaderValid
<1>2. CASE g \notin DOMAIN u.store
  <2>1. v = u
    BY <1>2 DEF ValidateMasters
  <2> HIDE DEF v
  <2> QED
    BY <1>1, <1>2, <2>1 DEF Restored, LeaderValid, v
<1>3. CASE g \in DOMAIN u.store
  <2>1. v = ChangeRanks(u, g, C, Officer)
    BY <1>3 DEF ValidateMasters
  <2>2. /\ Ranked(Drained(d, u.pend), G, g) /\ G.leader \in DOMAIN G.members
        /\ G.members[G.leader] = GuildMaster /\ DOMAIN G.members = DOMAIN w.store[g].members
    BY <1>3 DEF LeaderValid
  <2>3. C \subseteq DOMAIN G.members /\ Officer \in RankId /\ G.leader \notin C
    BY GuildsAssumption DEF Officer, RankId
  <2>4. \A c \in DOMAIN G.members \ C : G.members[c] = GuildMaster => c = G.leader
    OBVIOUS
  <2> HIDE DEF C, v
  <2>5. Promoted(d, u, v, online, g, C, Officer)
    BY <1>1, <1>3, <2>1, <2>3, ChangeRanksSound
  <2>6. /\ Sound(d, v, online) /\ Kept(d, u, v) /\ DOMAIN v.store = DOMAIN u.store
        /\ \A h \in DOMAIN u.store \ {g} : v.store[h] = u.store[h]
        /\ v.store[g].leader = u.store[g].leader
        /\ DOMAIN v.store[g].members = DOMAIN u.store[g].members
        /\ \A x \in DOMAIN u.store[g].members :
             v.store[g].members[x] = IF x \in C THEN Officer ELSE u.store[g].members[x]
    BY <2>5 DEF Promoted
  <2>7. Aside(d, w, v, g)
    <3>1. Aside(d, u, v, g)
      BY <2>6, AsideKept
    <3> QED
      BY <1>1, <3>1, AsideTwice
  <2>8. Led(v.store[g])
    BY <2>2, <2>4, <2>6 DEF Led, GuildMaster, Officer
  <2>9. Ranked(Drained(d, v.pend), v.store[g], g)
    <3>1. /\ v.store[g].ranks = u.store[g].ranks
          /\ Drained(d, v.pend).ranks[g] = Drained(d, u.pend).ranks[g]
      BY <1>3, <2>6 DEF Kept
    <3>2. \A y \in DOMAIN v.store[g].members : v.store[g].members[y] =< MaxRanks
      BY <2>2, <2>6, GuildsAssumption DEF Ranked, Officer
    <3> QED
      BY <2>2, <3>1, <3>2 DEF Ranked, LowestRank
  <2>10. v.store[g].members[v.store[g].leader] = GuildMaster
    BY <2>2, <2>3, <2>6
  <2>11. Restored(d, w, v, g)
    BY <1>3, <2>2, <2>6, <2>7, <2>8, <2>9, <2>10 DEF Restored
  <2> QED
    BY <2>11 DEF v
<1> QED
  BY <1>2, <1>3

(* Validate.                                                               *)
LEMMA ValidateSound ==
    ASSUME NEW d, NEW w, Sound(d, w, online), NEW g, Unread(d, w, g), NEW x,
           x \in Successors(Graded(w, d, g).store[g])
    PROVE  Restored(d, w, Validate(w, d, g, x), g)
<1> DEFINE u == Graded(w, d, g)
           s == ValidateLeader(u, g, x)
           v == ValidateMasters(s, g)
<1>1. GradeValid(d, w, u, online, g)
  BY GradedSound
<1>2. Validate(w, d, g, x) = v
  BY DEF Validate
<1> HIDE DEF u
<1>3. /\ Sound(d, u, online) /\ Aside(d, w, u, g) /\ g \in DOMAIN u.store
      /\ Ranked(Drained(d, u.pend), u.store[g], g)
  BY <1>1 DEF GradeValid
<1>4. x \in Successors(u.store[g])
  BY DEF u
<1>5. LeaderValid(d, u, s, g)
  BY <1>3, <1>4, ValidateLeaderSound
<1> HIDE DEF s
<1>6. Restored(d, u, v, g)
  BY <1>5, ValidateMastersSound
<1> HIDE DEF v
<1>7. Aside(d, w, v, g)
  <2>1. Aside(d, u, v, g)
    BY <1>6 DEF Restored
  <2> QED
    BY <1>3, <2>1, AsideTwice
<1>8. DOMAIN u.store[g].members = DOMAIN w.store[g].members
  BY <1>1 DEF GradeValid
<1>9. Restored(d, w, v, g)
  BY <1>6, <1>7, <1>8 DEF Restored
<1> QED
  BY <1>2, <1>9

(* Validated starts with the hub as it is loaded, and takes a guild at a   *)
(* time.                                                                   *)
LEMMA ValidatedIs ==
    ASSUME NEW w, NEW d, NEW p, NEW b, Len(p) \in Nat
    PROVE  /\ Validated(w, d, p, b)[0] = w
           /\ \A n \in 1 .. Len(p) :
                Validated(w, d, p, b)[n] = Validate(Validated(w, d, p, b)[n - 1], d, p[n], b[p[n]])
<1> DEFINE Runs(m, f) ==
             f = [n \in 0 .. m |-> IF n = 0 THEN w ELSE Validate(f[n - 1], d, p[n], b[p[n]])]
           S == {m \in Nat : \E f : Runs(m, f)}
<1>1. 0 \in S
  <2> DEFINE f == [n \in 0 .. 0 |-> w]
  <2>1. Runs(0, f)
    OBVIOUS
  <2> QED
    BY <2>1
<1>2. ASSUME NEW m \in Nat, m \in S
      PROVE  m + 1 \in S
  <2>1. PICK f : Runs(m, f)
    BY <1>2
  <2> DEFINE h == [n \in 0 .. m + 1 |-> IF n < m + 1 THEN f[n]
                                        ELSE Validate(f[m], d, p[m + 1], b[p[m + 1]])]
  <2>2. \A n \in 0 .. m : f[n] = IF n = 0 THEN w ELSE Validate(f[n - 1], d, p[n], b[p[n]])
    BY <2>1
  <2>3. ASSUME NEW n \in 0 .. m + 1
        PROVE  h[n] = IF n = 0 THEN w ELSE Validate(h[n - 1], d, p[n], b[p[n]])
    <3>1. CASE n < m + 1
      <4>1. n \in 0 .. m /\ h[n] = f[n] /\ (n # 0 => n - 1 \in 0 .. m + 1 /\ h[n - 1] = f[n - 1])
        BY <3>1
      <4> HIDE DEF h
      <4> QED
        BY <2>2, <4>1
    <3>2. CASE ~(n < m + 1)
      <4>1. n = m + 1 /\ n # 0 /\ n - 1 = m /\ h[n - 1] = f[m]
        BY <3>2
      <4>2. h[m + 1] = Validate(f[m], d, p[m + 1], b[p[m + 1]])
        OBVIOUS
      <4> HIDE DEF h
      <4> QED
        BY <4>1, <4>2
    <3> QED
      BY <3>1, <3>2
  <2>4. h = [n \in 0 .. m + 1 |-> h[n]]
    OBVIOUS
  <2>5. Runs(m + 1, h)
    BY <2>3, <2>4
  <2> HIDE DEF Runs, h
  <2>6. \E g : Runs(m + 1, g)
    BY <2>5
  <2> QED
    BY <2>6
<1> HIDE DEF S, Runs
<1>3. S = Nat
  BY <1>1, <1>2, Induction DEF S
<1>4. PICK f : Runs(Len(p), f)
  BY <1>3 DEF S
<1>5. Validated(w, d, p, b) = CHOOSE h : Runs(Len(p), h)
  BY DEF Validated, Runs
<1>6. Runs(Len(p), Validated(w, d, p, b))
  BY <1>4, <1>5
<1> QED
  BY <1>6 DEF Runs

\* The guild h of w is validated in v, or it was empty and is gone.
Done(d, w, v, h) ==
    /\ h \in DOMAIN v.store =>
         /\ Ranked(Drained(d, v.pend), v.store[h], h) /\ Led(v.store[h])
         /\ v.store[h].members[v.store[h].leader] = GuildMaster
         /\ DOMAIN v.store[h].members = DOMAIN w.store[h].members
    /\ h \notin DOMAIN v.store => DOMAIN w.store[h].members = {}

\* It waits for its turn.
Waiting(d, w, v, h) ==
    /\ h \in DOMAIN v.store /\ v.store[h] = w.store[h]
    /\ Drained(d, v.pend).ranks[h] = d.ranks[h]

(* A step for one guild leaves the others as they are.                     *)
LEMMA OthersStay ==
    ASSUME NEW d, NEW w, NEW u, NEW v, NEW g, NEW h, Aside(d, u, v, g), h # g
    PROVE  /\ Done(d, w, u, h) => Done(d, w, v, h)
           /\ Waiting(d, w, u, h) => Waiting(d, w, v, h)
<1>1. h \in DOMAIN v.store <=> h \in DOMAIN u.store
  BY DEF Aside
<1>2. h \in DOMAIN u.store => /\ v.store[h] = u.store[h]
                              /\ Drained(d, v.pend).ranks[h] = Drained(d, u.pend).ranks[h]
  BY DEF Aside
<1>3. ASSUME Done(d, w, u, h) PROVE Done(d, w, v, h)
  BY <1>1, <1>2, <1>3 DEF Done, Ranked
<1>4. ASSUME Waiting(d, w, u, h) PROVE Waiting(d, w, v, h)
  BY <1>1, <1>2, <1>4 DEF Waiting
<1> QED
  BY <1>3, <1>4

\* The guilds up to the k-th of the order o are validated.
Upto(d, w, o, k, u) ==
    /\ Sound(d, u, online) /\ DOMAIN u.store \subseteq DOMAIN w.store
    /\ \A j \in 1 .. Len(o) : IF j =< k THEN Done(d, w, u, o[j]) ELSE Waiting(d, w, u, o[j])

\* A start of the hub: what it reads, the order and the successors.
Start(d, w, o, b) ==
    /\ Sound(d, w, online) /\ Len(o) \in Nat
    /\ \A i, j \in 1 .. Len(o) : o[i] = o[j] => i = j
    /\ \A j \in 1 .. Len(o) : /\ Unread(d, w, o[j])
                              /\ b[o[j]] \in Successors(Graded(w, d, o[j]).store[o[j]])

(* One guild more.                                                         *)
LEMMA UptoNext ==
    ASSUME NEW d, NEW w, NEW o, NEW b, Start(d, w, o, b), NEW k \in Nat, k < Len(o), NEW u,
           Upto(d, w, o, k, u), NEW m, m = k + 1
    PROVE  Upto(d, w, o, m, Validate(u, d, o[m], b[o[m]]))
<1> DEFINE g == o[m]
           v == Validate(u, d, g, b[g])
<1>1. m \in 1 .. Len(o) /\ ~(m =< k) /\ Len(o) \in Nat
  BY DEF Start
<1>2. Sound(d, u, online) /\ DOMAIN u.store \subseteq DOMAIN w.store /\ Waiting(d, w, u, g)
  BY <1>1 DEF Upto
<1>3. Sound(d, w, online) /\ Unread(d, w, g) /\ b[g] \in Successors(Graded(w, d, g).store[g])
  BY <1>1 DEF Start
<1> HIDE DEF g
<1>4. Unread(d, u, g) /\ u.store[g] = w.store[g]
  BY <1>2, <1>3 DEF Unread, Waiting
<1>5. Graded(u, d, g).store[g] = Graded(w, d, g).store[g]
  BY <1>2, <1>3, <1>4, GradedLocal
<1>6. Restored(d, u, v, g)
  <2>1. b[g] \in Successors(Graded(u, d, g).store[g])
    BY <1>3, <1>5
  <2> QED
    BY <1>2, <1>4, <2>1, ValidateSound
<1> HIDE DEF v
<1>7. Sound(d, v, online) /\ Aside(d, u, v, g) /\ DOMAIN v.store \subseteq DOMAIN w.store
  BY <1>2, <1>6 DEF Restored, Aside
<1>8. Done(d, w, v, g)
  BY <1>4, <1>6 DEF Restored, Done
<1>9. ASSUME NEW j \in 1 .. Len(o)
      PROVE  IF j =< m THEN Done(d, w, v, o[j]) ELSE Waiting(d, w, v, o[j])
  <2>1. CASE j = m
    BY <1>1, <1>8, <2>1 DEF g
  <2>2. CASE j # m
    <3>1. o[j] # g /\ (j =< m <=> j =< k)
      BY <1>1, <2>2 DEF Start, g
    <3>2. IF j =< k THEN Done(d, w, u, o[j]) ELSE Waiting(d, w, u, o[j])
      BY DEF Upto
    <3> QED
      BY <1>7, <3>1, <3>2, OthersStay
  <2> QED
    BY <2>1, <2>2
<1>10. Upto(d, w, o, m, v)
  BY <1>7, <1>9 DEF Upto
<1> QED
  BY <1>10 DEF v, g

(* All guilds.                                                             *)
LEMMA ValidatedSound ==
    ASSUME NEW d, NEW w, NEW o, NEW b, Start(d, w, o, b)
    PROVE  Upto(d, w, o, Len(o), Validated(w, d, o, b)[Len(o)])
<1> DEFINE A == Validated(w, d, o, b)
           S == {n \in Nat : n =< Len(o) => Upto(d, w, o, n, A[n])}
<1>1. Len(o) \in Nat /\ Sound(d, w, online)
  BY DEF Start
<1>2. A[0] = w /\ \A n \in 1 .. Len(o) : A[n] = Validate(A[n - 1], d, o[n], b[o[n]])
  BY <1>1, ValidatedIs
<1> HIDE DEF A
<1>3. 0 \in S
  <2>1. ASSUME NEW j \in 1 .. Len(o) PROVE Waiting(d, w, w, o[j]) /\ ~(j =< 0)
    <3>1. Unread(d, w, o[j])
      BY DEF Start
    <3> QED
      BY <1>1, <3>1 DEF Unread, Waiting
  <2> QED
    BY <1>1, <1>2, <2>1 DEF Upto
<1>4. ASSUME NEW n \in Nat, n \in S
      PROVE  n + 1 \in S
  <2> DEFINE m == n + 1
  <2> SUFFICES ASSUME m =< Len(o) PROVE Upto(d, w, o, m, A[m])
    OBVIOUS
  <2>1. n < Len(o) /\ m \in 1 .. Len(o) /\ m - 1 = n /\ m = n + 1
    BY <1>1
  <2>2. Upto(d, w, o, n, A[n])
    BY <1>1, <1>4, <2>1
  <2>3. A[m] = Validate(A[n], d, o[m], b[o[m]])
    BY <1>2, <2>1
  <2> HIDE DEF m
  <2>4. Upto(d, w, o, m, Validate(A[n], d, o[m], b[o[m]]))
    BY <2>1, <2>2, UptoNext
  <2> QED
    BY <2>3, <2>4
<1> HIDE DEF S
<1>5. S = Nat
  BY <1>3, <1>4, Induction DEF S
<1>6. Upto(d, w, o, Len(o), A[Len(o)])
  BY <1>1, <1>5 DEF S
<1> QED
  BY <1>6 DEF A

-----------------------------------------------------------------------------
(* The steps of the hub.                                                   *)

\* Only players and invitations change from w to v; P are the players online.
\* What is known of those who have not strayed is what it was.
Greeted(w, v, P) ==
    /\ v \in HubType /\ v.store = w.store /\ v.pend = w.pend /\ w.strayed \subseteq v.strayed
    /\ \A c \in Char \ v.strayed :
         v.storage[c] = w.storage[c] /\ (c \in P => v.inGuild[c] = w.storage[c])

(* A step of a player keeps the hub sound.                                 *)
LEMMA GreetedSound ==
    ASSUME NEW d, NEW w, NEW O, Sound(d, w, O), NEW v, NEW P, Greeted(w, v, P)
    PROVE  Sound(d, v, P)
<1>1. v.store = w.store /\ v.pend = w.pend /\ w.strayed \subseteq v.strayed /\ v \in HubType
  BY DEF Greeted
<1>2. Safe(d, v.pend, v.strayed)
  <2>1. Safe(d, w.pend, w.strayed)
    BY DEF Sound
  <2>2. Safe(d, w.pend, v.strayed)
    BY <1>1, <2>1, SafeWider
  <2> QED
    BY <1>1, <2>2
<1>3. Mirrors(Drained(d, v.pend), v.store)
  BY <1>1 DEF Sound
<1>4. ASSUME NEW c \in Char \ v.strayed
      PROVE  At(Drained(d, v.pend), v, P, c)
  <2>1. At(Drained(d, w.pend), w, O, c)
    BY <1>1 DEF Sound
  <2>2. v.storage[c] = w.storage[c] /\ (c \in P => v.inGuild[c] = w.storage[c])
    BY DEF Greeted
  <2> QED
    BY <1>1, <2>1, <2>2 DEF At
<1> QED
  BY <1>1, <1>2, <1>3, <1>4 DEF Sound

\* The hub is down.
Halted ==
    /\ store = [g \in {} |-> None] /\ pend = <<>> /\ online = {} /\ found = {}
    /\ inGuild = Nobody /\ invited = Nobody /\ storage = Nobody
    /\ strayed \subseteq Char /\ Fit(db, strayed)

\* The inductive invariant.
GuildInv ==
    /\ up \in BOOLEAN /\ found \subseteq online /\ online \subseteq Char
    /\ view \in [Char -> Guild \cup {None}]
    /\ IF up THEN Good(db, Hub) ELSE Halted

(* The hub takes the value of an operation.                                *)
LEMMA Commit ==
    ASSUME NEW STATE v, Good(db, v), Becomes(v), UNCHANGED <<online, db>>
    PROVE  Good(db, Hub)'
<1>1. v \in HubType
  BY SoundIs DEF Good
<1>2. Hub' = v
  <2>1. Hub' = [store |-> v.store, inGuild |-> v.inGuild, invited |-> v.invited,
                storage |-> v.storage, pend |-> v.pend, strayed |-> v.strayed]
    BY DEF Hub, Becomes
  <2> QED
    BY <1>1, <2>1, HubIs
<1>3. online' = online /\ db' = db
  OBVIOUS
<1> QED
  BY <1>2, <1>3 DEF Good

(* A step of a player.                                                     *)
LEMMA Greet ==
    ASSUME Good(db, Hub), Greeted(Hub, Hub', online'), db' = db
    PROVE  Good(db, Hub)'
<1>1. Sound(db, Hub, online)
  BY DEF Good
<1>2. Sound(db, Hub', online')
  BY <1>1, GreetedSound
<1>3. Hub'.store = Hub.store /\ Hub'.pend = Hub.pend
  BY DEF Greeted
<1>4. \A h \in DOMAIN Hub.store : Ranked(Drained(db, Hub.pend), Hub.store[h], h) /\ Led(Hub.store[h])
  BY DEF Good
<1>5. \A h \in DOMAIN Hub'.store : Ranked(Drained(db, Hub'.pend), Hub'.store[h], h) /\ Led(Hub'.store[h])
  BY <1>3, <1>4
<1> QED
  BY <1>2, <1>5 DEF Good

(* The hub as a value is one of HubType, if it is sound.                   *)
LEMMA HubFields ==
    /\ Hub.store = store /\ Hub.inGuild = inGuild /\ Hub.invited = invited
    /\ Hub.storage = storage /\ Hub.pend = pend /\ Hub.strayed = strayed
  BY DEF Hub

(* The types of the parts of a hub that is up.                             *)
LEMMA UpTypes ==
    ASSUME Good(db, Hub)
    PROVE  /\ Hub \in HubType /\ store \in Store /\ inGuild \in [Char -> Guild \cup {None}]
           /\ invited \in [Char -> Nat] /\ storage \in [Char -> Guild \cup {None}]
           /\ pend \in Seq(Statement) /\ strayed \subseteq Char
<1>1. Hub \in HubType
  BY SoundIs DEF Good
<1> QED
  BY <1>1, HubFields, HubIs

(* The opcodes of guilds.                                                  *)
LEMMA OpcodeStepGood ==
    ASSUME Good(db, Hub), found \subseteq online, online \subseteq Char,
           NEW c \in online, NEW g \in DOMAIN store, OpcodeStep(c, g)
    PROVE  Good(db, Hub)'
<1> DEFINE G == store[g]
<1>1. /\ c \in Char /\ g \in DOMAIN Hub.store /\ Hub.store[g] = G /\ Hub.inGuild = inGuild
      /\ Hub \in HubType /\ G \in GuildObject /\ DOMAIN G.members \subseteq Char
      /\ \A x \in DOMAIN G.members : G.members[x] \in Nat
  <2>1. c \in Char /\ Hub \in HubType /\ store \in Store
    BY UpTypes
  <2>2. G \in GuildObject /\ DOMAIN G.members \subseteq Char
        /\ G.members \in [DOMAIN G.members -> RankId]
    BY <2>1, StoreIs
  <2> QED
    BY <2>1, <2>2, HubFields DEF RankId
<1>2. Ranked(Drained(db, Hub.pend), G, g) /\ Led(G)
  BY <1>1 DEF Good
<1>3. CASE HandleGuildAcceptOpcode(c, g)
  <2>1. inGuild[c] = None /\ Becomes(AddMember(Hub, g, c)) /\ UNCHANGED <<online, db>>
    BY <1>3 DEF HandleGuildAcceptOpcode, Rest
  <2>2. Good(db, AddMember(Hub, g, c))
    BY <1>1, <2>1, AddMemberGood
  <2> QED
    BY <2>1, <2>2, Commit
<1>4. CASE HandleLeaveMember(c, g)
  <2>1. inGuild[c] = g /\ UNCHANGED <<online, db>>
    BY <1>4 DEF HandleLeaveMember, Opcode, Rest
  <2>2. CASE ~IsLeader(G, c) /\ Becomes(DeleteMember(Hub, g, c, None))
    <3>1. G.leader # c
      BY <2>2 DEF IsLeader
    <3>2. c \notin Hub.strayed => GuildsOf(Hub.store, c) \subseteq {g}
      BY <1>1, <2>1, OnlyGuild
    <3>3. Good(db, DeleteMember(Hub, g, c, None))
      BY <1>1, <3>1, <3>2, DeleteGood
    <3> QED
      BY <2>1, <2>2, <3>3, Commit
  <2>3. CASE Becomes(Disband(Hub, g, SetToSeq(DOMAIN G.members)))
    <3>1. SetToSeq(DOMAIN G.members) \in SetToSeqs(DOMAIN G.members)
      BY <1>1, OrderIs
    <3>2. Good(db, Disband(Hub, g, SetToSeq(DOMAIN G.members)))
      BY <1>1, <3>1, DisbandGood
    <3> QED
      BY <2>1, <2>3, <3>2, Commit
  <2> QED
    BY <1>4, <2>2, <2>3 DEF HandleLeaveMember
<1>5. CASE HandleAddNewRank(c, g)
  <2> DEFINE v == Exec(Edit(Hub, g, [G EXCEPT !.ranks = Append(@, NewRights)]),
                       InsRank(g, Len(G.ranks), NewRights))
  <2>1. Len(G.ranks) < MaxRanks /\ Becomes(v) /\ UNCHANGED <<online, db>>
    BY <1>5 DEF HandleAddNewRank, Opcode, Rest
  <2>2. Good(db, v)
    BY <1>1, <2>1, AddRankGood
  <2> HIDE DEF v
  <2> QED
    BY <2>1, <2>2, Commit
<1>6. CASE HandleRemoveLowestRank(c, g)
  <2> DEFINE v == Exec(Edit(Hub, g, [G EXCEPT !.ranks = Front(@)]), DelRanks(g, LowestRank(G)))
  <2>1. Len(G.ranks) > MinRanks /\ Becomes(v) /\ UNCHANGED <<online, db>>
    BY <1>6 DEF HandleRemoveLowestRank, MayRemoveRank, Opcode, Rest
  <2>2. Good(db, v)
    BY <1>1, <2>1, RemoveRankGood
  <2> HIDE DEF v
  <2> QED
    BY <2>1, <2>2, Commit
<1>7. ASSUME NEW y \in Char, HandleInviteMember(c, g, y)
      PROVE  Good(db, Hub)'
  <2> DEFINE n == [invited EXCEPT ![y] = g]
             v == [Hub EXCEPT !.invited[y] = g]
  <2>1. Becomes(v) /\ UNCHANGED <<online, db>>
    BY <1>7 DEF HandleInviteMember, Opcode, Rest
  <2>2. /\ store' = store /\ inGuild' = inGuild /\ invited' = n /\ storage' = storage
        /\ pend' = pend /\ strayed' = strayed
    BY <2>1 DEF Becomes, Hub
  <2>3. n \in [Char -> Nat]
    <3>1. g \in Nat
      BY UpTypes, StoreIs, GuildsAssumption
    <3> QED
      BY <3>1, UpTypes
  <2> HIDE DEF n
  <2>4. Hub' \in HubType
    BY <2>2, <2>3, UpTypes DEF Hub, HubType
  <2>5. Greeted(Hub, Hub', online')
    <3>1. \A x \in Char \ Hub.strayed : x \in online => Hub.inGuild[x] = Hub.storage[x]
      BY DEF Good, Sound, At
    <3>2. /\ Hub'.store = Hub.store /\ Hub'.pend = Hub.pend /\ Hub'.strayed = Hub.strayed
          /\ Hub'.storage = Hub.storage /\ Hub'.inGuild = Hub.inGuild
      BY <2>2 DEF Hub
    <3> QED
      BY <2>1, <2>4, <3>1, <3>2 DEF Greeted
  <2> QED
    BY <2>1, <2>5, Greet
<1>8. ASSUME NEW y \in Char, HandleSetLeader(c, g, y)
      PROVE  Good(db, Hub)'
  <2> DEFINE v == ChangeRank(SetLeaderGUID(Hub, g, y), g, c, Officer)
  <2>1. IsLeader(G, c) /\ c \in DOMAIN G.members /\ y \in DOMAIN G.members /\ Becomes(v)
        /\ UNCHANGED <<online, db>>
    BY <1>8 DEF HandleSetLeader, Opcode, Rest
  <2>2. Good(db, v)
    BY <1>1, <2>1, HandOverGood
  <2> HIDE DEF v
  <2> QED
    BY <2>1, <2>2, Commit
<1>9. ASSUME NEW y \in Char, NEW h, HandleRemoveMember(c, g, y, h)
      PROVE  Good(db, Hub)'
  <2> DEFINE v == DeleteMember(Hub, g, y, h)
  <2>1. /\ y \in DOMAIN G.members /\ Becomes(v) /\ UNCHANGED <<online, db>>
        /\ G.leader = y => h \in Heirs(G, y)
    BY <1>9 DEF HandleRemoveMember, Opcode, Rest
  <2>2. y \notin Hub.strayed => GuildsOf(Hub.store, y) \subseteq {g}
    BY <1>1, <2>1, OnlyGuild
  <2>3. Good(db, v)
    BY <1>1, <2>1, <2>2, DeleteGood
  <2> HIDE DEF v
  <2> QED
    BY <2>1, <2>3, Commit
<1>10. ASSUME NEW y \in Char, NEW demote \in BOOLEAN, HandleUpdateMemberRank(c, g, y, demote)
       PROVE  Good(db, Hub)'
  <2> DEFINE r == IF demote THEN G.members[y] + 1 ELSE G.members[y] - 1
             v == ChangeRank(Hub, g, y, r)
  <2>1. /\ y \in DOMAIN G.members /\ c \in DOMAIN G.members /\ Becomes(v) /\ UNCHANGED <<online, db>>
        /\ IF demote THEN G.members[y] > G.members[c] /\ G.members[y] < LowestRank(G)
                     ELSE G.members[y] > G.members[c] + 1
    BY <1>10 DEF HandleUpdateMemberRank, MayPromote, HasRankRight, Opcode, Rest
  <2>2. r \in 1 .. MaxRanks
    <3>1. /\ G.members[y] \in Nat /\ G.members[c] \in Nat /\ G.members[y] =< MaxRanks
          /\ LowestRank(G) = Len(G.ranks) - 1 /\ Len(G.ranks) \in MinRanks .. MaxRanks
      BY <1>1, <1>2, <2>1 DEF Ranked, LowestRank
    <3> DEFINE a == G.members[y]
               b == G.members[c]
               l == Len(G.ranks)
    <3>2. a \in Nat /\ b \in Nat /\ a =< MaxRanks /\ l \in MinRanks .. MaxRanks
      BY <3>1
    <3>3. IF demote THEN a > b /\ a < l - 1 ELSE a > b + 1
      BY <2>1, <3>1
    <3>4. r = IF demote THEN a + 1 ELSE a - 1
      OBVIOUS
    <3> HIDE DEF a, b, l, r
    <3>5. CASE demote
      <4>1. r = a + 1 /\ a < l - 1
        BY <3>3, <3>4, <3>5
      <4> QED
        BY <3>2, <4>1, GuildsAssumption
    <3>6. CASE ~demote
      <4>1. r = a - 1 /\ a > b + 1
        BY <3>3, <3>4, <3>6
      <4> QED
        BY <3>2, <4>1, GuildsAssumption
    <3> QED
      BY <3>5, <3>6
  <2> HIDE DEF r
  <2>3. Good(db, v)
    BY <1>1, <2>1, <2>2, ChangeRankGood
  <2> HIDE DEF v
  <2> QED
    BY <2>1, <2>3, Commit
<1>11. ASSUME NEW r \in 1 .. MaxRanks, NEW b \in Grants, HandleSetRankInfo(c, g, r, b)
       PROVE  Good(db, Hub)'
  <2> DEFINE v == Exec(Edit(Hub, g, [G EXCEPT !.ranks[r + 1] = b]), UpdRights(g, r, b))
  <2>1. r \in 1 .. LowestRank(G) /\ Becomes(v) /\ UNCHANGED <<online, db>>
    BY <1>11 DEF HandleSetRankInfo, Opcode, Rest
  <2>2. b \in Rights
    BY DEF Rights
  <2>3. Good(db, v)
    BY <1>1, <2>1, <2>2, SetRightsGood
  <2> HIDE DEF v
  <2> QED
    BY <2>1, <2>3, Commit
<1>12. ASSUME NEW o \in SetToSeqs(DOMAIN G.members), HandleDisband(c, g, o)
       PROVE  Good(db, Hub)'
  <2>1. Becomes(Disband(Hub, g, o)) /\ UNCHANGED <<online, db>>
    BY <1>12 DEF HandleDisband, Opcode, Rest
  <2>2. Good(db, Disband(Hub, g, o))
    BY <1>1, DisbandGood
  <2> QED
    BY <2>1, <2>2, Commit
<1> QED
  BY <1>3, <1>4, <1>5, <1>6, <1>7, <1>8, <1>9, <1>10, <1>11, <1>12 DEF OpcodeStep

(* A step of a player, in terms of the variables.                          *)
LEMMA PlayerGood ==
    ASSUME Good(db, Hub), store' = store, pend' = pend, db' = db,
           strayed \subseteq strayed', strayed' \subseteq Char,
           inGuild' \in [Char -> Guild \cup {None}], invited' \in [Char -> Nat],
           storage' \in [Char -> Guild \cup {None}],
           \A x \in Char \ strayed' :
             storage'[x] = storage[x] /\ (x \in online' => inGuild'[x] = storage[x])
    PROVE  Good(db, Hub)'
<1>1. Hub' \in HubType
  BY UpTypes DEF Hub, HubType
<1>2. /\ Hub'.store = Hub.store /\ Hub'.pend = Hub.pend /\ Hub'.strayed = strayed'
      /\ Hub'.storage = storage' /\ Hub'.inGuild = inGuild'
      /\ Hub.strayed = strayed /\ Hub.storage = storage
  BY DEF Hub
<1>3. Greeted(Hub, Hub', online')
  BY <1>1, <1>2 DEF Greeted
<1> QED
  BY <1>3, Greet

(* What is known of a character who has not strayed.                       *)
LEMMA NotStrayed ==
    ASSUME Good(db, Hub), NEW x \in Char \ strayed
    PROVE  /\ GuildsOf(store, x) = {storage[x]} \ {None}
           /\ x \in online => inGuild[x] = storage[x]
<1>1. At(Drained(db, Hub.pend), Hub, online, x)
  BY HubFields DEF Good, Sound
<1> QED
  BY <1>1, HubFields DEF At

(* The steps of a player.                                                  *)
LEMMA PlayerStepGood ==
    ASSUME GuildInv, up, NEW c \in Char, PlayerStep(c)
    PROVE  /\ Good(db, Hub)' /\ found' \subseteq online' /\ online' \subseteq Char
           /\ view' = view /\ up' = up
<1>1. /\ Good(db, Hub) /\ found \subseteq online /\ online \subseteq Char
      /\ view \in [Char -> Guild \cup {None}]
  BY DEF GuildInv
<1>2. /\ store \in Store /\ inGuild \in [Char -> Guild \cup {None}]
      /\ invited \in [Char -> Nat] /\ storage \in [Char -> Guild \cup {None}]
      /\ strayed \subseteq Char
  BY <1>1, UpTypes
<1>3. \A x \in Char \ strayed : /\ GuildsOf(store, x) = {storage[x]} \ {None}
                                /\ x \in online => inGuild[x] = storage[x]
  BY <1>1, NotStrayed
<1>4. CASE HandleGuildDeclineOpcode(c)
  <2>1. /\ c \in online /\ UNCHANGED <<up, online, found, db, view>>
        /\ store' = store /\ pend' = pend
        /\ invited' = [invited EXCEPT ![c] = None] /\ inGuild' = [inGuild EXCEPT ![c] = None]
        /\ storage' = [storage EXCEPT ![c] = None]
        /\ strayed' = IF GuildsOf(store, c) = {} THEN strayed ELSE strayed \cup {c}
    BY <1>4 DEF HandleGuildDeclineOpcode, Rest, Becomes, Hub
  <2>2. ASSUME NEW x \in Char \ strayed'
        PROVE  storage'[x] = storage[x] /\ (x \in online' => inGuild'[x] = storage[x])
    <3>1. x \notin strayed
      BY <2>1
    <3>2. CASE x = c
      <4>1. GuildsOf(store, c) = {}
        BY <2>1, <2>2, <3>2
      <4>2. storage[c] = None
        BY <1>3, <3>1, <3>2, <4>1
      <4> QED
        BY <1>2, <2>1, <3>2, <4>2
    <3>3. CASE x # c
      BY <1>2, <1>3, <2>1, <3>1, <3>3
    <3> QED
      BY <3>2, <3>3
  <2>3. /\ inGuild' \in [Char -> Guild \cup {None}] /\ storage' \in [Char -> Guild \cup {None}]
        /\ invited' \in [Char -> Nat] /\ strayed \subseteq strayed' /\ strayed' \subseteq Char
    BY <1>2, <2>1 DEF None
  <2>4. Good(db, Hub)'
    BY <1>1, <2>1, <2>2, <2>3, PlayerGood
  <2> QED
    BY <1>1, <2>1, <2>4
<1>5. ASSUME NEW garbage \in Garbage[c], Login(c, garbage)
      PROVE  /\ Good(db, Hub)' /\ found' \subseteq online' /\ online' \subseteq Char
             /\ view' = view /\ up' = up
  <2> DEFINE in == IF storage[c] # None /\ storage[c] \in GuildsOf(store, c) THEN storage[c] ELSE None
  <2>1. /\ online' = online \cup {c} /\ UNCHANGED <<up, found, db, view, store, pend, strayed>>
        /\ invited' = [invited EXCEPT ![c] = garbage] /\ inGuild' = [inGuild EXCEPT ![c] = in]
        /\ storage' = [storage EXCEPT ![c] = in]
    BY <1>5 DEF Login
  <2>2. garbage \in Nat
    BY <1>5, GuildsAssumption
  <2>3. in \in Guild \cup {None}
    BY <1>2
  <2>4. c \notin strayed => in = storage[c]
    BY <1>3
  <2> HIDE DEF in
  <2>5. ASSUME NEW x \in Char \ strayed'
        PROVE  storage'[x] = storage[x] /\ (x \in online' => inGuild'[x] = storage[x])
    <3>1. x \notin strayed
      BY <2>1, <2>5
    <3>2. CASE x = c
      BY <1>2, <2>1, <2>4, <3>1, <3>2
    <3>3. CASE x # c
      BY <1>2, <1>3, <2>1, <3>1, <3>3
    <3> QED
      BY <3>2, <3>3
  <2>6. /\ inGuild' \in [Char -> Guild \cup {None}] /\ storage' \in [Char -> Guild \cup {None}]
        /\ invited' \in [Char -> Nat] /\ strayed \subseteq strayed' /\ strayed' \subseteq Char
    BY <1>2, <2>1, <2>2, <2>3
  <2>7. Good(db, Hub)'
    BY <1>1, <2>1, <2>5, <2>6, PlayerGood
  <2> QED
    BY <1>1, <2>1, <2>7
<1>6. CASE Logout(c)
  <2>1. /\ online' = online \ {c} /\ found' = found \ {c}
        /\ UNCHANGED <<up, db, view, store, pend, strayed, storage>>
        /\ invited' = [invited EXCEPT ![c] = None] /\ inGuild' = [inGuild EXCEPT ![c] = None]
    BY <1>6 DEF Logout
  <2>2. ASSUME NEW x \in Char \ strayed'
        PROVE  storage'[x] = storage[x] /\ (x \in online' => inGuild'[x] = storage[x])
    BY <1>2, <1>3, <2>1
  <2>3. /\ inGuild' \in [Char -> Guild \cup {None}] /\ storage' \in [Char -> Guild \cup {None}]
        /\ invited' \in [Char -> Nat] /\ strayed \subseteq strayed' /\ strayed' \subseteq Char
    BY <1>2, <2>1 DEF None
  <2>4. Good(db, Hub)'
    BY <1>1, <2>1, <2>2, <2>3, PlayerGood
  <2> QED
    BY <1>1, <2>1, <2>4
<1>7. CASE Handle_NODE_PLAYER_DATA(c)
  <2>1. /\ c \in online /\ view[c] # None
        /\ UNCHANGED <<up, online, found, db, view, store, pend, storage, invited>>
        /\ inGuild' = [inGuild EXCEPT ![c] = view[c]]
        /\ strayed' = IF GuildsOf(store, c) = {view[c]} THEN strayed ELSE strayed \cup {c}
    BY <1>7 DEF Handle_NODE_PLAYER_DATA
  <2>2. ASSUME NEW x \in Char \ strayed'
        PROVE  storage'[x] = storage[x] /\ (x \in online' => inGuild'[x] = storage[x])
    <3>1. x \notin strayed
      BY <2>1
    <3>2. CASE x = c
      <4>1. GuildsOf(store, c) = {view[c]}
        BY <2>1, <2>2, <3>2
      <4>2. storage[c] = view[c]
        BY <1>3, <2>1, <3>1, <3>2, <4>1
      <4> QED
        BY <1>2, <2>1, <3>2, <4>2
    <3>3. CASE x # c
      BY <1>2, <1>3, <2>1, <3>1, <3>3
    <3> QED
      BY <3>2, <3>3
  <2>3. /\ inGuild' \in [Char -> Guild \cup {None}] /\ storage' \in [Char -> Guild \cup {None}]
        /\ invited' \in [Char -> Nat] /\ strayed \subseteq strayed' /\ strayed' \subseteq Char
    BY <1>1, <1>2, <2>1
  <2>4. Good(db, Hub)'
    BY <1>1, <2>1, <2>2, <2>3, PlayerGood
  <2> QED
    BY <1>1, <2>1, <2>4
<1> QED
  BY <1>4, <1>5, <1>6, <1>7 DEF PlayerStep

(* ObjectMgr::Update.                                                      *)
LEMMA UpdateNewGood ==
    ASSUME GuildInv, NEW c \in Char, UpdateNew(c)
    PROVE  GuildInv'
<1>1. /\ Good(db, Hub) /\ found \subseteq online /\ online \subseteq Char
      /\ view \in [Char -> Guild \cup {None}] /\ up
  BY DEF GuildInv, UpdateNew
<1>2. /\ UNCHANGED <<up, store, online, inGuild, invited, storage, pend, strayed, db, view>>
      /\ found' = found \cup {c} /\ c \in online
  BY DEF UpdateNew
<1>3. Good(db, Hub)'
  <2>1. \A x \in Char \ strayed' :
             storage'[x] = storage[x] /\ (x \in online' => inGuild'[x] = storage[x])
    BY <1>1, <1>2, NotStrayed
  <2> QED
    BY <1>1, <1>2, <2>1, UpTypes, PlayerGood
<1> QED
  BY <1>1, <1>2, <1>3 DEF GuildInv

(* The same outcome, with a part of the statements executed.               *)
LEMMA Resumed ==
    ASSUME NEW d, NEW p, NEW q, NEW r, Joined(p, q, r)
    PROVE  Drained(Drained(d, p), q) = Drained(d, r)
<1>1. /\ Drained(d, r) = Drained(Drained(d, p), q)
      /\ Safe(d, p, {}) /\ Safe(Drained(d, p), q, {}) => Safe(d, r, {})
  BY Follows
<1> QED
  BY <1>1

(* The worker thread has executed n of the statements.                     *)
LEMMA Worker ==
    ASSUME NEW d, NEW p \in Seq(Statement), NEW n \in 0 .. Len(p), NEW X, Safe(d, p, X)
    PROVE  LET e == Progress(d, p)[n]
               q == SubSeq(p, n + 1, Len(p))
           IN  /\ q \in Seq(Statement) /\ Safe(e, q, X) /\ Fit(e, X)
               /\ Drained(e, q) = Drained(d, p)
<1> DEFINE a == SubSeq(p, 1, n)
           q == SubSeq(p, n + 1, Len(p))
<1>1. Len(p) \in Nat /\ n \in Nat /\ n =< Len(p)
  OBVIOUS
<1>2. /\ a \in Seq(Statement) /\ Len(a) = n /\ q \in Seq(Statement) /\ Len(q) = Len(p) - n
  BY <1>1
<1>3. \A i \in 1 .. Len(a) : p[i] = a[i]
  BY <1>1, <1>2
<1>4. \A i \in 1 .. Len(q) : p[Len(a) + i] = q[i]
  <2> SUFFICES ASSUME NEW i \in 1 .. Len(q) PROVE p[Len(a) + i] = q[i]
    OBVIOUS
  <2>1. q[i] = p[n + 1 + i - 1]
    BY <1>1, <1>2
  <2>2. n + 1 + i - 1 = Len(a) + i
    BY <1>1, <1>2
  <2> QED
    BY <2>1, <2>2
<1> HIDE DEF a, q
<1>5. Joined(a, q, p)
  <2>1. Len(a) \in Nat /\ Len(q) \in Nat /\ Len(a) + Len(q) = Len(p)
    BY <1>1, <1>2
  <2> QED
    BY <1>1, <1>3, <1>4, <2>1 DEF Joined
<1>6. Progress(d, p)[n] = Drained(d, a)
  <2>1. Progress(d, p)[Len(a)] = Drained(d, a)
    BY <1>5, Remainder
  <2> QED
    BY <1>2, <2>1
<1>7. Safe(Drained(d, a), q, X)
  BY <1>5, Remainder
<1>8. Drained(Drained(d, a), q) = Drained(d, p)
  BY <1>5, Resumed
<1>9. Fit(Progress(d, p)[n], X)
  BY DEF Safe
<1>10. q \in Seq(Statement) /\ Safe(Progress(d, p)[n], q, X)
       /\ Drained(Progress(d, p)[n], q) = Drained(d, p)
  BY <1>2, <1>6, <1>7, <1>8
<1> QED
  BY <1>9, <1>10 DEF q

(* The guild in a row.                                                     *)
LEMMA GuildRowIs ==
    ASSUME NEW d \in Rows
    PROVE  [c \in Char |-> GuildRow(d, c)] \in [Char -> Guild \cup {None}]
  BY RowsIs DEF GuildRow

(* The node starts.                                                        *)
LEMMA NodeStartGood ==
    ASSUME GuildInv, up, NEW n \in 0 .. Len(pend), NodeStart(n)
    PROVE  GuildInv'
<1>1. /\ Good(db, Hub) /\ found \subseteq online /\ online \subseteq Char
  BY DEF GuildInv
<1>2. /\ UNCHANGED <<up, store, online, found, inGuild, invited, storage, strayed>>
      /\ db' = Progress(db, pend)[n] /\ pend' = SubSeq(pend, n + 1, Len(pend))
      /\ view' = [c \in Char |-> GuildRow(db', c)]
  BY DEF NodeStart
<1>3. pend \in Seq(Statement) /\ Safe(db, pend, strayed)
  BY <1>1, UpTypes, HubFields DEF Good, Sound
<1>4. /\ pend' \in Seq(Statement) /\ Safe(db', pend', strayed) /\ Fit(db', strayed)
      /\ Drained(db', pend') = Drained(db, pend)
  BY <1>2, <1>3, Worker
<1>5. view' \in [Char -> Guild \cup {None}]
  <2>1. db' \in Rows
    BY <1>4 DEF Fit
  <2> QED
    BY <1>2, <2>1, GuildRowIs
<1>6. /\ Hub'.store = Hub.store /\ Hub'.pend = pend' /\ Hub'.strayed = Hub.strayed
      /\ Hub'.storage = Hub.storage /\ Hub'.inGuild = Hub.inGuild /\ Hub.pend = pend
      /\ Hub.strayed = strayed
  BY <1>2 DEF Hub
<1>7. Hub' \in HubType
  BY <1>1, <1>2, <1>4, UpTypes DEF Hub, HubType
<1>8. Sound(db', Hub', online')
  <2>1. Safe(db', Hub'.pend, Hub'.strayed) /\ Drained(db', Hub'.pend) = Drained(db, Hub.pend)
    BY <1>4, <1>6
  <2>2. Mirrors(Drained(db, Hub.pend), Hub.store)
    BY <1>1 DEF Good, Sound
  <2>3. ASSUME NEW c \in Char \ Hub.strayed
        PROVE  At(Drained(db, Hub.pend), Hub', online', c)
    <3>1. At(Drained(db, Hub.pend), Hub, online, c)
      BY <1>1 DEF Good, Sound
    <3> QED
      BY <1>2, <1>6, <3>1 DEF At
  <2> QED
    BY <1>6, <1>7, <2>1, <2>2, <2>3 DEF Sound
<1>9. \A h \in DOMAIN Hub'.store : Ranked(Drained(db', Hub'.pend), Hub'.store[h], h) /\ Led(Hub'.store[h])
  <2>1. Drained(db', Hub'.pend) = Drained(db, Hub.pend)
    BY <1>4, <1>6
  <2>2. \A h \in DOMAIN Hub.store : Ranked(Drained(db, Hub.pend), Hub.store[h], h) /\ Led(Hub.store[h])
    BY <1>1 DEF Good
  <2> QED
    BY <1>6, <2>1, <2>2
<1>10. Good(db, Hub)'
  BY <1>8, <1>9 DEF Good
<1> QED
  BY <1>1, <1>2, <1>5, <1>10 DEF GuildInv

(* The hub crashes.                                                        *)
LEMMA CrashGood ==
    ASSUME GuildInv, NEW n \in 0 .. Len(pend), Crash(n)
    PROVE  GuildInv'
<1>1. up /\ Good(db, Hub) /\ view \in [Char -> Guild \cup {None}]
  BY DEF GuildInv, Crash
<1>2. pend \in Seq(Statement) /\ Safe(db, pend, strayed) /\ strayed \subseteq Char
  BY <1>1, UpTypes, HubFields DEF Good, Sound
<1>3. db' = Progress(db, pend)[n] /\ strayed' = strayed /\ view' = view /\ up' = FALSE
      /\ online' = {} /\ found' = {}
  BY DEF Crash
<1>4. Fit(db', strayed')
  BY <1>2, <1>3 DEF Safe
<1>5. Halted'
  BY <1>2, <1>3, <1>4 DEF Crash, Halted
<1> QED
  BY <1>1, <1>3, <1>5 DEF GuildInv

(* The first state.                                                        *)
LEMMA InitGood == Init => GuildInv
<1> SUFFICES ASSUME Init PROVE GuildInv
  OBVIOUS
<1>1. db \in Rows
  BY TablesAssumption DEF Init
<1>2. view \in [Char -> Guild \cup {None}]
  BY <1>1, GuildRowIs DEF Init
<1>3. strayed = Astray(db) /\ strayed \subseteq Char
  BY DEF Init, Astray
<1>4. Fit(db, strayed)
  BY <1>1, <1>3 DEF Fit
<1>5. Halted
  BY <1>3, <1>4 DEF Init, Halted
<1> QED
  BY <1>2, <1>5 DEF Init, GuildInv

(* The hub takes the value v, on tables e.                                 *)
LEMMA CommitOn ==
    ASSUME NEW STATE v, NEW STATE e, Good(e, v), Becomes(v), online' = online, db' = e
    PROVE  Good(db, Hub)'
<1>1. v \in HubType
  BY SoundIs DEF Good
<1>2. Hub' = v
  <2>1. Hub' = [store |-> v.store, inGuild |-> v.inGuild, invited |-> v.invited,
                storage |-> v.storage, pend |-> v.pend, strayed |-> v.strayed]
    BY DEF Hub, Becomes
  <2> QED
    BY <1>1, <2>1, HubIs
<1> QED
  BY <1>2 DEF Good

\* What a restart on the tables e promises of the guilds s.
Repaired(e, s) ==
    /\ \A g \in DOMAIN s : s[g].members[s[g].leader] = GuildMaster
    /\ \A c \in DOMAIN e.member \ Broken :
         e.member[c].guild \in DOMAIN e.guild => c \in DOMAIN s[e.member[c].guild].members

(* The hub starts again.                                                   *)
LEMMA LoadGuildsGood ==
    ASSUME GuildInv, NEW b, NEW o \in SetToSeqs(DOMAIN Swept(db).guild), LoadGuilds(b, o)
    PROVE  GuildInv' /\ Repaired(db, store')
<1> DEFINE d == Swept(db)
           w == Loaded(d)
           v == Validated(w, d, o, b)[Len(o)]
<1>1. /\ ~up /\ up' = TRUE /\ db' = d /\ Becomes(v)
      /\ online' = online /\ found' = found /\ view' = view
      /\ \A g \in DOMAIN w.store : b[g] \in Successors(Graded(w, d, g).store[g])
  BY DEF LoadGuilds
<1>2. /\ online = {} /\ found = {} /\ strayed \subseteq Char /\ Fit(db, strayed)
      /\ view \in [Char -> Guild \cup {None}]
  BY <1>1 DEF GuildInv, Halted
<1>3. /\ d \in Rows /\ Fit(d, strayed) /\ Clean(d)
      /\ DOMAIN d.member = {c \in DOMAIN db.member : db.member[c].guild \in DOMAIN db.guild}
      /\ \A c \in DOMAIN d.member : d.member[c] = db.member[c]
  BY <1>2, SweptIs
<1>4. o \in SetToSeqs(DOMAIN d.guild)
  OBVIOUS
<1> HIDE DEF d
<1>5. /\ Sound(d, w, {}) /\ DOMAIN w.store = DOMAIN d.guild
      /\ Drained(d, w.pend).ranks = d.ranks
  BY <1>2, <1>3, LoadedSound
<1>6. \A g \in DOMAIN d.guild : ReadOf(d, g, w.store[g])
  BY <1>3, RecordIs DEF Record
<1> HIDE DEF w
<1>7. /\ Len(o) \in Nat /\ \A i, j \in 1 .. Len(o) : o[i] = o[j] => i = j
      /\ \A i \in 1 .. Len(o) : o[i] \in DOMAIN d.guild
      /\ \A x \in DOMAIN d.guild : \E i \in 1 .. Len(o) : o[i] = x
  <2>1. IsFiniteSet(DOMAIN d.guild)
    BY <1>3, RowsIs, GuildsAssumption, FS_Subset
  <2> DEFINE S == DOMAIN d.guild
  <2>2. IsFiniteSet(S) /\ o \in SetToSeqs(S)
    BY <1>4, <2>1
  <2> HIDE DEF S
  <2>3. /\ o \in Seq(S)
        /\ \A x \in S : \E i \in 1 .. Len(o) : o[i] = x
        /\ \A i, j \in 1 .. Len(o) : o[i] = o[j] => i = j
    BY <2>2, OrderOf
  <2>4. Len(o) \in Nat /\ \A i \in 1 .. Len(o) : o[i] \in S
    BY <2>3
  <2> QED
    BY <2>3, <2>4 DEF S
<1>8. Start(d, w, o, b)
  <2>1. ASSUME NEW j \in 1 .. Len(o)
        PROVE  Unread(d, w, o[j]) /\ b[o[j]] \in Successors(Graded(w, d, o[j]).store[o[j]])
    <3>1. o[j] \in DOMAIN w.store /\ ReadOf(d, o[j], w.store[o[j]])
      BY <1>5, <1>6, <1>7
    <3>2. Unread(d, w, o[j])
      BY <1>5, <3>1 DEF Unread, ReadOf
    <3> QED
      BY <1>1, <3>1, <3>2
  <2>2. Sound(d, w, online)
    BY <1>2, <1>5
  <2> QED
    BY <1>7, <2>1, <2>2 DEF Start
<1>9. Upto(d, w, o, Len(o), v)
  BY <1>8, ValidatedSound
<1> HIDE DEF v
<1>10. Sound(d, v, online) /\ DOMAIN v.store \subseteq DOMAIN w.store
  BY <1>9 DEF Upto
<1>11. \A g \in DOMAIN w.store : Done(d, w, v, g)
  <2> SUFFICES ASSUME NEW g \in DOMAIN w.store PROVE Done(d, w, v, g)
    OBVIOUS
  <2>1. PICK i \in 1 .. Len(o) : o[i] = g
    BY <1>5, <1>7
  <2>2. i =< Len(o)
    BY <1>7
  <2>3. Done(d, w, v, o[i])
    BY <1>9, <2>2 DEF Upto
  <2> QED
    BY <2>1, <2>3
<1>12. Good(d, v)
  <2>1. \A h \in DOMAIN v.store : Ranked(Drained(d, v.pend), v.store[h], h) /\ Led(v.store[h])
    BY <1>10, <1>11 DEF Done
  <2> QED
    BY <1>10, <2>1 DEF Good
<1>13. Good(db, Hub)'
  BY <1>1, <1>12, CommitOn
<1>14. GuildInv'
  BY <1>1, <1>2, <1>13 DEF GuildInv
<1>15. store' = v.store
  BY <1>1 DEF Becomes
<1>16. Repaired(db, v.store)
  <2>1. \A g \in DOMAIN v.store : v.store[g].members[v.store[g].leader] = GuildMaster
    BY <1>10, <1>11 DEF Done
  <2>2. ASSUME NEW c \in DOMAIN db.member \ Broken, db.member[c].guild \in DOMAIN db.guild
        PROVE  c \in DOMAIN v.store[db.member[c].guild].members
    <3> DEFINE g == db.member[c].guild
    <3>1. c \in DOMAIN d.member /\ d.member[c].guild = g
      BY <1>3, <2>2
    <3>2. g \in DOMAIN d.guild
      BY <1>3, <3>1 DEF Clean
    <3>3. c \in DOMAIN w.store[g].members
      <4>1. ReadOf(d, g, w.store[g])
        BY <1>6, <3>2
      <4> QED
        BY <3>1, <4>1 DEF ReadOf
    <3>4. Done(d, w, v, g)
      BY <1>5, <1>11, <3>2
    <3> QED
      BY <3>3, <3>4 DEF Done
  <2> QED
    BY <2>1, <2>2 DEF Repaired
<1> QED
  BY <1>14, <1>15, <1>16

(* Every step preserves the invariant.                                     *)
LEMMA NextGood ==
    ASSUME GuildInv, [Next]_vars
    PROVE  GuildInv'
<1>1. ASSUME up, up' = up, view' = view, found' \subseteq online',
             online' \subseteq Char, Good(db, Hub)'
      PROVE  GuildInv'
  BY <1>1 DEF GuildInv
<1>2. ASSUME up, NEW c \in Char, PlayerStep(c)
      PROVE  GuildInv'
  BY <1>1, <1>2, PlayerStepGood
<1>3. ASSUME up, NEW c \in online, NEW g \in DOMAIN store, OpcodeStep(c, g)
      PROVE  GuildInv'
  <2>1. Good(db, Hub) /\ found \subseteq online /\ online \subseteq Char /\ c \in Char
    BY <1>3 DEF GuildInv
  <2>2. Good(db, Hub)'
    BY <1>3, <2>1, OpcodeStepGood
  <2>3. Rest
    BY <1>3 DEF OpcodeStep, HandleGuildAcceptOpcode, HandleLeaveMember, HandleAddNewRank,
                HandleRemoveLowestRank, HandleInviteMember, HandleSetLeader, HandleRemoveMember,
                HandleUpdateMemberRank, HandleSetRankInfo, HandleDisband, Opcode
  <2> QED
    BY <1>1, <1>3, <2>1, <2>2, <2>3 DEF Rest
<1>4. CASE up /\ Called
  BY <1>2, <1>3, <1>4, NodeStartGood DEF Called
<1>5. CASE \E c \in Char : UpdateNew(c)
  BY <1>5, UpdateNewGood
<1>6. CASE \E n \in 0 .. Len(pend) : Crash(n)
  BY <1>6, CrashGood
<1>7. CASE \E b \in [Guild -> Char \cup {None}], o \in SetToSeqs(DOMAIN Swept(db).guild) :
             LoadGuilds(b, o)
  BY <1>7, LoadGuildsGood
<1>8. CASE UNCHANGED vars
  BY <1>8 DEF GuildInv, Good, Sound, Halted, Hub, vars, hubVars, At, GuildsOf
<1> QED
  BY <1>4, <1>5, <1>6, <1>7, <1>8 DEF Next

-----------------------------------------------------------------------------
(* The theorems.                                                           *)

(* The invariant of the guilds: while the hub is up, the tables will, once *)
(* the statements that wait are executed, hold what GuildStore, the global *)
(* data and the players hold, and no prefix of the statements leaves a     *)
(* leader who is not known to stray in another guild; while it is down,    *)
(* the tables are such.                                                    *)
THEOREM GuildsInvariant == Spec => []GuildInv
<1>1. GuildInv /\ [Next]_vars => GuildInv'
  BY NextGood
<1> QED
  BY <1>1, InitGood, PTL DEF Spec

(* What the invariant says of a hub that is up.                            *)
LEMMA GoodIs ==
    ASSUME GuildInv, up
    PROVE  /\ Good(db, Hub)
           /\ \A g \in DOMAIN store : Ranked(Drained(db, pend), store[g], g) /\ Led(store[g])
  BY HubFields DEF GuildInv, Good

(* The invariant implies the types.                                        *)
LEMMA TypesFollow == GuildInv => TypeOK
<1> SUFFICES ASSUME GuildInv PROVE TypeOK
  OBVIOUS
<1>1. /\ up \in BOOLEAN /\ found \subseteq online /\ online \subseteq Char
      /\ view \in [Char -> Guild \cup {None}]
  BY DEF GuildInv
<1>2. CASE up
  <2>1. /\ Good(db, Hub)
        /\ \A g \in DOMAIN store : Ranked(Drained(db, pend), store[g], g)
    BY <1>2, GoodIs
  <2>2. /\ store \in Store /\ inGuild \in [Char -> Guild \cup {None}]
        /\ invited \in [Char -> Nat] /\ storage \in [Char -> Guild \cup {None}]
        /\ pend \in Seq(Statement) /\ strayed \subseteq Char
    BY <2>1, UpTypes
  <2>3. DOMAIN store \subseteq Guild /\ store \in [DOMAIN store -> GuildObject]
    BY <2>2, StoreIs
  <2>4. db \in Rows
    <3>1. Safe(db, pend, strayed)
      BY <2>1, HubFields DEF Good, Sound
    <3>2. Len(pend) \in Nat
      BY <2>2
    <3> QED
      BY <3>1, <3>2, DrainedFit DEF Fit
  <2>5. \A g \in DOMAIN store :
         /\ Len(store[g].ranks) \in MinRanks .. MaxRanks
         /\ \A c \in DOMAIN store[g].members : store[g].members[c] =< MaxRanks
    BY <2>1 DEF Ranked
  <2> QED
    BY <1>1, <2>2, <2>3, <2>4, <2>5 DEF TypeOK
<1>3. CASE ~up
  <2>1. /\ store = [g \in {} |-> None] /\ pend = <<>> /\ strayed \subseteq Char /\ db \in Rows
        /\ inGuild = Nobody /\ invited = Nobody /\ storage = Nobody
    BY <1>3 DEF GuildInv, Halted, Fit
  <2>2. Nobody \in [Char -> Guild \cup {None}] /\ Nobody \in [Char -> Nat]
    BY DEF Nobody, None
  <2>3. DOMAIN store = {} /\ store \in [{} -> GuildObject]
    BY <2>1
  <2> QED
    BY <1>1, <2>1, <2>2, <2>3 DEF TypeOK
<1> QED
  BY <1>2, <1>3

(* Types of the hub's guilds and of the tables, with the bounds of the     *)
(* ranks: HandleRemoveRank, HandleAddNewRank and Validate keep every guild *)
(* between MinRanks and MaxRanks, for any tables at first.                 *)
THEOREM GuildTypes == Spec => []TypeOK
  BY GuildsInvariant, TypesFollow, PTL

(* A guild is led by one of its members, the only one with the guild       *)
(* master's rank: through every opcode of a guild, also when a member of a *)
(* removed rank has every right, and a restart after a crash between any   *)
(* two statements.                                                         *)
THEOREM GuildsLedByMember == Spec => []LedByMember
<1>1. GuildInv => LedByMember
  <2> SUFFICES ASSUME GuildInv PROVE LedByMember
    OBVIOUS
  <2>1. CASE up
    BY <2>1, GoodIs DEF Led, LedByMember
  <2>2. CASE ~up
    <3>1. DOMAIN store = {}
      BY <2>2 DEF GuildInv, Halted
    <3> QED
      BY <3>1 DEF LedByMember
  <2> QED
    BY <2>1, <2>2
<1> QED
  BY <1>1, GuildsInvariant, PTL

(* The members of the guilds, the global player data and m_GuildId agree   *)
(* for whoever has not strayed, and so nobody is in two guilds.            *)
THEOREM GuildMembershipAgrees == Spec => []MembershipAgrees
<1>1. GuildInv => MembershipAgrees
  <2> SUFFICES ASSUME GuildInv, up, NEW c \in Char \ strayed
               PROVE  /\ GuildsOf(store, c) = {storage[c]} \ {None}
                      /\ c \in online => inGuild[c] = storage[c]
    BY DEF MembershipAgrees
  <2> QED
    BY GoodIs, NotStrayed
<1> QED
  BY <1>1, GuildsInvariant, PTL

(* The statements that wait for the worker thread make the tables what the *)
(* hub has in memory: guilds, leaders, ranks, rights as a restart reads    *)
(* them, and the members who have not strayed.                             *)
THEOREM GuildsDurable == Spec => []Durable
<1>1. GuildInv => Durable
  <2> DEFINE d == Drained(db, pend)
  <2> SUFFICES ASSUME GuildInv, up
               PROVE  /\ DOMAIN store = DOMAIN d.guild
                      /\ \A g \in DOMAIN store :
                           /\ d.guild[g] = store[g].leader
                           /\ DOMAIN d.ranks[g] = 0 .. LowestRank(store[g])
                           /\ \A r \in DOMAIN d.ranks[g] :
                                store[g].ranks[r + 1] = RightsIn(d.ranks[g], r)
                      /\ \A c \in Char \ strayed :
                           IF c \in DOMAIN d.member
                           THEN /\ GuildsOf(store, c) = {d.member[c].guild}
                                /\ store[d.member[c].guild].members[c] = d.member[c].rank
                           ELSE GuildsOf(store, c) = {}
    BY DEF Durable
  <2>1. /\ Good(db, Hub) /\ d \in Rows
        /\ \A g \in DOMAIN store : Ranked(d, store[g], g)
    BY GoodIs, SoundIs, HubFields DEF Good
  <2>2. /\ Mirrors(d, store)
        /\ \A c \in Char \ strayed : At(d, Hub, online, c)
    BY <2>1, HubFields DEF Good, Sound
  <2> HIDE DEF d
  <2>3. ASSUME NEW c \in Char \ strayed
        PROVE  IF c \in DOMAIN d.member
               THEN /\ GuildsOf(store, c) = {d.member[c].guild}
                    /\ store[d.member[c].guild].members[c] = d.member[c].rank
               ELSE GuildsOf(store, c) = {}
    <3>1. /\ GuildsOf(store, c) = {storage[c]} \ {None} /\ GuildRow(d, c) = storage[c]
          /\ \A g \in GuildsOf(store, c) : store[g].members[c] = d.member[c].rank
      BY <2>2, HubFields DEF At
    <3>2. CASE c \in DOMAIN d.member
      <4>1. d.member[c].guild = storage[c] /\ d.member[c].guild \in Guild
        BY <2>1, <3>1, <3>2, RowsIs DEF GuildRow
      <4>2. storage[c] # None
        BY <4>1, GuildsAssumption DEF None
      <4> QED
        BY <3>1, <3>2, <4>1, <4>2
    <3>3. CASE c \notin DOMAIN d.member
      BY <3>1, <3>3 DEF GuildRow
    <3> QED
      BY <3>2, <3>3
  <2> QED
    BY <2>1, <2>2, <2>3 DEF Mirrors, Ranked, Written, LowestRank
<1> QED
  BY <1>1, GuildsInvariant, PTL

(* A restart, on whatever prefix of the statements the crash has left,     *)
(* gives every guild with a sound member a leader of the guild master's    *)
(* rank, and loses no member whose row is there.                           *)
THEOREM GuildRestartRepairs == Spec => RestartRepairs
<1> DEFINE A == ~up /\ up' => Repaired(db, store')
<1>1. GuildInv /\ [Next]_vars => [A]_vars
  <2> SUFFICES ASSUME GuildInv, Next, ~up, up' PROVE Repaired(db, store')
    OBVIOUS
  <2>1. PICK b \in [Guild -> Char \cup {None}], o \in SetToSeqs(DOMAIN Swept(db).guild) :
             LoadGuilds(b, o)
    BY DEF Next, UpdateNew, Crash
  <2> QED
    BY <2>1, LoadGuildsGood
<1>2. Spec => [][A]_vars
  BY <1>1, GuildsInvariant, PTL DEF Spec
<1> QED
  BY <1>2 DEF RestartRepairs, Repaired
=============================================================================
