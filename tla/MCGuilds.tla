------------------------------ MODULE MCGuilds ------------------------------
(* An instance of Guilds for TLC: what the database may hold, and what new  *)
(* Player objects.                                                          *)
EXTENDS Guilds, TLC

Row(g, r) == [guild |-> g, rank |-> r]

NoRows == [x \in {} |-> 0]

\* The rights of rank 0 were lost.
AllRanks == 0 :> {} @@ 1 :> Right @@ 2 :> NewRights

\* Two guilds, one of them with an officer, one led by a member whose rank is
\* far too low.
Sound ==
    [guild |-> 1 :> 1 @@ 2 :> 3, ranks |-> 1 :> AllRanks @@ 2 :> AllRanks,
     member |-> 1 :> Row(1, 0) @@ 2 :> Row(1, 1) @@ 3 :> Row(2, 4)]

\* The ranks of the guild were only begun to be written, its leader's data are
\* broken, and it had one rank more once: Validate lets the rank of 2 pass.
Damaged ==
    [guild |-> 1 :> 4, ranks |-> 1 :> (0 :> Right) @@ 2 :> NoRows,
     member |-> 1 :> Row(1, 0) @@ 2 :> Row(1, 3) @@ 4 :> Row(1, 0)]

\* A guild whose only member is broken, and one that was half disbanded.
Dying ==
    [guild |-> 1 :> 1 @@ 2 :> 4, ranks |-> 1 :> NoRows @@ 2 :> NoRows,
     member |-> 4 :> Row(2, 0)]

Left == {Sound, Damaged, Dying}

Junk == <<{0}, {0, 2}, {0}, {0}, {0, 1}>>

\* Only the right to remove; and not even the bit of GR_RIGHT_EMPTY.
Given == {{"empty", "remove"}, {}}
=============================================================================
