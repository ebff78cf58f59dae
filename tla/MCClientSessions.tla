--------------------------- MODULE MCClientSessions ---------------------------
(* Small instances of ClientSessions for TLC: which account each session   *)
(* logs into.                                                              *)
EXTENDS ClientSessions, TLC

CONSTANTS s1, s2, s3, a, b

\* Two sessions of the same account.
Twice == (s1 :> a) @@ (s2 :> a)

\* Two accounts, one of which logs in twice; those two sessions can be told
\* apart by nothing.
Pair == (s1 :> a) @@ (s2 :> b) @@ (s3 :> b)
PairSwaps == Permutations({s2, s3})
===============================================================================
