------------------------------ MODULE MCRebase ------------------------------
(* The instance of Rebase for TLC: three of the ten tables, two items.     *)
EXTENDS Rebase

CONSTANTS i1, i2
=============================================================================
