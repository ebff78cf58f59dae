---------------------------- MODULE MCControlLink ----------------------------
(* Small instances of ControlLink for TLC. *)
EXTENDS ControlLink

MCBase == [t \in Types |-> 1]
=============================================================================
