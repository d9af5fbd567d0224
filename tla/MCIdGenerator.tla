---------------------------- MODULE MCIdGenerator ----------------------------
(* IdGenerator for TLC. *)
EXTENDS IdGenerator
=============================================================================
