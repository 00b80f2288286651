---------------------------- MODULE MCTransient ----------------------------
(* A small instance of Transient for TLC. *)
EXTENDS Transient

CONSTANTS a, b, c1, c2, c3
=============================================================================
