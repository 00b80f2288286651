------------------------------ MODULE MCCerts ------------------------------
(* A small instance of Certs for TLC. *)
EXTENDS Certs, TLC

CONSTANTS k1, k2, k3, k4, laptop, phone, server

\* Keys are interchangeable.
Symmetry == Permutations(Keys)
=============================================================================
