------------------------------- MODULE MCMesh -------------------------------
(* Small instances of Mesh for TLC. *)
EXTENDS Mesh

CONSTANTS a, b, c, d4

Star == {<<a, c>>, <<b, c>>, <<d4, c>>}
Chain == {<<a, b>>, <<b, c>>, <<d4, c>>}
Triangle == {<<a, b>>, <<b, c>>, <<a, c>>}
Diamond == {<<a, b>>, <<a, c>>, <<b, d4>>, <<c, d4>>}
Acyclic == {Star, Chain, Triangle, Diamond}

\* Two daemons that dial each other.
Mutual == {{<<a, b>>, <<b, a>>}}
=============================================================================
