----------------------------- MODULE MCPeerLink -----------------------------
(* Small instances of PeerLink for TLC. *)
EXTENDS PeerLink
=============================================================================
