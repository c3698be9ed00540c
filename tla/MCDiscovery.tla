----------------------------- MODULE MCDiscovery -----------------------------
(* Instance of Discovery for TLC. *)
EXTENDS Discovery

TwoPorts == {1, 2}
=============================================================================
