------------------------------- MODULE MCRoom -------------------------------
(* A room of two people and a bot for TLC: connections are interchangeable. *)
EXTENDS Room, TLC
ConnSymmetry == Permutations(ConnIds)
=============================================================================
