--------------------------- MODULE MCMatchRounds ---------------------------
(***************************************************************************)
(* Three players.  Round 1 is a PvE round that costs nothing, round 2 a    *)
(* gift round in which they fight each other, round 3 a PvE round that     *)
(* hurts; then rounds 2 and 3 again and again.                             *)
(***************************************************************************)
EXTENDS MatchRounds

MCBaseDamage == <<0, 1>>
=============================================================================
