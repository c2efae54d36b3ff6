----------------------------- MODULE MatchCycle -----------------------------
(***************************************************************************)
(* What a match promises of its course, whatever happens in its phases:    *)
(* rounds of an optional gift phase, planning, combat and resolution;      *)
(* players leave only when the fights of a round are settled and never     *)
(* come back; the match ends after the first resolution that leaves at     *)
(* most one of them, and only then.                                        *)
(***************************************************************************)
EXTENDS FiniteSets, Naturals

CONSTANT Players

VARIABLES phase, alive

vars == <<phase, alive>>

Init == phase = "NotStarted" /\ alive = Players

\* Mother Nature's rounds open with the gift phase.
Opens(next) == next \in {"MotherNature", "Planning"}

Decided == Cardinality(alive) <= 1

Start     == phase = "NotStarted" /\ Opens(phase') /\ alive' = alive
Plan      == phase = "MotherNature" /\ phase' = "Planning" /\ alive' = alive
Fight     == phase = "Planning" /\ phase' = "Combat" /\ alive' = alive
Settle    == phase = "Combat" /\ phase' = "Resolution" /\ alive' \subseteq alive
NextRound == phase = "Resolution" /\ ~ Decided /\ Opens(phase') /\ alive' = alive
Finish    == phase = "Resolution" /\ Decided /\ phase' = "MatchOver" /\ alive' = alive

Next == Start \/ Plan \/ Fight \/ Settle \/ NextRound \/ Finish

Spec == Init /\ [][Next]_vars
=============================================================================
