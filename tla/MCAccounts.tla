---------------------------- MODULE MCAccounts ----------------------------
(* Instances of Accounts. *)
EXTENDS Accounts

CONSTANTS Ann, Bob, Cid

Cosmetic   == {"frame"}
PriceOf    == [i \in Cosmetic |-> 3]
MissionsOf == {"win_once", "play_twice"}
MissionDef ==
  [win_once   |-> [period |-> "daily", kind |-> "win", mode |-> "any", count |-> 1, coins |-> 1, xp |-> 2],
   play_twice |-> [period |-> "weekly", kind |-> "play", mode |-> "ranked", count |-> 2, coins |-> 2, xp |-> 0]]
\* Day 4 is the first of a week.
DailyOf    == [d \in 3 .. 4 |-> IF d = 3 THEN {} ELSE {"win_once"}]
WeeklyOf   == [w \in 0 .. 1 |-> {"play_twice"}]
Coins      == [m \in Modes |-> [p \in Placements |-> IF p = 1 THEN 2 ELSE 0]]
Xp         == [m \in Modes |-> [p \in Placements |-> IF p = 1 THEN 3 ELSE 1]]
=============================================================================
