------------------------------ MODULE MCMatch ------------------------------
(***************************************************************************)
(* Two players, one shop slot, one bench slot and two hexes each, and      *)
(* three rounds: one against monsters in which the shop is closed, one in  *)
(* which it is open, and one that begins with gifts.  The footman has      *)
(* enough copies for a two-star, the hero is in another cost tier and must *)
(* be unlocked.  A footman fielded at level two unlocks the hero and       *)
(* brings the Queen, who takes two slots; a fielded hero grows a plant and *)
(* is given the herald.                                                    *)
(***************************************************************************)
EXTENDS Snapshot

CONSTANTS footman, hero, queen, herald, sapling, none, other, Copies

MCChampions == {footman, hero, queen, herald, sapling}
MCTeamSlots == [c \in MCChampions |-> IF c = queen THEN 2 ELSE IF c = sapling THEN 0 ELSE 1]
MCInitial   == [c \in Pooled |-> IF c = footman THEN Copies ELSE 1]
MCCost      == [c \in Pooled |-> IF c = footman THEN 1 ELSE 4]
MCRollable  == [l \in Levels |-> IF l = 1 THEN {1} ELSE {1, 4}]
MCFavourite == [l \in Levels |-> 1]

\* Bound of the exploration: one player at most gets past level one, and only there is
\* a shop ever locked.
OneLeads ==
  /\ \A p, q \in Players : p # q => level[p] = 1 \/ level[q] = 1
  /\ \A p \in locked : level[p] > 1
LedSpec == Init /\ [][Next /\ OneLeads']_vars
=============================================================================
