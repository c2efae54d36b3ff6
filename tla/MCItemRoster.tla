---------------------------- MODULE MCItemRoster ----------------------------
(***************************************************************************)
(* A roster of two bench slots and two hexes, one champion and one plant:  *)
(* enough for a cascade of merges up to three stars.  A component that     *)
(* makes an item with its like, one that does not combine, a remover.      *)
(***************************************************************************)
EXTENDS ItemRoster

CONSTANTS footman, sapling, none, rod, bow, staff, remover, nothing

MCChampions == {footman, sapling}
MCPlants == {sapling}
MCTeamSlots == [c \in MCChampions |-> IF c = sapling THEN 0 ELSE 1]

MCItems == {rod, bow, staff, remover}
MCCombined == {staff}
MCComponents == [i \in MCCombined |-> {rod}]
MCRemovers == {remover}
=============================================================================
