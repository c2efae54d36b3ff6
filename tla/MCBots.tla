------------------------------- MODULE MCBots -------------------------------
(***************************************************************************)
(* One bench slot, two hexes, a shop of two slots.  A cheap champion, a    *)
(* dear one and the Queen share a trait; the Queen counts as a champion of *)
(* cost 3 and is sold for 4.                                               *)
(***************************************************************************)
EXTENDS Bots

CONSTANTS footman, knight, queen, none, guard

MCChampions == {footman, knight, queen}
MCSpecial   == {queen}
MCTeamSlots == [c \in MCChampions |-> IF c = queen THEN 2 ELSE 1]
MCCost      == [c \in MCChampions |-> IF c = footman THEN 1 ELSE IF c = knight THEN 2 ELSE 3]
MCPrice     == [c \in MCChampions |-> IF c = queen THEN 4 ELSE MCCost[c]]
MCTraits    == [c \in MCChampions |-> {guard}]
MCBreakpoints == [t \in {guard} |-> <<2>>]
MCAges      == {[x \in Cells |-> x], [x \in Cells |-> 0 - x]}
MCTarget    == <<1, 2>>
MCGifts     == {<<footman, "Heal">>, <<"Item", "Heal">>, <<"Gold", knight>>, <<"Xp", "Heal">>}
=============================================================================
