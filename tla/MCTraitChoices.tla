--------------------------- MODULE MCTraitChoices ---------------------------
(***************************************************************************)
(* Two Hexagon champions, one that may carry the emblem and one of Najmi.  *)
(* One holder opens the first module tier, two the second, three the third *)
(* (so only the emblem reaches it); the second tier has a single module.   *)
(* A cash-out tier costs two star dust and a fight pays up to four.        *)
(***************************************************************************)
EXTENDS TraitChoices

CONSTANTS hexa, hexb, carrier, najmi, m1, m2, m3, m4

MCChampions     == {hexa, hexb, carrier, najmi}
MCHexagonUnits  == {hexa, hexb}
MCHexagonCounts == <<1, 2, 3>>
MCModuleTiers   == <<1, 2, 3>>
MCModulesOf     == <<{m1, m2}, {m3}, {m4}>>
MCNajmiUnits    == {najmi}
MCNajmiCounts   == <<1>>
MCDustRules     == <<[onLoss |-> 1, perLossStreak |-> 1, perTakedown |-> 1, perCombat |-> 1, multiplier |-> 1]>>
=============================================================================
