-------------------------------- MODULE Bots --------------------------------
(***************************************************************************)
(* A bot (AIBotController.cpp) and the player it plays: once per round it  *)
(* banks its gold or buys XP, buys from the shop, sells what is in the     *)
(* way, rerolls and fields its best units.  One tick runs the whole turn;  *)
(* here every turn of its loops is a step, so that what a loop leaves      *)
(* behind, and that it ends, can be stated.  Gifts and trait choices it    *)
(* answers as soon as it sees them.                                        *)
(*                                                                         *)
(* Items are left out: they add to a unit's power and to its traits.       *)
(* Where the code breaks a tie by unit id, the order in which the units    *)
(* were acquired, the model allows every order in Ages.                    *)
(***************************************************************************)
EXTENDS Roster, Sequences, SequencesExt

CONSTANTS
  Special,            \* champions outside the pool (! ChampionDefinition::IsPooled)
  CostOf, PriceOf,    \* ChampionDefinition::cost and Price()
  TraitsOf,           \* ChampionDefinition::traits
  Breakpoints,        \* of each trait: the counts, ascending
  Ages,               \* orders of the cells to break ties by
  MaxLevel, SlotCount, RerollCost, BuyXpCost, BonusGold,
  LevelUpAboveGold, ReserveGold, InterestStepGold, MaxInterestGold,   \* BotProfile
  MaxRerolls, BenchSlack, TargetLevel,
  GiftSets,           \* what Mother Nature may offer: champions, "Item", "Gold", "Xp", "Heal"
  Income, MaxStage, MaxGold   \* bounds of the exploration

Traits    == DOMAIN Breakpoints
ShopSlots == 1 .. SlotCount
GiftKinds == {"Item", "Gold", "Xp", "Heal"}

ASSUME BotAssumption ==
  /\ IsFiniteSet(Champions) /\ Special \subseteq Champions
  /\ CostOf \in [Champions -> Nat] /\ PriceOf \in [Champions -> Nat]
  /\ \A c \in Champions \ Special : PriceOf[c] = CostOf[c] /\ TeamSlots[c] <= 1
  /\ TraitsOf \in [Champions -> SUBSET Traits]
  /\ Breakpoints \in [Traits -> Seq(Nat \ {0})]
  /\ TargetLevel \in [1 .. MaxStage -> Nat]
  /\ Ages \subseteq [Cells -> Int]
  /\ \A age \in Ages, x, y \in Cells : age[x] = age[y] => x = y
  /\ GiftSets \subseteq Seq((Champions \ Plants) \cup GiftKinds) /\ Champions \cap GiftKinds = {}
  /\ {RerollCost, BuyXpCost, BonusGold, ReserveGold, InterestStepGold, MaxInterestGold, MaxGold} \subseteq Nat
  /\ Income \subseteq Nat /\ MaxStage \in Nat \ {0}

VARIABLES
  doing,      \* the part of Tick that comes next
  stage, low, \* of the round; health at or below BotProfile::lowHealth
  roster, level, gold,
  shop, open, \* what its shop shows, and whether it is open
  rolls,      \* rerolls of this turn
  gifts,      \* Mother Nature's offers to it
  choice      \* TraitChoice: kind and tier of what waits for its answer

botVars == <<doing, stage, low, roster, level, gold, shop, open, rolls, gifts, choice>>

NoChoice == [kind |-> "None", tier |-> 0]
CashOutsAndModules == {NoChoice} \cup [kind : {"Module"}, tier : {1}] \cup [kind : {"Prototype"}, tier : 2 .. 3]

\* What a shop may show: the Queen in its first slot, and nobody holds two.
Shops ==
  {f \in [ShopSlots -> Champions \ Plants] :
     /\ \A k \in ShopSlots \ {1} : f[k] \notin Special
     /\ f[1] \in Special => \A x \in Cells : roster[x].champ # f[1]}

ClosedShop == [k \in ShopSlots |-> NoChampion]

BotInit ==
  /\ doing = "Waiting" /\ stage = 1 /\ low = FALSE
  /\ roster = EmptyRoster /\ level = 1 /\ gold = 0
  /\ shop = ClosedShop /\ open = FALSE /\ rolls = 0
  /\ gifts = <<>> /\ choice = NoChoice

-----------------------------------------------------------------------------
(* What a unit and a team are worth.                                       *)

TierValue == 12     \* kTierValue

\* SynergyValue: so much per breakpoint, in a straight line from one to the next.
SynergyValue(t, count) ==
  LET counts  == Breakpoints[t]
      tier    == Cardinality({i \in DOMAIN counts : count >= counts[i]})
      reached == IF tier = 0 THEN 0 ELSE counts[tier]
  IN TierValue * tier + IF tier = Len(counts) THEN 0
                        ELSE (TierValue * (count - reached)) \div (counts[tier + 1] - reached)

Holders(team, t) == {c \in team : t \in TraitsOf[c]}

\* SynergyGain: what a champion adds to a team of different champions.
SynergyGain(team, c) ==
  IF c \in team THEN 0
  ELSE SumFunction([t \in TraitsOf[c] |-> SynergyValue(t, Cardinality(Holders(team, t)) + 1)
                                            - SynergyValue(t, Cardinality(Holders(team, t)))])

UnitPower(u) == CostOf[u.champ] * 4 * CopiesForStarLevel(u.star)

ChampionsAt(r, S) == {r[x].champ : x \in S}

Standing(r) == {x \in Cells : r[x] # Empty}

SlotsOf(r, S) == Cardinality({t \in S \X (1 .. 2) : t[2] <= TeamSlots[r[t[1]].champ]})

\* The unit to choose next: the strongest with what it adds to the chosen ones.
Score(r, chosen, x) ==
  UnitPower(r[x]) + (SynergyGain(ChampionsAt(r, chosen), r[x].champ) * 3) \div 2

\* The best of some cells, as a set of at most one.
BestChoice(r, chosen, age, fits) ==
  {x \in fits : \A y \in fits :
     \/ Score(r, chosen, x) > Score(r, chosen, y)
     \/ Score(r, chosen, x) = Score(r, chosen, y) /\ age[x] <= age[y]}

NextChosen_OneShort(r, capacity, age, line) ==
  LET chosen == ToSet(line)
      fits == {x \in Standing(r) \ chosen :
                 r[x].champ \notin Plants /\ SlotsOf(r, chosen \cup {x}) < capacity}
      best == BestChoice(r, chosen, age, fits)
  IN IF best = {} THEN line ELSE Append(line, CHOOSE x \in best : TRUE)

NextChosen(r, capacity, age, line) ==
  LET chosen == ToSet(line)
      fits == {x \in Standing(r) \ chosen :
                 r[x].champ \notin Plants /\ SlotsOf(r, chosen \cup {x}) <= capacity}
      best == BestChoice(r, chosen, age, fits)
  IN IF best = {} THEN line ELSE Append(line, CHOOSE x \in best : TRUE)

\* ChooseBoard: the cells of the units to field, in the order they are chosen.
ChooseBoard(r, capacity, age) ==
  LET chosen[n \in 0 .. capacity] ==
        IF n = 0 THEN <<>> ELSE NextChosen(r, capacity, age, chosen[n - 1])
  IN chosen[capacity]

-----------------------------------------------------------------------------
(* What the bot would buy, and what it would sell for it.                  *)

Larger(a, b)  == IF a < b THEN b ELSE a
Smaller(a, b) == IF a < b THEN a ELSE b

\* The savings it will not spend on anything but a star-up.
KeepGold ==
  IF low THEN ReserveGold
  ELSE Larger(ReserveGold, Smaller(MaxInterestGold, (stage - 1) * InterestStepGold))

Sellable(r) ==
  {x \in Standing(r) :
     /\ r[x].champ \notin Plants \cup Special
     /\ r[x].star = 1 /\ Cardinality(CopiesAt(r, r[x].champ, 1)) < 2}

\* The bench before the board, then the cheapest, then the oldest.
Weaker(r, age, x, y) ==
  LET place(z) == IF z \in Board THEN 1 ELSE 0
      cost(z)  == CostOf[r[z].champ]
  IN \/ place(x) < place(y)
     \/ place(x) = place(y) /\ cost(x) < cost(y)
     \/ place(x) = place(y) /\ cost(x) = cost(y) /\ age[x] <= age[y]

\* WeakestSellable, as a set of at most one cell.
WeakestSellable(r, age) ==
  {x \in Sellable(r) : \A y \in Sellable(r) : Weaker(r, age, x, y)}

SellCandidateFor_Anything(weakest, c) == {x \in weakest : roster[x].champ # c}

\* SellCandidateFor: only for something dearer, or as dear and not the first copy.
SellCandidateFor(weakest, c) ==
  {x \in weakest :
     /\ roster[x].champ # c
     /\ \/ CostOf[c] > CostOf[roster[x].champ]
        \/ CostOf[c] = CostOf[roster[x].champ] /\ CopiesAt(roster, c, 1) # {}}

Limit(r, c) ==
  Larger(ReserveGold, IF Cardinality(CopiesAt(r, c, 1)) >= 2 THEN 0 ELSE KeepGold)

\* What the loop of BuyWantedUnits does not pass over, for the team it would field now
\* and the units it might sell (at most one).
Wanted(team, weakest, c) ==
  /\ gold - CostOf[c] >= Limit(roster, c)
  /\ \/ CopiesAt(roster, c, 1) # {}
     \/ SynergyGain(team, c) > 0
     \/ Cardinality(Standing(roster)) < level + BenchSlack
     \/ \E x \in weakest : roster[x].champ # c /\ CostOf[c] > CostOf[roster[x].champ]
  /\ CanAdd(roster, level, c) \/ SellCandidateFor(weakest, c) # {}

OfferScore(team, c) ==
  LET copies == Cardinality(CopiesAt(roster, c, 1))
  IN (IF copies >= 2 THEN 60 ELSE IF copies = 1 THEN 14 ELSE 0)
       + (SynergyGain(team, c) * 3) \div 2 + CostOf[c] * 4

\* The slots it may pick: the shuffled order decides between equal scores.
Picks(team, weakest) ==
  LET wanted == {k \in ShopSlots : shop[k] # NoChampion /\ Wanted(team, weakest, shop[k])}
  IN {k \in wanted : \A j \in wanted : OfferScore(team, shop[k]) >= OfferScore(team, shop[j])}

-----------------------------------------------------------------------------
(* The turn.                                                               *)

\* Mother Nature: the most useful gift; a unit without room would be paid in gold.
GiftRank(g) ==
  CASE g \in Champions -> IF CanAdd(roster, level, g) THEN 8 ELSE 4
    [] g = "Item" -> 6 [] g = "Gold" -> 4 [] g = "Xp" -> 2
    [] OTHER -> IF low THEN 7 ELSE 0

PickGift ==
  /\ doing = "Gift"
  /\ \E best \in DOMAIN gifts :
       /\ \A j \in DOMAIN gifts : GiftRank(gifts[best]) >= GiftRank(gifts[j])
       /\ \A j \in 1 .. best - 1 : GiftRank(gifts[best]) > GiftRank(gifts[j])
       /\ LET g == gifts[best]
              taken == g \in Champions /\ CanAdd(roster, level, g)
          IN /\ roster' = IF taken THEN Add(roster, level, g) ELSE roster
             /\ gold' = gold + IF taken THEN 0 ELSE IF g \in Champions THEN CostOf[g]
                               ELSE IF g = "Gold" THEN BonusGold ELSE 0
             /\ level' \in {level} \cup IF g = "Xp" /\ level < MaxLevel THEN {level + 1} ELSE {}
  /\ gifts' = <<>>
  /\ doing' = "Waiting"
  /\ UNCHANGED <<stage, low, shop, open, rolls, choice>>

\* Modules at once; a cash-out from tier three, or two when in trouble.  It stays on
\* offer otherwise.
AnswerTraitChoice ==
  /\ doing = "Answer"
  /\ LET takes == choice.kind = "Prototype" /\ (choice.tier >= 3 \/ (choice.tier >= 2 /\ low))
     IN /\ choice' = IF takes \/ choice.kind = "Module" THEN NoChoice ELSE choice
        /\ gold' = gold + IF takes THEN BonusGold ELSE 0
  /\ doing' = "Xp"
  /\ UNCHANGED <<stage, low, roster, level, shop, open, rolls, gifts>>

\* TryBuyXp pays before it counts: the XP may or may not complete a level.
BuyXp ==
  /\ level < MaxLevel /\ gold >= BuyXpCost
  /\ gold' = gold - BuyXpCost
  /\ level' \in {level, level + 1}
  /\ UNCHANGED <<stage, low, roster, shop, open, rolls, gifts, choice>>

Goes(next) ==
  /\ doing' = next
  /\ UNCHANGED <<stage, low, roster, level, gold, shop, open, rolls, gifts, choice>>

\* One pass of the loop of BuyExperience, or its end.
BuyExperience ==
  /\ doing = "Xp"
  /\ \/ gold > LevelUpAboveGold /\ BuyXp /\ doing' = "Xp"
     \/ ~ (gold > LevelUpAboveGold /\ level < MaxLevel /\ gold >= BuyXpCost) /\ Goes("Buy")

\* After the visit comes LevelToTarget, but only before the first reroll.
AfterVisit == IF rolls = 0 THEN "Level" ELSE "Reroll"

\* What is sold to make room is gone when the purchase is refused after all: there is
\* still no room, or the price is not the cost.
BuyWantedUnit(k, weakest) ==
  LET c == shop[k]
      sold == IF CanAdd(roster, level, c) THEN {} ELSE SellCandidateFor(weakest, c)
      cleared == [x \in Places |-> IF x \in sold THEN Empty ELSE roster[x]]
      money == gold + SumFunction([x \in sold |-> PriceOf[roster[x].champ]])
      buys == CanAdd(cleared, level, c) /\ money >= PriceOf[c]
  IN /\ roster' = IF buys THEN Add(cleared, level, c) ELSE cleared
     /\ gold' = IF buys THEN money - PriceOf[c] ELSE money
     /\ shop' = IF buys THEN [shop EXCEPT ![k] = NoChampion] ELSE shop
     /\ doing' = IF buys THEN "Buy" ELSE AfterVisit
     /\ UNCHANGED <<stage, low, level, open, rolls, gifts, choice>>

\* One pass of the loop of BuyWantedUnits: the best offer that is left, or the end.
BuyWantedUnits(age) ==
  /\ doing = "Buy"
  /\ \E team \in {ChampionsAt(roster, ToSet(ChooseBoard(roster, level, age)))},
        weakest \in {WeakestSellable(roster, age)} :
       \E picks \in {Picks(team, weakest)} :
         \/ picks = {} /\ Goes(AfterVisit)
         \/ \E k \in picks : BuyWantedUnit(k, weakest)

MayLevel == level < TargetLevel[stage] /\ gold - BuyXpCost >= KeepGold

LevelToTarget ==
  /\ doing = "Level"
  /\ \/ MayLevel /\ BuyXp /\ doing' = "Level"
     \/ ~ (MayLevel /\ level < MaxLevel) /\ Goes("Reroll")

MayReroll ==
  /\ open /\ rolls < MaxRerolls /\ stage >= 2
  /\ gold - RerollCost >= Larger(KeepGold, ReserveGold)
  /\ FreeIn(roster, Bench) # {}

Reroll ==
  /\ doing = "Reroll"
  /\ \/ /\ MayReroll
        /\ gold' = gold - RerollCost /\ rolls' = rolls + 1
        /\ shop' \in Shops
        /\ doing' = "Buy"
        /\ UNCHANGED <<stage, low, roster, level, open, gifts, choice>>
     \/ ~ MayReroll /\ Goes("Arrange")

\* What ArrangeBoard has made of the roster so far, and where the chosen units stand now:
\* one more of them goes from the bench to a free hex, or for the weakest fielded unit
\* that was not chosen when the board is full.
FieldOne(age, now, x) ==
  LET r == now.roster
      others == {y \in Board \ now.chosen : r[y] # Empty /\ r[y].champ \notin Plants}
      out  == {y \in others : \A z \in others : UnitPower(r[y]) < UnitPower(r[z]) \/
                 (UnitPower(r[y]) = UnitPower(r[z]) /\ age[y] <= age[z])}
      free == {y \in Board : r[y] = Empty /\ CanMove(r, level, x, y)}
      goal == IF BoardCount(r) >= level THEN {y \in out : CanMove(r, level, x, y)} ELSE free
  IN IF x \in Board \/ goal = {} THEN now
     ELSE LET y == Lowest(goal)
          IN [roster |-> Moved(r, x, y), chosen |-> (now.chosen \ {x}) \cup {y}]

ArrangeBoard(age) ==
  /\ doing = "Arrange"
  /\ \E line \in {ChooseBoard(roster, level, age)} :
       LET fielded[n \in 0 .. Len(line)] ==
             IF n = 0 THEN [roster |-> roster, chosen |-> ToSet(line)]
             ELSE FieldOne(age, fielded[n - 1], line[n])
       IN roster' = fielded[Len(line)].roster
  /\ doing' = "Waiting" /\ rolls' = 0
  /\ UNCHANGED <<stage, low, level, gold, shop, open, gifts, choice>>

Turn ==
  \/ PickGift
  \/ AnswerTraitChoice
  \/ BuyExperience
  \/ \E age \in Ages :
       BuyWantedUnits(age) \/ ArrangeBoard(age)
  \/ LevelToTarget
  \/ Reroll

-----------------------------------------------------------------------------
(* The match around it.                                                    *)

\* A gift round's gifts come before its Planning.
MotherNature ==
  /\ doing = "Waiting" /\ gifts = <<>>
  /\ gifts' \in GiftSets
  /\ low' \in BOOLEAN
  /\ gold + BonusGold <= MaxGold
  /\ doing' = "Gift"
  /\ UNCHANGED <<stage, roster, level, gold, shop, open, rolls, choice>>

\* Planning: income, a fresh shop or a closed one, perhaps a choice to make.
Planning ==
  /\ doing = "Waiting"
  /\ stage' \in stage .. MaxStage
  /\ low' \in BOOLEAN
  /\ gold' \in {Smaller(gold + i, MaxGold) : i \in Income}
  /\ open' \in BOOLEAN
  /\ shop' \in IF open' THEN Shops ELSE {ClosedShop}
  /\ choice' \in IF choice = NoChoice THEN CashOutsAndModules ELSE {choice}
  /\ doing' = "Answer"
  /\ UNCHANGED <<roster, level, rolls, gifts>>

BotNext == Turn \/ MotherNature \/ Planning

\* Tick does not return in the middle of a turn.
TurnsGoOn == <>[](doing # "Waiting") => []<><<TRUE>>_botVars

BotSpec == BotInit /\ [][BotNext]_botVars /\ TurnsGoOn
-----------------------------------------------------------------------------
(* Properties.                                                             *)

\* What the roster would cost, copy by copy.
Value(r) == SumFunction([c \in Champions |-> CostOf[c] * Worth(r, c)])

\* "When its roster is full it sells its weakest lone unit to make room for a purchase
\* that is worth more" (AIBotController.h): no visit to the shop leaves the bot with less
\* on its roster, a unit is never sold for nothing.  Said of bots that neither hold the
\* Queen nor are offered her: she takes two slots, and her price is not her cost.
NoQueen ==
  /\ \A k \in ShopSlots : shop[k] \notin Special
  /\ \A x \in Cells : roster[x].champ \notin Special

SellsOnlyToBuy == [][NoQueen => Value(roster') >= Value(roster)]_botVars

\* The team is complete: no unit on the bench for which the board has a slot.  The Queen
\* takes two slots and waits on the bench when only one is left.
Arranged ==
  \A x \in Bench : roster[x] # Empty =>
     \/ BoardCount(roster) + TeamSlots[roster[x].champ] > level
     \/ \E y \in Bench : TeamSlots[roster[y].champ] = 2

\* Every turn ends, whatever the shop shows: the loops buy, sell and reroll only so
\* often.  It ends with a board as full as the roster allows.
EveryTurnEnds == (doing = "Answer") ~> (doing = "Waiting" /\ Arranged)
=============================================================================
