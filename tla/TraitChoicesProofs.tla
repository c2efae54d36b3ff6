------------------------- MODULE TraitChoicesProofs -------------------------
(***************************************************************************)
(* Theorems about TraitChoices, for any champions, traits and modules.     *)
(*                                                                         *)
(* What offers and answers do to a seat does not depend on the phase, so   *)
(* the invariant SeatInv is one of seats: AskedInv, the tiers asked and    *)
(* answered so far, and BankInv, the cash-out on offer.  Each operator is  *)
(* shown to keep it, then each action.                                     *)
(***************************************************************************)
EXTENDS TraitChoices, TLAPS, FiniteSetTheorems, WellFoundedInduction

-----------------------------------------------------------------------------
(* Counting.                                                               *)

\* A set of numbers that has a bound has a largest one: the least of its bounds.
LEMMA LargestOfBounded ==
  ASSUME NEW n \in Nat, NEW S \in SUBSET (0 .. n), S # {}
  PROVE  Largest(S) \in S /\ \A m \in S : m <= Largest(S)
<1> DEFINE R == OpToRel(<, Nat)
           bounds == {b \in Nat : \A m \in S : m <= b}
<1>1. PICK b \in bounds : \A c \in bounds : ~ c < b
  <2>1. n \in bounds /\ bounds \subseteq Nat
    OBVIOUS
  <2>2. \E b \in bounds : \A c \in bounds : <<c, b>> \notin R
    <3> HIDE DEF bounds, R
    <3>1. IsWellFoundedOn(R, Nat)
      BY NatLessThanWellFounded DEF R
    <3> QED
      BY <3>1, <2>1, WFMin
  <2> QED
    BY <2>1, <2>2 DEF OpToRel
<1>2. b \in S
  <2>1. CASE b = 0
    <3>1. PICK m \in S : m <= b
      BY <1>1
    <3> QED
      BY <2>1, <3>1
  <2>2. CASE b # 0
    <3>1. b - 1 \in Nat /\ b - 1 < b
      BY <2>2
    <3>2. PICK m \in S : ~ m <= b - 1
      BY <1>1, <3>1
    <3> QED
      BY <3>1, <3>2
  <2> QED
    BY <2>1, <2>2
<1> QED
  BY <1>2 DEF Largest

LEMMA Parameters ==
  /\ HexagonCounts \in Seq(Nat) /\ \A i \in DOMAIN HexagonCounts : HexagonCounts[i] > 0
  /\ NajmiCounts \in Seq(Nat)
  /\ ModuleTiers \in [DOMAIN HexagonCounts -> 0 .. 3]
  /\ StarDustPerTier \in Nat /\ StarDustPerTier > 0
  /\ Tiers = 1 .. 3 /\ IsFiniteSet(Modules)
  /\ \A s, t \in 1 .. 3 : ModulesOf[s] \cap ModulesOf[t] # {} => s = t
BY TraitAssumption

\* A breakpoint of the trait is reached, or none.
LEMMA ActiveTierBounds ==
  ASSUME NEW counts \in Seq(Nat), NEW count \in Nat, NEW holders \in Nat
  PROVE  ActiveTier(counts, count, holders) \in 0 .. Len(counts)
<1> DEFINE S == {0} \cup {i \in DOMAIN counts : count >= counts[i]}
<1>1. Len(counts) \in Nat /\ S \in SUBSET (0 .. Len(counts)) /\ S # {}
  OBVIOUS
<1>2. Largest(S) \in 0 .. Len(counts)
  BY <1>1, LargestOfBounded
<1> QED
  BY <1>1, <1>2 DEF ActiveTier, PrismaticMinBreakpoints

LEMMA HoldersAreNumbers ==
  ASSUME NEW board \in SUBSET Champions, NEW S
  PROVE  Cardinality(board \cap S) \in Nat /\ Cardinality(board \ S) \in Nat
<1>1. IsFiniteSet(board \cap S) /\ IsFiniteSet(board \ S)
  BY TraitAssumption, FS_Subset
<1> QED
  BY <1>1, FS_CardinalityType

LEMMA UnlockedTierType ==
  ASSUME NEW board \in SUBSET Champions, NEW carriers \in SUBSET Champions
  PROVE  UnlockedTier(board, carriers) \in 0 .. 3
<1>1. HexagonTier(board, carriers) \in 0 .. Len(HexagonCounts)
  <2>1. Cardinality(board \cap (HexagonUnits \cup carriers)) \in Nat
    BY HoldersAreNumbers
  <2>2. Cardinality((board \cap carriers) \ HexagonUnits) \in Nat
    BY HoldersAreNumbers
  <2> QED
    BY <2>1, <2>2, ActiveTierBounds, Parameters DEF HexagonTier
<1> DEFINE S == {0} \cup {ModuleTiers[k] : k \in 1 .. HexagonTier(board, carriers)}
<1>2. S \in SUBSET (0 .. 3) /\ S # {}
  BY <1>1, Parameters
<1>3. Largest(S) \in 0 .. 3
  BY <1>2, LargestOfBounded
<1> QED
  BY <1>3 DEF UnlockedTier

\* An empty board unlocks nothing.
LEMMA NothingUnlockedAtFirst == UnlockedTier({}, {}) = 0
<1> DEFINE S == {0} \cup {i \in DOMAIN HexagonCounts : 0 >= HexagonCounts[i]}
<1>1. S = {0}
  BY Parameters
<1>2. Largest({0}) = 0
  <2>1. {0} \in SUBSET (0 .. 0) /\ {0} # {}
    OBVIOUS
  <2> QED
    BY <2>1, LargestOfBounded
<1>3. Cardinality({}) = 0
  BY FS_EmptySet
<1>4. ActiveTier(HexagonCounts, 0, 0) = IF /\ Len(HexagonCounts) >= PrismaticMinBreakpoints
                                           /\ Largest(S) = Len(HexagonCounts) /\ 0 = 0
                                        THEN Largest(S) - 1 ELSE Largest(S)
  BY DEF ActiveTier
<1>5. ActiveTier(HexagonCounts, 0, 0) = 0
  <2>1. Largest(S) = 0
    BY <1>1, <1>2
  <2>2. ~ (Len(HexagonCounts) >= 4 /\ 0 = Len(HexagonCounts))
    OBVIOUS
  <2> HIDE DEF S
  <2> QED
    BY <1>4, <2>1, <2>2 DEF PrismaticMinBreakpoints
<1>6. HexagonTier({}, {}) = 0
  <2>1. {} \cap (HexagonUnits \cup {}) = {} /\ ({} \cap {}) \ HexagonUnits = {}
    OBVIOUS
  <2> QED
    BY <1>3, <1>5, <2>1 DEF HexagonTier
<1>7. {0} \cup {ModuleTiers[k] : k \in 1 .. 0} = {0}
  OBVIOUS
<1> QED
  BY <1>2, <1>6, <1>7 DEF UnlockedTier

LEMMA NajmiTierType ==
  ASSUME NEW board \in SUBSET Champions
  PROVE  NajmiTier(board) \in 0 .. Len(NajmiCounts)
BY HoldersAreNumbers, ActiveTierBounds, Parameters DEF NajmiTier

\* A module is of one tier, as ids are unique.
LEMMA TierOfModule ==
  ASSUME NEW t \in 1 .. 3, NEW m \in ModulesOf[t]
  PROVE  TierOf(m) = t /\ m \in Modules
BY Parameters DEF TierOf, Tiers, Modules

LEMMA QuotientsKeepOrder ==
  ASSUME NEW a \in Nat, NEW b \in Nat, NEW d \in Nat, d > 0, a <= b
  PROVE  a \div d \in Nat /\ b \div d \in Nat /\ a \div d <= b \div d /\ 0 \div d = 0
<1> DEFINE qa == a \div d  ra == a % d  qb == b \div d  rb == b % d
<1>1. qa \in Nat /\ ra \in Nat /\ a = d * qa + ra /\ ra < d
  OBVIOUS
<1>2. qb \in Nat /\ rb \in Nat /\ b = d * qb + rb /\ rb < d
  OBVIOUS
<1>3. 0 \div d = 0
  OBVIOUS
<1> HIDE DEF qa, ra, qb, rb
<1>4. ~ qa > qb
  <2> SUFFICES ASSUME qa > qb PROVE FALSE
    OBVIOUS
  <2> DEFINE e == qa - qb - 1
  <2>1. e \in Nat /\ qa = qb + 1 + e
    BY <1>1, <1>2
  <2> HIDE DEF e
  <2>2. d * qa = d * qb + d + d * e
    BY <2>1, <1>2
  <2>3. d * e \in Nat /\ d * qb \in Nat
    BY <2>1, <1>2
  <2> HIDE <2>1
  <2> QED
    BY <1>1, <1>2, <2>2, <2>3
<1> QED
  BY <1>1, <1>2, <1>3, <1>4 DEF qa, qb

LEMMA CashOutTierType ==
  ASSUME NEW d \in Nat
  PROVE  /\ CashOutTier(d) \in 0 .. 6 /\ CashOutTier(0) = 0
         /\ \A e \in Nat : d <= e => CashOutTier(d) <= CashOutTier(e)
<1>0. StarDustPerTier \in Nat /\ StarDustPerTier > 0
  BY Parameters
<1>1. /\ d \div StarDustPerTier \in Nat /\ 0 \div StarDustPerTier = 0
      /\ \A e \in Nat : d <= e => e \div StarDustPerTier \in Nat /\ d \div StarDustPerTier <= e \div StarDustPerTier
  <2>1. ASSUME NEW e \in Nat, d <= e
        PROVE  /\ e \div StarDustPerTier \in Nat /\ d \div StarDustPerTier <= e \div StarDustPerTier
    BY <1>0, <2>1, QuotientsKeepOrder
  <2>2. d \div StarDustPerTier \in Nat /\ 0 \div StarDustPerTier = 0
    <3>1. d <= d
      OBVIOUS
    <3> QED
      BY <1>0, <3>1, QuotientsKeepOrder
  <2> QED
    BY <2>1, <2>2
<1> QED
  BY <1>1 DEF CashOutTier, CashOutTiers

-----------------------------------------------------------------------------
(* Seats.                                                                  *)

SeatTypes(s) ==
  s \in [offered : 0 .. 3, modules : Seq(Modules), dust : Nat, choice : Choices, declined : BOOLEAN]

\* The tiers offered so far that have been answered, if they had modules.
Asked(s) == IF s.choice.kind = "Module" THEN s.offered - 1 ELSE s.offered

AnsweredTiers(s) == {TierOf(s.modules[i]) : i \in DOMAIN s.modules}

AskedInv(s) ==
  /\ AnsweredTiers(s) = {t \in 1 .. Asked(s) : ModulesOf[t] # {}}
  /\ \A i, j \in DOMAIN s.modules : i < j => TierOf(s.modules[i]) < TierOf(s.modules[j])
  /\ s.choice.kind = "Module" =>
       /\ s.choice.tier = s.offered /\ s.offered \in 1 .. 3
       /\ s.choice.options \subseteq ModulesOf[s.offered] /\ ModulesOf[s.offered] # {}

BankInv(s) ==
  /\ s.choice.kind = "Prototype" => s.choice.tier = CashOutTier(s.dust)
  /\ s.choice.kind = "None" /\ CashOutTier(s.dust) > 0 => s.declined

SeatInv(s) == SeatTypes(s) /\ AskedInv(s) /\ BankInv(s)

\* Nothing is left to ask: a module waits, or all the board unlocks was offered.
UpToDate(s, unlocked) == s.choice.kind = "Module" \/ unlocked <= s.offered

EveryTierHasModules == \A t \in 1 .. 3 : ModulesOf[t] # {}

\* No module of a tier that was not offered has been taken.
LEMMA NextTierIsWhole ==
  ASSUME NEW s, SeatTypes(s), AskedInv(s), s.choice.kind # "Module", s.offered < 3
  PROVE  ModulesOf[s.offered + 1] \ Chosen(s) = ModulesOf[s.offered + 1]
<1> SUFFICES ASSUME NEW m \in ModulesOf[s.offered + 1], m \in Chosen(s) PROVE FALSE
  OBVIOUS
<1>1. s.offered \in Nat /\ s.offered + 1 \in 1 .. 3
  BY DEF SeatTypes
<1>2. TierOf(m) = s.offered + 1
  BY <1>1, TierOfModule
<1>3. TierOf(m) \in AnsweredTiers(s)
  BY DEF Chosen, AnsweredTiers
<1>4. TierOf(m) \in 1 .. s.offered
  BY <1>3 DEF AskedInv, Asked
<1> QED
  BY <1>1, <1>2, <1>4

\* A seat after the offer of the next tier.
LEMMA OfferModulesKeeps ==
  ASSUME NEW s, SeatTypes(s), AskedInv(s), NEW unlocked \in 0 .. 3, NEW t \in OfferModules(s, unlocked)
  PROVE  /\ SeatTypes(t) /\ AskedInv(t)
         /\ t.dust = s.dust /\ t.declined = s.declined
         /\ t.choice = s.choice \/ (t.choice.kind = "Module" /\ t.offered = s.offered + 1)
         /\ EveryTierHasModules => UpToDate(t, unlocked)
<1> DEFINE next == s.offered + 1
           pool == ModulesOf[next] \ Chosen(s)
           shown == IF Cardinality(pool) < ModuleOptions THEN Cardinality(pool) ELSE ModuleOptions
<1>0. s.offered \in 0 .. 3 /\ s = [offered |-> s.offered, modules |-> s.modules, dust |-> s.dust,
                                    choice |-> s.choice, declined |-> s.declined]
  BY DEF SeatTypes
<1>1. CASE s.choice.kind = "Module" \/ unlocked <= s.offered
  <2>1. t = s
    BY <1>1 DEF OfferModules
  <2> QED
    BY <2>1, <1>0, <1>1 DEF UpToDate
<1>2. CASE s.choice.kind # "Module" /\ ~ unlocked <= s.offered
  <2>1. s.offered \in Nat /\ next \in 1 .. 3 /\ s.offered < 3
    BY <1>0, <1>2
  <2>2. pool = ModulesOf[next]
    BY <1>2, <2>1, NextTierIsWhole
  <2>3. CASE pool = {}
    <3>1. t = [s EXCEPT !.offered = next]
      BY <1>2, <2>3 DEF OfferModules
    <3>2. /\ t.offered = next /\ t.modules = s.modules /\ t.choice = s.choice
          /\ t.dust = s.dust /\ t.declined = s.declined
      BY <1>0, <3>1
    <3>3. SeatTypes(t)
      BY <2>1, <3>1 DEF SeatTypes
    <3>4. {k \in 1 .. Asked(t) : ModulesOf[k] # {}} = {k \in 1 .. Asked(s) : ModulesOf[k] # {}}
      BY <1>2, <2>1, <2>2, <2>3, <3>2 DEF Asked
    <3>5. AskedInv(t)
      BY <1>2, <3>2, <3>4 DEF AskedInv, AnsweredTiers
    <3> QED
      BY <1>2, <2>1, <2>2, <2>3, <3>2, <3>3, <3>5 DEF EveryTierHasModules
  <2>4. CASE pool # {}
    <3>1. PICK O \in SUBSET pool :
            t = [s EXCEPT !.offered = next,
                          !.choice = [NoChoice EXCEPT !.kind = "Module", !.tier = next, !.options = O]]
      BY <1>2, <2>4 DEF OfferModules
    <3> DEFINE c == [kind |-> "Module", tier |-> next, options |-> O, gold |-> 0, bonus |-> 0]
    <3>2. t = [offered |-> next, modules |-> s.modules, dust |-> s.dust, choice |-> c, declined |-> s.declined]
      BY <1>0, <3>1 DEF NoChoice
    <3>3. O \subseteq Modules
      BY <2>1, TierOfModule
    <3>4. c \in Choices
      BY <2>1, <3>3 DEF Choices, CashOutTiers
    <3>5. c.kind = "Module" /\ c.tier = next /\ c.options = O
      OBVIOUS
    <3> HIDE DEF c
    <3>6. SeatTypes(t)
      BY <2>1, <3>2, <3>4 DEF SeatTypes
    <3>7. Asked(t) = s.offered /\ Asked(s) = s.offered /\ AnsweredTiers(t) = AnsweredTiers(s)
      BY <1>2, <2>1, <3>2, <3>5 DEF Asked, AnsweredTiers
    <3>8. AskedInv(t)
      BY <2>1, <2>2, <2>4, <3>2, <3>5, <3>7 DEF AskedInv
    <3> QED
      BY <1>2, <2>1, <3>2, <3>5, <3>6, <3>8 DEF UpToDate
  <2> QED
    BY <2>3, <2>4
<1> QED
  BY <1>1, <1>2

\* A seat whose bank may have grown since its cash-out was offered, after OfferPrototype.
LEMMA OfferPrototypeKeeps ==
  ASSUME NEW s, SeatTypes(s), AskedInv(s),
         s.choice.kind = "Prototype" => s.choice.tier <= CashOutTier(s.dust)
  PROVE  /\ SeatInv(OfferPrototype(s))
         /\ OfferPrototype(s).offered = s.offered
         /\ (OfferPrototype(s).choice.kind = "Module") = (s.choice.kind = "Module")
<1> DEFINE tier == CashOutTier(s.dust)
           t == OfferPrototype(s)
<1>0. s.dust \in Nat /\ s = [offered |-> s.offered, modules |-> s.modules, dust |-> s.dust,
                              choice |-> s.choice, declined |-> s.declined]
  BY DEF SeatTypes
<1>1. tier \in 0 .. 6
  BY <1>0, CashOutTierType
<1>2. s.choice.kind \in {"None", "Module", "Prototype"} /\ s.choice.tier \in 0 .. 6
  BY DEF SeatTypes, Choices, CashOutTiers
<1>3. CASE s.choice.kind = "Module" \/ tier < 1 \/ (s.choice.kind = "Prototype" /\ s.choice.tier >= tier)
  <2>1. t = s
    BY <1>3 DEF OfferPrototype
  <2>2. BankInv(s)
    BY <1>1, <1>2, <1>3 DEF BankInv
  <2> QED
    BY <2>1, <2>2 DEF SeatInv
<1>4. CASE ~ (s.choice.kind = "Module" \/ tier < 1 \/ (s.choice.kind = "Prototype" /\ s.choice.tier >= tier))
  <2> DEFINE out == CashOuts[tier]
             c == [kind |-> "Prototype", tier |-> tier, options |-> 1 .. out.choices, gold |-> out.gold, bonus |-> out.bonus]
  <2>1. tier \in 1 .. 6
    BY <1>1, <1>4
  <2>2. out \in [choices : 1 .. 3, bonus : Nat, gold : Nat]
    BY <2>1 DEF CashOuts
  <2>3. PICK no : no = FALSE
    OBVIOUS
  <2>4. t = [s EXCEPT !.choice = c, !.declined = no]
    BY <1>4, <2>3 DEF OfferPrototype
  <2>5. (1 .. out.choices) \in SUBSET (1 .. 3) /\ out.gold \in Nat /\ out.bonus \in Nat
    BY <2>2
  <2>6. c \in Choices
    <3> DEFINE options == 1 .. out.choices
    <3>1. options \in (SUBSET Modules) \cup (SUBSET (1 .. 3)) /\ tier \in 0 .. 6
      BY <2>1, <2>5
    <3> HIDE DEF options, tier, out
    <3>2. [kind |-> "Prototype", tier |-> tier, options |-> options, gold |-> out.gold, bonus |-> out.bonus] \in Choices
      BY <2>5, <3>1 DEF Choices, CashOutTiers
    <3> QED
      BY <3>2 DEF options
  <2>7. c.kind = "Prototype" /\ c.tier = tier
    OBVIOUS
  <2> HIDE DEF c, tier
  <2>8. t = [offered |-> s.offered, modules |-> s.modules, dust |-> s.dust, choice |-> c, declined |-> no]
    BY <1>0, <2>4
  <2> HIDE DEF t
  <2>9. SeatTypes(t)
    BY <2>3, <2>6, <2>8 DEF SeatTypes
  <2>10. Asked(t) = Asked(s) /\ AnsweredTiers(t) = AnsweredTiers(s)
    BY <1>4, <2>7, <2>8 DEF Asked, AnsweredTiers
  <2>11. AskedInv(t)
    BY <2>7, <2>8, <2>10 DEF AskedInv
  <2>12. BankInv(t)
    BY <2>7, <2>8 DEF BankInv, tier
  <2> QED
    BY <1>4, <2>7, <2>8, <2>9, <2>11, <2>12 DEF SeatInv, t
<1> QED
  BY <1>3, <1>4

-----------------------------------------------------------------------------
(* Answers.                                                                *)

\* A seat whose choice has been answered, or declined.
LEMMA AnsweredKeeps ==
  ASSUME NEW s, SeatInv(s), NEW o, s.choice.kind # "None", s.choice.kind = "Module" => o \in s.choice.options
  PROVE  LET t == Answered(s, o) IN
         /\ SeatTypes(t) /\ AskedInv(t) /\ t.choice.kind = "None" /\ t.offered = s.offered
         /\ s.choice.kind = "Prototype" => BankInv(t)
<1> DEFINE t == Answered(s, o)
<1>0. s = [offered |-> s.offered, modules |-> s.modules, dust |-> s.dust,
           choice |-> s.choice, declined |-> s.declined]
  BY DEF SeatInv, SeatTypes
<1>1. NoChoice \in Choices /\ NoChoice.kind = "None"
  BY DEF NoChoice, Choices, CashOutTiers
<1>2. CASE s.choice.kind = "Module"
  <2>1. o \in s.choice.options /\ s.offered \in 1 .. 3 /\ o \in ModulesOf[s.offered]
    BY <1>2 DEF SeatInv, AskedInv
  <2>2. TierOf(o) = s.offered /\ o \in Modules
    BY <2>1, TierOfModule
  <2>3. t = [s EXCEPT !.choice = NoChoice, !.modules = Append(s.modules, o)]
    BY <1>2 DEF Answered
  <2> DEFINE old == s.modules  new == Append(s.modules, o)
  <2>4. t = [offered |-> s.offered, modules |-> new, dust |-> s.dust, choice |-> NoChoice, declined |-> s.declined]
    BY <1>0, <2>3
  <2>5. old \in Seq(Modules)
    BY DEF SeatInv, SeatTypes
  <2>6. /\ new \in Seq(Modules) /\ Len(old) \in Nat /\ DOMAIN old = 1 .. Len(old) /\ DOMAIN new = 1 .. Len(old) + 1
        /\ new[Len(old) + 1] = o /\ \A i \in DOMAIN old : new[i] = old[i]
    BY <2>2, <2>5
  <2> HIDE DEF old, new, t
  <2>7. SeatTypes(t)
    BY <1>1, <2>4, <2>6 DEF SeatInv, SeatTypes
  <2>8. AnsweredTiers(s) = {k \in 1 .. s.offered - 1 : ModulesOf[k] # {}}
    BY <1>2 DEF SeatInv, AskedInv, Asked
  <2>9. AnsweredTiers(t) = AnsweredTiers(s) \cup {s.offered}
    <3>1. AnsweredTiers(s) = {TierOf(old[i]) : i \in DOMAIN old}
      BY DEF AnsweredTiers, old
    <3>2. AnsweredTiers(t) = {TierOf(new[i]) : i \in DOMAIN new}
      BY <2>4 DEF AnsweredTiers
    <3> QED
      BY <2>2, <2>6, <3>1, <3>2
  <2>10. AnsweredTiers(t) = {k \in 1 .. s.offered : ModulesOf[k] # {}}
    BY <2>1, <2>8, <2>9
  <2>11. ASSUME NEW i \in DOMAIN new, NEW j \in DOMAIN new, i < j
         PROVE  TierOf(new[i]) < TierOf(new[j])
    <3>1. i \in DOMAIN old
      BY <2>6, <2>11
    <3>2. CASE j \in DOMAIN old
      BY <2>6, <2>11, <3>1, <3>2 DEF SeatInv, AskedInv, old
    <3>3. CASE j \notin DOMAIN old
      <4>1. new[j] = o
        BY <2>6, <3>3
      <4>2. TierOf(old[i]) \in AnsweredTiers(s)
        BY <3>1 DEF AnsweredTiers, old
      <4>3. TierOf(old[i]) \in 1 .. s.offered - 1
        BY <2>8, <4>2
      <4> QED
        BY <2>1, <2>2, <2>6, <3>1, <4>1, <4>3
    <3> QED
      BY <3>2, <3>3
  <2>12. AskedInv(t)
    BY <1>1, <2>4, <2>10, <2>11 DEF AskedInv, Asked
  <2> QED
    BY <1>1, <1>2, <2>4, <2>7, <2>12 DEF t
<1>3. CASE s.choice.kind # "Module"
  <2>1. s.choice.kind = "Prototype"
    BY <1>3 DEF SeatInv, SeatTypes, Choices
  <2>2. PICK yes : yes = TRUE
    OBVIOUS
  <2> DEFINE bank == IF o = Decline THEN s.dust ELSE 0
             declined_ == IF o = Decline THEN yes ELSE s.declined
  <2>3. t = [offered |-> s.offered, modules |-> s.modules, dust |-> bank, choice |-> NoChoice, declined |-> declined_]
    BY <1>0, <1>3, <2>2 DEF Answered
  <2>4. bank \in Nat /\ declined_ \in BOOLEAN /\ (declined_ \/ bank = 0)
    BY <2>2 DEF SeatInv, SeatTypes
  <2> HIDE DEF bank, declined_, t
  <2>5. SeatTypes(t)
    BY <1>1, <2>3, <2>4 DEF SeatInv, SeatTypes
  <2>6. Asked(t) = Asked(s) /\ AnsweredTiers(t) = AnsweredTiers(s)
    BY <1>1, <1>3, <2>3 DEF Asked, AnsweredTiers
  <2>7. AskedInv(t)
    BY <1>1, <2>3, <2>6 DEF SeatInv, AskedInv
  <2>8. CashOutTier(0) = 0
    BY CashOutTierType
  <2>9. BankInv(t)
    BY <1>1, <2>3, <2>4, <2>8 DEF BankInv
  <2> QED
    BY <1>1, <1>3, <2>3, <2>5, <2>7, <2>9 DEF t
<1> QED
  BY <1>2, <1>3

LEMMA ResolveKeeps ==
  ASSUME NEW s, SeatInv(s), NEW o, s.choice.kind # "None", s.choice.kind = "Module" => o \in s.choice.options,
         NEW unlocked \in 0 .. 3, NEW t \in ResolveTraitChoice(s, o, unlocked)
  PROVE  /\ SeatInv(t)
         /\ t.choice.kind = "Module" => t.offered = s.offered + 1
         /\ EveryTierHasModules => UpToDate(t, unlocked)
<1> DEFINE a == Answered(s, o)
<1>1. /\ SeatTypes(a) /\ AskedInv(a) /\ a.choice.kind = "None" /\ a.offered = s.offered
      /\ s.choice.kind = "Prototype" => BankInv(a)
  BY AnsweredKeeps
<1> HIDE DEF a
<1>2. PICK u \in OfferModules(a, unlocked) :
        t = IF u.choice.kind = "None" /\ s.choice.kind = "Module" THEN OfferPrototype(u) ELSE u
  BY DEF ResolveTraitChoice, a
<1>3. /\ SeatTypes(u) /\ AskedInv(u)
      /\ u.dust = a.dust /\ u.declined = a.declined
      /\ u.choice = a.choice \/ (u.choice.kind = "Module" /\ u.offered = s.offered + 1)
      /\ EveryTierHasModules => UpToDate(u, unlocked)
  BY <1>1, OfferModulesKeeps
<1>4. CASE u.choice.kind = "None" /\ s.choice.kind = "Module"
  <2>1. /\ SeatInv(OfferPrototype(u)) /\ OfferPrototype(u).offered = u.offered
        /\ (OfferPrototype(u).choice.kind = "Module") = (u.choice.kind = "Module")
    BY <1>3, <1>4, OfferPrototypeKeeps
  <2>2. t = OfferPrototype(u)
    BY <1>2, <1>4
  <2> QED
    BY <1>3, <1>4, <2>1, <2>2 DEF UpToDate
<1>5. CASE ~ (u.choice.kind = "None" /\ s.choice.kind = "Module")
  <2>1. t = u
    BY <1>2, <1>5
  <2>2. s.choice.kind \in {"Module", "Prototype"}
    BY DEF SeatInv, SeatTypes, Choices
  <2>3. BankInv(u)
    BY <1>1, <1>3, <1>5, <2>2 DEF BankInv
  <2> QED
    BY <1>1, <1>3, <2>1, <2>3 DEF SeatInv
<1> QED
  BY <1>4, <1>5

\* One round of automatic answers.
LEMMA SettleOnceKeeps ==
  ASSUME NEW S, NEW n \in Nat, NEW unlocked \in 0 .. 3,
         \A s \in S : SeatInv(s) /\ (s.choice.kind = "Module" => n <= s.offered)
  PROVE  \A t \in SettleOnce(S, unlocked) :
           /\ SeatInv(t)
           /\ t.choice.kind = "Module" => n + 1 <= t.offered
           /\ EveryTierHasModules /\ (\A s \in S : UpToDate(s, unlocked)) => UpToDate(t, unlocked)
<1> SUFFICES ASSUME NEW t \in SettleOnce(S, unlocked)
             PROVE  /\ SeatInv(t)
                    /\ t.choice.kind = "Module" => n + 1 <= t.offered
                    /\ EveryTierHasModules /\ (\A s \in S : UpToDate(s, unlocked)) => UpToDate(t, unlocked)
  OBVIOUS
<1>1. PICK s \in S : t \in IF s.choice.kind = "Module"
                           THEN UNION {ResolveTraitChoice(s, o, unlocked) : o \in s.choice.options} ELSE {s}
  BY DEF SettleOnce
<1>2. SeatInv(s) /\ s.offered \in 0 .. 3
  BY DEF SeatInv, SeatTypes
<1>3. CASE s.choice.kind = "Module"
  <2>1. PICK o \in s.choice.options : t \in ResolveTraitChoice(s, o, unlocked)
    BY <1>1, <1>3
  <2>2. /\ SeatInv(t) /\ (t.choice.kind = "Module" => t.offered = s.offered + 1)
        /\ EveryTierHasModules => UpToDate(t, unlocked)
    BY <1>2, <1>3, <2>1, ResolveKeeps
  <2> QED
    BY <1>2, <1>3, <2>2
<1>4. CASE s.choice.kind # "Module"
  BY <1>1, <1>2, <1>4
<1> QED
  BY <1>3, <1>4

\* All rounds: whoever was asked all that the board unlocks is left with no module to choose.
LEMMA SettleKeeps ==
  ASSUME NEW s, SeatInv(s), NEW unlocked \in 0 .. 3, NEW t \in SettleTraitChoices(s, unlocked)
  PROVE  /\ SeatInv(t)
         /\ t.choice.kind # "Module"
         /\ EveryTierHasModules /\ UpToDate(s, unlocked) => unlocked <= t.offered
<1> DEFINE S0 == {s}
           S1 == SettleOnce(S0, unlocked)
           S2 == SettleOnce(S1, unlocked)
           S3 == SettleOnce(S2, unlocked)
           S4 == SettleOnce(S3, unlocked)
           Good(S, n) == /\ \A x \in S : SeatInv(x) /\ (x.choice.kind = "Module" => n <= x.offered)
                         /\ EveryTierHasModules /\ UpToDate(s, unlocked) => \A x \in S : UpToDate(x, unlocked)
<1>1. Good(S0, 0)
  BY DEF SeatInv, SeatTypes
<1>2. ASSUME NEW S, NEW n \in Nat, Good(S, n) PROVE Good(SettleOnce(S, unlocked), n + 1)
  BY <1>2, SettleOnceKeeps
<1>3. t \in S4
  BY DEF SettleTraitChoices
<1> HIDE DEF Good, S0
<1>4. Good(S1, 1)
  <2>1. Good(S1, 0 + 1)
    BY <1>1, <1>2
  <2> QED
    BY <2>1
<1> HIDE DEF S1
<1>5. Good(S2, 2)
  <2>1. Good(S2, 1 + 1)
    BY <1>4, <1>2
  <2> QED
    BY <2>1
<1> HIDE DEF S2
<1>6. Good(S3, 3)
  <2>1. Good(S3, 2 + 1)
    BY <1>5, <1>2
  <2> QED
    BY <2>1
<1> HIDE DEF S3
<1>7. Good(S4, 4)
  <2>1. Good(S4, 3 + 1)
    BY <1>6, <1>2
  <2> QED
    BY <2>1
<1> HIDE DEF S4
<1>8. SeatInv(t) /\ (t.choice.kind = "Module" => 4 <= t.offered)
  BY <1>3, <1>7 DEF Good
<1>9. t.offered \in 0 .. 3
  BY <1>8 DEF SeatInv, SeatTypes
<1>10. EveryTierHasModules /\ UpToDate(s, unlocked) => UpToDate(t, unlocked)
  BY <1>3, <1>7 DEF Good
<1> QED
  BY <1>8, <1>9, <1>10 DEF UpToDate

-----------------------------------------------------------------------------
(* Star dust.                                                              *)

LEMMA DustType ==
  ASSUME NEW tier \in 1 .. Len(NajmiCounts), NEW takedowns \in Nat, NEW lost \in BOOLEAN,
         NEW streak \in Nat, NEW monsters \in BOOLEAN
  PROVE  DustOf(DustRules[tier], takedowns, lost, streak, monsters) \in Int
<1>1. DustRules[tier] \in [onLoss : Nat, perLossStreak : Nat, perTakedown : Nat, perCombat : Nat, multiplier : Nat]
  <2>1. tier \in DOMAIN NajmiCounts
    BY Parameters
  <2> QED
    BY <2>1, TraitAssumption
<1> DEFINE rule == DustRules[tier]
<1>2. /\ rule.onLoss \in Nat /\ rule.perLossStreak \in Nat /\ rule.perTakedown \in Nat
      /\ rule.perCombat \in Nat /\ rule.multiplier \in Nat
  BY <1>1
<1> HIDE DEF rule
<1>3. rule.perTakedown * takedowns \in Int /\ rule.perLossStreak * streak \in Int
  BY <1>2
<1> DEFINE kills == rule.perTakedown * takedowns
           losing == IF lost THEN rule.onLoss + rule.perLossStreak * streak ELSE 0
           fought == IF monsters THEN 0 ELSE rule.perCombat
           sum == kills + losing + fought
<1>4. sum \in Int
  <2>1. kills \in Int /\ losing \in Int /\ fought \in Int
    BY <1>2, <1>3
  <2> HIDE DEF kills, losing, fought
  <2> QED
    BY <2>1
<1>5. DustOf(rule, takedowns, lost, streak, monsters) = rule.multiplier * sum
  BY DEF DustOf
<1> HIDE DEF sum
<1> QED
  BY <1>2, <1>4, <1>5 DEF rule

\* Dust only adds to the bank, and a cash-out grows with it.
LEMMA RewardsKeep ==
  ASSUME NEW s, SeatInv(s), NEW tier \in 0 .. Len(NajmiCounts), NEW takedowns \in Nat,
         NEW lost \in BOOLEAN, NEW streak \in Nat, NEW monsters \in BOOLEAN
  PROVE  LET t == GrantTraitRewards(s, tier, takedowns, lost, streak, monsters) IN
         SeatInv(t) /\ t.offered = s.offered /\ ((t.choice.kind = "Module") = (s.choice.kind = "Module"))
<1> DEFINE dusted == IF tier = 0 THEN 0 ELSE DustOf(DustRules[tier], takedowns, lost, streak, monsters)
           t == GrantTraitRewards(s, tier, takedowns, lost, streak, monsters)
           sum == s.dust + dusted
           richer == [s EXCEPT !.dust = sum]
<1>1. dusted \in Int
  BY DustType
<1>2. t = IF dusted > 0 THEN OfferPrototype(richer) ELSE s
  BY DEF GrantTraitRewards
<1>3. CASE ~ dusted > 0
  BY <1>2, <1>3
<1>4. CASE dusted > 0
  <2>0. s.dust \in Nat /\ s = [offered |-> s.offered, modules |-> s.modules, dust |-> s.dust,
                                choice |-> s.choice, declined |-> s.declined]
    BY DEF SeatInv, SeatTypes
  <2> HIDE DEF dusted
  <2>1. sum \in Nat /\ s.dust <= sum
    BY <1>1, <1>4, <2>0
  <2> HIDE DEF sum
  <2>2. richer = [offered |-> s.offered, modules |-> s.modules, dust |-> sum, choice |-> s.choice, declined |-> s.declined]
    BY <2>0
  <2> HIDE DEF richer
  <2>3. SeatTypes(richer)
    BY <2>1, <2>2 DEF SeatInv, SeatTypes
  <2>4. Asked(richer) = Asked(s) /\ AnsweredTiers(richer) = AnsweredTiers(s)
    BY <2>2 DEF Asked, AnsweredTiers
  <2>5. AskedInv(richer)
    BY <2>2, <2>4 DEF SeatInv, AskedInv
  <2>6. CashOutTier(s.dust) <= CashOutTier(sum)
    BY <2>0, <2>1, CashOutTierType
  <2>7. richer.choice.kind = "Prototype" => richer.choice.tier <= CashOutTier(richer.dust)
    BY <2>2, <2>6 DEF SeatInv, BankInv
  <2>8. /\ SeatInv(OfferPrototype(richer)) /\ OfferPrototype(richer).offered = richer.offered
        /\ (OfferPrototype(richer).choice.kind = "Module") = (richer.choice.kind = "Module")
    BY <2>3, <2>5, <2>7, OfferPrototypeKeeps
  <2> QED
    BY <1>2, <1>4, <2>2, <2>8
<1> QED
  BY <1>3, <1>4

-----------------------------------------------------------------------------
(* The machine.                                                            *)

\* Whoever may change the board, and lives, was asked all it unlocks.
AskedInPlanning ==
  EveryTierHasModules /\ phase = "Planning" /\ alive => UpToDate(Seat, UnlockedTier(fielded, emblems))

PlayerTypes ==
  /\ phase \in {"MotherNature", "Planning", "Combat", "Resolution"}
  /\ alive \in BOOLEAN
  /\ fielded \subseteq Champions /\ emblems \subseteq Champions

ChoicesInv == PlayerTypes /\ SeatInv(Seat) /\ AskedInPlanning

LEMMA SeatOf ==
  ASSUME NEW s, SeatTypes(s), SetSeat(s)
  PROVE  Seat' = s
BY DEF SeatTypes, SetSeat, Seat

LEMMA InvariantStarts == Init => ChoicesInv
<1> SUFFICES ASSUME Init PROVE ChoicesInv
  OBVIOUS
<1>1. NoChoice \in Choices /\ NoChoice.kind = "None"
  BY DEF NoChoice, Choices, CashOutTiers
<1>2. PICK no : no = FALSE
  OBVIOUS
<1> DEFINE empty == << >>
<1>3. /\ Seat.offered = 0 /\ Seat.modules = empty /\ Seat.dust = 0
      /\ Seat.choice = NoChoice /\ Seat.declined = no
  BY <1>2 DEF Init, Seat
<1>4. empty \in Seq(Modules) /\ DOMAIN empty = {}
  OBVIOUS
<1>5. Seat = [offered |-> Seat.offered, modules |-> Seat.modules, dust |-> Seat.dust,
              choice |-> Seat.choice, declined |-> Seat.declined]
  BY DEF Seat
<1> HIDE DEF empty
<1>6. SeatTypes(Seat)
  <2>1. Seat.offered \in 0 .. 3 /\ Seat.dust \in Nat
    BY <1>3
  <2>2. Seat.modules \in Seq(Modules) /\ Seat.choice \in Choices /\ Seat.declined \in BOOLEAN
    BY <1>1, <1>2, <1>3, <1>4
  <2> QED
    BY <1>5, <2>1, <2>2 DEF SeatTypes
<1>7. AskedInv(Seat)
  BY <1>1, <1>3, <1>4 DEF AskedInv, Asked, AnsweredTiers
<1>8. CashOutTier(0) = 0
  BY CashOutTierType
<1>9. BankInv(Seat)
  BY <1>1, <1>3, <1>8 DEF BankInv
<1>10. UpToDate(Seat, UnlockedTier(fielded, emblems))
  BY <1>3, NothingUnlockedAtFirst DEF Init, UpToDate
<1>11. PlayerTypes
  BY DEF Init, PlayerTypes
<1> QED
  BY <1>6, <1>7, <1>9, <1>10, <1>11 DEF ChoicesInv, SeatInv, AskedInPlanning

-----------------------------------------------------------------------------
(* Each action.                                                            *)

\* A step to a seat that keeps the seat's invariant.
LEMMA SeatStep ==
  ASSUME NEW s, SeatInv(s), SetSeat(s), PlayerTypes',
         EveryTierHasModules /\ phase' = "Planning" /\ alive' => UpToDate(s, UnlockedTier(fielded', emblems'))
  PROVE  ChoicesInv'
<1>1. Seat' = s
  BY SeatOf DEF SeatInv
<1>2. SeatInv(Seat)'
  BY <1>1 DEF SeatInv, SeatTypes, AskedInv, BankInv, Asked, AnsweredTiers, EveryTierHasModules
<1> QED
  BY <1>1, <1>2 DEF ChoicesInv, AskedInPlanning, EveryTierHasModules, UpToDate

\* AfterRosterChange, in whatever phase.
LEMMA RosterChangeKeeps ==
  ASSUME SeatInv(Seat), PlayerTypes', AfterRosterChange(fielded', emblems')
  PROVE  ChoicesInv'
<1>1. PICK s \in OfferModules(Seat, UnlockedTier(fielded', emblems')) : SetSeat(s)
  BY DEF AfterRosterChange
<1>2. UnlockedTier(fielded', emblems') \in 0 .. 3
  BY UnlockedTierType DEF PlayerTypes
<1>3. /\ SeatTypes(s) /\ AskedInv(s) /\ s.dust = Seat.dust /\ s.declined = Seat.declined
      /\ s.choice = Seat.choice \/ s.choice.kind = "Module"
      /\ EveryTierHasModules => UpToDate(s, UnlockedTier(fielded', emblems'))
  BY <1>2, OfferModulesKeeps DEF SeatInv
<1>4. SeatInv(s)
  BY <1>3 DEF SeatInv, BankInv
<1> QED
  BY <1>1, <1>3, <1>4, SeatStep

LEMMA InvariantKept == ChoicesInv /\ [Next]_vars => ChoicesInv'
<1> SUFFICES ASSUME ChoicesInv, [Next]_vars PROVE ChoicesInv'
  OBVIOUS
<1>0. SeatInv(Seat) /\ PlayerTypes /\ AskedInPlanning
  BY DEF ChoicesInv
<1>a. SetSeat(Seat) <=> UNCHANGED <<offered, modules, dust, choice, declined>>
  BY DEF SetSeat, Seat
<1>1. CASE ChangeBoard
  <2>1. PlayerTypes'
    BY <1>0, <1>1 DEF ChangeBoard, PlayerTypes
  <2>2. AfterRosterChange(fielded', emblems')
    BY <1>1 DEF ChangeBoard
  <2> QED
    BY <1>0, <2>1, <2>2, RosterChangeKeeps
<1>2. ASSUME NEW c \in Champions, TryEquipItem(c) PROVE ChoicesInv'
  <2>1. PlayerTypes'
    BY <1>0, <1>2 DEF TryEquipItem, PlayerTypes
  <2>2. AfterRosterChange(fielded', emblems')
    BY <1>2 DEF TryEquipItem
  <2> QED
    BY <1>0, <2>1, <2>2, RosterChangeKeeps
<1>3. ASSUME NEW c \in Champions, TryUnequipItem(c) PROVE ChoicesInv'
  <2>1. PlayerTypes'
    BY <1>0, <1>3 DEF TryUnequipItem, PlayerTypes
  <2>2. AfterRosterChange(fielded', emblems')
    BY <1>3 DEF TryUnequipItem
  <2> QED
    BY <1>0, <2>1, <2>2, RosterChangeKeeps
<1>4. ASSUME NEW c \in Champions, TakeGift(c) PROVE ChoicesInv'
  <2>1. PlayerTypes' /\ phase' = "MotherNature"
    BY <1>0, <1>4 DEF TakeGift, PlayerTypes
  <2>2. SetSeat(Seat)
    BY <1>4, <1>a DEF TakeGift
  <2> QED
    BY <1>0, <2>1, <2>2, SeatStep
<1>5. ASSUME NEW o, TryPickTraitChoice(o) PROVE ChoicesInv'
  <2>1. PlayerTypes' /\ UNCHANGED <<fielded, emblems>>
    BY <1>0, <1>5 DEF TryPickTraitChoice, PlayerTypes
  <2> DEFINE unlocked_ == UnlockedTier(fielded, emblems)
  <2>2. PICK s \in ResolveTraitChoice(Seat, o, unlocked_) : SetSeat(s)
    BY <1>5 DEF TryPickTraitChoice
  <2>3. unlocked_ \in 0 .. 3
    BY <1>0, UnlockedTierType DEF PlayerTypes
  <2>4. Seat.choice.kind # "None" /\ (Seat.choice.kind = "Module" => o \in Seat.choice.options)
    <3>1. choice.kind # "None" /\ MayPick(Seat, o) /\ Seat.choice = choice
      BY <1>5 DEF TryPickTraitChoice, Seat
    <3> QED
      BY <3>1 DEF MayPick
  <2>5. SeatInv(s) /\ (EveryTierHasModules => UpToDate(s, unlocked_))
    BY <1>0, <2>2, <2>3, <2>4, ResolveKeeps
  <2> QED
    BY <2>1, <2>2, <2>5, SeatStep
<1>6. CASE StartCombat
  <2>1. PlayerTypes' /\ phase' = "Combat"
    BY <1>0, <1>6 DEF StartCombat, PlayerTypes
  <2> DEFINE unlocked_ == UnlockedTier(fielded, emblems)
  <2>2. PICK s \in IF alive THEN SettleTraitChoices(Seat, unlocked_) ELSE {Seat} : SetSeat(s)
    BY <1>6 DEF StartCombat
  <2>3. unlocked_ \in 0 .. 3
    BY <1>0, UnlockedTierType DEF PlayerTypes
  <2>4. SeatInv(s)
    BY <1>0, <2>2, <2>3, SettleKeeps
  <2> QED
    BY <2>1, <2>2, <2>4, SeatStep
<1>7. ASSUME NEW takedowns \in 0 .. MaxTakedowns, NEW lost \in BOOLEAN, NEW monsters \in BOOLEAN,
             NEW dies \in BOOLEAN, NEW streak \in 0 .. MaxLosses,
             EndCombat(takedowns, lost, streak, monsters, dies)
      PROVE  ChoicesInv'
  <2>1. PlayerTypes' /\ phase' = "Resolution"
    BY <1>0, <1>7 DEF EndCombat, PlayerTypes
  <2> DEFINE paid == GrantTraitRewards(Seat, NajmiTier(fielded), takedowns, lost, streak, monsters)
  <2>2. SetSeat(IF alive' THEN paid ELSE Seat)
    BY <1>7 DEF EndCombat
  <2>3. NajmiTier(fielded) \in 0 .. Len(NajmiCounts) /\ takedowns \in Nat /\ streak \in Nat
    BY <1>0, NajmiTierType, TraitAssumption DEF PlayerTypes
  <2>4. SeatInv(paid)
    BY <1>0, <2>3, RewardsKeep
  <2> HIDE DEF paid
  <2>5. SeatInv(IF alive' THEN paid ELSE Seat)
    BY <1>0, <2>4
  <2> QED
    BY <2>1, <2>2, <2>5, SeatStep
<1>8. CASE EnterPlanning
  <2>1. PlayerTypes' /\ UNCHANGED <<fielded, emblems, alive>>
    BY <1>0, <1>8 DEF EnterPlanning, PlayerTypes
  <2>2. CASE alive
    <3>1. AfterRosterChange(fielded', emblems')
      BY <1>8, <2>1, <2>2 DEF EnterPlanning
    <3> QED
      BY <1>0, <2>1, <3>1, RosterChangeKeeps
  <2>3. CASE ~ alive
    <3>1. SetSeat(Seat)
      BY <1>8, <2>3 DEF EnterPlanning
    <3> QED
      BY <1>0, <2>1, <2>3, <3>1, SeatStep
  <2> QED
    BY <2>2, <2>3
<1>9. CASE EnterMotherNature
  <2>1. PlayerTypes' /\ phase' = "MotherNature"
    BY <1>0, <1>9 DEF EnterMotherNature, PlayerTypes
  <2>2. SetSeat(Seat)
    BY <1>9, <1>a DEF EnterMotherNature
  <2> QED
    BY <1>0, <2>1, <2>2, SeatStep
<1>10. CASE UNCHANGED vars
  <2>1. PlayerTypes' /\ UNCHANGED <<phase, alive, fielded, emblems>>
    BY <1>0, <1>10 DEF vars, PlayerTypes
  <2>2. SetSeat(Seat)
    BY <1>10, <1>a DEF vars
  <2> QED
    BY <1>0, <2>1, <2>2, SeatStep DEF AskedInPlanning
<1> QED
  BY <1>1, <1>2, <1>3, <1>4, <1>5, <1>6, <1>7, <1>8, <1>9, <1>10 DEF Next

\* The machine's invariant: types, the tiers asked, the cash-out on offer, and that
\* nobody alive is left unasked while the board may change.
THEOREM ChoicesKept == Spec => []ChoicesInv
<1> QED
  BY InvariantStarts, InvariantKept, PTL DEF Spec

-----------------------------------------------------------------------------
(* What the runs check.                                                    *)

LEMMA ChoicesInvTypes == ChoicesInv => TypeOK
BY DEF ChoicesInv, PlayerTypes, SeatInv, SeatTypes, Seat, TypeOK

\* Every variable has its type (MatchTraits.cpp and TraitProgress).
THEOREM TypesKept == Spec => []TypeOK
<1> QED
  BY ChoicesKept, ChoicesInvTypes, PTL

LEMMA AnsweredOnce == ChoicesInv => EveryTierAnsweredOnce
<1> SUFFICES ASSUME ChoicesInv PROVE EveryTierAnsweredOnce
  OBVIOUS
<1> DEFINE answered == [i \in DOMAIN modules |-> TierOf(modules[i])]
           waiting  == IF choice.kind = "Module" THEN <<choice.tier>> ELSE <<>>
           asked    == answered \o waiting
           n        == Len(modules)
<1>0. /\ SeatTypes(Seat) /\ AskedInv(Seat) /\ Seat.modules = modules /\ Seat.choice = choice /\ Seat.offered = offered
  BY DEF ChoicesInv, SeatInv, Seat
<1>1. n \in Nat /\ DOMAIN modules = 1 .. n /\ offered \in 0 .. 3
  BY <1>0 DEF SeatTypes
<1>2. {answered[i] : i \in 1 .. n} = {t \in 1 .. Asked(Seat) : ModulesOf[t] # {}}
  BY <1>0, <1>1 DEF AskedInv, AnsweredTiers
<1>3. \A i, j \in 1 .. n : i < j => answered[i] < answered[j]
  BY <1>0, <1>1 DEF AskedInv
<1>4. Asked(Seat) = IF choice.kind = "Module" THEN offered - 1 ELSE offered
  BY <1>0 DEF Asked
<1>5. \A i \in 1 .. n : answered[i] \in 1 .. Asked(Seat)
  BY <1>2
<1>6. answered \in Seq(Nat) /\ Len(answered) = n
  BY <1>1, <1>4, <1>5
<1>7. CASE choice.kind = "Module"
  <2>1. choice.tier = offered /\ offered \in 1 .. 3 /\ ModulesOf[offered] # {}
    BY <1>0, <1>7 DEF AskedInv
  <2>2. asked = Append(answered, offered)
    BY <1>6, <1>7, <2>1
  <2> HIDE DEF answered, asked, waiting
  <2>3. /\ DOMAIN asked = 1 .. n + 1 /\ asked[n + 1] = offered
        /\ \A i \in 1 .. n : asked[i] = answered[i]
    BY <1>1, <1>6, <2>1, <2>2
  <2>4. {asked[i] : i \in DOMAIN asked} = {answered[i] : i \in 1 .. n} \cup {offered}
    BY <1>1, <2>3
  <2>5. {asked[i] : i \in DOMAIN asked} = {t \in 1 .. offered : ModulesOf[t] # {}}
    <3>1. {answered[i] : i \in 1 .. n} = {t \in 1 .. offered - 1 : ModulesOf[t] # {}}
      BY <1>2, <1>4, <1>7
    <3>2. {t \in 1 .. offered - 1 : ModulesOf[t] # {}} \cup {offered} = {t \in 1 .. offered : ModulesOf[t] # {}}
      BY <2>1
    <3> QED
      BY <2>4, <3>1, <3>2
  <2>6. ASSUME NEW i \in DOMAIN asked, NEW j \in DOMAIN asked, i < j PROVE asked[i] < asked[j]
    <3>1. i \in 1 .. n
      BY <1>1, <2>3, <2>6
    <3>2. CASE j \in 1 .. n
      BY <1>3, <2>3, <2>6, <3>1, <3>2
    <3>3. CASE j = n + 1
      BY <1>4, <1>5, <1>7, <2>1, <2>3, <3>1, <3>3
    <3> QED
      BY <1>1, <2>3, <3>2, <3>3
  <2> QED
    BY <2>5, <2>6 DEF EveryTierAnsweredOnce, answered, asked, waiting
<1>8. CASE choice.kind # "Module"
  <2>1. asked = answered
    BY <1>6, <1>8
  <2>2. DOMAIN answered = 1 .. n
    BY <1>1
  <2> HIDE DEF answered, asked, waiting
  <2>3. {asked[i] : i \in DOMAIN asked} = {t \in 1 .. offered : ModulesOf[t] # {}}
    BY <1>2, <1>4, <1>8, <2>1, <2>2
  <2>4. \A i, j \in DOMAIN asked : i < j => asked[i] < asked[j]
    BY <1>3, <2>1, <2>2
  <2> QED
    BY <2>3, <2>4 DEF EveryTierAnsweredOnce, answered, asked, waiting
<1> QED
  BY <1>7, <1>8

\* Each tier that was offered and has modules has been answered once, in order, or is the
\* one that waits (MatchManager::OfferModules, ResolveTraitChoice, SettleTraitChoices).
THEOREM EveryTierAnsweredOnceKept == Spec => []EveryTierAnsweredOnce
<1> QED
  BY ChoicesKept, AnsweredOnce, PTL

LEMMA BankOffered == ChoicesInv => BankIsOnOffer
<1> SUFFICES ASSUME ChoicesInv PROVE BankIsOnOffer
  OBVIOUS
<1>1. BankInv(Seat) /\ Seat.choice = choice /\ Seat.dust = dust /\ Seat.declined = declined
  BY DEF ChoicesInv, SeatInv, Seat
<1> QED
  BY <1>1 DEF BankInv, BankIsOnOffer

\* The cash-out on offer is the one the bank is good for, and a bank that is good for one is
\* on offer, pushed aside by a module, or declined (MatchManager::OfferPrototype).
THEOREM BankIsOnOfferKept == Spec => []BankIsOnOffer
<1> QED
  BY ChoicesKept, BankOffered, PTL

\* SettleTraitChoices: up to four rounds of automatic answers are enough.
LEMMA SettledBeforeCombat ==
  ASSUME EveryTierHasModules, ChoicesInv, [Next]_vars, phase' = "Combat", phase = "Planning", alive
  PROVE  choice'.kind # "Module" /\ offered' >= UnlockedTier(fielded', emblems')
<1>1. StartCombat
  BY DEF Next, vars, ChangeBoard, TryEquipItem, TryUnequipItem, TakeGift, TryPickTraitChoice, StartCombat,
         EndCombat, EnterPlanning, EnterMotherNature
<1> DEFINE unlocked_ == UnlockedTier(fielded, emblems)
<1>2. PICK s \in SettleTraitChoices(Seat, unlocked_) : SetSeat(s)
  BY <1>1 DEF StartCombat
<1>3. unlocked_ \in 0 .. 3 /\ UNCHANGED <<fielded, emblems>>
  BY <1>1, UnlockedTierType DEF ChoicesInv, PlayerTypes, StartCombat
<1>4. UpToDate(Seat, unlocked_) /\ SeatInv(Seat)
  BY DEF ChoicesInv, AskedInPlanning
<1>5. s.choice.kind # "Module" /\ unlocked_ <= s.offered /\ s.offered \in 0 .. 3
  BY <1>2, <1>3, <1>4, SettleKeeps DEF SeatInv, SeatTypes
<1>6. choice' = s.choice /\ offered' = s.offered
  BY <1>2 DEF SetSeat
<1> QED
  BY <1>3, <1>5, <1>6

\* Whoever lives to fight does so with a module of every tier their board unlocks, if every
\* tier has modules (traits.json: at least five in each): MatchManager::StartCombat settles them all.
THEOREM FightsWithAllModulesKept ==
  ASSUME EveryTierHasModules
  PROVE  Spec => FightsWithAllModules
<1>1. ChoicesInv /\ [Next]_vars =>
        [phase' = "Combat" /\ phase = "Planning" /\ alive =>
           choice'.kind # "Module" /\ offered' >= UnlockedTier(fielded', emblems')]_vars
  BY SettledBeforeCombat
<1> QED
  BY <1>1, ChoicesKept, PTL DEF Spec, FightsWithAllModules
=============================================================================
