---------------------------- MODULE TraitChoices ----------------------------
(***************************************************************************)
(* The decisions the traits put before one player (MatchTraits.cpp).       *)
(* Hexagon offers modules, one tier at a time, as the board reaches its    *)
(* breakpoints; Najmi banks star dust after fights and offers a cash-out   *)
(* at every hundred of it.  There is one pending choice for both: a module *)
(* pushes a cash-out aside, and the cash-out must come back.               *)
(*                                                                         *)
(* A player's units are the different champions they own; the second copy  *)
(* of a champion counts for no trait.  Fights are seen through what the    *)
(* rewards depend on: takedowns, whether they were lost, against whom.     *)
(***************************************************************************)
EXTENDS Integers, Sequences, FiniteSets

CONSTANTS
  Champions,        \* the champions the player may field
  HexagonUnits, HexagonCounts, ModuleTiers,   \* holders, TraitBreakpoint::count and ::moduleTier
  ModulesOf,        \* TraitDefinition::modules, by tier
  NajmiUnits, NajmiCounts, DustRules,         \* holders, counts, TraitBreakpoint::starDust
  StarDustPerTier,  \* kStarDustPerTier
  BoardCapacity,
  MaxTakedowns, MaxLosses, MaxDust   \* bounds of the exploration

PrismaticMinBreakpoints == 4    \* kPrismaticMinBreakpoints
CashOutTiers  == 6              \* kCashOutTiers
ModuleOptions == 3              \* kModuleOptions
Tiers         == DOMAIN ModulesOf
Modules       == UNION {ModulesOf[t] : t \in Tiers}

ASSUME TraitAssumption ==
  /\ HexagonUnits \cup NajmiUnits \subseteq Champions /\ IsFiniteSet(Champions)
  /\ HexagonCounts \in Seq(Nat \ {0}) /\ ModuleTiers \in [DOMAIN HexagonCounts -> Tiers \cup {0}]
  /\ NajmiCounts \in Seq(Nat)
  /\ DustRules \in [DOMAIN NajmiCounts -> [onLoss : Nat, perLossStreak : Nat, perTakedown : Nat,
                                           perCombat : Nat, multiplier : Nat]]
  /\ Tiers = 1 .. 3 /\ IsFiniteSet(Modules)
  /\ \A s, t \in Tiers : ModulesOf[s] \cap ModulesOf[t] # {} => s = t   \* ids are unique (Trait.cpp)
  /\ StarDustPerTier \in Nat \ {0} /\ BoardCapacity \in Nat
  /\ MaxTakedowns \in Nat /\ MaxLosses \in Nat /\ MaxDust \in Nat

VARIABLES
  phase,
  alive,
  fielded,    \* the champions on the board
  emblems,    \* the units that carry a Hexagon emblem, an item that grants the trait
  offered,    \* TraitProgress::moduleTiersOffered
  modules,    \* TraitProgress::modules
  dust,       \* TraitProgress::starDust
  choice,     \* MatchManager::choices_ of this player
  declined    \* the last cash-out shown was declined

vars == <<phase, alive, fielded, emblems, offered, modules, dust, choice, declined>>

NoChoice == [kind |-> "None", tier |-> 0, options |-> {}, gold |-> 0, bonus |-> 0]

Choices ==
  [kind : {"None", "Module", "Prototype"}, tier : 0 .. CashOutTiers,
   options : (SUBSET Modules) \cup (SUBSET (1 .. 3)), gold : Nat, bonus : Nat]

TypeOK ==
  /\ phase \in {"MotherNature", "Planning", "Combat", "Resolution"}
  /\ alive \in BOOLEAN /\ declined \in BOOLEAN
  /\ fielded \subseteq Champions /\ emblems \subseteq Champions
  /\ offered \in 0 .. 3 /\ modules \in Seq(Modules) /\ dust \in Nat
  /\ choice \in Choices

Init ==
  /\ phase = "Planning" /\ alive = TRUE
  /\ fielded = {} /\ emblems = {}
  /\ offered = 0 /\ modules = <<>> /\ dust = 0
  /\ choice = NoChoice /\ declined = FALSE

-----------------------------------------------------------------------------
(* Counting a trait (Trait.cpp).                                           *)

Largest(S) == CHOOSE n \in S : \A m \in S : m <= n

\* The breakpoint reached, 0 for none; the last of four or more needs an emblem.
ActiveTier(counts, count, emblemHolders) ==
  LET tier == Largest({0} \cup {i \in DOMAIN counts : count >= counts[i]})
  IN IF Len(counts) >= PrismaticMinBreakpoints /\ tier = Len(counts) /\ emblemHolders = 0
     THEN tier - 1 ELSE tier

HexagonTier(board, carriers) ==
  ActiveTier(HexagonCounts, Cardinality(board \cap (HexagonUnits \cup carriers)),
             Cardinality((board \cap carriers) \ HexagonUnits))

NajmiTier(board) == ActiveTier(NajmiCounts, Cardinality(board \cap NajmiUnits), 0)

\* The highest module tier the board's breakpoint, or one below it, unlocks.
UnlockedTier(board, carriers) ==
  Largest({0} \cup {ModuleTiers[k] : k \in 1 .. HexagonTier(board, carriers)})

-----------------------------------------------------------------------------
(* Offers.  A seat is what they change: the progress and the choice.       *)

Seat == [offered |-> offered, modules |-> modules, dust |-> dust, choice |-> choice, declined |-> declined]

SetSeat(s) ==
  /\ offered' = s.offered /\ modules' = s.modules /\ dust' = s.dust
  /\ choice' = s.choice /\ declined' = s.declined

Chosen(s) == {s.modules[i] : i \in DOMAIN s.modules}

OfferModules_OverAModule(s, unlocked) ==
  LET next == s.offered + 1
      pool == ModulesOf[next] \ Chosen(s)
      shown == IF Cardinality(pool) < ModuleOptions THEN Cardinality(pool) ELSE ModuleOptions
  IN IF unlocked <= s.offered THEN {s}
     ELSE IF pool = {} THEN {[s EXCEPT !.offered = next]}
     ELSE {[s EXCEPT !.offered = next,
              !.choice = [NoChoice EXCEPT !.kind = "Module", !.tier = next, !.options = O]] :
             O \in {P \in SUBSET pool : Cardinality(P) = shown}}

\* MatchManager::OfferModules: what a seat may become when the board unlocks this tier.
OfferModules(s, unlocked) ==
  LET next == s.offered + 1
      pool == ModulesOf[next] \ Chosen(s)
      shown == IF Cardinality(pool) < ModuleOptions THEN Cardinality(pool) ELSE ModuleOptions
  IN IF s.choice.kind = "Module" \/ unlocked <= s.offered THEN {s}
     ELSE IF pool = {} THEN {[s EXCEPT !.offered = next]}
     ELSE {[s EXCEPT !.offered = next,
              !.choice = [NoChoice EXCEPT !.kind = "Module", !.tier = next, !.options = O]] :
             O \in {P \in SUBSET pool : Cardinality(P) = shown}}

\* kCashOuts: how many items to pick from, items and gold on top.
CashOuts ==
  <<[choices |-> 1, bonus |-> 0, gold |-> 2],  [choices |-> 1, bonus |-> 0, gold |-> 2],
    [choices |-> 3, bonus |-> 1, gold |-> 3],  [choices |-> 3, bonus |-> 1, gold |-> 8],
    [choices |-> 3, bonus |-> 2, gold |-> 15], [choices |-> 3, bonus |-> 2, gold |-> 20]>>

CashOutTier(d) == IF d \div StarDustPerTier < CashOutTiers THEN d \div StarDustPerTier ELSE CashOutTiers

\* MatchManager::OfferPrototype: the cash-out the bank is good for, unless a module
\* waits or as good a one is on offer.
OfferPrototype(s) ==
  LET tier == CashOutTier(s.dust) IN
  IF s.choice.kind = "Module" \/ tier < 1 \/ (s.choice.kind = "Prototype" /\ s.choice.tier >= tier) THEN s
  ELSE [s EXCEPT !.choice = [kind |-> "Prototype", tier |-> tier, options |-> 1 .. CashOuts[tier].choices,
                             gold |-> CashOuts[tier].gold, bonus |-> CashOuts[tier].bonus],
                 !.declined = FALSE]

-----------------------------------------------------------------------------
(* Answers.                                                                *)

Decline == -1

MayPick(s, o) == IF o = Decline THEN s.choice.kind = "Prototype" ELSE o \in s.choice.options

Answered(s, o) ==
  IF s.choice.kind = "Module" THEN [s EXCEPT !.choice = NoChoice, !.modules = Append(@, o)]
  ELSE IF o = Decline THEN [s EXCEPT !.choice = NoChoice, !.declined = TRUE]
  ELSE [s EXCEPT !.choice = NoChoice, !.dust = 0]

ResolveTraitChoice_NoComeback(s, o, unlocked) == OfferModules(Answered(s, o), unlocked)

\* MatchManager::ResolveTraitChoice: after the answer the next tier may be waiting, else
\* the cash-out a module pushed aside.
ResolveTraitChoice(s, o, unlocked) ==
  {IF t.choice.kind = "None" /\ s.choice.kind = "Module" THEN OfferPrototype(t) ELSE t :
     t \in OfferModules(Answered(s, o), unlocked)}

\* The automatic answer is the first of the options, which were put in random order.
SettleOnce(S, unlocked) ==
  UNION {IF s.choice.kind = "Module"
         THEN UNION {ResolveTraitChoice(s, o, unlocked) : o \in s.choice.options} ELSE {s} : s \in S}

SettleTraitChoices_OneEach(s, unlocked) == SettleOnce({s}, unlocked)

\* MatchManager::SettleTraitChoices goes around up to four times.
SettleTraitChoices(s, unlocked) ==
  SettleOnce(SettleOnce(SettleOnce(SettleOnce({s}, unlocked), unlocked), unlocked), unlocked)

-----------------------------------------------------------------------------
(* What changes the board, the emblems or the bank.                        *)

\* AfterRosterChange; plants, the Queen and unlocks are in Match.
AfterRosterChange(board, carriers) ==
  \E s \in OfferModules(Seat, UnlockedTier(board, carriers)) : SetSeat(s)

MayAct == alive /\ phase \in {"Planning", "Combat", "Resolution"}

\* Any purchase, sale or move; the board can change only in Planning.
ChangeBoard ==
  /\ MayAct /\ phase = "Planning"
  /\ fielded' \in {B \in SUBSET Champions : Cardinality(B) <= BoardCapacity}
  /\ AfterRosterChange(fielded', emblems)
  /\ UNCHANGED <<phase, alive, emblems>>

\* Items go on fielded units during a fight too.
TryEquipItem(c) ==
  /\ MayAct /\ c \notin emblems \cup HexagonUnits
  /\ emblems' = emblems \cup {c}
  /\ AfterRosterChange(fielded, emblems')
  /\ UNCHANGED <<phase, alive, fielded>>

TryUnequipItem(c) ==
  /\ MayAct /\ c \in emblems
  /\ phase = "Planning" \/ c \notin fielded
  /\ emblems' = emblems \ {c}
  /\ AfterRosterChange(fielded, emblems')
  /\ UNCHANGED <<phase, alive, fielded>>

TryPickTraitChoice(o) ==
  /\ MayAct /\ choice.kind # "None" /\ MayPick(Seat, o)
  /\ \E s \in ResolveTraitChoice(Seat, o, UnlockedTier(fielded, emblems)) : SetSeat(s)
  /\ UNCHANGED <<phase, alive, fielded, emblems>>

\* A gift may stand on the board; the roster triggers wait for Planning.
TakeGift(c) ==
  /\ phase = "MotherNature" /\ alive
  /\ c \notin fielded /\ Cardinality(fielded) < BoardCapacity
  /\ fielded' = fielded \cup {c}
  /\ UNCHANGED <<phase, alive, emblems, offered, modules, dust, choice, declined>>

StartCombat ==
  /\ phase = "Planning" /\ phase' = "Combat"
  /\ \E s \in IF alive THEN SettleTraitChoices(Seat, UnlockedTier(fielded, emblems)) ELSE {Seat} : SetSeat(s)
  /\ UNCHANGED <<alive, fielded, emblems>>

\* The star dust one fight pays: takedowns by Najmi units, more for a loss.
DustOf(rule, takedowns, lost, streak, monsters) ==
  rule.multiplier * (rule.perTakedown * takedowns
    + (IF lost THEN rule.onLoss + rule.perLossStreak * streak ELSE 0)
    + (IF monsters THEN 0 ELSE rule.perCombat))

GrantTraitRewards(s, tier, takedowns, lost, streak, monsters) ==
  LET dusted == IF tier = 0 THEN 0 ELSE DustOf(DustRules[tier], takedowns, lost, streak, monsters)
  IN IF dusted > 0 THEN OfferPrototype([s EXCEPT !.dust = @ + dusted]) ELSE s

\* ApplyCombatOutcomes: the rewards pass over whoever has no health left.  A fight
\* against monsters is no lost player combat.
EndCombat(takedowns, lost, streak, monsters, dies) ==
  /\ phase = "Combat" /\ phase' = "Resolution"
  /\ monsters => ~ lost
  /\ (lost => streak > 0) /\ (~ lost => streak = 0)
  /\ dies => alive
  /\ alive' = (alive /\ ~ dies)
  /\ LET s == IF alive' THEN GrantTraitRewards(Seat, NajmiTier(fielded), takedowns, lost, streak, monsters)
              ELSE Seat
     IN s.dust <= MaxDust /\ SetSeat(s)
  /\ fielded' = IF dies THEN {} ELSE fielded
  /\ emblems' = IF dies THEN {} ELSE emblems

EnterPlanning ==
  /\ phase \in {"Resolution", "MotherNature"} /\ phase' = "Planning"
  /\ IF alive THEN AfterRosterChange(fielded, emblems) ELSE SetSeat(Seat)
  /\ UNCHANGED <<alive, fielded, emblems>>

EnterMotherNature ==
  /\ phase = "Resolution" /\ phase' = "MotherNature"
  /\ UNCHANGED <<alive, fielded, emblems, offered, modules, dust, choice, declined>>

Next ==
  \/ ChangeBoard
  \/ \E c \in Champions : TryEquipItem(c) \/ TryUnequipItem(c) \/ TakeGift(c)
  \/ \E o \in Modules \cup (1 .. 3) \cup {Decline} : TryPickTraitChoice(o)
  \/ StartCombat
  \/ \E takedowns \in 0 .. MaxTakedowns, lost, monsters, dies \in BOOLEAN, streak \in 0 .. MaxLosses :
       EndCombat(takedowns, lost, streak, monsters, dies)
  \/ EnterPlanning
  \/ EnterMotherNature

Spec == Init /\ [][Next]_vars
-----------------------------------------------------------------------------
(* Snapshot and Restore: the trait section.                                *)

\* What Restore asks of the trait progress and the choice a snapshot lists
\* (Snapshot.cpp, PlayerState::RestoreState).
TraitSectionAccepted ==
  /\ offered \in 0 .. 3 /\ Len(modules) <= 3 /\ dust >= 0
  /\ (choice.kind = "None") = (choice.options = {})
  /\ Cardinality(choice.options) <= 8 /\ choice.bonus <= 16
  /\ choice.gold >= 0 /\ choice.tier \in 0 .. 4
  /\ choice.kind = "Module" => choice.options \subseteq Modules

-----------------------------------------------------------------------------
(* Properties.                                                             *)

TierOf(m) == CHOOSE t \in Tiers : m \in ModulesOf[t]

\* No tier is skipped, offered twice or left behind: each tier offered that had modules
\* has been answered with one of them, in order, or is the one waiting now, through
\* jumps of several breakpoints, cash-outs pushed aside and automatic answers.
EveryTierAnsweredOnce ==
  LET answered == [i \in DOMAIN modules |-> TierOf(modules[i])]
      waiting  == IF choice.kind = "Module" THEN <<choice.tier>> ELSE <<>>
      asked    == answered \o waiting
  IN /\ {asked[i] : i \in DOMAIN asked} = {t \in 1 .. offered : ModulesOf[t] # {}}
     /\ \A i, j \in DOMAIN asked : i < j => asked[i] < asked[j]

\* A cash-out on offer is always the one the bank is good for, and a bank that is good
\* for one is never forgotten: it is on offer, or a module waits, or it was declined.
BankIsOnOffer ==
  /\ choice.kind = "Prototype" => choice.tier = CashOutTier(dust)
  /\ choice.kind = "None" /\ CashOutTier(dust) > 0 => declined

\* Whoever lives to fight does so with a module of every tier their board unlocks: none
\* is left undecided or unasked when the fight is computed.
FightsWithAllModules ==
  [][phase' = "Combat" /\ phase = "Planning" /\ alive =>
       choice'.kind # "Module" /\ offered' >= UnlockedTier(fielded', emblems')]_vars

\* Snapshot.h: "Restoring is PERFECT", in whatever state of the match it was taken.
\* Restore allows choices up to tier 4, cash-outs go up to 6.
SnapshotsAreAccepted == TraitSectionAccepted
=============================================================================
