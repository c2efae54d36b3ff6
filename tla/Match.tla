-------------------------------- MODULE Match --------------------------------
(***************************************************************************)
(* Who holds which champion copy during a match: the shared pool           *)
(* (SharedChampionPool), every player's shop (ShopManager), roster         *)
(* (PlayerState, UnitRoster) and Mother Nature's offers, through the       *)
(* phases MatchManager drives.  One action is one public call of           *)
(* MatchManager or one phase change, with everything that call does.       *)
(*                                                                         *)
(* Left to other modules: gold, XP points, health and streaks.  A purchase *)
(* the player cannot afford changes nothing, so affordability is left open *)
(* (the call may be refused); XP shows only as the level it may reach, and *)
(* fights only as the set of players they kill.                            *)
(***************************************************************************)
EXTENDS Roster

CONSTANTS
  NumPlayers,      \* MatchConfig::playerCount
  SlotCount,       \* ShopConfig::slotCount
  GiftOptions,     \* MotherNatureDatabase::Options
  MaxLevel,        \* kMaxPlayerLevel; the board capacity is the level
  MaxRound,        \* bound of the exploration, not of the code
  GiftEvery,       \* MatchConfig::motherNatureEveryRounds, 0 = never
  ClosedRounds,    \* MatchConfig::shopClosedOpeningRounds
  PveRounds,       \* the rounds MatchConfig::IsPveRound names
  OpeningTier,     \* the cost of MatchConfig::openingUnitCosts, 0 = none
  Pooled,          \* the champions the pool holds copies of
  InitialCopies,   \* PoolConfig::copiesPerTier, per champion
  CostOf,          \* the cost tier of a pooled champion
  RollableTiers,   \* per level, the tiers with a non-zero shop weight
  Favourite,       \* per level, the tier with the largest weight
  Gated,           \* pooled champions a player must unlock
  Queen, QueenTrait, QueenHolders, QueenLevel,      \* TraitDefinition::queen
  Herald, HeraldTrait,             \* TraitBreakpoint::grantUnit and who must be fielded
  NatureTrait, NatureHolders, PlantCount,           \* TraitBreakpoint::plants
  UnlockTrait, UnlockStars, UnlockLevel,            \* ChampionDefinition::unlock
  OtherGift        \* an offer that is not a unit: gold, XP, healing or an item

Players == 1 .. NumPlayers
Slots   == 1 .. SlotCount
Options == 1 .. GiftOptions
Levels  == 1 .. MaxLevel
Tiers   == 1 .. 5

ASSUME MatchAssumption ==
  /\ NumPlayers \in Nat \ {0} /\ SlotCount \in Nat \ {0} /\ GiftOptions \in Nat \ {0}
  /\ MaxLevel \in Nat \ {0} /\ MaxRound \in Nat \ {0}
  /\ GiftEvery \in Nat /\ ClosedRounds \in Nat /\ PveRounds \subseteq Nat
  /\ Pooled \subseteq Champions \ Plants
  /\ InitialCopies \in [Pooled -> Nat]
  /\ CostOf \in [Pooled -> Tiers]
  /\ RollableTiers \in [Levels -> SUBSET Tiers] /\ Favourite \in [Levels -> Tiers]
  /\ Gated \subseteq Pooled
  /\ {Queen, Herald} \subseteq Champions \ (Pooled \cup Plants)
  /\ OtherGift \notin Champions \cup {NoChampion}

VARIABLES
  phase, round,
  pool,        \* SharedChampionPool::remaining_
  shop,        \* ShopManager::slots_, by player and slot
  locked,      \* players with shopLocked_
  roster,      \* by player
  level,
  unlocked,    \* TraitProgress::unlocked, the gated champions a player may roll
  offers,      \* MatchManager::gifts_[p].offers, by player and option
  settled,     \* players whose gift is settled
  heralded,    \* players whose trait has given its unit (unitGranted)
  alive

vars == <<phase, round, pool, shop, locked, roster, level, unlocked, offers,
          settled, heralded, alive>>

TypeOK ==
  /\ phase \in {"NotStarted", "MotherNature", "Planning", "Combat", "Resolution", "MatchOver"}
  /\ round \in 0 .. MaxRound
  /\ pool \in [Pooled -> Nat]
  /\ shop \in [Players \X Slots -> Champions \cup {NoChampion}]
  /\ roster \in [Players -> Rosters]
  /\ level \in [Players -> Levels]
  /\ unlocked \in [Players -> SUBSET Gated]
  /\ offers \in [Players \X Options -> Pooled \cup {OtherGift, NoChampion}]
  /\ \A S \in {locked, settled, heralded, alive} : S \subseteq Players

NoOffers == [t \in Players \X Options |-> NoChampion]

Init ==
  /\ phase = "NotStarted" /\ round = 0
  /\ pool = InitialCopies
  /\ shop = [t \in Players \X Slots |-> NoChampion]
  /\ roster = [p \in Players |-> EmptyRoster]
  /\ level = [p \in Players |-> 1]
  /\ unlocked = [p \in Players |-> {}]
  /\ offers = NoOffers
  /\ locked = {} /\ settled = {} /\ heralded = {}
  /\ alive = Players

-----------------------------------------------------------------------------
(* The shared pool.  Copies leave it and come back as tokens: a set S of   *)
(* places that hold one copy each, h naming the champion of each place.    *)

CountIn(S, h, c) == Cardinality({t \in S : h[t] = c})

\* SharedChampionPool::Return refuses more copies than there ever were.
Returned(pl, S, h) ==
  [c \in Pooled |-> IF pl[c] + CountIn(S, h, c) > InitialCopies[c] THEN pl[c]
                    ELSE pl[c] + CountIn(S, h, c)]

Drawn(pl, S, h) == [c \in Pooled |-> pl[c] - CountIn(S, h, c)]

Drawable_IgnoresGate(pl, open) == {c \in Pooled : pl[c] > 0}

\* Gated champions are drawn only for those who unlocked them.
Drawable(pl, open) == {c \in Pooled : pl[c] > 0 /\ (c \in Gated => c \in open)}

Before(t, u) == t[1] < u[1] \/ (t[1] = u[1] /\ t[2] < u[2])

\* One unit stands for one token per pool copy it was merged from.
UnitTokens(P, rs) ==
  {t \in P \X Places \X (1 .. 9) : t[3] <= CopiesForStarLevel(rs[t[1]][t[2]].star)}

UnitLabels(rs) == [t \in Players \X Places \X (1 .. 9) |-> rs[t[1]][t[2]].champ]

-----------------------------------------------------------------------------
(* The shop.                                                               *)

IsShopClosed(ph, rd) == ph = "MotherNature" \/ rd <= ClosedRounds

Distance(a, b) == IF a < b THEN b - a ELSE a - b

\* The drawable champions of the stocked tier nearest to t, the cheaper on a tie.
Nearest(D, t) ==
  {c \in D : \A d \in D :
     \/ Distance(CostOf[c], t) < Distance(CostOf[d], t)
     \/ Distance(CostOf[c], t) = Distance(CostOf[d], t) /\ CostOf[c] <= CostOf[d]}

\* ShopManager::DrawOne: what one slot may show; nothing only when all is sold out.
DrawOne(pl, lv, open) ==
  LET D == Drawable(pl, open)
      rolled == {c \in D : CostOf[c] \in RollableTiers[lv]}
  IN IF D = {} THEN {NoChampion}
     ELSE IF rolled # {} THEN rolled
     ELSE Nearest(D, Favourite[lv])

(***************************************************************************)
(* ShopManager::Refresh for the players of P in seat order: a player's old *)
(* offer goes back first, then each slot is drawn from what is left.       *)
(***************************************************************************)
PoolAtDraw(pl, P, sh, new, t) ==
  Drawn(Returned(pl, {u \in P \X Slots : u[1] <= t[1]}, sh),
        {u \in P \X Slots : Before(u, t)}, new)

Refreshes(pl, P, sh, lv, new) ==
  \A t \in Players \X Slots :
    IF t[1] \in P THEN new[t] \in DrawOne(PoolAtDraw(pl, P, sh, new, t), lv[t[1]], unlocked[t[1]])
    ELSE new[t] = sh[t]

ShopsAfter(P, sh) == {new \in [Players \X Slots -> Pooled \cup {NoChampion, Queen}] :
                        \A t \in Players \X Slots : t[1] \notin P => new[t] = sh[t]}

RefreshedPool(pl, P, sh, new) == Drawn(Returned(pl, P \X Slots, sh), P \X Slots, new)

ClosedShop_Kept(P, sh) == sh

ClosedShop(P, sh) == [t \in Players \X Slots |-> IF t[1] \in P THEN NoChampion ELSE sh[t]]

-----------------------------------------------------------------------------
(* What a roster change triggers (MatchTraits.cpp).                        *)

Fielded(r, c) == \E x \in Board : r[x].champ = c

Owns(r, c) == \E x \in Places : r[x].champ = c

\* Star levels the champions of a trait add up to on the board.
StarsOf(r, trait) ==
  Cardinality({t \in Board \X (1 .. MaxStar) : r[t[1]].champ \in trait /\ t[2] <= r[t[1]].star})

UnlocksNow(r, lv) ==
  IF lv >= UnlockLevel /\ StarsOf(r, UnlockTrait) >= UnlockStars THEN Gated ELSE {}

CheckUnlocks(P, rs, lv) ==
  unlocked' = [p \in Players |-> IF p \in P THEN unlocked[p] \cup UnlocksNow(rs[p], lv[p])
                                 ELSE unlocked[p]]

QueenDue_EvenIfOwned(p, r, lv, sh) ==
  /\ lv >= QueenLevel
  /\ Cardinality({c \in QueenTrait : Fielded(r, c)}) >= QueenHolders
  /\ \A k \in Slots : sh[<<p, k>>] # Queen

QueenDue(p, r, lv, sh) ==
  /\ lv >= QueenLevel
  /\ Cardinality({c \in QueenTrait : Fielded(r, c)}) >= QueenHolders
  /\ ~ Owns(r, Queen)
  /\ \A k \in Slots : sh[<<p, k>>] # Queen

\* ShopManager::OfferSpecial: she takes the first slot, what it showed goes back.
OfferQueen(P, rs, lv, sh, pl) ==
  LET due == {p \in P : ~ IsShopClosed(phase', round') /\ QueenDue(p, rs[p], lv[p], sh)}
  IN /\ shop' = [t \in Players \X Slots |-> IF t \in due \X {1} THEN Queen ELSE sh[t]]
     /\ pool' = Returned(pl, due \X {1}, sh)

PlantHexes(r) == {x \in Board : r[x].champ \in Plants}

PlantsWanted(r) ==
  IF Plants # {} /\ Cardinality({c \in NatureTrait : Fielded(r, c)}) >= NatureHolders
  THEN PlantCount ELSE 0

\* The hexes on which plants stand after SyncPlants: surplus ones go, missing ones
\* grow while there is a free hex.  The board does not change while it is locked.
SyncedHexes(r) ==
  LET now  == PlantHexes(r)
      room == now \cup FreeIn(r, Board)
      want == IF PlantsWanted(r) <= Cardinality(room) THEN PlantsWanted(r) ELSE Cardinality(room)
  IN IF phase' \in {"Combat", "Resolution"} THEN {now}
     ELSE {S \in SUBSET room : Cardinality(S) = want /\ (S \subseteq now \/ now \subseteq S)}

WithPlants(r, S) ==
  [x \in Places |-> IF x \in S /\ x \notin PlantHexes(r) THEN Unit(CHOOSE c \in Plants : TRUE, 1)
                    ELSE IF x \in PlantHexes(r) \ S THEN Empty ELSE r[x]]

AfterRosterChange(P, rs, lv, sh, pl) ==
  \E hexes \in [P -> SUBSET Board] :
    /\ \A p \in P : hexes[p] \in SyncedHexes(rs[p])
    /\ roster' = [p \in Players |-> IF p \in P THEN WithPlants(rs[p], hexes[p]) ELSE rs[p]]
    /\ OfferQueen(P, roster', lv, sh, pl)
    /\ CheckUnlocks(P, roster', lv)

-----------------------------------------------------------------------------
(* Player actions.                                                         *)

\* ResolveActor: Planning allows everything, Combat and Resolution the shop and
\* what touches only bench units; the dead act never.
MayAct(p) == p \in alive /\ phase \in {"Planning", "Combat", "Resolution"}

BoardLocked == phase # "Planning"

\* PlayerState::AddXp for the players of P: it raises a level or does not yet.
RisenLevels(P) ==
  {lv \in [Players -> Levels] :
     \A p \in Players : IF p \in P THEN lv[p] >= level[p] ELSE lv[p] = level[p]}

CanAcquire(p, c, benchOnly) ==
  /\ CanAdd(roster[p], level[p], c)
  /\ benchOnly => BenchOnlyPurchaseFits(roster[p], level[p], c)

ClockUnchanged == UNCHANGED <<phase, round, offers, settled, heralded, alive>>

TryRerollShop(p) ==
  /\ MayAct(p) /\ ~ IsShopClosed(phase, round)
  /\ ClockUnchanged
  /\ \E new \in ShopsAfter({p}, shop) :
       /\ Refreshes(pool, {p}, shop, level, new)
       /\ OfferQueen({p}, roster, level, new, RefreshedPool(pool, {p}, shop, new))
  /\ UNCHANGED <<locked, roster, level, unlocked>>

TryBuyShopUnit(p, k) ==
  LET c == shop[<<p, k>>] IN
  /\ MayAct(p) /\ ~ IsShopClosed(phase, round)
  /\ c # NoChampion
  /\ CanAcquire(p, c, BoardLocked)
  /\ ClockUnchanged
  /\ AfterRosterChange({p}, [roster EXCEPT ![p] = Add(@, level[p], c)], level,
                       [shop EXCEPT ![<<p, k>>] = NoChampion], pool)
  /\ UNCHANGED <<locked, level>>

TrySetShopLock(p) ==
  /\ MayAct(p)
  /\ \/ locked' = locked \cup {p}
     \/ locked' = locked \ {p}
  /\ ClockUnchanged
  /\ UNCHANGED <<pool, shop, roster, level, unlocked>>

TryBuyXp(p) ==
  /\ MayAct(p) /\ level[p] < MaxLevel
  /\ level' \in RisenLevels({p})
  /\ CheckUnlocks({p}, roster, level')
  /\ ClockUnchanged
  /\ UNCHANGED <<pool, shop, locked, roster>>

TrySellUnit(p, x) ==
  /\ MayAct(p)
  /\ roster[p][x] # Empty /\ roster[p][x].champ \notin Plants
  /\ ~ (BoardLocked /\ x \in Board)
  /\ ClockUnchanged
  /\ AfterRosterChange({p}, [roster EXCEPT ![p] = Removed(@, x)], level, shop,
                       Returned(pool, {t \in UnitTokens({p}, roster) : t[2] = x},
                                UnitLabels(roster)))
  /\ UNCHANGED <<locked, level>>

\* A move to where the unit already stands is accepted too and runs the triggers.
TryMoveUnit(p, x, y) ==
  /\ MayAct(p)
  /\ BoardLocked => x \in Bench /\ y \in Bench
  /\ \/ CanMove(roster[p], level[p], x, y)
     \/ roster[p][x] # Empty /\ x = y
  /\ ClockUnchanged
  /\ AfterRosterChange({p}, [roster EXCEPT ![p] = Moved(@, x, y)], level, shop, pool)
  /\ UNCHANGED <<locked, level>>

-----------------------------------------------------------------------------
(* Mother Nature's gifts.                                                  *)

Takes_EvenWithoutRoom(p, i) == offers[<<p, i>>] \in Pooled

\* A unit gift is taken if there is room for it, else it is paid in gold.
Takes(p, i) == offers[<<p, i>>] \in Pooled /\ CanAdd(roster[p], level[p], offers[<<p, i>>])

GiftPool_NoRoomLosesCopy(P, pick) ==
  Returned(pool, {t \in P \X Options : t[2] # pick[t[1]]}, offers)

\* The players of P take the option pick names; all else they were offered goes back.
GiftPool(P, pick) ==
  Returned(pool, {t \in P \X Options : ~ (t[2] = pick[t[1]] /\ Takes(t[1], t[2]))}, offers)

GiftRoster(P, pick) ==
  [p \in Players |-> IF p \in P /\ Takes(p, pick[p])
                     THEN Add(roster[p], level[p], offers[<<p, pick[p]>>]) ELSE roster[p]]

\* Only an XP gift can raise the level.
GiftLevels(P, pick) == RisenLevels({p \in P : offers[<<p, pick[p]>>] = OtherGift})

TryPickGift(p, i) ==
  LET pick == [q \in {p} |-> i] IN
  /\ phase = "MotherNature" /\ p \in alive \ settled
  /\ offers[<<p, i>>] # NoChampion
  /\ settled' = settled \cup {p}
  /\ offers' = [t \in Players \X Options |-> IF t[1] = p THEN NoChampion ELSE offers[t]]
  /\ pool' = GiftPool({p}, pick)
  /\ roster' = GiftRoster({p}, pick)
  /\ level' \in GiftLevels({p}, pick)
  /\ UNCHANGED <<phase, round, shop, locked, unlocked, heralded, alive>>

-----------------------------------------------------------------------------
(* Phase changes.  Time is left open: any number of player actions may come *)
(* before the clock ends a phase.                                          *)

\* PlayerManager::RefreshAllShops: the living players with an unlocked shop.
Refreshing == alive \ locked

\* EnterPhase(Planning): the shops open (or are closed for this round), a locked one
\* keeps its offer, then every living player's roster triggers are run.
EnterPlanning(rs, lv, pl) ==
  /\ phase' = "Planning"
  /\ level' = lv
  /\ IF IsShopClosed("Planning", round')
     THEN AfterRosterChange(alive, rs, lv, ClosedShop(alive, shop), Returned(pl, alive \X Slots, shop))
     ELSE \E new \in ShopsAfter(Refreshing, shop) :
            /\ Refreshes(pl, Refreshing, shop, lv, new)
            /\ AfterRosterChange(alive, rs, lv, new, RefreshedPool(pl, Refreshing, shop, new))

\* EnterPhase(MotherNature): GenerateGifts checks the units on offer out of the pool,
\* players in seat order; gated champions are never offered.
EnterMotherNature(rs, lv, pl) ==
  /\ phase' = "MotherNature"
  /\ level' = lv /\ roster' = rs
  /\ offers' \in [Players \X Options -> Pooled \cup {OtherGift, NoChampion}]
  /\ \A t \in Players \X Options :
       /\ offers'[t] \in Pooled =>
            offers'[t] \in Drawable(Drawn(pl, {u \in Players \X Options : Before(u, t)}, offers'), {})
       /\ t[1] \notin alive => offers'[t] = NoChampion
       /\ offers'[t] # NoChampion => \A i \in 1 .. t[2] : offers'[<<t[1], i>>] # NoChampion
  /\ settled' = {p \in alive : offers'[<<p, 1>>] = NoChampion}
  /\ pool' = Drawn(pl, Players \X Options, offers')
  /\ UNCHANGED <<shop, unlocked>>

IsGiftRound(rd) == GiftEvery > 0 /\ rd % GiftEvery = 0

\* Income may raise any living player's level before the phase opens.
BeginRound(rs, pl) ==
  \E lv \in RisenLevels(alive) :
    IF IsGiftRound(round') THEN EnterMotherNature(rs, lv, pl)
    ELSE EnterPlanning(rs, lv, pl) /\ UNCHANGED <<offers, settled>>

\* One copy per player of P drawn in seat order (the opening deal, a PvE drop); a copy
\* there is no room for goes straight back.
Fits(p, d) == d[p] \in Pooled /\ CanAdd(roster[p], level[p], d[p])

DealtFrom(P, d) ==
  \A p \in Players :
    /\ d[p] # NoChampion => p \in P
    /\ d[p] # NoChampion => d[p] \in Drawable(Drawn(pool, {q \in 1 .. p - 1 : Fits(q, d)}, d), {})

DealtPool(d) == Drawn(pool, {p \in Players : Fits(p, d)}, d)

DealtRoster(d) ==
  [p \in Players |-> IF Fits(p, d) THEN Add(roster[p], level[p], d[p]) ELSE roster[p]]

Start ==
  /\ phase = "NotStarted"
  /\ round' = 1
  /\ \E d \in [Players -> {c \in Pooled : CostOf[c] = OpeningTier} \cup {NoChampion}] :
       /\ DealtFrom(alive, d)
       /\ BeginRound(DealtRoster(d), DealtPool(d))
  /\ UNCHANGED <<locked, heralded, alive>>

\* FinishGiftPhase: whoever has not chosen gets the first offer, the rest goes back.
EndMotherNature ==
  LET late == alive \ settled
      first == [p \in late |-> 1]
  IN /\ phase = "MotherNature"
     /\ round' = round
     /\ offers' = NoOffers /\ settled' = {}
     /\ \E lv \in GiftLevels(late, first) :
          EnterPlanning(GiftRoster(late, first), lv, GiftPool(late, first))
     /\ UNCHANGED <<locked, heralded, alive>>

\* The fights are computed as Combat begins; they change no roster.
StartCombat ==
  /\ phase = "Planning" /\ phase' = "Combat"
  /\ UNCHANGED <<round, pool, shop, locked, roster, level, unlocked, offers, settled, heralded, alive>>

(***************************************************************************)
(* ApplyCombatOutcomes: PvE loot is paid (d), a trait may give its unit to *)
(* a player who is not dying (gifted) and XP to any of them, then everybody *)
(* whose health is gone is eliminated: shop and units back to the pool.    *)
(***************************************************************************)
GivenHerald(rs, gifted) ==
  [p \in Players |-> IF p \in gifted THEN Add(rs[p], level[p], Herald) ELSE rs[p]]

Eliminated(dying, rs, pl) ==
  Returned(Returned(pl, dying \X Slots, shop), UnitTokens(dying, rs), UnitLabels(rs))

EndCombat ==
  /\ phase = "Combat" /\ phase' = "Resolution"
  /\ \E dying \in SUBSET alive, d \in [Players -> Pooled \cup {NoChampion}],
        gifted \in SUBSET (alive \ heralded) :
       /\ DealtFrom(IF round \in PveRounds THEN alive ELSE {}, d)
       /\ \A p \in gifted : /\ p \notin dying
                            /\ \E c \in HeraldTrait : Fielded(DealtRoster(d)[p], c)
                            /\ CanAdd(DealtRoster(d)[p], level[p], Herald)
       /\ LET rs == GivenHerald(DealtRoster(d), gifted)
          IN /\ roster' = [p \in Players |-> IF p \in dying THEN EmptyRoster ELSE rs[p]]
             /\ pool' = Eliminated(dying, rs, DealtPool(d))
       /\ shop' = ClosedShop(dying, shop)
       /\ locked' = locked \ dying
       /\ level' \in RisenLevels(alive \ dying)
       /\ heralded' = heralded \cup gifted
       /\ alive' = alive \ dying
  /\ UNCHANGED <<round, unlocked, offers, settled>>

IsDecided == Cardinality(alive) <= 1

EndRound ==
  /\ phase = "Resolution" /\ ~ IsDecided /\ round < MaxRound
  /\ round' = round + 1
  /\ BeginRound(roster, pool)
  /\ UNCHANGED <<locked, heralded, alive>>

EndMatch ==
  /\ phase = "Resolution" /\ IsDecided
  /\ phase' = "MatchOver"
  /\ UNCHANGED <<round, pool, shop, locked, roster, level, unlocked, offers, settled, heralded, alive>>

-----------------------------------------------------------------------------

PlayerAction(p) ==
  \/ TryRerollShop(p)
  \/ \E k \in Slots : TryBuyShopUnit(p, k)
  \/ TrySetShopLock(p)
  \/ TryBuyXp(p)
  \/ \E x \in Cells : TrySellUnit(p, x)
  \/ \E x, y \in Cells : TryMoveUnit(p, x, y)
  \/ \E i \in Options : TryPickGift(p, i)

Next ==
  \/ Start
  \/ EndMotherNature
  \/ StartCombat
  \/ EndCombat
  \/ EndRound
  \/ EndMatch
  \/ \E p \in Players : PlayerAction(p)

Spec == Init /\ [][Next]_vars
-----------------------------------------------------------------------------
(* Properties.                                                             *)

Held(c) ==
  CountIn(Players \X Slots, shop, c) + CountIn(Players \X Options, offers, c)
    + CountIn(UnitTokens(Players, roster), UnitLabels(roster), c)

\* MatchManager::VerifyPoolIntegrity: the copies of a champion in the pool, in the
\* shops, on offer as gifts and merged into units always add up to the copies the
\* match started with; so no Return is ever refused and none is paid twice.
PoolIntegrity == \A c \in Pooled : pool[c] + Held(c) = InitialCopies[c]

\* MatchManager::VerifyRosterLayouts, for every player and whichever way units came.
RosterLayouts == \A p \in Players : CheckInvariants(roster[p])

\* Once eliminated a player holds nothing the others could draw: no unit, no shop
\* offer, no gift, no shop lock; nothing later (drops, refreshes, trait rewards) gives
\* them anything again.
EliminatedHoldNothing ==
  \A p \in Players \ alive :
    /\ roster[p] = EmptyRoster
    /\ \A k \in Slots : shop[<<p, k>>] = NoChampion
    /\ \A i \in Options : offers[<<p, i>>] = NoChampion
    /\ p \notin locked

\* The Queen is offered only to a player without one, so a player never has two of
\* her between shop and roster.
OneQueen ==
  \A p \in Players :
    Cardinality({k \in Slots : shop[<<p, k>>] = Queen})
      + Cardinality({x \in Places : roster[p][x].champ = Queen}) <= 1

\* A gated champion reaches a player only through their own shop after they unlocked
\* it: never through a gift, a drop, the opening deal or another player's unlock.
GatedOnlyWhenUnlocked ==
  \A p \in Players : \A c \in Gated \ unlocked[p] :
    /\ ~ Owns(roster[p], c)
    /\ \A k \in Slots : shop[<<p, k>>] # c
    /\ \A i \in Options : offers[<<p, i>>] # c

\* While a fight is shown the board it was computed from does not change, whatever
\* the players buy, merge, sell or move on their benches.
BoardLockedInFight ==
  [][phase = "Combat" /\ phase' = "Combat" =>
       \A p \in Players, x \in Board : roster'[p][x] = roster[p][x]]_vars

=============================================================================
