---------------------------- MODULE MatchProofs ----------------------------
(***************************************************************************)
(* Theorems about Match and Snapshot, for every number of players, slots,  *)
(* cells, levels and every pool: the layout of the rosters, the copies of  *)
(* every champion, what a player may hold, and that a snapshot restores.   *)
(***************************************************************************)
EXTENDS Snapshot, RosterProofs

Shops == [Players \X Slots -> Pooled \cup {NoChampion, Queen}]

(***************************************************************************)
(* What the layout of the rosters rests on: who can be in a shop or on     *)
(* offer (never a plant), and that every roster is laid out properly.      *)
(***************************************************************************)
Shape ==
  /\ roster \in [Players -> Rosters]
  /\ shop \in Shops
  /\ offers \in [Players \X Options -> Pooled \cup {OtherGift, NoChampion}]
  /\ alive \subseteq Players

LayoutInv == Shape /\ RosterLayouts

LaidOut(rs) == rs \in [Players -> Rosters] /\ \A p \in Players : CheckInvariants(rs[p])

\* The champions a player can get are never plants.
LEMMA KindsFact ==
  /\ Pooled \subseteq Champions \ Plants
  /\ Queen \in Champions \ Plants /\ Herald \in Champions \ Plants
  /\ NoChampion \notin Champions /\ OtherGift \notin Champions
  /\ Queen \notin Pooled
BY MatchAssumption, RosterAssumption

-----------------------------------------------------------------------------
(* What the steps several actions share do to the rosters.                 *)

\* SyncPlants only ever grows a plant where there is a plant to grow.
LEMMA PlantsToGrow ==
  ASSUME NEW r \in Rosters, NEW S \in SyncedHexes(r), NEW x \in S, x \notin PlantHexes(r)
  PROVE  Plants # {}
<1> SUFFICES ASSUME Plants = {} PROVE FALSE
  OBVIOUS
<1> DEFINE room == PlantHexes(r) \cup FreeIn(r, Board)
<1>1. S # PlantHexes(r)
  OBVIOUS
<1>2. IsFiniteSet(room) /\ Cardinality(room) \in Nat
  <2>1. room \subseteq Places
    BY PlacesFact DEF PlantHexes, FreeIn
  <2> QED
    BY <2>1, PlacesFact, FS_Subset, FS_CardinalityType
<1>3. PlantsWanted(r) = 0
  BY DEF PlantsWanted
<1>4. S \subseteq room /\ Cardinality(S) = 0
  BY <1>1, <1>2, <1>3 DEF SyncedHexes
<1>5. S = {}
  BY <1>2, <1>4, FS_Subset, FS_EmptySet
<1> QED
  BY <1>5

\* SyncPlants keeps a roster laid out: it empties hexes and grows plants on hexes.
LEMMA WithPlantsLayout ==
  ASSUME NEW r \in Rosters, CheckInvariants(r), NEW S \in SUBSET Board, S \in SyncedHexes(r)
  PROVE  WithPlants(r, S) \in Rosters /\ CheckInvariants(WithPlants(r, S))
<1> DEFINE m == WithPlants(r, S)
           plant == CHOOSE c \in Plants : TRUE
<1>1. \A x \in Places : m[x] = IF x \in S /\ x \notin PlantHexes(r) THEN Unit(plant, 1)
                              ELSE IF x \in PlantHexes(r) \ S THEN Empty ELSE r[x]
  BY DEF WithPlants
<1>2. ASSUME NEW x \in S, x \notin PlantHexes(r)
      PROVE  plant \in Plants /\ Unit(plant, 1) \in Units
  <2>1. plant \in Plants
    BY <1>2, PlantsToGrow
  <2> QED
    BY <2>1, UnitFact, RosterAssumption
<1>3. m \in Rosters
  <2>1. \A x \in Places : m[x] \in Units \cup {Empty}
    BY <1>1, <1>2 DEF Rosters
  <2> QED
    BY <2>1 DEF WithPlants, Rosters
<1>4. \A x \in Places :
        \/ m[x] = r[x] \/ m[x] = Empty
        \/ x \in Board /\ \E c \in Plants, s \in 1 .. 3 : m[x] = Unit(c, s)
  <2>1. 1 \in 1 .. 3
    OBVIOUS
  <2> QED
    BY <1>1, <1>2, <2>1
<1> QED
  BY <1>3, <1>4, ReplacedLayout

\* MatchTraits::AfterRosterChange keeps every roster laid out and the shops well-formed.
LEMMA AfterRosterChangeLayout ==
  ASSUME NEW P \in SUBSET Players, NEW rs, NEW lv, NEW sh \in Shops, NEW pl,
         LaidOut(rs), AfterRosterChange(P, rs, lv, sh, pl)
  PROVE  LaidOut(roster') /\ shop' \in Shops
<1>1. PICK hexes \in [P -> SUBSET Board] :
        /\ \A p \in P : hexes[p] \in SyncedHexes(rs[p])
        /\ roster' = [p \in Players |-> IF p \in P THEN WithPlants(rs[p], hexes[p]) ELSE rs[p]]
        /\ OfferQueen(P, roster', lv, sh, pl)
  BY DEF AfterRosterChange
<1>2. ASSUME NEW p \in P
      PROVE  /\ WithPlants(rs[p], hexes[p]) \in Rosters
             /\ CheckInvariants(WithPlants(rs[p], hexes[p]))
  BY <1>1, WithPlantsLayout DEF LaidOut
<1>3. LaidOut(roster')
  BY <1>1, <1>2 DEF LaidOut
<1>4. shop' \in Shops
  BY <1>1 DEF OfferQueen, Shops
<1> QED
  BY <1>3, <1>4

\* Adding a copy to some players' rosters, each with room for it, keeps all laid out.
LEMMA AddedLayout ==
  ASSUME NEW rs, LaidOut(rs), NEW A \in SUBSET Players, NEW d, NEW new,
         \A p \in A : d[p] \in Champions \ Plants /\ CanAdd(rs[p], level[p], d[p]),
         new = [p \in Players |-> IF p \in A THEN Add(rs[p], level[p], d[p]) ELSE rs[p]]
  PROVE  LaidOut(new)
<1>1. ASSUME NEW p \in A
      PROVE  Add(rs[p], level[p], d[p]) \in Rosters /\ CheckInvariants(Add(rs[p], level[p], d[p]))
  BY AddType, AddLayout DEF LaidOut
<1> QED
  BY <1>1 DEF LaidOut

\* The opening deal and the PvE drops keep every roster laid out.
LEMMA DealtLayout ==
  ASSUME LaidOut(roster), NEW d
  PROVE  LaidOut(DealtRoster(d))
<1> DEFINE A == {p \in Players : Fits(p, d)}
<1>1. \A p \in A : d[p] \in Champions \ Plants /\ CanAdd(roster[p], level[p], d[p])
  BY KindsFact DEF Fits
<1>2. DealtRoster(d) = [p \in Players |-> IF p \in A THEN Add(roster[p], level[p], d[p]) ELSE roster[p]]
  BY DEF DealtRoster
<1> QED
  BY <1>1, <1>2, AddedLayout

\* Picking gifts keeps every roster laid out.
LEMMA GiftLayout ==
  ASSUME LaidOut(roster), NEW P \in SUBSET Players, NEW pick
  PROVE  LaidOut(GiftRoster(P, pick))
<1> DEFINE A == {p \in P : Takes(p, pick[p])}
           d == [p \in P |-> offers[<<p, pick[p]>>]]
<1>1. \A p \in A : d[p] \in Champions \ Plants /\ CanAdd(roster[p], level[p], d[p])
  BY KindsFact DEF Takes
<1>2. GiftRoster(P, pick) = [p \in Players |-> IF p \in A THEN Add(roster[p], level[p], d[p]) ELSE roster[p]]
  BY DEF GiftRoster
<1> HIDE DEF d
<1> QED
  BY <1>1, <1>2, AddedLayout

\* Opening a Planning phase keeps every roster laid out and the shops well-formed.
LEMMA EnterPlanningLayout ==
  ASSUME shop \in Shops, NEW rs, NEW lv, NEW pl, LaidOut(rs), alive \subseteq Players,
         EnterPlanning(rs, lv, pl)
  PROVE  LaidOut(roster') /\ shop' \in Shops
<1>1. CASE IsShopClosed("Planning", round')
  <2>1. ClosedShop(alive, shop) \in Shops
    BY DEF ClosedShop, Shops
  <2> QED
    BY <1>1, <2>1, AfterRosterChangeLayout DEF EnterPlanning
<1>2. CASE ~ IsShopClosed("Planning", round')
  <2>1. PICK new \in ShopsAfter(Refreshing, shop) :
          AfterRosterChange(alive, rs, lv, new, RefreshedPool(pl, Refreshing, shop, new))
    BY <1>2 DEF EnterPlanning
  <2>2. new \in Shops
    BY <2>1 DEF ShopsAfter, Shops
  <2> QED
    BY <2>1, <2>2, AfterRosterChangeLayout
<1> QED
  BY <1>1, <1>2

\* So does beginning a round, gift phase or not.
LEMMA BeginRoundLayout ==
  ASSUME Shape, NEW rs, NEW pl, LaidOut(rs), UNCHANGED alive, BeginRound(rs, pl)
  PROVE  Shape' /\ LaidOut(roster')
<1>1. PICK lv \in [Players -> Levels] :
        IF IsGiftRound(round') THEN EnterMotherNature(rs, lv, pl)
        ELSE EnterPlanning(rs, lv, pl) /\ UNCHANGED <<offers, settled>>
  BY DEF BeginRound, RisenLevels
<1>2. CASE IsGiftRound(round')
  BY <1>1, <1>2 DEF EnterMotherNature, Shape, LaidOut
<1>3. CASE ~ IsGiftRound(round')
  BY <1>1, <1>3, EnterPlanningLayout DEF Shape, LaidOut
<1> QED
  BY <1>2, <1>3
-----------------------------------------------------------------------------
(* The layout of every roster.                                             *)

\* An empty roster is laid out.
LEMMA EmptyLaidOut == EmptyRoster \in Rosters /\ CheckInvariants(EmptyRoster)
<1>1. ASSUME NEW c \in Champions \ Plants, NEW s \in 1 .. MaxStar - 1
      PROVE  Cardinality(CopiesAt(EmptyRoster, c, s)) <= 2
  <2>1. Unit(c, s) # Empty
    BY UnitFact DEF MaxStar
  <2>2. CopiesAt(EmptyRoster, c, s) = {}
    BY <2>1 DEF CopiesAt, EmptyRoster
  <2> QED
    BY <2>2, FS_EmptySet
<1> QED
  BY <1>1, PlacesFact, NotAPlant
     DEF CheckInvariants, NoLooseTriple, NothingUnplaced, PlantsOnBoard, EmptyRoster, Rosters

\* A match starts with empty rosters, shops and offers.
LEMMA InitLayout == Init => LayoutInv
BY EmptyLaidOut DEF Init, LayoutInv, Shape, RosterLayouts, NoOffers, Shops

\* A player's call keeps every roster laid out.
LEMMA PlayerLayout ==
  ASSUME LayoutInv, NEW p \in Players, PlayerAction(p)
  PROVE  LayoutInv'
<1> DEFINE IsLaid(r) == r \in Rosters /\ CheckInvariants(r)
<1>1. LaidOut(roster) /\ shop \in Shops /\ {p} \in SUBSET Players
  BY DEF LayoutInv, RosterLayouts, Shape, LaidOut
<1>2. ASSUME NEW r, IsLaid(r)
      PROVE  LaidOut([roster EXCEPT ![p] = r])
  BY <1>1, <1>2 DEF LaidOut
<1>3. ASSUME ClockUnchanged, LaidOut(roster'), shop' \in Shops
      PROVE  LayoutInv'
  BY <1>3 DEF LayoutInv, RosterLayouts, Shape, LaidOut, ClockUnchanged
<1>4. CASE TryRerollShop(p)
  <2>1. PICK new \in ShopsAfter({p}, shop) :
          OfferQueen({p}, roster, level, new, RefreshedPool(pool, {p}, shop, new))
    BY <1>4 DEF TryRerollShop
  <2>2. new \in Shops
    BY <2>1 DEF ShopsAfter, Shops
  <2>3. shop' \in Shops
    BY <2>1, <2>2 DEF OfferQueen, Shops
  <2> QED
    BY <1>1, <1>3, <1>4, <2>3 DEF TryRerollShop
<1>5. ASSUME NEW k \in Slots, TryBuyShopUnit(p, k)
      PROVE  LayoutInv'
  <2> DEFINE c == shop[<<p, k>>]
             sh == [shop EXCEPT ![<<p, k>>] = NoChampion]
             new == Add(roster[p], level[p], c)
  <2>1. c \in Champions \ Plants /\ CanAdd(roster[p], level[p], c)
    BY <1>1, <1>5, KindsFact DEF TryBuyShopUnit, CanAcquire, Shops
  <2>2. IsLaid(new)
    BY <1>1, <2>1, AddType, AddLayout DEF LaidOut
  <2>3. sh \in Shops
    BY <1>1 DEF Shops
  <2>4. LaidOut([roster EXCEPT ![p] = new])
    BY <1>2, <2>2
  <2>5. AfterRosterChange({p}, [roster EXCEPT ![p] = new], level, sh, pool)
    BY <1>1, <1>5 DEF TryBuyShopUnit, LaidOut
  <2>6. LaidOut(roster') /\ shop' \in Shops
    BY <1>1, <2>3, <2>4, <2>5, AfterRosterChangeLayout
  <2> QED
    BY <1>3, <1>5, <2>6 DEF TryBuyShopUnit
<1>6. CASE TrySetShopLock(p)
  BY <1>1, <1>3, <1>6 DEF TrySetShopLock
<1>7. CASE TryBuyXp(p)
  BY <1>1, <1>3, <1>7 DEF TryBuyXp
<1>8. ASSUME NEW x \in Cells, TrySellUnit(p, x)
      PROVE  LayoutInv'
  <2> DEFINE new == Removed(roster[p], x)
             back == Returned(pool, {t \in UnitTokens({p}, roster) : t[2] = x}, UnitLabels(roster))
  <2>1. IsLaid(new)
    <3>1. roster[p] \in Rosters /\ CheckInvariants(roster[p])
      BY <1>1 DEF LaidOut
    <3>2. \A z \in Places : new[z] = roster[p][z] \/ new[z] = Empty
      BY <3>1 DEF Removed, Rosters
    <3>3. new \in Rosters
      BY <3>1, RemovedType
    <3> QED
      BY <3>1, <3>2, <3>3, ReplacedLayout
  <2>2. LaidOut([roster EXCEPT ![p] = new])
    BY <1>2, <2>1
  <2>3. AfterRosterChange({p}, [roster EXCEPT ![p] = new], level, shop, back)
    BY <1>1, <1>8 DEF TrySellUnit, LaidOut
  <2>4. LaidOut(roster') /\ shop' \in Shops
    BY <1>1, <2>2, <2>3, AfterRosterChangeLayout
  <2> QED
    BY <1>3, <1>8, <2>4 DEF TrySellUnit
<1>9. ASSUME NEW x \in Cells, NEW y \in Cells, TryMoveUnit(p, x, y)
      PROVE  LayoutInv'
  <2> DEFINE new == Moved(roster[p], x, y)
  <2>1. IsLaid(new)
    <3>1. IsLaid(roster[p]) /\ x \in Places /\ y \in Places
      BY <1>1, PlacesFact DEF LaidOut
    <3>2. CASE CanMove(roster[p], level[p], x, y)
      BY <3>1, <3>2, MovedType, MovedLayout
    <3>3. CASE x = y
      BY <3>1, <3>3, MovedInPlace
    <3> QED
      BY <1>9, <3>2, <3>3 DEF TryMoveUnit
  <2>2. LaidOut([roster EXCEPT ![p] = new])
    BY <1>2, <2>1
  <2>3. AfterRosterChange({p}, [roster EXCEPT ![p] = new], level, shop, pool)
    BY <1>1, <1>9 DEF TryMoveUnit, LaidOut
  <2>4. LaidOut(roster') /\ shop' \in Shops
    BY <1>1, <2>2, <2>3, AfterRosterChangeLayout
  <2> QED
    BY <1>3, <1>9, <2>4 DEF TryMoveUnit
<1>10. ASSUME NEW i \in Options, TryPickGift(p, i)
       PROVE  LayoutInv'
  <2>1. roster' = GiftRoster({p}, [q \in {p} |-> i])
    BY <1>10 DEF TryPickGift
  <2>2. LaidOut(roster')
    BY <1>1, <2>1, GiftLayout
  <2> QED
    BY <1>1, <1>10, <2>2 DEF TryPickGift, LayoutInv, RosterLayouts, Shape, LaidOut
<1> QED
  BY <1>4, <1>5, <1>6, <1>7, <1>8, <1>9, <1>10 DEF PlayerAction

\* A phase change keeps every roster laid out.
LEMMA PhaseLayout ==
  ASSUME LayoutInv, Start \/ EndMotherNature \/ StartCombat \/ EndCombat \/ EndRound \/ EndMatch
  PROVE  LayoutInv'
<1>1. LaidOut(roster) /\ Shape /\ shop \in Shops /\ alive \subseteq Players
  BY DEF LayoutInv, RosterLayouts, Shape, LaidOut
<1>2. ASSUME Shape', LaidOut(roster') PROVE LayoutInv'
  BY <1>2 DEF LayoutInv, RosterLayouts, LaidOut
<1>3. CASE Start
  <2>1. PICK d : BeginRound(DealtRoster(d), DealtPool(d))
    BY <1>3 DEF Start
  <2>2. LaidOut(DealtRoster(d))
    BY <1>1, DealtLayout
  <2> QED
    BY <1>1, <1>2, <1>3, <2>1, <2>2, BeginRoundLayout DEF Start
<1>4. CASE EndMotherNature
  <2> DEFINE late == alive \ settled
             first == [p \in late |-> 1]
  <2>1. PICK lv : EnterPlanning(GiftRoster(late, first), lv, GiftPool(late, first))
    BY <1>4 DEF EndMotherNature
  <2>2. LaidOut(GiftRoster(late, first))
    BY <1>1, GiftLayout
  <2>3. LaidOut(roster') /\ shop' \in Shops
    BY <1>1, <2>1, <2>2, EnterPlanningLayout
  <2>4. Shape'
    BY <1>1, <1>4, <2>3 DEF EndMotherNature, Shape, NoOffers, LaidOut
  <2> QED
    BY <1>2, <2>3, <2>4
<1>5. CASE StartCombat
  BY <1>1, <1>2, <1>5 DEF StartCombat, Shape, LaidOut
<1>6. CASE EndCombat
  <2>1. PICK dying \in SUBSET alive, d \in [Players -> Pooled \cup {NoChampion}],
             gifted \in SUBSET (alive \ heralded) :
          /\ \A p \in gifted : CanAdd(DealtRoster(d)[p], level[p], Herald)
          /\ roster' = [p \in Players |-> IF p \in dying THEN EmptyRoster
                                        ELSE GivenHerald(DealtRoster(d), gifted)[p]]
          /\ shop' = ClosedShop(dying, shop)
          /\ alive' = alive \ dying
    BY <1>6 DEF EndCombat
  <2>2. LaidOut(DealtRoster(d))
    BY <1>1, DealtLayout
  <2>3. LaidOut(GivenHerald(DealtRoster(d), gifted))
    <3>1. gifted \subseteq Players
      BY <1>1
    <3>2. \A p \in gifted : Herald \in Champions \ Plants /\ CanAdd(DealtRoster(d)[p], level[p], Herald)
      BY <2>1, KindsFact
    <3> DEFINE h == [p \in gifted |-> Herald]
    <3>3. GivenHerald(DealtRoster(d), gifted) =
            [p \in Players |-> IF p \in gifted THEN Add(DealtRoster(d)[p], level[p], h[p])
                              ELSE DealtRoster(d)[p]]
      BY DEF GivenHerald
    <3>4. \A p \in gifted : h[p] \in Champions \ Plants /\ CanAdd(DealtRoster(d)[p], level[p], h[p])
      BY <3>2
    <3> HIDE DEF h
    <3> QED
      BY <2>2, <3>1, <3>3, <3>4, AddedLayout
  <2>4. EmptyRoster \in Rosters /\ CheckInvariants(EmptyRoster)
    BY EmptyLaidOut
  <2>5. LaidOut(roster')
    BY <2>1, <2>3, <2>4 DEF LaidOut
  <2>6. shop' \in Shops
    BY <1>1, <2>1 DEF ClosedShop, Shops
  <2>7. Shape'
    BY <1>1, <1>6, <2>1, <2>5, <2>6 DEF Shape, LaidOut, EndCombat
  <2> QED
    BY <1>2, <2>5, <2>7
<1>7. CASE EndRound
  BY <1>1, <1>2, <1>7, BeginRoundLayout DEF EndRound
<1>8. CASE EndMatch
  BY <1>1, <1>2, <1>8 DEF EndMatch, Shape, LaidOut
<1> QED
  BY <1>3, <1>4, <1>5, <1>6, <1>7, <1>8

\* In every match every roster is laid out as UnitRoster::CheckInvariants demands,
\* however its units came: bought, dealt, dropped, gifted, granted or grown.
THEOREM RosterLayoutsKept == Spec => []RosterLayouts
<1>1. Init => LayoutInv
  BY InitLayout
<1>2. LayoutInv /\ [Next]_vars => LayoutInv'
  <2>1. CASE UNCHANGED vars
    BY <2>1 DEF vars, LayoutInv, Shape, RosterLayouts
  <2>2. CASE Next
    BY <2>2, PlayerLayout, PhaseLayout DEF Next
  <2> QED
    BY <2>1, <2>2
<1>3. LayoutInv => RosterLayouts
  BY DEF LayoutInv
<1> QED
  BY <1>1, <1>2, <1>3, PTL DEF Spec
-----------------------------------------------------------------------------
(* The course of the match.                                                *)

Cycle == INSTANCE MatchCycle

LEMMA DecidedAlike == IsDecided <=> Cycle!Decided
BY DEF IsDecided, Cycle!Decided, Cardinality, Cycle!Cardinality

LEMMA BeginRoundOpens ==
  ASSUME NEW rs, NEW pl, BeginRound(rs, pl)
  PROVE  Cycle!Opens(phase')
BY DEF BeginRound, EnterMotherNature, EnterPlanning, Cycle!Opens

\* A call of a player's leaves the course of the match alone.
LEMMA PlayersDoNotSteer ==
  ASSUME NEW p \in Players, PlayerAction(p)
  PROVE  UNCHANGED <<phase, alive>>
BY DEF PlayerAction, TryPickGift, TryRerollShop, TryBuyShopUnit, TrySellUnit, TryMoveUnit, TryBuyXp, TrySetShopLock, ClockUnchanged

LEMMA CycleStep == [Next]_vars => [Cycle!Next]_Cycle!vars
<1> SUFFICES ASSUME [Next]_vars
             PROVE  [Cycle!Next]_Cycle!vars
  OBVIOUS
<1> USE DEF Cycle!vars, Cycle!Next
<1>1. CASE Start
  BY <1>1, BeginRoundOpens DEF Start, Cycle!Start
<1>2. CASE \E p \in Players : PlayerAction(p)
  BY <1>2, PlayersDoNotSteer
<1>3. CASE UNCHANGED vars
  BY <1>3 DEF vars
<1>4. CASE EndMotherNature
  BY <1>4 DEF EndMotherNature, EnterPlanning, Cycle!Plan
<1>5. CASE StartCombat
  BY <1>5 DEF StartCombat, Cycle!Fight
<1>6. CASE EndCombat
  BY <1>6 DEF EndCombat, Cycle!Settle
<1>7. CASE EndRound
  <2>1. phase = "Resolution" /\ ~ IsDecided /\ alive' = alive
    BY <1>7 DEF EndRound
  <2>2. Cycle!Opens(phase')
    BY <1>7, BeginRoundOpens DEF EndRound
  <2> QED
    BY <2>1, <2>2, DecidedAlike DEF Cycle!NextRound
<1>8. CASE EndMatch
  BY <1>8, DecidedAlike DEF EndMatch, Cycle!Finish
<1> QED
  BY <1>1, <1>2, <1>3, <1>4, <1>5, <1>6, <1>7, <1>8 DEF Next

\* With its pool, shops, rosters and gifts the match still takes the course MatchCycle
\* promises, as it does with its clock and its fights (MatchRounds).
THEOREM MatchFollowsCycle == Spec => Cycle!Spec
<1>1. Init => Cycle!Init
  BY DEF Init, Cycle!Init
<1> QED
  BY <1>1, CycleStep, PTL DEF Spec, Cycle!Spec

-----------------------------------------------------------------------------
(* Conservation of champion copies (MatchManager::VerifyPoolIntegrity), for *)
(* every number of players, slots, offers, cells and every pool. First,     *)
(* counting places that hold a champion.                                   *)

\* Counting over a finite set gives a number.
LEMMA CountType ==
  ASSUME NEW S, IsFiniteSet(S), NEW h, NEW c
  PROVE  CountIn(S, h, c) \in Nat /\ IsFiniteSet({t \in S : h[t] = c})
<1>1. IsFiniteSet({t \in S : h[t] = c})
  BY FS_Subset
<1> QED
  BY <1>1, FS_CardinalityType DEF CountIn

\* A set splits into a part and the rest.
LEMMA CountSplit ==
  ASSUME NEW S, IsFiniteSet(S), NEW T, T \subseteq S, NEW h, NEW c
  PROVE  CountIn(S, h, c) = CountIn(T, h, c) + CountIn(S \ T, h, c)
<1> DEFINE A == {t \in T : h[t] = c}
           B == {t \in S \ T : h[t] = c}
<1>1. IsFiniteSet(T) /\ IsFiniteSet(S \ T)
  BY FS_Subset
<1>2. IsFiniteSet(A) /\ IsFiniteSet(B)
  BY <1>1, FS_Subset
<1>3. {t \in S : h[t] = c} = A \cup B /\ A \cap B = {}
  OBVIOUS
<1>4. Cardinality(A) \in Nat /\ Cardinality(B) \in Nat /\ Cardinality(A \cap B) = 0
  BY <1>2, <1>3, FS_CardinalityType, FS_EmptySet
<1>5. Cardinality(A \cup B) = Cardinality(A) + Cardinality(B) - Cardinality(A \cap B)
  BY <1>2, FS_Union
<1>6. CountIn(S, h, c) = Cardinality(A \cup B)
  BY <1>3 DEF CountIn
<1>7. CountIn(T, h, c) = Cardinality(A) /\ CountIn(S \ T, h, c) = Cardinality(B)
  BY DEF CountIn
<1> HIDE DEF A, B
<1> QED
  BY <1>4, <1>5, <1>6, <1>7

\* Only what the places hold matters.
LEMMA CountSame ==
  ASSUME NEW S, NEW h, NEW g, NEW c, \A t \in S : h[t] = c <=> g[t] = c
  PROVE  CountIn(S, h, c) = CountIn(S, g, c)
<1>1. {t \in S : h[t] = c} = {t \in S : g[t] = c}
  OBVIOUS
<1> QED
  BY <1>1 DEF CountIn

\* What no place holds counts nothing.
LEMMA CountNone ==
  ASSUME NEW S, NEW h, NEW c, \A t \in S : h[t] # c
  PROVE  CountIn(S, h, c) = 0
<1>1. {t \in S : h[t] = c} = {}
  OBVIOUS
<1> QED
  BY <1>1, FS_EmptySet DEF CountIn

\* A larger set counts at least as many.
LEMMA CountMonotone ==
  ASSUME NEW S, IsFiniteSet(S), NEW T, T \subseteq S, NEW h, NEW c
  PROVE  CountIn(T, h, c) <= CountIn(S, h, c)
<1>1. IsFiniteSet(T) /\ IsFiniteSet(S \ T)
  BY FS_Subset
<1>2. CountIn(T, h, c) \in Nat /\ CountIn(S \ T, h, c) \in Nat
  BY <1>1, CountType
<1> QED
  BY <1>2, CountSplit

\* Of finitely many places that hold a champion, all but one count one less.
LEMMA CountAllButOne ==
  ASSUME NEW S, IsFiniteSet(S), NEW h, NEW c, NEW t \in S, h[t] = c,
         NEW T, \A u \in S : h[u] = c /\ u # t => u \in T
  PROVE  CountIn(S, h, c) <= CountIn(S \cap T, h, c) + 1
<1> DEFINE A == {u \in S : h[u] = c}
           B == {u \in S \cap T : h[u] = c}
<1>1. IsFiniteSet(A) /\ Cardinality(A) \in Nat
  BY FS_Subset, FS_CardinalityType
<1>2. t \in A /\ A \ {t} \subseteq B /\ B \subseteq A
  OBVIOUS
<1> HIDE DEF A, B
<1>3. IsFiniteSet(B) /\ Cardinality(B) \in Nat
  BY <1>1, <1>2, FS_Subset, FS_CardinalityType
<1>4. IsFiniteSet(A \ {t}) /\ Cardinality(A \ {t}) = Cardinality(A) - 1
  BY <1>1, <1>2, FS_RemoveElement
<1>5. Cardinality(A \ {t}) <= Cardinality(B)
  BY <1>2, <1>3, FS_Subset
<1>6. Cardinality(A) <= Cardinality(B) + 1
  BY <1>1, <1>3, <1>4, <1>5
<1> QED
  BY <1>6 DEF A, B, CountIn

\* The three kinds of places a copy can be in are finitely many.
LEMMA TokensFinite ==
  /\ IsFiniteSet(Players) /\ IsFiniteSet(Players \X Slots) /\ IsFiniteSet(Players \X Options)
  /\ IsFiniteSet(Places \X (1 .. 9))
  /\ \A P \in SUBSET Players : \A rs : IsFiniteSet(UnitTokens(P, rs))
<1>0. 1 \in Int /\ 9 \in Int /\ NumPlayers \in Int /\ SlotCount \in Int /\ GiftOptions \in Int
  BY MatchAssumption
<1>1. IsFiniteSet(Players) /\ IsFiniteSet(Slots) /\ IsFiniteSet(Options) /\ IsFiniteSet(1 .. 9)
  BY <1>0, FS_Interval DEF Players, Slots, Options
<1>2. IsFiniteSet(Players \X Slots) /\ IsFiniteSet(Players \X Options)
      /\ IsFiniteSet(Places \X (1 .. 9))
  BY <1>1, PlacesFact, FS_Product
<1>3. IsFiniteSet(Players \X (Places \X (1 .. 9)))
  BY <1>1, <1>2, FS_Product
<1>4. ASSUME NEW P \in SUBSET Players, NEW rs
      PROVE  IsFiniteSet(UnitTokens(P, rs))
  <2> DEFINE f == [t \in UnitTokens(P, rs) |-> <<t[1], <<t[2], t[3]>>>>]
  <2>1. \A t \in UnitTokens(P, rs) :
          /\ t = <<t[1], t[2], t[3]>>
          /\ t[1] \in P /\ t[2] \in Places /\ t[3] \in 1 .. 9
    BY DEF UnitTokens
  <2>2. f \in [UnitTokens(P, rs) -> Players \X (Places \X (1 .. 9))]
    BY <2>1
  <2>3. \A t, u \in UnitTokens(P, rs) : f[t] = f[u] => t = u
    BY <2>1
  <2>4. f \in Injection(UnitTokens(P, rs), Players \X (Places \X (1 .. 9)))
    BY <2>2, <2>3 DEF Injection, IsInjective
  <2> QED
    BY <1>3, <2>4, FS_Injection
<1> QED
  BY <1>1, <1>2, <1>4
-----------------------------------------------------------------------------
(* The copies merged into the units of all the rosters.                    *)

UnitCount(rs, c) == CountIn(UnitTokens(Players, rs), UnitLabels(rs), c)

\* What a unit token is.
LEMMA UnitTokenFact ==
  ASSUME NEW rs, NEW P \in SUBSET Players, NEW t
  PROVE  /\ t \in UnitTokens(P, rs) <=>
              /\ t \in Players \X Places \X (1 .. 9)
              /\ t[1] \in P
              /\ t[3] <= CopiesForStarLevel(rs[t[1]][t[2]].star)
         /\ t \in UnitTokens(P, rs) => UnitLabels(rs)[t] = rs[t[1]][t[2]].champ
<1>1. t \in UnitTokens(P, rs) <=>
        /\ t \in P \X Places \X (1 .. 9)
        /\ t[3] <= CopiesForStarLevel(rs[t[1]][t[2]].star)
  BY DEF UnitTokens
<1>2. t \in P \X Places \X (1 .. 9) <=> t \in Players \X Places \X (1 .. 9) /\ t[1] \in P
  OBVIOUS
<1>3. t \in Players \X Places \X (1 .. 9) => UnitLabels(rs)[t] = rs[t[1]][t[2]].champ
  BY DEF UnitLabels
<1> QED
  BY <1>1, <1>2, <1>3

\* One seat's tokens number what its roster is worth.
LEMMA SeatTokens ==
  ASSUME NEW rs, NEW p \in Players, NEW c
  PROVE  CountIn(UnitTokens({p}, rs), UnitLabels(rs), c) = Worth(rs[p], c)
<1> DEFINE A == {t \in UnitTokens({p}, rs) : UnitLabels(rs)[t] = c}
           B == WorthTokens(rs[p], c)
           f == [t \in A |-> <<t[2], t[3]>>]
<1>1. {p} \in SUBSET Players
  OBVIOUS
<1>2. \A t \in A : /\ t = <<p, t[2], t[3]>> /\ t[2] \in Places /\ t[3] \in 1 .. 9
                   /\ rs[p][t[2]].champ = c /\ t[3] <= CopiesForStarLevel(rs[p][t[2]].star)
  BY <1>1, UnitTokenFact
<1>3. \A t \in A : <<t[2], t[3]>> \in B
  BY <1>2 DEF WorthTokens
<1>4. \A t, u \in A : f[t] = f[u] => t = u
  BY <1>2
<1>5. ASSUME NEW w \in B
      PROVE  <<p, w[1], w[2]>> \in A /\ f[<<p, w[1], w[2]>>] = w
  <2> DEFINE t == <<p, w[1], w[2]>>
  <2>1. /\ w = <<w[1], w[2]>> /\ w[1] \in Places /\ w[2] \in 1 .. 9
        /\ rs[p][w[1]].champ = c /\ w[2] <= CopiesForStarLevel(rs[p][w[1]].star)
    BY DEF WorthTokens
  <2>2. t \in Players \X Places \X (1 .. 9) /\ t[1] = p /\ t[2] = w[1] /\ t[3] = w[2]
    BY <2>1
  <2>3. t[1] \in {p} /\ rs[t[1]][t[2]].champ = c /\ t[3] <= CopiesForStarLevel(rs[t[1]][t[2]].star)
    BY <2>1, <2>2
  <2>4. t \in Players \X Places \X (1 .. 9)
    BY <2>2
  <2>5. f[t] = w \/ t \notin A
    BY <2>1, <2>2
  <2> HIDE DEF t, f
  <2>6. t \in UnitTokens({p}, rs)
    BY <1>1, <2>3, <2>4, UnitTokenFact
  <2>7. UnitLabels(rs)[t] = c
    BY <1>1, <2>3, <2>6, UnitTokenFact
  <2>8. t \in A /\ f[t] = w
    BY <2>5, <2>6, <2>7
  <2> QED
    BY <2>8 DEF t
<1>6. f \in Bijection(A, B)
  <2>1. f \in [A -> B]
    BY <1>3
  <2> HIDE DEF f, A, B
  <2> QED
    BY <2>1, <1>4, <1>5 DEF Bijection, Injection, Surjection, IsInjective
<1>7. IsFiniteSet(A)
  BY <1>1, TokensFinite, FS_Subset
<1>8. Cardinality(B) = Cardinality(A)
  BY <1>6, <1>7, FS_Bijection DEF ExistsBijection
<1> QED
  BY <1>8, WorthType DEF CountIn

\* Changing one seat's roster changes the count by the worth of that roster.
LEMMA SeatChange ==
  ASSUME NEW rs, NEW ns, NEW p \in Players, NEW c,
         \A q \in Players \ {p} : ns[q] = rs[q]
  PROVE  UnitCount(ns, c) = UnitCount(rs, c) - Worth(rs[p], c) + Worth(ns[p], c)
<1> DEFINE T(r) == UnitTokens(Players, r)
           H(r) == UnitTokens({p}, r)
<1>1. {p} \in SUBSET Players /\ Players \in SUBSET Players
  OBVIOUS
<1>2. H(rs) \subseteq T(rs) /\ H(ns) \subseteq T(ns)
  BY <1>1, UnitTokenFact
<1>3. IsFiniteSet(T(rs)) /\ IsFiniteSet(T(ns))
  BY <1>1, TokensFinite
<1>4. T(rs) \ H(rs) = T(ns) \ H(ns)
  <2>1. ASSUME NEW t
        PROVE  t \in T(rs) \ H(rs) <=> t \in T(ns) \ H(ns)
    <3>1. CASE t[1] = p
      BY <1>1, <3>1, UnitTokenFact
    <3>2. CASE t[1] # p
      <4>1. t \in Players \X Places \X (1 .. 9) => ns[t[1]] = rs[t[1]]
        BY <3>2
      <4> QED
        BY <1>1, <3>2, <4>1, UnitTokenFact
    <3> QED
      BY <3>1, <3>2
  <2> QED
    BY <2>1
<1>5. \A t \in T(rs) \ H(rs) : UnitLabels(rs)[t] = UnitLabels(ns)[t]
  <2>1. ASSUME NEW t \in T(rs) \ H(rs)
        PROVE  UnitLabels(rs)[t] = UnitLabels(ns)[t]
    <3>1. t \in T(ns) /\ t[1] \in Players /\ t[1] # p
      BY <1>1, <1>4, UnitTokenFact
    <3> QED
      BY <1>1, <3>1, UnitTokenFact
  <2> QED
    BY <2>1
<1> DEFINE R == T(rs) \ H(rs)
<1>6. CountIn(R, UnitLabels(rs), c) = CountIn(R, UnitLabels(ns), c)
  <2>1. \A t \in R : UnitLabels(rs)[t] = c <=> UnitLabels(ns)[t] = c
    BY <1>5
  <2> HIDE DEF R
  <2> QED
    BY <2>1, CountSame
<1>7. UnitCount(rs, c) = Worth(rs[p], c) + CountIn(R, UnitLabels(rs), c)
  <2>1. CountIn(T(rs), UnitLabels(rs), c)
          = CountIn(H(rs), UnitLabels(rs), c) + CountIn(T(rs) \ H(rs), UnitLabels(rs), c)
    BY <1>2, <1>3, CountSplit
  <2> QED
    BY <2>1, SeatTokens DEF UnitCount
<1>8. UnitCount(ns, c) = Worth(ns[p], c) + CountIn(R, UnitLabels(ns), c)
  <2>1. CountIn(T(ns), UnitLabels(ns), c)
          = CountIn(H(ns), UnitLabels(ns), c) + CountIn(T(ns) \ H(ns), UnitLabels(ns), c)
    BY <1>2, <1>3, CountSplit
  <2> QED
    BY <1>4, <2>1, SeatTokens DEF UnitCount
<1>9. IsFiniteSet(R)
  BY <1>3, FS_Subset
<1> HIDE DEF R
<1>10. CountIn(R, UnitLabels(ns), c) \in Nat /\ Worth(rs[p], c) \in Nat
       /\ Worth(ns[p], c) \in Nat
  BY <1>9, CountType, WorthType
<1> QED
  BY <1>6, <1>7, <1>8, <1>10

\* Seat by seat: when the rosters of A are worth one copy more and the others as much
\* as before, the count grows by the size of A.
LEMMA SeatSum ==
  ASSUME NEW rs, NEW ns, NEW A \in SUBSET Players, NEW c,
         \A p \in Players : Worth(ns[p], c) = Worth(rs[p], c) + (IF p \in A THEN 1 ELSE 0)
  PROVE  UnitCount(ns, c) = UnitCount(rs, c) + Cardinality(A)
<1> DEFINE R(n) == [p \in Players |-> IF p <= n THEN ns[p] ELSE rs[p]]
           U(n) == UnitCount(R(n), c)
           K(n) == Cardinality(A \cap (1 .. n))
           Bad  == {n \in 0 .. NumPlayers : U(n) # UnitCount(rs, c) + K(n)}
<1>1. NumPlayers \in Nat \ {0} /\ 1 \in Players /\ Players \subseteq Nat
  BY MatchAssumption DEF Players
<1>2. \A r : UnitCount(r, c) \in Nat
  BY TokensFinite, CountType DEF UnitCount
<1>3. \A n : IsFiniteSet(A \cap (1 .. n)) /\ K(n) \in Nat
  <2>1. IsFiniteSet(A)
    BY TokensFinite, FS_Subset
  <2> QED
    BY <2>1, FS_Intersection, FS_CardinalityType
<1>4. U(0) = UnitCount(rs, c) + K(0)
  <2>1. \A q \in Players : R(0)[q] = rs[q]
    BY DEF Players
  <2>2. U(0) = UnitCount(rs, c) - Worth(rs[1], c) + Worth(R(0)[1], c)
    <3> HIDE DEF R
    <3> QED
      BY <1>1, <2>1, SeatChange
  <2>3. R(0)[1] = rs[1] /\ Worth(rs[1], c) \in Nat
    BY <1>1, <2>1, WorthType
  <2>4. U(0) = UnitCount(rs, c)
    BY <1>2, <2>2, <2>3
  <2>5. A \cap (1 .. 0) = {}
    OBVIOUS
  <2>6. K(0) = 0
    BY <2>5, FS_EmptySet
  <2> QED
    BY <1>2, <2>4, <2>6
<1>5. ASSUME NEW n \in 1 .. NumPlayers, U(n - 1) = UnitCount(rs, c) + K(n - 1)
      PROVE  U(n) = UnitCount(rs, c) + K(n)
  <2>1. n \in Players /\ n \in Nat
    BY <1>1 DEF Players
  <2>2. /\ \A q \in Players \ {n} : R(n)[q] = R(n - 1)[q]
        /\ R(n)[n] = ns[n] /\ R(n - 1)[n] = rs[n]
    BY <1>1, <2>1
  <2>3. U(n) = U(n - 1) - Worth(rs[n], c) + Worth(ns[n], c)
    <3> DEFINE X == R(n - 1)
               Y == R(n)
    <3>1. (\A q \in Players \ {n} : Y[q] = X[q]) /\ Y[n] = ns[n] /\ X[n] = rs[n]
      BY <2>2
    <3> HIDE DEF X, Y
    <3>2. UnitCount(Y, c) = UnitCount(X, c) - Worth(X[n], c) + Worth(Y[n], c)
      BY <2>1, <3>1, SeatChange
    <3> QED
      BY <3>1, <3>2 DEF X, Y
  <2>4. K(n) = K(n - 1) + (IF n \in A THEN 1 ELSE 0)
    <3> DEFINE B == A \cap (1 .. n - 1)
    <3>1. A \cap (1 .. n) = IF n \in A THEN B \cup {n} ELSE B
      BY <2>1
    <3>2. n \notin B
      BY <2>1
    <3>3. IsFiniteSet(B) /\ K(n - 1) = Cardinality(B) /\ K(n - 1) \in Nat
      BY <1>3
    <3>4. K(n) = IF n \in A THEN Cardinality(B \cup {n}) ELSE Cardinality(B)
      BY <3>1
    <3> HIDE DEF B, K
    <3>5. Cardinality(B \cup {n}) = Cardinality(B) + 1
      BY <3>2, <3>3, FS_AddElement
    <3> QED
      BY <3>3, <3>4, <3>5
  <2>5. Worth(ns[n], c) = Worth(rs[n], c) + (IF n \in A THEN 1 ELSE 0) /\ Worth(rs[n], c) \in Nat
    BY <2>1, WorthType
  <2>6. U(n - 1) \in Nat /\ U(n) \in Nat /\ K(n) \in Nat /\ K(n - 1) \in Nat
        /\ UnitCount(rs, c) \in Nat
    BY <1>2, <1>3
  <2> HIDE DEF U, K
  <2> QED
    BY <1>5, <2>3, <2>4, <2>5, <2>6
<1>6. Bad = {}
  <2> SUFFICES ASSUME Bad # {} PROVE FALSE
    OBVIOUS
  <2>1. Bad \subseteq Nat
    BY <1>1
  <2>2. PICK n \in Bad : \A k \in Bad : n <= k
    BY <2>1, NatMin
  <2>3. n \in 0 .. NumPlayers /\ U(n) # UnitCount(rs, c) + K(n)
    OBVIOUS
  <2>4. n \in 1 .. NumPlayers
    <3>1. n # 0
      BY <1>4, <2>3
    <3> QED
      BY <1>1, <2>3, <3>1
  <2>5. n - 1 \in 0 .. NumPlayers /\ n - 1 \notin Bad
    BY <1>1, <2>2, <2>4
  <2>6. U(n - 1) = UnitCount(rs, c) + K(n - 1)
    BY <2>5
  <2> QED
    BY <1>5, <2>3, <2>4, <2>6
<1>7. U(NumPlayers) = UnitCount(rs, c) + K(NumPlayers)
  <2>1. NumPlayers \in 0 .. NumPlayers
    BY <1>1
  <2> QED
    BY <1>6, <2>1
<1>8. A \cap (1 .. NumPlayers) = A
  BY DEF Players
<1>9. U(NumPlayers) = UnitCount(ns, c)
  <2>1. \A q \in Players : ns[q] = R(NumPlayers)[q]
    BY DEF Players
  <2> PICK p \in Players : TRUE
    BY <1>1
  <2>2. UnitCount(ns, c) = U(NumPlayers) - Worth(R(NumPlayers)[p], c) + Worth(ns[p], c)
    <3> DEFINE X == R(NumPlayers)
               Y == ns
    <3>1. \A q \in Players \ {p} : Y[q] = X[q]
      BY <2>1
    <3> HIDE DEF X, Y
    <3>2. UnitCount(Y, c) = UnitCount(X, c) - Worth(X[p], c) + Worth(Y[p], c)
      BY <3>1, SeatChange
    <3> QED
      BY <3>2 DEF X, Y
  <2>3. R(NumPlayers)[p] = ns[p] /\ Worth(ns[p], c) \in Nat
    BY <2>1, WorthType
  <2>4. UnitCount(ns, c) \in Nat /\ U(NumPlayers) \in Nat
    BY <1>2
  <2> HIDE DEF U, R
  <2> QED
    BY <2>2, <2>3, <2>4
<1> QED
  BY <1>7, <1>8, <1>9

\* When every roster is worth as much as before, so are all together.
LEMMA SeatSame ==
  ASSUME NEW rs, NEW ns, NEW c, \A p \in Players : Worth(ns[p], c) = Worth(rs[p], c)
  PROVE  UnitCount(ns, c) = UnitCount(rs, c)
<1>1. {} \in SUBSET Players /\ Cardinality({}) = 0
  BY FS_EmptySet
<1>2. \A p \in Players : Worth(ns[p], c) = Worth(rs[p], c) + (IF p \in {} THEN 1 ELSE 0)
  BY WorthType
<1>3. UnitCount(ns, c) = UnitCount(rs, c) + 0
  BY <1>1, <1>2, SeatSum
<1>4. UnitCount(rs, c) \in Nat
  BY TokensFinite, CountType DEF UnitCount
<1> QED
  BY <1>3, <1>4

\* Emptying the rosters of some players removes exactly their tokens.
LEMMA SeatsEmptied ==
  ASSUME NEW rs \in [Players -> Rosters], NEW D \in SUBSET Players, NEW c
  PROVE  LET ns == [p \in Players |-> IF p \in D THEN EmptyRoster ELSE rs[p]]
         IN  UnitCount(rs, c) = UnitCount(ns, c) + CountIn(UnitTokens(D, rs), UnitLabels(rs), c)
<1> DEFINE ns == [p \in Players |-> IF p \in D THEN EmptyRoster ELSE rs[p]]
           T == UnitTokens(Players, rs)
           E == UnitTokens(D, rs)
           N == UnitTokens(Players, ns)
<1>1. Players \in SUBSET Players
  OBVIOUS
<1>2. E \subseteq T /\ IsFiniteSet(T)
  BY <1>1, TokensFinite, UnitTokenFact
<1>3. T \ E = N
  <2>1. ASSUME NEW t
        PROVE  t \in T \ E <=> t \in N
    <3>1. CASE t \in Players \X Places \X (1 .. 9) /\ t[1] \in D
      <4>1. ns[t[1]][t[2]].star = 0 /\ t[3] > 0
        BY <3>1 DEF EmptyRoster, Empty, Unit
      <4>2. ~ (t[3] <= CopiesForStarLevel(ns[t[1]][t[2]].star))
        BY <3>1, <4>1 DEF CopiesForStarLevel
      <4> QED
        BY <1>1, <3>1, <4>2, UnitTokenFact
    <3>2. CASE t \in Players \X Places \X (1 .. 9) /\ t[1] \notin D
      <4>1. ns[t[1]] = rs[t[1]]
        BY <3>2
      <4> HIDE DEF ns
      <4> QED
        BY <1>1, <3>2, <4>1, UnitTokenFact
    <3>3. CASE t \notin Players \X Places \X (1 .. 9)
      BY <1>1, <3>3, UnitTokenFact
    <3> QED
      BY <3>1, <3>2, <3>3
  <2> QED
    BY <2>1
<1>4. \A t \in N : UnitLabels(rs)[t] = c <=> UnitLabels(ns)[t] = c
  <2>1. ASSUME NEW t \in N
        PROVE  UnitLabels(rs)[t] = UnitLabels(ns)[t]
    <3>1. t \in T /\ t \notin E /\ t \in Players \X Places \X (1 .. 9)
      BY <1>1, <1>3, UnitTokenFact
    <3>2. t[1] \in Players \ D
      BY <1>1, <3>1, UnitTokenFact
    <3>3. ns[t[1]] = rs[t[1]]
      BY <3>2
    <3> QED
      BY <3>1, <3>3 DEF UnitLabels
  <2> QED
    BY <2>1
<1>5. UnitCount(rs, c) = CountIn(E, UnitLabels(rs), c) + CountIn(N, UnitLabels(rs), c)
  BY <1>2, <1>3, CountSplit DEF UnitCount
<1>6. UnitCount(ns, c) = CountIn(N, UnitLabels(rs), c)
  <2> HIDE DEF ns, N
  <2>1. CountIn(N, UnitLabels(rs), c) = CountIn(N, UnitLabels(ns), c)
    BY <1>4, CountSame
  <2> QED
    BY <2>1 DEF UnitCount, N
<1>7. IsFiniteSet(E) /\ IsFiniteSet(N)
  BY <1>1, TokensFinite
<1>8. CountIn(E, UnitLabels(rs), c) \in Nat /\ CountIn(N, UnitLabels(rs), c) \in Nat
  BY <1>7, CountType
<1> HIDE DEF ns, N, E, T
<1>9. UnitCount(rs, c) = UnitCount(ns, c) + CountIn(E, UnitLabels(rs), c)
  BY <1>5, <1>6, <1>8
<1> QED
  BY <1>9 DEF ns, E
-----------------------------------------------------------------------------
(* The last of the tokens drawn.                                           *)

\* A non-empty set of naturals up to a bound has a greatest element.
LEMMA NatMax ==
  ASSUME NEW n \in Nat, NEW T, T \subseteq 0 .. n, T # {}
  PROVE  \E x \in T : \A y \in T : y <= x
<1> DEFINE D == {n - x : x \in T}
<1>0. \A x \in T : x \in 0 .. n /\ n - x \in Nat
  OBVIOUS
<1>1. D \subseteq Nat /\ D # {}
  BY <1>0
<1>2. PICK z \in D : \A w \in D : z <= w
  BY <1>1, NatMin
<1>3. PICK x \in T : z = n - x
  BY <1>2
<1>4. \A y \in T : n - x <= n - y
  BY <1>2, <1>3
<1>5. \A y \in T : y <= x
  BY <1>0, <1>4
<1> QED
  BY <1>5

\* Among slots or offers, one comes after all the others in the order of drawing.
LEMMA LastToken ==
  ASSUME NEW n \in Nat, NEW m \in Nat, NEW T, T \subseteq (1 .. n) \X (1 .. m), T # {}
  PROVE  \E t \in T : \A u \in T : u # t => Before(u, t)
<1> DEFINE R == {t[1] : t \in T}
<1>1. R \subseteq 0 .. n /\ R # {}
  OBVIOUS
<1>2. PICK a \in R : \A b \in R : b <= a
  BY <1>1, NatMax
<1> DEFINE C == {t[2] : t \in {u \in T : u[1] = a}}
<1>3. C \subseteq 0 .. m /\ C # {}
  BY <1>2
<1>4. PICK d \in C : \A e \in C : e <= d
  BY <1>3, NatMax
<1>5. PICK t \in T : t[1] = a /\ t[2] = d
  BY <1>4
<1>6. ASSUME NEW u \in T, u # t
      PROVE  Before(u, t)
  <2>1. u[1] \in R /\ u[1] <= a
    BY <1>2
  <2>2. u[1] = a => u[2] <= d
    BY <1>4
  <2>3. u = <<u[1], u[2]>> /\ t = <<t[1], t[2]>> /\ u[1] \in Nat /\ u[2] \in Nat
        /\ t[1] \in Nat /\ t[2] \in Nat
    OBVIOUS
  <2>4. u[1] # t[1] \/ u[2] # t[2]
    BY <1>6, <2>3
  <2> QED
    BY <1>5, <2>1, <2>2, <2>3, <2>4 DEF Before
<1> QED
  BY <1>5, <1>6

\* If the last place drawn found a copy left, there were enough copies for all places.
LEMMA DrawnWithin ==
  ASSUME NEW S, IsFiniteSet(S), NEW h, NEW c, NEW n \in Nat,
         \/ \A t \in S : h[t] # c
         \/ \E t \in S, T \in SUBSET S :
              /\ h[t] = c
              /\ \A u \in S : h[u] = c /\ u # t => u \in T
              /\ n - CountIn(T, h, c) > 0
  PROVE  CountIn(S, h, c) <= n
<1>1. CASE \A t \in S : h[t] # c
  BY <1>1, CountNone
<1>2. CASE \E t \in S, T \in SUBSET S :
             /\ h[t] = c
             /\ \A u \in S : h[u] = c /\ u # t => u \in T
             /\ n - CountIn(T, h, c) > 0
  <2>1. PICK t \in S, T \in SUBSET S :
             /\ h[t] = c
             /\ \A u \in S : h[u] = c /\ u # t => u \in T
             /\ n - CountIn(T, h, c) > 0
    BY <1>2
  <2>2. CountIn(S, h, c) <= CountIn(S \cap T, h, c) + 1
    BY <2>1, CountAllButOne
  <2>3. S \cap T = T /\ IsFiniteSet(T)
    BY <2>1, FS_Subset
  <2>4. CountIn(T, h, c) \in Nat /\ CountIn(S, h, c) \in Nat
    BY <2>3, CountType
  <2>5. CountIn(S, h, c) <= CountIn(T, h, c) + 1
    BY <2>2, <2>3
  <2>6. n - CountIn(T, h, c) > 0
    BY <2>1
  <2> QED
    BY <2>4, <2>5, <2>6
<1> QED
  BY <1>1, <1>2

-----------------------------------------------------------------------------
(* The balance of the pool.                                                *)

ShopCount(sh, c)  == CountIn(Players \X Slots, sh, c)
OfferCount(of, c) == CountIn(Players \X Options, of, c)

(***************************************************************************)
(* PoolIntegrity as a predicate of the four places a copy can be in, with  *)
(* the fact that the pool never goes negative: each operation is shown to  *)
(* carry the balance on, and every action is a chain of operations.        *)
(***************************************************************************)
Balanced(pl, sh, of, rs) ==
  /\ pl \in [Pooled -> Nat]
  /\ \A c \in Pooled :
       pl[c] + (ShopCount(sh, c) + OfferCount(of, c) + UnitCount(rs, c)) = InitialCopies[c]

\* All the counts are numbers.
LEMMA CountsType ==
  ASSUME NEW h, NEW c
  PROVE  ShopCount(h, c) \in Nat /\ OfferCount(h, c) \in Nat /\ UnitCount(h, c) \in Nat
BY TokensFinite, CountType DEF ShopCount, OfferCount, UnitCount

\* A return within the initial copies is taken in full.
LEMMA ReturnedInFull ==
  ASSUME NEW pl \in [Pooled -> Nat], NEW S, IsFiniteSet(S), NEW h,
         \A c \in Pooled : pl[c] + CountIn(S, h, c) <= InitialCopies[c]
  PROVE  /\ Returned(pl, S, h) \in [Pooled -> Nat]
         /\ \A c \in Pooled : Returned(pl, S, h)[c] = pl[c] + CountIn(S, h, c)
<1>1. \A c \in Pooled : CountIn(S, h, c) \in Nat /\ InitialCopies[c] \in Nat /\ pl[c] \in Nat
  BY CountType, MatchAssumption
<1>2. ASSUME NEW c \in Pooled
      PROVE  Returned(pl, S, h)[c] = pl[c] + CountIn(S, h, c)
  <2>1. ~ (pl[c] + CountIn(S, h, c) > InitialCopies[c])
    BY <1>1
  <2> QED
    BY <2>1 DEF Returned
<1>3. \A c \in Pooled : Returned(pl, S, h)[c] \in Nat
  BY <1>1, <1>2
<1> QED
  BY <1>2, <1>3 DEF Returned

\* What any set of slots shows fits back into the pool.
LEMMA ShopsWithin ==
  ASSUME NEW pl, NEW sh, NEW of, NEW rs, Balanced(pl, sh, of, rs),
         NEW T \in SUBSET (Players \X Slots), NEW c \in Pooled
  PROVE  pl[c] + CountIn(T, sh, c) <= InitialCopies[c]
<1>1. IsFiniteSet(T)
  BY TokensFinite, FS_Subset
<1>2. CountIn(T, sh, c) <= ShopCount(sh, c)
  BY TokensFinite, CountMonotone DEF ShopCount
<1>3. /\ CountIn(T, sh, c) \in Nat /\ ShopCount(sh, c) \in Nat /\ OfferCount(of, c) \in Nat
      /\ UnitCount(rs, c) \in Nat /\ pl[c] \in Nat
  BY <1>1, CountType, CountsType DEF Balanced
<1>4. pl[c] + (ShopCount(sh, c) + OfferCount(of, c) + UnitCount(rs, c)) = InitialCopies[c]
  BY DEF Balanced
<1> QED
  BY <1>2, <1>3, <1>4

\* ShopManager::ReturnShopToPool and OfferSpecial: slots that are emptied, or given to
\* somebody outside the pool, pay back what they showed.
LEMMA ReleaseShops ==
  ASSUME NEW pl, NEW sh, NEW of, NEW rs, Balanced(pl, sh, of, rs),
         NEW T \in SUBSET (Players \X Slots), NEW sh2,
         \A t \in (Players \X Slots) \ T : sh2[t] = sh[t],
         \A t \in T : sh2[t] \notin Pooled
  PROVE  Balanced(Returned(pl, T, sh), sh2, of, rs)
<1> DEFINE All == Players \X Slots
<1>1. IsFiniteSet(All) /\ IsFiniteSet(T) /\ IsFiniteSet(All \ T)
  BY TokensFinite, FS_Subset
<1>2. ASSUME NEW c \in Pooled
      PROVE  /\ ShopCount(sh, c) = ShopCount(sh2, c) + CountIn(T, sh, c)
             /\ CountIn(T, sh, c) \in Nat
  <2>1. ShopCount(sh, c) = CountIn(T, sh, c) + CountIn(All \ T, sh, c)
    BY <1>1, CountSplit DEF ShopCount
  <2>2. ShopCount(sh2, c) = CountIn(T, sh2, c) + CountIn(All \ T, sh2, c)
    BY <1>1, CountSplit DEF ShopCount
  <2>3. CountIn(T, sh2, c) = 0
    BY CountNone
  <2>4. CountIn(All \ T, sh2, c) = CountIn(All \ T, sh, c)
    <3>1. \A t \in All \ T : sh2[t] = c <=> sh[t] = c
      OBVIOUS
    <3> DEFINE X == All \ T
    <3> HIDE DEF X
    <3>2. CountIn(X, sh2, c) = CountIn(X, sh, c)
      BY <3>1, CountSame DEF X
    <3> QED
      BY <3>2 DEF X
  <2>5. CountIn(T, sh, c) \in Nat /\ CountIn(All \ T, sh, c) \in Nat
    BY <1>1, CountType
  <2> QED
    BY <2>1, <2>2, <2>3, <2>4, <2>5
<1>3. \A c \in Pooled : /\ ShopCount(sh, c) \in Nat /\ ShopCount(sh2, c) \in Nat
                        /\ OfferCount(of, c) \in Nat /\ UnitCount(rs, c) \in Nat
                        /\ pl[c] \in Nat /\ InitialCopies[c] \in Nat
  BY CountsType, MatchAssumption DEF Balanced
<1>4. \A c \in Pooled : pl[c] + CountIn(T, sh, c) <= InitialCopies[c]
  BY <1>2, <1>3 DEF Balanced
<1>5. /\ Returned(pl, T, sh) \in [Pooled -> Nat]
      /\ \A c \in Pooled : Returned(pl, T, sh)[c] = pl[c] + CountIn(T, sh, c)
  BY <1>1, <1>4, ReturnedInFull DEF Balanced
<1> QED
  BY <1>2, <1>3, <1>5 DEF Balanced

\* What a slot can show was in the pool when it was drawn.
LEMMA DrawOneStocked ==
  ASSUME NEW pl, NEW lv, NEW open, NEW c \in Pooled, c \in DrawOne(pl, lv, open)
  PROVE  pl[c] > 0
<1>1. c # NoChampion
  BY KindsFact
<1>2. c \in Drawable(pl, open)
  BY <1>1 DEF DrawOne, Nearest
<1> QED
  BY <1>2 DEF Drawable

\* Drawing copies into emptied slots, as many as there are, keeps the balance.
LEMMA FillShops ==
  ASSUME NEW pl, NEW sh, NEW of, NEW rs, Balanced(pl, sh, of, rs),
         NEW T \in SUBSET (Players \X Slots), NEW new,
         \A t \in (Players \X Slots) \ T : new[t] = sh[t],
         \A t \in T : sh[t] \notin Pooled,
         \A c \in Pooled : CountIn(T, new, c) <= pl[c]
  PROVE  Balanced(Drawn(pl, T, new), new, of, rs)
<1> DEFINE All == Players \X Slots
           Rest == All \ T
<1>1. IsFiniteSet(All) /\ IsFiniteSet(T) /\ IsFiniteSet(Rest)
  BY TokensFinite, FS_Subset
<1>2. ASSUME NEW c \in Pooled
      PROVE  /\ ShopCount(new, c) = ShopCount(sh, c) + CountIn(T, new, c)
             /\ CountIn(T, new, c) \in Nat
  <2>1. /\ ShopCount(sh, c) = CountIn(T, sh, c) + CountIn(Rest, sh, c)
        /\ ShopCount(new, c) = CountIn(T, new, c) + CountIn(Rest, new, c)
    BY <1>1, CountSplit DEF ShopCount
  <2>2. CountIn(T, sh, c) = 0
    BY CountNone
  <2>3. CountIn(Rest, new, c) = CountIn(Rest, sh, c)
    <3>1. \A t \in Rest : new[t] = c <=> sh[t] = c
      OBVIOUS
    <3> HIDE DEF Rest
    <3> QED
      BY <3>1, CountSame
  <2>4. CountIn(T, new, c) \in Nat /\ CountIn(Rest, sh, c) \in Nat
    BY <1>1, CountType
  <2> HIDE DEF Rest
  <2> QED
    BY <2>1, <2>2, <2>3, <2>4
<1>3. \A c \in Pooled : /\ ShopCount(sh, c) \in Nat /\ ShopCount(new, c) \in Nat
                        /\ OfferCount(of, c) \in Nat /\ UnitCount(rs, c) \in Nat
                        /\ pl[c] \in Nat
  BY CountsType DEF Balanced
<1>4. \A c \in Pooled : Drawn(pl, T, new)[c] = pl[c] - CountIn(T, new, c)
  BY DEF Drawn
<1>5. \A c \in Pooled : Drawn(pl, T, new)[c] \in Nat
  BY <1>2, <1>3, <1>4
<1>6. Drawn(pl, T, new) \in [Pooled -> Nat]
  BY <1>5 DEF Drawn
<1> QED
  BY <1>2, <1>3, <1>4, <1>6 DEF Balanced

\* ShopManager::Refresh for the players of P in seat order keeps the balance.
LEMMA RefreshBalance ==
  ASSUME NEW pl, NEW sh, NEW of, NEW rs, Balanced(pl, sh, of, rs),
         NEW P \in SUBSET Players, NEW lv, NEW new,
         \A t \in Players \X Slots : t[1] \notin P => new[t] = sh[t],
         Refreshes(pl, P, sh, lv, new)
  PROVE  Balanced(RefreshedPool(pl, P, sh, new), new, of, rs)
<1> DEFINE T == P \X Slots
           mid == Returned(pl, T, sh)
           empty == [t \in Players \X Slots |-> IF t \in T THEN NoChampion ELSE sh[t]]
<1>1. T \in SUBSET (Players \X Slots) /\ IsFiniteSet(T)
  <2>1. T \in SUBSET (Players \X Slots)
    OBVIOUS
  <2> QED
    BY <2>1, TokensFinite, FS_Subset
<1>2. NoChampion \notin Pooled
  BY KindsFact
<1>3. Balanced(mid, empty, of, rs)
  <2>1. /\ \A t \in (Players \X Slots) \ T : empty[t] = sh[t]
        /\ \A t \in T : empty[t] \notin Pooled
    BY <1>1, <1>2
  <2> HIDE DEF empty, T
  <2> QED
    BY <1>1, <2>1, ReleaseShops
<1>4. ASSUME NEW c \in Pooled
      PROVE  CountIn(T, new, c) <= mid[c]
  <2> DEFINE X == {t \in T : new[t] = c}
  <2>1. CASE X = {}
    <3>1. CountIn(T, new, c) = 0
      BY <2>1, CountNone
    <3>2. mid[c] \in Nat
      BY <1>3 DEF Balanced
    <3> QED
      BY <3>1, <3>2
  <2>2. CASE X # {}
    <3>1. /\ X \subseteq (1 .. NumPlayers) \X (1 .. SlotCount)
          /\ NumPlayers \in Nat /\ SlotCount \in Nat
      BY MatchAssumption DEF Players, Slots
    <3>2. PICK t \in X : \A u \in X : u # t => Before(u, t)
      BY <2>2, <3>1, LastToken
    <3> DEFINE early == {u \in T : Before(u, t)}
               upto  == {u \in T : u[1] <= t[1]}
    <3>3. t \in T /\ t[1] \in P /\ new[t] = c
      OBVIOUS
    <3>4. PoolAtDraw(pl, P, sh, new, t)[c] > 0
      <4>1. c \in DrawOne(PoolAtDraw(pl, P, sh, new, t), lv[t[1]], unlocked[t[1]])
        BY <1>1, <3>3 DEF Refreshes
      <4> QED
        BY <4>1, DrawOneStocked
    <3>5. PoolAtDraw(pl, P, sh, new, t)[c] = Returned(pl, upto, sh)[c] - CountIn(early, new, c)
      BY DEF PoolAtDraw, Drawn
    <3>6. Returned(pl, upto, sh)[c] <= mid[c]
      <4>1. upto \subseteq T /\ IsFiniteSet(upto)
        BY <1>1, FS_Subset
      <4>2. \A e \in Pooled : CountIn(upto, sh, e) <= CountIn(T, sh, e)
        BY <1>1, <4>1, CountMonotone
      <4>3. \A e \in Pooled : pl[e] + CountIn(T, sh, e) <= InitialCopies[e]
        BY <1>1, ShopsWithin
      <4>4. \A e \in Pooled : /\ pl[e] \in Nat /\ InitialCopies[e] \in Nat
                              /\ CountIn(upto, sh, e) \in Nat /\ CountIn(T, sh, e) \in Nat
        BY <1>1, <4>1, CountType, MatchAssumption DEF Balanced
      <4>6. pl \in [Pooled -> Nat]
        BY DEF Balanced
      <4> HIDE DEF upto, T
      <4>5. \A e \in Pooled : pl[e] + CountIn(upto, sh, e) <= InitialCopies[e]
        BY <4>2, <4>3, <4>4
      <4>7. Returned(pl, upto, sh)[c] = pl[c] + CountIn(upto, sh, c)
        BY <4>1, <4>5, <4>6, ReturnedInFull
      <4>8. mid[c] = pl[c] + CountIn(T, sh, c)
        BY <1>1, <4>3, <4>6, ReturnedInFull
      <4> QED
        BY <4>2, <4>4, <4>7, <4>8
    <3>7. mid[c] \in Nat /\ Returned(pl, upto, sh)[c] \in Int
      <4>1. mid[c] \in Nat
        BY <1>3 DEF Balanced
      <4>2. IsFiniteSet(upto)
        BY <1>1, FS_Subset
      <4>3. pl[c] \in Nat /\ CountIn(upto, sh, c) \in Nat
        BY <4>2, CountType DEF Balanced
      <4> HIDE DEF upto, mid
      <4> QED
        BY <4>1, <4>3 DEF Returned
    <3>8. IsFiniteSet(early) /\ early \in SUBSET T
      BY <1>1, FS_Subset
    <3>9. CountIn(early, new, c) \in Nat
      BY <3>8, CountType
    <3>10. mid[c] - CountIn(early, new, c) > 0
      <4> HIDE DEF mid, early, upto
      <4> QED
        BY <3>4, <3>5, <3>6, <3>7, <3>9
    <3>11. \A u \in T : new[u] = c /\ u # t => u \in early
      BY <3>2
    <3> HIDE DEF T, mid, early, upto
    <3> QED
      BY <1>1, <3>3, <3>7, <3>8, <3>10, <3>11, DrawnWithin
  <2> QED
    BY <2>1, <2>2
<1>5. /\ \A t \in (Players \X Slots) \ T : new[t] = empty[t]
      /\ \A t \in T : empty[t] \notin Pooled
  BY <1>1, <1>2
<1>6. RefreshedPool(pl, P, sh, new) = Drawn(mid, T, new)
  BY DEF RefreshedPool
<1> HIDE DEF T, mid, empty
<1>7. Balanced(Drawn(mid, T, new), new, of, rs)
  BY <1>1, <1>3, <1>4, <1>5, FillShops
<1> QED
  BY <1>6, <1>7

\* GenerateGifts: checking the units on offer out of the pool keeps the balance.
LEMMA OfferedBalance ==
  ASSUME NEW pl, NEW sh, NEW rs, Balanced(pl, sh, NoOffers, rs), NEW of,
         \A t \in Players \X Options :
           of[t] \in Pooled =>
             of[t] \in Drawable(Drawn(pl, {u \in Players \X Options : Before(u, t)}, of), {})
  PROVE  Balanced(Drawn(pl, Players \X Options, of), sh, of, rs)
<1> DEFINE T == Players \X Options
<1>1. IsFiniteSet(T)
  BY TokensFinite
<1>2. \A c \in Pooled : OfferCount(NoOffers, c) = 0
  <2>1. \A c \in Pooled, t \in T : NoOffers[t] # c
    BY KindsFact DEF NoOffers
  <2> QED
    BY <2>1, CountNone DEF OfferCount
<1>3. \A c \in Pooled : /\ pl[c] \in Nat /\ CountIn(T, of, c) \in Nat
                        /\ ShopCount(sh, c) \in Nat /\ UnitCount(rs, c) \in Nat
  BY <1>1, CountType, CountsType DEF Balanced
<1>4. ASSUME NEW c \in Pooled
      PROVE  CountIn(T, of, c) <= pl[c]
  <2> DEFINE X == {t \in T : of[t] = c}
  <2>1. CASE X = {}
    <3>1. CountIn(T, of, c) = 0
      BY <2>1, CountNone
    <3> QED
      BY <1>3, <3>1
  <2>2. CASE X # {}
    <3>1. /\ X \subseteq (1 .. NumPlayers) \X (1 .. GiftOptions)
          /\ NumPlayers \in Nat /\ GiftOptions \in Nat
      BY MatchAssumption DEF Players, Options
    <3>2. PICK t \in X : \A u \in X : u # t => Before(u, t)
      BY <2>2, <3>1, LastToken
    <3> DEFINE early == {u \in T : Before(u, t)}
    <3>3. t \in T /\ of[t] = c
      OBVIOUS
    <3>4. Drawn(pl, early, of)[c] > 0
      BY <3>3 DEF Drawable
    <3>5. Drawn(pl, early, of)[c] = pl[c] - CountIn(early, of, c)
      BY DEF Drawn
    <3>6. early \in SUBSET T /\ \A u \in T : of[u] = c /\ u # t => u \in early
      BY <3>2
    <3>7. pl[c] - CountIn(early, of, c) > 0
      BY <3>4, <3>5
    <3> HIDE DEF T, early
    <3> QED
      BY <1>1, <1>3, <3>3, <3>6, <3>7, DrawnWithin
  <2> QED
    BY <2>1, <2>2
<1>5. \A c \in Pooled : Drawn(pl, T, of)[c] = pl[c] - CountIn(T, of, c)
  BY DEF Drawn
<1>6. Drawn(pl, T, of) \in [Pooled -> Nat]
  <2>1. \A c \in Pooled : Drawn(pl, T, of)[c] \in Nat
    BY <1>3, <1>4, <1>5
  <2> QED
    BY <2>1 DEF Drawn
<1>7. \A c \in Pooled : OfferCount(of, c) = CountIn(T, of, c)
  BY DEF OfferCount
<1> HIDE DEF T
<1>8. Balanced(Drawn(pl, T, of), sh, of, rs)
  BY <1>2, <1>3, <1>5, <1>6, <1>7 DEF Balanced
<1> QED
  BY <1>8 DEF T

\* Whatever is kept of what the players of P were offered goes to their units, the rest
\* goes back (PickGift and FinishGiftPhase).
LEMMA PickBalance ==
  ASSUME Balanced(pool, shop, offers, roster), LaidOut(roster),
         NEW P \in SUBSET Players, NEW pick \in [P -> Options], NEW of,
         \A t \in Players \X Options : IF t[1] \in P THEN of[t] \notin Pooled
                                     ELSE of[t] = offers[t]
  PROVE  Balanced(GiftPool(P, pick), shop, of, GiftRoster(P, pick))
<1> DEFINE All  == Players \X Options
           T    == P \X Options
           Back == {t \in T : ~ (t[2] = pick[t[1]] /\ Takes(t[1], t[2]))}
           Kept == {t \in T : t[2] = pick[t[1]] /\ Takes(t[1], t[2])}
           ns   == GiftRoster(P, pick)
           A(c) == {p \in P : Takes(p, pick[p]) /\ offers[<<p, pick[p]>>] = c}
<1>1. /\ T \subseteq All /\ Back \subseteq T /\ Kept = T \ Back
      /\ IsFiniteSet(All) /\ IsFiniteSet(T) /\ IsFiniteSet(Back) /\ IsFiniteSet(Kept)
      /\ IsFiniteSet(All \ T)
  <2>1. T \subseteq All /\ Back \subseteq T /\ Kept = T \ Back
    OBVIOUS
  <2>2. IsFiniteSet(All)
    BY TokensFinite
  <2>3. IsFiniteSet(T) /\ IsFiniteSet(All \ T)
    BY <2>1, <2>2, FS_Subset
  <2>4. IsFiniteSet(Back) /\ IsFiniteSet(Kept)
    BY <2>1, <2>3, FS_Subset
  <2> QED
    BY <2>1, <2>2, <2>3, <2>4
<1>2. ASSUME NEW c \in Pooled
      PROVE  /\ OfferCount(offers, c)
                  = OfferCount(of, c) + CountIn(Back, offers, c) + CountIn(Kept, offers, c)
             /\ CountIn(Back, offers, c) \in Nat /\ CountIn(Kept, offers, c) \in Nat
  <2>1. OfferCount(offers, c) = CountIn(T, offers, c) + CountIn(All \ T, offers, c)
    BY <1>1, CountSplit DEF OfferCount
  <2>2. OfferCount(of, c) = CountIn(T, of, c) + CountIn(All \ T, of, c)
    BY <1>1, CountSplit DEF OfferCount
  <2>3. CountIn(T, offers, c) = CountIn(Back, offers, c) + CountIn(Kept, offers, c)
    BY <1>1, CountSplit
  <2>4. CountIn(T, of, c) = 0
    <3>1. \A t \in T : of[t] # c
      BY <1>1
    <3> QED
      BY <3>1, CountNone
  <2>5. CountIn(All \ T, of, c) = CountIn(All \ T, offers, c)
    <3>1. \A t \in All \ T : of[t] = c <=> offers[t] = c
      OBVIOUS
    <3> DEFINE X == All \ T
    <3> HIDE DEF X
    <3>2. CountIn(X, of, c) = CountIn(X, offers, c)
      BY <3>1, CountSame DEF X
    <3> QED
      BY <3>2 DEF X
  <2>6. /\ CountIn(Back, offers, c) \in Nat /\ CountIn(Kept, offers, c) \in Nat
        /\ CountIn(All \ T, offers, c) \in Nat
    BY <1>1, CountType
  <2> HIDE DEF All, T, Back, Kept
  <2> QED
    BY <2>1, <2>2, <2>3, <2>4, <2>5, <2>6
<1>3. ASSUME NEW c \in Pooled
      PROVE  CountIn(Kept, offers, c) = Cardinality(A(c))
  <2> DEFINE K == {t \in Kept : offers[t] = c}
             f == [p \in A(c) |-> <<p, pick[p]>>]
  <2>1. \A p \in A(c) : f[p] \in K
    OBVIOUS
  <2>2. \A p, q \in A(c) : f[p] = f[q] => p = q
    OBVIOUS
  <2>3. \A t \in K : t[1] \in A(c) /\ f[t[1]] = t
    OBVIOUS
  <2>4. f \in Bijection(A(c), K)
    <3>1. f \in [A(c) -> K]
      BY <2>1
    <3> HIDE DEF f, K, A
    <3> QED
      BY <3>1, <2>2, <2>3 DEF Bijection, Injection, Surjection, IsInjective
  <2>5. IsFiniteSet(A(c))
    BY TokensFinite, FS_Subset
  <2> HIDE DEF K, A, f
  <2>6. Cardinality(K) = Cardinality(A(c))
    BY <2>4, <2>5, FS_Bijection DEF ExistsBijection
  <2> QED
    BY <2>6 DEF K, CountIn
<1>4. ASSUME NEW c \in Pooled
      PROVE  UnitCount(ns, c) = UnitCount(roster, c) + Cardinality(A(c))
  <2>1. A(c) \in SUBSET Players
    OBVIOUS
  <2>2. ASSUME NEW p \in Players
        PROVE  Worth(ns[p], c) = Worth(roster[p], c) + (IF p \in A(c) THEN 1 ELSE 0)
    <3>1. CASE p \in P /\ Takes(p, pick[p])
      <4> DEFINE o == offers[<<p, pick[p]>>]
      <4>1. ns[p] = Add(roster[p], level[p], o)
        BY <3>1 DEF GiftRoster
      <4>2. o \in Champions \ Plants
        BY <3>1, KindsFact DEF Takes
      <4>3. roster[p] \in Rosters /\ NothingUnplaced(roster[p]) /\ NoLooseTriple(roster[p])
        BY DEF LaidOut, CheckInvariants
      <4>4. p \in A(c) <=> c = o
        BY <3>1
      <4> HIDE DEF o, A, ns
      <4>5. Worth(Add(roster[p], level[p], o), c)
              = Worth(roster[p], c) + (IF c = o THEN 1 ELSE 0)
        BY <4>2, <4>3, AddWorth
      <4> QED
        BY <4>1, <4>4, <4>5
    <3>2. CASE ~ (p \in P /\ Takes(p, pick[p]))
      <4>1. ns[p] = roster[p] /\ p \notin A(c)
        BY <3>2 DEF GiftRoster
      <4> HIDE DEF A, ns
      <4> QED
        BY <4>1, WorthType
    <3> QED
      BY <3>1, <3>2
  <2> HIDE DEF A, ns
  <2> QED
    BY <2>1, <2>2, SeatSum
<1>5. \A c \in Pooled :
        /\ pool[c] \in Nat /\ InitialCopies[c] \in Nat
        /\ ShopCount(shop, c) \in Nat /\ OfferCount(of, c) \in Nat
        /\ UnitCount(roster, c) \in Nat
        /\ pool[c] + (ShopCount(shop, c) + OfferCount(offers, c) + UnitCount(roster, c)) = InitialCopies[c]
  BY CountsType, MatchAssumption DEF Balanced
<1> HIDE DEF All, T, Back, Kept, ns, A
<1>6. \A c \in Pooled : pool[c] + CountIn(Back, offers, c) <= InitialCopies[c]
  BY <1>2, <1>5
<1>7. /\ Returned(pool, Back, offers) \in [Pooled -> Nat]
      /\ \A c \in Pooled : Returned(pool, Back, offers)[c] = pool[c] + CountIn(Back, offers, c)
  BY <1>1, <1>6, ReturnedInFull DEF Balanced
<1>8. Balanced(Returned(pool, Back, offers), shop, of, ns)
  BY <1>2, <1>3, <1>4, <1>5, <1>7 DEF Balanced
<1>9. GiftPool(P, pick) = Returned(pool, Back, offers)
  BY DEF GiftPool, Back, T
<1> QED
  BY <1>8, <1>9 DEF ns

\* The opening deal and the PvE drops: who has room gets the copy drawn for them.
LEMMA DealBalance ==
  ASSUME NEW sh, NEW of, Balanced(pool, sh, of, roster), LaidOut(roster),
         NEW P, NEW d, DealtFrom(P, d)
  PROVE  Balanced(DealtPool(d), sh, of, DealtRoster(d))
<1> DEFINE T == {p \in Players : Fits(p, d)}
           A(c) == {p \in T : d[p] = c}
           ns == DealtRoster(d)
<1>1. T \subseteq Players /\ IsFiniteSet(T)
  BY TokensFinite, FS_Subset
<1>2. ASSUME NEW c \in Pooled
      PROVE  UnitCount(ns, c) = UnitCount(roster, c) + CountIn(T, d, c)
  <2>1. A(c) \in SUBSET Players
    OBVIOUS
  <2>2. ASSUME NEW p \in Players
        PROVE  Worth(ns[p], c) = Worth(roster[p], c) + (IF p \in A(c) THEN 1 ELSE 0)
    <3>1. CASE Fits(p, d)
      <4>1. ns[p] = Add(roster[p], level[p], d[p])
        BY <3>1 DEF DealtRoster
      <4>2. d[p] \in Champions \ Plants
        BY <3>1, KindsFact DEF Fits
      <4>3. roster[p] \in Rosters /\ NothingUnplaced(roster[p]) /\ NoLooseTriple(roster[p])
        BY DEF LaidOut, CheckInvariants
      <4>4. p \in A(c) <=> c = d[p]
        BY <3>1
      <4> HIDE DEF A, ns
      <4>5. Worth(Add(roster[p], level[p], d[p]), c)
              = Worth(roster[p], c) + (IF c = d[p] THEN 1 ELSE 0)
        BY <4>2, <4>3, AddWorth
      <4> QED
        BY <4>1, <4>4, <4>5
    <3>2. CASE ~ Fits(p, d)
      <4>1. ns[p] = roster[p] /\ p \notin A(c)
        BY <3>2 DEF DealtRoster
      <4> HIDE DEF A, ns
      <4> QED
        BY <4>1, WorthType
    <3> QED
      BY <3>1, <3>2
  <2>3. CountIn(T, d, c) = Cardinality(A(c))
    BY DEF CountIn
  <2> HIDE DEF A, ns
  <2> QED
    BY <2>1, <2>2, <2>3, SeatSum
<1>3. \A c \in Pooled : /\ pool[c] \in Nat /\ CountIn(T, d, c) \in Nat
                        /\ ShopCount(sh, c) \in Nat /\ OfferCount(of, c) \in Nat
                        /\ UnitCount(roster, c) \in Nat
  BY <1>1, CountType, CountsType DEF Balanced
<1>4. ASSUME NEW c \in Pooled
      PROVE  CountIn(T, d, c) <= pool[c]
  <2>1. CASE A(c) = {}
    <3>1. CountIn(T, d, c) = 0
      BY <2>1, CountNone
    <3> QED
      BY <1>3, <3>1
  <2>2. CASE A(c) # {}
    <3>1. A(c) \subseteq 0 .. NumPlayers /\ NumPlayers \in Nat
      BY MatchAssumption DEF Players
    <3>2. PICK p \in A(c) : \A q \in A(c) : q <= p
      BY <2>2, <3>1, NatMax
    <3> DEFINE early == {q \in 1 .. p - 1 : Fits(q, d)}
    <3>3. p \in T /\ d[p] = c /\ p \in Nat /\ p \in Players
      BY <3>1
    <3>4. d[p] # NoChampion
      BY <3>3, KindsFact
    <3>5. Drawn(pool, early, d)[c] > 0
      <4>1. d[p] \in Drawable(Drawn(pool, early, d), {})
        BY <3>3, <3>4 DEF DealtFrom
      <4> QED
        BY <3>3, <4>1 DEF Drawable
    <3>6. Drawn(pool, early, d)[c] = pool[c] - CountIn(early, d, c)
      BY DEF Drawn
    <3>7. early \in SUBSET T
      <4>1. \A q \in 1 .. p - 1 : q \in Players
        BY <3>3, MatchAssumption DEF Players
      <4> QED
        BY <4>1
    <3>8. \A q \in T : d[q] = c /\ q # p => q \in early
      <4>1. ASSUME NEW q \in T, d[q] = c, q # p
            PROVE  q \in early
        <5>1. q <= p /\ q \in Nat /\ q >= 1
          BY <3>2, <4>1 DEF Players
        <5> QED
          BY <3>3, <4>1, <5>1
      <4> QED
        BY <4>1
    <3>9. pool[c] - CountIn(early, d, c) > 0
      BY <3>5, <3>6
    <3> HIDE DEF T, early
    <3> QED
      BY <1>1, <1>3, <3>3, <3>7, <3>8, <3>9, DrawnWithin
  <2> QED
    BY <2>1, <2>2
<1>5. \A c \in Pooled : Drawn(pool, T, d)[c] = pool[c] - CountIn(T, d, c)
  BY DEF Drawn
<1>6. Drawn(pool, T, d) \in [Pooled -> Nat]
  <2>1. \A c \in Pooled : Drawn(pool, T, d)[c] \in Nat
    BY <1>3, <1>4, <1>5
  <2> QED
    BY <2>1 DEF Drawn
<1> HIDE DEF T, ns
<1>7. Balanced(Drawn(pool, T, d), sh, of, ns)
  BY <1>2, <1>3, <1>5, <1>6 DEF Balanced
<1> QED
  BY <1>7 DEF DealtPool, T, ns

\* The rosters only matter by what they are worth.
LEMMA SameWorthBalance ==
  ASSUME NEW pl, NEW sh, NEW of, NEW rs, Balanced(pl, sh, of, rs), NEW ns,
         \A c \in Pooled, p \in Players : Worth(ns[p], c) = Worth(rs[p], c)
  PROVE  Balanced(pl, sh, of, ns)
<1>1. \A c \in Pooled : UnitCount(ns, c) = UnitCount(rs, c)
  BY SeatSame
<1> QED
  BY <1>1 DEF Balanced

\* SyncPlants: plants are nobody's copies.
LEMMA PlantsWorth ==
  ASSUME NEW r \in Rosters, NEW S \in SUBSET Board, S \in SyncedHexes(r), NEW c \in Pooled
  PROVE  Worth(WithPlants(r, S), c) = Worth(r, c)
<1> DEFINE m == WithPlants(r, S)
           plant == CHOOSE e \in Plants : TRUE
<1>1. \A x \in Places : m[x] = IF x \in S /\ x \notin PlantHexes(r) THEN Unit(plant, 1)
                              ELSE IF x \in PlantHexes(r) \ S THEN Empty ELSE r[x]
  BY DEF WithPlants
<1>2. c \notin Plants /\ c # NoChampion
  BY KindsFact
<1>3. ASSUME NEW x \in Places, m[x] # r[x]
      PROVE  m[x].champ # c /\ r[x].champ # c
  <2>1. CASE x \in S /\ x \notin PlantHexes(r)
    <3>1. plant \in Plants
      BY <2>1, PlantsToGrow
    <3>2. S # PlantHexes(r) /\ ~ (S \subseteq PlantHexes(r))
      BY <2>1
    <3>3. x \in PlantHexes(r) \cup FreeIn(r, Board)
      BY <2>1, <3>2 DEF SyncedHexes
    <3>4. r[x] = Empty
      BY <2>1, <3>3 DEF FreeIn
    <3>5. m[x] = Unit(plant, 1)
      BY <1>1, <2>1
    <3> HIDE DEF plant, m
    <3> QED
      BY <1>2, <3>1, <3>4, <3>5 DEF Unit, Empty
  <2>2. CASE x \in PlantHexes(r) \ S
    <3>1. m[x] = Empty /\ r[x].champ \in Plants
      BY <1>1, <2>2 DEF PlantHexes
    <3> HIDE DEF m
    <3> QED
      BY <1>2, <3>1 DEF Empty, Unit
  <2> QED
    BY <1>1, <1>3, <2>1, <2>2
<1>4. WorthTokens(m, c) = WorthTokens(r, c)
  <2> HIDE DEF m
  <2>1. \A t \in Places \X (1 .. 9) :
          (m[t[1]].champ = c /\ t[2] <= CopiesForStarLevel(m[t[1]].star))
            <=> (r[t[1]].champ = c /\ t[2] <= CopiesForStarLevel(r[t[1]].star))
    BY <1>3
  <2> QED
    BY <2>1 DEF WorthTokens
<1> QED
  BY <1>4, WorthType

\* ShopManager::OfferSpecial: what the first slot showed goes back, the Queen is no copy.
LEMMA OfferQueenBalance ==
  ASSUME NEW P \in SUBSET Players, NEW qs, NEW lv, NEW sh, NEW pl, NEW of, NEW rs,
         Balanced(pl, sh, of, rs), OfferQueen(P, qs, lv, sh, pl)
  PROVE  Balanced(pool', shop', of, rs)
<1>1. PICK due \in SUBSET P :
        /\ shop' = [t \in Players \X Slots |-> IF t \in due \X {1} THEN Queen ELSE sh[t]]
        /\ pool' = Returned(pl, due \X {1}, sh)
  BY DEF OfferQueen
<1>2. due \X {1} \in SUBSET (Players \X Slots)
  BY MatchAssumption DEF Slots
<1>3. /\ \A t \in (Players \X Slots) \ (due \X {1}) : shop'[t] = sh[t]
      /\ \A t \in due \X {1} : shop'[t] \notin Pooled
  BY <1>1, <1>2, KindsFact
<1>4. Balanced(Returned(pl, due \X {1}, sh), shop', of, rs)
  BY <1>2, <1>3, ReleaseShops
<1> QED
  BY <1>1, <1>4

\* AfterRosterChange carries the balance from what it is given to the next state.
LEMMA AfterRosterChangeBalance ==
  ASSUME NEW P \in SUBSET Players, NEW rs, NEW lv, NEW sh, NEW pl, NEW of,
         LaidOut(rs), Balanced(pl, sh, of, rs), AfterRosterChange(P, rs, lv, sh, pl)
  PROVE  Balanced(pool', shop', of, roster')
<1>1. PICK hexes \in [P -> SUBSET Board] :
        /\ \A p \in P : hexes[p] \in SyncedHexes(rs[p])
        /\ roster' = [p \in Players |-> IF p \in P THEN WithPlants(rs[p], hexes[p]) ELSE rs[p]]
        /\ OfferQueen(P, roster', lv, sh, pl)
  BY DEF AfterRosterChange
<1>2. \A c \in Pooled, p \in Players : Worth(roster'[p], c) = Worth(rs[p], c)
  <2>1. ASSUME NEW c \in Pooled, NEW p \in Players
        PROVE  Worth(roster'[p], c) = Worth(rs[p], c)
    <3>1. CASE p \in P
      <4>1. roster'[p] = WithPlants(rs[p], hexes[p])
        BY <1>1, <3>1
      <4>2. rs[p] \in Rosters /\ hexes[p] \in SUBSET Board /\ hexes[p] \in SyncedHexes(rs[p])
        BY <1>1, <3>1 DEF LaidOut
      <4> QED
        BY <4>1, <4>2, PlantsWorth
    <3>2. CASE p \notin P
      BY <1>1, <3>2
    <3> QED
      BY <3>1, <3>2
  <2> QED
    BY <2>1
<1>3. Balanced(pl, sh, of, roster')
  BY <1>2, SameWorthBalance
<1> QED
  BY <1>1, <1>3, OfferQueenBalance

\* One place counts one for the champion it holds.
LEMMA CountOne ==
  ASSUME NEW t, NEW h, NEW c
  PROVE  CountIn({t}, h, c) = IF h[t] = c THEN 1 ELSE 0
<1>1. CASE h[t] = c
  <2>1. {u \in {t} : h[u] = c} = {t}
    BY <1>1
  <2> QED
    BY <1>1, <2>1, FS_Singleton DEF CountIn
<1>2. CASE h[t] # c
  BY <1>2, CountNone
<1> QED
  BY <1>1, <1>2

\* ShopManager::TryBuy: the copy goes from the slot into the roster.
LEMMA BuyBalance ==
  ASSUME Balanced(pool, shop, offers, roster), LaidOut(roster),
         NEW p \in Players, NEW k \in Slots, NEW c \in Champions \ Plants,
         c = shop[<<p, k>>], shop \in Shops
  PROVE  Balanced(pool, [shop EXCEPT ![<<p, k>>] = NoChampion], offers,
                  [roster EXCEPT ![p] = Add(@, level[p], c)])
<1> DEFINE All == Players \X Slots
           T   == {<<p, k>>}
           sh  == [shop EXCEPT ![<<p, k>>] = NoChampion]
           ns  == [roster EXCEPT ![p] = Add(@, level[p], c)]
<1>1. T \subseteq All /\ IsFiniteSet(All) /\ IsFiniteSet(All \ T) /\ IsFiniteSet(T)
  <2>1. T \subseteq All /\ IsFiniteSet(All)
    BY TokensFinite
  <2> QED
    BY <2>1, FS_Subset
<1>2. sh[<<p, k>>] = NoChampion /\ \A t \in All \ T : sh[t] = shop[t]
  BY DEF Shops
<1>3. roster[p] \in Rosters /\ NothingUnplaced(roster[p]) /\ NoLooseTriple(roster[p])
  BY DEF LaidOut, CheckInvariants
<1>4. ns[p] = Add(roster[p], level[p], c) /\ \A q \in Players \ {p} : ns[q] = roster[q]
  BY DEF LaidOut
<1> HIDE DEF sh, ns
<1>5. ASSUME NEW e \in Pooled
      PROVE  ShopCount(shop, e) = ShopCount(sh, e) + (IF e = c THEN 1 ELSE 0)
  <2>1. /\ ShopCount(shop, e) = CountIn(T, shop, e) + CountIn(All \ T, shop, e)
        /\ ShopCount(sh, e) = CountIn(T, sh, e) + CountIn(All \ T, sh, e)
    BY <1>1, CountSplit DEF ShopCount
  <2>2. CountIn(T, shop, e) = (IF e = c THEN 1 ELSE 0) /\ CountIn(T, sh, e) = 0
    <3>1. CountIn(T, shop, e) = IF shop[<<p, k>>] = e THEN 1 ELSE 0
      BY CountOne
    <3>2. CountIn(T, sh, e) = IF sh[<<p, k>>] = e THEN 1 ELSE 0
      BY CountOne
    <3>3. sh[<<p, k>>] # e
      BY <1>2, KindsFact
    <3> QED
      BY <3>1, <3>2, <3>3
  <2>3. CountIn(All \ T, shop, e) = CountIn(All \ T, sh, e)
    <3> DEFINE X == All \ T
    <3>1. \A t \in X : shop[t] = e <=> sh[t] = e
      BY <1>2
    <3> HIDE DEF X
    <3>2. CountIn(X, shop, e) = CountIn(X, sh, e)
      BY <3>1, CountSame
    <3> QED
      BY <3>2 DEF X
  <2>4. CountIn(All \ T, sh, e) \in Nat
    BY <1>1, CountType
  <2> HIDE DEF All, T
  <2> QED
    BY <2>1, <2>2, <2>3, <2>4
<1>6. ASSUME NEW e \in Pooled
      PROVE  UnitCount(ns, e) = UnitCount(roster, e) + (IF e = c THEN 1 ELSE 0)
  <2>1. Worth(ns[p], e) = Worth(roster[p], e) + (IF e = c THEN 1 ELSE 0)
    BY <1>3, <1>4, AddWorth
  <2>2. UnitCount(ns, e) = UnitCount(roster, e) - Worth(roster[p], e) + Worth(ns[p], e)
    <3> DEFINE X == roster
               Y == ns
    <3>1. \A q \in Players \ {p} : Y[q] = X[q]
      BY <1>4
    <3> HIDE DEF X, Y
    <3>2. UnitCount(Y, e) = UnitCount(X, e) - Worth(X[p], e) + Worth(Y[p], e)
      BY <3>1, SeatChange
    <3> QED
      BY <3>2 DEF X, Y
  <2>3. UnitCount(roster, e) \in Nat /\ Worth(roster[p], e) \in Nat
    BY CountsType, WorthType
  <2> QED
    BY <2>1, <2>2, <2>3
<1>7. \A e \in Pooled :
        /\ pool[e] \in Nat
        /\ ShopCount(shop, e) \in Nat /\ ShopCount(sh, e) \in Nat
        /\ OfferCount(offers, e) \in Nat /\ UnitCount(roster, e) \in Nat
        /\ pool[e] + (ShopCount(shop, e) + OfferCount(offers, e) + UnitCount(roster, e)) = InitialCopies[e]
  BY CountsType DEF Balanced
<1>8. ASSUME NEW e \in Pooled
      PROVE  pool[e] + (ShopCount(sh, e) + OfferCount(offers, e) + UnitCount(ns, e)) = InitialCopies[e]
  BY <1>5, <1>6, <1>7
<1>9. Balanced(pool, sh, offers, ns)
  BY <1>8 DEF Balanced
<1> QED
  BY <1>9 DEF sh, ns

\* The tokens of one unit number what it is worth.
LEMMA UnitTokensOfPlace ==
  ASSUME NEW rs \in [Players -> Rosters], NEW p \in Players, NEW x \in Places, NEW c
  PROVE  LET S == {t \in UnitTokens({p}, rs) : t[2] = x}
         IN  IsFiniteSet(S) /\ CountIn(S, UnitLabels(rs), c) = CellWorth(rs[p][x], c)
<1> DEFINE S == {t \in UnitTokens({p}, rs) : t[2] = x}
           X == {t \in S : UnitLabels(rs)[t] = c}
           n == CellWorth(rs[p][x], c)
           f == [k \in 1 .. n |-> <<p, x, k>>]
<1>1. {p} \in SUBSET Players /\ IsFiniteSet(UnitTokens({p}, rs))
  BY TokensFinite
<1>2. IsFiniteSet(S)
  BY <1>1, FS_Subset
<1>3. rs[p][x] \in Units \cup {Empty}
  BY DEF Rosters
<1>4. n \in 0 .. 9
  BY <1>3, CellWorthType
<1>5. \A k \in 1 .. n : f[k] \in X
  <2>1. ASSUME NEW k \in 1 .. n
        PROVE  <<p, x, k>> \in X
    <3>1. rs[p][x].champ = c /\ k <= CopiesForStarLevel(rs[p][x].star)
      BY <1>4 DEF CellWorth
    <3>2. <<p, x, k>> \in Players \X Places \X (1 .. 9)
      BY <1>4
    <3> DEFINE t == <<p, x, k>>
    <3>3. t[1] \in {p} /\ t[2] = x /\ rs[t[1]][t[2]].champ = c
          /\ t[3] <= CopiesForStarLevel(rs[t[1]][t[2]].star)
      BY <3>1
    <3> HIDE DEF t
    <3>4. t \in UnitTokens({p}, rs) /\ UnitLabels(rs)[t] = c
      BY <1>1, <3>2, <3>3, UnitTokenFact DEF t
    <3>5. t \in X
      BY <3>3, <3>4
    <3> QED
      BY <3>5 DEF t
  <2> QED
    BY <2>1
<1>6. \A t \in X : t[3] \in 1 .. n /\ t = <<p, x, t[3]>>
  <2>1. ASSUME NEW t \in X
        PROVE  t[3] \in 1 .. n /\ t = <<p, x, t[3]>>
    <3>1. /\ t \in Players \X Places \X (1 .. 9) /\ t[1] \in {p} /\ t[2] = x
          /\ t[3] <= CopiesForStarLevel(rs[t[1]][t[2]].star)
          /\ rs[t[1]][t[2]].champ = c
      BY <1>1, UnitTokenFact
    <3>2. t[1] = p /\ rs[p][x].champ = c /\ t[3] <= CopiesForStarLevel(rs[p][x].star)
      BY <3>1
    <3>3. t[3] <= n
      BY <3>2 DEF CellWorth
    <3> QED
      BY <1>4, <3>1, <3>2, <3>3
  <2> QED
    BY <2>1
<1>7. f \in Bijection(1 .. n, X)
  <2>1. f \in [1 .. n -> X]
    BY <1>5
  <2>2. \A j, k \in 1 .. n : f[j] = f[k] => j = k
    OBVIOUS
  <2>3. \A t \in X : t[3] \in 1 .. n /\ f[t[3]] = t
    BY <1>6
  <2> HIDE DEF f, X, n
  <2> QED
    BY <2>1, <2>2, <2>3 DEF Bijection, Injection, Surjection, IsInjective
<1>8. Cardinality(X) = n
  <2> HIDE DEF f, n, X
  <2>1. ExistsBijection(1 .. n, X)
    BY <1>7 DEF ExistsBijection
  <2> QED
    BY <1>4, <2>1, FS_CountingElements
<1> QED
  BY <1>2, <1>8 DEF CountIn

\* One player's roster changes, and only that player's share of the copies.
LEMMA SeatReplaced ==
  ASSUME NEW old \in [Players -> Rosters], NEW r \in Rosters, NEW seat \in Players, NEW e \in Pooled
  PROVE  UnitCount([old EXCEPT ![seat] = r], e)
           = UnitCount(old, e) - Worth(old[seat], e) + Worth(r, e)
<1> DEFINE now == [old EXCEPT ![seat] = r]
<1>1. now[seat] = r /\ \A q \in Players \ {seat} : now[q] = old[q]
  OBVIOUS
<1> HIDE DEF now
<1>2. UnitCount(now, e) = UnitCount(old, e) - Worth(old[seat], e) + Worth(now[seat], e)
  <2>1. \A q \in Players \ {seat} : now[q] = old[q]
    BY <1>1
  <2> QED
    BY ONLY <2>1, SeatChange
<1> QED
  BY <1>1, <1>2 DEF now

\* PlayerState::SellUnit: every copy the unit was merged from goes back.
LEMMA SellBalance ==
  ASSUME Balanced(pool, shop, offers, roster), LaidOut(roster),
         NEW p \in Players, NEW x \in Places
  PROVE  Balanced(Returned(pool, {t \in UnitTokens({p}, roster) : t[2] = x}, UnitLabels(roster)),
                  shop, offers, [roster EXCEPT ![p] = Removed(@, x)])
<1> DEFINE S  == {t \in UnitTokens({p}, roster) : t[2] = x}
           h  == UnitLabels(roster)
           ns == [roster EXCEPT ![p] = Removed(@, x)]
<1>1. IsFiniteSet(S) /\ \A c : CountIn(S, h, c) = CellWorth(roster[p][x], c)
  BY UnitTokensOfPlace DEF LaidOut
<1>2. roster[p] \in Rosters /\ ns[p] = Removed(roster[p], x)
      /\ \A q \in Players \ {p} : ns[q] = roster[q]
  BY DEF LaidOut
<1> HIDE DEF ns, S, h
<1>3. ASSUME NEW e \in Pooled
      PROVE  UnitCount(roster, e) = UnitCount(ns, e) + CountIn(S, h, e)
  <2>1. /\ ns[p] \in Rosters /\ ns[p][x] = Empty
        /\ \A y \in Places \ {x} : ns[p][y] = roster[p][y]
    BY <1>2 DEF Removed, Rosters
  <2>2. Worth(ns[p], e) = Worth(roster[p], e) - CellWorth(roster[p][x], e) + CellWorth(ns[p][x], e)
    BY <1>2, <2>1, CellChange
  <2>3. CellWorth(ns[p][x], e) = 0
    BY <2>1 DEF CellWorth, Empty, Unit, CopiesForStarLevel
  <2>4. UnitCount(ns, e) = UnitCount(roster, e) - Worth(roster[p], e) + Worth(ns[p], e)
    <3>1. Removed(roster[p], x) \in Rosters
      BY <1>2, <2>1
    <3> QED
      BY <1>2, <3>1, SeatReplaced DEF ns, LaidOut
  <2>5. CountIn(S, h, e) \in Nat /\ CountIn(S, h, e) = CellWorth(roster[p][x], e)
    BY <1>1, CountType
  <2>6. UnitCount(roster, e) \in Nat /\ UnitCount(ns, e) \in Nat
        /\ Worth(roster[p], e) \in Nat /\ Worth(ns[p], e) \in Nat
    BY CountsType, WorthType
  <2> QED
    BY <2>2, <2>3, <2>4, <2>5, <2>6
<1>4. \A c \in Pooled :
        /\ pool[c] \in Nat /\ InitialCopies[c] \in Nat /\ CountIn(S, h, c) \in Nat
        /\ ShopCount(shop, c) \in Nat /\ OfferCount(offers, c) \in Nat
        /\ UnitCount(roster, c) \in Nat /\ UnitCount(ns, c) \in Nat
        /\ pool[c] + (ShopCount(shop, c) + OfferCount(offers, c) + UnitCount(roster, c)) = InitialCopies[c]
  BY <1>1, CountType, CountsType, MatchAssumption DEF Balanced
<1>5. \A c \in Pooled : pool[c] + CountIn(S, h, c) <= InitialCopies[c]
  BY <1>3, <1>4
<1>6. /\ Returned(pool, S, h) \in [Pooled -> Nat]
      /\ \A c \in Pooled : Returned(pool, S, h)[c] = pool[c] + CountIn(S, h, c)
  BY <1>1, <1>5, ReturnedInFull DEF Balanced
<1>7. Balanced(Returned(pool, S, h), shop, offers, ns)
  BY <1>3, <1>4, <1>6 DEF Balanced
<1> QED
  BY <1>7 DEF S, h, ns

\* PlayerManager::EliminatePlayer: every unit of the players of D goes back.
LEMMA EliminateBalance ==
  ASSUME NEW pl, NEW sh, NEW of, NEW rs \in [Players -> Rosters], Balanced(pl, sh, of, rs),
         NEW D \in SUBSET Players
  PROVE  Balanced(Returned(pl, UnitTokens(D, rs), UnitLabels(rs)), sh, of,
                  [p \in Players |-> IF p \in D THEN EmptyRoster ELSE rs[p]])
<1> DEFINE S  == UnitTokens(D, rs)
           h  == UnitLabels(rs)
           ns == [p \in Players |-> IF p \in D THEN EmptyRoster ELSE rs[p]]
<1>1. IsFiniteSet(S)
  BY TokensFinite
<1>2. \A c : UnitCount(rs, c) = UnitCount(ns, c) + CountIn(S, h, c)
  BY SeatsEmptied
<1> HIDE DEF ns, S, h
<1>3. \A c \in Pooled :
        /\ pl[c] \in Nat /\ InitialCopies[c] \in Nat /\ CountIn(S, h, c) \in Nat
        /\ ShopCount(sh, c) \in Nat /\ OfferCount(of, c) \in Nat
        /\ UnitCount(rs, c) \in Nat /\ UnitCount(ns, c) \in Nat
        /\ pl[c] + (ShopCount(sh, c) + OfferCount(of, c) + UnitCount(rs, c)) = InitialCopies[c]
  BY <1>1, CountType, CountsType, MatchAssumption DEF Balanced
<1>4. \A c \in Pooled : pl[c] + CountIn(S, h, c) <= InitialCopies[c]
  BY <1>2, <1>3
<1>5. /\ Returned(pl, S, h) \in [Pooled -> Nat]
      /\ \A c \in Pooled : Returned(pl, S, h)[c] = pl[c] + CountIn(S, h, c)
  BY <1>1, <1>4, ReturnedInFull DEF Balanced
<1>6. Balanced(Returned(pl, S, h), sh, of, ns)
  BY <1>2, <1>3, <1>5 DEF Balanced
<1> QED
  BY <1>6 DEF S, h, ns

-----------------------------------------------------------------------------
(* The steps.  Beyond the balance itself, what is on offer must be known   *)
(* where a phase drops it: offers exist only while Mother Nature is there, *)
(* for the living who have not settled.                                    *)

OffersSettled ==
  /\ phase # "MotherNature" => offers = NoOffers
  /\ \A p \in Players, i \in Options : p \notin alive \/ p \in settled => offers[<<p, i>>] = NoChampion

BalanceInv == LayoutInv /\ Balanced(pool, shop, offers, roster) /\ OffersSettled

\* Opening a Planning phase, shops opened or closed, loses and makes no copy.
LEMMA EnterPlanningBalance ==
  ASSUME NEW rs, NEW lv, NEW pl, NEW of, LaidOut(rs), alive \subseteq Players,
         Balanced(pl, shop, of, rs), EnterPlanning(rs, lv, pl)
  PROVE  Balanced(pool', shop', of, roster')
<1>1. CASE IsShopClosed("Planning", round')
  <2> DEFINE T  == alive \X Slots
             sh == ClosedShop(alive, shop)
  <2>1. T \in SUBSET (Players \X Slots)
    OBVIOUS
  <2>2. /\ \A t \in (Players \X Slots) \ T : sh[t] = shop[t]
        /\ \A t \in T : sh[t] \notin Pooled
    BY KindsFact DEF ClosedShop
  <2>3. Balanced(Returned(pl, T, shop), sh, of, rs)
    BY <2>1, <2>2, ReleaseShops
  <2>4. AfterRosterChange(alive, rs, lv, sh, Returned(pl, T, shop))
    BY <1>1 DEF EnterPlanning
  <2> HIDE DEF T, sh
  <2> QED
    BY <2>3, <2>4, AfterRosterChangeBalance
<1>2. CASE ~ IsShopClosed("Planning", round')
  <2>1. PICK new \in ShopsAfter(Refreshing, shop) :
          /\ Refreshes(pl, Refreshing, shop, lv, new)
          /\ AfterRosterChange(alive, rs, lv, new, RefreshedPool(pl, Refreshing, shop, new))
    BY <1>2 DEF EnterPlanning
  <2>2. Refreshing \in SUBSET Players
    BY DEF Refreshing
  <2>3. \A t \in Players \X Slots : t[1] \notin Refreshing => new[t] = shop[t]
    BY <2>1 DEF ShopsAfter
  <2>4. Balanced(RefreshedPool(pl, Refreshing, shop, new), new, of, rs)
    BY <2>1, <2>2, <2>3, RefreshBalance
  <2> QED
    BY <2>1, <2>4, AfterRosterChangeBalance
<1> QED
  BY <1>1, <1>2

\* Beginning a round, with gifts put on offer or not, loses and makes no copy.
LEMMA BeginRoundBalance ==
  ASSUME NEW rs, NEW pl, LaidOut(rs), alive \subseteq Players, alive' = alive,
         offers = NoOffers, OffersSettled, Balanced(pl, shop, offers, rs), BeginRound(rs, pl)
  PROVE  Balanced(pool', shop', offers', roster') /\ OffersSettled'
<1>1. PICK lv \in [Players -> Levels] :
        IF IsGiftRound(round') THEN EnterMotherNature(rs, lv, pl)
        ELSE EnterPlanning(rs, lv, pl) /\ UNCHANGED <<offers, settled>>
  BY DEF BeginRound, RisenLevels
<1>2. CASE IsGiftRound(round')
  <2>1. EnterMotherNature(rs, lv, pl)
    BY <1>1, <1>2
  <2>2. /\ pool' = Drawn(pl, Players \X Options, offers') /\ shop' = shop /\ roster' = rs
        /\ \A t \in Players \X Options :
             offers'[t] \in Pooled =>
               offers'[t] \in Drawable(Drawn(pl, {u \in Players \X Options : Before(u, t)}, offers'), {})
    BY <2>1 DEF EnterMotherNature
  <2>3. Balanced(pool', shop', offers', roster')
    <3> DEFINE of == offers'
    <3>1. \A t \in Players \X Options :
            of[t] \in Pooled =>
              of[t] \in Drawable(Drawn(pl, {u \in Players \X Options : Before(u, t)}, of), {})
      BY <2>2
    <3> HIDE DEF of
    <3>2. Balanced(Drawn(pl, Players \X Options, of), shop, of, rs)
      BY <3>1, OfferedBalance
    <3> QED
      BY <2>2, <3>2 DEF of
  <2>4. ASSUME NEW p \in Players, NEW i \in Options, p \notin alive' \/ p \in settled'
        PROVE  offers'[<<p, i>>] = NoChampion
    <3> DEFINE t == <<p, i>>
    <3>1. t \in Players \X Options /\ t[1] = p /\ t[2] = i /\ 1 \in 1 .. i
      BY DEF Options
    <3>2. /\ t[1] \notin alive => offers'[t] = NoChampion
          /\ offers'[t] # NoChampion => offers'[<<t[1], 1>>] # NoChampion
      BY <2>1, <3>1 DEF EnterMotherNature
    <3>3. p \in settled' => offers'[<<p, 1>>] = NoChampion
      BY <2>1 DEF EnterMotherNature
    <3> HIDE DEF t
    <3>4. offers'[t] = NoChampion
      BY <2>4, <3>1, <3>2, <3>3
    <3> QED
      BY <3>4 DEF t
  <2>5. phase' = "MotherNature"
    BY <2>1 DEF EnterMotherNature
  <2> QED
    BY <2>3, <2>4, <2>5 DEF OffersSettled
<1>3. CASE ~ IsGiftRound(round')
  <2>1. EnterPlanning(rs, lv, pl) /\ offers' = offers /\ settled' = settled
    BY <1>1, <1>3
  <2>2. Balanced(pool', shop', offers, roster')
    BY <2>1, EnterPlanningBalance
  <2>3. OffersSettled'
    BY <2>1 DEF OffersSettled, NoOffers
  <2> QED
    BY <2>1, <2>2, <2>3
<1> QED
  BY <1>2, <1>3

\* A player's call loses and makes no copy.
LEMMA PlayerBalance ==
  ASSUME BalanceInv, NEW p \in Players, PlayerAction(p)
  PROVE  BalanceInv'
<1>1. /\ LaidOut(roster) /\ shop \in Shops /\ {p} \in SUBSET Players /\ roster[p] \in Rosters
      /\ Balanced(pool, shop, offers, roster) /\ OffersSettled
  BY DEF BalanceInv, LayoutInv, RosterLayouts, Shape, LaidOut
<1>2. LayoutInv'
  BY PlayerLayout DEF BalanceInv
<1>3. ASSUME ClockUnchanged, Balanced(pool', shop', offers, roster')
      PROVE  BalanceInv'
  BY <1>1, <1>2, <1>3 DEF BalanceInv, ClockUnchanged, OffersSettled, NoOffers
<1>4. CASE TryRerollShop(p)
  <2>1. PICK new \in ShopsAfter({p}, shop) :
          /\ Refreshes(pool, {p}, shop, level, new)
          /\ OfferQueen({p}, roster, level, new, RefreshedPool(pool, {p}, shop, new))
    BY <1>4 DEF TryRerollShop
  <2>2. \A t \in Players \X Slots : t[1] \notin {p} => new[t] = shop[t]
    BY <2>1 DEF ShopsAfter
  <2>3. Balanced(RefreshedPool(pool, {p}, shop, new), new, offers, roster)
    BY <1>1, <2>1, <2>2, RefreshBalance
  <2>4. Balanced(pool', shop', offers, roster)
    BY <1>1, <2>1, <2>3, OfferQueenBalance
  <2> QED
    BY <1>3, <1>4, <2>4 DEF TryRerollShop
<1>5. ASSUME NEW k \in Slots, TryBuyShopUnit(p, k)
      PROVE  BalanceInv'
  <2> DEFINE c  == shop[<<p, k>>]
             sh == [shop EXCEPT ![<<p, k>>] = NoChampion]
             ns == [roster EXCEPT ![p] = Add(@, level[p], c)]
  <2>1. c \in Champions \ Plants /\ CanAdd(roster[p], level[p], c)
    BY <1>1, <1>5, KindsFact DEF TryBuyShopUnit, CanAcquire, Shops
  <2>2. Balanced(pool, sh, offers, ns)
    BY <1>1, <2>1, BuyBalance
  <2>3. LaidOut(ns)
    BY <1>1, <2>1, AddType, AddLayout DEF LaidOut
  <2>4. AfterRosterChange({p}, ns, level, sh, pool)
    BY <1>5 DEF TryBuyShopUnit
  <2> HIDE DEF ns, sh
  <2>5. Balanced(pool', shop', offers, roster')
    BY <1>1, <2>2, <2>3, <2>4, AfterRosterChangeBalance
  <2> QED
    BY <1>3, <1>5, <2>5 DEF TryBuyShopUnit
<1>6. CASE TrySetShopLock(p)
  BY <1>1, <1>3, <1>6 DEF TrySetShopLock
<1>7. CASE TryBuyXp(p)
  BY <1>1, <1>3, <1>7 DEF TryBuyXp
<1>8. ASSUME NEW x \in Cells, TrySellUnit(p, x)
      PROVE  BalanceInv'
  <2> DEFINE ns   == [roster EXCEPT ![p] = Removed(@, x)]
             back == Returned(pool, {t \in UnitTokens({p}, roster) : t[2] = x}, UnitLabels(roster))
  <2>1. x \in Places
    BY PlacesFact
  <2>2. Balanced(back, shop, offers, ns)
    BY <1>1, <2>1, SellBalance
  <2>3. LaidOut(ns)
    <3> DEFINE new == Removed(roster[p], x)
    <3>1. CheckInvariants(roster[p])
      BY <1>1 DEF LaidOut
    <3>2. \A z \in Places : new[z] = roster[p][z] \/ new[z] = Empty
      BY <1>1 DEF Removed, Rosters
    <3>3. new \in Rosters
      BY <1>1, RemovedType
    <3>4. CheckInvariants(new)
      BY <1>1, <3>1, <3>2, <3>3, ReplacedLayout
    <3>5. ns = [roster EXCEPT ![p] = new]
      BY <1>1 DEF LaidOut
    <3> HIDE DEF new, ns
    <3> QED
      BY <1>1, <3>3, <3>4, <3>5 DEF LaidOut
  <2>4. AfterRosterChange({p}, ns, level, shop, back)
    BY <1>8 DEF TrySellUnit
  <2> HIDE DEF ns, back
  <2>5. Balanced(pool', shop', offers, roster')
    BY <1>1, <2>2, <2>3, <2>4, AfterRosterChangeBalance
  <2> QED
    BY <1>3, <1>8, <2>5 DEF TrySellUnit
<1>9. ASSUME NEW x \in Cells, NEW y \in Cells, TryMoveUnit(p, x, y)
      PROVE  BalanceInv'
  <2> DEFINE new == Moved(roster[p], x, y)
             ns  == [roster EXCEPT ![p] = Moved(@, x, y)]
  <2>1. ns = [roster EXCEPT ![p] = new] /\ x \in Places /\ y \in Places
    BY <1>1, PlacesFact DEF LaidOut
  <2>2. new \in Rosters /\ CheckInvariants(new)
    <3>1. CheckInvariants(roster[p])
      BY <1>1 DEF LaidOut
    <3>2. CASE CanMove(roster[p], level[p], x, y)
      BY <1>1, <2>1, <3>1, <3>2, MovedType, MovedLayout
    <3>3. CASE x = y
      BY <1>1, <2>1, <3>1, <3>3, MovedInPlace
    <3> QED
      BY <1>9, <3>2, <3>3 DEF TryMoveUnit
  <2>3. \A c \in Pooled : Worth(new, c) = Worth(roster[p], c)
    <3>1. CASE x # y
      BY <1>1, <2>1, <3>1, MovedWorth
    <3>2. CASE x = y
      BY <1>1, <2>1, <3>2, MovedInPlace
    <3> QED
      BY <3>1, <3>2
  <2>4. AfterRosterChange({p}, ns, level, shop, pool)
    BY <1>9 DEF TryMoveUnit
  <2> HIDE DEF new, ns
  <2>5. LaidOut(ns) /\ ns[p] = new /\ \A q \in Players \ {p} : ns[q] = roster[q]
    BY <1>1, <2>1, <2>2 DEF LaidOut
  <2>6. \A c \in Pooled, q \in Players : Worth(ns[q], c) = Worth(roster[q], c)
    BY <2>3, <2>5
  <2>7. Balanced(pool, shop, offers, ns)
    BY <1>1, <2>6, SameWorthBalance
  <2>8. Balanced(pool', shop', offers, roster')
    BY <1>1, <2>4, <2>5, <2>7, AfterRosterChangeBalance
  <2> QED
    BY <1>3, <1>9, <2>8 DEF TryMoveUnit
<1>10. ASSUME NEW i \in Options, TryPickGift(p, i)
       PROVE  BalanceInv'
  <2> DEFINE pick == [q \in {p} |-> i]
             of == [t \in Players \X Options |-> IF t[1] = p THEN NoChampion ELSE offers[t]]
  <2>1. \A t \in Players \X Options : IF t[1] \in {p} THEN of[t] \notin Pooled ELSE of[t] = offers[t]
    BY KindsFact
  <2>2. pick \in [{p} -> Options]
    OBVIOUS
  <2>3. /\ offers' = of /\ settled' = settled \cup {p} /\ shop' = shop /\ phase' = phase
        /\ alive' = alive /\ phase = "MotherNature"
        /\ pool' = GiftPool({p}, pick) /\ roster' = GiftRoster({p}, pick)
    BY <1>10 DEF TryPickGift
  <2>4. OffersSettled'
    BY <1>1, <2>3 DEF OffersSettled
  <2> HIDE DEF pick, of
  <2>5. Balanced(pool', shop', offers', roster')
    BY <1>1, <2>1, <2>2, <2>3, PickBalance
  <2> QED
    BY <1>2, <2>4, <2>5 DEF BalanceInv
<1> QED
  BY <1>4, <1>5, <1>6, <1>7, <1>8, <1>9, <1>10 DEF PlayerAction

\* A trait's unit is no pool copy.
LEMMA GivenHeraldBalance ==
  ASSUME NEW pl, NEW sh, NEW of, NEW rs, Balanced(pl, sh, of, rs), LaidOut(rs),
         NEW gifted \in SUBSET Players
  PROVE  Balanced(pl, sh, of, GivenHerald(rs, gifted)) /\ GivenHerald(rs, gifted) \in [Players -> Rosters]
<1> DEFINE ns == GivenHerald(rs, gifted)
<1>1. \A p \in Players : ns[p] = IF p \in gifted THEN Add(rs[p], level[p], Herald) ELSE rs[p]
  BY DEF GivenHerald
<1>2. \A p \in Players :
        /\ rs[p] \in Rosters /\ NothingUnplaced(rs[p]) /\ NoLooseTriple(rs[p])
  BY DEF LaidOut, CheckInvariants
<1>3. Herald \in Champions \ Plants /\ Herald \notin Pooled
  BY MatchAssumption
<1>4. ns \in [Players -> Rosters]
  BY <1>2, <1>3, AddType DEF GivenHerald
<1> HIDE DEF ns
<1>5. \A c \in Pooled, p \in Players : Worth(ns[p], c) = Worth(rs[p], c)
  <2>1. ASSUME NEW c \in Pooled, NEW p \in Players
        PROVE  Worth(ns[p], c) = Worth(rs[p], c)
    <3>1. CASE p \in gifted
      <4>1. ns[p] = Add(rs[p], level[p], Herald)
        BY <1>1, <3>1
      <4>2. Worth(Add(rs[p], level[p], Herald), c)
              = Worth(rs[p], c) + (IF c = Herald THEN 1 ELSE 0)
        BY <1>2, <1>3, AddWorth
      <4>3. c # Herald /\ Worth(rs[p], c) \in Nat
        BY <1>2, <1>3, WorthType
      <4> QED
        BY <4>1, <4>2, <4>3
    <3>2. CASE p \notin gifted
      BY <1>1, <3>2
    <3> QED
      BY <3>1, <3>2
  <2> QED
    BY <2>1
<1>6. Balanced(pl, sh, of, ns)
  BY <1>5, SameWorthBalance
<1> QED
  BY <1>4, <1>6 DEF ns

\* The fights' outcome: loot and the traits' units come in, the dying give all back.
LEMMA EndCombatBalance ==
  ASSUME BalanceInv, EndCombat
  PROVE  Balanced(pool', shop', offers', roster') /\ OffersSettled'
<1>1. /\ LaidOut(roster) /\ shop \in Shops /\ alive \subseteq Players
      /\ Balanced(pool, shop, offers, roster) /\ OffersSettled
  BY DEF BalanceInv, LayoutInv, RosterLayouts, Shape, LaidOut
<1>2. PICK dying \in SUBSET alive, d \in [Players -> Pooled \cup {NoChampion}],
           gifted \in SUBSET (alive \ heralded) :
        /\ DealtFrom(IF round \in PveRounds THEN alive ELSE {}, d)
        /\ roster' = [p \in Players |-> IF p \in dying THEN EmptyRoster
                                      ELSE GivenHerald(DealtRoster(d), gifted)[p]]
        /\ pool' = Eliminated(dying, GivenHerald(DealtRoster(d), gifted), DealtPool(d))
        /\ shop' = ClosedShop(dying, shop)
        /\ alive' = alive \ dying
  BY DEF EndCombat
<1>3. Balanced(DealtPool(d), shop, offers, DealtRoster(d)) /\ LaidOut(DealtRoster(d))
  BY <1>1, <1>2, DealBalance, DealtLayout
<1> DEFINE rs == GivenHerald(DealtRoster(d), gifted)
           T  == dying \X Slots
           sh == ClosedShop(dying, shop)
           pl == Returned(DealtPool(d), T, shop)
<1>4. Balanced(DealtPool(d), shop, offers, rs) /\ rs \in [Players -> Rosters]
  BY <1>1, <1>3, GivenHeraldBalance
<1>5. T \in SUBSET (Players \X Slots) /\ dying \in SUBSET Players
  BY <1>1
<1>6. /\ \A t \in (Players \X Slots) \ T : sh[t] = shop[t]
      /\ \A t \in T : sh[t] \notin Pooled
  BY <1>5, KindsFact DEF ClosedShop
<1>7. pool' = Returned(pl, UnitTokens(dying, rs), UnitLabels(rs))
  BY <1>2 DEF Eliminated
<1> HIDE DEF rs, T, sh
<1>8. Balanced(pl, sh, offers, rs)
  BY <1>4, <1>5, <1>6, ReleaseShops
<1> HIDE DEF pl
<1>9. Balanced(pool', sh, offers, [p \in Players |-> IF p \in dying THEN EmptyRoster ELSE rs[p]])
  BY <1>4, <1>5, <1>7, <1>8, EliminateBalance
<1>10. Balanced(pool', shop', offers', roster')
  BY <1>2, <1>9 DEF sh, rs, EndCombat
<1>11. OffersSettled'
  BY <1>1 DEF EndCombat, OffersSettled, NoOffers
<1> QED
  BY <1>10, <1>11

\* A phase change loses and makes no copy.
LEMMA PhaseBalance ==
  ASSUME BalanceInv, Start \/ EndMotherNature \/ StartCombat \/ EndCombat \/ EndRound \/ EndMatch
  PROVE  BalanceInv'
<1>1. /\ LaidOut(roster) /\ shop \in Shops /\ alive \subseteq Players
      /\ Balanced(pool, shop, offers, roster) /\ OffersSettled
  BY DEF BalanceInv, LayoutInv, RosterLayouts, Shape, LaidOut
<1>2. LayoutInv'
  BY PhaseLayout DEF BalanceInv
<1>3. ASSUME Balanced(pool', shop', offers', roster'), OffersSettled' PROVE BalanceInv'
  BY <1>2, <1>3 DEF BalanceInv
<1>4. CASE Start
  <2>1. PICK d : DealtFrom(alive, d) /\ BeginRound(DealtRoster(d), DealtPool(d))
    BY <1>4 DEF Start
  <2>2. Balanced(DealtPool(d), shop, offers, DealtRoster(d)) /\ LaidOut(DealtRoster(d))
    BY <1>1, <2>1, DealBalance, DealtLayout
  <2>3. offers = NoOffers /\ alive' = alive
    BY <1>1, <1>4 DEF Start, OffersSettled
  <2> QED
    BY <1>1, <1>3, <2>1, <2>2, <2>3, BeginRoundBalance
<1>5. CASE EndMotherNature
  <2> DEFINE late  == alive \ settled
             first == [p \in late |-> 1]
  <2>1. PICK lv : EnterPlanning(GiftRoster(late, first), lv, GiftPool(late, first))
    BY <1>5 DEF EndMotherNature
  <2>2. /\ late \in SUBSET Players
        /\ first \in [late -> Options]
    BY <1>1, MatchAssumption DEF Options
  <2>3. \A t \in Players \X Options : IF t[1] \in late THEN NoOffers[t] \notin Pooled
                                     ELSE NoOffers[t] = offers[t]
    <3>1. \A p \in Players, i \in Options : p \notin late => offers[<<p, i>>] = NoChampion
      BY <1>1 DEF OffersSettled
    <3> QED
      BY <3>1, KindsFact DEF NoOffers
  <2>4. LaidOut(GiftRoster(late, first))
    BY <1>1, GiftLayout
  <2>5. offers' = NoOffers /\ phase' = "Planning"
    BY <1>5, <2>1 DEF EndMotherNature, EnterPlanning
  <2> HIDE DEF late, first
  <2>6. Balanced(GiftPool(late, first), shop, NoOffers, GiftRoster(late, first))
    BY <1>1, <2>2, <2>3, PickBalance
  <2>7. Balanced(pool', shop', NoOffers, roster')
    BY <1>1, <2>1, <2>4, <2>6, EnterPlanningBalance
  <2>8. OffersSettled'
    BY <2>5 DEF OffersSettled, NoOffers
  <2> QED
    BY <1>3, <2>5, <2>7, <2>8
<1>6. CASE StartCombat
  <2>1. OffersSettled'
    BY <1>1, <1>6 DEF StartCombat, OffersSettled, NoOffers
  <2> QED
    BY <1>1, <1>3, <1>6, <2>1 DEF StartCombat
<1>7. CASE EndCombat
  BY <1>3, <1>7, EndCombatBalance
<1>8. CASE EndRound
  <2>1. offers = NoOffers /\ alive' = alive /\ BeginRound(roster, pool)
    BY <1>1, <1>8 DEF EndRound, OffersSettled
  <2> QED
    BY <1>1, <1>3, <2>1, BeginRoundBalance
<1>9. CASE EndMatch
  <2>1. OffersSettled'
    BY <1>1, <1>9 DEF EndMatch, OffersSettled, NoOffers
  <2> QED
    BY <1>1, <1>3, <1>9, <2>1 DEF EndMatch
<1> QED
  BY <1>4, <1>5, <1>6, <1>7, <1>8, <1>9

\* A match starts with every copy in the pool.
LEMMA InitBalance == Init => BalanceInv
<1> SUFFICES ASSUME Init PROVE BalanceInv
  OBVIOUS
<1>1. LayoutInv /\ OffersSettled
  BY InitLayout DEF Init, OffersSettled, NoOffers
<1>2. ASSUME NEW c \in Pooled
      PROVE  ShopCount(shop, c) = 0 /\ OfferCount(offers, c) = 0 /\ UnitCount(roster, c) = 0
  <2>1. c # NoChampion
    BY KindsFact
  <2>2. (\A t \in Players \X Slots : shop[t] # c) /\ (\A t \in Players \X Options : offers[t] # c)
    BY <2>1 DEF Init, NoOffers
  <2>3. \A t \in UnitTokens(Players, roster) : UnitLabels(roster)[t] # c
    <3>1. ASSUME NEW t \in UnitTokens(Players, roster)
          PROVE  UnitLabels(roster)[t] # c
      <4>1. /\ t \in Players \X Places \X (1 .. 9)
            /\ UnitLabels(roster)[t] = roster[t[1]][t[2]].champ
        BY UnitTokenFact
      <4>2. t[1] \in Players /\ t[2] \in Places
        BY <4>1
      <4>3. roster[t[1]][t[2]] = Empty
        BY <4>2 DEF Init, EmptyRoster
      <4> QED
        BY <2>1, <4>1, <4>3 DEF Empty, Unit
    <3> QED
      BY <3>1
  <2> QED
    BY <2>2, <2>3, CountNone DEF ShopCount, OfferCount, UnitCount
<1>3. \A c \in Pooled : pool[c] \in Nat /\ pool[c] = InitialCopies[c]
  BY MatchAssumption DEF Init
<1>4. pool \in [Pooled -> Nat]
  BY MatchAssumption DEF Init
<1> QED
  BY <1>1, <1>2, <1>3, <1>4 DEF BalanceInv, Balanced

\* In every match, whatever the players do and however it ends for each of them, the
\* copies of every champion in the pool, in the shops, on offer and merged into units
\* add up to what the match started with (MatchManager::VerifyPoolIntegrity).
THEOREM PoolIntegrityKept == Spec => []PoolIntegrity
<1>1. Init => BalanceInv
  BY InitBalance
<1>2. BalanceInv /\ [Next]_vars => BalanceInv'
  <2>1. CASE UNCHANGED vars
    BY <2>1 DEF vars, BalanceInv, LayoutInv, Shape, RosterLayouts, OffersSettled, NoOffers
  <2>2. CASE Next
    BY <2>2, PlayerBalance, PhaseBalance DEF Next
  <2> QED
    BY <2>1, <2>2
<1>3. BalanceInv => PoolIntegrity
  BY DEF BalanceInv, Balanced, PoolIntegrity, Held, ShopCount, OfferCount, UnitCount
<1> QED
  BY <1>1, <1>2, <1>3, PTL DEF Spec

-----------------------------------------------------------------------------
(***************************************************************************)
(* What a player may hold: the eliminated nothing, the living no gated     *)
(* champion they have not unlocked and at most one Queen; and that a fight *)
(* in progress leaves every board alone.                                   *)
(***************************************************************************)

(***************************************************************************)
(* The three promises as one statement about rosters rs and shops sh, when *)
(* the players of A are alive and un names the champions each unlocked: so *)
(* that it can be carried through the parts an action is made of.  Were    *)
(* the Queen also the unit a trait grants, a player could have two of her. *)
(***************************************************************************)
DeadHoldNone(A, rs, sh) ==
  \A p \in Players \ A : rs[p] = EmptyRoster /\ \A k \in Slots : sh[<<p, k>>] = NoChampion

LockedOut(un, rs, sh) ==
  \A p \in Players : \A c \in Gated \ un[p] :
    ~ Owns(rs[p], c) /\ \A k \in Slots : sh[<<p, k>>] # c

\* Between a player's roster and shop the Queen stands in one place at most.
QueenOnce(r, s) ==
  /\ \A x, y \in Places : r[x].champ = Queen /\ r[y].champ = Queen => x = y
  /\ \A k, l \in Slots : s[k] = Queen /\ s[l] = Queen => k = l
  /\ \A x \in Places, k \in Slots : ~ (r[x].champ = Queen /\ s[k] = Queen)

ShopOf(sh, p) == [k \in Slots |-> sh[<<p, k>>]]

Proper(un, A, rs, sh) ==
  /\ DeadHoldNone(A, rs, sh)
  /\ LockedOut(un, rs, sh)
  /\ Queen # Herald => \A p \in Players : QueenOnce(rs[p], ShopOf(sh, p))
-----------------------------------------------------------------------------
(* What one roster operation does to what a roster owns.                   *)

\* Add only ever empties a place or puts the added champion on it.
LEMMA AddTouches ==
  ASSUME NEW r, NEW cap, NEW c, NEW x \in Places, r \in Rosters
  PROVE  LET a == Add(r, cap, c)[x] IN a = r[x] \/ a = Empty \/ a.champ = c
<1> DEFINE p  == Placed(r, cap, c)
           m1 == MergeOnce(p, c, 1)
           Touched(u, v) == u = v \/ u = Empty \/ u.champ = c
<1>1. Touched(p[x], r[x])
  BY DEF Placed, Unit, Rosters
<1>2. ASSUME NEW q, NEW s
      PROVE  Touched(MergeOnce(q, c, s)[x], q[x])
  BY DEF MergeOnce, Unit
<1>3. Touched(m1[x], p[x]) /\ Touched(MergeOnce(m1, c, 2)[x], m1[x])
  BY <1>2
<1> HIDE DEF p, m1
<1>4. Touched(MergeOnce(m1, c, 2)[x], r[x])
  BY <1>1, <1>3
<1> QED
  BY <1>4 DEF Add, p, m1

\* A champion nobody on the roster is yet takes one place when it is added.
LEMMA AddFirst ==
  ASSUME NEW r \in Rosters, NEW cap, NEW c \in Champions, NothingUnplaced(r), ~ Owns(r, c)
  PROVE  \A x, y \in Places : Add(r, cap, c)[x].champ = c /\ Add(r, cap, c)[y].champ = c => x = y
<1> DEFINE p  == Placed(r, cap, c)
           q  == FirstFree(r, cap)
           m1 == MergeOnce(p, c, 1)
           K(rr, s) == Cardinality(CopiesAt(rr, c, s))
<1>1. /\ p \in Rosters /\ q \in Places
      /\ CopiesAt(p, c, 1) = CopiesAt(r, c, 1) \cup {q}
      /\ c # c \/ 2 # 1 => CopiesAt(p, c, 2) = CopiesAt(r, c, 2)
      /\ \A x \in Places : p[x] = IF x = q THEN Unit(c, 1) ELSE r[x]
  <2>1. 2 \in 1 .. 3
    OBVIOUS
  <2> QED
    BY <2>1, PlacedType, PlacedCopies
<1>2. \A s : CopiesAt(r, c, s) = {}
  BY DEF CopiesAt, Owns, Unit
<1>3. CopiesAt(p, c, 1) = {q} /\ CopiesAt(p, c, 2) = {}
  BY <1>1, <1>2
<1> HIDE DEF p, q
<1>4. K(p, 1) = 1 /\ K(p, 2) = 0
  BY <1>3, FS_Singleton, FS_EmptySet
<1>5. m1 = p
  <2>1. K(p, 1) <= 2
    BY <1>4
  <2> QED
    BY <1>1, <2>1, NoMerge
<1>6. MergeOnce(p, c, 2) = p
  <2>1. K(p, 2) <= 2
    BY <1>4
  <2> QED
    BY <1>1, <2>1, NoMerge
<1>7. Add(r, cap, c) = p
  BY <1>5, <1>6 DEF Add, p
<1>8. \A x \in Places : p[x].champ = c => x = q
  BY <1>1 DEF Owns
<1> QED
  BY <1>7, <1>8

\* SyncPlants puts only plants on a roster, on hexes of its own or free ones.
LEMMA PlantsOnly ==
  ASSUME NEW r \in Rosters, NEW S \in SyncedHexes(r), NEW x \in Places
  PROVE  LET a == WithPlants(r, S)[x] IN a = r[x] \/ a = Empty \/ a.champ \in Plants
<1>1. CASE x \in S /\ x \notin PlantHexes(r)
  <2>1. (CHOOSE c \in Plants : TRUE) \in Plants
    BY <1>1, PlantsToGrow
  <2> QED
    BY <1>1, <2>1 DEF WithPlants, Unit
<1>2. CASE ~ (x \in S /\ x \notin PlantHexes(r))
  BY <1>2 DEF WithPlants
<1> QED
  BY <1>1, <1>2
-----------------------------------------------------------------------------
(* What the steps several actions share do to it.                          *)

\* Replacing units by nothing, or by champions open to the player and not the Queen,
\* keeps what a player holds proper.
LEMMA RostersProper ==
  ASSUME NEW un, NEW A, NEW rs, NEW sh, Proper(un, A, rs, sh), NEW ns,
         NEW D \in [Players -> SUBSET Champions],
         \A p \in Players \ A : ns[p] = rs[p],
         \A p \in Players, x \in Places :
           ns[p][x] = rs[p][x] \/ ns[p][x] = Empty \/ ns[p][x].champ \in D[p],
         \A p \in Players : (Queen # Herald => Queen \notin D[p]) /\ D[p] \cap Gated \subseteq un[p]
  PROVE  Proper(un, A, ns, sh)
<1>1. DeadHoldNone(A, ns, sh)
  BY DEF Proper, DeadHoldNone
<1>2. ASSUME NEW p \in Players, NEW c \in Champions \ D[p]
      PROVE  \A x \in Places : ns[p][x].champ = c => rs[p][x].champ = c
  <2>1. \A x \in Places : ns[p][x] = rs[p][x] \/ ns[p][x] = Empty \/ ns[p][x].champ \in D[p]
    OBVIOUS
  <2>2. c \in Champions /\ c \notin D[p]
    OBVIOUS
  <2> QED
    BY <2>1, <2>2, RosterAssumption DEF Empty, Unit
<1>3. Gated \subseteq Champions /\ Queen \in Champions
  BY MatchAssumption
<1>4. LockedOut(un, ns, sh)
  <2> SUFFICES ASSUME NEW p \in Players, NEW c \in Gated \ un[p]
               PROVE  ~ Owns(ns[p], c) /\ \A k \in Slots : sh[<<p, k>>] # c
    BY DEF LockedOut
  <2>1. c \in Champions \ D[p]
    BY <1>3
  <2>2. ~ Owns(rs[p], c) /\ \A k \in Slots : sh[<<p, k>>] # c
    BY DEF Proper, LockedOut
  <2> QED
    BY <1>2, <2>1, <2>2 DEF Owns
<1>5. ASSUME NEW p \in Players, Queen # Herald
      PROVE  QueenOnce(ns[p], ShopOf(sh, p))
  <2>1. \A x \in Places : ns[p][x].champ = Queen => rs[p][x].champ = Queen
    BY <1>2, <1>3, <1>5
  <2>2. QueenOnce(rs[p], ShopOf(sh, p))
    BY <1>5 DEF Proper
  <2> QED
    BY <2>1, <2>2 DEF QueenOnce
<1> QED
  BY <1>1, <1>4, <1>5 DEF Proper

\* What more is unlocked closes nothing.
LEMMA MoreUnlocked ==
  ASSUME NEW un, NEW vn, NEW A, NEW rs, NEW sh, Proper(un, A, rs, sh),
         \A p \in Players : un[p] \subseteq vn[p]
  PROVE  Proper(vn, A, rs, sh)
BY DEF Proper, LockedOut

\* OfferSpecial puts the Queen only in shops of living players who have her nowhere.
LEMMA OfferQueenProper ==
  ASSUME NEW un, NEW A, NEW P \in SUBSET A, NEW rs, NEW lv, NEW sh, NEW pl,
         Proper(un, A, rs, sh), OfferQueen(P, rs, lv, sh, pl)
  PROVE  Proper(un, A, rs, shop')
<1>1. PICK due \in SUBSET P :
        /\ \A p \in due : QueenDue(p, rs[p], lv[p], sh)
        /\ shop' = [t \in Players \X Slots |-> IF t \in due \X {1} THEN Queen ELSE sh[t]]
  BY DEF OfferQueen
<1>2. \A p \in Players, k \in Slots :
        shop'[<<p, k>>] = IF p \in due /\ k = 1 THEN Queen ELSE sh[<<p, k>>]
  BY <1>1
<1>3. Queen \notin Gated
  BY MatchAssumption
<1>4. DeadHoldNone(A, rs, shop')
  BY <1>1, <1>2 DEF Proper, DeadHoldNone
<1>5. LockedOut(un, rs, shop')
  BY <1>2, <1>3 DEF Proper, LockedOut
<1>6. ASSUME NEW p \in Players, Queen # Herald
      PROVE  QueenOnce(rs[p], ShopOf(shop', p))
  <2>1. QueenOnce(rs[p], ShopOf(sh, p))
    BY <1>6 DEF Proper
  <2>2. CASE p \in due
    <3>1. ~ Owns(rs[p], Queen) /\ \A k \in Slots : sh[<<p, k>>] # Queen
      BY <1>1, <2>2 DEF QueenDue
    <3> QED
      BY <1>2, <3>1 DEF QueenOnce, ShopOf, Owns
  <2>3. CASE p \notin due
    BY <1>2, <2>1, <2>3 DEF QueenOnce, ShopOf
  <2> QED
    BY <2>2, <2>3
<1> QED
  BY <1>4, <1>5, <1>6 DEF Proper

\* CheckUnlocks only ever unlocks.
LEMMA UnlocksGrow ==
  ASSUME NEW P, NEW rs, NEW lv, CheckUnlocks(P, rs, lv)
  PROVE  \A p \in Players : unlocked[p] \subseteq unlocked'[p]
BY DEF CheckUnlocks

\* The triggers of a roster change keep what everybody holds proper.
LEMMA AfterRosterChangeProper ==
  ASSUME NEW A \in SUBSET Players, NEW P \in SUBSET A, NEW rs, NEW lv, NEW sh, NEW pl,
         LaidOut(rs), Proper(unlocked, A, rs, sh), AfterRosterChange(P, rs, lv, sh, pl)
  PROVE  Proper(unlocked', A, roster', shop')
<1>1. PICK hexes \in [P -> SUBSET Board] :
        /\ \A p \in P : hexes[p] \in SyncedHexes(rs[p])
        /\ roster' = [p \in Players |-> IF p \in P THEN WithPlants(rs[p], hexes[p]) ELSE rs[p]]
        /\ OfferQueen(P, roster', lv, sh, pl)
        /\ CheckUnlocks(P, roster', lv)
  BY DEF AfterRosterChange
<1> DEFINE D == [p \in Players |-> Plants]
<1>2. D \in [Players -> SUBSET Champions]
  BY RosterAssumption
<1>3. ASSUME NEW p \in Players, NEW x \in Places
      PROVE  roster'[p][x] = rs[p][x] \/ roster'[p][x] = Empty \/ roster'[p][x].champ \in D[p]
  <2>1. CASE p \in P
    <3>1. rs[p] \in Rosters /\ hexes[p] \in SyncedHexes(rs[p])
      BY <1>1, <2>1 DEF LaidOut
    <3>2. roster'[p][x] = WithPlants(rs[p], hexes[p])[x]
      BY <1>1, <2>1
    <3> QED
      BY <3>1, <3>2, PlantsOnly
  <2>2. CASE p \notin P
    BY <1>1, <2>2
  <2> QED
    BY <2>1, <2>2
<1>4. \A p \in Players \ A : roster'[p] = rs[p]
  BY <1>1
<1>5. \A p \in Players : Queen \notin D[p] /\ D[p] \cap Gated \subseteq unlocked[p]
  BY MatchAssumption
<1> HIDE DEF D
<1>6. Proper(unlocked, A, roster', sh)
  BY <1>2, <1>3, <1>4, <1>5, RostersProper
<1>7. Proper(unlocked, A, roster', shop')
  BY <1>1, <1>6, OfferQueenProper
<1> QED
  BY <1>1, <1>7, UnlocksGrow, MoreUnlocked

\* What a refresh draws is open to the player, and never the Queen.
LEMMA DrawOneOpen ==
  ASSUME NEW pl, NEW lv, NEW open, NEW c \in DrawOne(pl, lv, open)
  PROVE  c # Queen /\ (c \in Gated => c \in open)
<1>1. c \in Drawable(pl, open) \/ c = NoChampion
  BY DEF DrawOne, Nearest
<1> QED
  BY <1>1, MatchAssumption, RosterAssumption DEF Drawable

\* Refreshing the shops of living players keeps what everybody holds proper.
LEMMA RefreshProper ==
  ASSUME NEW A, NEW P \in SUBSET A, NEW rs, NEW sh, NEW pl, NEW lv, NEW new,
         \A t \in Players \X Slots : t[1] \notin P => new[t] = sh[t],
         Refreshes(pl, P, sh, lv, new), Proper(unlocked, A, rs, sh)
  PROVE  Proper(unlocked, A, rs, new)
<1>1. ASSUME NEW p \in Players, NEW k \in Slots
      PROVE  \/ new[<<p, k>>] = sh[<<p, k>>] /\ p \notin P
             \/ /\ p \in P /\ new[<<p, k>>] # Queen
                /\ new[<<p, k>>] \in Gated => new[<<p, k>>] \in unlocked[p]
  <2> DEFINE t == <<p, k>>
  <2>1. t \in Players \X Slots /\ t[1] = p
    OBVIOUS
  <2> HIDE DEF t
  <2>2. CASE p \in P
    <3>1. new[t] \in DrawOne(PoolAtDraw(pl, P, sh, new, t), lv[p], unlocked[p])
      BY <2>1, <2>2 DEF Refreshes
    <3> QED
      BY <2>2, <3>1, DrawOneOpen DEF t
  <2>3. CASE p \notin P
    BY <2>1, <2>3 DEF t
  <2> QED
    BY <2>2, <2>3
<1>2. DeadHoldNone(A, rs, new)
  BY <1>1 DEF Proper, DeadHoldNone
<1>3. LockedOut(unlocked, rs, new)
  BY <1>1 DEF Proper, LockedOut
<1>4. ASSUME NEW p \in Players, Queen # Herald
      PROVE  QueenOnce(rs[p], ShopOf(new, p))
  <2>1. QueenOnce(rs[p], ShopOf(sh, p))
    BY <1>4 DEF Proper
  <2> QED
    BY <1>1, <2>1 DEF QueenOnce, ShopOf
<1> QED
  BY <1>2, <1>3, <1>4 DEF Proper

\* So does emptying shop slots.
LEMMA EmptiedProper ==
  ASSUME NEW un, NEW A, NEW rs, NEW sh, NEW new, Proper(un, A, rs, sh),
         \A t \in Players \X Slots : new[t] = sh[t] \/ new[t] = NoChampion
  PROVE  Proper(un, A, rs, new)
<1>1. NoChampion # Queen /\ NoChampion \notin Gated
  BY MatchAssumption, RosterAssumption
<1>2. \A p \in Players, k \in Slots : new[<<p, k>>] = sh[<<p, k>>] \/ new[<<p, k>>] = NoChampion
  OBVIOUS
<1>3. DeadHoldNone(A, rs, new)
  BY <1>2 DEF Proper, DeadHoldNone
<1>4. LockedOut(un, rs, new)
  BY <1>1, <1>2 DEF Proper, LockedOut
<1>5. ASSUME NEW p \in Players, Queen # Herald
      PROVE  QueenOnce(rs[p], ShopOf(new, p))
  <2>1. QueenOnce(rs[p], ShopOf(sh, p))
    BY <1>5 DEF Proper
  <2> QED
    BY <1>1, <1>2, <2>1 DEF QueenOnce, ShopOf
<1> QED
  BY <1>3, <1>4, <1>5 DEF Proper

\* Opening a Planning phase keeps what everybody holds proper.
LEMMA EnterPlanningProper ==
  ASSUME NEW rs, NEW lv, NEW pl, alive \subseteq Players, LaidOut(rs),
         Proper(unlocked, alive, rs, shop), EnterPlanning(rs, lv, pl)
  PROVE  Proper(unlocked', alive, roster', shop')
<1>1. CASE IsShopClosed("Planning", round')
  <2>1. Proper(unlocked, alive, rs, ClosedShop(alive, shop))
    BY EmptiedProper DEF ClosedShop
  <2> QED
    BY <1>1, <2>1, AfterRosterChangeProper DEF EnterPlanning
<1>2. CASE ~ IsShopClosed("Planning", round')
  <2>1. PICK new \in ShopsAfter(Refreshing, shop) :
          /\ Refreshes(pl, Refreshing, shop, lv, new)
          /\ AfterRosterChange(alive, rs, lv, new, RefreshedPool(pl, Refreshing, shop, new))
    BY <1>2 DEF EnterPlanning
  <2>2. Refreshing \in SUBSET alive
    BY DEF Refreshing
  <2>3. \A t \in Players \X Slots : t[1] \notin Refreshing => new[t] = shop[t]
    BY <2>1 DEF ShopsAfter
  <2>4. Proper(unlocked, alive, rs, new)
    BY <2>1, <2>2, <2>3, RefreshProper
  <2> QED
    BY <2>1, <2>4, AfterRosterChangeProper
<1> QED
  BY <1>1, <1>2

\* So does beginning a round.
LEMMA BeginRoundProper ==
  ASSUME NEW rs, NEW pl, alive \subseteq Players, LaidOut(rs),
         Proper(unlocked, alive, rs, shop), BeginRound(rs, pl)
  PROVE  Proper(unlocked', alive, roster', shop')
<1>1. PICK lv \in [Players -> Levels] :
        IF IsGiftRound(round') THEN EnterMotherNature(rs, lv, pl) ELSE EnterPlanning(rs, lv, pl)
  BY DEF BeginRound, RisenLevels
<1> QED
  BY <1>1, EnterPlanningProper DEF EnterMotherNature

\* Copies dealt, dropped, granted or gifted to living players who have them open keep
\* what everybody holds proper.
LEMMA AddedProper ==
  ASSUME NEW un, NEW A, NEW rs, NEW sh, LaidOut(rs), Proper(un, A, rs, sh),
         NEW B \in SUBSET Players, B \subseteq A, NEW d, NEW ns,
         \A p \in B : /\ d[p] \in Champions /\ (Queen # Herald => d[p] # Queen)
                      /\ d[p] \in Gated => d[p] \in un[p],
         \A p \in Players : ns[p] = IF p \in B THEN Add(rs[p], level[p], d[p]) ELSE rs[p]
  PROVE  Proper(un, A, ns, sh)
<1> DEFINE D == [p \in Players |-> IF p \in B THEN {d[p]} ELSE {}]
<1>1. D \in [Players -> SUBSET Champions]
  OBVIOUS
<1>2. ASSUME NEW p \in Players, NEW x \in Places
      PROVE  ns[p][x] = rs[p][x] \/ ns[p][x] = Empty \/ ns[p][x].champ \in D[p]
  <2>1. CASE p \in B
    <3>1. rs[p] \in Rosters /\ ns[p] = Add(rs[p], level[p], d[p])
      BY <2>1 DEF LaidOut
    <3>2. ns[p][x] = rs[p][x] \/ ns[p][x] = Empty \/ ns[p][x].champ = d[p]
      BY <3>1, AddTouches
    <3> QED
      BY <2>1, <3>2
  <2>2. CASE p \notin B
    BY <2>2
  <2> QED
    BY <2>1, <2>2
<1>3. \A p \in Players \ A : ns[p] = rs[p]
  OBVIOUS
<1>4. \A p \in Players : (Queen # Herald => Queen \notin D[p]) /\ D[p] \cap Gated \subseteq un[p]
  OBVIOUS
<1> HIDE DEF D
<1> QED
  BY <1>1, <1>2, <1>3, <1>4, RostersProper

\* The opening deal and the PvE drops: copies no gate holds back, for the living.
LEMMA DealtProper ==
  ASSUME LaidOut(roster), alive \subseteq Players, Proper(unlocked, alive, roster, shop),
         NEW P \in SUBSET alive, NEW d, DealtFrom(P, d)
  PROVE  Proper(unlocked, alive, DealtRoster(d), shop)
<1> DEFINE B == {p \in Players : Fits(p, d)}
<1>1. ASSUME NEW p \in B
      PROVE  p \in alive /\ d[p] \in Champions /\ d[p] # Queen /\ d[p] \notin Gated
  <2>1. d[p] \in Pooled /\ d[p] # NoChampion
    BY KindsFact DEF Fits
  <2>2. p \in P /\ d[p] \notin Gated
    BY <2>1 DEF DealtFrom, Drawable
  <2> QED
    BY <2>1, <2>2, KindsFact
<1>2. \A p \in Players : DealtRoster(d)[p] = IF p \in B THEN Add(roster[p], level[p], d[p]) ELSE roster[p]
  BY DEF DealtRoster
<1>3. B \in SUBSET Players /\ B \subseteq alive
  BY <1>1
<1> HIDE DEF B
<1> QED
  BY <1>1, <1>2, <1>3, AddedProper

\* What Mother Nature has on offer is no gated champion.
OffersOpen == \A p \in Players, i \in Options : offers[<<p, i>>] \notin Gated

\* Picked gifts: only the living are on the list, and nothing gated is on offer.
LEMMA GiftProper ==
  ASSUME LaidOut(roster), alive \subseteq Players, Proper(unlocked, alive, roster, shop), OffersOpen,
         NEW P \in SUBSET alive, NEW pick \in [P -> Options]
  PROVE  Proper(unlocked, alive, GiftRoster(P, pick), shop)
<1> DEFINE B == {p \in P : Takes(p, pick[p])}
           d == [p \in P |-> offers[<<p, pick[p]>>]]
<1>1. ASSUME NEW p \in B
      PROVE  d[p] \in Champions /\ d[p] # Queen /\ d[p] \notin Gated
  BY KindsFact DEF Takes, OffersOpen
<1>2. \A p \in Players :
        GiftRoster(P, pick)[p] = IF p \in B THEN Add(roster[p], level[p], d[p]) ELSE roster[p]
  BY DEF GiftRoster
<1>3. B \in SUBSET Players /\ B \subseteq alive
  OBVIOUS
<1> HIDE DEF B, d
<1> QED
  BY <1>1, <1>2, <1>3, AddedProper

\* A purchase takes a champion out of the buyer's own shop; if it is the Queen, the
\* buyer had no other.
LEMMA BuyProper ==
  ASSUME LaidOut(roster), Proper(unlocked, alive, roster, shop), shop \in Shops,
         NEW p \in Players, p \in alive, NEW k \in Slots, shop[<<p, k>>] # NoChampion
  PROVE  Proper(unlocked, alive, [roster EXCEPT ![p] = Add(@, level[p], shop[<<p, k>>])],
                [shop EXCEPT ![<<p, k>>] = NoChampion])
<1> DEFINE c  == shop[<<p, k>>]
           a  == Add(roster[p], level[p], c)
           ns == [roster EXCEPT ![p] = Add(@, level[p], c)]
           sh == [shop EXCEPT ![<<p, k>>] = NoChampion]
<1>1. c \in Champions \ Plants
  BY KindsFact DEF Shops
<1>2. /\ \A q \in Players : ns[q] = IF q = p THEN a ELSE roster[q]
      /\ \A q \in Players, l \in Slots : sh[<<q, l>>] = IF q = p /\ l = k THEN NoChampion
                                                      ELSE shop[<<q, l>>]
  BY DEF LaidOut, Shops
<1>3. \A x \in Places : a[x] = roster[p][x] \/ a[x] = Empty \/ a[x].champ = c
  BY AddTouches DEF LaidOut
<1>4. NoChampion \notin Champions /\ Gated \subseteq Champions /\ Queen \in Champions
  BY MatchAssumption, RosterAssumption
<1>5. \A e \in Champions \ {c} : \A x \in Places : a[x].champ = e => roster[p][x].champ = e
  BY <1>3, <1>4 DEF Empty, Unit
<1> HIDE DEF ns, sh
<1>6. DeadHoldNone(alive, ns, sh)
  BY <1>2 DEF Proper, DeadHoldNone
<1>7. LockedOut(unlocked, ns, sh)
  <2> SUFFICES ASSUME NEW q \in Players, NEW e \in Gated \ unlocked[q]
               PROVE  ~ Owns(ns[q], e) /\ \A l \in Slots : sh[<<q, l>>] # e
    BY DEF LockedOut
  <2>1. ~ Owns(roster[q], e) /\ \A l \in Slots : shop[<<q, l>>] # e
    BY DEF Proper, LockedOut
  <2>2. \A l \in Slots : sh[<<q, l>>] # e
    BY <1>2, <1>4, <2>1
  <2>3. CASE q = p
    <3>1. e \in Champions \ {c}
      BY <1>4, <2>1, <2>3
    <3>2. ~ Owns(a, e)
      BY <1>5, <2>1, <2>3, <3>1 DEF Owns
    <3> QED
      BY <1>2, <2>2, <2>3, <3>2
  <2>4. CASE q # p
    BY <1>2, <2>1, <2>2, <2>4
  <2> QED
    BY <2>3, <2>4
<1>8. ASSUME NEW q \in Players, Queen # Herald
      PROVE  QueenOnce(ns[q], ShopOf(sh, q))
  <2>1. QueenOnce(roster[q], ShopOf(shop, q))
    BY <1>8 DEF Proper
  <2>2. CASE q # p
    BY <1>2, <2>1, <2>2 DEF QueenOnce, ShopOf
  <2>3. CASE q = p /\ c # Queen
    BY <1>2, <1>4, <1>5, <2>1, <2>3 DEF QueenOnce, ShopOf
  <2>4. CASE q = p /\ c = Queen
    <3>1. ~ Owns(roster[p], Queen) /\ \A l \in Slots \ {k} : shop[<<p, l>>] # Queen
      BY <2>1, <2>4 DEF QueenOnce, ShopOf, Owns
    <3>2. roster[p] \in Rosters /\ NothingUnplaced(roster[p])
      BY DEF LaidOut, CheckInvariants
    <3>3. \A x, y \in Places : a[x].champ = Queen /\ a[y].champ = Queen => x = y
      BY <1>1, <2>4, <3>1, <3>2, AddFirst
    <3>4. \A l \in Slots : sh[<<p, l>>] # Queen
      BY <1>2, <1>4, <3>1
    <3> QED
      BY <1>2, <2>4, <3>3, <3>4 DEF QueenOnce, ShopOf
  <2> QED
    BY <2>2, <2>3, <2>4
<1>9. Proper(unlocked, alive, ns, sh)
  BY <1>6, <1>7, <1>8 DEF Proper
<1> QED
  BY <1>9 DEF ns, sh

\* A sale takes, and a move shuffles, what the player already holds.
LEMMA SoldProper ==
  ASSUME LaidOut(roster), Proper(unlocked, alive, roster, shop), NEW p \in alive,
         alive \subseteq Players, NEW x \in Places
  PROVE  Proper(unlocked, alive, [roster EXCEPT ![p] = Removed(@, x)], shop)
<1> DEFINE ns == [roster EXCEPT ![p] = Removed(@, x)]
           D  == [q \in Players |-> {}]
<1>1. \A q \in Players, y \in Places :
        ns[q][y] = roster[q][y] \/ ns[q][y] = Empty \/ ns[q][y].champ \in D[q]
  BY DEF LaidOut, Removed, Rosters
<1>2. \A q \in Players \ alive : ns[q] = roster[q]
  BY DEF LaidOut
<1>3. D \in [Players -> SUBSET Champions]
  OBVIOUS
<1>4. \A q \in Players : (Queen # Herald => Queen \notin D[q]) /\ D[q] \cap Gated \subseteq unlocked[q]
  OBVIOUS
<1> HIDE DEF ns, D
<1>5. Proper(unlocked, alive, ns, shop)
  BY <1>1, <1>2, <1>3, <1>4, RostersProper
<1> QED
  BY <1>5 DEF ns

LEMMA MovedProper ==
  ASSUME LaidOut(roster), Proper(unlocked, alive, roster, shop), NEW p \in alive,
         alive \subseteq Players, NEW x \in Places, NEW y \in Places
  PROVE  Proper(unlocked, alive, [roster EXCEPT ![p] = Moved(@, x, y)], shop)
<1> DEFINE m  == Moved(roster[p], x, y)
           ns == [roster EXCEPT ![p] = Moved(@, x, y)]
           f  == [z \in Places |-> IF z = x THEN y ELSE IF z = y THEN x ELSE z]
<1>1. \A q \in Players : ns[q] = IF q = p THEN m ELSE roster[q]
  BY DEF LaidOut
<1>2. /\ \A z \in Places : f[z] \in Places /\ m[z] = roster[p][f[z]]
      /\ \A z, w \in Places : f[z] = f[w] => z = w
  BY DEF LaidOut, Rosters, Moved
<1> HIDE DEF m, ns, f
<1>3. DeadHoldNone(alive, ns, shop)
  BY <1>1 DEF Proper, DeadHoldNone
<1>4. \A c : Owns(m, c) => Owns(roster[p], c)
  BY <1>2 DEF Owns
<1>5. LockedOut(unlocked, ns, shop)
  BY <1>1, <1>4 DEF Proper, LockedOut
<1>6. ASSUME NEW q \in Players, Queen # Herald
      PROVE  QueenOnce(ns[q], ShopOf(shop, q))
  <2>1. QueenOnce(roster[q], ShopOf(shop, q))
    BY <1>6 DEF Proper
  <2> QED
    BY <1>1, <1>2, <2>1 DEF QueenOnce
<1>7. Proper(unlocked, alive, ns, shop)
  BY <1>3, <1>5, <1>6 DEF Proper
<1> QED
  BY <1>7 DEF ns
-----------------------------------------------------------------------------
(* The steps.                                                              *)

(***************************************************************************)
(* The rest of the state, and what Restore asks of the clock: round 0 is   *)
(* the match not started, and players have settled only in gift phases.    *)
(***************************************************************************)
Clock ==
  /\ phase \in {"NotStarted", "MotherNature", "Planning", "Combat", "Resolution", "MatchOver"}
  /\ round \in 0 .. MaxRound /\ (round = 0 <=> phase = "NotStarted")
  /\ level \in [Players -> Levels]
  /\ unlocked \in [Players -> SUBSET Gated]
  /\ settled \subseteq Players /\ heralded \subseteq Players
  /\ phase # "MotherNature" => settled = {}

HoldingsInv ==
  /\ BalanceInv
  /\ Proper(unlocked, alive, roster, shop)
  /\ OffersOpen
  /\ locked \subseteq alive
  /\ Clock

\* CheckUnlocks adds gated champions only.
LEMMA UnlockedType ==
  ASSUME unlocked \in [Players -> SUBSET Gated], NEW P, NEW rs, NEW lv, CheckUnlocks(P, rs, lv)
  PROVE  unlocked' \in [Players -> SUBSET Gated]
BY DEF CheckUnlocks, UnlocksNow

\* So do the triggers of a roster change and the opening of a phase, which keep the
\* levels in range too.
LEMMA TriggersType ==
  ASSUME unlocked \in [Players -> SUBSET Gated], NEW P, NEW rs, NEW lv, NEW sh, NEW pl,
         AfterRosterChange(P, rs, lv, sh, pl)
  PROVE  unlocked' \in [Players -> SUBSET Gated]
BY UnlockedType DEF AfterRosterChange

LEMMA EnterPlanningType ==
  ASSUME unlocked \in [Players -> SUBSET Gated], NEW rs, NEW lv, NEW pl, EnterPlanning(rs, lv, pl)
  PROVE  unlocked' \in [Players -> SUBSET Gated] /\ level' = lv /\ phase' = "Planning"
BY TriggersType DEF EnterPlanning

LEMMA RisenType == ASSUME NEW P PROVE RisenLevels(P) \subseteq [Players -> Levels]
BY DEF RisenLevels

\* Beginning a round: the clock, and nothing gated on offer.
LEMMA BeginRoundClock ==
  ASSUME Clock, OffersOpen, NEW rs, NEW pl, alive \subseteq Players, BeginRound(rs, pl),
         round' \in 1 .. MaxRound, heralded' = heralded, phase # "MotherNature"
  PROVE  Clock' /\ OffersOpen'
<1>1. PICK lv \in [Players -> Levels] :
        IF IsGiftRound(round') THEN EnterMotherNature(rs, lv, pl)
        ELSE EnterPlanning(rs, lv, pl) /\ UNCHANGED <<offers, settled>>
  BY DEF BeginRound, RisenLevels
<1>2. round' \in 0 .. MaxRound /\ round' # 0
  BY MatchAssumption
<1>3. CASE IsGiftRound(round')
  <2>1. EnterMotherNature(rs, lv, pl)
    BY <1>1, <1>3
  <2>2. Clock'
    BY <1>2, <2>1 DEF EnterMotherNature, Clock
  <2>3. ASSUME NEW p \in Players, NEW i \in Options
        PROVE  offers'[<<p, i>>] \notin Gated
    <3> DEFINE t == <<p, i>>
    <3>1. offers'[t] \in Pooled =>
            offers'[t] \in Drawable(Drawn(pl, {u \in Players \X Options : Before(u, t)}, offers'), {})
      BY <2>1 DEF EnterMotherNature
    <3>2. Gated \subseteq Pooled
      BY MatchAssumption
    <3> QED
      BY <3>1, <3>2 DEF Drawable
  <2> QED
    BY <2>2, <2>3 DEF OffersOpen
<1>4. CASE ~ IsGiftRound(round')
  <2>1. EnterPlanning(rs, lv, pl) /\ offers' = offers /\ settled' = settled
    BY <1>1, <1>4
  <2>2. unlocked' \in [Players -> SUBSET Gated] /\ level' = lv /\ phase' = "Planning"
    BY <2>1, EnterPlanningType DEF Clock
  <2>3. Clock'
    BY <1>2, <2>1, <2>2 DEF Clock
  <2> QED
    BY <2>1, <2>3 DEF OffersOpen
<1> QED
  BY <1>3, <1>4

\* What the invariant says of the state a step starts from.
LEMMA HoldingsFacts ==
  ASSUME HoldingsInv
  PROVE  /\ LaidOut(roster) /\ shop \in Shops /\ alive \subseteq Players
         /\ Proper(unlocked, alive, roster, shop) /\ OffersOpen /\ OffersSettled
         /\ locked \subseteq alive /\ Clock /\ BalanceInv
BY DEF HoldingsInv, BalanceInv, LayoutInv, Shape, RosterLayouts, LaidOut

\* A player's call keeps what everybody holds proper.
LEMMA PlayerProper ==
  ASSUME HoldingsInv, NEW p \in Players, PlayerAction(p)
  PROVE  HoldingsInv'
<1>1. /\ LaidOut(roster) /\ shop \in Shops /\ alive \subseteq Players
      /\ Proper(unlocked, alive, roster, shop) /\ OffersOpen /\ OffersSettled
      /\ locked \subseteq alive /\ Clock /\ BalanceInv
  BY HoldingsFacts
<1>2. BalanceInv'
  BY <1>1, PlayerBalance
<1>3. ASSUME ClockUnchanged, Proper(unlocked', alive, roster', shop'), locked' \subseteq alive,
             level' \in [Players -> Levels], unlocked' \in [Players -> SUBSET Gated]
      PROVE  HoldingsInv'
  BY <1>1, <1>2, <1>3 DEF HoldingsInv, ClockUnchanged, Clock, OffersOpen
<1>4. CASE TryRerollShop(p)
  <2>1. PICK new \in ShopsAfter({p}, shop) :
          /\ Refreshes(pool, {p}, shop, level, new)
          /\ OfferQueen({p}, roster, level, new, RefreshedPool(pool, {p}, shop, new))
    BY <1>4 DEF TryRerollShop
  <2>2. {p} \in SUBSET alive
    BY <1>4 DEF TryRerollShop, MayAct
  <2>3. \A t \in Players \X Slots : t[1] \notin {p} => new[t] = shop[t]
    BY <2>1 DEF ShopsAfter
  <2>4. Proper(unlocked, alive, roster, new)
    BY <1>1, <2>1, <2>2, <2>3, RefreshProper
  <2>5. Proper(unlocked, alive, roster, shop')
    BY <2>1, <2>2, <2>4, OfferQueenProper
  <2> QED
    BY <1>1, <1>3, <1>4, <2>5 DEF TryRerollShop, Clock
<1>5. ASSUME NEW k \in Slots, TryBuyShopUnit(p, k)
      PROVE  HoldingsInv'
  <2> DEFINE c  == shop[<<p, k>>]
             ns == [roster EXCEPT ![p] = Add(@, level[p], c)]
             sh == [shop EXCEPT ![<<p, k>>] = NoChampion]
  <2>1. p \in alive /\ c # NoChampion /\ CanAdd(roster[p], level[p], c)
    BY <1>5 DEF TryBuyShopUnit, MayAct, CanAcquire
  <2>2. Proper(unlocked, alive, ns, sh)
    BY <1>1, <2>1, BuyProper
  <2>3. AfterRosterChange({p}, ns, level, sh, pool)
    BY <1>5 DEF TryBuyShopUnit
  <2>4. LaidOut(ns)
    <3> DEFINE a == Add(roster[p], level[p], c)
    <3>1. c \in Champions \ Plants
      BY <1>1, <2>1, KindsFact DEF Shops
    <3>2. a \in Rosters /\ CheckInvariants(a)
      BY <1>1, <2>1, <3>1, AddType, AddLayout DEF LaidOut
    <3>3. ns = [roster EXCEPT ![p] = a]
      BY <1>1 DEF LaidOut
    <3> HIDE DEF a, ns
    <3> QED
      BY <1>1, <3>2, <3>3 DEF LaidOut
  <2> HIDE DEF ns, sh, c
  <2>5. Proper(unlocked', alive, roster', shop')
    BY <1>1, <2>1, <2>2, <2>3, <2>4, AfterRosterChangeProper
  <2>6. unlocked' \in [Players -> SUBSET Gated]
    BY <1>1, <2>3, TriggersType DEF Clock
  <2> QED
    BY <1>1, <1>3, <1>5, <2>5, <2>6 DEF TryBuyShopUnit, Clock
<1>6. CASE TrySetShopLock(p)
  <2>1. locked' \subseteq alive
    BY <1>1, <1>6 DEF TrySetShopLock, MayAct
  <2> QED
    BY <1>1, <1>3, <1>6, <2>1 DEF TrySetShopLock, Clock
<1>7. CASE TryBuyXp(p)
  <2>1. unlocked' \in [Players -> SUBSET Gated]
    BY <1>1, <1>7, UnlockedType DEF TryBuyXp, Clock
  <2>2. Proper(unlocked', alive, roster, shop)
    BY <1>1, <1>7, UnlocksGrow, MoreUnlocked DEF TryBuyXp
  <2> QED
    BY <1>1, <1>3, <1>7, <2>1, <2>2, RisenType DEF TryBuyXp
<1>8. ASSUME NEW x \in Cells, TrySellUnit(p, x)
      PROVE  HoldingsInv'
  <2> DEFINE ns   == [roster EXCEPT ![p] = Removed(@, x)]
             back == Returned(pool, {t \in UnitTokens({p}, roster) : t[2] = x}, UnitLabels(roster))
  <2>1. p \in alive /\ x \in Places
    BY <1>8, PlacesFact DEF TrySellUnit, MayAct
  <2>2. Proper(unlocked, alive, ns, shop)
    BY <1>1, <2>1, SoldProper
  <2>3. AfterRosterChange({p}, ns, level, shop, back)
    BY <1>8 DEF TrySellUnit
  <2>4. LaidOut(ns)
    <3> DEFINE new == Removed(roster[p], x)
    <3>1. roster[p] \in Rosters /\ CheckInvariants(roster[p])
      BY <1>1 DEF LaidOut
    <3>2. \A z \in Places : new[z] = roster[p][z] \/ new[z] = Empty
      BY <3>1 DEF Removed, Rosters
    <3>3. new \in Rosters
      BY <3>1, RemovedType
    <3>4. CheckInvariants(new)
      BY <3>1, <3>2, <3>3, ReplacedLayout
    <3>5. ns = [roster EXCEPT ![p] = new]
      BY <1>1 DEF LaidOut
    <3> HIDE DEF new, ns
    <3> QED
      BY <1>1, <3>3, <3>4, <3>5 DEF LaidOut
  <2> HIDE DEF ns, back
  <2>5. Proper(unlocked', alive, roster', shop')
    BY <1>1, <2>1, <2>2, <2>3, <2>4, AfterRosterChangeProper
  <2>6. unlocked' \in [Players -> SUBSET Gated]
    BY <1>1, <2>3, TriggersType DEF Clock
  <2> QED
    BY <1>1, <1>3, <1>8, <2>5, <2>6 DEF TrySellUnit, Clock
<1>9. ASSUME NEW x \in Cells, NEW y \in Cells, TryMoveUnit(p, x, y)
      PROVE  HoldingsInv'
  <2> DEFINE ns == [roster EXCEPT ![p] = Moved(@, x, y)]
  <2>1. p \in alive /\ x \in Places /\ y \in Places
    BY <1>9, PlacesFact DEF TryMoveUnit, MayAct
  <2>2. Proper(unlocked, alive, ns, shop)
    BY <1>1, <2>1, MovedProper
  <2>3. AfterRosterChange({p}, ns, level, shop, pool)
    BY <1>9 DEF TryMoveUnit
  <2>4. LaidOut(ns)
    <3> DEFINE new == Moved(roster[p], x, y)
    <3>1. roster[p] \in Rosters /\ CheckInvariants(roster[p])
      BY <1>1 DEF LaidOut
    <3>2. CASE CanMove(roster[p], level[p], x, y)
      BY <1>1, <3>1, <3>2, <2>1, MovedType, MovedLayout DEF LaidOut
    <3>3. CASE x = y
      BY <1>1, <3>1, <3>3, <2>1, MovedInPlace DEF LaidOut
    <3> QED
      BY <1>9, <3>2, <3>3 DEF TryMoveUnit
  <2> HIDE DEF ns
  <2>5. Proper(unlocked', alive, roster', shop')
    BY <1>1, <2>1, <2>2, <2>3, <2>4, AfterRosterChangeProper
  <2>6. unlocked' \in [Players -> SUBSET Gated]
    BY <1>1, <2>3, TriggersType DEF Clock
  <2> QED
    BY <1>1, <1>3, <1>9, <2>5, <2>6 DEF TryMoveUnit, Clock
<1>10. ASSUME NEW i \in Options, TryPickGift(p, i)
       PROVE  HoldingsInv'
  <2> DEFINE pick == [q \in {p} |-> i]
  <2>1. {p} \in SUBSET alive /\ pick \in [{p} -> Options]
    BY <1>10 DEF TryPickGift
  <2> HIDE DEF pick
  <2>2. Proper(unlocked, alive, GiftRoster({p}, pick), shop)
    BY <1>1, <2>1, GiftProper
  <2>3. /\ roster' = GiftRoster({p}, pick) /\ level' \in GiftLevels({p}, pick)
        /\ phase = "MotherNature" /\ settled' = settled \cup {p}
        /\ offers' = [t \in Players \X Options |-> IF t[1] = p THEN NoChampion ELSE offers[t]]
        /\ UNCHANGED <<phase, round, shop, locked, unlocked, heralded, alive>>
    BY <1>10 DEF TryPickGift, pick
  <2>4. level' \in [Players -> Levels]
    BY <2>3, RisenType DEF GiftLevels
  <2>5. NoChampion \notin Gated
    BY MatchAssumption, RosterAssumption
  <2>6. OffersOpen'
    BY <1>1, <2>3, <2>5 DEF OffersOpen
  <2>7. Clock'
    BY <1>1, <2>3, <2>4 DEF Clock
  <2> QED
    BY <1>1, <1>2, <2>2, <2>3, <2>6, <2>7 DEF HoldingsInv
<1> QED
  BY <1>4, <1>5, <1>6, <1>7, <1>8, <1>9, <1>10 DEF PlayerAction

\* The fights' outcome: loot and the traits' unit for the living, and whoever is
\* eliminated is left with nothing.
LEMMA EndCombatProper ==
  ASSUME HoldingsInv, EndCombat
  PROVE  Proper(unlocked', alive', roster', shop') /\ locked' \subseteq alive' /\ Clock'
<1>1. /\ LaidOut(roster) /\ alive \subseteq Players /\ locked \subseteq alive /\ Clock
      /\ Proper(unlocked, alive, roster, shop)
  BY HoldingsFacts
<1>2. PICK dying \in SUBSET alive, d \in [Players -> Pooled \cup {NoChampion}],
           gifted \in SUBSET (alive \ heralded) :
        /\ DealtFrom(IF round \in PveRounds THEN alive ELSE {}, d)
        /\ \A p \in gifted : CanAdd(DealtRoster(d)[p], level[p], Herald)
        /\ roster' = [p \in Players |-> IF p \in dying THEN EmptyRoster
                                      ELSE GivenHerald(DealtRoster(d), gifted)[p]]
        /\ shop' = ClosedShop(dying, shop)
        /\ locked' = locked \ dying
        /\ level' \in RisenLevels(alive \ dying)
        /\ heralded' = heralded \cup gifted
        /\ alive' = alive \ dying
  BY DEF EndCombat
<1>3. phase = "Combat" /\ phase' = "Resolution" /\ UNCHANGED <<round, unlocked, settled>>
  BY DEF EndCombat
<1> DEFINE P  == IF round \in PveRounds THEN alive ELSE {}
           dr == DealtRoster(d)
           rs == GivenHerald(dr, gifted)
<1>4. Proper(unlocked, alive, dr, shop) /\ LaidOut(dr)
  <2>1. P \in SUBSET alive /\ DealtFrom(P, d)
    BY <1>2
  <2> HIDE DEF P
  <2> QED
    BY <1>1, <2>1, DealtProper, DealtLayout
<1> HIDE DEF dr
<1>5. Proper(unlocked, alive, rs, shop)
  <2> DEFINE h == [p \in gifted |-> Herald]
  <2>1. \A p \in Players : rs[p] = IF p \in gifted THEN Add(dr[p], level[p], h[p]) ELSE dr[p]
    BY DEF GivenHerald
  <2>2. Herald \in Champions /\ Herald \notin Gated
    BY MatchAssumption
  <2>3. \A p \in gifted : /\ h[p] \in Champions /\ (Queen # Herald => h[p] # Queen)
                          /\ h[p] \in Gated => h[p] \in unlocked[p]
    BY <2>2
  <2>4. gifted \in SUBSET Players /\ gifted \subseteq alive
    BY <1>1
  <2> HIDE DEF h, rs
  <2> QED
    BY <1>4, <2>1, <2>3, <2>4, AddedProper
<1> HIDE DEF rs
<1>6. \A p \in Players : roster'[p] = IF p \in dying THEN EmptyRoster ELSE rs[p]
  BY <1>2 DEF rs, dr
<1>7. \A p \in Players, k \in Slots : shop'[<<p, k>>] = IF p \in dying THEN NoChampion
                                                      ELSE shop[<<p, k>>]
  BY <1>2 DEF ClosedShop
<1>8. NoChampion \notin Gated /\ NoChampion # Queen
  BY MatchAssumption, RosterAssumption
<1>9. \A x \in Places : EmptyRoster[x].champ = NoChampion
  BY DEF EmptyRoster, Empty, Unit
<1>10. DeadHoldNone(alive', roster', shop')
  BY <1>1, <1>2, <1>5, <1>6, <1>7 DEF Proper, DeadHoldNone
<1>11. LockedOut(unlocked', roster', shop')
  <2> SUFFICES ASSUME NEW p \in Players, NEW c \in Gated \ unlocked[p]
               PROVE  ~ Owns(roster'[p], c) /\ \A k \in Slots : shop'[<<p, k>>] # c
    BY <1>3 DEF LockedOut
  <2>1. ~ Owns(rs[p], c) /\ \A k \in Slots : shop[<<p, k>>] # c
    BY <1>5 DEF Proper, LockedOut
  <2>2. CASE p \in dying
    <3>1. ~ Owns(EmptyRoster, c)
      BY <1>8, <1>9 DEF Owns
    <3> QED
      BY <1>6, <1>7, <1>8, <2>2, <3>1
  <2>3. CASE p \notin dying
    BY <1>6, <1>7, <2>1, <2>3
  <2> QED
    BY <2>2, <2>3
<1>12. ASSUME NEW p \in Players, Queen # Herald
       PROVE  QueenOnce(roster'[p], ShopOf(shop', p))
  <2>1. QueenOnce(rs[p], ShopOf(shop, p))
    BY <1>5, <1>12 DEF Proper
  <2>2. CASE p \in dying
    BY <1>6, <1>7, <1>8, <1>9, <2>2 DEF QueenOnce, ShopOf
  <2>3. CASE p \notin dying
    BY <1>6, <1>7, <2>1, <2>3 DEF QueenOnce, ShopOf
  <2> QED
    BY <2>2, <2>3
<1>13. Proper(unlocked', alive', roster', shop')
  BY <1>10, <1>11, <1>12 DEF Proper
<1>14. Clock'
  <2>1. level' \in [Players -> Levels] /\ heralded' \subseteq Players
    BY <1>1, <1>2, RisenType DEF Clock
  <2> QED
    BY <1>1, <1>3, <2>1 DEF Clock
<1> QED
  BY <1>1, <1>2, <1>13, <1>14

\* A phase change keeps what everybody holds proper.
LEMMA PhaseProper ==
  ASSUME HoldingsInv, Start \/ EndMotherNature \/ StartCombat \/ EndCombat \/ EndRound \/ EndMatch
  PROVE  HoldingsInv'
<1>1. /\ LaidOut(roster) /\ shop \in Shops /\ alive \subseteq Players
      /\ Proper(unlocked, alive, roster, shop) /\ OffersOpen /\ OffersSettled
      /\ locked \subseteq alive /\ Clock /\ BalanceInv
  BY HoldingsFacts
<1>2. BalanceInv'
  BY <1>1, PhaseBalance
<1>3. ASSUME Proper(unlocked', alive', roster', shop'), OffersOpen', locked' \subseteq alive', Clock'
      PROVE  HoldingsInv'
  BY <1>2, <1>3 DEF HoldingsInv
<1>4. NoChampion \notin Gated /\ MaxRound \in Nat \ {0}
  BY MatchAssumption, RosterAssumption
<1>5. CASE Start
  <2>1. PICK d : DealtFrom(alive, d) /\ BeginRound(DealtRoster(d), DealtPool(d))
    BY <1>5 DEF Start
  <2>2. /\ phase = "NotStarted" /\ round' = 1 /\ round' \in 1 .. MaxRound
        /\ UNCHANGED <<locked, heralded, alive>>
    BY <1>4, <1>5 DEF Start
  <2>3. LaidOut(DealtRoster(d)) /\ Proper(unlocked, alive, DealtRoster(d), shop)
    BY <1>1, <2>1, DealtLayout, DealtProper
  <2>4. Proper(unlocked', alive, roster', shop')
    BY <1>1, <2>1, <2>3, BeginRoundProper
  <2>5. Clock' /\ OffersOpen'
    BY <1>1, <2>1, <2>2, BeginRoundClock
  <2> QED
    BY <1>1, <1>3, <2>2, <2>4, <2>5
<1>6. CASE EndMotherNature
  <2> DEFINE late  == alive \ settled
             first == [p \in late |-> 1]
  <2>1. PICK lv \in GiftLevels(late, first) :
          EnterPlanning(GiftRoster(late, first), lv, GiftPool(late, first))
    BY <1>6 DEF EndMotherNature
  <2>2. /\ offers' = NoOffers /\ settled' = {} /\ round' = round /\ phase = "MotherNature"
        /\ UNCHANGED <<locked, heralded, alive>>
    BY <1>6 DEF EndMotherNature
  <2>3. late \in SUBSET alive /\ late \in SUBSET Players /\ first \in [late -> Options]
    BY <1>1, MatchAssumption DEF Options
  <2> HIDE DEF late, first
  <2>4. LaidOut(GiftRoster(late, first)) /\ Proper(unlocked, alive, GiftRoster(late, first), shop)
    BY <1>1, <2>3, GiftLayout, GiftProper
  <2>5. Proper(unlocked', alive, roster', shop')
    BY <1>1, <2>1, <2>4, EnterPlanningProper
  <2>6. OffersOpen'
    BY <1>4, <2>2 DEF OffersOpen, NoOffers
  <2>7. lv \in [Players -> Levels]
    BY <2>1, RisenType DEF GiftLevels
  <2>8. unlocked' \in [Players -> SUBSET Gated] /\ level' = lv /\ phase' = "Planning"
    BY <1>1, <2>1, EnterPlanningType DEF Clock
  <2>9. Clock'
    BY <1>1, <2>2, <2>7, <2>8 DEF Clock
  <2> QED
    BY <1>1, <1>3, <2>2, <2>5, <2>6, <2>9
<1>7. CASE StartCombat
  BY <1>1, <1>3, <1>7 DEF StartCombat, Clock, OffersOpen
<1>8. CASE EndCombat
  BY <1>1, <1>3, <1>8, EndCombatProper DEF EndCombat, OffersOpen
<1>9. CASE EndRound
  <2>1. /\ phase = "Resolution" /\ round < MaxRound /\ round' = round + 1 /\ BeginRound(roster, pool)
        /\ UNCHANGED <<locked, heralded, alive>>
    BY <1>9 DEF EndRound
  <2>2. round' \in 1 .. MaxRound
    BY <1>1, <1>4, <2>1 DEF Clock
  <2>3. Proper(unlocked', alive, roster', shop')
    BY <1>1, <2>1, BeginRoundProper
  <2>4. Clock' /\ OffersOpen'
    BY <1>1, <2>1, <2>2, BeginRoundClock
  <2> QED
    BY <1>1, <1>3, <2>1, <2>3, <2>4
<1>10. CASE EndMatch
  BY <1>1, <1>3, <1>10 DEF EndMatch, Clock, OffersOpen
<1> QED
  BY <1>5, <1>6, <1>7, <1>8, <1>9, <1>10

\* A match starts with nobody holding anything.
LEMMA InitProper == Init => HoldingsInv
<1> SUFFICES ASSUME Init PROVE HoldingsInv
  OBVIOUS
<1>1. BalanceInv
  BY InitBalance
<1>2. NoChampion \notin Gated /\ NoChampion # Queen /\ MaxRound \in Nat /\ 1 \in Levels
  BY MatchAssumption, RosterAssumption DEF Levels
<1>3. \A p \in Players, x \in Places : roster[p][x].champ = NoChampion
  BY DEF Init, EmptyRoster, Empty, Unit
<1>4. \A p \in Players, k \in Slots : shop[<<p, k>>] = NoChampion
  BY DEF Init
<1>5. Proper(unlocked, alive, roster, shop)
  BY <1>2, <1>3, <1>4 DEF Init, Proper, DeadHoldNone, LockedOut, QueenOnce, ShopOf, Owns
<1>6. OffersOpen /\ Clock /\ locked \subseteq alive
  BY <1>2 DEF Init, OffersOpen, NoOffers, Clock
<1> QED
  BY <1>1, <1>5, <1>6 DEF HoldingsInv

\* The invariant holds throughout.
LEMMA HoldingsStep == HoldingsInv /\ [Next]_vars => HoldingsInv'
<1> SUFFICES ASSUME HoldingsInv, [Next]_vars PROVE HoldingsInv'
  OBVIOUS
<1>1. CASE UNCHANGED vars
  BY <1>1 DEF vars, HoldingsInv, BalanceInv, LayoutInv, Shape, RosterLayouts, OffersSettled,
              NoOffers, Proper, OffersOpen, Clock
<1>2. CASE Next
  BY <1>2, PlayerProper, PhaseProper DEF Next
<1> QED
  BY <1>1, <1>2

LEMMA HoldingsKept == Spec => []HoldingsInv
BY InitProper, HoldingsStep, PTL DEF Spec
-----------------------------------------------------------------------------
(* The theorems.                                                           *)

\* Every variable keeps its type.
THEOREM TypesKept == Spec => []TypeOK
<1>1. HoldingsInv => TypeOK
  <2> SUFFICES ASSUME HoldingsInv PROVE TypeOK
    OBVIOUS
  <2>1. Shape /\ Balanced(pool, shop, offers, roster) /\ locked \subseteq alive /\ Clock
    BY DEF HoldingsInv, BalanceInv, LayoutInv
  <2>2. Pooled \cup {NoChampion, Queen} \subseteq Champions \cup {NoChampion}
    BY MatchAssumption
  <2>3. shop \in [Players \X Slots -> Champions \cup {NoChampion}]
    BY <2>1, <2>2 DEF Shape, Shops
  <2> QED
    BY <2>1, <2>3 DEF TypeOK, Shape, Balanced, Clock
<1> QED
  BY <1>1, HoldingsKept, PTL

\* An eliminated player never again holds a unit, a shop offer, a gift or the lock of a
\* shop: what they held went back to the pool when they left (EliminateDeadPlayers).
THEOREM EliminatedHoldNothingKept == Spec => []EliminatedHoldNothing
<1>1. HoldingsInv => EliminatedHoldNothing
  BY HoldingsFacts DEF EliminatedHoldNothing, Proper, DeadHoldNone, OffersSettled
<1> QED
  BY <1>1, HoldingsKept, PTL

\* No player ever gets a gated champion they have not unlocked, by any of the ways a
\* champion can come to them.
THEOREM GatedOnlyWhenUnlockedKept == Spec => []GatedOnlyWhenUnlocked
<1>1. HoldingsInv => GatedOnlyWhenUnlocked
  <2> SUFFICES ASSUME HoldingsInv, NEW p \in Players, NEW c \in Gated \ unlocked[p]
               PROVE  /\ ~ Owns(roster[p], c)
                      /\ \A k \in Slots : shop[<<p, k>>] # c
                      /\ \A i \in Options : offers[<<p, i>>] # c
    BY DEF GatedOnlyWhenUnlocked
  <2> QED
    BY HoldingsFacts DEF Proper, LockedOut, OffersOpen
<1> QED
  BY <1>1, HoldingsKept, PTL

\* A set of which any two members are equal has at most one.
LEMMA AtMostOne ==
  ASSUME NEW S, \A x, y \in S : x = y
  PROVE  Cardinality(S) \in 0 .. 1 /\ (S = {} => Cardinality(S) = 0)
<1>1. CASE S = {}
  BY <1>1, FS_EmptySet
<1>2. CASE S # {}
  <2>1. PICK x : S = {x}
    BY <1>2
  <2>2. Cardinality(S) = 1
    BY <2>1, FS_Singleton
  <2> QED
    BY <1>2, <2>2
<1> QED
  BY <1>1, <1>2

\* Unless a trait also grants her (no data file says so, the code would let it), no
\* player ever has the Queen twice between roster and shop.
THEOREM OneQueenKept == ASSUME Queen # Herald PROVE Spec => []OneQueen
<1>1. HoldingsInv => OneQueen
  <2> SUFFICES ASSUME HoldingsInv, NEW p \in Players
               PROVE  Cardinality({k \in Slots : shop[<<p, k>>] = Queen})
                        + Cardinality({x \in Places : roster[p][x].champ = Queen}) <= 1
    BY DEF OneQueen
  <2> DEFINE K == {k \in Slots : shop[<<p, k>>] = Queen}
             X == {x \in Places : roster[p][x].champ = Queen}
  <2>1. QueenOnce(roster[p], ShopOf(shop, p))
    BY HoldingsFacts DEF Proper
  <2>2. (\A k, l \in K : k = l) /\ (\A x, y \in X : x = y) /\ (K = {} \/ X = {})
    BY <2>1 DEF QueenOnce, ShopOf
  <2> HIDE DEF K, X
  <2>3. /\ Cardinality(K) \in 0 .. 1 /\ Cardinality(X) \in 0 .. 1
        /\ K = {} => Cardinality(K) = 0
        /\ X = {} => Cardinality(X) = 0
    BY <2>2, AtMostOne
  <2>4. Cardinality(K) + Cardinality(X) <= 1
    BY <2>2, <2>3
  <2> QED
    BY <2>4 DEF K, X
<1> QED
  BY <1>1, HoldingsKept, PTL

\* While the fights of a round are shown, no board changes: a purchase goes to the bench
\* and merges there (BenchOnlyPurchaseFits), sales and moves are of the bench, and no
\* plant grows or goes.
THEOREM BoardLockedKept == Spec => BoardLockedInFight
<1> DEFINE Still == phase = "Combat" /\ phase' = "Combat" =>
                      \A p \in Players, x \in Board : roster'[p][x] = roster[p][x]
<1>1. HoldingsInv /\ [Next]_vars => [Still]_vars
  <2> SUFFICES ASSUME HoldingsInv, Next, phase = "Combat", phase' = "Combat",
                      NEW q \in Players, NEW h \in Board
               PROVE  roster'[q][h] = roster[q][h]
    OBVIOUS
  <2>1. LaidOut(roster) /\ h \in Places /\ h \notin Bench
    BY HoldingsFacts, PlacesFact
  <2>2. PICK p \in Players : PlayerAction(p)
    BY DEF Next, Start, EndMotherNature, StartCombat, EndCombat, EndRound, EndMatch
  <2>3. ASSUME NEW rs, NEW lv, NEW sh, NEW pl, AfterRosterChange({p}, rs, lv, sh, pl),
               rs \in [Players -> Rosters]
        PROVE  roster'[q][h] = rs[q][h]
    <3>1. PICK hexes \in [{p} -> SUBSET Board] :
            /\ \A i \in {p} : hexes[i] \in SyncedHexes(rs[i])
            /\ roster' = [i \in Players |-> IF i \in {p} THEN WithPlants(rs[i], hexes[i]) ELSE rs[i]]
      BY <2>3 DEF AfterRosterChange
    <3>2. hexes[p] = PlantHexes(rs[p])
      BY <3>1 DEF SyncedHexes
    <3>3. WithPlants(rs[p], hexes[p])[h] = rs[p][h]
      BY <2>1, <3>2 DEF WithPlants
    <3> QED
      BY <3>1, <3>3
  <2>4. CASE TryRerollShop(p) \/ TrySetShopLock(p) \/ TryBuyXp(p)
    BY <2>4 DEF TryRerollShop, TrySetShopLock, TryBuyXp
  <2>5. ASSUME NEW k \in Slots, TryBuyShopUnit(p, k)
        PROVE  roster'[q][h] = roster[q][h]
    <3> DEFINE c  == shop[<<p, k>>]
               a  == Add(roster[p], level[p], c)
               ns == [roster EXCEPT ![p] = Add(@, level[p], c)]
    <3>1. /\ BenchOnlyPurchaseFits(roster[p], level[p], c) /\ c # NoChampion
          /\ AfterRosterChange({p}, ns, level, [shop EXCEPT ![<<p, k>>] = NoChampion], pool)
      BY <2>5 DEF TryBuyShopUnit, CanAcquire, BoardLocked
    <3>2. a[h] = roster[p][h]
      BY <2>1, <3>1, BenchOnlyTouchesNoHex DEF LaidOut
    <3>3. ns \in [Players -> Rosters]
      <4>1. c \in Champions
        BY <3>1, HoldingsFacts, KindsFact DEF Shops
      <4>2. a \in Rosters
        BY <2>1, <4>1, AddType DEF LaidOut
      <4> QED
        BY <2>1, <4>2 DEF LaidOut
    <3>4. roster'[q][h] = ns[q][h]
      BY <2>3, <3>1, <3>3
    <3>5. ns[q] = IF q = p THEN a ELSE roster[q]
      BY <2>1 DEF LaidOut
    <3> HIDE DEF a, ns
    <3> QED
      BY <3>2, <3>4, <3>5
  <2>6. ASSUME NEW x \in Cells, TrySellUnit(p, x)
        PROVE  roster'[q][h] = roster[q][h]
    <3> DEFINE ns   == [roster EXCEPT ![p] = Removed(@, x)]
               back == Returned(pool, {t \in UnitTokens({p}, roster) : t[2] = x}, UnitLabels(roster))
    <3>1. AfterRosterChange({p}, ns, level, shop, back) /\ x # h
      BY <2>6 DEF TrySellUnit, BoardLocked
    <3>2. ns \in [Players -> Rosters]
      BY <2>1, RemovedType DEF LaidOut
    <3>3. ns[q][h] = roster[q][h]
      BY <2>1, <3>1 DEF LaidOut, Removed, Rosters
    <3> HIDE DEF ns, back
    <3> QED
      BY <2>3, <3>1, <3>2, <3>3
  <2>7. ASSUME NEW x \in Cells, NEW y \in Cells, TryMoveUnit(p, x, y)
        PROVE  roster'[q][h] = roster[q][h]
    <3> DEFINE ns == [roster EXCEPT ![p] = Moved(@, x, y)]
    <3>1. AfterRosterChange({p}, ns, level, shop, pool) /\ x # h /\ y # h
      BY <2>1, <2>7 DEF TryMoveUnit, BoardLocked
    <3>2. ns \in [Players -> Rosters]
      BY <2>1, MovedType, PlacesFact DEF LaidOut
    <3>3. ns[q][h] = roster[q][h]
      BY <2>1, <3>1 DEF LaidOut, Moved, Rosters
    <3> HIDE DEF ns
    <3> QED
      BY <2>3, <3>1, <3>2, <3>3
  <2>8. ~ \E i \in Options : TryPickGift(p, i)
    BY DEF TryPickGift
  <2> QED
    BY <2>2, <2>4, <2>5, <2>6, <2>7, <2>8 DEF PlayerAction
<1> QED
  BY <1>1, HoldingsKept, PTL DEF BoardLockedInFight, Spec
-----------------------------------------------------------------------------
(* How many units the board may hold.  The level caps the slots in use     *)
(* only where a unit is added while fewer are: a unit of two slots may be  *)
(* one too many.  The units themselves never are.                          *)

Fit(rs, lv) == \A p \in Players : Cardinality(Fighters(rs[p])) <= lv[p]

\* Levels only rise.
LEMMA RisenFits ==
  ASSUME NEW P, NEW lv \in RisenLevels(P), NEW rs, level \in [Players -> Levels], Fit(rs, level)
  PROVE  Fit(rs, lv)
<1> SUFFICES ASSUME NEW p \in Players PROVE Cardinality(Fighters(rs[p])) <= lv[p]
  BY DEF Fit
<1>1. lv[p] \in Nat /\ level[p] \in Nat /\ level[p] <= lv[p]
  BY MatchAssumption DEF RisenLevels, Levels
<1>2. Cardinality(Fighters(rs[p])) <= level[p] /\ Cardinality(Fighters(rs[p])) \in Nat
  BY FightersFinite DEF Fit
<1> QED
  BY <1>1, <1>2

\* Rosters whose boards hold no unit they did not hold fit as they did.
LEMMA FewerFit ==
  ASSUME NEW rs, NEW ns, NEW lv \in [Players -> Levels], Fit(rs, lv),
         \A p \in Players : Fighters(ns[p]) \subseteq Fighters(rs[p])
  PROVE  Fit(ns, lv)
<1> SUFFICES ASSUME NEW p \in Players PROVE Cardinality(Fighters(ns[p])) <= lv[p]
  BY DEF Fit
<1>1. lv[p] \in Nat
  BY MatchAssumption DEF Levels
<1>2. /\ Cardinality(Fighters(ns[p])) <= Cardinality(Fighters(rs[p]))
      /\ Cardinality(Fighters(rs[p])) <= lv[p]
      /\ Cardinality(Fighters(ns[p])) \in Nat /\ Cardinality(Fighters(rs[p])) \in Nat
  BY NoMore, FightersFinite DEF Fit
<1> QED
  BY <1>1, <1>2

\* One roster changed for one that fits.
LEMMA OneFits ==
  ASSUME NEW rs \in [Players -> Rosters], NEW lv, Fit(rs, lv), NEW p \in Players, NEW r,
         Cardinality(Fighters(r)) <= lv[p]
  PROVE  Fit([rs EXCEPT ![p] = r], lv)
BY DEF Fit

\* Plants are no fighters.
LEMMA AfterRosterChangeFits ==
  ASSUME NEW P \in SUBSET Players, NEW rs, NEW lv \in [Players -> Levels], NEW sh, NEW pl,
         LaidOut(rs), Fit(rs, lv), AfterRosterChange(P, rs, lv, sh, pl)
  PROVE  Fit(roster', lv)
<1>1. PICK hexes \in [P -> SUBSET Board] :
        /\ \A p \in P : hexes[p] \in SyncedHexes(rs[p])
        /\ roster' = [p \in Players |-> IF p \in P THEN WithPlants(rs[p], hexes[p]) ELSE rs[p]]
  BY DEF AfterRosterChange
<1>2. ASSUME NEW p \in Players
      PROVE  Fighters(roster'[p]) \subseteq Fighters(rs[p])
  <2>1. CASE p \in P
    <3>1. rs[p] \in Rosters /\ hexes[p] \in SyncedHexes(rs[p])
      BY <1>1, <2>1 DEF LaidOut
    <3> DEFINE m == WithPlants(rs[p], hexes[p])
    <3>2. \A x \in Places : m[x] = rs[p][x] \/ m[x] = Empty \/ m[x].champ \in Plants
      BY <3>1, PlantsOnly
    <3>3. roster'[p] = m
      BY <1>1, <2>1
    <3> HIDE DEF m
    <3> QED
      BY <3>2, <3>3, PlacesFact DEF Fighters
  <2>2. CASE p \notin P
    BY <1>1, <2>2
  <2> QED
    BY <2>1, <2>2
<1> QED
  BY <1>2, FewerFit

\* Copies dealt, dropped, gifted and granted.
LEMMA AddedFit ==
  ASSUME NEW rs, LaidOut(rs), level \in [Players -> Levels], Fit(rs, level),
         NEW B \in SUBSET Players, NEW d, NEW ns,
         \A p \in B : d[p] \in Champions \ Plants,
         \A p \in Players : ns[p] = IF p \in B THEN Add(rs[p], level[p], d[p]) ELSE rs[p]
  PROVE  Fit(ns, level)
<1> SUFFICES ASSUME NEW p \in Players PROVE Cardinality(Fighters(ns[p])) <= level[p]
  BY DEF Fit
<1>1. rs[p] \in Rosters /\ CheckInvariants(rs[p]) /\ level[p] \in Nat
  BY MatchAssumption DEF LaidOut, Levels
<1>2. Cardinality(Fighters(rs[p])) <= level[p]
  BY DEF Fit
<1>3. CASE p \in B
  <2>1. Cardinality(Fighters(Add(rs[p], level[p], d[p]))) <= level[p]
    BY <1>1, <1>2, <1>3, AddFits
  <2> QED
    BY <1>3, <2>1
<1>4. CASE p \notin B
  BY <1>2, <1>4
<1> QED
  BY <1>3, <1>4

LEMMA DealtFit ==
  ASSUME LaidOut(roster), level \in [Players -> Levels], Fit(roster, level), NEW d
  PROVE  Fit(DealtRoster(d), level)
<1> DEFINE B == {p \in Players : Fits(p, d)}
<1>1. \A p \in B : d[p] \in Champions \ Plants
  BY KindsFact DEF Fits
<1>2. \A p \in Players : DealtRoster(d)[p] = IF p \in B THEN Add(roster[p], level[p], d[p]) ELSE roster[p]
  BY DEF DealtRoster
<1> HIDE DEF B
<1>3. B \in SUBSET Players
  BY DEF B
<1> QED
  BY <1>1, <1>2, <1>3, AddedFit

LEMMA GiftFit ==
  ASSUME LaidOut(roster), level \in [Players -> Levels], Fit(roster, level),
         NEW P \in SUBSET Players, NEW pick
  PROVE  Fit(GiftRoster(P, pick), level)
<1> DEFINE B == {p \in P : Takes(p, pick[p])}
           d == [p \in P |-> offers[<<p, pick[p]>>]]
<1>1. \A p \in B : d[p] \in Champions \ Plants
  BY KindsFact DEF Takes
<1>2. \A p \in Players :
        GiftRoster(P, pick)[p] = IF p \in B THEN Add(roster[p], level[p], d[p]) ELSE roster[p]
  BY DEF GiftRoster
<1>3. B \in SUBSET Players
  OBVIOUS
<1> HIDE DEF B, d
<1> QED
  BY <1>1, <1>2, <1>3, AddedFit

\* Opening a phase.
LEMMA EnterPlanningFits ==
  ASSUME NEW rs, NEW lv \in [Players -> Levels], NEW pl, alive \subseteq Players,
         LaidOut(rs), Fit(rs, lv), EnterPlanning(rs, lv, pl)
  PROVE  Fit(roster', level')
<1>1. level' = lv /\ \E sh, ql : AfterRosterChange(alive, rs, lv, sh, ql)
  BY DEF EnterPlanning
<1> QED
  BY <1>1, AfterRosterChangeFits

LEMMA BeginRoundFits ==
  ASSUME level \in [Players -> Levels], NEW rs, NEW pl, alive \subseteq Players,
         LaidOut(rs), Fit(rs, level), BeginRound(rs, pl)
  PROVE  Fit(roster', level')
<1>1. PICK lv \in RisenLevels(alive) :
        IF IsGiftRound(round') THEN EnterMotherNature(rs, lv, pl) ELSE EnterPlanning(rs, lv, pl)
  BY DEF BeginRound
<1>2. lv \in [Players -> Levels] /\ Fit(rs, lv)
  BY RisenType, RisenFits
<1> QED
  BY <1>1, <1>2, EnterPlanningFits DEF EnterMotherNature

\* Every step leaves no more units on a board than its player's level.
LEMMA FitsStep ==
  ASSUME HoldingsInv, Fit(roster, level), Next
  PROVE  Fit(roster', level')
<1>1. /\ LaidOut(roster) /\ shop \in Shops /\ alive \subseteq Players /\ level \in [Players -> Levels]
      /\ roster \in [Players -> Rosters]
      /\ \A p \in Players : /\ roster[p] \in Rosters /\ CheckInvariants(roster[p])
                            /\ level[p] \in Nat /\ Cardinality(Fighters(roster[p])) <= level[p]
  BY HoldingsFacts, MatchAssumption DEF Clock, LaidOut, Levels, Fit
<1>2. ASSUME NEW p \in Players, PlayerAction(p)
      PROVE  Fit(roster', level')
  <2>0. {p} \in SUBSET Players
    OBVIOUS
  <2>1. CASE TryRerollShop(p) \/ TrySetShopLock(p)
    BY <2>1 DEF TryRerollShop, TrySetShopLock
  <2>2. CASE TryBuyXp(p)
    BY <1>1, <2>2, RisenFits DEF TryBuyXp
  <2>3. ASSUME NEW k \in Slots, TryBuyShopUnit(p, k)
        PROVE  Fit(roster', level')
    <3> DEFINE c  == shop[<<p, k>>]
               a  == Add(roster[p], level[p], c)
               sh == [shop EXCEPT ![<<p, k>>] = NoChampion]
    <3>1. /\ c # NoChampion /\ CanAdd(roster[p], level[p], c) /\ level' = level
          /\ AfterRosterChange({p}, [roster EXCEPT ![p] = a], level, sh, pool)
      BY <1>1, <2>3 DEF TryBuyShopUnit, CanAcquire
    <3>2. c \in Champions \ Plants
      BY <1>1, <3>1, KindsFact DEF Shops
    <3>3. a \in Rosters /\ CheckInvariants(a) /\ Cardinality(Fighters(a)) <= level[p]
      BY <1>1, <3>1, <3>2, AddType, AddLayout, AddFits
    <3> HIDE DEF a, sh
    <3>4. LaidOut([roster EXCEPT ![p] = a]) /\ Fit([roster EXCEPT ![p] = a], level)
      BY <1>1, <3>3, OneFits DEF LaidOut
    <3> QED
      BY <1>1, <2>0, <3>1, <3>4, AfterRosterChangeFits
  <2>4. ASSUME NEW x \in Cells, TrySellUnit(p, x)
        PROVE  Fit(roster', level')
    <3> DEFINE new  == Removed(roster[p], x)
               back == Returned(pool, {t \in UnitTokens({p}, roster) : t[2] = x}, UnitLabels(roster))
    <3>1. level' = level /\ AfterRosterChange({p}, [roster EXCEPT ![p] = new], level, shop, back)
      BY <1>1, <2>4 DEF TrySellUnit
    <3>2. \A z \in Places : new[z] = roster[p][z] \/ new[z] = Empty
      BY <1>1 DEF Removed, Rosters
    <3>3. new \in Rosters /\ CheckInvariants(new)
      <4>1. new \in Rosters
        BY <1>1, RemovedType
      <4> HIDE DEF new
      <4> QED
        BY <1>1, <3>2, <4>1, ReplacedLayout
    <3>4. Cardinality(Fighters(new)) <= level[p]
      <4>1. Fighters(new) \subseteq Fighters(roster[p])
        BY <3>2, PlacesFact DEF Fighters
      <4>2. /\ Cardinality(Fighters(new)) <= Cardinality(Fighters(roster[p]))
            /\ Cardinality(Fighters(new)) \in Nat /\ Cardinality(Fighters(roster[p])) \in Nat
        BY <4>1, NoMore, FightersFinite
      <4> QED
        BY <1>1, <4>2
    <3> HIDE DEF new, back
    <3>5. LaidOut([roster EXCEPT ![p] = new]) /\ Fit([roster EXCEPT ![p] = new], level)
      BY <1>1, <3>3, <3>4, OneFits DEF LaidOut
    <3> QED
      BY <1>1, <2>0, <3>1, <3>5, AfterRosterChangeFits
  <2>5. ASSUME NEW x \in Cells, NEW y \in Cells, TryMoveUnit(p, x, y)
        PROVE  Fit(roster', level')
    <3> DEFINE new == Moved(roster[p], x, y)
    <3>1. level' = level /\ AfterRosterChange({p}, [roster EXCEPT ![p] = new], level, shop, pool)
      BY <1>1, <2>5 DEF TryMoveUnit
    <3>2. new \in Rosters /\ CheckInvariants(new) /\ Cardinality(Fighters(new)) <= level[p]
      <4>1. x \in Places /\ y \in Places
        BY PlacesFact
      <4>2. CASE CanMove(roster[p], level[p], x, y)
        BY <1>1, <4>1, <4>2, MovedType, MovedLayout, MovedFits
      <4>3. CASE x = y
        BY <1>1, <4>1, <4>3, MovedInPlace
      <4> QED
        BY <2>5, <4>2, <4>3 DEF TryMoveUnit
    <3> HIDE DEF new
    <3>3. LaidOut([roster EXCEPT ![p] = new]) /\ Fit([roster EXCEPT ![p] = new], level)
      BY <1>1, <3>2, OneFits DEF LaidOut
    <3> QED
      BY <1>1, <2>0, <3>1, <3>3, AfterRosterChangeFits
  <2>6. ASSUME NEW i \in Options, TryPickGift(p, i)
        PROVE  Fit(roster', level')
    <3>1. PICK pick : roster' = GiftRoster({p}, pick) /\ level' \in GiftLevels({p}, pick)
      BY <2>6 DEF TryPickGift
    <3> QED
      BY <1>1, <2>0, <3>1, GiftFit, RisenFits DEF GiftLevels
  <2> QED
    BY <1>2, <2>1, <2>2, <2>3, <2>4, <2>5, <2>6 DEF PlayerAction
<1>3. CASE Start
  <2>1. PICK d : BeginRound(DealtRoster(d), DealtPool(d))
    BY <1>3 DEF Start
  <2> QED
    BY <1>1, <2>1, DealtLayout, DealtFit, BeginRoundFits
<1>4. CASE EndMotherNature
  <2> DEFINE late  == alive \ settled
             first == [p \in late |-> 1]
  <2>1. PICK lv \in GiftLevels(late, first) :
          EnterPlanning(GiftRoster(late, first), lv, GiftPool(late, first))
    BY <1>4 DEF EndMotherNature
  <2>2. late \in SUBSET Players
    BY <1>1
  <2> HIDE DEF late, first
  <2>3. LaidOut(GiftRoster(late, first)) /\ Fit(GiftRoster(late, first), level)
    BY <1>1, <2>2, GiftLayout, GiftFit
  <2>4. lv \in [Players -> Levels] /\ Fit(GiftRoster(late, first), lv)
    BY <1>1, <2>1, <2>3, RisenType, RisenFits DEF GiftLevels
  <2> QED
    BY <1>1, <2>1, <2>3, <2>4, EnterPlanningFits
<1>5. CASE EndCombat
  <2>1. PICK dying \in SUBSET alive, d \in [Players -> Pooled \cup {NoChampion}],
             gifted \in SUBSET (alive \ heralded) :
          /\ \A p \in gifted : CanAdd(DealtRoster(d)[p], level[p], Herald)
          /\ roster' = [p \in Players |-> IF p \in dying THEN EmptyRoster
                                        ELSE GivenHerald(DealtRoster(d), gifted)[p]]
          /\ level' \in RisenLevels(alive \ dying)
    BY <1>5 DEF EndCombat
  <2> DEFINE dr == DealtRoster(d)
             rs == GivenHerald(dr, gifted)
  <2>2. LaidOut(dr) /\ Fit(dr, level)
    BY <1>1, DealtLayout, DealtFit
  <2> HIDE DEF dr
  <2>3. Fit(rs, level)
    <3> DEFINE h == [p \in gifted |-> Herald]
    <3>1. \A p \in Players : rs[p] = IF p \in gifted THEN Add(dr[p], level[p], h[p]) ELSE dr[p]
      BY DEF GivenHerald
    <3>2. (\A p \in gifted : h[p] \in Champions \ Plants) /\ gifted \in SUBSET Players
      BY <1>1, KindsFact
    <3> HIDE DEF h, rs
    <3> QED
      BY <1>1, <2>2, <3>1, <3>2, AddedFit
  <2> HIDE DEF rs
  <2>4. \A p \in Players : Fighters(roster'[p]) \subseteq Fighters(rs[p])
    <3>1. Fighters(EmptyRoster) = {}
      BY PlacesFact DEF Fighters, EmptyRoster
    <3> QED
      BY <2>1, <3>1 DEF rs, dr
  <2>5. Fit(roster', level)
    BY <1>1, <2>3, <2>4, FewerFit
  <2> QED
    BY <1>1, <2>1, <2>5, RisenFits
<1>6. CASE EndRound
  BY <1>1, <1>6, BeginRoundFits DEF EndRound
<1>7. CASE StartCombat \/ EndMatch
  BY <1>7 DEF StartCombat, EndMatch
<1> QED
  BY <1>2, <1>3, <1>4, <1>5, <1>6, <1>7 DEF Next

\* The invariant, with the boards' size.
LEMMA FitsKept == Spec => [](HoldingsInv /\ Fit(roster, level))
<1>1. Init => HoldingsInv /\ Fit(roster, level)
  <2> SUFFICES ASSUME Init PROVE Fit(roster, level)
    BY InitProper
  <2>1. Fighters(EmptyRoster) = {}
    BY PlacesFact DEF Fighters, EmptyRoster
  <2>2. Cardinality(Fighters(EmptyRoster)) = 0
    BY <2>1, FS_EmptySet
  <2> QED
    BY <2>2 DEF Init, Fit
<1>2. HoldingsInv /\ Fit(roster, level) /\ [Next]_vars => (HoldingsInv /\ Fit(roster, level))'
  <2>1. CASE UNCHANGED vars
    BY <2>1, HoldingsStep DEF vars, Fit
  <2>2. CASE Next
    BY <2>2, HoldingsStep, FitsStep DEF Fit
  <2> QED
    BY <2>1, <2>2
<1> QED
  BY <1>1, <1>2, PTL DEF Spec

\* The slots in use exceed the level by one at most, and only under a fielded Queen.
OverflowOfOne ==
  \A p \in Players :
    BoardCount(roster[p]) <= level[p] + (IF Fielded(roster[p], Queen) THEN 1 ELSE 0)

\* If no champion but the Queen takes two slots (as in data/champions.json), the overflow
\* UnitRoster::FirstFreeSlot lets happen, a slot asked for where two are taken, never
\* grows beyond one slot, however the players buy, swap and merge afterwards, and it is
\* there only while the Queen stands on the board.
THEOREM OverflowOfOneKept ==
  ASSUME Queen # Herald, \A c \in Champions \ {Queen} : TeamSlots[c] <= 1
  PROVE  Spec => []OverflowOfOne
<1>1. HoldingsInv /\ Fit(roster, level) => OverflowOfOne
  <2> SUFFICES ASSUME HoldingsInv, Fit(roster, level), NEW p \in Players
               PROVE  BoardCount(roster[p]) <= level[p] + (IF Fielded(roster[p], Queen) THEN 1 ELSE 0)
    BY DEF OverflowOfOne
  <2> DEFINE r == roster[p]
             first  == Fighters(r) \X {1}
             Crowns == {x \in Board : r[x].champ = Queen}
             second == Crowns \X {2}
  <2>1. r \in Rosters /\ level[p] \in Nat /\ Cardinality(Fighters(r)) <= level[p]
    BY HoldingsFacts, MatchAssumption DEF LaidOut, Clock, Levels, Fit
  <2>2. \A x, y \in Crowns : x = y
    BY HoldingsFacts, PlacesFact DEF Proper, QueenOnce
  <2>3. IsFiniteSet(Crowns) /\ Cardinality(Crowns) \in 0 .. 1 /\ (Crowns = {} => Cardinality(Crowns) = 0)
    <3>1. Crowns \subseteq Places
      BY PlacesFact
    <3> HIDE DEF Crowns
    <3> QED
      BY <2>2, <3>1, AtMostOne, PlacesFact, FS_Subset
  <2>4. BoardSlots(r) \subseteq first \cup second
    <3> SUFFICES ASSUME NEW t \in BoardSlots(r) PROVE t \in first \cup second
      OBVIOUS
    <3>1. /\ t = <<t[1], t[2]>> /\ t[1] \in Board /\ t[2] \in 1 .. 2
          /\ r[t[1]] # Empty /\ t[2] <= TeamSlots[r[t[1]].champ]
      BY DEF BoardSlots
    <3>2. r[t[1]] \in Units
      BY <2>1, <3>1, PlacesFact DEF Rosters
    <3>3. r[t[1]].champ \in Champions /\ r[t[1]].champ \notin Plants
      BY <3>1, <3>2, RosterAssumption DEF Units
    <3>4. CASE t[2] = 1
      BY <3>1, <3>3, <3>4 DEF Fighters
    <3>5. CASE t[2] = 2
      <4>1. r[t[1]].champ = Queen
        BY <3>1, <3>3, <3>5, RosterAssumption
      <4> QED
        BY <3>1, <3>5, <4>1
    <3> QED
      BY <3>1, <3>4, <3>5
  <2>5. Crowns # {} => Fielded(r, Queen)
    BY DEF Fielded
  <2> DEFINE nf == Cardinality(Fighters(r))  nc == Cardinality(Crowns)
  <2>6. /\ IsFiniteSet(first) /\ Cardinality(first) = nf
        /\ IsFiniteSet(second) /\ Cardinality(second) = nc
        /\ nf \in Nat /\ nc \in Nat
    <3> HIDE DEF Crowns
    <3>1. /\ IsFiniteSet({1}) /\ Cardinality({1}) = 1
          /\ IsFiniteSet({2}) /\ Cardinality({2}) = 1
      BY FS_Singleton
    <3>2. nf \in Nat /\ nc \in Nat /\ IsFiniteSet(Fighters(r))
      BY <2>3, FightersFinite
    <3>3. /\ IsFiniteSet(first) /\ Cardinality(first) = nf * 1
          /\ IsFiniteSet(second) /\ Cardinality(second) = nc * 1
      BY <2>3, <3>1, <3>2, FS_Product
    <3> QED
      BY <3>2, <3>3
  <2> HIDE DEF first, second
  <2>7. IsFiniteSet(first \cup second) /\ Cardinality(first \cup second) <= nf + nc
    <3>1. /\ IsFiniteSet(first \cup second)
          /\ Cardinality(first \cup second) = nf + nc - Cardinality(first \cap second)
      BY <2>6, FS_Union
    <3>2. Cardinality(first \cap second) \in Nat
      BY <2>6, FS_Intersection, FS_CardinalityType
    <3> HIDE DEF nf, nc
    <3> QED
      BY <2>6, <3>1, <3>2
  <2>8. BoardCount(r) <= Cardinality(first \cup second) /\ BoardCount(r) \in Nat
        /\ Cardinality(first \cup second) \in Nat
    BY <2>4, <2>7, FightersFinite, FS_Subset, FS_CardinalityType
  <2> HIDE DEF nf, nc, r, Crowns
  <2>9. BoardCount(r) <= level[p] + (IF Fielded(r, Queen) THEN 1 ELSE 0)
    <3>1. nf <= level[p] /\ nc \in 0 .. 1 /\ (Crowns = {} => nc = 0)
      BY <2>1, <2>3 DEF nf, nc
    <3> QED
      BY <2>1, <2>5, <2>6, <2>7, <2>8, <3>1
  <2> QED
    BY <2>9 DEF r
<1> QED
  BY <1>1, FitsKept, PTL
-----------------------------------------------------------------------------
(* Snapshots.  What Restore compares is stated in an instance of Match over *)
(* the state it rebuilt; the operators of that instance which do not speak *)
(* of the state are those of Match.                                        *)

LEMMA SamePlaces ==
  ASSUME NEW m
  PROVE  /\ In(m)!Hand = Hand /\ In(m)!Bench = Bench /\ In(m)!Board = Board
         /\ In(m)!Places = Places /\ In(m)!Players = Players /\ In(m)!Slots = Slots
         /\ In(m)!Options = Options /\ In(m)!Empty = Empty /\ In(m)!MaxStar = MaxStar
BY DEF In!Hand, In!Bench, In!Board, In!Cells, In!Places, In!Players, In!Slots, In!Options,
       In!Empty, In!Unit, In!MaxStar,
       Hand, Bench, Board, Cells, Places, Players, Slots, Options, Empty, Unit, MaxStar

LEMMA SameCard == ASSUME NEW m, NEW S PROVE In(m)!Cardinality(S) = Cardinality(S)
BY DEF In!Cardinality, Cardinality

LEMMA SameInvariants ==
  ASSUME NEW m, NEW r
  PROVE  In(m)!CheckInvariants(r) <=> CheckInvariants(r)
<1>1. \A c, s : In(m)!CopiesAt(r, c, s) = CopiesAt(r, c, s)
  BY SamePlaces DEF In!CopiesAt, CopiesAt, In!Unit, Unit
<1> QED
  BY <1>1, SamePlaces, SameCard
     DEF In!CheckInvariants, In!NothingUnplaced, In!NoLooseTriple, In!PlantsOnBoard,
         CheckInvariants, NothingUnplaced, NoLooseTriple, PlantsOnBoard

LEMMA SameCounts ==
  ASSUME NEW m, NEW S, NEW h, NEW c
  PROVE  In(m)!CountIn(S, h, c) = CountIn(S, h, c)
BY SameCard DEF In!CountIn, CountIn

LEMMA SameTokens ==
  ASSUME NEW m, NEW rs
  PROVE  /\ In(m)!UnitTokens(Players, rs) = UnitTokens(Players, rs)
         /\ In(m)!UnitLabels(rs) = UnitLabels(rs)
<1>1. \A s : In(m)!CopiesForStarLevel(s) = CopiesForStarLevel(s)
  BY DEF In!CopiesForStarLevel, CopiesForStarLevel
<1> QED
  BY <1>1, SamePlaces DEF In!UnitTokens, UnitTokens, In!UnitLabels, UnitLabels

\* A state rebuilt as it was written passes every check of the state there is.
LEMMA SameState ==
  ASSUME NEW m, m.phase = phase, m.round = round, m.pool = pool, m.shop = shop,
         m.locked = locked, m.roster = roster, m.level = level, m.unlocked = unlocked,
         m.offers = offers, m.settled = settled, m.heralded = heralded, m.alive = alive
  PROVE  /\ In(m)!RosterLayouts <=> RosterLayouts
         /\ In(m)!PoolIntegrity <=> PoolIntegrity
         /\ In(m)!vars = vars
<1>1. In(m)!RosterLayouts <=> RosterLayouts
  BY SamePlaces, SameInvariants DEF In!RosterLayouts, RosterLayouts
<1>2. \A c : In(m)!Held(c) = Held(c)
  BY SamePlaces, SameCounts, SameTokens DEF In!Held, Held
<1>3. In(m)!PoolIntegrity <=> PoolIntegrity
  BY <1>2 DEF In!PoolIntegrity, PoolIntegrity
<1>4. In(m)!vars = vars
  BY DEF In!vars, vars
<1> QED
  BY <1>1, <1>3, <1>4

\* The units listed with the cells they stand on make up the roster they were read from.
LEMMA RosterRebuilt ==
  ASSUME NEW r \in Rosters
  PROVE  /\ RebuiltRoster(WrittenUnits(r)) = r
         /\ \A u \in WrittenUnits(r) : u.at \in Places /\ u.unit = r[u.at] /\ r[u.at] # Empty
         /\ \A u, v \in WrittenUnits(r) : u.at = v.at => u = v
<1> DEFINE W == WrittenUnits(r)
<1>1. \A u \in W : u.at \in Places /\ u.unit = r[u.at] /\ r[u.at] # Empty
  BY DEF WrittenUnits
<1>2. \A u, v \in W : u.at = v.at => u = v
  BY DEF WrittenUnits
<1>3. \A x \in Places : r[x] # Empty => \E u \in W : u.at = x
  <2>1. \A x \in Places : r[x] # Empty => [at |-> x, unit |-> r[x]] \in W
    BY DEF WrittenUnits
  <2> QED
    BY <2>1
<1> HIDE DEF W
<1>4. \A x \in Places : UnitOn(W, x) = r[x]
  BY <1>1, <1>3 DEF UnitOn
<1>5. RebuiltRoster(W) = r
  BY <1>4 DEF RebuiltRoster, Rosters
<1> QED
  BY <1>1, <1>2, <1>5 DEF W

\* The offers listed are the offers there were.
LEMMA OffersRebuilt ==
  ASSUME NEW p \in Players, NEW i \in Options
  PROVE  OfferOf(WrittenPlayer(p), i) = offers[<<p, i>>]
BY DEF OfferOf, WrittenPlayer

\* So the match Restore builds is the match the snapshot was taken of.
LEMMA StateRebuilt ==
  ASSUME HoldingsInv
  PROVE  LET m == Rebuilt(TheSnapshot)
         IN  /\ m.phase = phase /\ m.round = round /\ m.pool = pool /\ m.shop = shop
             /\ m.locked = locked /\ m.roster = roster /\ m.level = level
             /\ m.unlocked = unlocked /\ m.offers = offers /\ m.settled = settled
             /\ m.heralded = heralded /\ m.alive = alive
<1> DEFINE m == Rebuilt(TheSnapshot)
<1>1. /\ LaidOut(roster) /\ shop \in Shops /\ alive \subseteq Players /\ Clock
      /\ locked \subseteq Players
      /\ offers \in [Players \X Options -> Pooled \cup {OtherGift, NoChampion}]
  BY HoldingsFacts DEF HoldingsInv, BalanceInv, LayoutInv, Shape
<1>2. m.phase = phase /\ m.round = round /\ m.pool = pool
  BY DEF Rebuilt, TheSnapshot
<1>3. m.shop = shop
  <2>1. m.shop = [t \in Players \X Slots |-> shop[<<t[1], t[2]>>]]
    BY DEF Rebuilt, TheSnapshot, WrittenPlayer
  <2>2. \A t \in Players \X Slots : <<t[1], t[2]>> = t
    OBVIOUS
  <2> QED
    BY <1>1, <2>1, <2>2 DEF Shops
<1>4. m.roster = roster
  <2>1. m.roster = [p \in Players |-> RebuiltRoster(WrittenUnits(roster[p]))]
    BY DEF Rebuilt, TheSnapshot, WrittenPlayer
  <2>2. \A p \in Players : RebuiltRoster(WrittenUnits(roster[p])) = roster[p]
    BY <1>1, RosterRebuilt DEF LaidOut
  <2> QED
    BY <1>1, <2>1, <2>2 DEF LaidOut
<1>5. m.level = level /\ m.unlocked = unlocked
  BY <1>1 DEF Rebuilt, TheSnapshot, WrittenPlayer, Clock
<1>6. m.offers = offers
  <2>1. m.offers = [t \in Players \X Options |-> OfferOf(WrittenPlayer(t[1]), t[2])]
    BY DEF Rebuilt, TheSnapshot
  <2>2. \A t \in Players \X Options : OfferOf(WrittenPlayer(t[1]), t[2]) = offers[t]
    BY OffersRebuilt
  <2> QED
    BY <1>1, <2>1, <2>2
<1>7. m.locked = locked /\ m.settled = settled /\ m.heralded = heralded /\ m.alive = alive
  BY <1>1 DEF Rebuilt, TheSnapshot, WrittenPlayer, Clock
<1> QED
  BY <1>2, <1>3, <1>4, <1>5, <1>6, <1>7

\* Nobody is offered anything outside Mother Nature's phase, nor after their choice.
LEMMA OffersAccepted ==
  ASSUME HoldingsInv, GiftOptions <= MaxOffers, NEW p \in Players
  PROVE  GiftsAccepted(TheSnapshot, TheSnapshot.players[p])
<1> DEFINE d == TheSnapshot.players[p]
           D == {j \in Options : offers[<<p, j>>] # NoChampion}
<1>1. /\ offers \in [Players \X Options -> Pooled \cup {OtherGift, NoChampion}]
      /\ OffersSettled /\ Clock
  BY HoldingsFacts DEF HoldingsInv, BalanceInv, LayoutInv, Shape
<1>2. /\ TheSnapshot.phase = phase /\ d.settled = (p \in settled)
      /\ d.offers = [i \in D |-> offers[<<p, i>>]]
  BY DEF TheSnapshot, WrittenPlayer
<1>3. D = {} => d.offers = <<>>
  BY <1>2
<1>4. DOMAIN d.offers = D /\ \A i \in D : d.offers[i] = offers[<<p, i>>]
  BY <1>2
<1>5. Cardinality(D) <= MaxOffers
  <2>0. IsFiniteSet(Options) /\ Cardinality(Options) = GiftOptions
    BY MatchAssumption, FS_Interval DEF Options
  <2>1. D \subseteq Options
    OBVIOUS
  <2> HIDE DEF D
  <2>2. Cardinality(D) <= GiftOptions /\ Cardinality(D) \in Nat
    BY <2>0, <2>1, FS_Subset, FS_CardinalityType
  <2> QED
    BY <2>2, MatchAssumption DEF MaxOffers
<1>6. \A i \in D : offers[<<p, i>>] \in Champions \cup {OtherGift}
  BY <1>1, MatchAssumption
<1>7. p \in settled \/ phase # "MotherNature" => D = {}
  BY <1>1 DEF OffersSettled, NoOffers
<1>8. p \in settled => phase = "MotherNature"
  BY <1>1 DEF Clock
<1> HIDE DEF d, D
<1>9. GiftsAccepted(TheSnapshot, d)
  BY <1>2, <1>3, <1>4, <1>5, <1>6, <1>7, <1>8 DEF GiftsAccepted
<1> QED
  BY <1>9 DEF d

\* Every roster passes, the last check if it has no more slots in use than its level.
LEMMA PlayerIsAccepted ==
  ASSUME HoldingsInv, IsFiniteSet(Gated), Cardinality(Gated) <= MaxUnlocked, NEW p \in Players,
         BoardCount(roster[p]) <= level[p]
  PROVE  PlayerAccepted(TheSnapshot.players[p])
<1> DEFINE d == TheSnapshot.players[p]
           r == roster[p]
<1>1. /\ r \in Rosters /\ CheckInvariants(r) /\ level[p] \in Levels
      /\ unlocked[p] \subseteq Gated
      /\ p \notin alive => r = EmptyRoster /\ \A k \in Slots : shop[<<p, k>>] = NoChampion
  BY HoldingsFacts DEF LaidOut, Clock, Proper, DeadHoldNone
<1>2. /\ d.level = level[p] /\ d.eliminated = (p \notin alive) /\ d.units = WrittenUnits(r)
      /\ d.unlocked = unlocked[p] /\ d.shopSlots = [k \in Slots |-> shop[<<p, k>>]]
  BY DEF TheSnapshot, WrittenPlayer
<1>3. Cardinality(unlocked[p]) <= MaxUnlocked
  <2>1. IsFiniteSet(unlocked[p]) /\ Cardinality(unlocked[p]) <= Cardinality(Gated)
    BY <1>1, FS_Subset
  <2>2. Cardinality(unlocked[p]) \in Nat /\ Cardinality(Gated) \in Nat
    BY <2>1, FS_CardinalityType
  <2> QED
    BY <2>1, <2>2 DEF MaxUnlocked
<1>4. WrittenUnits(EmptyRoster) = {}
  BY DEF WrittenUnits, EmptyRoster
<1> DEFINE W == WrittenUnits(r)
<1>5. RebuiltRoster(W) = r
  BY <1>1, RosterRebuilt
<1>6. RosterAccepted(W)
  <2>1. \A u \in W : u.at \in Places /\ u.unit = r[u.at] /\ r[u.at] # Empty
    BY <1>1, RosterRebuilt
  <2>2. \A u, v \in W : u.at = v.at => u = v
    BY <1>1, RosterRebuilt
  <2>3. \A x \in Places : r[x] # Empty => x \in Cells /\ r[x] \in Units
    BY <1>1, PlacesFact DEF CheckInvariants, NothingUnplaced, Rosters
  <2> HIDE DEF W
  <2> QED
    BY <1>1, <1>5, <2>1, <2>2, <2>3 DEF RosterAccepted
<1> HIDE DEF d
<1>7. PlayerAccepted(d)
  BY <1>1, <1>2, <1>3, <1>4, <1>5, <1>6 DEF PlayerAccepted
<1> QED
  BY <1>7 DEF d

\* What Snapshot writes Restore accepts and turns into the same match, in any phase and
\* after any calls, as long as no board is over its level (OverflowOfOne says when one
\* can be) and the lists are no longer than Restore reads.
THEOREM SnapshotsRestoreKept ==
  ASSUME GiftOptions <= MaxOffers, IsFiniteSet(Gated), Cardinality(Gated) <= MaxUnlocked
  PROVE  Spec => []SnapshotsRestore
<1>1. HoldingsInv => SnapshotsRestore
  <2> SUFFICES ASSUME HoldingsInv, \A p \in Players : BoardCount(roster[p]) <= level[p]
               PROVE  Accepted(TheSnapshot)
    BY DEF SnapshotsRestore, WithinCapacity
  <2>1. /\ Clock /\ BalanceInv /\ RosterLayouts /\ Balanced(pool, shop, offers, roster)
        /\ PoolIntegrity
    BY HoldingsFacts DEF BalanceInv, LayoutInv, Balanced, PoolIntegrity, Held, ShopCount,
                         OfferCount, UnitCount
  <2>2. PhaseAccepted(TheSnapshot)
    BY <2>1, MatchAssumption DEF Clock, PhaseAccepted, TheSnapshot
  <2>3. RemainingAccepted(TheSnapshot)
    <3> SUFFICES ASSUME NEW c \in Pooled PROVE pool[c] \in 0 .. InitialCopies[c]
      BY DEF RemainingAccepted, TheSnapshot
    <3>1. /\ pool[c] \in Nat /\ InitialCopies[c] \in Nat
          /\ pool[c] + (ShopCount(shop, c) + OfferCount(offers, c) + UnitCount(roster, c))
               = InitialCopies[c]
      BY <2>1, MatchAssumption DEF Balanced
    <3>2. ShopCount(shop, c) \in Nat /\ OfferCount(offers, c) \in Nat /\ UnitCount(roster, c) \in Nat
      BY CountsType
    <3> QED
      BY <3>1, <3>2
  <2>4. \A p \in Players : /\ GiftsAccepted(TheSnapshot, TheSnapshot.players[p])
                           /\ PlayerAccepted(TheSnapshot.players[p])
    BY OffersAccepted, PlayerIsAccepted
  <2>5. Proved(TheSnapshot)
    <3> DEFINE m == Rebuilt(TheSnapshot)
    <3>1. /\ m.phase = phase /\ m.round = round /\ m.pool = pool /\ m.shop = shop
          /\ m.locked = locked /\ m.roster = roster /\ m.level = level
          /\ m.unlocked = unlocked /\ m.offers = offers /\ m.settled = settled
          /\ m.heralded = heralded /\ m.alive = alive
      BY StateRebuilt
    <3> HIDE DEF m
    <3>2. In(m)!RosterLayouts /\ In(m)!PoolIntegrity /\ In(m)!vars = vars
      BY <2>1, <3>1, SameState
    <3>3. TheSnapshot.stateHash = vars
      BY DEF TheSnapshot
    <3> QED
      BY <3>2, <3>3 DEF Proved, m
  <2> QED
    BY <2>2, <2>3, <2>4, <2>5 DEF Accepted
<1> QED
  BY <1>1, HoldingsKept, PTL

\* With what OverflowOfOneKept assumes: only a snapshot taken while somebody fields the
\* Queen can be one that Restore refuses.
THEOREM RestoresUnlessQueenFielded ==
  ASSUME Queen # Herald, \A c \in Champions \ {Queen} : TeamSlots[c] <= 1,
         GiftOptions <= MaxOffers, IsFiniteSet(Gated), Cardinality(Gated) <= MaxUnlocked
  PROVE  Spec => []((\A p \in Players : ~ Fielded(roster[p], Queen)) => EverySnapshotRestores)
<1> DEFINE Queenless == \A p \in Players : ~ Fielded(roster[p], Queen)
<1>1. HoldingsInv /\ OverflowOfOne => (Queenless => WithinCapacity)
  <2> SUFFICES ASSUME HoldingsInv, OverflowOfOne, Queenless, NEW p \in Players
               PROVE  BoardCount(roster[p]) <= level[p]
    BY DEF WithinCapacity
  <2>1. level[p] \in Nat
    BY HoldingsFacts, MatchAssumption DEF Clock, Levels
  <2>2. BoardCount(roster[p]) <= level[p] + 0
    BY DEF OverflowOfOne
  <2> QED
    BY <2>1, <2>2, FightersFinite
<1>2. Spec => []OverflowOfOne
  BY OverflowOfOneKept
<1>3. Spec => []SnapshotsRestore
  BY SnapshotsRestoreKept
<1>4. SnapshotsRestore /\ WithinCapacity => EverySnapshotRestores
  BY DEF SnapshotsRestore, EverySnapshotRestores
<1> HIDE DEF Queenless
<1>5. Spec => [](Queenless => EverySnapshotRestores)
  BY <1>1, <1>2, <1>3, <1>4, HoldingsKept, PTL
<1> QED
  BY <1>5 DEF Queenless
=============================================================================
