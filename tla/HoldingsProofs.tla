--------------------------- MODULE HoldingsProofs ---------------------------
(***************************************************************************)
(* What one player has: the units and their items in a match (UnitRoster,  *)
(* ItemRoster), coins and a history between the matches (Accounts), and    *)
(* how a bot deals with its units and its gold (Bots).                     *)
(*                                                                         *)
(* The roster state machine keeps its type and its layout; with the items  *)
(* its units carry, it neither loses nor doubles a component; an account's *)
(* coins add up and its history is backed, in memory and on disk, whatever *)
(* fails; a bot sells a unit only for one worth as much.  All of this for  *)
(* every value of the constants.                                           *)
(*                                                                         *)
(* Items and coins are about sums over functions.  A fold over a finite    *)
(* set is shown to be defined by minimal counterexample (FoldExists), from *)
(* which follows what a sum is and how a change at one point changes it    *)
(* (SumIs, PointChange); a change of a whole unit's load is made slot by   *)
(* slot (Mixed, RowChange, ReturnedParts, AllHandedOn).                    *)
(***************************************************************************)
EXTENDS ItemRoster, Accounts, Bots, RosterProofs

-----------------------------------------------------------------------------
(* The roster.                                                             *)

\* Every operation leaves a roster of placed units and a capacity within the limit.
THEOREM TypeCorrect == Spec => []TypeOK
<1>1. Init => TypeOK
  BY CapacityAssumption DEF Init, TypeOK, EmptyRoster, Rosters
<1>2. TypeOK /\ [Next]_vars => TypeOK'
  <2> SUFFICES ASSUME TypeOK, [Next]_vars
               PROVE  TypeOK'
    OBVIOUS
  <2>1. ASSUME NEW c \in Champions \ Plants, AddUnit(c)
        PROVE  TypeOK'
    BY <2>1, AddType DEF AddUnit, TypeOK
  <2>2. ASSUME NEW x \in Cells, NEW y \in Cells, MoveUnit(x, y)
        PROVE  TypeOK'
    BY <2>2, MovedType, PlacesFact DEF MoveUnit, TypeOK
  <2>3. ASSUME NEW x \in Cells, RemoveUnit(x)
        PROVE  TypeOK'
    BY <2>3, RemovedType DEF RemoveUnit, TypeOK
  <2>4. ASSUME NEW c \in Plants, NEW s \in PlantStars, NEW x \in Board, GrowPlant(c, s, x)
        PROVE  TypeOK'
    <3>1. Unit(c, s) \in Units
      BY RosterAssumption, CapacityAssumption, UnitFact DEF MaxStar
    <3> QED
      BY <2>4, <3>1 DEF GrowPlant, TypeOK, Rosters
  <2>5. CASE RaiseCapacity
    BY <2>5, CapacityAssumption DEF RaiseCapacity, TypeOK
  <2>6. CASE UNCHANGED vars
    BY <2>6 DEF vars, TypeOK
  <2> QED
    BY <2>1, <2>2, <2>3, <2>4, <2>5, <2>6 DEF Next
<1> QED
  BY <1>1, <1>2, PTL DEF Spec

\* Add never leaves a unit unplaced (the assertion in UnitRoster::Add), three equal
\* copies never stay unmerged and plants never leave the board, in any sequence of calls.
THEOREM LayoutKept == Spec => []Layout
<1>1. Init => Layout
  <2>1. ASSUME NEW c \in Champions \ Plants, NEW s \in 1 .. MaxStar - 1
        PROVE  Cardinality(CopiesAt(EmptyRoster, c, s)) <= 2
    <3>1. Unit(c, s) # Empty
      BY UnitFact DEF MaxStar
    <3>2. CopiesAt(EmptyRoster, c, s) = {}
      BY <3>1 DEF CopiesAt, EmptyRoster
    <3> QED
      BY <3>2, FS_EmptySet
  <2>2. NothingUnplaced(EmptyRoster) /\ PlantsOnBoard(EmptyRoster)
    BY PlacesFact, NotAPlant DEF NothingUnplaced, PlantsOnBoard, EmptyRoster
  <2> QED
    BY <2>1, <2>2 DEF Init, Layout, CheckInvariants, NoLooseTriple
<1>2. TypeOK /\ Layout /\ TypeOK' /\ [Next]_vars => Layout'
  <2> SUFFICES ASSUME TypeOK, Layout, TypeOK', [Next]_vars
               PROVE  Layout'
    OBVIOUS
  <2> USE DEF TypeOK, Layout
  <2>1. ASSUME NEW c \in Champions \ Plants, AddUnit(c)
        PROVE  Layout'
    BY <2>1, AddLayout DEF AddUnit
  <2>2. ASSUME NEW x \in Cells, NEW y \in Cells, MoveUnit(x, y)
        PROVE  Layout'
    BY <2>2, MovedLayout DEF MoveUnit
  <2>3. ASSUME NEW x \in Cells, RemoveUnit(x)
        PROVE  Layout'
    <3>1. \A z \in Places : units'[z] = units[z] \/ units'[z] = Empty
      BY <2>3 DEF RemoveUnit, Removed, Rosters
    <3> QED
      BY <3>1, ReplacedLayout
  <2>4. ASSUME NEW c \in Plants, NEW s \in PlantStars, NEW x \in Board, GrowPlant(c, s, x)
        PROVE  Layout'
    <3>1. \A z \in Places : units'[z] = units[z] \/ (z \in Board /\ units'[z] = Unit(c, s))
      BY <2>4 DEF GrowPlant, Rosters
    <3>2. s \in 1 .. 3
      BY CapacityAssumption DEF MaxStar
    <3> QED
      BY <3>1, <3>2, ReplacedLayout
  <2>5. CASE RaiseCapacity
    BY <2>5 DEF RaiseCapacity
  <2>6. CASE UNCHANGED vars
    BY <2>6 DEF vars
  <2> QED
    BY <2>1, <2>2, <2>3, <2>4, <2>5, <2>6 DEF Next
<1> QED
  BY <1>1, <1>2, TypeCorrect, PTL DEF Spec

\* Adding a copy is worth exactly one copy of its champion and none of another.
THEOREM AddWorthKept == Spec => AddIsWorthOneCopy
<1>1. TypeOK /\ Layout =>
        (units' # units => \A c \in Champions \ Plants :
           AddUnit(c) => \A d \in Champions :
             Worth(units', d) = Worth(units, d) + (IF d = c THEN 1 ELSE 0))
  <2> SUFFICES ASSUME TypeOK, Layout, NEW c \in Champions \ Plants, AddUnit(c), NEW d \in Champions
               PROVE  Worth(units', d) = Worth(units, d) + (IF d = c THEN 1 ELSE 0)
    OBVIOUS
  <2>1. units \in Rosters /\ NothingUnplaced(units) /\ NoLooseTriple(units)
    BY DEF TypeOK, Layout, CheckInvariants
  <2>2. units' = Add(units, capacity, c)
    BY DEF AddUnit
  <2> QED
    BY <2>1, <2>2, AddWorth
<1> QED
  BY <1>1, TypeCorrect, LayoutKept, PTL DEF AddIsWorthOneCopy

\* A champion with a copy on the board keeps one there through every Add.
THEOREM FieldedKept == Spec => MergeKeepsFielded
<1>1. TypeOK /\ Layout =>
        (units' # units => \A c \in Champions \ Plants :
           AddUnit(c) => \A d \in Champions : Fielded(units, d) => Fielded(units', d))
  <2> SUFFICES ASSUME TypeOK, Layout, NEW c \in Champions \ Plants, AddUnit(c),
                      NEW d \in Champions, Fielded(units, d)
               PROVE  Fielded(units', d)
    OBVIOUS
  <2>1. units \in Rosters /\ NothingUnplaced(units) /\ NoLooseTriple(units)
    BY DEF TypeOK, Layout, CheckInvariants
  <2>2. units' = Add(units, capacity, c) /\ OnBoard(units, d)
    BY DEF AddUnit, Fielded, OnBoard
  <2>3. OnBoard(units', d)
    BY <2>1, <2>2, AddKeepsOnBoard
  <2> QED
    BY <2>3 DEF Fielded, OnBoard
<1> QED
  BY <1>1, TypeCorrect, LayoutKept, PTL DEF MergeKeepsFielded

\* What BenchOnlyPurchaseFits lets through during a fight leaves every hex as it is.
THEOREM BenchOnlyKept == Spec => []BenchOnlyKeepsBoard
<1>1. TypeOK => BenchOnlyKeepsBoard
  BY BenchOnlyTouchesNoHex DEF TypeOK, BenchOnlyKeepsBoard
<1> QED
  BY <1>1, TypeCorrect, PTL

-----------------------------------------------------------------------------
(* Folds over a finite set.  That a fold is defined is shown without an    *)
(* induction theorem: the sizes for which it is not have no least element. *)

\* To fold op over the subsets of S, in the order of pick.
Foldable(S, A, base, op, pick) ==
  /\ IsFiniteSet(S) /\ base \in A /\ op \in [S \X A -> A]
  /\ \A s \in SUBSET S : s # {} => pick[s] \in s

FoldedBy(S, A, base, op, pick, g) ==
  /\ g \in [SUBSET S -> A]
  /\ \A s \in SUBSET S : g[s] = IF s = {} THEN base ELSE op[<<pick[s], g[s \ {pick[s]}]>>]

\* Folding op over any finite set, in the order of pick, is defined on its subsets.
LEMMA FoldExists ==
  ASSUME NEW S, NEW A, NEW base, NEW op, NEW pick, Foldable(S, A, base, op, pick)
  PROVE  \E g : FoldedBy(S, A, base, op, pick, g)
<1> USE DEF Foldable
<1> DEFINE Small(n) == {s \in SUBSET S : Cardinality(s) <= n}
           Step(g, s) == IF s = {} THEN base ELSE op[<<pick[s], g[s \ {pick[s]}]>>]
           Folds(n, g) == g \in [SUBSET S -> A] /\ \A s \in Small(n) : g[s] = Step(g, s)
           Bad == {n \in Nat : ~ \E g : Folds(n, g)}
<1>1. \A s \in SUBSET S : Cardinality(s) \in Nat /\ Cardinality(s) <= Cardinality(S)
  BY FS_Subset, FS_CardinalityType
<1>2. Bad = {}
  <2> SUFFICES ASSUME Bad # {} PROVE FALSE
    OBVIOUS
  <2>1. PICK n \in Bad : \A m \in Bad : n <= m
    <3>1. Bad \subseteq Nat
      OBVIOUS
    <3> HIDE DEF Bad
    <3> QED
      BY <3>1, NatMin
  <2>2. n \in Nat /\ ~ \E g : Folds(n, g)
    OBVIOUS
  <2>3. \A m \in Nat : m < n => m \notin Bad
    <3> HIDE DEF Bad
    <3> QED
      BY <2>1, <2>2
  <2>4. CASE n = 0
    <3>1. Small(0) \subseteq {{}}
      <4> SUFFICES ASSUME NEW s \in SUBSET S, Cardinality(s) <= 0 PROVE s = {}
        OBVIOUS
      <4>1. Cardinality(s) = 0 /\ IsFiniteSet(s)
        BY <1>1, FS_Subset
      <4> QED
        BY <4>1, FS_EmptySet
    <3>2. Folds(0, [s \in SUBSET S |-> base])
      BY <3>1
    <3> QED
      BY <2>4, <3>2, <2>2
  <2>5. CASE n # 0
    <3>1. n - 1 \in Nat /\ n - 1 < n
      BY <2>2, <2>5
    <3>2. PICK g : Folds(n - 1, g)
      BY <2>3, <3>1
    <3> DEFINE h == [s \in SUBSET S |-> IF Cardinality(s) <= n - 1 THEN g[s] ELSE Step(g, s)]
    <3>3. h \in [SUBSET S -> A]
      <4> SUFFICES ASSUME NEW s \in SUBSET S PROVE Step(g, s) \in A
        BY <3>2
      <4> QED
        BY <3>2
    <3>4. ASSUME NEW s \in Small(n) PROVE h[s] = Step(h, s)
      <4>1. h[s] = Step(g, s)
        BY <3>2
      <4>2. CASE s = {}
        BY <4>1, <4>2
      <4>3. CASE s # {}
        <5>1. pick[s] \in s
          BY <4>3
        <5>2. Cardinality(s \ {pick[s]}) = Cardinality(s) - 1
          BY <5>1, FS_RemoveElement, FS_Subset
        <5>3. Cardinality(s \ {pick[s]}) <= n - 1
          BY <5>2, <1>1, <2>2
        <5>4. h[s \ {pick[s]}] = g[s \ {pick[s]}]
          BY <5>3
        <5> HIDE DEF h
        <5> QED
          BY <4>1, <4>3, <5>4
      <4> QED
        BY <4>2, <4>3
    <3>5. Folds(n, h)
      BY <3>3, <3>4
    <3> QED
      BY <3>5, <2>2
  <2> QED
    BY <2>4, <2>5
<1>3. PICK g : Folds(Cardinality(S), g)
  BY <1>1, <1>2
<1>4. \A s \in SUBSET S : s \in Small(Cardinality(S))
  BY <1>1
<1> QED
  BY <1>3, <1>4 DEF FoldedBy

\* Among subsets of a finite set there is a least one.
LEMMA LeastSubset ==
  ASSUME NEW S, IsFiniteSet(S), NEW Bad, Bad \subseteq SUBSET S, Bad # {}
  PROVE  \E s \in Bad : \A r \in Bad : ~ (r \subseteq s /\ r # s)
<1>1. IsWellFoundedOn(StrictSubsetOrdering(S), SUBSET S)
  <2>1. IsWellFoundedOn(StrictSubsetOrdering(S), FiniteSubsetsOf(S))
    BY ONLY FS_StrictSubsetOrderingWellFounded
  <2>2. FiniteSubsetsOf(S) = SUBSET S
    BY FS_FiniteSubsetsOfFinite
  <2> QED
    BY ONLY <2>1, <2>2
<1>2. PICK s \in Bad : \A r \in Bad : <<r, s>> \notin StrictSubsetOrdering(S)
  BY <1>1, WFMin
<1> QED
  BY <1>2 DEF StrictSubsetOrdering

-----------------------------------------------------------------------------
(* Sums.                                                                   *)

SumStep(d, g, s) == IF s = {} THEN 0 ELSE LET x == CHOOSE x \in s : TRUE IN d[x] + g[s \ {x}]

\* g has the sum of d over each set of its arguments.
Sums(d, g) == g = [s \in SUBSET DOMAIN d |-> SumStep(d, g, s)]

LEMMA SumIs ==
  ASSUME NEW S, IsFiniteSet(S), NEW d \in [S -> Int]
  PROVE  \E g : Sums(d, g) /\ SumFunction(d) = g[S]
<1> DEFINE pick == [s \in SUBSET S |-> CHOOSE x \in s : TRUE]
           op == [p \in S \X Int |-> d[p[1]] + p[2]]
           f == CHOOSE g : g = [s \in SUBSET DOMAIN d |-> SumStep(d, g, s)]
<1>1. \E g : g = [s \in SUBSET DOMAIN d |-> SumStep(d, g, s)]
  <2>1. \A s \in SUBSET S : s # {} => pick[s] \in s
    OBVIOUS
  <2>2. Foldable(S, Int, 0, op, pick)
    BY <2>1 DEF Foldable
  <2>3. PICK g : FoldedBy(S, Int, 0, op, pick, g)
    <3> HIDE DEF pick, op
    <3> QED
      BY <2>2, FoldExists
  <2>4. /\ g \in [SUBSET S -> Int]
        /\ \A s \in SUBSET S : g[s] = IF s = {} THEN 0 ELSE op[<<pick[s], g[s \ {pick[s]}]>>]
    <3> HIDE DEF pick, op
    <3> QED
      BY <2>3 DEF FoldedBy
  <2>5. ASSUME NEW s \in SUBSET S PROVE g[s] = SumStep(d, g, s)
    <3>1. CASE s = {}
      BY <2>4, <3>1 DEF SumStep
    <3>2. CASE s # {}
      <4>1. pick[s] \in s /\ pick[s] \in S /\ g[s \ {pick[s]}] \in Int
        BY <2>1, <2>4, <3>2
      <4>2. g[s] = d[pick[s]] + g[s \ {pick[s]}]
        <5>1. op[<<pick[s], g[s \ {pick[s]}]>>] = d[pick[s]] + g[s \ {pick[s]}]
          <6> HIDE DEF pick
          <6> QED
            BY <4>1
        <5> QED
          BY <5>1, <2>4, <3>2
      <4> QED
        BY <4>2, <3>2 DEF SumStep
    <3> QED
      BY <3>1, <3>2
  <2>6. g = [s \in SUBSET S |-> SumStep(d, g, s)]
    <3>1. g = [s \in SUBSET S |-> g[s]]
      BY <2>4
    <3> QED
      BY <2>5, <3>1
  <2> QED
    BY <2>6
<1>2. SumFunction(d) = f[S]
  BY DEF SumFunction, SumFunctionOnSet, FoldFunctionOnSet, MapThenFoldSet, SumStep
<1> QED
  BY <1>1, <1>2 DEF Sums

\* When one summand grows by v, so does the sum.
LEMMA PointChange ==
  ASSUME NEW S, IsFiniteSet(S), NEW d \in [S -> Int], NEW e \in [S -> Int], NEW a \in S, NEW v \in Int,
         e[a] = d[a] + v, \A x \in S \ {a} : e[x] = d[x]
  PROVE  /\ SumFunction(d) \in Int /\ SumFunction(e) \in Int
         /\ SumFunction(e) = SumFunction(d) + v
<1>1. PICK g : Sums(d, g) /\ SumFunction(d) = g[S]
  BY SumIs
<1>2. PICK h : Sums(e, h) /\ SumFunction(e) = h[S]
  BY SumIs
<1> DEFINE Good(s) == g[s] \in Int /\ h[s] = g[s] + (IF a \in s THEN v ELSE 0)
           Bad == {s \in SUBSET S : ~ Good(s)}
<1>3. Bad = {}
  <2> SUFFICES ASSUME Bad # {} PROVE FALSE
    OBVIOUS
  <2>1. PICK s \in Bad : \A r \in Bad : ~ (r \subseteq s /\ r # s)
    <3>1. Bad \subseteq SUBSET S
      OBVIOUS
    <3> HIDE DEF Bad
    <3> QED
      BY <3>1, LeastSubset
  <2>2. g[s] = SumStep(d, g, s) /\ h[s] = SumStep(e, h, s)
    BY <1>1, <1>2 DEF Sums
  <2>3. CASE s = {}
    BY <2>2, <2>3 DEF SumStep
  <2>4. CASE s # {}
    <3> DEFINE x == CHOOSE x \in s : TRUE
    <3>1. x \in s
      BY <2>4
    <3>2. g[s] = d[x] + g[s \ {x}] /\ h[s] = e[x] + h[s \ {x}]
      BY <2>2, <2>4 DEF SumStep
    <3> HIDE DEF x
    <3>3. Good(s \ {x})
      BY <2>1, <3>1
    <3>4. d[x] \in Int /\ e[x] = d[x] + (IF x = a THEN v ELSE 0)
      BY <3>1
    <3>5. Good(s)
      BY <3>1, <3>2, <3>3, <3>4
    <3> QED
      BY <3>5
  <2> QED
    BY <2>3, <2>4
<1>4. Good(S)
  BY <1>3
<1> QED
  BY <1>1, <1>2, <1>4

\* A sum of zeros is zero.
LEMMA ZeroSum ==
  ASSUME NEW S, IsFiniteSet(S), NEW d \in [S -> Int], \A x \in S : d[x] = 0
  PROVE  SumFunction(d) = 0
<1>1. PICK g : Sums(d, g) /\ SumFunction(d) = g[S]
  BY SumIs
<1> DEFINE Bad == {s \in SUBSET S : g[s] # 0}
<1>2. Bad = {}
  <2> SUFFICES ASSUME Bad # {} PROVE FALSE
    OBVIOUS
  <2>1. PICK s \in Bad : \A r \in Bad : ~ (r \subseteq s /\ r # s)
    <3>1. Bad \subseteq SUBSET S
      OBVIOUS
    <3> HIDE DEF Bad
    <3> QED
      BY <3>1, LeastSubset
  <2>2. g[s] = SumStep(d, g, s)
    BY <1>1 DEF Sums
  <2>3. CASE s = {}
    BY <2>2, <2>3 DEF SumStep
  <2>4. CASE s # {}
    <3> DEFINE x == CHOOSE x \in s : TRUE
    <3>1. x \in s
      BY <2>4
    <3>2. g[s] = d[x] + g[s \ {x}]
      BY <2>2, <2>4 DEF SumStep
    <3> HIDE DEF x
    <3>3. g[s \ {x}] = 0
      BY <2>1, <3>1
    <3> QED
      BY <3>1, <3>2, <3>3
  <2> QED
    BY <2>3, <2>4
<1> QED
  BY <1>1, <1>2

-----------------------------------------------------------------------------
(* How much of a component there is on units and in a bag.                 *)

Slots == 1 .. ItemSlots
Loads == [Slots -> Items \cup {NoItem}]
Bags  == [Items -> Nat]

PartIn(k, i) == IF k = NoItem THEN 0 ELSE Parts(k, i)

OnUnit(h, i)   == SumFunction([k \in Slots |-> PartIn(h[k], i)])
OnUnits(it, i) == SumFunction([t \in Places \X Slots |-> PartIn(it[t[1]][t[2]], i)])
InTheBag(b, i) == SumFunction([k \in Items |-> b[k] * Parts(k, i)])

\* An item holds a component not at all, once or twice.
LEMMA PartsType ==
  ASSUME NEW i \in Base
  PROVE  /\ \A k \in Items : Parts(k, i) \in 0 .. 2
         /\ \A k \in Items \cup {NoItem} : PartIn(k, i) \in 0 .. 2
BY ItemAssumption DEF Parts, PartIn

\* There are finitely many slots, places and items.
LEMMA FiniteSlots ==
  IsFiniteSet(Slots) /\ IsFiniteSet(Places \X Slots) /\ IsFiniteSet(Items) /\ ItemSlots \in Nat \ {0}
<1>1. ItemSlots \in Nat \ {0} /\ IsFiniteSet(Items)
  BY ItemAssumption
<1>2. IsFiniteSet(Slots)
  BY <1>1, FS_Interval DEF Slots
<1> QED
  BY <1>1, <1>2, PlacesFact, FS_Product

\* Another item in one slot changes what the unit holds by what the two differ in.
LEMMA SlotChange ==
  ASSUME NEW i \in Base, NEW h \in Loads, NEW e \in Loads, NEW k \in Slots,
         \A n \in Slots \ {k} : e[n] = h[n]
  PROVE  /\ OnUnit(h, i) \in Int /\ OnUnit(e, i) \in Int
         /\ OnUnit(e, i) = OnUnit(h, i) + PartIn(e[k], i) - PartIn(h[k], i)
<1> DEFINE d == [n \in Slots |-> PartIn(h[n], i)]
           f == [n \in Slots |-> PartIn(e[n], i)]
           v == PartIn(e[k], i) - PartIn(h[k], i)
<1>1. \A n \in Slots : PartIn(h[n], i) \in 0 .. 2 /\ PartIn(e[n], i) \in 0 .. 2
  BY PartsType DEF Loads
<1>2. d \in [Slots -> Int] /\ f \in [Slots -> Int] /\ v \in Int
  BY <1>1
<1>3. f[k] = d[k] + v /\ \A n \in Slots \ {k} : f[n] = d[n]
  BY <1>1
<1>4. SumFunction(d) \in Int /\ SumFunction(f) \in Int /\ SumFunction(f) = SumFunction(d) + v
  <2> HIDE DEF d, f, v
  <2> QED
    BY <1>2, <1>3, FiniteSlots, PointChange
<1> QED
  BY <1>1, <1>4 DEF OnUnit

\* The same for all units together.
LEMMA PlacedSlotChange ==
  ASSUME NEW i \in Base, NEW it \in [Places -> Loads], NEW jt \in [Places -> Loads],
         NEW x \in Places, NEW k \in Slots, \A y \in Places \ {x} : jt[y] = it[y],
         \A n \in Slots \ {k} : jt[x][n] = it[x][n]
  PROVE  /\ OnUnits(it, i) \in Int /\ OnUnits(jt, i) \in Int
         /\ OnUnits(jt, i) = OnUnits(it, i) + PartIn(jt[x][k], i) - PartIn(it[x][k], i)
<1> DEFINE d == [t \in Places \X Slots |-> PartIn(it[t[1]][t[2]], i)]
           f == [t \in Places \X Slots |-> PartIn(jt[t[1]][t[2]], i)]
           v == PartIn(jt[x][k], i) - PartIn(it[x][k], i)
<1>1. \A t \in Places \X Slots : PartIn(it[t[1]][t[2]], i) \in 0 .. 2 /\ PartIn(jt[t[1]][t[2]], i) \in 0 .. 2
  BY PartsType DEF Loads
<1>2. <<x, k>> \in Places \X Slots
  OBVIOUS
<1>3. PartIn(it[x][k], i) \in 0 .. 2 /\ PartIn(jt[x][k], i) \in 0 .. 2
  BY PartsType DEF Loads
<1>4. d \in [Places \X Slots -> Int] /\ f \in [Places \X Slots -> Int] /\ v \in Int
  BY <1>1, <1>3
<1>5. d[<<x, k>>] = PartIn(it[x][k], i) /\ f[<<x, k>>] = PartIn(jt[x][k], i)
  BY <1>2
<1>6. \A t \in (Places \X Slots) \ {<<x, k>>} : f[t] = d[t]
  <2> SUFFICES ASSUME NEW t \in (Places \X Slots) \ {<<x, k>>} PROVE jt[t[1]][t[2]] = it[t[1]][t[2]]
    OBVIOUS
  <2>1. t[1] \in Places /\ t[2] \in Slots /\ (t[1] = x => t[2] # k)
    OBVIOUS
  <2> QED
    BY <2>1
<1>7. f[<<x, k>>] = d[<<x, k>>] + v
  BY <1>3, <1>5
<1>8. SumFunction(d) \in Int /\ SumFunction(f) \in Int /\ SumFunction(f) = SumFunction(d) + v
  <2>1. PICK S, p : S = Places \X Slots /\ p = <<x, k>>
    OBVIOUS
  <2> HIDE DEF d, f, v
  <2>2. IsFiniteSet(S) /\ p \in S /\ d \in [S -> Int] /\ f \in [S -> Int] /\ v \in Int
    BY <1>2, <1>4, <2>1, FiniteSlots
  <2>3. f[p] = d[p] + v /\ \A t \in S \ {p} : f[t] = d[t]
    BY <1>6, <1>7, <2>1
  <2> QED
    BY <2>2, <2>3, PointChange
<1> QED
  BY <1>3, <1>8 DEF OnUnits

\* Sums are numbers, and nothing weighs nothing.
LEMMA SumTypes ==
  ASSUME NEW i \in Base
  PROVE  /\ \A h \in Loads : OnUnit(h, i) \in Int
         /\ \A it \in [Places -> Loads] : OnUnits(it, i) \in Int
         /\ \A b \in [Items -> Int] : InTheBag(b, i) \in Int
         /\ NoItems \in Loads /\ OnUnit(NoItems, i) = 0
<1>1. 1 \in Slots /\ Hand \in Places
  BY FiniteSlots, PlacesFact DEF Slots
<1>2. \A h \in Loads : OnUnit(h, i) \in Int
  BY <1>1, SlotChange
<1>3. \A it \in [Places -> Loads] : OnUnits(it, i) \in Int
  BY <1>1, PlacedSlotChange
<1>4. ASSUME NEW b \in [Items -> Int] PROVE InTheBag(b, i) \in Int
  <2> DEFINE d == [k \in Items |-> b[k] * Parts(k, i)]
  <2>1. d \in [Items -> Int]
    BY PartsType
  <2>2. i \in Items /\ d[i] = d[i] + 0
    BY <2>1 DEF Base
  <2>3. SumFunction(d) \in Int
    <3> HIDE DEF d
    <3>1. 0 \in Int
      OBVIOUS
    <3> QED
      BY <2>1, <2>2, <3>1, FiniteSlots, PointChange
  <2> QED
    BY <2>3 DEF InTheBag
<1>5. NoItems \in Loads
  BY DEF NoItems, Loads, Slots
<1>6. OnUnit(NoItems, i) = 0
  <2> DEFINE d == [k \in Slots |-> PartIn(NoItems[k], i)]
  <2>1. d \in [Slots -> Int] /\ \A k \in Slots : d[k] = 0
    BY DEF NoItems, PartIn, Slots
  <2>2. SumFunction(d) = 0
    <3> HIDE DEF d
    <3> QED
      BY <2>1, FiniteSlots, ZeroSum
  <2> QED
    BY <2>2 DEF OnUnit
<1> QED
  BY <1>2, <1>3, <1>4, <1>5, <1>6

\* One item more, or one less, in the bag.
LEMMA BagChange ==
  ASSUME NEW i \in Base, NEW b \in [Items -> Int], NEW e \in [Items -> Int], NEW a \in Items, NEW v \in {-1, 1},
         e[a] = b[a] + v, \A k \in Items \ {a} : e[k] = b[k]
  PROVE  InTheBag(e, i) = InTheBag(b, i) + (IF v = 1 THEN Parts(a, i) ELSE 0 - Parts(a, i))
<1> DEFINE d == [k \in Items |-> b[k] * Parts(k, i)]
           f == [k \in Items |-> e[k] * Parts(k, i)]
           w == IF v = 1 THEN Parts(a, i) ELSE 0 - Parts(a, i)
<1>1. \A k \in Items : Parts(k, i) \in 0 .. 2
  BY PartsType
<1>2. d \in [Items -> Int] /\ f \in [Items -> Int] /\ w \in Int
  BY <1>1
<1>3. f[a] = d[a] + w
  <2>1. b[a] \in Int /\ e[a] = b[a] + v
    OBVIOUS
  <2>2. Parts(a, i) = 0 \/ Parts(a, i) = 1 \/ Parts(a, i) = 2
    BY <1>1
  <2>3. e[a] * Parts(a, i) = b[a] * Parts(a, i) + w
    BY <2>1, <2>2
  <2> QED
    BY <2>3
<1>4. \A k \in Items \ {a} : f[k] = d[k]
  OBVIOUS
<1>5. SumFunction(f) = SumFunction(d) + w
  <2> HIDE DEF d, f, w
  <2> QED
    BY <1>2, <1>3, <1>4, FiniteSlots, PointChange
<1> QED
  BY <1>5 DEF InTheBag

-----------------------------------------------------------------------------
(* A unit's slots one after the other.                                     *)

\* The first n slots of h, and those of e from there on.
Mixed(h, e, n) == [k \in Slots |-> IF k <= n THEN h[k] ELSE e[k]]

LEMMA MixedIs ==
  ASSUME NEW h \in Loads, NEW e \in Loads
  PROVE  /\ \A n \in Int : Mixed(h, e, n) \in Loads
         /\ \A n \in Int : n <= 0 => Mixed(h, e, n) = e
         /\ \A n \in Int : n >= ItemSlots => Mixed(h, e, n) = h
         /\ \A n \in Slots : /\ Mixed(h, e, n)[n] = h[n] /\ Mixed(h, e, n - 1)[n] = e[n]
                             /\ \A k \in Slots \ {n} : Mixed(h, e, n)[k] = Mixed(h, e, n - 1)[k]
BY FiniteSlots DEF Mixed, Loads, Slots

\* A new load for one unit changes the total by what the two loads differ in.
LEMMA RowChange ==
  ASSUME NEW i \in Base, NEW it \in [Places -> Loads], NEW jt \in [Places -> Loads], NEW x \in Places,
         \A y \in Places \ {x} : jt[y] = it[y]
  PROVE  OnUnits(jt, i) = OnUnits(it, i) + OnUnit(jt[x], i) - OnUnit(it[x], i)
<1> DEFINE m(n) == Mixed(jt[x], it[x], n)
           M(n) == [it EXCEPT ![x] = m(n)]
           Good(n) == OnUnits(M(n), i) = OnUnits(it, i) + OnUnit(m(n), i) - OnUnit(it[x], i)
           Bad == {n \in 0 .. ItemSlots : ~ Good(n)}
<1>1. it[x] \in Loads /\ jt[x] \in Loads /\ ItemSlots \in Nat
  BY FiniteSlots
<1>2. \A n \in Int : m(n) \in Loads /\ M(n) \in [Places -> Loads]
  BY <1>1, MixedIs
<1>3. Bad = {}
  <2> SUFFICES ASSUME Bad # {} PROVE FALSE
    OBVIOUS
  <2>1. PICK n \in Bad : \A r \in Bad : n <= r
    <3>1. Bad \subseteq Nat
      BY <1>1
    <3> HIDE DEF Bad
    <3> QED
      BY <3>1, NatMin
  <2>2. n \in 0 .. ItemSlots /\ ~ Good(n)
    BY <2>1
  <2>3. CASE n = 0
    <3>1. m(0) = it[x]
      BY <1>1, MixedIs
    <3>2. M(0) = it
      BY <3>1
    <3>3. Good(0)
      <4> HIDE DEF M, m
      <4> QED
        BY <3>1, <3>2, <1>1, SumTypes
    <3> QED
      BY <2>2, <2>3, <3>3
  <2>4. CASE n # 0
    <3>1. n \in Slots /\ n - 1 \in 0 .. ItemSlots /\ n \in Int /\ n - 1 \in Int
      BY <2>2, <2>4, <1>1 DEF Slots
    <3>2. Good(n - 1)
      <4> HIDE DEF Good
      <4> QED
        BY <2>1, <3>1
    <3>3. /\ m(n)[n] = jt[x][n] /\ m(n - 1)[n] = it[x][n]
          /\ \A k \in Slots \ {n} : m(n)[k] = m(n - 1)[k]
      BY <1>1, <3>1, MixedIs
    <3>4. M(n)[x] = m(n) /\ M(n - 1)[x] = m(n - 1) /\ \A y \in Places \ {x} : M(n)[y] = M(n - 1)[y]
      OBVIOUS
    <3>5. PICK a, b : a = m(n) /\ b = m(n - 1)
      OBVIOUS
    <3>6. PICK A, B : A = M(n) /\ B = M(n - 1)
      OBVIOUS
    <3>7. a \in Loads /\ b \in Loads /\ A \in [Places -> Loads] /\ B \in [Places -> Loads]
      BY <1>2, <3>1, <3>5, <3>6
    <3> HIDE DEF M, m
    <3>8. /\ A[x] = a /\ B[x] = b /\ \A y \in Places \ {x} : A[y] = B[y]
          /\ \A k \in Slots \ {n} : a[k] = b[k]
      BY <3>3, <3>4, <3>5, <3>6
    <3>9. /\ OnUnit(b, i) \in Int /\ OnUnit(a, i) \in Int
          /\ OnUnit(a, i) = OnUnit(b, i) + PartIn(a[n], i) - PartIn(b[n], i)
      BY <3>1, <3>7, <3>8, SlotChange
    <3>10. /\ OnUnits(B, i) \in Int /\ OnUnits(A, i) \in Int
           /\ OnUnits(A, i) = OnUnits(B, i) + PartIn(a[n], i) - PartIn(b[n], i)
      BY <3>1, <3>7, <3>8, PlacedSlotChange
    <3>11. PartIn(a[n], i) \in Int /\ PartIn(b[n], i) \in Int
      <4>1. a[n] \in Items \cup {NoItem} /\ b[n] \in Items \cup {NoItem}
        BY <3>1, <3>7 DEF Loads
      <4> QED
        BY <4>1, PartsType
    <3>12. OnUnits(it, i) \in Int /\ OnUnit(it[x], i) \in Int
      BY <1>1, SumTypes
    <3>13. OnUnits(B, i) = OnUnits(it, i) + OnUnit(b, i) - OnUnit(it[x], i)
      BY <3>2, <3>5, <3>6
    <3>14. Good(n)
      BY <3>5, <3>6, <3>9, <3>10, <3>11, <3>12, <3>13
    <3> QED
      BY <2>2, <3>14
  <2> QED
    BY <2>3, <2>4
<1>4. Good(ItemSlots)
  <2> HIDE DEF Good
  <2> QED
    BY <1>1, <1>3
<1>5. m(ItemSlots) = jt[x]
  BY <1>1, MixedIs
<1>6. M(ItemSlots) = jt
  BY <1>5
<1> QED
  <2> HIDE DEF m, M
  <2> QED
    BY <1>4, <1>5, <1>6

\* Taking everything off a unit moves what it held to the bag.
LEMMA ReturnedParts ==
  ASSUME NEW i \in Base, NEW h \in Loads, NEW b \in Bags
  PROVE  /\ Returned(b, h) \in Bags
         /\ InTheBag(Returned(b, h), i) = InTheBag(b, i) + OnUnit(h, i)
<1> DEFINE m(n) == Mixed(h, NoItems, n)
           Good(n) == InTheBag(Returned(b, m(n)), i) = InTheBag(b, i) + OnUnit(m(n), i)
           Bad == {n \in 0 .. ItemSlots : ~ Good(n)}
<1>1. NoItems \in Loads /\ ItemSlots \in Nat /\ b \in [Items -> Int] /\ OnUnit(NoItems, i) = 0
  BY FiniteSlots, SumTypes DEF Bags
<1>2. \A n \in Int : m(n) \in Loads
  BY <1>1, MixedIs
<1>3. \A e \in Loads : Returned(b, e) \in Bags
  <2> SUFFICES ASSUME NEW e \in Loads, NEW j \in Items PROVE b[j] + Cardinality({k \in 1 .. ItemSlots : e[k] = j}) \in Nat
    BY DEF Returned, Bags
  <2>1. Cardinality({k \in 1 .. ItemSlots : e[k] = j}) \in Nat
    BY FiniteSlots, FS_Subset, FS_CardinalityType DEF Slots
  <2> QED
    BY <2>1 DEF Bags
<1>4. Bad = {}
  <2> SUFFICES ASSUME Bad # {} PROVE FALSE
    OBVIOUS
  <2>1. PICK n \in Bad : \A r \in Bad : n <= r
    <3>1. Bad \subseteq Nat
      BY <1>1
    <3> HIDE DEF Bad
    <3> QED
      BY <3>1, NatMin
  <2>2. n \in 0 .. ItemSlots /\ ~ Good(n)
    BY <2>1
  <2>3. CASE n = 0
    <3>1. m(0) = NoItems
      BY <1>1, MixedIs
    <3>2. Returned(b, NoItems) = b
      <4> SUFFICES ASSUME NEW j \in Items PROVE b[j] + Cardinality({k \in 1 .. ItemSlots : NoItems[k] = j}) = b[j]
        BY <1>1 DEF Returned
      <4>1. {k \in 1 .. ItemSlots : NoItems[k] = j} = {}
        BY ItemAssumption DEF NoItems
      <4>2. Cardinality({k \in 1 .. ItemSlots : NoItems[k] = j}) = 0 /\ b[j] \in Int
        BY <1>1, <4>1, FS_EmptySet
      <4> QED
        BY <4>2
    <3>3. Good(0)
      <4> HIDE DEF m
      <4> QED
        BY <3>1, <3>2, <1>1, SumTypes
    <3> QED
      BY <2>2, <2>3, <3>3
  <2>4. CASE n # 0
    <3>1. n \in Slots /\ n - 1 \in 0 .. ItemSlots /\ n \in Int /\ n - 1 \in Int
      BY <2>2, <2>4, <1>1 DEF Slots
    <3>2. Good(n - 1)
      <4> HIDE DEF Good
      <4> QED
        BY <2>1, <3>1
    <3>3. PICK a, e : a = m(n) /\ e = m(n - 1)
      OBVIOUS
    <3>4. /\ a \in Loads /\ e \in Loads /\ a[n] = h[n] /\ e[n] = NoItem
          /\ \A k \in Slots \ {n} : a[k] = e[k]
      <4>1. NoItems[n] = NoItem
        BY <3>1 DEF NoItems, Slots
      <4>2. a \in Loads /\ e \in Loads
        BY <1>2, <3>1, <3>3
      <4>3. /\ Mixed(h, NoItems, n)[n] = h[n] /\ Mixed(h, NoItems, n - 1)[n] = NoItems[n]
            /\ \A k \in Slots \ {n} : Mixed(h, NoItems, n)[k] = Mixed(h, NoItems, n - 1)[k]
        BY <1>1, <3>1, MixedIs
      <4> QED
        BY <3>3, <4>1, <4>2, <4>3
    <3>5. InTheBag(Returned(b, e), i) = InTheBag(b, i) + OnUnit(e, i)
      BY <3>2, <3>3
    <3>6. OnUnit(e, i) \in Int /\ OnUnit(a, i) = OnUnit(e, i) + PartIn(a[n], i) - PartIn(e[n], i)
      BY <3>1, <3>4, SlotChange
    <3>7. PartIn(e[n], i) = 0
      BY <3>4 DEF PartIn
    <3>8. \A j \in Items : Returned(b, a)[j] = Returned(b, e)[j] + (IF j = a[n] THEN 1 ELSE 0)
      <4> SUFFICES ASSUME NEW j \in Items
                   PROVE  Cardinality({k \in Slots : a[k] = j}) \in Nat /\ Cardinality({k \in Slots : e[k] = j}) \in Nat
                          /\ Cardinality({k \in Slots : a[k] = j}) = Cardinality({k \in Slots : e[k] = j}) + (IF j = a[n] THEN 1 ELSE 0)
        BY <1>1 DEF Returned, Slots
      <4> DEFINE E == {k \in Slots : e[k] = j}
                 W == {k \in Slots : a[k] = j}
      <4>1. j # NoItem
        BY ItemAssumption
      <4>2. n \notin E /\ W = IF j = a[n] THEN E \cup {n} ELSE E
        BY <3>1, <3>4, <4>1
      <4>3. IsFiniteSet(E)
        BY FiniteSlots, FS_Subset
      <4>4. Cardinality(E) \in Nat /\ Cardinality(E \cup {n}) = Cardinality(E) + 1
        <5> HIDE DEF E
        <5> QED
          BY <4>2, <4>3, FS_CardinalityType, FS_AddElement
      <4> HIDE DEF E, W
      <4>5. Cardinality(W) \in Nat /\ Cardinality(W) = Cardinality(E) + (IF j = a[n] THEN 1 ELSE 0)
        BY <4>2, <4>4
      <4> QED
        BY <4>4, <4>5 DEF E, W
    <3>9. PICK p, q : p = Returned(b, a) /\ q = Returned(b, e)
      OBVIOUS
    <3>10. p \in Bags /\ q \in Bags
      BY <1>3, <3>4, <3>9
    <3>11. p \in [Items -> Int] /\ q \in [Items -> Int] /\ InTheBag(q, i) \in Int
      BY <3>10, SumTypes DEF Bags
    <3>12. InTheBag(p, i) = InTheBag(q, i) + PartIn(a[n], i)
      <4>1. CASE a[n] = NoItem
        <5>1. \A j \in Items : p[j] = q[j]
          BY <3>8, <3>9, <3>11, <4>1, ItemAssumption
        <5>2. p = q
          BY <3>11, <5>1
        <5> QED
          BY <3>11, <4>1, <5>2 DEF PartIn
      <4>2. CASE a[n] # NoItem
        <5>1. a[n] \in Items
          BY <3>1, <3>4, <4>2 DEF Loads
        <5>2. p[a[n]] = q[a[n]] + 1 /\ \A j \in Items \ {a[n]} : p[j] = q[j]
          BY <3>8, <3>9, <3>11, <5>1
        <5>3. 1 \in {-1, 1}
          OBVIOUS
        <5>4. InTheBag(p, i) = InTheBag(q, i) + Parts(a[n], i)
          BY <3>11, <5>1, <5>2, <5>3, BagChange
        <5> QED
          BY <4>2, <5>4 DEF PartIn
      <4> QED
        BY <4>1, <4>2
    <3>13. Good(n)
      <4>1. InTheBag(b, i) \in Int /\ PartIn(a[n], i) \in Int
        BY <1>1, <3>1, <3>4, SumTypes, PartsType DEF Loads
      <4>2. InTheBag(p, i) = InTheBag(b, i) + OnUnit(a, i)
        BY <3>5, <3>6, <3>7, <3>9, <3>12, <4>1
      <4> HIDE DEF m
      <4> QED
        BY <3>3, <3>9, <4>2
    <3> QED
      BY <2>2, <3>13
  <2> QED
    BY <2>3, <2>4
<1>5. Good(ItemSlots)
  <2> HIDE DEF Good
  <2> QED
    BY <1>1, <1>4
<1>6. m(ItemSlots) = h
  BY <1>1, MixedIs
<1> QED
  <2> HIDE DEF m
  <2> QED
    BY <1>3, <1>5, <1>6

-----------------------------------------------------------------------------
(* Items combine and change hands.                                         *)

\* What two items make holds what they hold.
LEMMA RecipeParts ==
  ASSUME NEW i \in Base, NEW j \in Items, NEW k \in Items, NEW made \in Combination(j, k)
  PROVE  made \in Items /\ Parts(made, i) = Parts(j, i) + Parts(k, i)
<1>1. /\ made \in Combined /\ made \in Items /\ Components[made] = {j, k}
      /\ j \in Items \ Combined /\ k \in Items \ Combined
  BY ItemAssumption DEF Combination
<1>2. Parts(j, i) = (IF j = i THEN 1 ELSE 0) /\ Parts(k, i) = (IF k = i THEN 1 ELSE 0)
  BY <1>1 DEF Parts
<1>3. Parts(made, i) = IF i \in {j, k} THEN 3 - Cardinality({j, k}) ELSE 0
  BY <1>1 DEF Parts
<1>4. CASE j = k
  <2>1. Cardinality({j, k}) = 1
    BY <1>4, FS_Singleton
  <2> QED
    BY <1>1, <1>2, <1>3, <1>4, <2>1
<1>5. CASE j # k
  <2>1. Cardinality({j, k}) = 2
    <3>1. IsFiniteSet({j}) /\ Cardinality({j}) = 1 /\ k \notin {j}
      BY <1>5, FS_Singleton
    <3>2. Cardinality({j} \cup {k}) = 2
      BY <3>1, FS_AddElement
    <3>3. {j, k} = {j} \cup {k}
      OBVIOUS
    <3> QED
      BY <3>2, <3>3
  <2> QED
    BY <1>1, <1>2, <1>3, <1>5, <2>1
<1> QED
  BY <1>4, <1>5

\* An item that fits goes on the unit whole.
LEMMA PlaceItemIs ==
  ASSUME NEW i \in Base, NEW h \in Loads, NEW j \in Items, Fits(h, j)
  PROVE  PlaceItem(h, j) \in Loads /\ OnUnit(PlaceItem(h, j), i) = OnUnit(h, i) + Parts(j, i)
<1>1. ASSUME NEW k \in Slots, NEW made \in Items, PartIn(made, i) = PartIn(h[k], i) + Parts(j, i)
      PROVE  /\ [h EXCEPT ![k] = made] \in Loads
             /\ OnUnit([h EXCEPT ![k] = made], i) = OnUnit(h, i) + Parts(j, i)
  <2>1. PICK e : e = [h EXCEPT ![k] = made]
    OBVIOUS
  <2>2. e \in Loads /\ e[k] = made /\ \A n \in Slots \ {k} : e[n] = h[n]
    BY <2>1 DEF Loads
  <2>3. OnUnit(h, i) \in Int /\ OnUnit(e, i) = OnUnit(h, i) + PartIn(e[k], i) - PartIn(h[k], i)
    BY <2>2, SlotChange
  <2>4. PartIn(h[k], i) \in Int /\ Parts(j, i) \in Int
    <3>1. h[k] \in Items \cup {NoItem}
      BY DEF Loads
    <3> QED
      BY <3>1, PartsType
  <2>5. OnUnit(e, i) = OnUnit(h, i) + Parts(j, i)
    BY <1>1, <2>2, <2>3, <2>4
  <2> QED
    BY <2>1, <2>2, <2>5
<1>2. CASE Partners(h, j) # {}
  <2>1. PICK k : k = Lowest(Partners(h, j))
    OBVIOUS
  <2>2. k \in Partners(h, j)
    <3>1. Partners(h, j) \subseteq Nat
      BY FiniteSlots DEF Partners
    <3> QED
      BY <1>2, <2>1, <3>1, LowestIn
  <2>3. k \in Slots /\ h[k] \in Items /\ Combination(h[k], j) # {}
    BY <2>2 DEF Partners, Slots, Loads
  <2>4. PICK made : made = CHOOSE m \in Combination(h[k], j) : TRUE
    OBVIOUS
  <2>5. made \in Combination(h[k], j)
    BY <2>3, <2>4
  <2>6. made \in Items /\ Parts(made, i) = Parts(h[k], i) + Parts(j, i)
    BY <2>3, <2>5, RecipeParts
  <2>7. PartIn(made, i) = PartIn(h[k], i) + Parts(j, i)
    BY <2>3, <2>6, ItemAssumption DEF PartIn
  <2>8. PlaceItem(h, j) = [h EXCEPT ![k] = made]
    BY <1>2, <2>1, <2>4 DEF PlaceItem
  <2> QED
    BY <1>1, <2>3, <2>6, <2>7, <2>8
<1>3. CASE Partners(h, j) = {}
  <2>1. Vacant(h) # {}
    BY <1>3 DEF Fits
  <2>2. PICK k : k = Lowest(Vacant(h))
    OBVIOUS
  <2>3. k \in Slots /\ h[k] = NoItem
    <3>1. Vacant(h) \subseteq Nat
      BY FiniteSlots DEF Vacant
    <3>2. k \in Vacant(h)
      BY <2>1, <2>2, <3>1, LowestIn
    <3> QED
      BY <3>2 DEF Vacant, Slots
  <2>4. PartIn(j, i) = PartIn(h[k], i) + Parts(j, i)
    BY <2>3, ItemAssumption, PartsType DEF PartIn
  <2>5. PlaceItem(h, j) = [h EXCEPT ![k] = j]
    BY <1>3, <2>1, <2>2 DEF PlaceItem
  <2> QED
    BY <1>1, <2>3, <2>4, <2>5
<1> QED
  BY <1>2, <1>3

\* A unit's load and the bag, while the copies that merge hand on what they hold.
Kits == [on : Loads, bag : Bags]
Weighs(o, i) == OnUnit(o.on, i) + InTheBag(o.bag, i)

\* One more of an item in the bag.
LEMMA BagGrows ==
  ASSUME NEW i \in Base, NEW b \in Bags, NEW j \in Items
  PROVE  /\ [b EXCEPT ![j] = @ + 1] \in Bags
         /\ InTheBag(b, i) \in Int /\ InTheBag([b EXCEPT ![j] = @ + 1], i) = InTheBag(b, i) + Parts(j, i)
<1>1. PICK e : e = [b EXCEPT ![j] = @ + 1]
  OBVIOUS
<1>2. e \in Bags /\ e[j] = b[j] + 1 /\ \A k \in Items \ {j} : e[k] = b[k]
  BY <1>1 DEF Bags
<1>3. b \in [Items -> Int] /\ e \in [Items -> Int] /\ 1 \in {-1, 1}
  BY <1>2 DEF Bags
<1>4. InTheBag(e, i) = InTheBag(b, i) + Parts(j, i)
  BY <1>2, <1>3, BagChange
<1> QED
  BY <1>1, <1>2, <1>3, <1>4, SumTypes

\* One less.
LEMMA BagShrinks ==
  ASSUME NEW i \in Base, NEW b \in Bags, NEW j \in Items, b[j] > 0
  PROVE  /\ Taken(b, j) \in Bags
         /\ InTheBag(b, i) \in Int /\ InTheBag(Taken(b, j), i) = InTheBag(b, i) - Parts(j, i)
<1>1. PICK e : e = Taken(b, j)
  OBVIOUS
<1>2. e \in Bags /\ e[j] = b[j] + (-1) /\ \A k \in Items \ {j} : e[k] = b[k]
  BY <1>1 DEF Bags, Taken
<1>3. b \in [Items -> Int] /\ e \in [Items -> Int] /\ -1 \in {-1, 1} /\ -1 # 1
  BY <1>2 DEF Bags
<1>4. InTheBag(e, i) = InTheBag(b, i) + (0 - Parts(j, i))
  BY <1>2, <1>3, BagChange
<1>5. InTheBag(b, i) \in Int /\ Parts(j, i) \in Int
  BY <1>3, SumTypes, PartsType
<1> QED
  BY <1>1, <1>2, <1>4, <1>5

\* What is handed on is on the survivor or in the bag.
LEMMA HandOnIs ==
  ASSUME NEW o \in Kits, NEW j \in Items \cup {NoItem}
  PROVE  /\ HandOn(o, j) \in Kits
         /\ \A i \in Base : Weighs(o, i) \in Int /\ Weighs(HandOn(o, j), i) = Weighs(o, i) + PartIn(j, i)
<1>1. o.on \in Loads /\ o.bag \in Bags
  BY DEF Kits
<1>2. \A i \in Base : OnUnit(o.on, i) \in Int /\ InTheBag(o.bag, i) \in Int
  BY <1>1, SumTypes DEF Bags
<1>3. \A i \in Base : PartIn(j, i) \in Int /\ (j \in Items => PartIn(j, i) = Parts(j, i))
  BY PartsType, ItemAssumption DEF PartIn
<1>4. CASE j = NoItem
  BY <1>2, <1>4 DEF HandOn, Weighs, PartIn
<1>5. CASE j # NoItem /\ Fits(o.on, j)
  <2>1. HandOn(o, j) = [on |-> PlaceItem(o.on, j), bag |-> o.bag] /\ j \in Items
    BY <1>5 DEF HandOn
  <2>2. \A i \in Base : PlaceItem(o.on, j) \in Loads /\ OnUnit(PlaceItem(o.on, j), i) = OnUnit(o.on, i) + Parts(j, i)
    BY <1>1, <1>5, <2>1, PlaceItemIs
  <2>3. PlaceItem(o.on, j) \in Loads
    <3>1. CASE Base = {}
      <4>1. j \in Base \/ j \in Combined
        BY <2>1 DEF Base
      <4>2. \A k \in Combined : Components[k] = {}
        BY <3>1, ItemAssumption DEF Base
      <4>3. Combined = {}
        BY <4>2, ItemAssumption, FS_EmptySet
      <4> QED
        BY <3>1, <4>1, <4>3
    <3> QED
      BY <2>2, <3>1
  <2> QED
    BY <1>1, <1>2, <1>3, <2>1, <2>2, <2>3 DEF Weighs, Kits
<1>6. CASE j # NoItem /\ ~ Fits(o.on, j)
  <2>1. HandOn(o, j) = [on |-> o.on, bag |-> [o.bag EXCEPT ![j] = @ + 1]] /\ j \in Items
    BY <1>6 DEF HandOn
  <2>2. \A i \in Base : InTheBag([o.bag EXCEPT ![j] = @ + 1], i) = InTheBag(o.bag, i) + Parts(j, i)
    BY <1>1, <2>1, BagGrows
  <2>3. [o.bag EXCEPT ![j] = @ + 1] \in Bags
    BY <1>1, <2>1 DEF Bags
  <2> QED
    BY <1>1, <1>2, <1>3, <2>1, <2>2, <2>3 DEF Weighs, Kits
<1> QED
  BY <1>4, <1>5, <1>6

-----------------------------------------------------------------------------
(* Handing on, slot after slot, as FoldLeft does it.                       *)

LEMMA MaxIn ==
  ASSUME NEW N \in Nat, NEW s, s \subseteq 1 .. N, s # {}
  PROVE  Max(s) \in s /\ \A x \in s : Max(s) >= x
<1> DEFINE T == {N - x : x \in s}
<1>1. T \subseteq Nat /\ T # {}
  <2>1. \A x \in s : N - x \in Nat
    OBVIOUS
  <2> QED
    BY <2>1
<1>2. PICK t \in T : \A u \in T : t <= u
  <2> HIDE DEF T
  <2> QED
    BY <1>1, NatMin
<1>3. PICK x \in s : t = N - x
  OBVIOUS
<1>4. \A y \in s : x >= y
  <2> SUFFICES ASSUME NEW y \in s PROVE x >= y
    OBVIOUS
  <2>1. N - x <= N - y
    BY <1>2, <1>3
  <2>2. N \in Nat /\ x \in 1 .. N /\ y \in 1 .. N
    BY Zenon
  <2> QED
    BY ONLY <2>1, <2>2
<1> QED
  BY <1>4 DEF Max

HandStep(o, q, g, s) == IF s = {} THEN o ELSE LET x == Max(s) IN HandOn(g[s \ {x}], q[x])

\* g has the kit after each prefix of q has been handed on.
Handing(o, q, N, g) == g[1 .. 0] = o /\ \A n \in 1 .. N : g[1 .. n] = HandOn(g[1 .. (n - 1)], q[n])

LEMMA HandedOn ==
  ASSUME NEW o \in Kits, NEW N \in Nat, NEW q \in [1 .. N -> Items \cup {NoItem}]
  PROVE  \E g : FoldLeft(HandOn, o, q) = g[1 .. N] /\ Handing(o, q, N, g)
<1> DEFINE D == 1 .. N
           pick == [s \in SUBSET D |-> Max(s)]
           op == [p \in D \X Kits |-> HandOn(p[2], q[p[1]])]
           f == CHOOSE g : g = [s \in SUBSET DOMAIN q |-> HandStep(o, q, g, s)]
<1>0. \A s \in SUBSET D : s # {} => pick[s] \in s
  BY MaxIn
<1>1. \E g : g = [s \in SUBSET DOMAIN q |-> HandStep(o, q, g, s)]
  <2>1. op \in [D \X Kits -> Kits]
    BY HandOnIs
  <2>2. IsFiniteSet(D)
    BY FS_Interval
  <2>3. Foldable(D, Kits, o, op, pick)
    <3> HIDE DEF D, op, pick
    <3> QED
      BY <1>0, <2>1, <2>2 DEF Foldable
  <2>4. PICK g : FoldedBy(D, Kits, o, op, pick, g)
    <3> HIDE DEF D, pick, op
    <3> QED
      BY <2>3, FoldExists
  <2>5. /\ g \in [SUBSET D -> Kits]
        /\ \A s \in SUBSET D : g[s] = IF s = {} THEN o ELSE op[<<pick[s], g[s \ {pick[s]}]>>]
    <3> HIDE DEF D, pick, op
    <3> QED
      BY <2>4 DEF FoldedBy
  <2>6. ASSUME NEW s \in SUBSET D PROVE g[s] = HandStep(o, q, g, s)
    <3>1. CASE s = {}
      BY <2>5, <3>1 DEF HandStep
    <3>2. CASE s # {}
      <4>1. pick[s] \in s /\ pick[s] \in D /\ s \ {pick[s]} \in SUBSET D
        BY <1>0, <3>2
      <4>2. g[s \ {pick[s]}] \in Kits
        <5> HIDE DEF D, pick
        <5> QED
          BY <4>1, <2>5
      <4>3. op[<<pick[s], g[s \ {pick[s]}]>>] = HandOn(g[s \ {pick[s]}], q[pick[s]])
        <5> HIDE DEF pick
        <5> QED
          BY <4>1, <4>2
      <4>4. g[s] = HandOn(g[s \ {pick[s]}], q[pick[s]])
        BY <2>5, <3>2, <4>3
      <4>5. pick[s] = Max(s)
        OBVIOUS
      <4> HIDE DEF pick
      <4> QED
        BY <3>2, <4>4, <4>5 DEF HandStep
    <3> QED
      BY <3>1, <3>2
  <2>7. g = [s \in SUBSET D |-> g[s]]
    <3> HIDE DEF D
    <3> QED
      BY <2>5
  <2>8. g = [s \in SUBSET D |-> HandStep(o, q, g, s)]
    BY <2>6, <2>7
  <2>9. DOMAIN q = D
    OBVIOUS
  <2> HIDE DEF D
  <2> QED
    BY <2>8, <2>9
<1>2. FoldLeft(HandOn, o, q) = f[DOMAIN q]
  BY DEF FoldLeft, MapThenFoldSet, HandStep
<1>3. f = [s \in SUBSET DOMAIN q |-> HandStep(o, q, f, s)]
  <2> HIDE DEF f
  <2> QED
    BY <1>1 DEF f
<1>4. \A s \in SUBSET (1 .. N) : f[s] = HandStep(o, q, f, s)
  <2> HIDE DEF f
  <2> QED
    BY <1>3
<1>5. f[1 .. 0] = o
  <2> HIDE DEF f
  <2>1. 1 .. 0 = {}
    OBVIOUS
  <2> QED
    BY <1>4, <2>1 DEF HandStep
<1>6. ASSUME NEW n \in 1 .. N PROVE f[1 .. n] = HandOn(f[1 .. (n - 1)], q[n])
  <2> HIDE DEF f
  <2>0. N \in Nat
    OBVIOUS
  <2>1. 1 .. n \in SUBSET (1 .. N) /\ 1 .. n # {} /\ n \in 1 .. n
    <3>1. n \in Int /\ 1 <= n /\ n <= N
      BY ONLY <2>0, n \in 1 .. N
    <3>2. n \in 1 .. n
      BY ONLY <3>1
    <3>3. \A x \in 1 .. n : x \in 1 .. N
      BY ONLY <2>0, <3>1
    <3> QED
      BY ONLY <3>2, <3>3
  <2>2. Max(1 .. n) = n
    <3>1. Max(1 .. n) \in 1 .. n /\ \A x \in 1 .. n : Max(1 .. n) >= x
      <4>1. PICK s : s = 1 .. n
        OBVIOUS
      <4>2. s # {} /\ s \subseteq 1 .. n /\ n \in Nat
        BY <2>1, <4>1
      <4> QED
        BY <4>1, <4>2, MaxIn
    <3> QED
      BY <2>1, <3>1
  <2>3. (1 .. n) \ {n} = 1 .. (n - 1)
    OBVIOUS
  <2> QED
    BY <1>4, <2>1, <2>2, <2>3 DEF HandStep
<1>7. DOMAIN q = 1 .. N
  OBVIOUS
<1> QED
  <2> HIDE DEF f
  <2> QED
    BY <1>2, <1>5, <1>6, <1>7 DEF Handing

\* All that two copies held is in the end on the survivor or in the bag.
LEMMA AllHandedOn ==
  ASSUME NEW o \in Kits, NEW h \in Loads, NEW e \in Loads, NEW end, end = FoldLeft(HandOn, o, h \o e)
  PROVE  end \in Kits /\ \A i \in Base : Weighs(end, i) = Weighs(o, i) + OnUnit(h, i) + OnUnit(e, i)
<1> DEFINE N == ItemSlots + ItemSlots
           q == h \o e
           a(n) == Mixed(h, NoItems, n)
           b(n) == Mixed(e, NoItems, n - ItemSlots)
<1>1. ItemSlots \in Nat \ {0} /\ N \in Nat /\ NoItems \in Loads
  BY FiniteSlots DEF NoItems, Loads, Slots
<1>2. /\ q \in [1 .. N -> Items \cup {NoItem}]
      /\ \A n \in 1 .. N : q[n] = IF n <= ItemSlots THEN h[n] ELSE e[n - ItemSlots]
  <2>1. h \in Seq(Items \cup {NoItem}) /\ e \in Seq(Items \cup {NoItem}) /\ Len(h) = ItemSlots /\ Len(e) = ItemSlots
    <3>1. h \in [1 .. ItemSlots -> Items \cup {NoItem}] /\ e \in [1 .. ItemSlots -> Items \cup {NoItem}]
      BY DEF Loads, Slots
    <3> QED
      BY <1>1, <3>1
  <2>2. q \in Seq(Items \cup {NoItem}) /\ Len(q) = N
    BY <2>1
  <2>3. q \in [1 .. N -> Items \cup {NoItem}]
    <3> HIDE DEF q, N
    <3> QED
      BY <2>2
  <2>4. \A n \in 1 .. Len(h) + Len(e) : q[n] = IF n <= Len(h) THEN h[n] ELSE e[n - Len(h)]
    BY <2>1
  <2> QED
    BY <1>1, <2>1, <2>3, <2>4
<1>3. PICK g : /\ end = g[1 .. N] /\ g[1 .. 0] = o
               /\ \A n \in 1 .. N : g[1 .. n] = HandOn(g[1 .. (n - 1)], q[n])
  <2> HIDE DEF q, N, a, b
  <2>1. end = FoldLeft(HandOn, o, q)
    BY DEF q
  <2>2. PICK g : FoldLeft(HandOn, o, q) = g[1 .. N] /\ Handing(o, q, N, g)
    BY <1>1, <1>2, HandedOn
  <2> QED
    BY <2>1, <2>2 DEF Handing
<1> DEFINE Good(n) == /\ g[1 .. n] \in Kits
                      /\ \A i \in Base : Weighs(g[1 .. n], i) = Weighs(o, i) + OnUnit(a(n), i) + OnUnit(b(n), i)
           Bad == {n \in 0 .. N : ~ Good(n)}
<1>4. \A n \in Int : a(n) \in Loads /\ b(n) \in Loads
  BY <1>1, MixedIs
<1>5. \A i \in Base : Weighs(o, i) \in Int /\ OnUnit(NoItems, i) = 0
  <2> TAKE i \in Base
  <2>1. NoItem \in Items \cup {NoItem}
    OBVIOUS
  <2> QED
    BY <2>1, HandOnIs, SumTypes
<1>6. Bad = {}
  <2> SUFFICES ASSUME Bad # {} PROVE FALSE
    OBVIOUS
  <2>1. PICK n \in Bad : \A r \in Bad : n <= r
    <3>1. Bad \subseteq Nat
      BY <1>1
    <3> HIDE DEF Bad
    <3> QED
      BY <3>1, NatMin
  <2>2. n \in 0 .. N /\ ~ Good(n)
    BY <2>1
  <2>3. CASE n = 0
    <3>1. a(0) = NoItems /\ b(0) = NoItems
      BY <1>1, MixedIs
    <3>2. Good(0)
      <4> HIDE DEF a, b, N
      <4> QED
        BY <1>3, <1>5, <3>1
    <3> QED
      BY <2>2, <2>3, <3>2
  <2>4. CASE n # 0
    <3>1. n \in 1 .. N /\ n - 1 \in 0 .. N /\ n \in Int /\ n - 1 \in Int
      BY <2>2, <2>4, <1>1
    <3>2. Good(n - 1)
      <4> HIDE DEF Good
      <4> QED
        BY <2>1, <3>1
    <3>3. g[1 .. n] = HandOn(g[1 .. (n - 1)], q[n]) /\ q[n] \in Items \cup {NoItem}
      <4> HIDE DEF q, N
      <4> QED
        BY <1>2, <1>3, <3>1
    <3>4. /\ g[1 .. n] \in Kits
          /\ \A i \in Base : Weighs(g[1 .. n], i) = Weighs(g[1 .. (n - 1)], i) + PartIn(q[n], i)
      <4> HIDE DEF q, N
      <4> QED
        BY <3>2, <3>3, HandOnIs
    <3>5. ASSUME NEW i \in Base
          PROVE  /\ OnUnit(a(n - 1), i) \in Int /\ OnUnit(b(n - 1), i) \in Int /\ PartIn(q[n], i) \in Int
                 /\ OnUnit(a(n), i) + OnUnit(b(n), i) = OnUnit(a(n - 1), i) + OnUnit(b(n - 1), i) + PartIn(q[n], i)
      <4>1. PICK a1, b1, a0, b0 : a1 = a(n) /\ b1 = b(n) /\ a0 = a(n - 1) /\ b0 = b(n - 1)
        OBVIOUS
      <4>2. a1 \in Loads /\ b1 \in Loads /\ a0 \in Loads /\ b0 \in Loads
        BY <1>4, <3>1, <4>1
      <4>3. OnUnit(a0, i) \in Int /\ OnUnit(b0, i) \in Int /\ PartIn(q[n], i) \in Int /\ PartIn(NoItem, i) = 0
        <5> HIDE DEF q
        <5> QED
          BY <3>3, <4>2, SumTypes, PartsType DEF PartIn
      <4>4. CASE n <= ItemSlots
        <5>1. n \in Slots /\ q[n] = h[n]
          BY <1>1, <1>2, <3>1, <4>4 DEF Slots
        <5>2. a1[n] = h[n] /\ a0[n] = NoItems[n] /\ \A k \in Slots \ {n} : a1[k] = a0[k]
          <6>1. /\ Mixed(h, NoItems, n)[n] = h[n] /\ Mixed(h, NoItems, n - 1)[n] = NoItems[n]
                /\ \A k \in Slots \ {n} : Mixed(h, NoItems, n)[k] = Mixed(h, NoItems, n - 1)[k]
            BY <1>1, <5>1, MixedIs
          <6> QED
            BY <4>1, <6>1
        <5>3. b1 = NoItems /\ b0 = NoItems
          <6>1. n - ItemSlots <= 0 /\ n - 1 - ItemSlots <= 0 /\ n - ItemSlots \in Int /\ n - 1 - ItemSlots \in Int
            BY <1>1, <3>1, <4>4
          <6> QED
            BY <1>1, <4>1, <6>1, MixedIs
        <5>4. OnUnit(a1, i) = OnUnit(a0, i) + PartIn(h[n], i) - PartIn(NoItem, i)
          <6>1. NoItems[n] = NoItem
            BY <5>1 DEF NoItems, Slots
          <6> QED
            BY <4>2, <5>1, <5>2, <6>1, SlotChange
        <5> HIDE DEF a, b, q
        <5> QED
          BY <4>1, <4>3, <5>1, <5>3, <5>4
      <4>5. CASE n > ItemSlots
        <5> DEFINE k == n - ItemSlots
        <5>1. k \in Slots /\ q[n] = e[k] /\ k \in Int /\ n - 1 - ItemSlots = k - 1
          BY <1>1, <1>2, <3>1, <4>5 DEF Slots
        <5>2. b1[k] = e[k] /\ b0[k] = NoItems[k] /\ \A x \in Slots \ {k} : b1[x] = b0[x]
          <6> HIDE DEF k
          <6>1. /\ Mixed(e, NoItems, k)[k] = e[k] /\ Mixed(e, NoItems, k - 1)[k] = NoItems[k]
                /\ \A x \in Slots \ {k} : Mixed(e, NoItems, k)[x] = Mixed(e, NoItems, k - 1)[x]
            BY <1>1, <5>1, MixedIs
          <6>2. b1 = Mixed(e, NoItems, k) /\ b0 = Mixed(e, NoItems, k - 1)
            BY <4>1, <5>1 DEF k
          <6> QED
            BY <6>1, <6>2
        <5>3. a1 = h /\ a0 = h
          <6>1. n >= ItemSlots /\ n - 1 >= ItemSlots
            BY <1>1, <3>1, <4>5
          <6> QED
            BY <1>1, <3>1, <4>1, <6>1, MixedIs
        <5>4. OnUnit(b1, i) = OnUnit(b0, i) + PartIn(e[k], i) - PartIn(NoItem, i)
          <6>1. NoItems[k] = NoItem
            BY <5>1 DEF NoItems, Slots
          <6> HIDE DEF k
          <6> QED
            BY <4>2, <5>1, <5>2, <6>1, SlotChange
        <5> HIDE DEF a, b, q
        <5> QED
          BY <4>1, <4>3, <5>1, <5>3, <5>4
      <4>6. n <= ItemSlots \/ n > ItemSlots
        BY <1>1, <3>1
      <4> HIDE DEF a, b, q
      <4> QED
        BY <4>4, <4>5, <4>6
    <3>6. Good(n)
      <4> SUFFICES ASSUME NEW i \in Base
                   PROVE  Weighs(g[1 .. n], i) = Weighs(o, i) + OnUnit(a(n), i) + OnUnit(b(n), i)
        BY <3>4
      <4>1. Weighs(g[1 .. n], i) = Weighs(o, i) + OnUnit(a(n - 1), i) + OnUnit(b(n - 1), i) + PartIn(q[n], i)
        BY <3>2, <3>4
      <4>2. OnUnit(a(n), i) \in Int /\ OnUnit(b(n), i) \in Int
        BY <1>4, <3>1, SumTypes
      <4>3. Weighs(o, i) \in Int
        BY <1>5
      <4> HIDE DEF a, b, q
      <4>4. /\ OnUnit(a(n - 1), i) \in Int /\ OnUnit(b(n - 1), i) \in Int /\ PartIn(q[n], i) \in Int
            /\ OnUnit(a(n), i) + OnUnit(b(n), i) = OnUnit(a(n - 1), i) + OnUnit(b(n - 1), i) + PartIn(q[n], i)
        BY <3>5
      <4>5. PICK w, a1, b1, a0, b0, p : /\ w = Weighs(o, i) /\ a1 = OnUnit(a(n), i) /\ b1 = OnUnit(b(n), i)
                                        /\ a0 = OnUnit(a(n - 1), i) /\ b0 = OnUnit(b(n - 1), i) /\ p = PartIn(q[n], i)
        OBVIOUS
      <4>6. /\ w \in Int /\ a1 \in Int /\ b1 \in Int /\ a0 \in Int /\ b0 \in Int /\ p \in Int
            /\ a1 + b1 = a0 + b0 + p
        BY <4>2, <4>3, <4>4, <4>5
      <4>7. w + a0 + b0 + p = w + a1 + b1
        BY ONLY <4>6
      <4> QED
        BY <4>1, <4>5, <4>7
    <3> QED
      BY <2>2, <3>6
  <2> QED
    BY <2>3, <2>4
<1>7. Good(N)
  <2>1. N \in 0 .. N
    BY <1>1
  <2> HIDE DEF Good, N
  <2> QED
    BY <1>6, <2>1
<1>8. a(N) = h /\ b(N) = e
  <2>1. N >= ItemSlots /\ N - ItemSlots >= ItemSlots /\ N \in Int /\ N - ItemSlots \in Int
    BY <1>1
  <2> QED
    BY <1>1, <2>1, MixedIs
<1> QED
  <2> HIDE DEF a, b, N
  <2> QED
    BY <1>3, <1>7, <1>8

-----------------------------------------------------------------------------
(* Merging copies that carry items.                                        *)

\* Only units that may carry items carry some.
Carrying(r, it) ==
  \A x \in Places : it[x] # NoItems => x \in Cells /\ r[x] # Empty /\ r[x].champ \notin Plants

\* How often there is component i, on units and in the bag.
Stock(it, b, i) == OnUnits(it, i) + InTheBag(b, i)

\* A triple is its first, its second and its third.
LEMMA ThreeCopies ==
  ASSUME NEW S, S \subseteq Places, IsFiniteSet(S), Cardinality(S) = 3
  PROVE  LET first  == BestRanked(S)
             second == BestRanked(S \ {first})
             third  == BestRanked(S \ {first, second})
         IN /\ first \in S /\ second \in S /\ third \in S
            /\ first # second /\ first # third /\ second # third
            /\ S = {first, second, third}
<1> DEFINE a == BestRanked(S)
           b == BestRanked(S \ {a})
           c == BestRanked(S \ {a, b})
<1>1. a \in S
  <2>1. S # {}
    BY FS_EmptySet
  <2> QED
    BY <2>1, BestRankedIn
<1> HIDE DEF a
<1>2. IsFiniteSet(S \ {a}) /\ Cardinality(S \ {a}) = 2
  BY <1>1, FS_RemoveElement
<1>3. b \in S \ {a}
  <2>1. S \ {a} # {} /\ S \ {a} \subseteq Places
    BY <1>2, FS_EmptySet
  <2> QED
    BY <2>1, BestRankedIn
<1> HIDE DEF b
<1>4. (S \ {a}) \ {b} = S \ {a, b}
  OBVIOUS
<1>5. IsFiniteSet(S \ {a, b}) /\ Cardinality(S \ {a, b}) = 1
  BY <1>2, <1>3, <1>4, FS_RemoveElement
<1>6. c \in S \ {a, b}
  <2>1. S \ {a, b} # {} /\ S \ {a, b} \subseteq Places
    BY <1>5, FS_EmptySet
  <2> QED
    BY <2>1, BestRankedIn
<1> HIDE DEF c
<1>7. (S \ {a, b}) \ {c} = S \ {a, b, c}
  OBVIOUS
<1>8. IsFiniteSet(S \ {a, b, c}) /\ Cardinality(S \ {a, b, c}) = 0
  <2>1. PICK T : T = S \ {a, b}
    OBVIOUS
  <2>2. IsFiniteSet(T \ {c}) /\ Cardinality(T \ {c}) = 1 - 1
    BY <1>5, <1>6, <2>1, FS_RemoveElement
  <2> QED
    BY <1>7, <2>1, <2>2
<1>9. S \ {a, b, c} = {}
  BY <1>8, FS_EmptySet
<1> QED
  BY <1>1, <1>3, <1>6, <1>9 DEF a, b, c

\* A merge loses no item and doubles none.
LEMMA MergeItemsIs ==
  ASSUME NEW r \in Rosters, NEW it \in [Places -> Loads], NEW b \in Bags, NEW c \in Champions \ Plants,
         NEW s \in 1 .. 2, Cardinality(CopiesAt(r, c, s)) <= 3, Carrying(r, it),
         NEW o, o = MergeItems(r, it, b, c, s)
  PROVE  /\ o.items \in [Places -> Loads] /\ o.bag \in Bags
         /\ Carrying(MergeOnce(r, c, s), o.items)
         /\ \A i \in Base : Stock(o.items, o.bag, i) = Stock(it, b, i)
<1> DEFINE M == MergeSet(r, c, s)
<1>1. M = IF Cardinality(CopiesAt(r, c, s)) = 3 THEN CopiesAt(r, c, s) ELSE {}
  BY MergeSetFact
<1>2. CASE Cardinality(CopiesAt(r, c, s)) # 3
  <2>1. M = {}
    BY <1>1, <1>2
  <2>2. o = [items |-> it, bag |-> b]
    BY <2>1 DEF MergeItems
  <2>3. Cardinality(CopiesAt(r, c, s)) <= 2
    BY <1>2, CopiesFinite
  <2>4. MergeOnce(r, c, s) = r
    BY <2>3, NoMerge
  <2> QED
    BY <2>2, <2>4
<1>3. CASE Cardinality(CopiesAt(r, c, s)) = 3
  <2>1. M = CopiesAt(r, c, s) /\ M \subseteq Places /\ IsFiniteSet(M) /\ Cardinality(M) = 3
    BY <1>1, <1>3, CopiesFinite
  <2> DEFINE first  == BestRanked(M)
             second == BestRanked(M \ {first})
             third  == BestRanked(M \ {first, second})
             end == FoldLeft(HandOn, [on |-> it[first], bag |-> b], it[second] \o it[third])
  <2>2. PICK x, y, z : x = first /\ y = second /\ z = third
    OBVIOUS
  <2>3. /\ x \in Places /\ y \in Places /\ z \in Places
        /\ x # y /\ x # z /\ y # z /\ M = {x, y, z}
    <3> HIDE DEF M
    <3> QED
      BY <2>1, <2>2, ThreeCopies
  <2>4. M # {}
    BY <2>3
  <2>5. PICK e : e = FoldLeft(HandOn, [on |-> it[x], bag |-> b], it[y] \o it[z])
    OBVIOUS
  <2>6. o = [items |-> [p \in Places |-> IF p = x THEN e.on ELSE IF p \in {x, y, z} THEN NoItems ELSE it[p]],
             bag |-> e.bag]
    <3>1. o = [items |-> [p \in Places |-> IF p = first THEN end.on ELSE IF p \in M THEN NoItems ELSE it[p]],
               bag |-> end.bag]
      BY <2>4 DEF MergeItems
    <3>2. end = e
      <4> HIDE DEF M
      <4> QED
        BY <2>2, <2>5
    <3> HIDE DEF end, M
    <3> QED
      BY <2>2, <2>3, <3>1, <3>2
  <2> HIDE DEF M
  <2>7. /\ e \in Kits
        /\ \A i \in Base : Weighs(e, i) = OnUnit(it[x], i) + InTheBag(b, i) + OnUnit(it[y], i) + OnUnit(it[z], i)
    <3>1. PICK k : k = [on |-> it[x], bag |-> b]
      OBVIOUS
    <3>2. k \in Kits /\ \A i \in Base : Weighs(k, i) = OnUnit(it[x], i) + InTheBag(b, i)
      BY <2>3, <3>1 DEF Kits, Weighs
    <3>3. it[y] \in Loads /\ it[z] \in Loads /\ e = FoldLeft(HandOn, k, it[y] \o it[z])
      BY <2>3, <2>5, <3>1
    <3> QED
      BY <3>2, <3>3, AllHandedOn
  <2>8. e.on \in Loads /\ e.bag \in Bags
    BY <2>7 DEF Kits
  <2>9. NoItems \in Loads
    BY DEF NoItems, Loads, Slots
  <2>10. PICK i1 : i1 = [it EXCEPT ![x] = e.on]
    OBVIOUS
  <2>11. PICK i2 : i2 = [i1 EXCEPT ![y] = NoItems]
    OBVIOUS
  <2>12. PICK i3 : i3 = [i2 EXCEPT ![z] = NoItems]
    OBVIOUS
  <2>13. i1 \in [Places -> Loads] /\ i2 \in [Places -> Loads] /\ i3 \in [Places -> Loads]
    BY <2>3, <2>8, <2>9, <2>10, <2>11, <2>12
  <2>14. o.items = i3 /\ o.bag = e.bag
    <3>1. \A p \in Places : o.items[p] = i3[p]
      BY <2>3, <2>6, <2>10, <2>11, <2>12
    <3>2. o.items \in [Places -> Loads]
      BY <2>3, <2>6, <2>8, <2>9
    <3> QED
      BY <2>6, <2>13, <3>1, <3>2
  <2>15. ASSUME NEW i \in Base PROVE Stock(o.items, o.bag, i) = Stock(it, b, i)
    <3>1. OnUnits(i1, i) = OnUnits(it, i) + OnUnit(e.on, i) - OnUnit(it[x], i)
      <4>1. i1[x] = e.on /\ \A p \in Places \ {x} : i1[p] = it[p]
        BY <2>3, <2>10
      <4> QED
        BY <2>3, <2>13, <4>1, RowChange
    <3>2. OnUnits(i2, i) = OnUnits(i1, i) + OnUnit(NoItems, i) - OnUnit(it[y], i)
      <4>1. i2[y] = NoItems /\ i1[y] = it[y] /\ \A p \in Places \ {y} : i2[p] = i1[p]
        BY <2>3, <2>10, <2>11, <2>13
      <4> QED
        BY <2>3, <2>13, <4>1, RowChange
    <3>3. OnUnits(i3, i) = OnUnits(i2, i) + OnUnit(NoItems, i) - OnUnit(it[z], i)
      <4>1. i3[z] = NoItems /\ i2[z] = it[z] /\ \A p \in Places \ {z} : i3[p] = i2[p]
        BY <2>3, <2>10, <2>11, <2>12, <2>13
      <4> QED
        BY <2>3, <2>13, <4>1, RowChange
    <3>4. OnUnit(e.on, i) + InTheBag(e.bag, i) = OnUnit(it[x], i) + InTheBag(b, i) + OnUnit(it[y], i) + OnUnit(it[z], i)
      BY <2>7 DEF Weighs
    <3>5. OnUnits(it, i) \in Int
      BY SumTypes
    <3>6. OnUnit(e.on, i) \in Int
      BY <2>8, SumTypes
    <3>7. it[x] \in Loads /\ it[y] \in Loads /\ it[z] \in Loads
      BY <2>3
    <3>8. OnUnit(it[x], i) \in Int /\ OnUnit(it[y], i) \in Int /\ OnUnit(it[z], i) \in Int /\ OnUnit(NoItems, i) = 0
      BY <3>7, SumTypes
    <3>9. InTheBag(b, i) \in Int /\ InTheBag(e.bag, i) \in Int
      BY <2>8, SumTypes DEF Bags
    <3>10. OnUnits(i3, i) = OnUnits(it, i) + OnUnit(e.on, i) - OnUnit(it[x], i) - OnUnit(it[y], i) - OnUnit(it[z], i)
      BY <3>1, <3>2, <3>3, <3>5, <3>6, <3>8
    <3>11. OnUnits(i3, i) + InTheBag(e.bag, i) = OnUnits(it, i) + InTheBag(b, i)
      BY <3>4, <3>5, <3>6, <3>8, <3>9, <3>10
    <3> QED
      BY <2>14, <3>11 DEF Stock
  <2>16. Carrying(MergeOnce(r, c, s), o.items)
    <3> SUFFICES ASSUME NEW p \in Places, i3[p] # NoItems
                 PROVE  p \in Cells /\ MergeOnce(r, c, s)[p] # Empty /\ MergeOnce(r, c, s)[p].champ \notin Plants
      BY <2>14 DEF Carrying
    <3>1. p \notin {y, z}
      BY <2>3, <2>11, <2>12, <2>13
    <3>2. PICK m : m = MergeOnce(r, c, s)
      OBVIOUS
    <3>3. x \in Cells /\ \A q \in Places : m[q] = IF q = x THEN Unit(c, s + 1) ELSE IF q \in M THEN Empty ELSE r[q]
      BY <1>3, <2>1, <2>2, <3>2, Merge
    <3>4. CASE p = x
      <4>1. m[p] = Unit(c, s + 1) /\ s + 1 \in 1 .. 3
        BY <3>3, <3>4
      <4>2. Unit(c, s + 1) # Empty /\ Unit(c, s + 1).champ = c
        BY <4>1, UnitFact DEF Unit
      <4> QED
        BY <3>2, <3>3, <3>4, <4>1, <4>2
    <3>5. CASE p # x
      <4>1. m[p] = r[p] /\ i3[p] = it[p]
        BY <2>3, <2>10, <2>11, <2>12, <2>13, <3>1, <3>3, <3>5
      <4> QED
        BY <3>2, <4>1 DEF Carrying
    <3> QED
      BY <3>4, <3>5
  <2> QED
    BY <2>8, <2>13, <2>14, <2>15, <2>16
<1> QED
  BY <1>2, <1>3

-----------------------------------------------------------------------------
(* The roster with its items.                                              *)

ItemTypes == items \in [Places -> Loads] /\ bag \in Bags /\ given \in [Base -> Int]

ItemInv ==
  /\ TypeOK /\ Layout /\ ItemTypes
  /\ Carrying(units, items)
  /\ \A i \in Base : given[i] = Stock(items, bag, i)

\* Every step with items is a step of the roster, or leaves it alone.
LEMMA ItemStepIsStep ==
  ASSUME [ItemsNext]_itemVars
  PROVE  [Next]_vars
<1>1. CASE UNCHANGED itemVars
  BY <1>1 DEF itemVars, vars
<1>2. ASSUME NEW c \in Champions \ Plants, Acquire(c) PROVE [Next]_vars
  BY <1>2 DEF Acquire, Next
<1>3. ASSUME NEW x \in Cells, NEW y \in Cells, Move(x, y) PROVE [Next]_vars
  BY <1>3 DEF Move, Next
<1>4. ASSUME NEW x \in Cells, Sell(x) \/ RemovePlant(x) PROVE [Next]_vars
  BY <1>4 DEF Sell, RemovePlant, Next
<1>5. ASSUME NEW c \in Plants, NEW s \in PlantStars, NEW x \in Board, Grow(c, s, x) PROVE [Next]_vars
  BY <1>5 DEF Grow, Next
<1>6. CASE LevelUp
  BY <1>6 DEF LevelUp, Next
<1>7. ASSUME NEW i \in Items, GiveItem(i) PROVE [Next]_vars
  BY <1>7 DEF GiveItem, vars
<1>8. ASSUME NEW x \in Cells, NEW i \in Items, EquipItem(x, i) \/ UseRemover(x, i) PROVE [Next]_vars
  BY <1>8 DEF EquipItem, UseRemover, vars
<1>9. ASSUME NEW i \in Items, NEW j \in Items, CombineItems(i, j) PROVE [Next]_vars
  BY <1>9 DEF CombineItems, vars
<1>10. ASSUME NEW x \in Cells, NEW k \in 1 .. ItemSlots, UnequipItem(x, k) PROVE [Next]_vars
  BY <1>10 DEF UnequipItem, vars
<1> QED
  BY <1>1, <1>2, <1>3, <1>4, <1>5, <1>6, <1>7, <1>8, <1>9, <1>10 DEF ItemsNext

\* ItemRoster implements UnitRoster: what it says of the items never stands in the way of,
\* nor adds to, what happens to the units.
THEOREM ItemsFollowRoster == ItemsSpec => Spec
<1>1. ItemsInit => Init
  BY DEF ItemsInit
<1> QED
  BY <1>1, ItemStepIsStep, PTL DEF ItemsSpec, Spec

\* A free place, and the one for a unit that has none, carry nothing.
LEMMA FreeCarriesNothing ==
  ASSUME NEW r \in Rosters, NEW it, Carrying(r, it), NEW x \in Places, r[x] = Empty
  PROVE  it[x] = NoItems
BY DEF Carrying

\* A copy that is added carries nothing; its merges hand on what they find.
LEMMA AcquireKeeps ==
  ASSUME ItemInv, NEW c \in Champions \ Plants, Acquire(c)
  PROVE  /\ items' \in [Places -> Loads] /\ bag' \in Bags
         /\ Carrying(units', items')
         /\ \A i \in Base : Stock(items', bag', i) = Stock(items, bag, i)
<1> DEFINE p == Placed(units, capacity, c)
           m == MergeOnce(p, c, 1)
<1>1. units \in Rosters /\ NothingUnplaced(units) /\ NoLooseTriple(units) /\ c \in Champions
  BY DEF ItemInv, TypeOK, Layout, CheckInvariants
<1>2. /\ p \in Rosters /\ m \in Rosters
      /\ Cardinality(CopiesAt(p, c, 1)) <= 3 /\ Cardinality(CopiesAt(m, c, 2)) <= 3
  BY <1>1, AddCounts
<1>3. items \in [Places -> Loads] /\ bag \in Bags /\ Carrying(units, items)
  BY DEF ItemInv, ItemTypes
<1>4. PICK o : o = MergeItems(p, items, bag, c, 1)
  OBVIOUS
<1>5. PICK w : w = MergeItems(m, o.items, o.bag, c, 2)
  OBVIOUS
<1>6. items' = w.items /\ bag' = w.bag
  BY <1>4, <1>5 DEF Acquire
<1>7. units' = MergeOnce(m, c, 2)
  BY DEF Acquire, AddUnit, Add
<1>8. Carrying(p, items)
  <2>1. PICK q : q = FirstFree(units, capacity)
    OBVIOUS
  <2>2. q \in Places /\ (q # Hand => units[q] = Empty)
    BY <1>1, <2>1, FirstFreeFact
  <2>3. units[q] = Empty
    BY <1>1, <2>2 DEF NothingUnplaced
  <2>4. items[q] = NoItems
    BY <1>1, <1>3, <2>2, <2>3, FreeCarriesNothing
  <2>5. \A x \in Places \ {q} : p[x] = units[x]
    BY <1>1, <2>1 DEF Placed, Rosters
  <2> HIDE DEF p
  <2> QED
    BY <1>3, <2>4, <2>5 DEF Carrying
<1> HIDE DEF p
<1>9. 1 \in 1 .. 2 /\ 2 \in 1 .. 2
  OBVIOUS
<1>10. /\ o.items \in [Places -> Loads] /\ o.bag \in Bags /\ Carrying(m, o.items)
       /\ \A i \in Base : Stock(o.items, o.bag, i) = Stock(items, bag, i)
  BY <1>2, <1>3, <1>4, <1>8, <1>9, MergeItemsIs
<1> HIDE DEF m
<1>11. /\ w.items \in [Places -> Loads] /\ w.bag \in Bags /\ Carrying(MergeOnce(m, c, 2), w.items)
       /\ \A i \in Base : Stock(w.items, w.bag, i) = Stock(o.items, o.bag, i)
  BY <1>2, <1>5, <1>9, <1>10, MergeItemsIs
<1> QED
  BY <1>6, <1>7, <1>10, <1>11

\* What a new load for one unit does to the sums.
LEMMA LoadChange ==
  ASSUME NEW it \in [Places -> Loads], NEW jt \in [Places -> Loads], NEW x \in Places, NEW i \in Base,
         \A y \in Places \ {x} : jt[y] = it[y]
  PROVE  /\ OnUnits(it, i) \in Int /\ OnUnit(it[x], i) \in Int /\ OnUnit(jt[x], i) \in Int
         /\ OnUnits(jt, i) = OnUnits(it, i) + OnUnit(jt[x], i) - OnUnit(it[x], i)
<1>1. it[x] \in Loads /\ jt[x] \in Loads
  OBVIOUS
<1> QED
  BY <1>1, RowChange, SumTypes

\* Two units that change places keep what they carry.
LEMMA MoveKeeps ==
  ASSUME ItemInv, NEW x \in Cells, NEW y \in Cells, Move(x, y)
  PROVE  /\ items' \in [Places -> Loads] /\ bag' \in Bags
         /\ Carrying(units', items')
         /\ \A i \in Base : Stock(items', bag', i) = Stock(items, bag, i)
<1>1. /\ x \in Places /\ y \in Places /\ units \in Rosters
      /\ items \in [Places -> Loads] /\ bag \in Bags /\ Carrying(units, items)
  BY PlacesFact DEF ItemInv, ItemTypes, TypeOK
<1>2. /\ bag' = bag /\ items' = [items EXCEPT ![x] = items[y], ![y] = items[x]]
      /\ units' = [units EXCEPT ![x] = units[y], ![y] = units[x]]
  BY DEF Move, MoveUnit, Moved, SwapItems
<1>3. items' \in [Places -> Loads]
  BY <1>1, <1>2
<1>4. /\ items'[y] = items[x] /\ items'[x] = items[y] /\ \A z \in Places \ {x, y} : items'[z] = items[z]
      /\ units'[y] = units[x] /\ units'[x] = units[y] /\ \A z \in Places \ {x, y} : units'[z] = units[z]
  BY <1>1, <1>2 DEF Rosters
<1>5. Carrying(units', items')
  BY <1>1, <1>4 DEF Carrying
<1>6. ASSUME NEW i \in Base PROVE Stock(items', bag', i) = Stock(items, bag, i)
  <2>1. PICK mid : mid = [items EXCEPT ![x] = items[y]]
    OBVIOUS
  <2>2. mid \in [Places -> Loads] /\ mid[x] = items[y] /\ \A z \in Places \ {x} : mid[z] = items[z]
    BY <1>1, <2>1
  <2>3. OnUnits(mid, i) = OnUnits(items, i) + OnUnit(items[y], i) - OnUnit(items[x], i)
    BY <1>1, <2>2, RowChange
  <2>4. CASE x = y
    <3>1. items' = items
      BY <1>1, <1>2, <2>4
    <3> QED
      BY <1>2, <3>1
  <2>5. CASE x # y
    <3>1. items'[y] = items[x] /\ mid[y] = items[y] /\ \A z \in Places \ {y} : items'[z] = mid[z]
      BY <1>1, <1>4, <2>2, <2>5
    <3>2. OnUnits(items', i) = OnUnits(mid, i) + OnUnit(items[x], i) - OnUnit(items[y], i)
      BY <1>1, <1>3, <2>2, <3>1, RowChange
    <3>3. OnUnits(items, i) \in Int /\ OnUnit(items[x], i) \in Int /\ OnUnit(items[y], i) \in Int
      <4>1. items[x] \in Loads /\ items[y] \in Loads
        BY <1>1
      <4> QED
        BY <1>1, <4>1, SumTypes
    <3>4. OnUnits(items', i) = OnUnits(items, i)
      BY <2>3, <3>2, <3>3
    <3> QED
      BY <1>2, <3>4 DEF Stock
  <2> QED
    BY <2>4, <2>5
<1> QED
  BY <1>1, <1>2, <1>3, <1>5, <1>6

\* A unit that is sold leaves its items in the bag.
LEMMA SellKeeps ==
  ASSUME ItemInv, NEW x \in Cells, Sell(x)
  PROVE  /\ items' \in [Places -> Loads] /\ bag' \in Bags
         /\ Carrying(units', items')
         /\ \A i \in Base : Stock(items', bag', i) = Stock(items, bag, i)
<1>1. /\ x \in Places /\ units \in Rosters /\ items[x] \in Loads
      /\ items \in [Places -> Loads] /\ bag \in Bags /\ Carrying(units, items)
  BY PlacesFact DEF ItemInv, ItemTypes, TypeOK
<1>2. /\ items' = [items EXCEPT ![x] = NoItems] /\ bag' = Returned(bag, items[x])
      /\ units' = [units EXCEPT ![x] = Empty]
  BY DEF Sell, RemoveUnit, Removed
<1>3. NoItems \in Loads
  BY DEF NoItems, Loads, Slots
<1>4. items' \in [Places -> Loads]
  BY <1>1, <1>2, <1>3
<1>5. Carrying(units', items')
  BY <1>1, <1>2 DEF Carrying, Rosters
<1>6. bag' \in Bags
  <2> SUFFICES ASSUME NEW j \in Items PROVE bag[j] + Cardinality({k \in 1 .. ItemSlots : items[x][k] = j}) \in Nat
    BY <1>2 DEF Returned, Bags
  <2>1. Cardinality({k \in 1 .. ItemSlots : items[x][k] = j}) \in Nat
    BY FiniteSlots, FS_Subset, FS_CardinalityType DEF Slots
  <2> QED
    BY <1>1, <2>1 DEF Bags
<1>7. ASSUME NEW i \in Base PROVE Stock(items', bag', i) = Stock(items, bag, i)
  <2>1. /\ OnUnits(items, i) \in Int /\ OnUnit(items[x], i) \in Int /\ OnUnit(NoItems, i) = 0
        /\ OnUnits(items', i) = OnUnits(items, i) + OnUnit(NoItems, i) - OnUnit(items[x], i)
    <3>1. OnUnit(NoItems, i) = 0
      BY SumTypes
    <3>2. items'[x] = NoItems /\ \A y \in Places \ {x} : items'[y] = items[y]
      BY <1>1, <1>2
    <3>3. /\ OnUnits(items, i) \in Int /\ OnUnit(items[x], i) \in Int
          /\ OnUnits(items', i) = OnUnits(items, i) + OnUnit(items'[x], i) - OnUnit(items[x], i)
      BY <1>1, <1>4, <3>2, LoadChange
    <3> QED
      BY <3>1, <3>2, <3>3
  <2>2. InTheBag(bag', i) = InTheBag(bag, i) + OnUnit(items[x], i)
    BY <1>1, <1>2, ReturnedParts
  <2>3. InTheBag(bag, i) \in Int
    BY <1>1, SumTypes DEF Bags
  <2> QED
    BY <2>1, <2>2, <2>3 DEF Stock
<1> QED
  BY <1>4, <1>5, <1>6, <1>7

\* An item that is taken from the bag onto a unit.
LEMMA EquipKeeps ==
  ASSUME ItemInv, NEW x \in Cells, NEW j \in Items, EquipItem(x, j)
  PROVE  /\ items' \in [Places -> Loads] /\ bag' \in Bags
         /\ Carrying(units', items')
         /\ \A i \in Base : Stock(items', bag', i) = Stock(items, bag, i)
<1>1. /\ x \in Places /\ items[x] \in Loads
      /\ items \in [Places -> Loads] /\ bag \in Bags /\ Carrying(units, items)
  BY PlacesFact DEF ItemInv, ItemTypes
<1>2. PICK h : h = PlaceItem(items[x], j)
  OBVIOUS
<1>3. /\ items' = [items EXCEPT ![x] = h] /\ bag' = Taken(bag, j) /\ units' = units
      /\ bag[j] > 0 /\ Fits(items[x], j) /\ CanCarry(x)
  BY <1>2 DEF EquipItem
<1>4. h \in Loads /\ \A i \in Base : OnUnit(h, i) = OnUnit(items[x], i) + Parts(j, i)
  <2>1. PICK o : o = [on |-> items[x], bag |-> bag]
    OBVIOUS
  <2>2. o \in Kits /\ j # NoItem /\ HandOn(o, j) = [on |-> h, bag |-> bag]
    BY <1>1, <1>2, <1>3, <2>1, ItemAssumption DEF Kits, HandOn
  <2>3. HandOn(o, j) \in Kits
    BY <2>2, HandOnIs
  <2>4. h \in Loads
    BY <2>2, <2>3 DEF Kits
  <2> QED
    BY <1>1, <1>2, <1>3, <2>4, PlaceItemIs
<1>5. items' \in [Places -> Loads]
  BY <1>1, <1>3, <1>4
<1>6. Carrying(units', items')
  BY <1>1, <1>3 DEF Carrying, CanCarry
<1>7. bag' \in Bags
  BY <1>1, <1>3 DEF Taken, Bags
<1>8. ASSUME NEW i \in Base PROVE Stock(items', bag', i) = Stock(items, bag, i)
  <2>1. /\ OnUnits(items, i) \in Int /\ OnUnit(items[x], i) \in Int
        /\ OnUnits(items', i) = OnUnits(items, i) + OnUnit(h, i) - OnUnit(items[x], i)
    <3>1. items'[x] = h /\ \A y \in Places \ {x} : items'[y] = items[y]
      BY <1>1, <1>3
    <3>2. /\ OnUnits(items, i) \in Int /\ OnUnit(items[x], i) \in Int /\ OnUnit(items'[x], i) \in Int
          /\ OnUnits(items', i) = OnUnits(items, i) + OnUnit(items'[x], i) - OnUnit(items[x], i)
      BY <1>1, <1>5, <3>1, LoadChange
    <3> QED
      BY <3>1, <3>2
  <2>2. InTheBag(bag, i) \in Int /\ InTheBag(bag', i) = InTheBag(bag, i) - Parts(j, i)
    BY <1>1, <1>3, BagShrinks
  <2>3. Parts(j, i) \in Int
    BY PartsType
  <2> QED
    BY <1>4, <2>1, <2>2, <2>3 DEF Stock
<1> QED
  BY <1>5, <1>6, <1>7, <1>8

\* A remover is used up; what the unit held goes to the bag.
LEMMA RemoverKeeps ==
  ASSUME ItemInv, NEW x \in Cells, NEW j \in Items, UseRemover(x, j)
  PROVE  /\ items' \in [Places -> Loads] /\ bag' \in Bags /\ given' \in [Base -> Int]
         /\ Carrying(units', items')
         /\ \A i \in Base : given'[i] - given[i] = Stock(items', bag', i) - Stock(items, bag, i)
<1>1. /\ x \in Places /\ items[x] \in Loads /\ given \in [Base -> Int]
      /\ items \in [Places -> Loads] /\ bag \in Bags /\ Carrying(units, items)
  BY PlacesFact DEF ItemInv, ItemTypes
<1>2. PICK b : b = Taken(bag, j)
  OBVIOUS
<1>3. /\ items' = [items EXCEPT ![x] = NoItems] /\ bag' = Returned(b, items[x]) /\ units' = units
      /\ bag[j] > 0 /\ given' = [given EXCEPT ![j] = @ - 1] /\ j \in Base /\ j \notin Combined
  BY <1>2, ItemAssumption DEF UseRemover, Base
<1>4. b \in Bags /\ NoItems \in Loads
  BY <1>1, <1>2, <1>3 DEF Taken, Bags, NoItems, Loads, Slots
<1>5. items' \in [Places -> Loads] /\ given' \in [Base -> Int]
  BY <1>1, <1>3, <1>4
<1>6. Carrying(units', items')
  BY <1>1, <1>3 DEF Carrying
<1>7. bag' \in Bags
  BY <1>1, <1>3, <1>4, ReturnedParts
<1>8. ASSUME NEW i \in Base PROVE given'[i] - given[i] = Stock(items', bag', i) - Stock(items, bag, i)
  <2>1. OnUnit(NoItems, i) = 0
    BY SumTypes
  <2>2. /\ OnUnits(items, i) \in Int /\ OnUnit(items[x], i) \in Int
        /\ OnUnits(items', i) = OnUnits(items, i) + OnUnit(NoItems, i) - OnUnit(items[x], i)
    <3>1. items'[x] = NoItems /\ \A y \in Places \ {x} : items'[y] = items[y]
      BY <1>1, <1>3
    <3>2. /\ OnUnits(items, i) \in Int /\ OnUnit(items[x], i) \in Int /\ OnUnit(items'[x], i) \in Int
          /\ OnUnits(items', i) = OnUnits(items, i) + OnUnit(items'[x], i) - OnUnit(items[x], i)
      BY <1>1, <1>5, <3>1, LoadChange
    <3> QED
      BY <3>1, <3>2
  <2>3. InTheBag(bag, i) \in Int /\ InTheBag(b, i) = InTheBag(bag, i) - Parts(j, i)
    BY <1>1, <1>2, <1>3, BagShrinks
  <2>4. InTheBag(bag', i) = InTheBag(b, i) + OnUnit(items[x], i)
    BY <1>1, <1>3, <1>4, ReturnedParts
  <2>5. Parts(j, i) = IF i = j THEN 1 ELSE 0
    BY <1>3 DEF Parts
  <2>6. given[i] \in Int /\ given'[i] = given[i] - (IF i = j THEN 1 ELSE 0)
    BY <1>1, <1>3
  <2> QED
    BY <2>1, <2>2, <2>3, <2>4, <2>5, <2>6 DEF Stock
<1> QED
  BY <1>5, <1>6, <1>7, <1>8

\* Two items of the bag become the one they make.
LEMMA CombineKeeps ==
  ASSUME ItemInv, NEW j \in Items, NEW k \in Items, CombineItems(j, k)
  PROVE  bag' \in Bags /\ \A i \in Base : InTheBag(bag', i) = InTheBag(bag, i)
<1>1. bag \in Bags
  BY DEF ItemInv, ItemTypes
<1>2. PICK made \in Combination(j, k) : bag' = [Taken(Taken(bag, j), k) EXCEPT ![made] = @ + 1]
  BY DEF CombineItems
<1>3. PICK b : b = Taken(bag, j)
  OBVIOUS
<1>4. PICK e : e = Taken(b, k)
  OBVIOUS
<1>5. bag[j] > 0 /\ bag[k] > (IF j = k THEN 1 ELSE 0)
  BY DEF CombineItems, InBag
<1>6. b \in Bags /\ b[k] > 0
  BY <1>1, <1>3, <1>5 DEF Taken, Bags
<1>7. e \in Bags /\ bag' = [e EXCEPT ![made] = @ + 1]
  BY <1>2, <1>3, <1>4, <1>6 DEF Taken, Bags
<1>8. made \in Items
  BY ItemAssumption DEF Combination
<1>9. ASSUME NEW i \in Base PROVE InTheBag(bag', i) = InTheBag(bag, i)
  <2>1. InTheBag(bag, i) \in Int /\ InTheBag(b, i) = InTheBag(bag, i) - Parts(j, i)
    BY <1>1, <1>3, <1>5, BagShrinks
  <2>2. InTheBag(e, i) = InTheBag(b, i) - Parts(k, i)
    BY <1>4, <1>6, BagShrinks
  <2>3. InTheBag(bag', i) = InTheBag(e, i) + Parts(made, i)
    BY <1>7, <1>8, BagGrows
  <2>4. Parts(made, i) = Parts(j, i) + Parts(k, i)
    BY <1>2, RecipeParts
  <2>5. Parts(j, i) \in Int /\ Parts(k, i) \in Int
    BY PartsType
  <2> QED
    BY <2>1, <2>2, <2>3, <2>4, <2>5
<1>10. bag' \in Bags
  BY <1>7, <1>8 DEF Bags
<1> QED
  BY <1>9, <1>10

\* An item goes back into the bag.
LEMMA UnequipKeeps ==
  ASSUME ItemInv, NEW x \in Cells, NEW k \in 1 .. ItemSlots, UnequipItem(x, k)
  PROVE  /\ items' \in [Places -> Loads] /\ bag' \in Bags
         /\ Carrying(units', items')
         /\ \A i \in Base : Stock(items', bag', i) = Stock(items, bag, i)
<1>1. /\ x \in Places /\ items[x] \in Loads /\ k \in Slots
      /\ items \in [Places -> Loads] /\ bag \in Bags /\ Carrying(units, items)
  BY PlacesFact DEF ItemInv, ItemTypes, Slots
<1>2. PICK h, j : h = [items[x] EXCEPT ![k] = NoItem] /\ j = items[x][k]
  OBVIOUS
<1>3. /\ items' = [items EXCEPT ![x] = h] /\ bag' = [bag EXCEPT ![j] = @ + 1] /\ units' = units
      /\ items[x] # NoItems
  BY <1>1, <1>2 DEF UnequipItem, NoItems, Slots
<1>4. j \in Items /\ h \in Loads /\ h[k] = NoItem /\ \A n \in Slots \ {k} : h[n] = items[x][n]
  BY <1>1, <1>2 DEF UnequipItem, Loads
<1>5. items' \in [Places -> Loads] /\ bag' \in Bags
  BY <1>1, <1>3, <1>4 DEF Bags
<1>6. Carrying(units', items')
  BY <1>1, <1>3 DEF Carrying
<1>7. ASSUME NEW i \in Base PROVE Stock(items', bag', i) = Stock(items, bag, i)
  <2>1. /\ OnUnits(items, i) \in Int /\ OnUnit(items[x], i) \in Int /\ OnUnit(h, i) \in Int
        /\ OnUnits(items', i) = OnUnits(items, i) + OnUnit(h, i) - OnUnit(items[x], i)
    <3>1. items'[x] = h /\ \A y \in Places \ {x} : items'[y] = items[y]
      BY <1>1, <1>3
    <3>2. /\ OnUnits(items, i) \in Int /\ OnUnit(items[x], i) \in Int /\ OnUnit(items'[x], i) \in Int
          /\ OnUnits(items', i) = OnUnits(items, i) + OnUnit(items'[x], i) - OnUnit(items[x], i)
      BY <1>1, <1>5, <3>1, LoadChange
    <3> QED
      BY <3>1, <3>2
  <2>2. OnUnit(h, i) = OnUnit(items[x], i) + PartIn(h[k], i) - PartIn(items[x][k], i)
    BY <1>1, <1>4, SlotChange
  <2>3. PartIn(h[k], i) = 0 /\ PartIn(items[x][k], i) = Parts(j, i)
    BY <1>2, <1>4, ItemAssumption DEF PartIn
  <2>4. InTheBag(bag, i) \in Int /\ InTheBag(bag', i) = InTheBag(bag, i) + Parts(j, i)
    BY <1>1, <1>3, <1>4, BagGrows
  <2>5. Parts(j, i) \in Int
    BY <1>4, PartsType
  <2> QED
    BY <2>1, <2>2, <2>3, <2>4, <2>5 DEF Stock
<1> QED
  BY <1>5, <1>6, <1>7

\* In the beginning there is nothing.
LEMMA ItemsBegin ==
  ASSUME ItemsInit
  PROVE  ItemTypes /\ Carrying(units, items) /\ \A i \in Base : given[i] = Stock(items, bag, i)
<1>1. NoItems \in Loads
  BY DEF NoItems, Loads, Slots
<1>2. ItemTypes
  BY <1>1 DEF ItemsInit, ItemTypes, Bags
<1>3. Carrying(units, items)
  BY DEF ItemsInit, Carrying
<1>4. ASSUME NEW i \in Base PROVE given[i] = Stock(items, bag, i)
  <2> DEFINE d == [k \in Items |-> bag[k] * Parts(k, i)]
             e == [t \in Places \X Slots |-> PartIn(items[t[1]][t[2]], i)]
  <2>1. d \in [Items -> Int] /\ \A k \in Items : d[k] = 0
    BY PartsType DEF ItemsInit
  <2>2. e \in [Places \X Slots -> Int] /\ \A t \in Places \X Slots : e[t] = 0
    BY DEF ItemsInit, NoItems, PartIn, Slots
  <2>3. SumFunction(d) = 0
    <3> HIDE DEF d
    <3> QED
      BY <2>1, FiniteSlots, ZeroSum
  <2>4. SumFunction(e) = 0
    <3> HIDE DEF e
    <3>1. PICK S : S = Places \X Slots
      OBVIOUS
    <3> QED
      BY <2>2, <3>1, FiniteSlots, ZeroSum
  <2>5. given[i] = 0
    BY DEF ItemsInit
  <2> QED
    BY <2>3, <2>4, <2>5 DEF Stock, OnUnits, InTheBag
<1> QED
  BY <1>2, <1>3, <1>4

\* Every step keeps the invariant.
LEMMA ItemStepKeeps ==
  ASSUME ItemInv, TypeOK', Layout', [ItemsNext]_itemVars
  PROVE  ItemInv'
<1> DEFINE Even == \A i \in Base : Stock(items', bag', i) = Stock(items, bag, i)
           Unchanged == items' \in [Places -> Loads] /\ bag' \in Bags /\ Carrying(units', items') /\ Even
<1>1. /\ items \in [Places -> Loads] /\ bag \in Bags /\ given \in [Base -> Int]
      /\ Carrying(units, items) /\ units \in Rosters
      /\ \A i \in Base : given[i] = Stock(items, bag, i)
  BY DEF ItemInv, ItemTypes, TypeOK
<1>2. \A i \in Base : Stock(items, bag, i) \in Int
  BY <1>1
<1>3. ASSUME Unchanged, given' = given PROVE ItemInv'
  BY <1>1, <1>3 DEF ItemInv, ItemTypes
<1>4. CASE UNCHANGED itemVars
  <2>1. Unchanged /\ given' = given
    BY <1>1, <1>4 DEF itemVars
  <2> QED
    BY <1>3, <2>1
<1>5. ASSUME NEW c \in Champions \ Plants, Acquire(c) PROVE ItemInv'
  BY <1>3, <1>5, AcquireKeeps DEF Acquire
<1>6. ASSUME NEW x \in Cells, NEW y \in Cells, Move(x, y) PROVE ItemInv'
  BY <1>3, <1>6, MoveKeeps DEF Move
<1>7. ASSUME NEW x \in Cells, Sell(x) PROVE ItemInv'
  BY <1>3, <1>7, SellKeeps DEF Sell
<1>8. ASSUME NEW x \in Cells, RemovePlant(x) PROVE ItemInv'
  <2>1. x \in Places /\ units[x].champ \in Plants
    BY <1>8, PlacesFact DEF RemovePlant
  <2>2. items[x] = NoItems
    BY <1>1, <2>1 DEF Carrying
  <2>3. items' = items /\ bag' = bag /\ given' = given
    BY <1>1, <1>8, <2>1, <2>2 DEF RemovePlant
  <2>4. units' = [units EXCEPT ![x] = Empty]
    BY <1>8 DEF RemovePlant, RemoveUnit, Removed
  <2>5. Carrying(units', items')
    BY <1>1, <2>1, <2>2, <2>3, <2>4 DEF Carrying, Rosters
  <2> QED
    BY <1>1, <1>3, <2>3, <2>5
<1>9. ASSUME NEW c \in Plants, NEW s \in PlantStars, NEW x \in Board, Grow(c, s, x) PROVE ItemInv'
  <2>1. x \in Places /\ units[x] = Empty /\ units' = [units EXCEPT ![x] = Unit(c, s)]
    BY <1>9, PlacesFact DEF Grow, GrowPlant
  <2>2. items[x] = NoItems
    BY <1>1, <2>1, FreeCarriesNothing
  <2>3. items' = items /\ bag' = bag /\ given' = given
    BY <1>9 DEF Grow
  <2>4. Carrying(units', items')
    BY <1>1, <2>1, <2>2, <2>3 DEF Carrying, Rosters
  <2> QED
    BY <1>1, <1>3, <2>3, <2>4
<1>10. CASE LevelUp
  <2>1. Unchanged /\ given' = given
    BY <1>1, <1>10 DEF LevelUp, RaiseCapacity
  <2> QED
    BY <1>3, <2>1
<1>11. ASSUME NEW j \in Items, GiveItem(j) PROVE ItemInv'
  <2>1. /\ items' = items /\ units' = units /\ bag' = [bag EXCEPT ![j] = @ + 1]
        /\ given' = [i \in Base |-> given[i] + Parts(j, i)]
    BY <1>11 DEF GiveItem
  <2>2. given' \in [Base -> Int] /\ bag' \in Bags
    BY <1>1, <2>1, PartsType DEF Bags
  <2>3. ASSUME NEW i \in Base PROVE given'[i] = Stock(items', bag', i)
    <3>1. InTheBag(bag, i) \in Int /\ InTheBag(bag', i) = InTheBag(bag, i) + Parts(j, i)
      BY <1>1, <2>1, BagGrows
    <3>2. given[i] = OnUnits(items, i) + InTheBag(bag, i) /\ OnUnits(items, i) \in Int /\ Parts(j, i) \in Int
      BY <1>1, SumTypes, PartsType DEF Stock
    <3> QED
      BY <2>1, <3>1, <3>2 DEF Stock
  <2> QED
    BY <1>1, <2>1, <2>2, <2>3 DEF ItemInv, ItemTypes
<1>12. ASSUME NEW x \in Cells, NEW j \in Items, EquipItem(x, j) PROVE ItemInv'
  BY <1>3, <1>12, EquipKeeps DEF EquipItem
<1>13. ASSUME NEW x \in Cells, NEW j \in Items, UseRemover(x, j) PROVE ItemInv'
  <2>1. /\ items' \in [Places -> Loads] /\ bag' \in Bags /\ given' \in [Base -> Int]
        /\ Carrying(units', items')
        /\ \A i \in Base : given'[i] - given[i] = Stock(items', bag', i) - Stock(items, bag, i)
    BY <1>13, RemoverKeeps
  <2>2. ASSUME NEW i \in Base PROVE given'[i] = Stock(items', bag', i)
    <3>1. Stock(items', bag', i) \in Int
      BY <2>1, SumTypes DEF Stock, Bags
    <3>2. given'[i] \in Int /\ given[i] \in Int /\ given[i] = Stock(items, bag, i)
      BY <1>1, <2>1
    <3> QED
      BY <2>1, <3>1, <3>2
  <2> QED
    BY <2>1, <2>2 DEF ItemInv, ItemTypes
<1>14. ASSUME NEW j \in Items, NEW k \in Items, CombineItems(j, k) PROVE ItemInv'
  <2>1. items' = items /\ units' = units /\ given' = given
    BY <1>14 DEF CombineItems
  <2>2. bag' \in Bags /\ \A i \in Base : InTheBag(bag', i) = InTheBag(bag, i)
    BY <1>14, CombineKeeps
  <2>3. Unchanged
    BY <1>1, <2>1, <2>2 DEF Stock
  <2> QED
    BY <1>3, <2>1, <2>3
<1>15. ASSUME NEW x \in Cells, NEW k \in 1 .. ItemSlots, UnequipItem(x, k) PROVE ItemInv'
  BY <1>3, <1>15, UnequipKeeps DEF UnequipItem
<1> QED
  BY <1>4, <1>5, <1>6, <1>7, <1>8, <1>9, <1>10, <1>11, <1>12, <1>13, <1>14, <1>15 DEF ItemsNext

\* The invariant of the roster with its items.
LEMMA ItemInvKept == ItemsSpec => []ItemInv
<1>1. ItemsInit /\ TypeOK /\ Layout => ItemInv
  BY ItemsBegin DEF ItemInv
<1>2. ItemInv /\ TypeOK' /\ Layout' /\ [ItemsNext]_itemVars => ItemInv'
  BY ItemStepKeeps
<1>3. ItemsSpec => [](TypeOK /\ Layout)
  BY ItemsFollowRoster, TypeCorrect, LayoutKept, PTL
<1> QED
  BY <1>1, <1>2, <1>3, PTL DEF ItemsSpec

\* Every component the player was given is in the bag or on a unit that may carry it, alone or
\* combined, through every sequence of purchases, merges, cascades, moves, sales and removers,
\* for any number of places, slots and items (UnitRoster::MergeOnce, PlayerState's item calls).
THEOREM ItemsConservedKept == ItemsSpec => []ItemsConserved
<1>1. ItemInv => ItemsConserved
  <2> SUFFICES ASSUME ItemInv PROVE ItemsConserved
    OBVIOUS
  <2>1. ASSUME NEW i \in Base PROVE Held(i) = given[i]
    <3>1. Held(i) = InTheBag(bag, i) + OnUnits(items, i)
      BY DEF Held, InTheBag, OnUnits, PartIn, Slots
    <3>2. InTheBag(bag, i) \in Int /\ OnUnits(items, i) \in Int
      BY SumTypes DEF ItemInv, ItemTypes, Bags
    <3> QED
      BY <3>1, <3>2 DEF ItemInv, Stock
  <2> QED
    BY <2>1 DEF ItemInv, Carrying, ItemsConserved, CanCarry
<1> QED
  BY <1>1, ItemInvKept, PTL

-----------------------------------------------------------------------------
(* Levels of an account.                                                   *)

Level == Nat \ {0}

\* What a level costs is at least one point.
LEMMA XpToNextType == \A l \in Level : XpToNext(l) \in Nat \ {0}
<1> SUFFICES ASSUME NEW l \in Level PROVE XpToNext(l) \in Nat \ {0}
  OBVIOUS
<1>1. PICK n : n = LevelStep * (l - 1)
  OBVIOUS
<1>2. n \in Int /\ LevelMax \in Int /\ LevelBase \in Int
  BY <1>1, AccountsAssumption DEF Level
<1> QED
  BY <1>1, <1>2 DEF XpToNext, Most, Least

LevelStepOf(f, into, l) == IF into >= XpToNext(l) THEN f[into - XpToNext(l)][l + 1] ELSE l

\* f says which level is reached from level l with so many points.
Levels(xp, f) == f = [into \in 0 .. xp |-> [l \in Level |-> LevelStepOf(f, into, l)]]

\* There is such a function: the depths to which there is none have no least element.
LEMMA LevelsExist ==
  ASSUME NEW xp \in Nat
  PROVE  \E f : Levels(xp, f)
<1> DEFINE Deep(n, f) == /\ f \in [0 .. xp -> [Level -> Nat]]
                         /\ \A i \in 0 .. xp : i < n => \A l \in Level : f[i][l] = LevelStepOf(f, i, l)
           Bad == {n \in Nat : ~ \E f : Deep(n, f)}
<1>1. Bad = {}
  <2> SUFFICES ASSUME Bad # {} PROVE FALSE
    OBVIOUS
  <2>1. PICK n \in Bad : \A m \in Bad : n <= m
    <3>1. Bad \subseteq Nat
      OBVIOUS
    <3> HIDE DEF Bad
    <3> QED
      BY <3>1, NatMin
  <2>2. n \in Nat /\ ~ \E f : Deep(n, f)
    OBVIOUS
  <2>3. \A m \in Nat : m < n => m \notin Bad
    <3> HIDE DEF Bad
    <3> QED
      BY <2>1, <2>2
  <2>4. CASE n = 0
    <3>1. Deep(0, [i \in 0 .. xp |-> [l \in Level |-> l]])
      BY DEF Level
    <3> QED
      BY <2>2, <2>4, <3>1
  <2>5. CASE n # 0
    <3>1. n - 1 \in Nat /\ n - 1 < n
      BY <2>2, <2>5
    <3>2. PICK g : Deep(n - 1, g)
      BY <2>3, <3>1
    <3> DEFINE h == [i \in 0 .. xp |-> IF i < n - 1 THEN g[i] ELSE [l \in Level |-> LevelStepOf(g, i, l)]]
    <3>3. \A i \in 0 .. xp, l \in Level :
             /\ i >= XpToNext(l) => i - XpToNext(l) \in 0 .. xp /\ i - XpToNext(l) < i /\ l + 1 \in Level
             /\ LevelStepOf(g, i, l) \in Nat
      <4> SUFFICES ASSUME NEW i \in 0 .. xp, NEW l \in Level
                   PROVE  /\ i >= XpToNext(l) => i - XpToNext(l) \in 0 .. xp /\ i - XpToNext(l) < i /\ l + 1 \in Level
                          /\ LevelStepOf(g, i, l) \in Nat
        OBVIOUS
      <4>1. PICK x : x = XpToNext(l)
        OBVIOUS
      <4>2. x \in Nat \ {0} /\ l \in Nat \ {0} /\ i \in Nat /\ i <= xp
        BY <4>1, XpToNextType DEF Level
      <4>3. i >= x => i - x \in 0 .. xp /\ i - x < i
        BY <4>2
      <4>4. l + 1 \in Level
        BY <4>2 DEF Level
      <4>5. g \in [0 .. xp -> [Level -> Nat]]
        BY <3>2
      <4>6. i >= x => g[i - x][l + 1] \in Nat
        BY ONLY <4>3, <4>4, <4>5
      <4> QED
        BY <4>1, <4>2, <4>3, <4>4, <4>6 DEF LevelStepOf
    <3>4. h \in [0 .. xp -> [Level -> Nat]]
      BY <3>2, <3>3
    <3>5. ASSUME NEW i \in 0 .. xp, i < n, NEW l \in Level PROVE h[i][l] = LevelStepOf(h, i, l)
      <4>1. h[i][l] = LevelStepOf(g, i, l)
        BY <3>2
      <4>2. \A k \in 0 .. xp : k < n - 1 => h[k] = g[k]
        OBVIOUS
      <4>3. i >= XpToNext(l) => i - XpToNext(l) \in 0 .. xp /\ i - XpToNext(l) < n - 1
        BY <3>1, <3>3, <3>5, XpToNextType
      <4> HIDE DEF h
      <4> QED
        BY <4>1, <4>2, <4>3 DEF LevelStepOf
    <3>6. Deep(n, h)
      BY <3>4, <3>5
    <3> QED
      BY <2>2, <3>6
  <2> QED
    BY <2>4, <2>5
<1>2. PICK f : Deep(xp + 1, f)
  <2>1. xp + 1 \in Nat /\ xp + 1 \notin Bad
    <3> HIDE DEF Bad
    <3> QED
      BY <1>1
  <2> HIDE DEF Deep
  <2> QED
    BY <2>1
<1>3. f = [into \in 0 .. xp |-> [l \in Level |-> f[into][l]]]
  BY <1>2
<1>4. \A into \in 0 .. xp, l \in Level : f[into][l] = LevelStepOf(f, into, l)
  BY <1>2
<1>5. Levels(xp, f)
  <2>1. [into \in 0 .. xp |-> [l \in Level |-> f[into][l]]]
          = [into \in 0 .. xp |-> [l \in Level |-> LevelStepOf(f, into, l)]]
    BY <1>4
  <2> QED
    BY <1>3, <2>1 DEF Levels
<1> QED
  BY <1>5

\* What such a function says of one number of points and one level.
LEMMA LevelsAt ==
  ASSUME NEW xp \in Nat, NEW f, Levels(xp, f)
  PROVE  \A i \in 0 .. xp, l \in Level : f[i][l] = LevelStepOf(f, i, l)
<1>1. PICK g : g = [into \in 0 .. xp |-> [l \in Level |-> LevelStepOf(f, into, l)]]
  OBVIOUS
<1>2. \A i \in 0 .. xp, l \in Level : g[i][l] = LevelStepOf(f, i, l)
  BY <1>1
<1>3. f = g
  BY <1>1 DEF Levels
<1> QED
  BY <1>2, <1>3

LEMMA LevelIs ==
  ASSUME NEW xp \in Nat
  PROVE  \E f : Levels(xp, f) /\ LevelOf(xp) = f[xp][1]
<1> DEFINE f == CHOOSE f : f = [into \in 0 .. xp |-> [l \in Nat \ {0} |->
                              IF into >= XpToNext(l) THEN f[into - XpToNext(l)][l + 1] ELSE l]]
<1>1. LevelOf(xp) = f[xp][1]
  BY DEF LevelOf
<1>2. Levels(xp, f)
  BY LevelsExist DEF Levels, LevelStepOf, Level
<1> QED
  BY <1>1, <1>2

\* Nobody falls below the level they start from.
LEMMA LevelAtLeast ==
  ASSUME NEW xp \in Nat, NEW f, Levels(xp, f)
  PROVE  \A i \in 0 .. xp, l \in Level : f[i][l] \in Nat /\ f[i][l] >= l
<1> DEFINE Good(i) == \A l \in Level : f[i][l] \in Nat /\ f[i][l] >= l
           Bad == {i \in 0 .. xp : ~ Good(i)}
<1>1. Bad = {}
  <2> SUFFICES ASSUME Bad # {} PROVE FALSE
    OBVIOUS
  <2>1. PICK i \in Bad : \A m \in Bad : i <= m
    <3>1. Bad \subseteq Nat
      OBVIOUS
    <3> HIDE DEF Bad
    <3> QED
      BY <3>1, NatMin
  <2>2. i \in 0 .. xp /\ ~ Good(i) /\ \A m \in 0 .. xp : m < i => Good(m)
    <3>1. i \in 0 .. xp /\ ~ Good(i)
      OBVIOUS
    <3>2. \A m \in 0 .. xp : m < i => m \notin Bad
      <4> HIDE DEF Bad
      <4> QED
        BY <2>1, <3>1
    <3> QED
      BY <3>1, <3>2
  <2>3. PICK l \in Level : ~ (f[i][l] \in Nat /\ f[i][l] >= l)
    BY <2>2
  <2>4. f[i][l] = LevelStepOf(f, i, l)
    BY <2>2, LevelsAt
  <2>5. CASE i >= XpToNext(l)
    <3>1. i - XpToNext(l) \in 0 .. xp /\ i - XpToNext(l) < i /\ l + 1 \in Level
      BY <2>2, <2>5, XpToNextType DEF Level
    <3>2. Good(i - XpToNext(l))
      BY <2>2, <3>1
    <3>3. f[i - XpToNext(l)][l + 1] \in Nat /\ f[i - XpToNext(l)][l + 1] >= l + 1
      BY <3>1, <3>2
    <3> QED
      BY <2>3, <2>4, <2>5, <3>3 DEF LevelStepOf, Level
  <2>6. CASE ~ (i >= XpToNext(l))
    BY <2>3, <2>4, <2>6 DEF LevelStepOf, Level
  <2> QED
    BY <2>5, <2>6
<1> QED
  BY <1>1

\* More points never make a lower level.
LEMMA LevelGrows ==
  ASSUME NEW x \in Nat, NEW y \in Nat, NEW f, NEW g, Levels(x, f), Levels(y, g)
  PROVE  \A i \in 0 .. x, j \in 0 .. y, l \in Level : i <= j => f[i][l] <= g[j][l]
<1> DEFINE Good(i) == \A j \in 0 .. y, l \in Level : i <= j => f[i][l] <= g[j][l]
           Bad == {i \in 0 .. x : ~ Good(i)}
<1>1. Bad = {}
  <2> SUFFICES ASSUME Bad # {} PROVE FALSE
    OBVIOUS
  <2>1. PICK i \in Bad : \A m \in Bad : i <= m
    <3>1. Bad \subseteq Nat
      OBVIOUS
    <3> HIDE DEF Bad
    <3> QED
      BY <3>1, NatMin
  <2>2. i \in 0 .. x /\ ~ Good(i) /\ \A m \in 0 .. x : m < i => Good(m)
    <3>1. i \in 0 .. x /\ ~ Good(i)
      OBVIOUS
    <3>2. \A m \in 0 .. x : m < i => m \notin Bad
      <4> HIDE DEF Bad
      <4> QED
        BY <2>1, <3>1
    <3> QED
      BY <3>1, <3>2
  <2>3. PICK j \in 0 .. y, l \in Level : i <= j /\ ~ (f[i][l] <= g[j][l])
    BY <2>2
  <2>4. f[i][l] = LevelStepOf(f, i, l) /\ g[j][l] = LevelStepOf(g, j, l)
    BY <2>2, LevelsAt
  <2>5. CASE i >= XpToNext(l)
    <3>1. /\ i - XpToNext(l) \in 0 .. x /\ i - XpToNext(l) < i /\ l + 1 \in Level
          /\ j >= XpToNext(l) /\ j - XpToNext(l) \in 0 .. y /\ i - XpToNext(l) <= j - XpToNext(l)
      BY <2>2, <2>3, <2>5, XpToNextType DEF Level
    <3>2. Good(i - XpToNext(l))
      BY <2>2, <3>1
    <3>3. f[i - XpToNext(l)][l + 1] <= g[j - XpToNext(l)][l + 1]
      BY <3>1, <3>2
    <3> QED
      BY <2>3, <2>4, <2>5, <3>1, <3>3 DEF LevelStepOf
  <2>6. CASE ~ (i >= XpToNext(l))
    <3>1. f[i][l] = l
      BY <2>4, <2>6 DEF LevelStepOf
    <3>2. g[j][l] \in Nat /\ g[j][l] >= l
      BY LevelAtLeast
    <3> QED
      BY <2>3, <3>1, <3>2 DEF Level
  <2> QED
    BY <2>5, <2>6
<1> QED
  BY <1>1

\* Progression::LevelOf: everybody begins at level 1, and points only raise the level.
LEMMA LevelFacts ==
  /\ LevelOf(0) = 1
  /\ \A x \in Nat : LevelOf(x) \in Nat
  /\ \A x, y \in Nat : x <= y => LevelOf(x) <= LevelOf(y)
<1>1. 1 \in Level
  BY DEF Level
<1>2. LevelOf(0) = 1
  <2>1. PICK f : Levels(0, f) /\ LevelOf(0) = f[0][1]
    BY LevelIs
  <2>2. f[0][1] = LevelStepOf(f, 0, 1)
    BY <1>1, <2>1, LevelsAt
  <2> QED
    BY <1>1, <2>1, <2>2, XpToNextType DEF LevelStepOf
<1>3. ASSUME NEW x \in Nat PROVE LevelOf(x) \in Nat
  <2>1. PICK f : Levels(x, f) /\ LevelOf(x) = f[x][1]
    BY LevelIs
  <2> QED
    BY <1>1, <2>1, LevelAtLeast
<1>4. ASSUME NEW x \in Nat, NEW y \in Nat, x <= y PROVE LevelOf(x) <= LevelOf(y)
  <2>1. PICK f : Levels(x, f) /\ LevelOf(x) = f[x][1]
    BY LevelIs
  <2>2. PICK g : Levels(y, g) /\ LevelOf(y) = g[y][1]
    BY LevelIs
  <2>3. x \in 0 .. x /\ y \in 0 .. y
    OBVIOUS
  <2> QED
    BY <1>1, <1>4, <2>1, <2>2, <2>3, LevelGrows
<1> QED
  BY <1>2, <1>3, <1>4

-----------------------------------------------------------------------------
(* One account.                                                            *)

Fields == {"sessions", "friends", "incoming", "outgoing", "coins", "xp", "owned", "worn", "day", "week", "progress",
           "done", "games", "wins", "points", "peak", "history", "paid", "rewarded", "earned"}

\* The account's coins are accounted for.
AccountOK(a) ==
  /\ DOMAIN a = Fields
  /\ a.coins \in Nat /\ a.xp \in Nat /\ a.earned \in Nat /\ a.owned \subseteq Cosmetics
  /\ a.coins + Spent(a) = StartingCoins + a.earned + LevelUpCoins * (LevelOf(a.xp) - 1)

\* Its history is one of matches that were paid for, newest first, all numbered below next;
\* those whose record is not kept are older than the kept ones.
Backed(matches, next, a) ==
  /\ a.history \in Seq(Nat) /\ Range(a.history) \subseteq a.paid
  /\ \A i, j \in DOMAIN a.history : i < j => a.history[i] > a.history[j]
  /\ \A id \in Range(a.history) : id < next /\ (id \in matches \/ \A kept \in matches : kept > id)

\* b is a but for what has nothing to do with coins and history.
Same(a, b) ==
  /\ DOMAIN b = DOMAIN a
  /\ b.coins = a.coins /\ b.xp = a.xp /\ b.earned = a.earned /\ b.owned = a.owned
  /\ b.history = a.history /\ b.paid = a.paid

LEMMA SameOK ==
  ASSUME NEW a, NEW b, Same(a, b), AccountOK(a)
  PROVE  AccountOK(b)
<1>1. Spent(b) = Spent(a)
  BY DEF Same, Spent
<1> QED
  BY <1>1 DEF Same, AccountOK

LEMMA BackedStill ==
  ASSUME NEW m, NEW n, NEW a, NEW b, Backed(m, n, a), b.history = a.history, a.paid \subseteq b.paid
  PROVE  Backed(m, n, b)
BY DEF Backed

\* A sum of natural numbers is one.
LEMMA SumNat ==
  ASSUME NEW S, IsFiniteSet(S), NEW d \in [S -> Nat]
  PROVE  SumFunction(d) \in Nat
<1>1. PICK g : Sums(d, g) /\ SumFunction(d) = g[S]
  BY SumIs
<1> DEFINE Bad == {s \in SUBSET S : g[s] \notin Nat}
<1>2. Bad = {}
  <2> SUFFICES ASSUME Bad # {} PROVE FALSE
    OBVIOUS
  <2>1. PICK s \in Bad : \A r \in Bad : ~ (r \subseteq s /\ r # s)
    <3>1. Bad \subseteq SUBSET S
      OBVIOUS
    <3> HIDE DEF Bad
    <3> QED
      BY <3>1, LeastSubset
  <2>2. g[s] = SumStep(d, g, s)
    BY <1>1 DEF Sums
  <2>3. CASE s = {}
    BY <2>2, <2>3 DEF SumStep
  <2>4. CASE s # {}
    <3> DEFINE x == CHOOSE x \in s : TRUE
    <3>1. x \in s
      BY <2>4
    <3>2. g[s] = d[x] + g[s \ {x}]
      BY <2>2, <2>4 DEF SumStep
    <3> HIDE DEF x
    <3>3. g[s \ {x}] \in Nat
      BY <2>1, <3>1
    <3> QED
      BY <3>1, <3>2, <3>3
  <2> QED
    BY <2>3, <2>4
<1> QED
  BY <1>1, <1>2

\* A new account has its starting coins, and nothing else.
LEMMA NewAccountOK ==
  ASSUME NEW t, NEW a, a = NewAccount(t)
  PROVE  AccountOK(a) /\ \A m, n : Backed(m, n, a)
<1>1. /\ DOMAIN a = Fields /\ a.coins = StartingCoins /\ a.xp = 0 /\ a.earned = 0 /\ a.owned = {}
      /\ a.history = << >> /\ a.paid = {}
  BY DEF NewAccount, Fields
<1>2. Spent(a) = 0
  <2> DEFINE d == [i \in Cosmetics |-> IF i \in a.owned THEN Price[i] ELSE 0]
  <2>1. d \in [Cosmetics -> Int] /\ \A i \in Cosmetics : d[i] = 0
    BY <1>1
  <2>2. SumFunction(d) = 0
    <3> HIDE DEF d
    <3> QED
      BY <2>1, ZeroSum, AccountsAssumption
  <2> QED
    BY <2>2 DEF Spent
<1>3. LevelUpCoins * (LevelOf(0) - 1) = 0
  BY LevelFacts, AccountsAssumption
<1>4. AccountOK(a)
  BY <1>1, <1>2, <1>3, AccountsAssumption DEF AccountOK
<1>5. ASSUME NEW m, NEW n PROVE Backed(m, n, a)
  BY <1>1 DEF Backed, Range
<1> QED
  BY <1>4, <1>5

\* What is bought is paid for.
LEMMA BuyOK ==
  ASSUME NEW a, AccountOK(a), NEW item \in Cosmetics \ a.owned, a.coins >= Price[item],
         NEW b, DOMAIN b = DOMAIN a, b.coins = a.coins - Price[item], b.owned = a.owned \cup {item},
         b.xp = a.xp, b.earned = a.earned
  PROVE  AccountOK(b)
<1> DEFINE d == [i \in Cosmetics |-> IF i \in a.owned THEN Price[i] ELSE 0]
           e == [i \in Cosmetics |-> IF i \in b.owned THEN Price[i] ELSE 0]
<1>1. Price[item] \in Nat /\ IsFiniteSet(Cosmetics) /\ Price \in [Cosmetics -> Nat]
  BY AccountsAssumption
<1>2. /\ d \in [Cosmetics -> Int] /\ e \in [Cosmetics -> Int]
      /\ e[item] = d[item] + Price[item] /\ \A x \in Cosmetics \ {item} : e[x] = d[x]
  BY <1>1
<1>3. SumFunction(d) \in Int /\ SumFunction(e) = SumFunction(d) + Price[item]
  <2> HIDE DEF d, e
  <2> QED
    BY <1>1, <1>2, PointChange
<1>4. Spent(a) \in Int /\ Spent(b) = Spent(a) + Price[item]
  BY <1>3 DEF Spent
<1>5. b.coins + Spent(b) = a.coins + Spent(a) /\ b.coins \in Nat
  BY <1>1, <1>4 DEF AccountOK
<1> QED
  BY <1>5 DEF AccountOK

LEMMA Products ==
  ASSUME NEW c \in Nat, NEW x \in Nat, NEW y \in Nat, x <= y
  PROVE  c * (y - x) \in Nat /\ c * (x - 1) \in Int /\ c * (y - 1) = c * (x - 1) + c * (y - x)
<1>1. c * (y - 1) = c * (x - 1) + c * (y - x) /\ c * (x - 1) \in Int
  OBVIOUS
<1>2. PICK d : d = y - x
  OBVIOUS
<1>3. d \in Nat
  BY <1>2
<1>4. c * d \in Nat
  BY <1>3
<1> QED
  BY <1>1, <1>2, <1>4

\* A grant pays what it says, and every level it makes.
LEMMA GrantedOK ==
  ASSUME NEW a, AccountOK(a), NEW coins \in Nat, NEW xp \in Nat, NEW b, b = Granted(a, coins, xp)
  PROVE  AccountOK(b) /\ b.history = a.history /\ b.paid = a.paid
<1>1. PICK l, k : l = LevelOf(a.xp) /\ k = LevelOf(a.xp + xp)
  OBVIOUS
<1>2. l \in Nat /\ k \in Nat /\ l <= k
  BY <1>1, LevelFacts DEF AccountOK
<1>3. /\ DOMAIN b = Fields /\ b.coins = a.coins + coins + LevelUpCoins * (k - l) /\ b.xp = a.xp + xp
      /\ b.earned = a.earned + coins /\ b.owned = a.owned /\ b.history = a.history /\ b.paid = a.paid
  BY <1>1 DEF Granted, AccountOK, Fields
<1>4. LevelUpCoins \in Nat /\ StartingCoins \in Nat
  BY AccountsAssumption
<1>5. PICK p, q, r : p = LevelUpCoins * (k - l) /\ q = LevelUpCoins * (l - 1) /\ r = LevelUpCoins * (k - 1)
  OBVIOUS
<1>6. p \in Nat /\ q \in Int /\ r = q + p
  BY <1>2, <1>4, <1>5, Products
<1>7. Spent(b) = Spent(a)
  BY <1>3 DEF Spent
<1>8. Spent(a) \in Int
  <2> DEFINE d == [i \in Cosmetics |-> IF i \in a.owned THEN Price[i] ELSE 0]
  <2>1. d \in [Cosmetics -> Nat]
    BY AccountsAssumption
  <2>2. SumFunction(d) \in Nat
    <3> HIDE DEF d
    <3> QED
      BY <2>1, SumNat, AccountsAssumption
  <2> QED
    BY <2>2 DEF Spent
<1>9. a.coins + Spent(a) = StartingCoins + a.earned + q
  BY <1>1, <1>5 DEF AccountOK
<1>10. b.coins = a.coins + coins + p /\ a.coins \in Nat /\ a.earned \in Nat /\ a.xp \in Nat /\ a.owned \subseteq Cosmetics
  BY <1>3, <1>5 DEF AccountOK
<1>11. b.coins + Spent(b) = StartingCoins + b.earned + r
  <2>1. PICK c, e, f, u, v, w : /\ c = a.coins /\ e = a.earned /\ f = Spent(a)
                                /\ u = b.coins /\ v = Spent(b) /\ w = b.earned
    OBVIOUS
  <2>2. /\ c \in Nat /\ e \in Nat /\ f \in Int /\ coins \in Nat /\ p \in Nat /\ q \in Int /\ StartingCoins \in Nat
        /\ u = c + coins + p /\ v = f /\ w = e + coins /\ r = q + p /\ c + f = StartingCoins + e + q
    BY <1>3, <1>4, <1>6, <1>7, <1>8, <1>9, <1>10, <2>1
  <2>3. u + v = StartingCoins + w + r
    BY ONLY <2>2
  <2> QED
    BY <2>1, <2>3
<1>12. b.coins \in Nat /\ b.xp \in Nat /\ b.earned \in Nat
  BY <1>3, <1>6, <1>10
<1> QED
  BY <1>1, <1>3, <1>5, <1>10, <1>11, <1>12 DEF AccountOK

\* A match that is recorded comes first in the history.
LEMMA RecordMatchOK ==
  ASSUME NEW a, AccountOK(a), NEW id \in Nat, NEW mode, NEW p, NEW m, NEW n, Backed(m, n, a),
         id \in a.paid, id \in m, id < n, \A h \in Range(a.history) : h < id,
         NEW b, b = RecordMatch(a, id, mode, p)
  PROVE  AccountOK(b) /\ Backed(m, n, b) /\ b.paid = a.paid
<1>1. PICK g : g = <<id>> \o a.history
  OBVIOUS
<1>2. PICK k : k = Least(Len(g), HistoryKept)
  OBVIOUS
<1>3. /\ DOMAIN b = DOMAIN a /\ b.coins = a.coins /\ b.xp = a.xp /\ b.earned = a.earned /\ b.owned = a.owned
      /\ b.paid = a.paid /\ b.history = SubSeq(g, 1, k)
  BY <1>1, <1>2 DEF RecordMatch, AccountOK, Fields
<1>4. AccountOK(b)
  <2>1. Spent(b) = Spent(a)
    BY <1>3 DEF Spent
  <2> QED
    BY <1>3, <2>1 DEF AccountOK
<1>5. /\ a.history \in Seq(Nat) /\ Len(a.history) \in Nat /\ DOMAIN a.history = 1 .. Len(a.history)
      /\ \A i \in DOMAIN a.history : a.history[i] \in Range(a.history)
  BY DEF Backed, Range
<1>6. /\ g \in Seq(Nat) /\ Len(g) = Len(a.history) + 1 /\ g[1] = id
      /\ \A i \in 2 .. Len(g) : g[i] = a.history[i - 1]
  BY <1>1, <1>5
<1>7. k \in 0 .. Len(g)
  <2>1. HistoryKept \in Nat \ {0}
    BY AccountsAssumption
  <2> QED
    BY <1>2, <1>5, <1>6, <2>1 DEF Least
<1>8. b.history \in Seq(Nat) /\ DOMAIN b.history = 1 .. k /\ \A i \in 1 .. k : b.history[i] = g[i]
  BY <1>3, <1>6, <1>7
<1>9. ASSUME NEW i \in 1 .. k
      PROVE  b.history[i] = id \/ (i > 1 /\ i - 1 \in DOMAIN a.history /\ b.history[i] = a.history[i - 1])
  <2>1. PICK L : L = Len(a.history)
    OBVIOUS
  <2>2. L \in Nat /\ k \in 0 .. L + 1 /\ Len(g) = L + 1
    BY <1>5, <1>6, <1>7, <2>1
  <2>3. b.history[i] = g[i]
    BY <1>8
  <2>4. CASE i = 1
    BY <1>6, <2>3, <2>4
  <2>5. CASE i # 1
    <3>1. i \in 2 .. L + 1 /\ i - 1 \in 1 .. L /\ i > 1
      BY <2>2, <2>5
    <3> QED
      BY <1>5, <1>6, <2>1, <2>2, <2>3, <3>1
  <2> QED
    BY <2>4, <2>5
<1>10. Range(b.history) \subseteq Range(a.history) \cup {id}
  BY <1>5, <1>8, <1>9 DEF Range
<1>11. ASSUME NEW i \in 1 .. k, NEW j \in 1 .. k, i < j PROVE b.history[i] > b.history[j]
  <2>0. PICK L : L = Len(a.history)
    OBVIOUS
  <2>9. L \in Nat /\ k \in 0 .. L + 1 /\ Len(g) = L + 1 /\ DOMAIN a.history = 1 .. L
    BY <1>5, <1>6, <1>7, <2>0
  <2>10. j > 1 /\ j \in 2 .. L + 1 /\ j - 1 \in 1 .. L
    BY <1>11, <2>9
  <2>1. j > 1 /\ j \in 2 .. Len(g) /\ j - 1 \in DOMAIN a.history /\ b.history[j] = a.history[j - 1]
    BY <1>6, <1>8, <2>9, <2>10
  <2>2. CASE i = 1
    <3>1. b.history[i] = id
      BY <1>6, <1>8, <2>2
    <3>2. a.history[j - 1] < id /\ a.history[j - 1] \in Nat
      BY <1>5, <2>1
    <3> QED
      BY <2>1, <3>1, <3>2
  <2>3. CASE i > 1
    <3>1. i - 1 \in DOMAIN a.history /\ b.history[i] = a.history[i - 1] /\ i - 1 < j - 1
      <4>1. i \in 2 .. L + 1 /\ i - 1 \in 1 .. L /\ i - 1 < j - 1
        BY <1>11, <2>9, <2>3, <2>10
      <4> QED
        BY <1>6, <1>8, <2>9, <4>1
    <3>2. a.history[i - 1] > a.history[j - 1]
      BY <2>1, <3>1 DEF Backed
    <3> QED
      BY <2>1, <3>1, <3>2
  <2> QED
    BY <2>2, <2>3
<1>12. Backed(m, n, b)
  BY <1>3, <1>8, <1>10, <1>11 DEF Backed
<1> QED
  BY <1>3, <1>4, <1>12

-----------------------------------------------------------------------------
(* The store of accounts.                                                  *)

IsStore(s) ==
  /\ DOMAIN s = {"accounts", "matches", "next"}
  /\ s.next \in Nat \ {0} /\ s.matches \subseteq Nat /\ IsFiniteSet(s.matches)
  /\ \A id \in s.matches : id < s.next

StoreOK(s) ==
  /\ IsStore(s) /\ DOMAIN s.accounts \subseteq Names
  /\ \A k \in DOMAIN s.accounts : AccountOK(s.accounts[k]) /\ Backed(s.matches, s.next, s.accounts[k])

LEMMA EmptyStoreOK == StoreOK(EmptyStore)
BY FS_EmptySet DEF StoreOK, IsStore, EmptyStore

\* The store with another account, or another state of one.
LEMMA WithAccountIs ==
  ASSUME NEW s, IsStore(s), NEW key, NEW a, NEW w, w = WithAccount(s, key, a)
  PROVE  /\ IsStore(w) /\ w.matches = s.matches /\ w.next = s.next
         /\ DOMAIN w.accounts = DOMAIN s.accounts \cup {key} /\ w.accounts[key] = a
         /\ \A k \in DOMAIN s.accounts \ {key} : w.accounts[k] = s.accounts[k]
<1>1. PICK f : f = [k \in DOMAIN s.accounts \cup {key} |-> IF k = key THEN a ELSE s.accounts[k]]
  OBVIOUS
<1>2. DOMAIN w = DOMAIN s /\ w.matches = s.matches /\ w.next = s.next /\ w.accounts = f
  BY <1>1 DEF WithAccount, IsStore
<1> QED
  BY <1>1, <1>2 DEF IsStore

LEMMA WithAccountOK ==
  ASSUME NEW s, StoreOK(s), NEW key \in Names, NEW a, AccountOK(a), Backed(s.matches, s.next, a)
  PROVE  StoreOK(WithAccount(s, key, a))
<1>1. PICK w : w = WithAccount(s, key, a)
  OBVIOUS
<1>2. /\ IsStore(w) /\ w.matches = s.matches /\ w.next = s.next
      /\ DOMAIN w.accounts = DOMAIN s.accounts \cup {key} /\ w.accounts[key] = a
      /\ \A k \in DOMAIN s.accounts \ {key} : w.accounts[k] = s.accounts[k]
  BY <1>1, WithAccountIs DEF StoreOK
<1>3. StoreOK(w)
  BY <1>2 DEF StoreOK
<1> QED
  BY <1>1, <1>3

\* The newest match is kept, and what is kept is newer than what is not.
LEMMA KeptIs ==
  ASSUME NEW ids, IsFiniteSet(ids), ids \subseteq Nat, NEW new \in ids, \A id \in ids : id <= new
  PROVE  /\ Kept(ids) \subseteq ids /\ new \in Kept(ids)
         /\ \A id \in ids \ Kept(ids), kept \in Kept(ids) : kept > id
<1> DEFINE From(id) == {i \in ids : i >= id}
<1>1. \A id \in ids : IsFiniteSet(From(id)) /\ Cardinality(From(id)) \in Nat
  <2> SUFFICES ASSUME NEW id \in ids PROVE IsFiniteSet(From(id)) /\ Cardinality(From(id)) \in Nat
    OBVIOUS
  <2>1. From(id) \subseteq ids
    OBVIOUS
  <2> HIDE DEF From
  <2> QED
    BY <2>1, FS_Subset, FS_CardinalityType
<1>2. Cardinality(From(new)) = 1
  <2>1. From(new) = {new}
    <3>1. \A i \in ids : i \in Nat /\ i <= new /\ new \in Nat
      OBVIOUS
    <3>2. \A i \in ids : i >= new => i = new
      BY <3>1
    <3>3. new >= new
      BY <3>1
    <3> QED
      BY <3>2, <3>3
  <2> HIDE DEF From
  <2> QED
    BY <2>1, FS_Singleton
<1>3. MatchesKept \in Nat \ {0}
  BY AccountsAssumption
<1>4. new \in Kept(ids)
  BY <1>2, <1>3 DEF Kept
<1>5. ASSUME NEW id \in ids \ Kept(ids), NEW kept \in Kept(ids) PROVE kept > id
  <2>1. kept \in ids /\ Cardinality(From(kept)) <= MatchesKept /\ ~ (Cardinality(From(id)) <= MatchesKept)
    BY <1>5 DEF Kept
  <2>2. ASSUME kept <= id PROVE FALSE
    <3>1. From(id) \subseteq From(kept)
      <4>1. id \in Nat /\ kept \in Nat /\ \A i \in ids : i \in Nat
        BY <2>1
      <4>2. \A i \in ids : i >= id => i >= kept
        BY <2>2, <4>1
      <4> QED
        BY <4>2
    <3>2. Cardinality(From(id)) <= Cardinality(From(kept))
      <4> HIDE DEF From
      <4> QED
        BY <3>1, <2>1, <1>1, FS_Subset
    <3> HIDE DEF From
    <3> QED
      BY <1>1, <1>3, <2>1, <3>2
  <2> QED
    BY <2>1, <2>2
<1> QED
  BY <1>4, <1>5 DEF Kept

\* The record of a match is added under a number of its own.
LEMMA AddMatchOK ==
  ASSUME NEW s, StoreOK(s), NEW w, w = AddMatch(s)
  PROVE  /\ StoreOK(w) /\ w.next = s.next + 1 /\ s.next \in w.matches /\ w.accounts = s.accounts
<1>1. PICK ids : ids = s.matches \cup {s.next}
  OBVIOUS
<1>2. /\ s.next \in Nat \ {0} /\ s.matches \subseteq Nat /\ IsFiniteSet(s.matches)
      /\ \A id \in s.matches : id < s.next
  BY DEF StoreOK, IsStore
<1>3. IsFiniteSet(ids) /\ ids \subseteq Nat /\ s.next \in ids /\ \A id \in ids : id <= s.next
  BY <1>1, <1>2, FS_AddElement
<1>4. PICK K : K = Kept(ids)
  OBVIOUS
<1>5. K \subseteq ids /\ s.next \in K /\ \A id \in ids \ K, kept \in K : kept > id
  BY <1>3, <1>4, KeptIs
<1>6. DOMAIN w = {"accounts", "matches", "next"} /\ w.next = s.next + 1 /\ w.matches = K /\ w.accounts = s.accounts
  BY <1>1, <1>4 DEF AddMatch, StoreOK, IsStore
<1>7. IsStore(w)
  <2>1. IsFiniteSet(K)
    BY <1>3, <1>5, FS_Subset
  <2>2. \A id \in K : id < s.next + 1
    <3>1. \A id \in K : id \in Nat /\ id <= s.next
      BY <1>3, <1>5
    <3>2. s.next \in Nat
      BY <1>2
    <3> QED
      BY ONLY <3>1, <3>2
  <2> QED
    <3>1. K \subseteq Nat /\ s.next + 1 \in Nat \ {0}
      BY <1>2, <1>3, <1>5
    <3>2. w.next = s.next + 1 /\ w.matches = K /\ DOMAIN w = {"accounts", "matches", "next"}
      BY <1>6
    <3> QED
      BY <2>1, <2>2, <3>1, <3>2 DEF IsStore
<1>8. ASSUME NEW a, Backed(s.matches, s.next, a) PROVE Backed(w.matches, w.next, a)
  <2>1. ASSUME NEW id \in Range(a.history)
        PROVE  id < w.next /\ (id \in w.matches \/ \A kept \in w.matches : kept > id)
    <3>1. id \in Nat /\ id < s.next /\ (id \in s.matches \/ \A kept \in s.matches : kept > id)
      <4>1. id \in Nat
        BY <1>8, <2>1 DEF Backed, Range
      <4> QED
        BY <1>8, <2>1, <4>1 DEF Backed
    <3>2. CASE id \in s.matches
      BY <1>1, <1>2, <1>5, <1>6, <3>1, <3>2
    <3>3. CASE \A kept \in s.matches : kept > id
      BY <1>1, <1>2, <1>5, <1>6, <3>1, <3>3
    <3> QED
      BY <3>1, <3>2, <3>3
  <2> QED
    BY <1>8, <2>1 DEF Backed
<1>9. StoreOK(w)
  BY <1>6, <1>7, <1>8 DEF StoreOK
<1> QED
  BY <1>5, <1>6, <1>9

-----------------------------------------------------------------------------
(* The process, its file and what it has left to do.                       *)

Jobs == [key : Names, id : Nat, mode : Modes, placement : Placements, at : 1 .. 5, due : SUBSET Missions]

\* What is left to do for an account after a match: the match is recorded and the newest,
\* it has been paid for from the second step on, and it is not yet in the account's history.
JobOK(s, j) ==
  /\ j.key \in DOMAIN s.accounts
  /\ j.id = s.next - 1 /\ j.id \in s.matches
  /\ j.at > 1 => j.id \in s.accounts[j.key].paid
  /\ \A h \in Range(s.accounts[j.key].history) : h < j.id

TodoOK(s, t) ==
  /\ t \in Seq(Jobs)
  /\ \A n \in 1 .. Len(t) : JobOK(s, t[n]) /\ (n > 1 => t[n].at = 1)
  /\ \A m, n \in 1 .. Len(t) : m # n => t[m].key # t[n].key

StoresOK == StoreOK(store) /\ (file = Nothing \/ StoreOK(file))

SavingOK ==
  /\ saving = "rename" => tmp = store
  /\ ~ up => saving = "no" /\ todo = << >>

AccountsInv == StoresOK /\ SavingOK /\ TodoOK(store, todo) /\ day \in FirstDay .. LastDay

LEMMA NothingTodo == \A s : TodoOK(s, << >>)
BY DEF TodoOK

\* A command leaves the store in order, and nothing to do but to save it.
LEMMA CommandKeeps ==
  ASSUME AccountsInv, Idle, Changed(store'), StoreOK(store'),
         UNCHANGED <<file, tmp, todo, up, day, failures>>
  PROVE  AccountsInv'
<1>1. saving' = "write" /\ todo' = << >> /\ up' /\ file' = file /\ day' = day
  BY DEF Idle, Changed
<1> QED
  BY <1>1, NothingTodo DEF AccountsInv, StoresOK, SavingOK

\* The same for a command on one account.
LEMMA OneAccount ==
  ASSUME AccountsInv, NEW key \in Names, NEW a, Command(key, a),
         AccountOK(a), Backed(store.matches, store.next, a)
  PROVE  AccountsInv'
<1>1. store' = WithAccount(store, key, a) /\ Idle /\ Changed(store') /\ UNCHANGED <<file, tmp, todo, up, day, failures>>
  BY DEF Command, Changed
<1>2. StoreOK(store')
  BY <1>1, WithAccountOK DEF AccountsInv, StoresOK
<1> QED
  BY <1>1, <1>2, CommandKeeps

LEMMA TheAccount ==
  ASSUME AccountsInv, NEW key, Has(key)
  PROVE  /\ AccountOK(The(key)) /\ Backed(store.matches, store.next, The(key)) /\ key \in Names
         /\ DOMAIN The(key) = Fields
BY DEF AccountsInv, StoresOK, StoreOK, Has, The, AccountOK

\* A command that has nothing to do with coins and history.
LEMMA SameKeeps ==
  ASSUME AccountsInv, NEW key, Has(key), NEW a, Command(key, a), Same(The(key), a)
  PROVE  AccountsInv'
<1>1. AccountOK(The(key)) /\ Backed(store.matches, store.next, The(key)) /\ key \in Names
  BY TheAccount
<1>2. AccountOK(a)
  BY <1>1, SameOK
<1>3. Backed(store.matches, store.next, a)
  <2>1. a.history = The(key).history /\ The(key).paid \subseteq a.paid
    BY DEF Same
  <2> QED
    BY <1>1, <2>1, BackedStill
<1> QED
  BY <1>1, <1>2, <1>3, OneAccount

LEMMA RefreshSame ==
  ASSUME NEW a, DOMAIN a = Fields, NEW b, b = RefreshMissions(a)
  PROVE  Same(a, b)
BY DEF RefreshMissions, Same, Fields

LEMMA CountSame ==
  ASSUME NEW a, DOMAIN a = Fields, NEW mode, NEW p, NEW b, b = CountMissions(a, mode, p)
  PROVE  Same(a, b)
BY DEF CountMissions, Same, Fields

\* What an account does for itself.
LEMMA OwnKeeps ==
  ASSUME AccountsInv, NEW key \in Names, Own(key)
  PROVE  AccountsInv'
<1>1. CASE Register(key)
  <2>1. PICK a : a = NewAccount(NewToken(key)) /\ Command(key, a)
    BY <1>1 DEF Register
  <2>2. AccountOK(a) /\ Backed(store.matches, store.next, a)
    BY <2>1, NewAccountOK
  <2> QED
    BY <2>1, <2>2, OneAccount
<1>2. CASE Login(key)
  <2>1. PICK a, v : a = [The(key) EXCEPT !.sessions = v] /\ Command(key, a) /\ Has(key)
    BY <1>2 DEF Login
  <2>2. Same(The(key), a)
    BY <2>1, TheAccount DEF Same, Fields
  <2> QED
    BY <2>1, <2>2, SameKeeps
<1>3. ASSUME NEW s, Logout(key, s) PROVE AccountsInv'
  <2>1. PICK a, v : a = [The(key) EXCEPT !.sessions = v] /\ Command(key, a) /\ Has(key)
    BY <1>3 DEF Logout
  <2>2. Same(The(key), a)
    BY <2>1, TheAccount DEF Same, Fields
  <2> QED
    BY <2>1, <2>2, SameKeeps
<1>4. ASSUME NEW s, ChangePassword(key, s) PROVE AccountsInv'
  <2>1. PICK a, v : a = [The(key) EXCEPT !.sessions = v] /\ Command(key, a) /\ Has(key)
    BY <1>4 DEF ChangePassword
  <2>2. Same(The(key), a)
    BY <2>1, TheAccount DEF Same, Fields
  <2> QED
    BY <2>1, <2>2, SameKeeps
<1>5. ASSUME NEW item \in Cosmetics, Buy(key, item) PROVE AccountsInv'
  <2>1. PICK a : /\ a = [The(key) EXCEPT !.coins = @ - Price[item], !.owned = @ \cup {item}]
                 /\ Command(key, a)
    BY <1>5 DEF Buy
  <2>2. Has(key) /\ item \notin The(key).owned /\ The(key).coins >= Price[item]
    BY <1>5 DEF Buy
  <2>3. AccountOK(The(key)) /\ Backed(store.matches, store.next, The(key)) /\ DOMAIN The(key) = Fields
    BY <2>2, TheAccount
  <2>4. /\ DOMAIN a = DOMAIN The(key) /\ a.coins = The(key).coins - Price[item]
        /\ a.owned = The(key).owned \cup {item} /\ a.xp = The(key).xp /\ a.earned = The(key).earned
        /\ a.history = The(key).history /\ The(key).paid \subseteq a.paid
    BY <2>1, <2>3 DEF Fields
  <2>5. AccountOK(a)
    BY <2>2, <2>3, <2>4, BuyOK
  <2>6. Backed(store.matches, store.next, a)
    BY <2>3, <2>4, BackedStill
  <2> QED
    BY <2>1, <2>5, <2>6, OneAccount
<1>6. ASSUME NEW item, Equip(key, item) PROVE AccountsInv'
  <2>1. PICK a : a = [The(key) EXCEPT !.worn = item] /\ Command(key, a) /\ Has(key)
    BY <1>6 DEF Equip
  <2>2. Same(The(key), a)
    BY <2>1, TheAccount DEF Same, Fields
  <2> QED
    BY <2>1, <2>2, SameKeeps
<1>7. CASE ShowMissions(key)
  <2>1. PICK a : a = RefreshMissions(The(key)) /\ Command(key, a) /\ Has(key)
    BY <1>7 DEF ShowMissions
  <2>2. Same(The(key), a)
    BY <2>1, TheAccount, RefreshSame
  <2> QED
    BY <2>1, <2>2, SameKeeps
<1> QED
  BY <1>1, <1>2, <1>3, <1>4, <1>5, <1>6, <1>7 DEF Own

\* What two accounts do about being friends.
LEMMA SocialKeeps ==
  ASSUME AccountsInv, NEW me, NEW other, Has(me), Has(other), NEW a, NEW b, Same(The(me), a), Same(The(other), b),
         NEW s, s = WithAccount(WithAccount(store, me, a), other, b), Social(me, other, s)
  PROVE  AccountsInv'
<1>1. /\ AccountOK(The(me)) /\ Backed(store.matches, store.next, The(me)) /\ me \in Names
      /\ AccountOK(The(other)) /\ Backed(store.matches, store.next, The(other)) /\ other \in Names
  BY TheAccount
<1>2. AccountOK(a) /\ AccountOK(b)
  BY <1>1, SameOK
<1>3. Backed(store.matches, store.next, a)
  <2>1. a.history = The(me).history /\ The(me).paid \subseteq a.paid
    BY DEF Same
  <2> QED
    BY <1>1, <2>1, BackedStill
<1>4. Backed(store.matches, store.next, b)
  <2>1. b.history = The(other).history /\ The(other).paid \subseteq b.paid
    BY DEF Same
  <2> QED
    BY <1>1, <2>1, BackedStill
<1>5. PICK w : w = WithAccount(store, me, a)
  OBVIOUS
<1>6. StoreOK(store) /\ IsStore(store)
  BY DEF AccountsInv, StoresOK, StoreOK
<1>7. StoreOK(w)
  BY <1>1, <1>2, <1>3, <1>5, <1>6, WithAccountOK
<1>8. IsStore(w) /\ w.matches = store.matches /\ w.next = store.next
  BY <1>5, <1>6, WithAccountIs
<1>9. s = WithAccount(w, other, b)
  BY <1>5
<1>10. StoreOK(s)
  BY <1>1, <1>2, <1>4, <1>7, <1>8, <1>9, WithAccountOK
<1>11. /\ store' = s /\ Idle /\ Changed(store') /\ UNCHANGED <<file, tmp, todo, up, day, failures>>
  BY DEF Social, Changed
<1> QED
  BY <1>10, <1>11, CommandKeeps

LEMMA SettledIs ==
  ASSUME AccountsInv, NEW me, NEW other, Has(me), Has(other), NEW agreed
  PROVE  \E a, b : /\ Same(The(me), a) /\ Same(The(other), b)
                   /\ Settled(store, me, other, agreed) = WithAccount(WithAccount(store, me, a), other, b)
<1>1. PICK a : a = [The(me) EXCEPT !.incoming = @ \ {other}, !.outgoing = @ \ {other},
                                   !.friends = IF agreed THEN @ \cup {other} ELSE @]
  OBVIOUS
<1>2. PICK b : b = [The(other) EXCEPT !.incoming = @ \ {me}, !.outgoing = @ \ {me},
                                      !.friends = IF agreed THEN @ \cup {me} ELSE @]
  OBVIOUS
<1>3. Settled(store, me, other, agreed) = WithAccount(WithAccount(store, me, a), other, b)
  BY <1>1, <1>2 DEF Settled, The
<1>4. Same(The(me), a) /\ Same(The(other), b)
  BY <1>1, <1>2, TheAccount DEF Same, Fields
<1> QED
  BY <1>3, <1>4

LEMMA FriendsKeep ==
  ASSUME AccountsInv, NEW me \in Names, NEW other \in Names,
         Request(me, other) \/ Accept(me, other) \/ Decline(me, other) \/ Unfriend(me, other)
  PROVE  AccountsInv'
<1>1. Has(me) /\ Has(other)
  BY DEF Request, Accept, Decline, Unfriend
<1>2. ASSUME NEW agreed, Social(me, other, Settled(store, me, other, agreed)) PROVE AccountsInv'
  <2>1. PICK a, b : /\ Same(The(me), a) /\ Same(The(other), b)
                    /\ Settled(store, me, other, agreed) = WithAccount(WithAccount(store, me, a), other, b)
    BY <1>1, SettledIs
  <2> QED
    BY <1>1, <1>2, <2>1, SocialKeeps
<1>3. CASE Request(me, other)
  <2>1. CASE other \in The(me).incoming
    BY <1>2, <1>3, <2>1 DEF Request
  <2>2. CASE other \notin The(me).incoming
    <3>1. PICK a, b : /\ a = [The(me) EXCEPT !.outgoing = @ \cup {other}]
                      /\ b = [The(other) EXCEPT !.incoming = @ \cup {me}]
      OBVIOUS
    <3>2. Same(The(me), a) /\ Same(The(other), b)
      BY <1>1, <3>1, TheAccount DEF Same, Fields
    <3>3. Social(me, other, WithAccount(WithAccount(store, me, a), other, b))
      BY <1>3, <2>2, <3>1 DEF Request
    <3> QED
      BY <1>1, <3>2, <3>3, SocialKeeps
  <2> QED
    BY <2>1, <2>2
<1>4. CASE Accept(me, other)
  BY <1>2, <1>4 DEF Accept
<1>5. CASE Decline(me, other)
  BY <1>2, <1>5 DEF Decline
<1>6. CASE Unfriend(me, other)
  <2>1. PICK a, b : /\ a = [The(me) EXCEPT !.friends = @ \ {other}]
                    /\ b = [The(other) EXCEPT !.friends = @ \ {me}]
    OBVIOUS
  <2>2. Same(The(me), a) /\ Same(The(other), b)
    BY <1>1, <2>1, TheAccount DEF Same, Fields
  <2>3. Social(me, other, WithAccount(WithAccount(store, me, a), other, b))
    BY <1>6, <2>1 DEF Unfriend
  <2> QED
    BY <1>1, <2>2, <2>3, SocialKeeps
<1> QED
  BY <1>3, <1>4, <1>5, <1>6

\* A finite set has a sequence in which each of its elements is once.
LEMMA SetToSeqIs ==
  ASSUME NEW S, IsFiniteSet(S)
  PROVE  /\ SetToSeq(S) \in [1 .. Cardinality(S) -> S] /\ Cardinality(S) \in Nat
         /\ \A m, n \in 1 .. Cardinality(S) : m # n => SetToSeq(S)[m] # SetToSeq(S)[n]
<1>1. Cardinality(S) \in Nat /\ ExistsBijection(1 .. Cardinality(S), S)
  BY FS_CardinalityType
<1>2. PICK f : f \in Bijection(1 .. Cardinality(S), S)
  BY <1>1 DEF ExistsBijection
<1>3. f \in [1 .. Cardinality(S) -> S] /\ IsInjective(f)
  BY <1>2 DEF Bijection, Injection, IsInjective
<1>4. SetToSeq(S) \in [1 .. Cardinality(S) -> S] /\ IsInjective(SetToSeq(S))
  BY <1>3 DEF SetToSeq
<1> QED
  BY <1>1, <1>4 DEF IsInjective

\* The end of a match.
LEMMA MatchEndsKeeps ==
  ASSUME AccountsInv, NEW mode \in Modes, NEW r \in Results, MatchEnds(mode, r)
  PROVE  AccountsInv'
<1>1. PICK S : S = DOMAIN r
  OBVIOUS
<1>2. S \subseteq Names /\ S \subseteq DOMAIN store.accounts /\ IsFiniteSet(S) /\ r \in [S -> Placements]
  <2>1. S \in SUBSET {k \in Players : Has(k)} /\ r \in [S -> Placements]
    BY <1>1 DEF Results
  <2>2. S \subseteq Names
    BY <2>1, AccountsAssumption
  <2> QED
    BY <2>1, <2>2, FS_Subset, AccountsAssumption DEF Has
<1>3. PICK keys, N : keys = SetToSeq(S) /\ N = Cardinality(S)
  OBVIOUS
<1>4. keys \in [1 .. N -> S] /\ N \in Nat /\ \A m, n \in 1 .. N : m # n => keys[m] # keys[n]
  BY <1>2, <1>3, SetToSeqIs
<1>5. PICK s : s = AddMatch(store)
  OBVIOUS
<1>6. StoreOK(store) /\ IsStore(store) /\ store.next \in Nat \ {0}
  BY DEF AccountsInv, StoresOK, StoreOK, IsStore
<1>7. StoreOK(s) /\ s.next = store.next + 1 /\ store.next \in s.matches /\ s.accounts = store.accounts
  BY <1>5, <1>6, AddMatchOK
<1>8. /\ store' = s /\ saving' = "write" /\ file' = file /\ up' = up /\ day' = day /\ up
      /\ todo' = [n \in 1 .. N |-> [key |-> keys[n], id |-> store.next, mode |-> mode,
                                    placement |-> r[keys[n]], at |-> 1, due |-> {}]]
  BY <1>1, <1>3, <1>4, <1>5 DEF MatchEnds, Changed, Idle
<1>9. TodoOK(s, todo')
  <2>1. todo' \in Seq(Jobs) /\ Len(todo') = N
    <3>1. \A n \in 1 .. N : todo'[n] \in Jobs
      BY <1>2, <1>4, <1>6, <1>8 DEF Jobs
    <3> QED
      BY <1>4, <1>8, <3>1
  <2>2. ASSUME NEW n \in 1 .. N PROVE JobOK(s, todo'[n]) /\ todo'[n].at = 1 /\ todo'[n].key = keys[n]
    <3>1. todo'[n].key = keys[n] /\ todo'[n].id = store.next /\ todo'[n].at = 1
      BY <1>8
    <3>2. keys[n] \in DOMAIN s.accounts
      BY <1>2, <1>4, <1>7
    <3>3. Backed(store.matches, store.next, s.accounts[keys[n]])
      BY <1>6, <1>7, <3>2 DEF StoreOK
    <3>4. \A h \in Range(s.accounts[keys[n]].history) : h < store.next
      BY <3>3 DEF Backed
    <3> QED
      BY <1>6, <1>7, <3>1, <3>2, <3>4 DEF JobOK
  <2> QED
    BY <1>4, <2>1, <2>2 DEF TodoOK
<1> QED
  BY <1>7, <1>8, <1>9 DEF AccountsInv, StoresOK, SavingOK

\* What a step after a match makes of the account.
LEMMA DoneOK ==
  ASSUME AccountsInv, NEW j \in Jobs, JobOK(store, j), NEW a, a = The(j.key), NEW b, b = Done(j, a)
  PROVE  /\ AccountOK(b) /\ Backed(store.matches, store.next, b) /\ a.paid \subseteq b.paid
         /\ j.at = 1 => j.id \in b.paid
         /\ j.at < 5 => b.history = a.history
<1>1. /\ AccountOK(a) /\ Backed(store.matches, store.next, a) /\ DOMAIN a = Fields
      /\ j.at > 1 => j.id \in a.paid
      /\ \A h \in Range(a.history) : h < j.id
      /\ j.id \in Nat /\ j.id \in store.matches /\ j.id < store.next
  <2>1. Has(j.key) /\ a = store.accounts[j.key]
    BY DEF JobOK, Has, The
  <2>2. AccountOK(a) /\ Backed(store.matches, store.next, a) /\ DOMAIN a = Fields
    BY <2>1, TheAccount
  <2>3. j.id \in Nat /\ store.next \in Nat \ {0}
    BY DEF Jobs, AccountsInv, StoresOK, StoreOK, IsStore
  <2> QED
    BY <2>1, <2>2, <2>3 DEF JobOK
<1>2. j.at \in 1 .. 5 /\ j.mode \in Modes /\ j.placement \in Placements /\ j.due \subseteq Missions
  BY DEF Jobs
<1>3. CASE j.at = 1
  <2>1. PICK coins, xp : coins = CoinsFor[j.mode][j.placement] /\ xp = XpFor[j.mode][j.placement]
    OBVIOUS
  <2>2. coins \in Nat /\ xp \in Nat
    BY <1>2, <2>1, AccountsAssumption
  <2>3. PICK g : g = Granted(a, coins, xp)
    OBVIOUS
  <2>4. AccountOK(g) /\ g.history = a.history /\ g.paid = a.paid
    <3>1. AccountOK(a)
      BY <1>1
    <3> QED
      BY ONLY <3>1, <2>2, <2>3, GrantedOK
  <2>5. b = [g EXCEPT !.paid = @ \cup {j.id}]
    BY <1>3, <2>1, <2>3 DEF Done, Steps
  <2>6. /\ DOMAIN b = DOMAIN g /\ b.coins = g.coins /\ b.xp = g.xp /\ b.earned = g.earned /\ b.owned = g.owned
        /\ b.history = g.history /\ b.paid = g.paid \cup {j.id}
    BY <2>4, <2>5 DEF AccountOK, Fields
  <2>7. AccountOK(b)
    <3>1. Spent(b) = Spent(g)
      BY <2>6 DEF Spent
    <3> QED
      BY <2>4, <2>6, <3>1 DEF AccountOK
  <2>8. Backed(store.matches, store.next, b)
    <3>1. b.history = a.history /\ a.paid \subseteq b.paid
      BY <2>4, <2>6
    <3> QED
      BY <1>1, <3>1, BackedStill
  <2> QED
    BY <1>3, <2>4, <2>6, <2>7, <2>8
<1> DEFINE Fine == /\ AccountOK(b) /\ Backed(store.matches, store.next, b) /\ a.paid \subseteq b.paid
                   /\ j.at = 1 => j.id \in b.paid
                   /\ j.at < 5 => b.history = a.history
<1>4. ASSUME Same(a, b), j.at \in 2 .. 3 PROVE Fine
  <2>1. AccountOK(b)
    BY <1>1, <1>4, SameOK
  <2>2. b.history = a.history /\ a.paid \subseteq b.paid
    BY <1>4 DEF Same
  <2>3. Backed(store.matches, store.next, b)
    BY <1>1, <2>2, BackedStill
  <2> QED
    BY <1>4, <2>1, <2>2, <2>3
<1>5. CASE j.at = 2
  <2>1. b = RefreshMissions(a)
    BY <1>5 DEF Done, Steps
  <2>2. Same(a, b)
    BY <1>1, <2>1, RefreshSame
  <2> QED
    BY <1>4, <1>5, <2>2
<1>6. CASE j.at = 3
  <2>1. b = CountMissions(a, j.mode, j.placement)
    BY <1>6 DEF Done, Steps
  <2>2. Same(a, b)
    BY <1>1, <2>1, CountSame
  <2> QED
    BY <1>4, <1>6, <2>2
<1>7. CASE j.at = 4
  <2>1. PICK d, e : d = [m \in j.due |-> Mission[m].coins] /\ e = [m \in j.due |-> Mission[m].xp]
    OBVIOUS
  <2>2. IsFiniteSet(j.due) /\ d \in [j.due -> Nat] /\ e \in [j.due -> Nat]
    <3>1. \A m \in j.due : Mission[m].coins \in Nat /\ Mission[m].xp \in Nat
      BY <1>2, AccountsAssumption
    <3>2. IsFiniteSet(j.due)
      BY <1>2, FS_Subset, AccountsAssumption
    <3> QED
      BY <2>1, <3>1, <3>2
  <2>3. PICK coins, xp : coins = SumFunction(d) /\ xp = SumFunction(e)
    OBVIOUS
  <2>4. coins \in Nat /\ xp \in Nat
    BY <2>2, <2>3, SumNat
  <2>5. PICK g : g = Granted(a, coins, xp)
    OBVIOUS
  <2>6. AccountOK(g) /\ g.history = a.history /\ g.paid = a.paid
    <3>1. AccountOK(a)
      BY <1>1
    <3> QED
      BY ONLY <3>1, <2>4, <2>5, GrantedOK
  <2>7. b = [g EXCEPT !.rewarded = @ \cup j.due]
    BY <1>7, <2>1, <2>3, <2>5 DEF Done, Steps
  <2>8. Same(g, b)
    BY <2>6, <2>7 DEF Same, AccountOK, Fields
  <2>9. AccountOK(b)
    BY <2>6, <2>8, SameOK
  <2>10. b.history = a.history /\ b.paid = a.paid
    BY <2>6, <2>8 DEF Same
  <2>11. Backed(store.matches, store.next, b)
    BY <1>1, <2>10, BackedStill
  <2> QED
    BY <1>7, <2>9, <2>10, <2>11
<1>8. CASE j.at = 5
  <2>1. b = RecordMatch(a, j.id, j.mode, j.placement) /\ j.id \in a.paid
    BY <1>1, <1>8 DEF Done, Steps
  <2>2. AccountOK(b) /\ Backed(store.matches, store.next, b) /\ b.paid = a.paid
    BY <1>1, <2>1, RecordMatchOK
  <2> QED
    BY <1>8, <2>2
<1> QED
  BY <1>2, <1>3, <1>5, <1>6, <1>7, <1>8

\* Where the list of what is left to do goes on.
LEMMA OnwardOK ==
  ASSUME NEW s, NEW w, TodoOK(s, todo), todo # << >>, NEW j, j = Head(todo),
         w.matches = s.matches, w.next = s.next, DOMAIN w.accounts = DOMAIN s.accounts,
         \A k \in DOMAIN s.accounts \ {j.key} : w.accounts[k] = s.accounts[k],
         s.accounts[j.key].paid \subseteq w.accounts[j.key].paid,
         j.at = 1 => j.id \in w.accounts[j.key].paid,
         j.at < 5 => w.accounts[j.key].history = s.accounts[j.key].history,
         NEW due \in SUBSET Missions, Steps[j.at] # "CountMissions" => due = {},
         NEW t, t = Onward(j, due)
  PROVE  TodoOK(w, t)
<1>1. PICK N : N = Len(todo)
  OBVIOUS
<1>2. /\ todo \in Seq(Jobs) /\ N \in Nat \ {0} /\ j = todo[1] /\ j \in Jobs
      /\ \A n \in 1 .. N : todo[n] \in Jobs /\ JobOK(s, todo[n]) /\ (n > 1 => todo[n].at = 1)
      /\ \A m, n \in 1 .. N : m # n => todo[m].key # todo[n].key
  BY <1>1 DEF TodoOK
<1>3. ASSUME NEW n \in 2 .. N PROVE JobOK(w, todo[n])
  <2>1. todo[n].key # j.key /\ todo[n].key \in DOMAIN s.accounts /\ JobOK(s, todo[n])
    BY <1>2 DEF JobOK
  <2>2. w.accounts[todo[n].key] = s.accounts[todo[n].key]
    BY <2>1
  <2> QED
    BY <2>1, <2>2 DEF JobOK
<1>4. PICK at : at = IF Steps[j.at] = "CountMissions" /\ due = {} THEN j.at + 2 ELSE j.at + 1
  OBVIOUS
<1>5. /\ j.at \in 1 .. 5 /\ Len(Steps) = 5
      /\ at \in 2 .. 6 /\ (at <= 5 => j.at < 5)
  BY <1>2, <1>4 DEF Jobs, Steps
<1>6. CASE at > 5
  <2>1. t = Tail(todo)
    BY <1>4, <1>5, <1>6 DEF Onward
  <2>2. /\ t \in Seq(Jobs) /\ Len(t) = N - 1
        /\ \A n \in 1 .. N - 1 : t[n] = todo[n + 1]
    <3>1. todo \in Seq(Jobs) /\ N = Len(todo) /\ N \in Nat \ {0}
      BY <1>1, <1>2
    <3> QED
      BY ONLY <3>1, <2>1
  <2>3. ASSUME NEW n \in 1 .. N - 1 PROVE JobOK(w, t[n]) /\ t[n].at = 1
    <3>1. n + 1 \in 2 .. N /\ n + 1 \in 1 .. N /\ n + 1 > 1
      BY <1>2
    <3>2. t[n] = todo[n + 1]
      BY <2>2
    <3> QED
      BY <1>2, <1>3, <3>1, <3>2
  <2>4. ASSUME NEW m \in 1 .. N - 1, NEW n \in 1 .. N - 1, m # n PROVE t[m].key # t[n].key
    <3>1. m + 1 \in 1 .. N /\ n + 1 \in 1 .. N /\ m + 1 # n + 1
      BY <1>2, <2>4
    <3> QED
      <4>1. todo[m + 1].key # todo[n + 1].key
        BY <1>2, <3>1
      <4>2. t[m] = todo[m + 1] /\ t[n] = todo[n + 1]
        BY <2>2
      <4> QED
        BY <4>1, <4>2
  <2> QED
    BY <2>2, <2>3, <2>4 DEF TodoOK
<1>7. CASE at <= 5
  <2>1. PICK k : k = [j EXCEPT !.at = at, !.due = due]
    OBVIOUS
  <2>2. k \in Jobs /\ k.key = j.key /\ k.id = j.id /\ k.at = at
    <3>1. j \in Jobs /\ at \in 1 .. 5 /\ due \in SUBSET Missions
      BY <1>2, <1>5, <1>7
    <3> QED
      BY ONLY <3>1, <2>1 DEF Jobs
  <2>3. t = [todo EXCEPT ![1] = k]
    BY <1>4, <1>5, <1>7, <2>1 DEF Onward
  <2>4. /\ t \in Seq(Jobs) /\ Len(t) = N /\ t[1] = k
        /\ \A n \in 2 .. N : t[n] = todo[n]
    BY <1>1, <1>2, <2>2, <2>3
  <2>5. JobOK(w, k)
    <3>1. JobOK(s, j)
      BY <1>2
    <3>2. j.id \in w.accounts[j.key].paid
      BY <1>5, <3>1 DEF JobOK
    <3>3. w.accounts[j.key].history = s.accounts[j.key].history
      BY <1>5, <1>7
    <3> QED
      BY <2>2, <3>1, <3>2, <3>3 DEF JobOK
  <2>6. ASSUME NEW n \in 1 .. N
        PROVE  JobOK(w, t[n]) /\ (n > 1 => t[n].at = 1) /\ t[n].key = todo[n].key
    <3>1. CASE n = 1
      BY <1>2, <2>2, <2>4, <2>5, <3>1
    <3>2. CASE n > 1
      BY <1>2, <1>3, <2>4, <3>2
    <3> QED
      BY <3>1, <3>2
  <2>7. \A m, n \in 1 .. N : m # n => t[m].key # t[n].key
    BY <1>2, <2>6
  <2> QED
    BY <2>4, <2>6, <2>7 DEF TodoOK
<1> QED
  BY <1>5, <1>6, <1>7

\* One change after a match, to be saved before the next.
LEMMA RecordStepKeeps ==
  ASSUME AccountsInv, RecordStep
  PROVE  AccountsInv'
<1>1. PICK j, a : j = Head(todo) /\ a = The(j.key)
  OBVIOUS
<1>2. PICK due : due = IF Steps[j.at] = "CountMissions" THEN Finishing(a, j.mode, j.placement) ELSE {}
  OBVIOUS
<1>3. /\ up /\ saving = "no" /\ todo # << >> /\ todo' = Onward(j, due)
      /\ file' = file /\ up' = up /\ day' = day
  BY <1>1, <1>2 DEF RecordStep
<1>4. /\ StoreOK(store) /\ IsStore(store) /\ TodoOK(store, todo)
      /\ day \in FirstDay .. LastDay
  BY DEF AccountsInv, StoresOK, StoreOK
<1>5. j \in Jobs /\ JobOK(store, j) /\ j.at \in 1 .. 5 /\ j.key \in DOMAIN store.accounts /\ a = store.accounts[j.key]
  <2>1. Len(todo) \in Nat \ {0} /\ todo[1] = j /\ j \in Jobs
    BY <1>1, <1>3, <1>4 DEF TodoOK
  <2> QED
    BY <1>1, <1>4, <2>1 DEF TodoOK, JobOK, Jobs, The
<1>6. due \in SUBSET Missions /\ (Steps[j.at] # "CountMissions" => due = {})
  <2>1. Finishing(a, j.mode, j.placement) \subseteq Daily[day] \cup Weekly[WeekOf(day)]
    BY DEF Finishing, Counting
  <2>2. Daily[day] \cup Weekly[WeekOf(day)] \subseteq Missions
    BY <1>4, AccountsAssumption
  <2> QED
    BY <1>2, <2>1, <2>2
<1>7. PICK b : b = Done(j, a)
  OBVIOUS
<1>8. CASE UNCHANGED <<store, saving>> /\ Steps[j.at] = "Missions"
  <2>1. j.at = 2 /\ j.id \in a.paid
    BY <1>5, <1>8 DEF Steps, JobOK
  <2>2. TodoOK(store, todo')
    BY <1>1, <1>3, <1>4, <1>5, <1>6, <2>1, OnwardOK
  <2> QED
    BY <1>3, <1>8, <2>2 DEF AccountsInv, StoresOK, SavingOK
<1>9. CASE Changed(WithAccount(store, j.key, b))
  <2>1. /\ AccountOK(b) /\ Backed(store.matches, store.next, b) /\ a.paid \subseteq b.paid
        /\ j.at = 1 => j.id \in b.paid
        /\ j.at < 5 => b.history = a.history
    BY <1>1, <1>5, <1>7, DoneOK
  <2>2. store' = WithAccount(store, j.key, b) /\ saving' = "write"
    BY <1>9 DEF Changed
  <2>3. PICK w : w = store'
    OBVIOUS
  <2>4. StoreOK(w)
    BY <1>4, <1>5, <2>1, <2>2, <2>3, WithAccountOK DEF Jobs
  <2>5. /\ w.matches = store.matches /\ w.next = store.next
        /\ DOMAIN w.accounts = DOMAIN store.accounts \cup {j.key} /\ w.accounts[j.key] = b
        /\ \A k \in DOMAIN store.accounts \ {j.key} : w.accounts[k] = store.accounts[k]
    BY <1>4, <2>2, <2>3, WithAccountIs
  <2>6. DOMAIN w.accounts = DOMAIN store.accounts
    BY <1>5, <2>5
  <2>7. TodoOK(w, todo')
    BY <1>1, <1>3, <1>4, <1>5, <1>6, <2>1, <2>5, <2>6, OnwardOK
  <2> QED
    BY <1>3, <1>4, <2>2, <2>3, <2>4, <2>6, <2>7 DEF AccountsInv, StoresOK, SavingOK
<1> QED
  BY <1>1, <1>7, <1>8, <1>9 DEF RecordStep

-----------------------------------------------------------------------------
(* The invariant of the store and what follows.                            *)

LEMMA AccountsBegin == AccountsInit => AccountsInv
BY EmptyStoreOK, NothingTodo, AccountsAssumption
   DEF AccountsInit, AccountsInv, StoresOK, SavingOK, EmptyStore

LEMMA AccountsStep ==
  ASSUME AccountsInv, [AccountsNext]_accountVars
  PROVE  AccountsInv'
<1>1. CASE UNCHANGED accountVars
  BY <1>1 DEF accountVars, AccountsInv, StoresOK, SavingOK
<1>2. ASSUME NEW key \in Players, Own(key) PROVE AccountsInv'
  BY <1>2, OwnKeeps, AccountsAssumption
<1>3. ASSUME NEW key \in Names, Register(key) PROVE AccountsInv'
  BY <1>3, OwnKeeps DEF Own
<1>4. ASSUME NEW key \in Names, Friends(key) PROVE AccountsInv'
  BY <1>4, FriendsKeep DEF Friends
<1>5. ASSUME NEW mode \in Modes, NEW r \in Results, MatchEnds(mode, r) PROVE AccountsInv'
  BY <1>5, MatchEndsKeeps
<1>6. CASE RecordStep
  BY <1>6, RecordStepKeeps
<1>7. CASE WriteTmp
  BY <1>7 DEF WriteTmp, AccountsInv, StoresOK, SavingOK
<1>8. CASE Rename
  <2>1. file' \in {file, store}
    BY <1>8 DEF Rename, AccountsInv, SavingOK
  <2> QED
    BY <1>8, <2>1 DEF Rename, AccountsInv, StoresOK, SavingOK
<1>9. CASE Crash
  BY <1>9, EmptyStoreOK, NothingTodo DEF Crash, AccountsInv, StoresOK, SavingOK, EmptyStore
<1>10. CASE Restart
  <2>1. /\ up' /\ todo' = todo /\ saving' = saving /\ day' = day /\ file' = store'
        /\ saving = "no" /\ todo = << >>
    BY <1>10 DEF Restart, AccountsInv, SavingOK
  <2>2. store' = EmptyStore \/ (store' = file /\ StoreOK(file))
    BY <1>10 DEF Restart, AccountsInv, StoresOK
  <2>3. StoreOK(store')
    BY <2>2, EmptyStoreOK
  <2>5. TodoOK(store', todo')
    BY <2>1, NothingTodo
  <2> QED
    BY <2>1, <2>3, <2>5 DEF AccountsInv, StoresOK, SavingOK
<1>11. CASE NewDay
  BY <1>11, AccountsAssumption DEF NewDay, AccountsInv, StoresOK, SavingOK
<1> QED
  BY <1>1, <1>2, <1>3, <1>4, <1>5, <1>6, <1>7, <1>8, <1>9, <1>10, <1>11 DEF AccountsNext

\* The invariant of the account store: whatever writes fail and wherever it crashes.
THEOREM AccountsKept == AccountsSpec => []AccountsInv
BY AccountsBegin, AccountsStep, PTL DEF AccountsSpec

\* What is in memory and what a restart would read adds up (AccountStore::Grant, Buy):
\* for any prices, rewards, levels and missions, any number of accounts and any crashes.
THEOREM CoinsAddUpKept == AccountsSpec => []CoinsAddUp
<1>1. AccountsInv => CoinsAddUp
  BY DEF AccountsInv, StoresOK, StoreOK, Stores, AccountsOf, CoinsAddUp, AccountOK
<1> QED
  BY <1>1, AccountsKept, PTL

\* Every match in a history was paid for, once, and has its record unless it is older than
\* every record that is kept (AccountStore::RecordMatch, AddMatch; QueueServer's Record).
THEOREM HistoryIsBackedKept == AccountsSpec => []HistoryIsBacked
<1>1. AccountsInv => HistoryIsBacked
  BY DEF AccountsInv, StoresOK, StoreOK, Stores, AccountsOf, HistoryIsBacked, Backed
<1> QED
  BY <1>1, AccountsKept, PTL

\* The file under the store's name only ever becomes what the process holds at that
\* moment (AccountStore::Save, Load).
THEOREM FileIsTheStoreKept == AccountsSpec => FileIsTheStore
<1>1. AccountsInv /\ [AccountsNext]_accountVars => (file' # file => file' = store')
  <2> SUFFICES ASSUME AccountsInv, [AccountsNext]_accountVars, file' # file
               PROVE  file' = store'
    OBVIOUS
  <2>1. Rename \/ Restart
    BY DEF AccountsNext, accountVars, Own, Friends, Register, Login, Logout, ChangePassword, Buy, Equip, ShowMissions,
           Command, Request, Accept, Decline, Unfriend, Social, MatchEnds, RecordStep, WriteTmp, Crash, NewDay
  <2>2. CASE Rename
    BY <2>2 DEF Rename, AccountsInv, SavingOK
  <2>3. CASE Restart
    BY <2>3 DEF Restart
  <2> QED
    BY <2>1, <2>2, <2>3
<1> QED
  BY <1>1, AccountsKept, PTL DEF AccountsSpec, FileIsTheStore

\* The server can always start again: what it finds under the store's name is nothing or a
\* whole store, however many writes have failed half way (AccountStore::Save, Load).
THEOREM FileIsWhole == AccountsSpec => [](file # Part)
<1>1. AccountsInv => file # Part
  <2>1. DOMAIN Part = {"part"}
    BY DEF Part
  <2>2. ~ StoreOK(Part)
    BY <2>1 DEF StoreOK, IsStore
  <2>3. Nothing # Part
    <3>1. DOMAIN Nothing = {"nothing"}
      BY DEF Nothing
    <3> QED
      BY <2>1, <3>1
  <2> QED
    BY <2>2, <2>3 DEF AccountsInv, StoresOK
<1> QED
  BY <1>1, AccountsKept, PTL

-----------------------------------------------------------------------------
(* A bot's turn.  Its roster keeps its layout, and no more units stand on  *)
(* the board than the level allows (Fighters), so that selling a unit of   *)
(* one slot always makes room for another.                                 *)

Sound(r, cap) == r \in Rosters /\ CheckInvariants(r) /\ Cardinality(Fighters(r)) <= cap

Offered == [ShopSlots -> (Champions \ Plants) \cup {NoChampion}]

BotInv ==
  /\ Sound(roster, level)
  /\ level \in Nat /\ gold \in Nat /\ stage \in Nat
  /\ shop \in Offered
  /\ gifts \in Seq((Champions \ Plants) \cup GiftKinds)

\* A roster and the same with one more copy of c, worth as much as it costs.
LEMMA ValueChange ==
  ASSUME NEW r \in Rosters, NEW m \in Rosters, NEW c \in Champions, NEW v \in Int,
         Worth(m, c) = Worth(r, c) + v, \A d \in Champions \ {c} : Worth(m, d) = Worth(r, d)
  PROVE  /\ Value(r) \in Int /\ Value(m) \in Int
         /\ Value(m) = Value(r) + CostOf[c] * v
<1> DEFINE d == [x \in Champions |-> CostOf[x] * Worth(r, x)]
           e == [x \in Champions |-> CostOf[x] * Worth(m, x)]
<1>1. \A x \in Champions : Worth(r, x) \in Nat /\ Worth(m, x) \in Nat /\ CostOf[x] \in Nat
  BY WorthType, BotAssumption
<1>2. d \in [Champions -> Int] /\ e \in [Champions -> Int]
  BY <1>1
<1>3. e[c] = d[c] + CostOf[c] * v /\ CostOf[c] * v \in Int
  <2>1. CostOf[c] * (Worth(r, c) + v) = CostOf[c] * Worth(r, c) + CostOf[c] * v
    BY <1>1
  <2> QED
    BY <1>1, <2>1
<1>4. \A x \in Champions \ {c} : e[x] = d[x]
  OBVIOUS
<1> DEFINE w == CostOf[c] * v
<1>5. w \in Int /\ e[c] = d[c] + w
  BY <1>3
<1> HIDE DEF d, e, w
<1>6. IsFiniteSet(Champions)
  BY BotAssumption
<1>7. SumFunction(d) \in Int /\ SumFunction(e) \in Int /\ SumFunction(e) = SumFunction(d) + w
  BY <1>2, <1>4, <1>5, <1>6, PointChange
<1> QED
  BY <1>7 DEF Value, d, e, w

\* Rosters worth the same, champion by champion, cost the same.
LEMMA SameValue ==
  ASSUME NEW r, NEW m, \A c \in Champions : Worth(m, c) = Worth(r, c)
  PROVE  Value(m) = Value(r)
<1>1. [c \in Champions |-> CostOf[c] * Worth(m, c)] = [c \in Champions |-> CostOf[c] * Worth(r, c)]
  OBVIOUS
<1> QED
  BY <1>1 DEF Value

\* What a roster costs is a number.
LEMMA ValueType ==
  ASSUME NEW r
  PROVE  Value(r) \in Nat
<1> DEFINE d == [x \in Champions |-> CostOf[x] * Worth(r, x)]
<1>1. d \in [Champions -> Nat]
  BY WorthType, BotAssumption
<1> HIDE DEF d
<1>2. SumFunction(d) \in Nat
  BY <1>1, BotAssumption, SumNat
<1> QED
  BY <1>2 DEF Value, d

\* A purchase keeps a roster sound and adds what the champion costs.
LEMMA AddSound ==
  ASSUME NEW r, NEW cap \in Nat, Sound(r, cap), NEW c \in Champions \ Plants, CanAdd(r, cap, c)
  PROVE  Sound(Add(r, cap, c), cap) /\ Value(Add(r, cap, c)) = Value(r) + CostOf[c]
<1>1. Sound(Add(r, cap, c), cap)
  BY AddType, AddLayout, AddFits DEF Sound
<1>2. \A d \in Champions : Worth(Add(r, cap, c), d) = Worth(r, d) + (IF d = c THEN 1 ELSE 0)
  BY AddWorth DEF Sound, CheckInvariants
<1>3. Value(Add(r, cap, c)) = Value(r) + CostOf[c] * 1
  <2>1. Worth(Add(r, cap, c), c) = Worth(r, c) + 1
    BY <1>2
  <2>2. \A d \in Champions \ {c} : Worth(Add(r, cap, c), d) = Worth(r, d)
    BY <1>2, WorthType
  <2> QED
    BY <1>1, <2>1, <2>2, ValueChange DEF Sound
<1> QED
  BY <1>1, <1>3, BotAssumption

\* A higher level leaves room.
LEMMA RisenSound ==
  ASSUME NEW r, NEW cap \in Nat, NEW top \in Nat, cap <= top, Sound(r, cap)
  PROVE  Sound(r, top)
BY FightersFinite DEF Sound

\* Clearing a cell keeps a roster sound.
LEMMA ClearedSound ==
  ASSUME NEW r, NEW cap \in Nat, Sound(r, cap), NEW x \in Cells
  PROVE  /\ Sound(Removed(r, x), cap)
         /\ Removed(r, x)[x] = Empty /\ \A y \in Places : y # x => Removed(r, x)[y] = r[y]
         /\ Fighters(Removed(r, x)) = Fighters(r) \ {x}
<1> DEFINE m == Removed(r, x)
<1>1. x \in Places /\ m \in Rosters
  BY PlacesFact, RemovedType DEF Sound
<1>2. m[x] = Empty /\ \A y \in Places : y # x => m[y] = r[y]
  BY <1>1 DEF Removed, Sound, Rosters
<1> HIDE DEF m
<1>3. CheckInvariants(m)
  <2>1. \A y \in Places : m[y] = r[y] \/ m[y] = Empty
    BY <1>2
  <2> QED
    BY <1>1, <2>1, ReplacedLayout DEF Sound
<1>4. Fighters(m) = Fighters(r) \ {x}
  BY <1>2, PlacesFact DEF Fighters
<1>5. Cardinality(Fighters(m)) <= cap
  BY <1>4, NoMore, FightersFinite DEF Sound
<1> QED
  BY <1>1, <1>2, <1>3, <1>4, <1>5 DEF m, Sound

\* Where no unit takes two slots, the slots in use are the units.
LEMMA OneSlotEach ==
  ASSUME NEW r \in Rosters, \A x \in Board : r[x] # Empty => TeamSlots[r[x].champ] <= 1
  PROVE  BoardCount(r) <= Cardinality(Fighters(r))
<1> DEFINE f == [t \in BoardSlots(r) |-> t[1]]
<1>1. ASSUME NEW t \in BoardSlots(r)
      PROVE  t = <<t[1], 1>> /\ t[1] \in Fighters(r)
  <2>1. /\ t = <<t[1], t[2]>> /\ t[1] \in Board /\ t[2] \in 1 .. 2
        /\ r[t[1]] # Empty /\ t[2] <= TeamSlots[r[t[1]].champ]
    BY DEF BoardSlots
  <2>2. r[t[1]].champ \in Champions
    BY <2>1, PlacesFact DEF Rosters, Units
  <2>3. TeamSlots[r[t[1]].champ] \in 0 .. 1
    BY <2>1, <2>2, RosterAssumption
  <2>4. r[t[1]].champ \notin Plants /\ t[2] = 1
    BY <2>1, <2>2, <2>3, RosterAssumption
  <2> QED
    BY <2>1, <2>4 DEF Fighters
<1>2. f \in Injection(BoardSlots(r), Fighters(r))
  BY <1>1 DEF Injection, IsInjective
<1> QED
  BY <1>2, FightersFinite, FS_Injection

\* The board has as many hexes as the constants say.
LEMMA BoardSize == IsFiniteSet(Board) /\ Cardinality(Board) = BoardHexes
<1>1. /\ BenchSlots + 1 \in Int /\ BenchSlots + BoardHexes \in Int
      /\ (IF BenchSlots + 1 > BenchSlots + BoardHexes THEN 0
          ELSE (BenchSlots + BoardHexes) - (BenchSlots + 1) + 1) = BoardHexes
  BY RosterAssumption
<1> QED
  BY <1>1, FS_Interval DEF Board

\* Selling a unit that takes a slot makes room for another one.
LEMMA SaleMakesRoom ==
  ASSUME NEW r, NEW cap \in Nat, Sound(r, cap), NEW x \in Cells, r[x] # Empty, r[x].champ \notin Plants,
         \A y \in Board : r[y] # Empty => TeamSlots[r[y].champ] <= 1, NEW c
  PROVE  CanAdd(Removed(r, x), cap, c)
<1> DEFINE m == Removed(r, x)
<1>1. /\ m \in Rosters /\ m[x] = Empty /\ \A y \in Places : y # x => m[y] = r[y]
      /\ Fighters(m) = Fighters(r) \ {x}
  BY ClearedSound DEF Sound
<1> HIDE DEF m
<1>2. CASE x \in Bench
  BY <1>1, <1>2 DEF m, CanAdd, HasFreeSlot, FreeIn
<1>3. CASE x \in Board
  <2>1. x \in Fighters(r)
    BY <1>3 DEF Fighters
  <2>2. /\ Cardinality(Fighters(m)) = Cardinality(Fighters(r)) - 1
        /\ Cardinality(Fighters(r)) \in Nat /\ Cardinality(Fighters(m)) \in Nat
    BY <1>1, <2>1, FightersFinite, FS_RemoveElement
  <2>3. Cardinality(Fighters(r)) <= BoardHexes
    <3>1. Fighters(r) \subseteq Board
      BY DEF Fighters
    <3> QED
      BY <3>1, BoardSize, FS_Subset
  <2>4. BoardCount(m) <= Cardinality(Fighters(m)) /\ BoardCount(m) \in Nat
    <3>1. \A y \in Board : m[y] # Empty => TeamSlots[m[y].champ] <= 1
      BY <1>1, PlacesFact
    <3> QED
      BY <1>1, <3>1, OneSlotEach, FightersFinite
  <2>5. Cardinality(Fighters(r)) <= cap
    BY DEF Sound
  <2>6. BoardCount(m) < cap /\ BoardCount(m) < BoardHexes
    BY <2>2, <2>3, <2>4, <2>5, RosterAssumption
  <2>7. FreeIn(m, Board) # {}
    BY <1>1, <1>3 DEF FreeIn
  <2> QED
    BY <2>6, <2>7 DEF m, CanAdd, HasFreeSlot
<1> QED
  BY <1>2, <1>3 DEF Cells

\* What is sold is a single unit of one star: the roster is worth its cost less.
LEMMA SaleCosts ==
  ASSUME NEW r, NEW cap \in Nat, Sound(r, cap), NEW x \in Sellable(r)
  PROVE  /\ x \in Cells /\ r[x] # Empty /\ r[x].champ \in Champions \ (Plants \cup Special)
         /\ Value(Removed(r, x)) = Value(r) - CostOf[r[x].champ]
<1> DEFINE m == Removed(r, x)  w == r[x].champ
<1>1. x \in Cells /\ x \in Places /\ r[x] # Empty /\ r[x].star = 1 /\ w \notin Plants \cup Special
  BY PlacesFact DEF Sellable, Standing
<1>2. r[x] \in Units /\ w \in Champions
  BY <1>1 DEF Sound, Rosters, Units
<1>3. r \in Rosters /\ m \in Rosters /\ m[x] = Empty /\ \A y \in Places \ {x} : m[y] = r[y]
  BY <1>1, ClearedSound DEF Sound
<1> HIDE DEF m, w
<1>4. \A d \in Champions : Worth(m, d) = Worth(r, d) - (IF d = w THEN 1 ELSE 0)
  <2> SUFFICES ASSUME NEW d \in Champions
               PROVE  Worth(m, d) = Worth(r, d) - (IF d = w THEN 1 ELSE 0)
    OBVIOUS
  <2>1. Worth(m, d) = Worth(r, d) - CellWorth(r[x], d) + CellWorth(m[x], d)
    BY <1>1, <1>3, CellChange
  <2>2. CellWorth(r[x], d) = IF d = w THEN 1 ELSE 0
    BY <1>1 DEF CellWorth, CopiesForStarLevel, w
  <2>3. CellWorth(m[x], d) = 0
    BY <1>3, RosterAssumption DEF CellWorth, Empty, Unit, CopiesForStarLevel
  <2> QED
    BY <2>1, <2>2, <2>3, WorthType
<1>5. Value(m) = Value(r) + CostOf[w] * (0 - 1) /\ Value(r) \in Int
  <2>1. Worth(m, w) = Worth(r, w) + (0 - 1)
    BY <1>2, <1>4, WorthType
  <2>2. \A d \in Champions \ {w} : Worth(m, d) = Worth(r, d)
    BY <1>4, WorthType
  <2> QED
    BY <1>2, <1>3, <2>1, <2>2, ValueChange
<1> QED
  BY <1>1, <1>2, <1>5, BotAssumption DEF m, w

-----------------------------------------------------------------------------
(* Loops of the turn.  That the sequence of their results exists, and that *)
(* each is one, is shown by minimal counterexample.                        *)

\* Each turn of a loop works on what the one before has left.
Iterates(A, n, base, op, g) ==
  g = [i \in 0 .. n |-> IF i = 0 THEN base ELSE op[<<i, g[i - 1]>>]]

LEMMA LoopExists ==
  ASSUME NEW A, NEW n \in Nat, NEW base \in A, NEW op \in [(1 .. n) \X A -> A]
  PROVE  \E g \in [0 .. n -> A] : Iterates(A, n, base, op, g)
<1> DEFINE Runs(m) == \E g \in [0 .. m -> A] : Iterates(A, m, base, op, g)
           Bad == {m \in 0 .. n : ~ Runs(m)}
<1> SUFFICES ASSUME Bad # {} PROVE FALSE
  <2>1. n \in 0 .. n
    OBVIOUS
  <2> QED
    BY <2>1
<1>1. PICK m \in Bad : \A k \in Bad : m <= k
  <2>1. Bad \subseteq Nat
    OBVIOUS
  <2> HIDE DEF Bad
  <2> QED
    BY <2>1, NatMin
<1>2. CASE m = 0
  <2> DEFINE g == [i \in 0 .. 0 |-> base]
  <2>1. g = [i \in 0 .. 0 |-> IF i = 0 THEN base ELSE op[<<i, g[i - 1]>>]]
    <3>1. \A i \in 0 .. 0 : i = 0
      OBVIOUS
    <3> QED
      BY <3>1
  <2>2. g \in [0 .. 0 -> A]
    OBVIOUS
  <2> QED
    BY <1>1, <1>2, <2>1, <2>2 DEF Iterates
<1>3. CASE m # 0
  <2>1. m \in 1 .. n /\ m - 1 \in 0 .. n /\ m - 1 \notin Bad
    <3> HIDE DEF Bad
    <3>1. m \in 0 .. n
      BY DEF Bad
    <3> QED
      BY <1>1, <1>3, <3>1
  <2>2. PICK h \in [0 .. m - 1 -> A] : Iterates(A, m - 1, base, op, h)
    BY <2>1
  <2> DEFINE g == [i \in 0 .. m |-> IF i = m THEN op[<<m, h[m - 1]>>] ELSE h[i]]
  <2>3. op[<<m, h[m - 1]>>] \in A
    BY <2>1, <2>2
  <2>4. g \in [0 .. m -> A]
    BY <2>1, <2>3
  <2>5. ASSUME NEW i \in 0 .. m
        PROVE  g[i] = IF i = 0 THEN base ELSE op[<<i, g[i - 1]>>]
    <3>1. CASE i = m
      <4>1. g[i - 1] = h[m - 1] /\ g[i] = op[<<m, h[m - 1]>>]
        BY <2>1, <3>1
      <4> QED
        BY <3>1, <4>1, <1>3
    <3>2. CASE i # m /\ i = 0
      BY <2>1, <2>2, <3>2 DEF Iterates
    <3>3. CASE i # m /\ i # 0
      <4>1. i \in 0 .. m - 1 /\ g[i] = h[i] /\ g[i - 1] = h[i - 1]
        BY <2>1, <3>3
      <4> HIDE DEF g
      <4>2. h[i] = op[<<i, h[i - 1]>>]
        BY <2>2, <3>3, <4>1 DEF Iterates
      <4> QED
        BY <3>3, <4>1, <4>2
    <3> QED
      BY <3>1, <3>2, <3>3
  <2>6. Iterates(A, m, base, op, g)
    <3>1. g = [i \in 0 .. m |-> g[i]]
      OBVIOUS
    <3> HIDE DEF g
    <3>2. [i \in 0 .. m |-> g[i]] = [i \in 0 .. m |-> IF i = 0 THEN base ELSE op[<<i, g[i - 1]>>]]
      BY <2>5
    <3> QED
      BY <3>1, <3>2 DEF Iterates
  <2> QED
    BY <1>1, <2>4, <2>6
<1> QED
  BY <1>2, <1>3

\* What holds of the first result and is kept by every turn holds of the last.
LEMMA LoopKeeps ==
  ASSUME NEW A, NEW n \in Nat, NEW g, g[0] \in A,
         \A i \in 1 .. n : g[i - 1] \in A => g[i] \in A
  PROVE  \A i \in 0 .. n : g[i] \in A
<1> DEFINE Bad == {m \in 0 .. n : g[m] \notin A}
<1> SUFFICES ASSUME Bad # {} PROVE FALSE
  OBVIOUS
<1>1. PICK m \in Bad : \A k \in Bad : m <= k
  <2>1. Bad \subseteq Nat
    OBVIOUS
  <2> HIDE DEF Bad
  <2> QED
    BY <2>1, NatMin
<1>2. m \in 1 .. n /\ m - 1 \in 0 .. n
  BY <1>1
<1>3. m - 1 \notin Bad
  <2> HIDE DEF Bad
  <2> QED
    BY <1>1, <1>2
<1> QED
  BY <1>2, <1>3

\* The team is made of units on cells.
LEMMA ChooseBoardType ==
  ASSUME NEW r, NEW cap \in Nat, NEW age
  PROVE  ChooseBoard(r, cap, age) \in Seq(Cells)
<1> DEFINE A == Seq(Cells)
           op == [p \in (1 .. cap) \X A |-> NextChosen(r, cap, age, p[2])]
           f == CHOOSE g : g = [n \in 0 .. cap |-> IF n = 0 THEN <<>> ELSE NextChosen(r, cap, age, g[n - 1])]
<1>1. ASSUME NEW line \in A
      PROVE  NextChosen(r, cap, age, line) \in A
  <2> DEFINE chosen == ToSet(line)
             fits == {x \in Standing(r) \ chosen :
                        r[x].champ \notin Plants /\ SlotsOf(r, chosen \cup {x}) <= cap}
             best == BestChoice(r, chosen, age, fits)
  <2>1. best \subseteq Cells
    BY DEF BestChoice, Standing
  <2>2. NextChosen(r, cap, age, line) = IF best = {} THEN line ELSE Append(line, CHOOSE x \in best : TRUE)
    BY DEF NextChosen
  <2> HIDE DEF best
  <2>3. best # {} => (CHOOSE x \in best : TRUE) \in Cells
    BY <2>1
  <2>4. \A x \in Cells : Append(line, x) \in A
    OBVIOUS
  <2> HIDE DEF A
  <2> QED
    BY <2>2, <2>3, <2>4
<1>2. <<>> \in A
  OBVIOUS
<1> HIDE DEF A
<1>3. op \in [(1 .. cap) \X A -> A]
  BY <1>1
<1>4. PICK g \in [0 .. cap -> A] : Iterates(A, cap, <<>>, op, g)
  <2> HIDE DEF op
  <2> QED
    BY <1>2, <1>3, LoopExists
<1>5. g = [n \in 0 .. cap |-> IF n = 0 THEN <<>> ELSE NextChosen(r, cap, age, g[n - 1])]
  <2>1. g = [n \in 0 .. cap |-> IF n = 0 THEN <<>> ELSE op[<<n, g[n - 1]>>]]
    BY <1>4 DEF Iterates
  <2>2. \A n \in 0 .. cap : n # 0 => op[<<n, g[n - 1]>>] = NextChosen(r, cap, age, g[n - 1])
    BY <1>4
  <2> HIDE DEF op
  <2> QED
    BY <2>1, <2>2
<1>6. f = [n \in 0 .. cap |-> IF n = 0 THEN <<>> ELSE NextChosen(r, cap, age, f[n - 1])]
  BY <1>5
<1>7. ChooseBoard(r, cap, age) = f[cap]
  BY DEF ChooseBoard
<1> HIDE DEF f
<1>8. f[0] \in A
  <2>1. 0 \in 0 .. cap
    OBVIOUS
  <2> QED
    BY <1>2, <1>6, <2>1
<1>9. ASSUME NEW n \in 1 .. cap, f[n - 1] \in A
      PROVE  f[n] \in A
  <2>1. n \in 0 .. cap /\ n # 0
    OBVIOUS
  <2> QED
    BY <1>1, <1>6, <1>9, <2>1
<1>10. \A n \in 0 .. cap : f[n] \in A
  BY <1>8, <1>9, LoopKeeps
<1> QED
  BY <1>7, <1>10 DEF A

\* Rosters that the board can be made of: sound, and with the same units.
SameUnits(r, cap) ==
  {now \in [roster : Rosters, chosen : SUBSET Cells] :
     Sound(now.roster, cap) /\ \A c \in Champions : Worth(now.roster, c) = Worth(r, c)}

\* Fielding a unit moves one, or swaps two.
LEMMA FieldOneKeeps ==
  ASSUME NEW r, level \in Nat, NEW now \in SameUnits(r, level), NEW age, NEW x \in Cells
  PROVE  FieldOne(age, now, x) \in SameUnits(r, level)
<1> DEFINE q == now.roster
           others == {y \in Board \ now.chosen : q[y] # Empty /\ q[y].champ \notin Plants}
           out  == {y \in others : \A z \in others : UnitPower(q[y]) < UnitPower(q[z]) \/
                      (UnitPower(q[y]) = UnitPower(q[z]) /\ age[y] <= age[z])}
           free == {y \in Board : q[y] = Empty /\ CanMove(q, level, x, y)}
           goal == IF BoardCount(q) >= level THEN {y \in out : CanMove(q, level, x, y)} ELSE free
           y == Lowest(goal)
<1>1. goal \subseteq Board /\ \A z \in goal : CanMove(q, level, x, z)
  OBVIOUS
<1>2. FieldOne(age, now, x) = IF x \in Board \/ goal = {} THEN now
                              ELSE [roster |-> Moved(q, x, y), chosen |-> (now.chosen \ {x}) \cup {y}]
  BY DEF FieldOne
<1> HIDE DEF goal
<1>3. ASSUME goal # {}
      PROVE  [roster |-> Moved(q, x, y), chosen |-> (now.chosen \ {x}) \cup {y}] \in SameUnits(r, level)
  <2>1. y \in goal
    BY <1>1, <1>3, LowestIn, PlacesFact
  <2>2. y \in Cells /\ x \in Places /\ y \in Places /\ CanMove(q, level, x, y) /\ x # y
    BY <1>1, <2>1, PlacesFact DEF CanMove
  <2>3. /\ q \in Rosters /\ CheckInvariants(q) /\ Cardinality(Fighters(q)) <= level
        /\ now.chosen \subseteq Cells /\ \A c \in Champions : Worth(q, c) = Worth(r, c)
    BY DEF SameUnits, Sound
  <2> HIDE DEF q, y
  <2>4. Sound(Moved(q, x, y), level)
    BY <2>2, <2>3, MovedType, MovedLayout, MovedFits DEF Sound
  <2>5. \A c \in Champions : Worth(Moved(q, x, y), c) = Worth(r, c)
    BY <2>2, <2>3, MovedWorth
  <2>6. Moved(q, x, y) \in Rosters
    BY <2>4 DEF Sound
  <2> QED
    BY <2>2, <2>3, <2>4, <2>5, <2>6 DEF SameUnits
<1> QED
  BY <1>2, <1>3

\* Arranging the board moves units and keeps them all.
LEMMA ArrangeKeeps ==
  ASSUME BotInv, NEW age, ArrangeBoard(age)
  PROVE  Sound(roster', level) /\ Value(roster') = Value(roster)
<1>1. Sound(roster, level) /\ level \in Nat /\ roster \in Rosters
  BY DEF BotInv, Sound
<1> DEFINE line == ChooseBoard(roster, level, age)
           base == [roster |-> roster, chosen |-> ToSet(line)]
           A == SameUnits(roster, level)
           f == CHOOSE g : g = [n \in 0 .. Len(line) |-> IF n = 0 THEN base ELSE FieldOne(age, g[n - 1], line[n])]
           op == [p \in (1 .. Len(line)) \X A |-> FieldOne(age, p[2], line[p[1]])]
<1>2. line \in Seq(Cells)
  BY <1>1, ChooseBoardType
<1>3. roster' = f[Len(line)].roster
  BY DEF ArrangeBoard
<1> HIDE DEF line, A
<1>4. Len(line) \in Nat /\ \A n \in 1 .. Len(line) : line[n] \in Cells
  BY <1>2
<1>5. base \in A
  <2>1. ToSet(line) \subseteq Cells
    BY <1>2 DEF ToSet
  <2> QED
    BY <1>1, <2>1 DEF A, SameUnits
<1> HIDE DEF base
<1>6. \A now \in A, n \in 1 .. Len(line) : FieldOne(age, now, line[n]) \in A
  BY <1>1, <1>4, FieldOneKeeps DEF A
<1>7. op \in [(1 .. Len(line)) \X A -> A]
  BY <1>6
<1>8. PICK g \in [0 .. Len(line) -> A] : Iterates(A, Len(line), base, op, g)
  <2> HIDE DEF op
  <2> QED
    BY <1>4, <1>5, <1>7, LoopExists
<1>9. g = [n \in 0 .. Len(line) |-> IF n = 0 THEN base ELSE FieldOne(age, g[n - 1], line[n])]
  <2>1. g = [n \in 0 .. Len(line) |-> IF n = 0 THEN base ELSE op[<<n, g[n - 1]>>]]
    BY <1>8 DEF Iterates
  <2>2. \A n \in 0 .. Len(line) : n # 0 => op[<<n, g[n - 1]>>] = FieldOne(age, g[n - 1], line[n])
    BY <1>4, <1>8
  <2> HIDE DEF op
  <2> QED
    BY <2>1, <2>2
<1>10. f = [n \in 0 .. Len(line) |-> IF n = 0 THEN base ELSE FieldOne(age, f[n - 1], line[n])]
  BY <1>9
<1> HIDE DEF f
<1>11. f[0] \in A
  <2>1. 0 \in 0 .. Len(line)
    BY <1>4
  <2> QED
    BY <1>5, <1>10, <2>1
<1>12. ASSUME NEW n \in 1 .. Len(line), f[n - 1] \in A
       PROVE  f[n] \in A
  <2>1. n \in 0 .. Len(line) /\ n # 0
    BY <1>4
  <2> QED
    BY <1>6, <1>10, <1>12, <2>1
<1>13. f[Len(line)] \in A
  <2>1. \A n \in 0 .. Len(line) : f[n] \in A
    BY <1>4, <1>11, <1>12, LoopKeeps
  <2> QED
    BY <1>4, <2>1
<1>14. Sound(roster', level) /\ \A c \in Champions : Worth(roster', c) = Worth(roster, c)
  BY <1>3, <1>13 DEF A, SameUnits
<1> QED
  BY <1>14, SameValue

\* A threshold of the savings is never below the reserve.
LEMMA LimitIs ==
  ASSUME BotInv, NEW r, NEW c
  PROVE  Limit(r, c) \in Int /\ Limit(r, c) >= 0
<1>1. {ReserveGold, InterestStepGold, MaxInterestGold} \subseteq Nat /\ stage - 1 \in Int
  BY BotAssumption DEF BotInv
<1>2. (stage - 1) * InterestStepGold \in Int
  BY <1>1
<1>3. KeepGold \in Int
  BY <1>1, <1>2 DEF KeepGold, Larger, Smaller
<1> QED
  BY <1>1, <1>3 DEF Limit, Larger

\* There is at most one unit to sell: ages are different.
LEMMA OneWeakest ==
  ASSUME NEW r \in Rosters, NEW age \in Ages,
         NEW x \in WeakestSellable(r, age), NEW y \in WeakestSellable(r, age)
  PROVE  x = y
<1>1. /\ x \in Sellable(r) /\ y \in Sellable(r)
      /\ Weaker(r, age, x, y) /\ Weaker(r, age, y, x)
  BY DEF WeakestSellable
<1>2. x \in Cells /\ y \in Cells /\ r[x] \in Units /\ r[y] \in Units
  BY <1>1, PlacesFact DEF Sellable, Standing, Rosters
<1>3. CostOf[r[x].champ] \in Nat /\ CostOf[r[y].champ] \in Nat
  BY <1>2, BotAssumption DEF Units
<1>4. age[x] \in Int /\ age[y] \in Int
  BY <1>2, BotAssumption
<1>5. age[x] <= age[y] /\ age[y] <= age[x]
  BY <1>1, <1>3 DEF Weaker
<1> QED
  BY <1>2, <1>4, <1>5, BotAssumption

\* One purchase: with or without a sale it leaves a sound roster and some gold, and,
\* without the Queen, a roster that costs no less.
LEMMA BuyKeeps ==
  ASSUME BotInv, NEW k \in ShopSlots, NEW age \in Ages, shop[k] # NoChampion,
         NEW team, Wanted(team, WeakestSellable(roster, age), shop[k]),
         BuyWantedUnit(k, WeakestSellable(roster, age))
  PROVE  /\ Sound(roster', level) /\ gold' \in Nat /\ shop' \in Offered
         /\ NoQueen => Value(roster') >= Value(roster)
<1> DEFINE c == shop[k]
           weakest == WeakestSellable(roster, age)
           sold == IF CanAdd(roster, level, c) THEN {} ELSE SellCandidateFor(weakest, c)
           cleared == [x \in Places |-> IF x \in sold THEN Empty ELSE roster[x]]
           income == SumFunction([x \in sold |-> PriceOf[roster[x].champ]])
           buys == CanAdd(cleared, level, c) /\ gold + income >= PriceOf[c]
<1>1. /\ Sound(roster, level) /\ roster \in Rosters /\ level \in Nat /\ gold \in Nat
      /\ c \in Champions \ Plants /\ shop \in Offered
  BY DEF BotInv, Sound, Offered
<1>2. /\ roster' = IF buys THEN Add(cleared, level, c) ELSE cleared
      /\ gold' = IF buys THEN (gold + income) - PriceOf[c] ELSE gold + income
      /\ shop' = IF buys THEN [shop EXCEPT ![k] = NoChampion] ELSE shop
  <2>1. roster' = IF buys THEN Add(cleared, level, c) ELSE cleared
    BY Zenon DEF BuyWantedUnit
  <2>2. gold' = IF buys THEN (gold + income) - PriceOf[c] ELSE gold + income
    BY Zenon DEF BuyWantedUnit
  <2>3. shop' = IF buys THEN [shop EXCEPT ![k] = NoChampion] ELSE shop
    BY Zenon DEF BuyWantedUnit
  <2> QED
    BY <2>1, <2>2, <2>3
<1>3. PriceOf[c] \in Nat /\ CostOf[c] \in Nat
  BY <1>1, BotAssumption
<1>4. gold >= CostOf[c] /\ (CanAdd(roster, level, c) \/ SellCandidateFor(weakest, c) # {})
  BY <1>1, <1>3, LimitIs DEF Wanted
<1>5. \A x \in sold : /\ x \in Sellable(roster) /\ x \in weakest
                      /\ ~ CanAdd(roster, level, c)
                      /\ \/ CostOf[c] > CostOf[roster[x].champ]
                         \/ CostOf[c] = CostOf[roster[x].champ]
  BY DEF SellCandidateFor, WeakestSellable
<1>6. sold \subseteq Cells /\ \A x, y \in sold : x = y
  BY <1>1, <1>5, OneWeakest DEF Sellable, Standing
<1> HIDE DEF weakest, sold
<1>7. income \in Nat
  <2> DEFINE d == [x \in sold |-> PriceOf[roster[x].champ]]
  <2>1. IsFiniteSet(sold)
    BY <1>6, PlacesFact, FS_Subset
  <2>2. \A x \in sold : PriceOf[roster[x].champ] \in Nat
    BY <1>1, <1>5, SaleCosts, BotAssumption
  <2>3. d \in [sold -> Nat]
    BY <2>2
  <2> HIDE DEF d
  <2>4. SumFunction(d) \in Nat
    BY <2>1, <2>3, SumNat
  <2> QED
    BY <2>4 DEF d
<1> HIDE DEF income
<1>8. /\ Sound(cleared, level)
      /\ NoQueen => /\ CanAdd(cleared, level, c)
                    /\ Value(cleared) + CostOf[c] >= Value(roster)
  <2>1. CASE sold = {}
    <3>1. cleared = roster
      BY <1>1, <2>1 DEF Rosters
    <3>2. CanAdd(roster, level, c)
      BY <1>4, <2>1 DEF sold
    <3> QED
      BY <1>1, <1>3, <3>1, <3>2, ValueType
  <2>2. CASE sold # {}
    <3>1. PICK x \in sold : sold = {x}
      BY <1>6, <2>2
    <3>2. /\ x \in Cells /\ roster[x] # Empty /\ roster[x].champ \in Champions \ (Plants \cup Special)
          /\ Value(Removed(roster, x)) = Value(roster) - CostOf[roster[x].champ]
      BY <1>1, <1>5, SaleCosts
    <3>3. cleared = Removed(roster, x)
      BY <1>1, <3>1 DEF Removed, Rosters
    <3>4. Sound(cleared, level)
      BY <1>1, <3>2, <3>3, ClearedSound
    <3>5. ASSUME NoQueen PROVE CanAdd(cleared, level, c)
      <4>1. ASSUME NEW y \in Board, roster[y] # Empty PROVE TeamSlots[roster[y].champ] <= 1
        <5>1. roster[y].champ \in Champions /\ roster[y].champ \notin Special
          BY <1>1, <3>5, <4>1, PlacesFact DEF NoQueen, Rosters, Units
        <5> QED
          BY <5>1, BotAssumption
      <4> QED
        BY <1>1, <3>2, <3>3, <4>1, SaleMakesRoom
    <3>6. Value(cleared) + CostOf[c] >= Value(roster)
      <4>1. CostOf[roster[x].champ] \in Nat
        BY <3>2, BotAssumption
      <4>2. CostOf[c] > CostOf[roster[x].champ] \/ CostOf[c] = CostOf[roster[x].champ]
        BY <1>5
      <4> QED
        BY <1>3, <3>2, <3>3, <4>1, <4>2, ValueType
    <3> QED
      BY <3>4, <3>5, <3>6
  <2> QED
    BY <2>1, <2>2
<1> HIDE DEF cleared
<1>9. ASSUME buys
      PROVE  /\ Sound(roster', level) /\ gold' \in Nat /\ shop' \in Offered
             /\ Value(roster') = Value(cleared) + CostOf[c]
  <2>1. CanAdd(cleared, level, c) /\ gold + income >= PriceOf[c]
    BY <1>9
  <2>2. Sound(roster', level) /\ Value(roster') = Value(cleared) + CostOf[c]
    BY <1>1, <1>2, <1>8, <1>9, <2>1, AddSound
  <2>3. gold' \in Nat
    BY <1>1, <1>2, <1>3, <1>7, <1>9, <2>1
  <2>4. shop' \in Offered
    BY <1>1, <1>2, <1>9 DEF Offered
  <2> QED
    BY <2>2, <2>3, <2>4
<1>10. NoQueen => buys
  <2> SUFFICES ASSUME NoQueen PROVE buys
    OBVIOUS
  <2>1. c \notin Special /\ PriceOf[c] = CostOf[c]
    <3>1. c \notin Special
      BY DEF NoQueen
    <3> QED
      BY <1>1, <3>1, BotAssumption
  <2> QED
    BY <1>1, <1>3, <1>4, <1>7, <1>8, <2>1
<1>11. CASE buys
  BY <1>8, <1>9, <1>11
<1>12. CASE ~ buys
  BY <1>1, <1>2, <1>7, <1>8, <1>10, <1>12
<1> QED
  BY <1>11, <1>12

\* A gift is kept as a unit if there is room for it.
LEMMA PickGiftKeeps ==
  ASSUME BotInv, PickGift
  PROVE  BotInv' /\ Value(roster') >= Value(roster)
<1>1. /\ Sound(roster, level) /\ level \in Nat /\ gold \in Nat /\ BonusGold \in Nat
      /\ gifts \in Seq((Champions \ Plants) \cup GiftKinds)
  BY BotAssumption DEF BotInv
<1>2. PICK best \in DOMAIN gifts :
        LET g == gifts[best]
            taken == g \in Champions /\ CanAdd(roster, level, g)
        IN /\ roster' = IF taken THEN Add(roster, level, g) ELSE roster
           /\ gold' = gold + IF taken THEN 0 ELSE IF g \in Champions THEN CostOf[g]
                             ELSE IF g = "Gold" THEN BonusGold ELSE 0
           /\ level' \in {level} \cup IF g = "Xp" /\ level < MaxLevel THEN {level + 1} ELSE {}
  BY DEF PickGift
<1> DEFINE g == gifts[best]
           taken == g \in Champions /\ CanAdd(roster, level, g)
<1>3. g \in (Champions \ Plants) \cup GiftKinds
  BY <1>1, <1>2
<1>4. g \in Champions => g \notin Plants /\ CostOf[g] \in Nat
  BY <1>3, BotAssumption
<1>5. level' \in Nat /\ level' >= level
  BY <1>1, <1>2
<1>6. gold' \in Nat
  BY <1>1, <1>2, <1>4
<1>7. Sound(roster', level) /\ Value(roster') >= Value(roster)
  <2>1. CASE taken
    BY <1>1, <1>2, <1>4, <2>1, AddSound, ValueType
  <2>2. CASE ~ taken
    BY <1>1, <1>2, <2>2, ValueType
  <2> QED
    BY <2>1, <2>2
<1>8. Sound(roster', level')
  BY <1>1, <1>5, <1>7, RisenSound
<1>9. gifts' \in Seq((Champions \ Plants) \cup GiftKinds) /\ stage' = stage /\ shop' = shop
  BY DEF PickGift
<1> QED
  BY <1>5, <1>6, <1>7, <1>8, <1>9 DEF BotInv

\* Experience costs gold and may raise the level.
LEMMA BuyXpKeeps ==
  ASSUME BotInv, BuyXp
  PROVE  BotInv' /\ roster' = roster
<1>1. /\ Sound(roster, level) /\ level \in Nat /\ gold \in Nat /\ BuyXpCost \in Nat
  BY BotAssumption DEF BotInv
<1>2. /\ gold >= BuyXpCost /\ gold' = gold - BuyXpCost /\ level' \in {level, level + 1}
      /\ roster' = roster /\ stage' = stage /\ shop' = shop /\ gifts' = gifts
  BY DEF BuyXp
<1>3. gold' \in Nat /\ level' \in Nat /\ level' >= level
  BY <1>1, <1>2
<1>4. Sound(roster', level')
  BY <1>1, <1>2, <1>3, RisenSound
<1> QED
  BY <1>2, <1>3, <1>4 DEF BotInv

\* Whatever changes neither what the bot has on its roster nor its level keeps the invariant
\* if it leaves gold, a shop and gifts of the right kind.
LEMMA RestKeeps ==
  ASSUME BotInv, roster' = roster, level' = level, gold' \in Nat, stage' \in Nat, shop' \in Offered,
         gifts' \in Seq((Champions \ Plants) \cup GiftKinds)
  PROVE  BotInv' /\ Value(roster') >= Value(roster)
<1>1. Value(roster) \in Nat
  BY ValueType
<1> QED
  BY <1>1 DEF BotInv

\* What a shop shows, a pooled champion or the Queen, is an offer.
LEMMA ShopsOffer ==
  ASSUME NEW f, f \in Shops \/ f = ClosedShop
  PROVE  f \in Offered
BY DEF Shops, ClosedShop, Offered

\* Every step keeps the invariant, and costs no less without the Queen.
LEMMA BotStepKeeps ==
  ASSUME BotInv, [BotNext]_botVars
  PROVE  BotInv' /\ (NoQueen => Value(roster') >= Value(roster))
<1>0. Value(roster) \in Nat /\ level \in Nat /\ gold \in Nat /\ stage \in Nat /\ shop \in Offered
      /\ gifts \in Seq((Champions \ Plants) \cup GiftKinds)
      /\ Sound(roster, level)
  BY ValueType DEF BotInv
<1>00. /\ {RerollCost, BonusGold, MaxGold} \subseteq Nat /\ Income \subseteq Nat
       /\ GiftSets \subseteq Seq((Champions \ Plants) \cup GiftKinds)
       /\ MaxStage \in Nat
  BY BotAssumption
<1>1. CASE PickGift
  BY <1>1, PickGiftKeeps
<1>2. CASE AnswerTraitChoice
  <2>1. gold' \in Nat
    BY <1>0, <1>00, <1>2 DEF AnswerTraitChoice
  <2> QED
    BY <1>0, <1>2, <2>1, RestKeeps DEF AnswerTraitChoice
<1>3. ASSUME NEW next, Goes(next)
      PROVE  BotInv' /\ Value(roster') >= Value(roster)
  BY <1>0, <1>3, RestKeeps DEF Goes
<1>4. CASE BuyExperience
  BY <1>0, <1>3, <1>4, BuyXpKeeps DEF BuyExperience
<1>5. ASSUME NEW age \in Ages, BuyWantedUnits(age)
      PROVE  BotInv' /\ (NoQueen => Value(roster') >= Value(roster))
  <2>1. PICK team : \E picks \in {Picks(team, WeakestSellable(roster, age))} :
               \/ picks = {} /\ Goes(AfterVisit)
               \/ \E k \in picks : BuyWantedUnit(k, WeakestSellable(roster, age))
    BY <1>5 DEF BuyWantedUnits
  <2>2. CASE Goes(AfterVisit)
    BY <1>3, <2>2
  <2>3. ASSUME NEW k \in Picks(team, WeakestSellable(roster, age)),
               BuyWantedUnit(k, WeakestSellable(roster, age))
        PROVE  BotInv' /\ (NoQueen => Value(roster') >= Value(roster))
    <3>1. /\ k \in ShopSlots /\ shop[k] # NoChampion
          /\ Wanted(team, WeakestSellable(roster, age), shop[k])
      BY DEF Picks
    <3>2. /\ Sound(roster', level) /\ gold' \in Nat /\ shop' \in Offered
          /\ NoQueen => Value(roster') >= Value(roster)
      BY <2>3, <3>1, BuyKeeps
    <3>3. level' = level /\ stage' = stage /\ gifts' = gifts
      BY <2>3 DEF BuyWantedUnit
    <3> QED
      BY <1>0, <3>2, <3>3 DEF BotInv
  <2> QED
    BY <2>1, <2>2, <2>3
<1>6. ASSUME NEW age \in Ages, ArrangeBoard(age)
      PROVE  BotInv' /\ Value(roster') >= Value(roster)
  <2>1. Sound(roster', level) /\ Value(roster') = Value(roster)
    BY <1>6, ArrangeKeeps
  <2>2. level' = level /\ stage' = stage /\ gifts' = gifts /\ gold' = gold /\ shop' = shop
    BY <1>6 DEF ArrangeBoard
  <2> QED
    BY <1>0, <2>1, <2>2 DEF BotInv
<1>7. CASE LevelToTarget
  BY <1>0, <1>3, <1>7, BuyXpKeeps DEF LevelToTarget
<1>8. CASE Reroll
  <2>1. CASE Goes("Arrange")
    BY <1>3, <2>1
  <2>2. CASE ~ Goes("Arrange")
    <3>1. /\ MayReroll /\ gold' = gold - RerollCost /\ shop' \in Shops
          /\ roster' = roster /\ level' = level /\ stage' = stage /\ gifts' = gifts
      BY <1>8, <2>2 DEF Reroll
    <3>2. gold' \in Nat
      <4>1. {ReserveGold, InterestStepGold, MaxInterestGold} \subseteq Nat /\ stage - 1 \in Int
        BY <1>0, BotAssumption
      <4>2. (stage - 1) * InterestStepGold \in Int
        BY <4>1
      <4>3. KeepGold \in Int
        BY <4>1, <4>2 DEF KeepGold, Larger, Smaller
      <4>4. gold - RerollCost >= 0
        BY <1>0, <1>00, <3>1, <4>1, <4>3 DEF MayReroll, Larger
      <4> QED
        BY <1>0, <1>00, <3>1, <4>4
    <3> QED
      BY <1>0, <3>1, <3>2, RestKeeps, ShopsOffer
  <2> QED
    BY <2>1, <2>2
<1>9. CASE MotherNature
  BY <1>0, <1>00, <1>9, RestKeeps DEF MotherNature
<1>10. CASE Planning
  <2>1. ASSUME NEW i \in Income PROVE Smaller(gold + i, MaxGold) \in Nat
    <3>1. gold \in Nat /\ i \in Nat /\ MaxGold \in Nat
      BY <1>0, <1>00
    <3> QED
      BY ONLY <3>1 DEF Smaller
  <2>2. stage' \in Nat
    BY <1>0, <1>00, <1>10 DEF Planning
  <2>3. shop' \in Offered
    BY <1>10, ShopsOffer DEF Planning
  <2>4. gold' \in Nat
    BY <1>10, <2>1 DEF Planning
  <2> QED
    BY <1>0, <1>10, <2>2, <2>3, <2>4, RestKeeps DEF Planning
<1>11. CASE UNCHANGED botVars
  BY <1>0, <1>11, RestKeeps DEF botVars
<1> QED
  BY <1>1, <1>2, <1>4, <1>5, <1>6, <1>7, <1>8, <1>9, <1>10, <1>11 DEF BotNext, Turn

\* A new bot has no units.
LEMMA BotBegins == BotInit => BotInv
<1> SUFFICES ASSUME BotInit PROVE BotInv
  OBVIOUS
<1>1. roster = EmptyRoster /\ roster \in Rosters /\ \A x \in Places : roster[x] = Empty
  BY DEF BotInit, EmptyRoster, Rosters
<1>2. CheckInvariants(roster)
  <2>1. \A c \in Champions \ Plants, s \in 1 .. MaxStar - 1 : CopiesAt(roster, c, s) = {}
    BY <1>1, UnitFact DEF CopiesAt, MaxStar
  <2>2. NoLooseTriple(roster)
    BY <2>1, FS_EmptySet DEF NoLooseTriple
  <2>3. Empty.champ \notin Plants
    BY NotAPlant
  <2> QED
    BY <1>1, <2>2, <2>3, PlacesFact DEF CheckInvariants, NothingUnplaced, PlantsOnBoard
<1>3. Fighters(roster) = {}
  BY <1>1, PlacesFact DEF Fighters
<1>4. Cardinality(Fighters(roster)) <= 1
  BY <1>3, FS_EmptySet
<1>5. shop \in Offered /\ gifts \in Seq((Champions \ Plants) \cup GiftKinds)
  BY ShopsOffer DEF BotInit
<1> QED
  BY <1>1, <1>2, <1>4, <1>5 DEF BotInit, BotInv, Sound

\* Whatever a bot is offered, given and rolls, its roster keeps its layout, no more units
\* stand on its board than its level allows, and it never owes gold.
THEOREM BotKept == BotSpec => []BotInv
<1>1. BotInv /\ [BotNext]_botVars => BotInv'
  BY BotStepKeeps
<1> QED
  BY <1>1, BotBegins, PTL DEF BotSpec

\* "When its roster is full it sells its weakest lone unit to make room for a purchase
\* that is worth more": the sale makes room, the purchase is affordable, and no step of
\* a turn leaves less on the roster, for any champions, prices, ages and profile, as long
\* as the Queen is neither held nor offered.
THEOREM SellsOnlyToBuyKept == BotSpec => SellsOnlyToBuy
<1>1. BotInv /\ [BotNext]_botVars => [NoQueen => Value(roster') >= Value(roster)]_botVars
  BY BotStepKeeps
<1> QED
  BY <1>1, BotKept, PTL DEF BotSpec, SellsOnlyToBuy
=============================================================================
