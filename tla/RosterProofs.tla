---------------------------- MODULE RosterProofs ----------------------------
(***************************************************************************)
(* What the roster operators return, for every number of cells and every   *)
(* set of champions: adding, merging, moving and removing keep a roster    *)
(* well-formed and keep the layout that UnitRoster::CheckInvariants tests. *)
(***************************************************************************)
EXTENDS Roster, FiniteSetTheorems, WellFoundedInduction, TLAPS

-----------------------------------------------------------------------------
(* The least element of a set of numbers.                                  *)

NatLess == {ss \in Nat \X Nat : ss[1] < ss[2]}

\* The order of the naturals as a set of pairs is well founded.
LEMMA NatLessWF == IsWellFoundedOn(NatLess, Nat)
  BY NatLessThanWellFounded DEF OpToRel, NatLess

\* What membership in that set of pairs means.
LEMMA NatLessDef == \A x, y \in Nat : y < x => <<y, x>> \in NatLess
  BY DEF NatLess

\* A non-empty set of naturals has a least element.
LEMMA NatMin ==
  ASSUME NEW T, T \subseteq Nat, T # {}
  PROVE  \E x \in T : \A y \in T : x <= y
<1>1. \E x \in T : \A y \in T : ~ (<<y, x>> \in NatLess)
  BY NatLessWF, WFMin
<1>2. PICK x \in T : \A y \in T : ~ (<<y, x>> \in NatLess)
  BY <1>1
<1>3. \A y \in T : ~ (y < x)
  BY <1>2, NatLessDef, Zenon
<1>4. \A y \in T : x <= y
  BY <1>3, SMT
<1> QED
  BY <1>4

-----------------------------------------------------------------------------
(* Places.                                                                 *)

\* There are finitely many places, all of them numbers, and Hand is no cell.
LEMMA PlacesFact ==
  /\ IsFiniteSet(Places)
  /\ Places \subseteq Nat
  /\ Hand \in Places /\ Hand \notin Cells
  /\ Bench \subseteq Cells /\ Board \subseteq Cells /\ Bench \cap Board = {}
  /\ Cells \subseteq Places
  /\ Places = {Hand} \cup Cells
<1>1. Places \subseteq 0 .. BenchSlots + BoardHexes
  BY RosterAssumption DEF Places, Cells, Bench, Board, Hand
<1>2. IsFiniteSet(0 .. BenchSlots + BoardHexes)
  BY RosterAssumption, FS_Interval
<1>3. IsFiniteSet(Places)
  BY <1>1, <1>2, FS_Subset
<1> QED
  BY <1>3, RosterAssumption DEF Places, Cells, Bench, Board, Hand

\* The champions that stand in a roster are none of NoChampion.
LEMMA UnitFact ==
  ASSUME NEW c \in Champions, NEW s \in 1 .. 3
  PROVE  Unit(c, s) \in Units /\ Unit(c, s) # Empty
BY RosterAssumption DEF Unit, Units, Empty, MaxStar

\* Lowest picks a member.
LEMMA LowestIn ==
  ASSUME NEW S, S \subseteq Nat, S # {}
  PROVE  Lowest(S) \in S
BY NatMin DEF Lowest

\* MergeRank orders the places: a number for each, and Hand is ranked last.
LEMMA MergeRankFact ==
  /\ \A x \in Places : MergeRank(x) \in Nat
  /\ \A x \in Cells : MergeRank(x) < MergeRank(Hand)
BY RosterAssumption, PlacesFact DEF MergeRank, Places, Cells, Bench, Board, Hand

\* BestRanked picks a member of rank no greater than any other.
LEMMA BestRankedIn ==
  ASSUME NEW S, S \subseteq Places, S # {}
  PROVE  /\ BestRanked(S) \in S
         /\ \A y \in S : MergeRank(BestRanked(S)) <= MergeRank(y)
<1> DEFINE T == {MergeRank(x) : x \in S}
<1>1. T \subseteq Nat /\ T # {}
  BY MergeRankFact
<1>2. PICK n \in T : \A m \in T : n <= m
  BY <1>1, NatMin
<1>3. PICK x \in S : n = MergeRank(x)
  BY <1>2
<1>4. \A y \in S : MergeRank(x) <= MergeRank(y)
  BY <1>2, <1>3
<1> QED
  BY <1>4 DEF BestRanked

\* A unit that several copies merge into never stays in the hand.
LEMMA SurvivorIsOnACell ==
  ASSUME NEW S, S \subseteq Places, NEW x \in S, x # Hand
  PROVE  BestRanked(S) \in Cells
<1>1. /\ BestRanked(S) \in S
      /\ MergeRank(BestRanked(S)) <= MergeRank(x)
  BY BestRankedIn
<1>2. x \in Cells
  BY PlacesFact
<1>3. MergeRank(x) \in Nat /\ MergeRank(Hand) \in Nat /\ MergeRank(x) < MergeRank(Hand)
  BY <1>2, MergeRankFact, PlacesFact
<1>4. BestRanked(S) # Hand
  BY <1>1, <1>3
<1> QED
  BY <1>1, <1>4, PlacesFact

\* The place a new unit gets is the hand or an empty cell; the hand only when there
\* is no free slot.
LEMMA FirstFreeFact ==
  ASSUME NEW r \in Rosters, NEW cap
  PROVE  /\ FirstFree(r, cap) \in Places
         /\ FirstFree(r, cap) # Hand => r[FirstFree(r, cap)] = Empty
         /\ HasFreeSlot(r, cap) => FirstFree(r, cap) # Hand
<1>1. FreeIn(r, Bench) \subseteq Bench /\ FreeIn(r, Board) \subseteq Board
  BY DEF FreeIn
<1>2. FreeIn(r, Bench) \subseteq Nat /\ FreeIn(r, Board) \subseteq Nat
  BY <1>1, PlacesFact
<1>3. CASE FreeIn(r, Bench) # {}
  <2>1. FirstFree(r, cap) \in FreeIn(r, Bench)
    BY <1>2, <1>3, LowestIn DEF FirstFree
  <2> QED
    BY <2>1, PlacesFact DEF FreeIn
<1>4. CASE FreeIn(r, Bench) = {} /\ BoardCount(r) < cap /\ FreeIn(r, Board) # {}
  <2>1. FirstFree(r, cap) \in FreeIn(r, Board)
    BY <1>2, <1>4, LowestIn DEF FirstFree
  <2> QED
    BY <2>1, PlacesFact DEF FreeIn
<1>5. CASE FreeIn(r, Bench) = {} /\ ~ (BoardCount(r) < cap /\ FreeIn(r, Board) # {})
  BY <1>5, PlacesFact DEF FirstFree, HasFreeSlot
<1> QED
  BY <1>3, <1>4, <1>5

-----------------------------------------------------------------------------
(* Well-formedness.                                                        *)

\* Putting a unit on a place keeps a roster a roster.
LEMMA PlacedType ==
  ASSUME NEW r \in Rosters, NEW cap, NEW c \in Champions
  PROVE  Placed(r, cap, c) \in Rosters
<1>1. Unit(c, 1) \in Units
  BY UnitFact
<1> QED
  BY <1>1 DEF Placed, Rosters

\* A merge keeps a roster a roster.
LEMMA MergeOnceType ==
  ASSUME NEW r \in Rosters, NEW c \in Champions, NEW s \in 1 .. 2
  PROVE  MergeOnce(r, c, s) \in Rosters
<1>1. Unit(c, s + 1) \in Units
  BY UnitFact
<1> QED
  BY <1>1 DEF MergeOnce, Rosters

\* Add keeps a roster a roster.
LEMMA AddType ==
  ASSUME NEW r \in Rosters, NEW cap, NEW c \in Champions
  PROVE  Add(r, cap, c) \in Rosters
BY PlacedType, MergeOnceType DEF Add

\* A move to where the unit stands changes nothing.
LEMMA MovedInPlace ==
  ASSUME NEW r \in Rosters, NEW x \in Places
  PROVE  Moved(r, x, x) = r
BY DEF Moved, Rosters

\* A move keeps a roster a roster.
LEMMA MovedType ==
  ASSUME NEW r \in Rosters, NEW x \in Places, NEW y \in Places
  PROVE  Moved(r, x, y) \in Rosters
BY DEF Moved, Rosters

\* Removing a unit keeps a roster a roster.
LEMMA RemovedType ==
  ASSUME NEW r \in Rosters, NEW x
  PROVE  Removed(r, x) \in Rosters
BY DEF Removed, Rosters
-----------------------------------------------------------------------------
(* The copies of a champion at a star level.                               *)

\* The copies at a level are finitely many places.
LEMMA CopiesFinite ==
  ASSUME NEW r, NEW c, NEW s
  PROVE  /\ CopiesAt(r, c, s) \subseteq Places
         /\ IsFiniteSet(CopiesAt(r, c, s))
         /\ Cardinality(CopiesAt(r, c, s)) \in Nat
<1>1. CopiesAt(r, c, s) \subseteq Places
  BY DEF CopiesAt
<1>2. IsFiniteSet(CopiesAt(r, c, s))
  BY <1>1, PlacesFact, FS_Subset
<1> QED
  BY <1>1, <1>2, FS_CardinalityType

\* Units of different champions or levels differ.
LEMMA UnitInjective ==
  ASSUME NEW c, NEW s, NEW d, NEW t
  PROVE  Unit(c, s) = Unit(d, t) <=> c = d /\ s = t
BY DEF Unit

\* Putting a copy on an empty place adds that place to the copies of its champion at
\* one star, and changes no other copies.
LEMMA PlacedCopies ==
  ASSUME NEW r \in Rosters, NEW cap, NEW c \in Champions,
         NothingUnplaced(r)
  PROVE  LET p == Placed(r, cap, c)  q == FirstFree(r, cap)
         IN  /\ q \in Places /\ q \notin CopiesAt(r, c, 1)
             /\ CopiesAt(p, c, 1) = CopiesAt(r, c, 1) \cup {q}
             /\ \A d \in Champions, s \in 1 .. 3 :
                  d # c \/ s # 1 => CopiesAt(p, d, s) = CopiesAt(r, d, s)
             /\ \A x \in Places : p[x] = IF x = q THEN Unit(c, 1) ELSE r[x]
<1> DEFINE p == Placed(r, cap, c)
           q == FirstFree(r, cap)
<1>1. q \in Places /\ r[q] = Empty
  BY FirstFreeFact DEF NothingUnplaced
<1>2. \A x \in Places : p[x] = IF x = q THEN Unit(c, 1) ELSE r[x]
  BY <1>1 DEF Placed, Rosters
<1>3. \A d \in Champions, s \in 1 .. 3 : Unit(d, s) # Empty
  BY UnitFact
<1>4. q \notin CopiesAt(r, c, 1)
  BY <1>1, <1>3 DEF CopiesAt
<1>5. CopiesAt(p, c, 1) = CopiesAt(r, c, 1) \cup {q}
  BY <1>1, <1>2 DEF CopiesAt
<1>6. ASSUME NEW d \in Champions, NEW s \in 1 .. 3, d # c \/ s # 1
      PROVE  CopiesAt(p, d, s) = CopiesAt(r, d, s)
  <2>1. r[q] # Unit(d, s)
    BY <1>1, <1>3
  <2>2. Unit(c, 1) # Unit(d, s)
    BY <1>6, UnitInjective
  <2>3. \A x \in Places : p[x] = Unit(d, s) <=> r[x] = Unit(d, s)
    BY <1>1, <1>2, <2>1, <2>2
  <2> QED
    BY <2>3 DEF CopiesAt
<1> QED
  BY <1>1, <1>2, <1>4, <1>5, <1>6

\* Where there are exactly three copies, a merge takes all of them.
LEMMA MergeSetFact ==
  ASSUME NEW r, NEW c, NEW s, Cardinality(CopiesAt(r, c, s)) <= 3
  PROVE  MergeSet(r, c, s) = IF Cardinality(CopiesAt(r, c, s)) = 3
                             THEN CopiesAt(r, c, s) ELSE {}
<1> DEFINE S == CopiesAt(r, c, s)
           a == BestRanked(S)
           b == BestRanked(S \ {a})
           d == BestRanked(S \ {a, b})
<1>1. S \subseteq Places /\ IsFiniteSet(S) /\ Cardinality(S) \in Nat
  BY CopiesFinite
<1>2. CASE Cardinality(S) # 3
  <2>1. ~ (Cardinality(S) >= 3)
    BY <1>1, <1>2
  <2> QED
    BY <1>2, <2>1 DEF MergeSet
<1>3. CASE Cardinality(S) = 3
  <2> HIDE DEF S
  <2>1. a \in S /\ IsFiniteSet(S \ {a}) /\ Cardinality(S \ {a}) = 2
    <3>1. S # {}
      BY <1>1, <1>3, FS_EmptySet
    <3>2. a \in S
      BY <1>1, <3>1, BestRankedIn
    <3> QED
      BY <1>1, <1>3, <3>2, FS_RemoveElement
  <2>2. b \in S \ {a} /\ IsFiniteSet(S \ {a, b}) /\ Cardinality(S \ {a, b}) = 1
    <3>1. S \ {a} # {}
      BY <2>1, FS_EmptySet
    <3>2. b \in S \ {a}
      BY <1>1, <3>1, BestRankedIn
    <3>3. S \ {a, b} = (S \ {a}) \ {b}
      OBVIOUS
    <3> QED
      BY <2>1, <3>2, <3>3, FS_RemoveElement
  <2>3. d \in S \ {a, b} /\ IsFiniteSet((S \ {a, b}) \ {d}) /\ Cardinality((S \ {a, b}) \ {d}) = 0
    <3>1. S \ {a, b} # {}
      BY <2>2, FS_EmptySet
    <3>2. d \in S \ {a, b}
      BY <1>1, <3>1, BestRankedIn
    <3> DEFINE R == S \ {a, b}
    <3>3. d \in R /\ IsFiniteSet(R) /\ Cardinality(R) = 1
      BY <2>2, <3>2
    <3> HIDE DEF R, d
    <3>4. IsFiniteSet(R \ {d}) /\ Cardinality(R \ {d}) = 1 - 1
      BY <3>3, FS_RemoveElement
    <3> QED
      BY <3>3, <3>4 DEF R
  <2>4. (S \ {a, b}) \ {d} = {}
    BY <2>3, FS_EmptySet
  <2>5. S = {a, b, d}
    BY <2>1, <2>2, <2>3, <2>4
  <2>6. MergeSet(r, c, s) = {a, b, d}
    BY <1>3 DEF MergeSet, S
  <2> QED
    BY <1>3, <2>5, <2>6 DEF S
<1> QED
  BY <1>2, <1>3

\* With fewer than three copies nothing merges.
LEMMA NoMerge ==
  ASSUME NEW r \in Rosters, NEW c, NEW s, Cardinality(CopiesAt(r, c, s)) <= 2
  PROVE  MergeOnce(r, c, s) = r
<1>1. Cardinality(CopiesAt(r, c, s)) \in Nat
  BY CopiesFinite
<1>2. MergeSet(r, c, s) = {}
  BY <1>1, MergeSetFact
<1> QED
  BY <1>2 DEF MergeOnce, Rosters

\* Three copies merge into one of the next level, on a cell where one of them stood;
\* every other place keeps its unit.
LEMMA Merge ==
  ASSUME NEW r \in Rosters, NEW c \in Champions, NEW s \in 1 .. 2,
         Cardinality(CopiesAt(r, c, s)) = 3
  PROVE  LET m == MergeOnce(r, c, s)  S == CopiesAt(r, c, s)  b == BestRanked(S)
         IN  /\ b \in S /\ b \in Cells
             /\ b \notin CopiesAt(r, c, s + 1)
             /\ CopiesAt(m, c, s) = {}
             /\ CopiesAt(m, c, s + 1) = CopiesAt(r, c, s + 1) \cup {b}
             /\ \A d \in Champions, t \in 1 .. 3 :
                  d # c \/ t \notin {s, s + 1} => CopiesAt(m, d, t) = CopiesAt(r, d, t)
             /\ \A x \in Places : m[x] = IF x = b THEN Unit(c, s + 1)
                                        ELSE IF x \in S THEN Empty ELSE r[x]
<1> DEFINE m == MergeOnce(r, c, s)
           S == CopiesAt(r, c, s)
           b == BestRanked(S)
<1>1. S \subseteq Places /\ IsFiniteSet(S)
  BY CopiesFinite
<1>2. MergeSet(r, c, s) = S
  BY MergeSetFact
<1>3. S # {} /\ S \ {Hand} # {}
  <2>1. S # {}
    BY <1>1, FS_EmptySet
  <2>2. Cardinality(S) = 3
    OBVIOUS
  <2> HIDE DEF S
  <2>3. IsFiniteSet(S \ {Hand}) /\ Cardinality(S \ {Hand}) \in {2, 3}
    BY <1>1, <2>2, FS_RemoveElement
  <2> QED
    BY <2>1, <2>3, FS_EmptySet
<1>4. b \in S
  BY <1>1, <1>3, BestRankedIn
<1>5. b \in Cells
  BY <1>1, <1>3, SurvivorIsOnACell
<1>6. \A x \in Places : m[x] = IF x = b THEN Unit(c, s + 1)
                               ELSE IF x \in S THEN Empty ELSE r[x]
  BY <1>1, <1>2, <1>4 DEF MergeOnce
<1>7. \A x \in Places : x \in S <=> r[x] = Unit(c, s)
  BY DEF CopiesAt
<1>8. \A d \in Champions, t \in 1 .. 3 : Unit(d, t) # Empty
  BY UnitFact
<1>9. s \in 1 .. 3 /\ s + 1 \in 1 .. 3 /\ s # s + 1
  OBVIOUS
<1>10. b \notin CopiesAt(r, c, s + 1)
  <2>1. r[b] = Unit(c, s)
    BY <1>1, <1>4, <1>7
  <2>2. r[b] # Unit(c, s + 1)
    BY <2>1, <1>9, UnitInjective
  <2> QED
    BY <2>2 DEF CopiesAt
<1>11. ASSUME NEW d \in Champions, NEW t \in 1 .. 3, d # c \/ t # s
       PROVE  \A x \in Places \ {b} : m[x] = Unit(d, t) <=> r[x] = Unit(d, t)
  <2>1. Unit(d, t) # Unit(c, s) /\ Unit(d, t) # Empty
    BY <1>8, <1>11, UnitInjective
  <2> QED
    BY <1>6, <1>7, <2>1
<1>12. CopiesAt(m, c, s) = {}
  <2>1. Unit(c, s + 1) # Unit(c, s) /\ Empty # Unit(c, s)
    BY <1>8, <1>9, UnitInjective
  <2>2. \A x \in Places : m[x] # Unit(c, s)
    BY <1>6, <1>7, <2>1
  <2> QED
    BY <2>2 DEF CopiesAt
<1>13. CopiesAt(m, c, s + 1) = CopiesAt(r, c, s + 1) \cup {b}
  <2>1. \A x \in Places \ {b} : m[x] = Unit(c, s + 1) <=> r[x] = Unit(c, s + 1)
    BY <1>9, <1>11
  <2>2. m[b] = Unit(c, s + 1) /\ b \in Places
    BY <1>1, <1>4, <1>6
  <2> QED
    BY <2>1, <2>2 DEF CopiesAt
<1>14. ASSUME NEW d \in Champions, NEW t \in 1 .. 3, d # c \/ t \notin {s, s + 1}
       PROVE  CopiesAt(m, d, t) = CopiesAt(r, d, t)
  <2>1. \A x \in Places \ {b} : m[x] = Unit(d, t) <=> r[x] = Unit(d, t)
    BY <1>11, <1>14
  <2>2. m[b] = Unit(c, s + 1) /\ r[b] = Unit(c, s) /\ b \in Places
    BY <1>1, <1>4, <1>6, <1>7
  <2>3. m[b] # Unit(d, t) /\ r[b] # Unit(d, t)
    BY <1>14, <2>2, UnitInjective
  <2> QED
    BY <2>1, <2>2, <2>3 DEF CopiesAt
<1> QED
  BY <1>4, <1>5, <1>6, <1>10, <1>12, <1>13, <1>14
-----------------------------------------------------------------------------
(* The layout between two operations.                                      *)

\* An empty place is no plant, and no unit of a champion outside Plants is one.
LEMMA NotAPlant ==
  /\ Empty.champ \notin Plants
  /\ \A c \in Champions \ Plants, s \in 1 .. 3 : Unit(c, s).champ \notin Plants
BY RosterAssumption DEF Empty, Unit

\* Add leaves at most two equal copies of every champion at the first two levels: the
\* placed copy can complete one triple, and the merged unit one more.
LEMMA AddNoLooseTriple ==
  ASSUME NEW r \in Rosters, NEW cap, NEW c \in Champions \ Plants,
         NothingUnplaced(r), NoLooseTriple(r)
  PROVE  NoLooseTriple(Add(r, cap, c))
<1> DEFINE p  == Placed(r, cap, c)
           m1 == MergeOnce(p, c, 1)
           m2 == MergeOnce(m1, c, 2)
           q  == FirstFree(r, cap)
           K(rr, d, t) == Cardinality(CopiesAt(rr, d, t))
<1>1. /\ p \in Rosters /\ m1 \in Rosters
      /\ \A rr, d, t : K(rr, d, t) \in Nat /\ IsFiniteSet(CopiesAt(rr, d, t))
      /\ \A d \in Champions \ Plants, t \in 1 .. 2 : K(r, d, t) <= 2
  BY PlacedType, MergeOnceType, CopiesFinite DEF NoLooseTriple, MaxStar
<1>2. /\ K(p, c, 1) = K(r, c, 1) + 1
      /\ \A d \in Champions, t \in 1 .. 3 : d # c \/ t # 1 => K(p, d, t) = K(r, d, t)
  <2>1. /\ q \notin CopiesAt(r, c, 1)
        /\ CopiesAt(p, c, 1) = CopiesAt(r, c, 1) \cup {q}
        /\ \A d \in Champions, t \in 1 .. 3 :
             d # c \/ t # 1 => CopiesAt(p, d, t) = CopiesAt(r, d, t)
    BY PlacedCopies
  <2>2. K(p, c, 1) = K(r, c, 1) + 1
    BY <1>1, <2>1, FS_AddElement
  <2> QED
    BY <2>1, <2>2
<1> HIDE DEF p
<1>3. /\ K(p, c, 1) <= 3 /\ K(p, c, 2) <= 2
      /\ \A d \in Champions \ Plants, t \in 1 .. 2 : d # c => K(p, d, t) <= 2
  <2>1. K(r, c, 1) <= 2 /\ K(r, c, 1) \in Nat /\ K(p, c, 2) <= 2
    BY <1>1, <1>2
  <2>2. \A d \in Champions \ Plants, t \in 1 .. 2 : d # c => K(p, d, t) <= 2
    BY <1>1, <1>2
  <2> QED
    BY <1>2, <2>1, <2>2
<1>4. /\ K(m1, c, 1) <= 2 /\ K(m1, c, 2) <= 3
      /\ \A d \in Champions \ Plants, t \in 1 .. 2 : d # c => K(m1, d, t) <= 2
  <2>1. CASE K(p, c, 1) # 3
    <3>1. K(p, c, 1) <= 2
      BY <1>1, <1>3, <2>1
    <3>2. m1 = p
      BY <1>1, <3>1, NoMerge
    <3> QED
      BY <1>1, <1>3, <3>1, <3>2
  <2>2. CASE K(p, c, 1) = 3
    <3> DEFINE b == BestRanked(CopiesAt(p, c, 1))
    <3>1. /\ b \notin CopiesAt(p, c, 2)
          /\ CopiesAt(m1, c, 1) = {}
          /\ CopiesAt(m1, c, 2) = CopiesAt(p, c, 2) \cup {b}
          /\ \A d \in Champions, t \in 1 .. 3 :
               d # c \/ t \notin {1, 2} => CopiesAt(m1, d, t) = CopiesAt(p, d, t)
      BY <1>1, <2>2, Merge
    <3>2. K(m1, c, 1) = 0
      BY <3>1, FS_EmptySet
    <3>3. K(m1, c, 2) = K(p, c, 2) + 1
      BY <1>1, <3>1, FS_AddElement
    <3>4. \A d \in Champions \ Plants, t \in 1 .. 2 : d # c => K(m1, d, t) = K(p, d, t)
      BY <3>1
    <3> QED
      BY <1>1, <1>3, <3>2, <3>3, <3>4
  <2> QED
    BY <2>1, <2>2
<1> HIDE DEF m1
<1>5. /\ K(m2, c, 1) <= 2 /\ K(m2, c, 2) <= 2
      /\ \A d \in Champions \ Plants, t \in 1 .. 2 : d # c => K(m2, d, t) <= 2
  <2>1. CASE K(m1, c, 2) # 3
    <3>1. K(m1, c, 2) <= 2
      BY <1>1, <1>4, <2>1
    <3>2. m2 = m1
      BY <1>1, <3>1, NoMerge
    <3> QED
      BY <1>4, <3>1, <3>2
  <2>2. CASE K(m1, c, 2) = 3
    <3>1. /\ CopiesAt(m2, c, 2) = {}
          /\ \A d \in Champions, t \in 1 .. 3 :
               d # c \/ t \notin {2, 3} => CopiesAt(m2, d, t) = CopiesAt(m1, d, t)
      BY <1>1, <2>2, Merge
    <3>2. K(m2, c, 2) = 0
      BY <3>1, FS_EmptySet
    <3>3. K(m2, c, 1) = K(m1, c, 1)
      BY <3>1
    <3>4. \A d \in Champions \ Plants, t \in 1 .. 2 : d # c => K(m2, d, t) = K(m1, d, t)
      BY <3>1
    <3> QED
      BY <1>4, <3>2, <3>3, <3>4
  <2> QED
    BY <2>1, <2>2
<1>6. Add(r, cap, c) = m2
  BY DEF Add, m1, p
<1> HIDE DEF m2
<1>7. ASSUME NEW d \in Champions \ Plants, NEW t \in 1 .. 2
      PROVE  K(m2, d, t) <= 2
  BY <1>5
<1> QED
  BY <1>6, <1>7 DEF NoLooseTriple, MaxStar

\* A merge keeps an empty hand empty, brings no plant and empties the hand when it
\* takes three copies.
LEMMA MergeOnceLeaves ==
  ASSUME NEW r \in Rosters, NEW c \in Champions \ Plants, NEW s \in 1 .. 2,
         Cardinality(CopiesAt(r, c, s)) <= 3
  PROVE  LET m == MergeOnce(r, c, s)
         IN  /\ PlantsOnBoard(r) => PlantsOnBoard(m)
             /\ r[Hand] = Empty \/ (Cardinality(CopiesAt(r, c, s)) = 3 /\ r[Hand] = Unit(c, s))
                  => m[Hand] = Empty
<1> DEFINE m == MergeOnce(r, c, s)
           S == CopiesAt(r, c, s)
           b == BestRanked(S)
<1>1. CASE Cardinality(S) # 3
  <2>1. Cardinality(S) <= 2
    BY <1>1, CopiesFinite
  <2>2. m = r
    BY <2>1, NoMerge
  <2> QED
    BY <1>1, <2>2
<1>2. CASE Cardinality(S) = 3
  <2>1. /\ b \in Cells
        /\ \A x \in Places : m[x] = IF x = b THEN Unit(c, s + 1)
                                    ELSE IF x \in S THEN Empty ELSE r[x]
    BY <1>2, Merge
  <2>2. b # Hand /\ Hand \in Places
    BY <2>1, PlacesFact
  <2>3. r[Hand] = Empty \/ r[Hand] = Unit(c, s) => m[Hand] = Empty
    <3>1. r[Hand] = Unit(c, s) => Hand \in S
      BY <2>2 DEF CopiesAt
    <3> QED
      BY <2>1, <2>2, <3>1
  <2>4. PlantsOnBoard(r) => PlantsOnBoard(m)
    <3>1. s + 1 \in 1 .. 3
      OBVIOUS
    <3>2. Unit(c, s + 1).champ \notin Plants /\ Empty.champ \notin Plants
      BY <3>1, NotAPlant
    <3> QED
      BY <2>1, <3>2 DEF PlantsOnBoard
  <2> QED
    BY <2>3, <2>4
<1> QED
  BY <1>1, <1>2

\* In the course of an Add no triple is larger than a triple.
LEMMA AddCounts ==
  ASSUME NEW r \in Rosters, NEW cap, NEW c \in Champions \ Plants,
         NothingUnplaced(r), NoLooseTriple(r)
  PROVE  LET p == Placed(r, cap, c)  m1 == MergeOnce(p, c, 1)
         IN  /\ p \in Rosters /\ m1 \in Rosters
             /\ Cardinality(CopiesAt(p, c, 1)) = Cardinality(CopiesAt(r, c, 1)) + 1
             /\ Cardinality(CopiesAt(r, c, 1)) \in 0 .. 2
             /\ Cardinality(CopiesAt(p, c, 1)) <= 3
             /\ Cardinality(CopiesAt(m1, c, 2)) <= 3
<1> DEFINE p  == Placed(r, cap, c)
           m1 == MergeOnce(p, c, 1)
           K(rr, t) == Cardinality(CopiesAt(rr, c, t))
<1>1. p \in Rosters /\ m1 \in Rosters
  BY PlacedType, MergeOnceType
<1>2. /\ FirstFree(r, cap) \notin CopiesAt(r, c, 1)
      /\ CopiesAt(p, c, 1) = CopiesAt(r, c, 1) \cup {FirstFree(r, cap)}
      /\ CopiesAt(p, c, 2) = CopiesAt(r, c, 2)
  BY PlacedCopies
<1>3. K(r, 1) \in 0 .. 2 /\ K(r, 2) \in 0 .. 2
  BY CopiesFinite DEF NoLooseTriple, MaxStar
<1>4. K(p, 1) = K(r, 1) + 1 /\ K(p, 2) = K(r, 2)
  BY <1>2, CopiesFinite, FS_AddElement
<1>5. K(m1, 2) <= 3
  <2>1. CASE K(p, 1) # 3
    <3>1. K(p, 1) <= 2
      BY <1>3, <1>4, <2>1
    <3>2. m1 = p
      BY <1>1, <3>1, NoMerge
    <3> QED
      BY <1>3, <1>4, <3>2
  <2>2. CASE K(p, 1) = 3
    <3>1. /\ BestRanked(CopiesAt(p, c, 1)) \notin CopiesAt(p, c, 2)
          /\ CopiesAt(m1, c, 2) = CopiesAt(p, c, 2) \cup {BestRanked(CopiesAt(p, c, 1))}
      BY <1>1, <2>2, Merge
    <3>2. K(m1, 2) = K(p, 2) + 1
      BY <3>1, CopiesFinite, FS_AddElement
    <3> QED
      BY <1>3, <1>4, <3>2
  <2> QED
    BY <2>1, <2>2
<1> QED
  BY <1>1, <1>3, <1>4, <1>5

\* UnitRoster::Add keeps the layout whenever CanAdd allowed it.
THEOREM AddLayout ==
  ASSUME NEW r \in Rosters, NEW cap, NEW c \in Champions \ Plants,
         CanAdd(r, cap, c), CheckInvariants(r)
  PROVE  CheckInvariants(Add(r, cap, c))
<1> DEFINE p  == Placed(r, cap, c)
           m1 == MergeOnce(p, c, 1)
           m2 == MergeOnce(m1, c, 2)
           q  == FirstFree(r, cap)
           K(rr, t) == Cardinality(CopiesAt(rr, c, t))
<1>1. NothingUnplaced(r) /\ NoLooseTriple(r) /\ PlantsOnBoard(r)
  BY DEF CheckInvariants
<1>2. NoLooseTriple(Add(r, cap, c))
  BY <1>1, AddNoLooseTriple
<1>3. /\ p \in Rosters /\ m1 \in Rosters
      /\ K(p, 1) = K(r, 1) + 1 /\ K(r, 1) \in 0 .. 2
      /\ K(p, 1) <= 3 /\ K(m1, 2) <= 3
  BY <1>1, AddCounts
<1>4. q \in Places /\ \A x \in Places : p[x] = IF x = q THEN Unit(c, 1) ELSE r[x]
  BY <1>1, PlacedCopies
<1>5. PlantsOnBoard(p)
  <2>1. Unit(c, 1).champ \notin Plants
    BY NotAPlant
  <2> QED
    BY <1>1, <1>4, <2>1 DEF PlantsOnBoard
<1>6. p[Hand] = Empty \/ (K(p, 1) = 3 /\ p[Hand] = Unit(c, 1))
  <2>1. CASE q # Hand
    BY <1>1, <1>4, <2>1, PlacesFact DEF NothingUnplaced
  <2>2. CASE q = Hand
    <3>1. K(r, 1) >= 2
      BY <2>2, FirstFreeFact DEF CanAdd
    <3>2. K(p, 1) = 3
      BY <1>3, <3>1
    <3> QED
      BY <1>4, <2>2, <3>2
  <2> QED
    BY <2>1, <2>2
<1> HIDE DEF p
<1>7. PlantsOnBoard(m1) /\ m1[Hand] = Empty
  BY <1>3, <1>5, <1>6, MergeOnceLeaves
<1> HIDE DEF m1
<1>8. PlantsOnBoard(m2) /\ m2[Hand] = Empty
  BY <1>3, <1>7, MergeOnceLeaves
<1>9. Add(r, cap, c) = m2
  BY DEF Add, p, m1
<1> QED
  BY <1>2, <1>8, <1>9 DEF CheckInvariants, NothingUnplaced

\* A swap of two places does not change how many copies there are.
LEMMA MovedCopies ==
  ASSUME NEW r \in Rosters, NEW x \in Places, NEW y \in Places, NEW c, NEW s
  PROVE  Cardinality(CopiesAt(Moved(r, x, y), c, s)) <= Cardinality(CopiesAt(r, c, s))
<1> DEFINE m == Moved(r, x, y)
           S == CopiesAt(r, c, s)
           T == CopiesAt(m, c, s)
           f == [z \in T |-> IF z = x THEN y ELSE IF z = y THEN x ELSE z]
<1>1. \A z \in Places : m[z] = IF z = x THEN r[y] ELSE IF z = y THEN r[x] ELSE r[z]
  BY DEF Moved, Rosters
<1>2. \A z \in T : z \in Places /\ m[z] = Unit(c, s)
  BY DEF CopiesAt
<1>3. \A z \in T : f[z] \in Places /\ r[f[z]] = Unit(c, s)
  BY <1>1, <1>2
<1>4. \A z \in T : f[z] \in S
  BY <1>3 DEF CopiesAt
<1>5. f \in [T -> S]
  BY <1>4
<1>6. \A z, w \in T : f[z] = f[w] => z = w
  OBVIOUS
<1>7. f \in Injection(T, S)
  BY <1>5, <1>6 DEF Injection, IsInjective
<1>8. IsFiniteSet(S)
  BY CopiesFinite
<1> HIDE DEF f, S, T
<1>9. Cardinality(T) <= Cardinality(S)
  BY <1>7, <1>8, FS_Injection
<1> QED
  BY <1>9 DEF S, T

\* UnitRoster::Move keeps the layout: swaps bring no copies, and the plant rule keeps
\* plants on the board.
THEOREM MovedLayout ==
  ASSUME NEW r \in Rosters, NEW cap, NEW x \in Cells, NEW y \in Cells,
         CanMove(r, cap, x, y), CheckInvariants(r)
  PROVE  CheckInvariants(Moved(r, x, y))
<1> DEFINE m == Moved(r, x, y)
<1>1. x \in Places /\ y \in Places /\ x # Hand /\ y # Hand
  BY PlacesFact
<1>2. \A z \in Places : m[z] = IF z = x THEN r[y] ELSE IF z = y THEN r[x] ELSE r[z]
  BY <1>1 DEF Moved, Rosters
<1>3. NothingUnplaced(m)
  BY <1>1, <1>2, PlacesFact DEF CheckInvariants, NothingUnplaced
<1>4. ASSUME NEW c \in Champions \ Plants, NEW s \in 1 .. MaxStar - 1
      PROVE  Cardinality(CopiesAt(m, c, s)) <= 2
  <2>1. Cardinality(CopiesAt(r, c, s)) <= 2 /\ Cardinality(CopiesAt(r, c, s)) \in Nat
    BY CopiesFinite DEF CheckInvariants, NoLooseTriple
  <2>2. Cardinality(CopiesAt(m, c, s)) <= Cardinality(CopiesAt(r, c, s))
    BY <1>1, MovedCopies
  <2>3. Cardinality(CopiesAt(m, c, s)) \in Nat
    BY CopiesFinite
  <2> QED
    BY <2>1, <2>2, <2>3
<1>5. PlantsOnBoard(m)
  BY <1>1, <1>2 DEF CanMove, CheckInvariants, PlantsOnBoard
<1> QED
  BY <1>3, <1>4, <1>5 DEF CheckInvariants, NoLooseTriple

\* Taking away copies keeps every level at two at most.
LEMMA FewerCopies ==
  ASSUME NEW r \in Rosters, NEW m, NoLooseTriple(r),
         \A c \in Champions \ Plants, s \in 1 .. MaxStar - 1 :
           CopiesAt(m, c, s) \subseteq CopiesAt(r, c, s)
  PROVE  NoLooseTriple(m)
<1>1. ASSUME NEW c \in Champions \ Plants, NEW s \in 1 .. MaxStar - 1
      PROVE  Cardinality(CopiesAt(m, c, s)) <= 2
  <2>1. IsFiniteSet(CopiesAt(r, c, s)) /\ Cardinality(CopiesAt(r, c, s)) <= 2
        /\ Cardinality(CopiesAt(r, c, s)) \in Nat
    BY CopiesFinite DEF NoLooseTriple
  <2>2. CopiesAt(m, c, s) \subseteq CopiesAt(r, c, s)
    OBVIOUS
  <2>3. Cardinality(CopiesAt(m, c, s)) <= Cardinality(CopiesAt(r, c, s))
    BY <2>1, <2>2, FS_Subset
  <2>4. Cardinality(CopiesAt(m, c, s)) \in Nat
    BY CopiesFinite
  <2> QED
    BY <2>1, <2>3, <2>4
<1> QED
  BY <1>1 DEF NoLooseTriple

\* Emptying places, or putting plants on hexes, keeps the layout (UnitRoster::Remove
\* and AddPlaced, alone or several at once).
THEOREM ReplacedLayout ==
  ASSUME NEW r \in Rosters, NEW m \in Rosters, CheckInvariants(r),
         \A x \in Places :
           \/ m[x] = r[x] \/ m[x] = Empty
           \/ x \in Board /\ \E c \in Plants, s \in 1 .. 3 : m[x] = Unit(c, s)
  PROVE  CheckInvariants(m)
<1>1. Hand \in Places /\ Hand \notin Board
  BY PlacesFact
<1>2. NothingUnplaced(m)
  BY <1>1 DEF CheckInvariants, NothingUnplaced
<1>3. ASSUME NEW c \in Champions \ Plants, NEW s \in 1 .. MaxStar - 1
      PROVE  CopiesAt(m, c, s) \subseteq CopiesAt(r, c, s)
  <2>1. s \in 1 .. 3
    BY DEF MaxStar
  <2>2. Unit(c, s) # Empty /\ \A d \in Plants, t \in 1 .. 3 : Unit(d, t) # Unit(c, s)
    BY <2>1, UnitFact, UnitInjective
  <2> QED
    BY <2>2 DEF CopiesAt
<1>4. NoLooseTriple(m)
  BY <1>3, FewerCopies DEF CheckInvariants
<1>5. PlantsOnBoard(m)
  BY NotAPlant DEF CheckInvariants, PlantsOnBoard
<1> QED
  BY <1>2, <1>4, <1>5 DEF CheckInvariants
-----------------------------------------------------------------------------
(* How many pool copies a roster stands for.                               *)

CellWorth(u, c) == IF u.champ = c THEN CopiesForStarLevel(u.star) ELSE 0

WorthTokens(r, c) ==
  {t \in Places \X (1 .. 9) : r[t[1]].champ = c /\ t[2] <= CopiesForStarLevel(r[t[1]].star)}

\* A cell stands for at most nine copies.
LEMMA CellWorthType ==
  ASSUME NEW u \in Units \cup {Empty}, NEW c
  PROVE  CellWorth(u, c) \in 0 .. 9 /\ CopiesForStarLevel(u.star) \in 0 .. 9
BY DEF CellWorth, CopiesForStarLevel, Units, Empty, Unit, MaxStar

\* A roster is worth a number of copies.
LEMMA WorthType ==
  ASSUME NEW r, NEW c
  PROVE  /\ Worth(r, c) = Cardinality(WorthTokens(r, c))
         /\ IsFiniteSet(WorthTokens(r, c))
         /\ Worth(r, c) \in Nat
<1>0. 1 \in Int /\ 9 \in Int
  OBVIOUS
<1>1. IsFiniteSet(1 .. 9)
  BY <1>0, FS_Interval
<1>2. IsFiniteSet(Places \X (1 .. 9))
  BY <1>1, PlacesFact, FS_Product
<1>3. IsFiniteSet(WorthTokens(r, c))
  BY <1>2, FS_Subset DEF WorthTokens
<1> QED
  BY <1>3, FS_CardinalityType DEF Worth, WorthTokens

\* The tokens of one place number what its unit is worth.
LEMMA CellTokens ==
  ASSUME NEW x, NEW n \in 0 .. 9
  PROVE  IsFiniteSet({x} \X (1 .. n)) /\ Cardinality({x} \X (1 .. n)) = n
<1>1. IsFiniteSet({x}) /\ Cardinality({x}) = 1
  BY FS_Singleton
<1>2. IsFiniteSet(1 .. n) /\ Cardinality(1 .. n) = n
  <2>1. 1 \in Int /\ n \in Int /\ (IF 1 > n THEN 0 ELSE n - 1 + 1) = n
    OBVIOUS
  <2> QED
    BY <2>1, FS_Interval
<1>3. /\ IsFiniteSet({x} \X (1 .. n))
      /\ Cardinality({x} \X (1 .. n)) = Cardinality({x}) * Cardinality(1 .. n)
  BY <1>1, <1>2, FS_Product
<1> QED
  BY <1>1, <1>2, <1>3

\* Changing what stands on one place changes the worth by the worth of that place.
LEMMA CellChange ==
  ASSUME NEW r \in Rosters, NEW m \in Rosters, NEW x \in Places, NEW c,
         \A y \in Places \ {x} : m[y] = r[y]
  PROVE  Worth(m, c) = Worth(r, c) - CellWorth(r[x], c) + CellWorth(m[x], c)
<1> DEFINE A == WorthTokens(r, c)
           B == WorthTokens(m, c)
           a == {x} \X (1 .. CellWorth(r[x], c))
           b == {x} \X (1 .. CellWorth(m[x], c))
           O == {t \in A : t[1] # x}
<1>1. r[x] \in Units \cup {Empty} /\ m[x] \in Units \cup {Empty}
  BY DEF Rosters
<1>2. CellWorth(r[x], c) \in 0 .. 9 /\ CellWorth(m[x], c) \in 0 .. 9
  BY <1>1, CellWorthType
<1>3. A = O \cup a /\ O \cap a = {}
  <2>1. \A t \in Places \X (1 .. 9) : t[1] = x => (t \in A <=> t \in a)
    BY <1>1, <1>2, CellWorthType DEF WorthTokens, CellWorth
  <2>2. a \subseteq Places \X (1 .. 9) /\ A \subseteq Places \X (1 .. 9)
    BY <1>2 DEF WorthTokens
  <2>3. \A t \in a : t[1] = x
    OBVIOUS
  <2> QED
    BY <2>1, <2>2, <2>3
<1>4. B = O \cup b /\ O \cap b = {}
  <2>1. \A t \in Places \X (1 .. 9) : t[1] = x => (t \in B <=> t \in b)
    BY <1>1, <1>2, CellWorthType DEF WorthTokens, CellWorth
  <2>2. \A t \in Places \X (1 .. 9) : t[1] # x => (t \in B <=> t \in A)
    BY DEF WorthTokens
  <2>3. b \subseteq Places \X (1 .. 9) /\ A \subseteq Places \X (1 .. 9)
        /\ B \subseteq Places \X (1 .. 9)
    BY <1>2 DEF WorthTokens
  <2>4. \A t \in b : t[1] = x
    OBVIOUS
  <2> QED
    BY <2>1, <2>2, <2>3, <2>4
<1>5. IsFiniteSet(O) /\ Cardinality(O) \in Nat
  BY WorthType, FS_Subset, FS_CardinalityType
<1>6. /\ IsFiniteSet(a) /\ Cardinality(a) = CellWorth(r[x], c)
      /\ IsFiniteSet(b) /\ Cardinality(b) = CellWorth(m[x], c)
  BY <1>2, CellTokens
<1>7. Worth(r, c) = Cardinality(A) /\ Worth(m, c) = Cardinality(B)
  BY WorthType
<1> HIDE DEF A, B, a, b, O
<1>8. Cardinality(A) = Cardinality(O) + Cardinality(a) - 0
  BY <1>3, <1>5, <1>6, FS_Union, FS_EmptySet
<1>9. Cardinality(B) = Cardinality(O) + Cardinality(b) - 0
  BY <1>4, <1>5, <1>6, FS_Union, FS_EmptySet
<1> QED
  BY <1>2, <1>5, <1>6, <1>7, <1>8, <1>9

\* A merge keeps the worth: three copies of a level make one of the next.
LEMMA MergeWorth ==
  ASSUME NEW r \in Rosters, NEW c \in Champions, NEW s \in 1 .. 2,
         Cardinality(CopiesAt(r, c, s)) <= 3, NEW d
  PROVE  Worth(MergeOnce(r, c, s), d) = Worth(r, d)
<1> DEFINE S == CopiesAt(r, c, s)
           m == MergeOnce(r, c, s)
           b == BestRanked(S)
<1>1. S \subseteq Places /\ IsFiniteSet(S) /\ Cardinality(S) \in Nat
  BY CopiesFinite
<1>2. CASE Cardinality(S) # 3
  <2>1. Cardinality(S) <= 2
    BY <1>1, <1>2
  <2> QED
    BY <2>1, NoMerge
<1>3. CASE Cardinality(S) = 3
  <2>1. /\ b \in S
        /\ \A x \in Places : m[x] = IF x = b THEN Unit(c, s + 1)
                                   ELSE IF x \in S THEN Empty ELSE r[x]
    BY <1>3, Merge
  <2>2. \A x \in S : r[x] = Unit(c, s)
    BY DEF CopiesAt
  <2>3. m \in Rosters
    BY MergeOnceType
  <2> HIDE DEF S, m, b
  <2>4. PICK y \in S \ {b} : TRUE
    <3>1. Cardinality(S \ {b}) = 3 - 1 /\ IsFiniteSet(S \ {b})
      BY <1>1, <1>3, <2>1, FS_RemoveElement
    <3> QED
      BY <3>1, FS_EmptySet
  <2>5. PICK z \in S \ {b, y} : S = {b, y, z}
    <3>1. Cardinality(S \ {b}) = 3 - 1 /\ IsFiniteSet(S \ {b})
      BY <1>1, <1>3, <2>1, FS_RemoveElement
    <3> DEFINE R == S \ {b}
    <3>2. y \in R /\ Cardinality(R) = 2 /\ IsFiniteSet(R) /\ S = R \cup {b}
      BY <2>1, <2>4, <3>1
    <3> HIDE DEF R
    <3>3. Cardinality(R \ {y}) = 1 /\ IsFiniteSet(R \ {y})
      BY <3>2, FS_RemoveElement
    <3> DEFINE Q == R \ {y}
    <3> HIDE DEF Q
    <3>4. \E z : Q = {z}
      BY <3>3, FS_Singleton DEF Q
    <3> QED
      BY <2>1, <2>4, <3>2, <3>4 DEF Q, R
  <2> DEFINE r1 == [r EXCEPT ![b] = Unit(c, s + 1)]
             r2 == [r1 EXCEPT ![y] = Empty]
  <2>6. b \in Places /\ y \in Places /\ z \in Places /\ b # y /\ b # z /\ y # z
    BY <1>1, <2>1, <2>4, <2>5
  <2>7. Unit(c, s + 1) \in Units
    BY UnitFact
  <2>8. r1 \in Rosters /\ r2 \in Rosters
    BY <2>6, <2>7 DEF Rosters
  <2>9. /\ \A x \in Places \ {b} : r1[x] = r[x]
        /\ r1[b] = Unit(c, s + 1)
    BY <2>6 DEF Rosters
  <2>10. /\ \A x \in Places \ {y} : r2[x] = r1[x]
         /\ r2[y] = Empty
    BY <2>6, <2>8 DEF Rosters
  <2> HIDE DEF r1, r2
  <2>11. \A x \in Places \ {z} : m[x] = r2[x]
    BY <2>1, <2>5, <2>6, <2>9, <2>10
  <2>12. m[z] = Empty /\ r[b] = Unit(c, s) /\ r1[y] = Unit(c, s) /\ r2[z] = Unit(c, s)
    BY <2>1, <2>2, <2>5, <2>6, <2>9, <2>10
  <2>13. Worth(r1, d) = Worth(r, d) - CellWorth(r[b], d) + CellWorth(r1[b], d)
    BY <2>6, <2>8, <2>9, CellChange
  <2>14. Worth(r2, d) = Worth(r1, d) - CellWorth(r1[y], d) + CellWorth(r2[y], d)
    BY <2>6, <2>8, <2>10, CellChange
  <2>15. Worth(m, d) = Worth(r2, d) - CellWorth(r2[z], d) + CellWorth(m[z], d)
    BY <2>3, <2>6, <2>8, <2>11, CellChange
  <2>16. /\ CellWorth(Empty, d) = 0
         /\ CellWorth(Unit(c, s + 1), d) = 3 * CellWorth(Unit(c, s), d)
         /\ CellWorth(Unit(c, s), d) \in Nat
    BY DEF CellWorth, CopiesForStarLevel, Unit, Empty
  <2>17. Worth(r, d) \in Nat /\ Worth(r1, d) \in Nat /\ Worth(r2, d) \in Nat
    BY WorthType
  <2>18. Worth(m, d) = Worth(r, d)
    BY <2>9, <2>10, <2>12, <2>13, <2>14, <2>15, <2>16, <2>17
  <2> QED
    BY <2>18 DEF m
<1> QED
  BY <1>2, <1>3

\* UnitRoster::Add is worth exactly one copy, however many merges follow.
THEOREM AddWorth ==
  ASSUME NEW r \in Rosters, NEW cap, NEW c \in Champions \ Plants,
         NothingUnplaced(r), NoLooseTriple(r), NEW d
  PROVE  Worth(Add(r, cap, c), d) = Worth(r, d) + (IF d = c THEN 1 ELSE 0)
<1> DEFINE p  == Placed(r, cap, c)
           m1 == MergeOnce(p, c, 1)
           m2 == MergeOnce(m1, c, 2)
           q  == FirstFree(r, cap)
<1>1. /\ p \in Rosters /\ m1 \in Rosters
      /\ Cardinality(CopiesAt(p, c, 1)) <= 3 /\ Cardinality(CopiesAt(m1, c, 2)) <= 3
  BY AddCounts
<1>2. q \in Places /\ r[q] = Empty
  BY FirstFreeFact DEF NothingUnplaced
<1>3. \A x \in Places : p[x] = IF x = q THEN Unit(c, 1) ELSE r[x]
  BY <1>2 DEF Placed, Rosters
<1>4. Worth(p, d) = Worth(r, d) - CellWorth(r[q], d) + CellWorth(p[q], d)
  <2>1. \A x \in Places \ {q} : p[x] = r[x]
    BY <1>3
  <2> HIDE DEF p, q
  <2> QED
    BY <1>1, <1>2, <2>1, CellChange
<1>5. CellWorth(r[q], d) = 0 /\ CellWorth(p[q], d) = IF d = c THEN 1 ELSE 0
  <2>1. r[q] = Empty /\ p[q] = Unit(c, 1)
    BY <1>2, <1>3
  <2> HIDE DEF p, q
  <2> QED
    BY <2>1 DEF CellWorth, CopiesForStarLevel, Unit, Empty
<1>6. Worth(r, d) \in Nat
  BY WorthType
<1> HIDE DEF p
<1>7. Worth(p, d) = Worth(r, d) + (IF d = c THEN 1 ELSE 0)
  BY <1>4, <1>5, <1>6
<1>8. Worth(m1, d) = Worth(p, d)
  BY <1>1, MergeWorth
<1> HIDE DEF m1
<1>9. Worth(m2, d) = Worth(m1, d)
  BY <1>1, MergeWorth
<1>10. Add(r, cap, c) = m2
  BY DEF Add, p, m1
<1> QED
  BY <1>7, <1>8, <1>9, <1>10

\* UnitRoster::Move keeps the worth.
LEMMA MovedWorth ==
  ASSUME NEW r \in Rosters, NEW x \in Places, NEW y \in Places, x # y, NEW d
  PROVE  Worth(Moved(r, x, y), d) = Worth(r, d)
<1> DEFINE r1 == [r EXCEPT ![x] = r[y]]
           m  == Moved(r, x, y)
<1>1. r1 \in Rosters /\ m \in Rosters
  BY MovedType DEF Rosters
<1>2. /\ \A z \in Places \ {x} : r1[z] = r[z]
      /\ r1[x] = r[y]
  BY DEF Rosters
<1>3. /\ \A z \in Places \ {y} : m[z] = r1[z]
      /\ m[y] = r[x]
  BY DEF Moved, Rosters
<1> HIDE DEF r1, m
<1>4. Worth(r1, d) = Worth(r, d) - CellWorth(r[x], d) + CellWorth(r1[x], d)
  BY <1>1, <1>2, CellChange
<1>5. Worth(m, d) = Worth(r1, d) - CellWorth(r1[y], d) + CellWorth(m[y], d)
  BY <1>1, <1>3, CellChange
<1>6. r1[y] = r[y]
  BY <1>2
<1>7. r[x] \in Units \cup {Empty} /\ r[y] \in Units \cup {Empty}
  BY DEF Rosters
<1>8. CellWorth(r[x], d) \in 0 .. 9 /\ CellWorth(r[y], d) \in 0 .. 9
  BY <1>7, CellWorthType
<1>9. Worth(r, d) \in Nat /\ Worth(r1, d) \in Nat /\ Worth(m, d) \in Nat
  BY WorthType
<1>10. Worth(m, d) = Worth(r, d)
  BY <1>2, <1>3, <1>4, <1>5, <1>6, <1>8, <1>9
<1> QED
  BY <1>10 DEF m

-----------------------------------------------------------------------------
(* What a merge does to the board.                                         *)

\* BenchOnlyPurchaseFits is enough: what it lets through touches no hex.
LEMMA BenchOnlyTouchesNoHex ==
  ASSUME NEW r \in Rosters, NEW cap, NEW c, BenchOnlyPurchaseFits(r, cap, c),
         NEW x \in Board
  PROVE  Add(r, cap, c)[x] = r[x]
<1> DEFINE p  == Placed(r, cap, c)
           m1 == MergeOnce(p, c, 1)
<1>1. x \in Places /\ x # FirstFree(r, cap)
  BY PlacesFact DEF BenchOnlyPurchaseFits
<1>2. p[x] = r[x]
  BY <1>1 DEF Placed, Rosters
<1>3. x \notin MergeSet(p, c, 1) /\ x \notin MergeSet(m1, c, 2)
  BY DEF BenchOnlyPurchaseFits
<1> HIDE DEF p
<1>4. m1[x] = p[x]
  BY <1>1, <1>3 DEF MergeOnce
<1> HIDE DEF m1
<1>5. MergeOnce(m1, c, 2)[x] = m1[x]
  BY <1>1, <1>3 DEF MergeOnce
<1> QED
  BY <1>2, <1>4, <1>5 DEF Add, m1, p

OnBoard(r, d) == \E x \in Board : r[x].champ = d

\* A merge that takes a fielded copy leaves the merged unit on the board.
LEMMA MergeKeepsOnBoard ==
  ASSUME NEW r \in Rosters, NEW c \in Champions, NEW s \in 1 .. 2,
         Cardinality(CopiesAt(r, c, s)) <= 3, NEW d, OnBoard(r, d), d # NoChampion
  PROVE  OnBoard(MergeOnce(r, c, s), d)
<1> DEFINE S == CopiesAt(r, c, s)
           m == MergeOnce(r, c, s)
           b == BestRanked(S)
<1>1. PICK x \in Board : r[x].champ = d
  BY DEF OnBoard
<1>2. CASE Cardinality(S) # 3
  <2>1. Cardinality(S) <= 2
    BY <1>2, CopiesFinite
  <2> QED
    BY <2>1, NoMerge
<1>3. CASE Cardinality(S) = 3
  <2>1. /\ b \in S /\ b \in Cells
        /\ \A y \in Places : m[y] = IF y = b THEN Unit(c, s + 1)
                                   ELSE IF y \in S THEN Empty ELSE r[y]
    BY <1>3, Merge
  <2>2. S \subseteq Places /\ x \in Places
    BY CopiesFinite, PlacesFact
  <2>3. CASE x \notin S
    BY <1>1, <2>1, <2>2, <2>3 DEF OnBoard
  <2>4. CASE x \in S
    <3>1. MergeRank(b) <= MergeRank(x)
      BY <2>2, <2>4, BestRankedIn
    <3>2. b \in Board
      BY <2>1, <3>1, RosterAssumption DEF MergeRank, Cells, Bench, Board
    <3>3. r[x] = Unit(c, s)
      BY <2>4 DEF CopiesAt
    <3>4. d = c
      BY <1>1, <3>3 DEF Unit
    <3>5. m[b] = Unit(c, s + 1)
      BY <2>1, <2>2
    <3>6. m[b].champ = c
      BY <3>5 DEF Unit
    <3> QED
      BY <3>2, <3>4, <3>6 DEF OnBoard
  <2> QED
    BY <2>3, <2>4
<1> QED
  BY <1>2, <1>3

\* Add never takes a champion's last copy off the board.
THEOREM AddKeepsOnBoard ==
  ASSUME NEW r \in Rosters, NEW cap, NEW c \in Champions \ Plants,
         NothingUnplaced(r), NoLooseTriple(r),
         NEW d \in Champions, OnBoard(r, d)
  PROVE  OnBoard(Add(r, cap, c), d)
<1> DEFINE p  == Placed(r, cap, c)
           m1 == MergeOnce(p, c, 1)
           q  == FirstFree(r, cap)
<1>1. /\ p \in Rosters /\ m1 \in Rosters
      /\ Cardinality(CopiesAt(p, c, 1)) <= 3 /\ Cardinality(CopiesAt(m1, c, 2)) <= 3
  BY AddCounts
<1>2. PICK x \in Board : r[x].champ = d
  BY DEF OnBoard
<1>3. q \in Places /\ r[q] = Empty /\ x \in Places
  BY FirstFreeFact, PlacesFact DEF NothingUnplaced
<1>4. d # NoChampion
  BY RosterAssumption
<1>5. x # q
  BY <1>2, <1>3, <1>4 DEF Empty, Unit
<1>6. p[x] = r[x]
  BY <1>3, <1>5 DEF Placed, Rosters
<1>7. OnBoard(p, d)
  BY <1>2, <1>6 DEF OnBoard
<1> HIDE DEF p
<1>8. OnBoard(m1, d)
  BY <1>1, <1>4, <1>7, MergeKeepsOnBoard
<1> HIDE DEF m1
<1>9. OnBoard(MergeOnce(m1, c, 2), d)
  BY <1>1, <1>4, <1>8, MergeKeepsOnBoard
<1> QED
  BY <1>9 DEF Add, m1, p
-----------------------------------------------------------------------------
(* How many units the board may hold.  A unit is added to it only while    *)
(* fewer slots are in use than the capacity, and every unit but a plant    *)
(* takes at least one.                                                     *)

Fighters(r) == {x \in Board : r[x] # Empty /\ r[x].champ \notin Plants}

BoardSlots(r) == {t \in Board \X (1 .. 2) : r[t[1]] # Empty /\ t[2] <= TeamSlots[r[t[1]].champ]}

LEMMA FightersFinite ==
  ASSUME NEW r
  PROVE  /\ IsFiniteSet(Fighters(r)) /\ Cardinality(Fighters(r)) \in Nat
         /\ IsFiniteSet(BoardSlots(r)) /\ BoardCount(r) \in Nat
         /\ BoardCount(r) = Cardinality(BoardSlots(r))
<1>1. IsFiniteSet(Board) /\ IsFiniteSet(1 .. 2)
  <2>1. 1 \in Int /\ 2 \in Int
    OBVIOUS
  <2> QED
    BY <2>1, PlacesFact, FS_Subset, FS_Interval
<1>2. IsFiniteSet(Board \X (1 .. 2))
  BY <1>1, FS_Product
<1>3. IsFiniteSet(Fighters(r))
  BY <1>1, FS_Subset DEF Fighters
<1>4. IsFiniteSet(BoardSlots(r))
  BY <1>2, FS_Subset DEF BoardSlots
<1>5. BoardCount(r) = Cardinality(BoardSlots(r))
  BY DEF BoardCount, BoardSlots
<1> QED
  BY <1>3, <1>4, <1>5, FS_CardinalityType

\* A set within another counts no more.
LEMMA NoMore ==
  ASSUME NEW r, NEW m, Fighters(m) \subseteq Fighters(r)
  PROVE  Cardinality(Fighters(m)) <= Cardinality(Fighters(r))
BY FightersFinite, FS_Subset

\* Every unit but a plant takes a slot.
LEMMA FightersTakeSlots ==
  ASSUME NEW r \in Rosters
  PROVE  Cardinality(Fighters(r)) <= BoardCount(r)
<1> DEFINE f == [x \in Fighters(r) |-> <<x, 1>>]
<1>1. ASSUME NEW x \in Fighters(r)
      PROVE  f[x] \in BoardSlots(r)
  <2>1. x \in Board /\ r[x] \in Units /\ r[x].champ \notin Plants /\ r[x] # Empty
    BY PlacesFact DEF Fighters, Rosters
  <2>2. TeamSlots[r[x].champ] \in 0 .. 2 /\ TeamSlots[r[x].champ] # 0
    BY <2>1, RosterAssumption DEF Units
  <2> QED
    BY <2>1, <2>2 DEF BoardSlots
<1>2. f \in Injection(Fighters(r), BoardSlots(r))
  BY <1>1 DEF Injection, IsInjective
<1> QED
  BY <1>2, FightersFinite, FS_Injection

\* A copy is put on a hex only while fewer slots are in use than the level allows.
LEMMA PlacedFits ==
  ASSUME NEW r \in Rosters, NEW cap \in Nat, NEW c, Cardinality(Fighters(r)) <= cap
  PROVE  Cardinality(Fighters(Placed(r, cap, c))) <= cap
<1> DEFINE q == FirstFree(r, cap)
           m == Placed(r, cap, c)
<1>1. \A x \in Places : x # q => m[x] = r[x]
  BY DEF Placed, Rosters
<1>2. Fighters(m) \subseteq Fighters(r) \cup ({q} \cap Board)
  BY <1>1, PlacesFact DEF Fighters
<1>3. CASE q \notin Board
  BY <1>2, <1>3, NoMore, FightersFinite
<1>4. CASE q \in Board
  <2>1. BoardCount(r) < cap
    <3>1. FreeIn(r, Bench) # {} => Lowest(FreeIn(r, Bench)) \in Bench
      BY LowestIn, PlacesFact DEF FreeIn
    <3> QED
      BY <1>4, <3>1, PlacesFact DEF FirstFree
  <2>2. Cardinality(Fighters(r)) < cap
    BY <2>1, FightersTakeSlots, FightersFinite
  <2>3. IsFiniteSet(Fighters(r) \cup {q}) /\ Cardinality(Fighters(r) \cup {q}) <= Cardinality(Fighters(r)) + 1
    <3> DEFINE F == Fighters(r)
    <3>1. IsFiniteSet(F) /\ Cardinality(F) \in Nat
      BY FightersFinite
    <3> HIDE DEF F, q, m
    <3>2. /\ IsFiniteSet(F \cup {q})
          /\ Cardinality(F \cup {q}) = IF q \in F THEN Cardinality(F) ELSE Cardinality(F) + 1
      BY ONLY <3>1, FS_AddElement
    <3>3. IsFiniteSet(F \cup {q}) /\ Cardinality(F \cup {q}) <= Cardinality(F) + 1
      BY ONLY <3>1, <3>2
    <3> QED
      BY <3>3 DEF F
  <2>4. Cardinality(Fighters(m)) <= Cardinality(Fighters(r) \cup {q})
    BY <1>2, <2>3, FS_Subset
  <2>5. Cardinality(Fighters(m)) \in Nat /\ Cardinality(Fighters(r)) \in Nat
    BY FightersFinite
  <2>6. Cardinality(Fighters(r) \cup {q}) \in Nat
    BY <2>3, FS_CardinalityType
  <2> HIDE DEF m, q
  <2>7. Cardinality(Fighters(m)) <= cap
    BY <2>2, <2>3, <2>4, <2>5, <2>6
  <2> QED
    BY <2>7 DEF m
<1> QED
  BY <1>3, <1>4

\* A merge puts the better unit where one of the three stood.
LEMMA MergeFields ==
  ASSUME NEW r \in Rosters, NEW c \in Champions \ Plants, NEW s \in 1 .. 2,
         Cardinality(CopiesAt(r, c, s)) <= 3
  PROVE  Fighters(MergeOnce(r, c, s)) \subseteq Fighters(r)
<1> DEFINE S == CopiesAt(r, c, s)
           b == BestRanked(S)
           m == MergeOnce(r, c, s)
<1>1. CASE Cardinality(S) <= 2
  BY <1>1, NoMerge
<1>2. CASE Cardinality(S) = 3
  <2>1. b \in S /\ \A x \in Places : m[x] = IF x = b THEN Unit(c, s + 1)
                                           ELSE IF x \in S THEN Empty ELSE r[x]
    BY <1>2, Merge
  <2>2. r[b] = Unit(c, s)
    BY <2>1 DEF CopiesAt
  <2>3. r[b] # Empty /\ r[b].champ \notin Plants
    <3>1. s \in 1 .. 3
      OBVIOUS
    <3> QED
      BY <2>2, <3>1, UnitFact, NotAPlant
  <2> HIDE DEF b, S, m
  <2>4. Fighters(m) \subseteq Fighters(r)
    BY <2>1, <2>3, PlacesFact DEF Fighters
  <2> QED
    BY <2>4 DEF m
<1> QED
  BY <1>1, <1>2, CopiesFinite

\* So an added copy leaves no more units on the board than the level.
LEMMA AddFits ==
  ASSUME NEW r \in Rosters, NEW cap \in Nat, NEW c \in Champions \ Plants, CheckInvariants(r),
         Cardinality(Fighters(r)) <= cap
  PROVE  Cardinality(Fighters(Add(r, cap, c))) <= cap
<1> DEFINE p  == Placed(r, cap, c)
           m1 == MergeOnce(p, c, 1)
           m2 == MergeOnce(m1, c, 2)
<1>1. /\ p \in Rosters /\ m1 \in Rosters
      /\ Cardinality(CopiesAt(p, c, 1)) <= 3 /\ Cardinality(CopiesAt(m1, c, 2)) <= 3
  BY AddCounts DEF CheckInvariants
<1>2. Cardinality(Fighters(p)) <= cap
  BY PlacedFits
<1> HIDE DEF p
<1>3. Cardinality(Fighters(m1)) <= Cardinality(Fighters(p))
  <2>1. Fighters(m1) \subseteq Fighters(p)
    BY <1>1, MergeFields
  <2> QED
    BY <2>1, NoMore
<1> HIDE DEF m1
<1>4. Cardinality(Fighters(m2)) <= Cardinality(Fighters(m1))
  <2>1. Fighters(m2) \subseteq Fighters(m1)
    BY <1>1, MergeFields
  <2> QED
    BY <2>1, NoMore
<1> HIDE DEF m2
<1>5. Cardinality(Fighters(m2)) <= cap
  <2>1. /\ Cardinality(Fighters(p)) \in Nat /\ Cardinality(Fighters(m1)) \in Nat
        /\ Cardinality(Fighters(m2)) \in Nat
    BY FightersFinite
  <2> QED
    BY <1>2, <1>3, <1>4, <2>1
<1> QED
  BY <1>5 DEF Add, p, m1, m2

\* A move that brings one more unit onto the board uses more slots, which CanMove caps.
LEMMA MovedFits ==
  ASSUME NEW r \in Rosters, NEW cap \in Nat, NEW x \in Cells, NEW y \in Cells,
         CanMove(r, cap, x, y), Cardinality(Fighters(r)) <= cap
  PROVE  Cardinality(Fighters(Moved(r, x, y))) <= cap
<1> DEFINE m == Moved(r, x, y)
<1> SUFFICES Cardinality(Fighters(m)) <= cap
  OBVIOUS
<1>1. /\ x \in Places /\ y \in Places /\ Board \subseteq Places
      /\ m \in Rosters
      /\ \A z \in Places : m[z] = IF z = y THEN r[x] ELSE IF z = x THEN r[y] ELSE r[z]
  BY PlacesFact, MovedType DEF Moved, Rosters
<1>2. /\ x # y /\ r[x] # Empty
      /\ r[x].champ \in Plants => y \in Board
      /\ r[y].champ \in Plants => x \in Board
      /\ BoardCount(m) > BoardCount(r) => BoardCount(m) <= cap
  BY DEF CanMove
<1>3. /\ Cardinality(Fighters(m)) \in Nat /\ Cardinality(Fighters(r)) \in Nat
      /\ BoardCount(m) \in Nat /\ BoardCount(r) \in Nat
      /\ Cardinality(Fighters(m)) <= BoardCount(m)
  BY <1>1, FightersFinite, FightersTakeSlots
<1> HIDE DEF m
<1>4. ASSUME Fighters(m) \subseteq Fighters(r)
      PROVE  Cardinality(Fighters(m)) <= cap
  BY <1>3, <1>4, NoMore
<1>5. CASE x \in Board /\ y \in Board
  <2> DEFINE f == [z \in Fighters(m) |-> IF z = x THEN y ELSE IF z = y THEN x ELSE z]
  <2>1. ASSUME NEW z \in Fighters(m) PROVE f[z] \in Fighters(r)
    BY <1>1, <1>5 DEF Fighters
  <2>2. f \in Injection(Fighters(m), Fighters(r))
    BY <2>1, <1>2 DEF Injection, IsInjective
  <2>3. Cardinality(Fighters(m)) <= Cardinality(Fighters(r))
    BY <2>2, FightersFinite, FS_Injection
  <2> QED
    BY <1>3, <2>3
<1>6. CASE y \notin Board
  <2>1. Fighters(m) \subseteq Fighters(r)
    BY <1>1, <1>2, <1>6 DEF Fighters
  <2> QED
    BY <1>4, <2>1
<1>7. CASE x \notin Board /\ y \in Board
  <2>1. \A z \in Board : z # y => m[z] = r[z]
    BY <1>1, <1>7
  <2>2. CASE y \in Fighters(r) \/ y \notin Fighters(m)
    <3>1. Fighters(m) \subseteq Fighters(r)
      BY <2>1, <2>2 DEF Fighters
    <3> QED
      BY <1>4, <3>1
  <2>3. CASE y \notin Fighters(r) /\ y \in Fighters(m)
    <3>1. r[y] = Empty
      BY <1>2, <1>7, <2>3 DEF Fighters
    <3>2. <<y, 1>> \in BoardSlots(m) /\ <<y, 1>> \notin BoardSlots(r)
      <4>1. m[y] \in Units /\ m[y].champ \notin Plants /\ m[y] # Empty
        BY <1>1, <2>3 DEF Fighters, Rosters
      <4>2. TeamSlots[m[y].champ] \in 0 .. 2 /\ TeamSlots[m[y].champ] # 0
        BY <4>1, RosterAssumption DEF Units
      <4> QED
        BY <1>7, <3>1, <4>1, <4>2 DEF BoardSlots
    <3>3. BoardSlots(r) \subseteq BoardSlots(m)
      BY <2>1, <3>1 DEF BoardSlots
    <3>4. BoardCount(r) < BoardCount(m)
      <4>1. BoardSlots(r) # BoardSlots(m)
        BY <3>2
      <4> QED
        BY <3>3, <4>1, FightersFinite, FS_Subset
    <3> QED
      BY <1>2, <1>3, <3>4
  <2> QED
    BY <2>2, <2>3
<1> QED
  BY <1>5, <1>6, <1>7
=============================================================================
