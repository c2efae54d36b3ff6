------------------------------- MODULE Roster -------------------------------
(***************************************************************************)
(* The value semantics of one player's roster (server/src/UnitRoster.cpp): *)
(* where a new unit is placed, how three equal copies merge, which moves   *)
(* are legal.  A roster is a function from places to units.  A unit is     *)
(* identified by the cell it stands on: the code keeps unit ids and cells  *)
(* in one-to-one correspondence (UnitRoster::CheckInvariants), so ids and  *)
(* their serial numbers are left out, and so are the items a unit carries. *)
(***************************************************************************)
EXTENDS Integers, FiniteSets

CONSTANTS
  Champions,     \* every champion definition that can stand in a roster
  NoChampion,    \* a cell, a shop slot or an offer that holds none
  Plants,        \* the Nature plants (ChampionDefinition::plant)
  TeamSlots,     \* board slots a champion takes: 0 a plant, 2 the Queen
  BenchSlots,    \* kBenchSlots
  BoardHexes     \* kBoardRows * kBoardColumns

ASSUME RosterAssumption ==
  /\ NoChampion \notin Champions
  /\ Plants \subseteq Champions
  /\ TeamSlots \in [Champions -> 0 .. 2]
  /\ \A c \in Champions : TeamSlots[c] = 0 <=> c \in Plants
  /\ BenchSlots \in Nat /\ BoardHexes \in Nat

MaxStar == 3                                    \* kMaxStarLevel

(***************************************************************************)
(* Bench slots come first, then the hexes in row-major order from the back *)
(* row.  A unit that Add could not place is in Hand until it merges        *)
(* (LocationType::None).                                                   *)
(***************************************************************************)
Hand   == 0
Bench  == 1 .. BenchSlots
Board  == BenchSlots + 1 .. BenchSlots + BoardHexes
Cells  == Bench \cup Board
Places == {Hand} \cup Cells

Unit(c, s)  == [champ |-> c, star |-> s]
Empty       == Unit(NoChampion, 0)
Units       == [champ : Champions, star : 1 .. MaxStar]
Rosters     == [Places -> Units \cup {Empty}]
EmptyRoster == [x \in Places |-> Empty]

\* How many pool copies a unit stands for; an empty cell stands for none.
CopiesForStarLevel(s) ==
  CASE s = 1 -> 1 [] s = 2 -> 3 [] s = 3 -> 9 [] OTHER -> 0

CopiesAt(r, c, s) == {x \in Places : r[x] = Unit(c, s)}

\* The slots in use, not the units: a plant takes none, the Queen two.
BoardCount(r) ==
  Cardinality({t \in Board \X (1 .. 2) :
                 r[t[1]] # Empty /\ t[2] <= TeamSlots[r[t[1]].champ]})

FreeIn(r, S) == {x \in S : r[x] = Empty}

-----------------------------------------------------------------------------
(* Adding a copy.                                                          *)

HasFreeSlot(r, cap) ==
  \/ FreeIn(r, Bench) # {}
  \/ /\ BoardCount(r) < cap
     /\ BoardCount(r) < BoardHexes
     /\ FreeIn(r, Board) # {}

CanAdd(r, cap, c) ==
  \/ HasFreeSlot(r, cap)
  \/ Cardinality(CopiesAt(r, c, 1)) >= 2

MergeRank_BenchFirst(x) == IF x \in Bench THEN x
                           ELSE IF x \in Board THEN x
                           ELSE BoardHexes + BenchSlots + 1

\* MergeRank: the board before the bench, then by cell; an unplaced unit last.
MergeRank(x) == IF x \in Board THEN x - BenchSlots
                ELSE IF x \in Bench THEN BoardHexes + x
                ELSE BoardHexes + BenchSlots + 1

BestRanked(S) == CHOOSE x \in S : \A y \in S : MergeRank(x) <= MergeRank(y)

Lowest(S) == CHOOSE x \in S : \A y \in S : x <= y

\* The first bench slot, else the first hex while under the capacity, else Hand.
FirstFree(r, cap) ==
  IF FreeIn(r, Bench) # {} THEN Lowest(FreeIn(r, Bench))
  ELSE IF BoardCount(r) < cap /\ FreeIn(r, Board) # {} THEN Lowest(FreeIn(r, Board))
  ELSE Hand

\* The three copies a merge of <<c, s>> takes: the survivor and the two consumed.
MergeSet(r, c, s) ==
  LET S == CopiesAt(r, c, s)
      first  == BestRanked(S)
      second == BestRanked(S \ {first})
      third  == BestRanked(S \ {first, second})
  IN IF Cardinality(S) >= 3 THEN {first, second, third} ELSE {}

MergeOnce_LeavesLast(r, c, s) ==
  LET M == MergeSet(r, c, s)
  IN [x \in Places |-> IF x \notin M \/ \A y \in M : MergeRank(y) <= MergeRank(x) THEN r[x]
                       ELSE IF x = BestRanked(M) THEN Unit(c, s + 1) ELSE Empty]

MergeOnce(r, c, s) ==
  LET M == MergeSet(r, c, s)
  IN [x \in Places |-> IF x \notin M THEN r[x]
                       ELSE IF x = BestRanked(M) THEN Unit(c, s + 1) ELSE Empty]

Placed(r, cap, c) == [r EXCEPT ![FirstFree(r, cap)] = Unit(c, 1)]

\* Every caller adds a 1-star, so at most one merge per star level follows.
Add(r, cap, c) == MergeOnce(MergeOnce(Placed(r, cap, c), c, 1), c, 2)

BenchOnlyPurchaseFits_NoMergeCheck(r, cap, c) == FirstFree(r, cap) \notin Board

(***************************************************************************)
(* PlayerState::BenchOnlyPurchaseFits: the purchase is tried on a copy of  *)
(* the roster; it must not land on the board, nor merge with a fielded     *)
(* unit.                                                                   *)
(***************************************************************************)
BenchOnlyPurchaseFits(r, cap, c) ==
  LET placed == Placed(r, cap, c)
      merged == MergeOnce(placed, c, 1)
  IN /\ FirstFree(r, cap) \notin Board
     /\ MergeSet(placed, c, 1) \cap Board = {}
     /\ MergeSet(merged, c, 2) \cap Board = {}

-----------------------------------------------------------------------------
(* Moving, removing, growing a plant.                                      *)

Moved(r, x, y) == [r EXCEPT ![x] = r[y], ![y] = r[x]]

(***************************************************************************)
(* A move to an empty cell and a swap have one rule in common: the slots   *)
(* in use may only grow up to the capacity.  Plants never leave the board. *)
(***************************************************************************)
CanMove(r, cap, x, y) ==
  /\ x # y /\ r[x] # Empty
  /\ r[x].champ \in Plants => y \in Board
  /\ r[y].champ \in Plants => x \in Board
  /\ BoardCount(Moved(r, x, y)) > BoardCount(r) => BoardCount(Moved(r, x, y)) <= cap

Removed(r, x) == [r EXCEPT ![x] = Empty]

-----------------------------------------------------------------------------
(* UnitRoster::CheckInvariants, the layout every roster must have between  *)
(* two operations.  Its last clause, no more slots in use than the board   *)
(* has hexes, is left out: capacities are far below the 28 hexes.          *)

NothingUnplaced(r) == r[Hand] = Empty

NoLooseTriple(r) ==
  \A c \in Champions \ Plants, s \in 1 .. MaxStar - 1 : Cardinality(CopiesAt(r, c, s)) <= 2

PlantsOnBoard(r) == \A x \in Places \ Board : r[x].champ \notin Plants

CheckInvariants(r) == NothingUnplaced(r) /\ NoLooseTriple(r) /\ PlantsOnBoard(r)

\* How many pool copies of c the roster stands for.
Worth(r, c) ==
  Cardinality({t \in Places \X (1 .. 9) :
                 r[t[1]].champ = c /\ t[2] <= CopiesForStarLevel(r[t[1]].star)})
=============================================================================
