----------------------------- MODULE UnitRoster -----------------------------
(***************************************************************************)
(* One player's roster as a state machine (server/src/UnitRoster.cpp): the *)
(* units on the bench and the board, and the board capacity that the       *)
(* player's level sets.  Match composes one of these per player with the   *)
(* shop, the pool and the phases; here the roster is driven by every call  *)
(* the class offers, plants and two-slot champions included.               *)
(***************************************************************************)
EXTENDS Roster

CONSTANTS
  MaxCapacity,    \* the highest capacity the run explores
  PlantStars      \* the star levels that the breakpoints grow plants at

ASSUME CapacityAssumption == MaxCapacity \in Nat \ {0} /\ PlantStars \subseteq 1 .. MaxStar

VARIABLES
  units,      \* units_, bench_ and board_
  capacity    \* boardCapacity_

vars == <<units, capacity>>

TypeOK == units \in Rosters /\ capacity \in 1 .. MaxCapacity

Init == units = EmptyRoster /\ capacity = 1

-----------------------------------------------------------------------------

AddUnit(c) ==
  /\ CanAdd(units, capacity, c)
  /\ units' = Add(units, capacity, c)
  /\ UNCHANGED capacity

MoveUnit(x, y) ==
  /\ CanMove(units, capacity, x, y)
  /\ units' = Moved(units, x, y)
  /\ UNCHANGED capacity

RemoveUnit(x) ==
  /\ units[x] # Empty
  /\ units' = Removed(units, x)
  /\ UNCHANGED capacity

\* AddPlaced: straight onto a free hex, never merging, taking no board slot.
GrowPlant(c, s, x) ==
  /\ units[x] = Empty
  /\ units' = [units EXCEPT ![x] = Unit(c, s)]
  /\ UNCHANGED capacity

\* PlayerState::SyncBoardCapacity after a level-up.
RaiseCapacity ==
  /\ capacity < MaxCapacity
  /\ capacity' = capacity + 1
  /\ UNCHANGED units

Next ==
  \/ \E c \in Champions \ Plants : AddUnit(c)
  \/ \E x, y \in Cells : MoveUnit(x, y)
  \/ \E x \in Cells : RemoveUnit(x)
  \/ \E c \in Plants, s \in PlantStars, x \in Board : GrowPlant(c, s, x)
  \/ RaiseCapacity

Spec == Init /\ [][Next]_vars

-----------------------------------------------------------------------------
(* Properties.                                                             *)

\* The layout check the code runs on every roster: no unit is left unplaced by
\* Add (the assertion in UnitRoster::Add), three equal copies never stay
\* unmerged, and no plant stands off the board.
Layout == CheckInvariants(units)

\* Adding a copy is worth exactly one copy of that champion and none of another,
\* through every cascade of merges.
AddIsWorthOneCopy ==
  [][units' # units => \A c \in Champions \ Plants :
       AddUnit(c) => \A d \in Champions :
         Worth(units', d) = Worth(units, d) + (IF d = c THEN 1 ELSE 0)]_vars

Fielded(r, c) == \E x \in Board : r[x].champ = c

\* "A merge never pulls a fielded unit off the board" (the comment on MergeRank):
\* a champion with a copy on the board still has one there after an Add.
MergeKeepsFielded ==
  [][units' # units => \A c \in Champions \ Plants :
       AddUnit(c) => \A d \in Champions : Fielded(units, d) => Fielded(units', d)]_vars

\* A purchase that BenchOnlyPurchaseFits lets through during a fight leaves every
\* hex as it is: the fielded units are the ones the running fight was computed from.
BenchOnlyKeepsBoard ==
  \A c \in Champions \ Plants :
    CanAdd(units, capacity, c) /\ BenchOnlyPurchaseFits(units, capacity, c) =>
      \A x \in Board : Add(units, capacity, c)[x] = units[x]

=============================================================================
