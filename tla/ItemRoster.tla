----------------------------- MODULE ItemRoster -----------------------------
(***************************************************************************)
(* The roster of UnitRoster with the items its units carry and the bag of  *)
(* its owner (server/src/UnitRoster.cpp, PlayerState.cpp, Item.cpp): items *)
(* are equipped, combine, are taken off, move with their unit, come back   *)
(* from a sale, and of three merging copies go to the one that survives.   *)
(* Every step on the units is the step of UnitRoster; this module says     *)
(* what it does to the items.                                              *)
(***************************************************************************)
EXTENDS UnitRoster, SequencesExt

CONSTANTS
  Items,         \* every item definition
  NoItem,        \* item id 0: an empty slot
  Combined,      \* the items that a recipe makes
  Components,    \* the two components of each of these, as a set
  Removers,      \* the consumables that take every item off a unit
  ItemSlots,     \* kMaxItemsPerUnit
  MaxItems       \* how many base components the run hands out

\* What ItemDatabase::Create accepts.
ASSUME ItemAssumption ==
  /\ NoItem \notin Items /\ IsFiniteSet(Items)
  /\ Combined \subseteq Items /\ Removers \subseteq Items \ Combined
  /\ Components \in [Combined -> SUBSET (Items \ (Combined \cup Removers))]
  /\ \A i \in Combined : Cardinality(Components[i]) \in 1 .. 2
  /\ \A i, j \in Combined : Components[i] = Components[j] => i = j
  /\ ItemSlots \in Nat \ {0} /\ MaxItems \in Nat

Base == Items \ Combined

VARIABLES
  items,      \* UnitInstance::items, of the unit on each place
  bag,        \* itemBag_: how many it holds of each item
  given       \* how many components the player was given and has not used up

itemVars == <<units, capacity, items, bag, given>>

NoItems == [k \in 1 .. ItemSlots |-> NoItem]

ItemsInit ==
  /\ Init
  /\ items = [x \in Places |-> NoItems]
  /\ bag = [i \in Items |-> 0]
  /\ given = [i \in Base |-> 0]

\* How often component i is in item k: once in itself, twice in what two of it make.
Parts(k, i) ==
  IF k \in Combined THEN IF i \in Components[k] THEN 3 - Cardinality(Components[k]) ELSE 0
  ELSE IF k = i THEN 1 ELSE 0

-----------------------------------------------------------------------------
(* One unit's slots.                                                       *)

\* FindCombination: the item that the two make, if there is one.
Combination(i, j) == {k \in Combined : Components[k] = {i, j}}

\* The slots whose item combines with i, and the empty ones.
Partners(held, i) ==
  {k \in 1 .. ItemSlots : held[k] # NoItem /\ Combination(held[k], i) # {}}
Vacant(held) == {k \in 1 .. ItemSlots : held[k] = NoItem}

Fits(held, i) == Partners(held, i) # {} \/ Vacant(held) # {}

\* The first partner before the first empty slot; what does not fit stays out.
PlaceItem(held, i) ==
  IF Partners(held, i) # {}
    THEN LET k == Lowest(Partners(held, i))
         IN [held EXCEPT ![k] = CHOOSE made \in Combination(held[k], i) : TRUE]
  ELSE IF Vacant(held) # {} THEN [held EXCEPT ![Lowest(Vacant(held))] = i]
  ELSE held

\* The bag with one more of every item that a unit held.
Returned(b, held) ==
  [i \in Items |-> b[i] + Cardinality({k \in 1 .. ItemSlots : held[k] = i})]

Taken(b, i) == [b EXCEPT ![i] = @ - 1]

-----------------------------------------------------------------------------
(* Merging: the consumed copies' items go to the survivor, in the order of *)
(* the copies and of their slots, and overflow into the bag.               *)

MergeItems_OverflowDropped(r, held, b, c, s) ==
  LET M == MergeSet(r, c, s)
      first  == BestRanked(M)
      second == BestRanked(M \ {first})
      third  == BestRanked(M \ {first, second})
      Put(on, i) == IF i = NoItem THEN on ELSE PlaceItem(on, i)
  IN IF M = {} THEN [items |-> held, bag |-> b]
     ELSE [items |-> [x \in Places |->
                        IF x = first THEN FoldLeft(Put, held[x], held[second] \o held[third])
                        ELSE IF x \in M THEN NoItems ELSE held[x]],
           bag   |-> b]

\* What a slot of a consumed copy holds goes on the survivor if it fits there, else into
\* the bag; o is what they hold.
HandOn(o, i) ==
  IF i = NoItem THEN o
  ELSE IF Fits(o.on, i) THEN [on |-> PlaceItem(o.on, i), bag |-> o.bag]
  ELSE [on |-> o.on, bag |-> [o.bag EXCEPT ![i] = @ + 1]]

MergeItems(r, held, b, c, s) ==
  LET M == MergeSet(r, c, s)
      first  == BestRanked(M)
      second == BestRanked(M \ {first})
      third  == BestRanked(M \ {first, second})
      o == FoldLeft(HandOn, [on |-> held[first], bag |-> b], held[second] \o held[third])
  IN IF M = {} THEN [items |-> held, bag |-> b]
     ELSE [items |-> [x \in Places |-> IF x = first THEN o.on
                                       ELSE IF x \in M THEN NoItems ELSE held[x]],
           bag   |-> o.bag]

\* AcquireUnit: the new copy carries nothing; each merge hands on what it finds.
Acquire(c) ==
  /\ AddUnit(c)
  /\ LET placed == Placed(units, capacity, c)
         once   == MergeItems(placed, items, bag, c, 1)
         twice  == MergeItems(MergeOnce(placed, c, 1), once.items, once.bag, c, 2)
     IN items' = twice.items /\ bag' = twice.bag
  /\ UNCHANGED given

-----------------------------------------------------------------------------
(* The other operations of UnitRoster.                                     *)

SwapItems(x, y) == [items EXCEPT ![x] = items[y], ![y] = items[x]]

Move(x, y) == MoveUnit(x, y) /\ items' = SwapItems(x, y) /\ UNCHANGED <<bag, given>>

Sell(x) ==
  /\ RemoveUnit(x)
  /\ units[x].champ \notin Plants
  /\ items' = [items EXCEPT ![x] = NoItems]
  /\ bag' = Returned(bag, items[x])
  /\ UNCHANGED given

Grow(c, s, x) == GrowPlant(c, s, x) /\ UNCHANGED <<items, bag, given>>

\* A plant goes with what it carries, which is nothing.
RemovePlant(x) ==
  /\ RemoveUnit(x)
  /\ units[x].champ \in Plants
  /\ items' = [items EXCEPT ![x] = NoItems]
  /\ UNCHANGED <<bag, given>>

LevelUp == RaiseCapacity /\ UNCHANGED <<items, bag, given>>

-----------------------------------------------------------------------------
(* The operations on items.                                                *)

\* The bound on what the run hands out.
HandedOut == SumFunction(given)

\* AddItemToBag, from a gift, an encounter's loot or a trait.
GiveItem(i) ==
  /\ HandedOut + SumFunction([j \in Base |-> Parts(i, j)]) <= MaxItems
  /\ bag' = [bag EXCEPT ![i] = @ + 1]
  /\ given' = [j \in Base |-> given[j] + Parts(i, j)]
  /\ UNCHANGED <<units, capacity, items>>

CanCarry(x) == units[x] # Empty /\ units[x].champ \notin Plants

EquipItem(x, i) ==
  /\ CanCarry(x)
  /\ bag[i] > 0 /\ i \notin Removers
  /\ Fits(items[x], i)
  /\ items' = [items EXCEPT ![x] = PlaceItem(@, i)]
  /\ bag' = Taken(bag, i)
  /\ UNCHANGED <<units, capacity, given>>

\* The remover is used up, and every item of the unit goes to the bag.
UseRemover(x, i) ==
  /\ CanCarry(x)
  /\ bag[i] > 0 /\ i \in Removers
  /\ items[x] # NoItems
  /\ items' = [items EXCEPT ![x] = NoItems]
  /\ bag' = Returned(Taken(bag, i), items[x])
  /\ given' = [given EXCEPT ![i] = @ - 1]
  /\ UNCHANGED <<units, capacity>>

\* The second item must be another entry of the bag than the first.
InBag(i, j) == bag[i] > 0 /\ bag[j] > IF i = j THEN 1 ELSE 0

CombineItems(i, j) ==
  /\ InBag(i, j)
  /\ \E made \in Combination(i, j) : bag' = [Taken(Taken(bag, i), j) EXCEPT ![made] = @ + 1]
  /\ UNCHANGED <<units, capacity, items, given>>

\* TryUnequipItem
UnequipItem(x, k) ==
  /\ units[x] # Empty /\ items[x][k] # NoItem
  /\ items' = [items EXCEPT ![x][k] = NoItem]
  /\ bag' = [bag EXCEPT ![items[x][k]] = @ + 1]
  /\ UNCHANGED <<units, capacity, given>>

ItemsNext ==
  \/ \E c \in Champions \ Plants : Acquire(c)
  \/ \E x, y \in Cells : Move(x, y)
  \/ \E x \in Cells : Sell(x) \/ RemovePlant(x)
  \/ \E c \in Plants, s \in PlantStars, x \in Board : Grow(c, s, x)
  \/ LevelUp
  \/ \E i \in Items : GiveItem(i)
  \/ \E x \in Cells, i \in Items : EquipItem(x, i) \/ UseRemover(x, i)
  \/ \E i, j \in Items : CombineItems(i, j)
  \/ \E x \in Cells, k \in 1 .. ItemSlots : UnequipItem(x, k)

ItemsSpec == ItemsInit /\ [][ItemsNext]_itemVars

-----------------------------------------------------------------------------
(* Properties.                                                             *)

Held(i) ==
  SumFunction([k \in Items |-> bag[k] * Parts(k, i)])
  + SumFunction([t \in Places \X (1 .. ItemSlots) |->
                   IF items[t[1]][t[2]] = NoItem THEN 0 ELSE Parts(items[t[1]][t[2]], i)])

\* Every component the player was given is in the bag or on a unit that may carry it,
\* alone or in the item it was combined into: none is lost or doubled by a merge or a
\* cascade (MergeOnce), a sale, a remover or a combination in the bag, none stays on a
\* cell a unit left or on a plant, whose removal would lose it.
ItemsConserved ==
  /\ \A i \in Base : Held(i) = given[i]
  /\ \A x \in Places : items[x] # NoItems => x \in Cells /\ CanCarry(x)
=============================================================================
