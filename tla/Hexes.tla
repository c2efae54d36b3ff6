------------------------------- MODULE Hexes --------------------------------
(***************************************************************************)
(* The arena's hex grid (server/include/w2f/Hex.h, server/src/Hex.cpp):    *)
(* both boards joined, odd-r offset coordinates, the away board turned by  *)
(* 180 degrees.  A route is any shortest one through free hexes: which of  *)
(* several equally short ones the search returns is left open.             *)
(***************************************************************************)
EXTENDS Integers, SequencesExt

CONSTANTS
  Columns,       \* kArenaColumns
  Rows           \* kArenaRows, both boards' rows

ASSUME HexAssumption == Columns \in Nat \ {0} /\ Rows \in Nat \ {0} /\ Rows % 2 = 0

Hexes == [x : 0 .. Columns - 1, y : 0 .. Rows - 1]

Hex(x, y) == [x |-> x, y |-> y]

Magnitude(n) == IF n < 0 THEN -n ELSE n

\* ToAxial: the column of the hex in axial coordinates.
Axial(h) == h.x - (h.y - (h.y % 2)) \div 2

Distance(a, b) ==
  LET dq == Axial(a) - Axial(b)
      dr == a.y - b.y
  IN (Magnitude(dq) + Magnitude(dr) + Magnitude(dq + dr)) \div 2

\* The six neighbours in direction order E, NE, NW, W, SW, SE, in bounds or not.
Directions == 0 .. 5

Neighbor(h, d) ==
  LET odd == h.y % 2
  IN CASE d = 0 -> Hex(h.x + 1, h.y)
       [] d = 1 -> Hex(h.x + odd, h.y - 1)
       [] d = 2 -> Hex(h.x - 1 + odd, h.y - 1)
       [] d = 3 -> Hex(h.x - 1, h.y)
       [] d = 4 -> Hex(h.x - 1 + odd, h.y + 1)
       [] d = 5 -> Hex(h.x + odd, h.y + 1)

\* The direction whose neighbour is nearest to the other hex; ties to the lowest.
DirectionToward(from, to) ==
  CHOOSE d \in Directions :
    \A e \in Directions :
      LET near == Distance(Neighbor(from, d), to)
          other == Distance(Neighbor(from, e), to)
      IN near < other \/ (near = other /\ d <= e)

\* The hexes of a set in the order the code scans them: row by row.
ScanOrder(h) == h.y * Columns + h.x
FirstOf(S) == CHOOSE h \in S : \A g \in S : ScanOrder(h) <= ScanOrder(g)

\* The free hex nearest the centre, up to three rings away; none is the empty set.
FreeNear(centre, blocked) ==
  LET Ring(r) == {h \in Hexes \ blocked : Distance(h, centre) = r}
      rings == {r \in 1 .. 3 : Ring(r) # {}}
  IN IF rings = {} THEN {}
     ELSE {FirstOf(Ring(CHOOSE r \in rings : \A q \in rings : r <= q))}

-----------------------------------------------------------------------------
(* Chains of steps.                                                        *)

\* Op of f.  Steps that use what they are given many times are chained by it: it is worked
\* out once.
Then(f, Op(_)) == CHOOSE g \in {Op(h) : h \in {f}} : TRUE

\* Op(g, x) for every element x of a sequence in order.
Fold(Op(_, _), f, s) ==
  LET Step(g, x) == CHOOSE h \in {Op(k, y) : k \in {g}, y \in {x}} : TRUE
  IN Then(s, LAMBDA t : FoldLeft(Step, f, t))

-----------------------------------------------------------------------------
(* FindPathToRange.                                                        *)

\* Every shortest route from h to a hex within range of the goal: its hexes in order.
Routes(h, goal, range, blocked) ==
  LET Arrived(p) == Distance(Last(p), goal) <= range
      Search(r, n) ==
        LET longer == UNION {{Append(p, g) : g \in {x \in Hexes \ (blocked \cup r.seen) : Distance(Last(p), x) = 1}} :
                               p \in r.paths}
            Judge(paths) ==
              IF \E p \in paths : Arrived(p)
              THEN [found |-> {Tail(p) : p \in {q \in paths : Arrived(q)}}, paths |-> {}, seen |-> r.seen]
              ELSE [found |-> {}, paths |-> paths, seen |-> r.seen \cup {Last(p) : p \in paths}]
        IN IF r.found # {} THEN r ELSE Then(longer, Judge)
  IN Fold(Search, [found |-> {}, paths |-> {<<h>>}, seen |-> {h}], [n \in 1 .. Columns * Rows |-> n]).found
=============================================================================
