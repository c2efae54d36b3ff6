------------------------- MODULE MatchRoundsProofs -------------------------
(***************************************************************************)
(* Theorems about MatchRounds, for every number of players, every clock    *)
(* and every schedule of rounds: who fights whom, what falling costs and   *)
(* which place it earns, and that the match follows MatchCycle.            *)
(*                                                                         *)
(* HealthAfter adds up the damage of all fights that a player lost.  That  *)
(* such a sum exists and is a natural number is shown without an induction *)
(* theorem: the sizes, and the subsets, for which it fails would have a    *)
(* least element (WFMin).                                                  *)
(***************************************************************************)
EXTENDS MatchRounds, TLAPS, FiniteSetTheorems, WellFoundedInduction

-----------------------------------------------------------------------------
(* Sums over a finite set, as FoldSet computes them.                       *)

SumStep(d, g, s) == IF s = {} THEN 0 ELSE LET x == CHOOSE x \in s : TRUE IN g[s \ {x}] + d[x]

\* Every finite sum is computed by some function on the subsets (of at most n elements).
LEMMA SumExists ==
  ASSUME NEW S, IsFiniteSet(S), NEW d \in [S -> Nat]
  PROVE  \E g : g = [s \in SUBSET S |-> SumStep(d, g, s)]
<1> DEFINE Small(n) == {s \in SUBSET S : Cardinality(s) <= n}
           Summed(n, g) == \A s \in Small(n) : g[s] = SumStep(d, g, s)
           Bad == {n \in Nat : ~ \E g : Summed(n, g)}
           R == OpToRel(<, Nat)
<1>0. \A s \in SUBSET S : Cardinality(s) \in Nat /\ Cardinality(s) <= Cardinality(S)
  BY FS_Subset, FS_CardinalityType
<1>1. Bad = {}
  <2> SUFFICES ASSUME Bad # {} PROVE FALSE
    OBVIOUS
  <2>1. Bad \subseteq Nat
    OBVIOUS
  <2>2. PICK n \in Bad : \A m \in Bad : <<m, n>> \notin R
    <3> HIDE DEF Bad, R
    <3>1. IsWellFoundedOn(R, Nat)
      BY NatLessThanWellFounded DEF R
    <3> QED
      BY <3>1, <2>1, WFMin
  <2>3. n \in Nat /\ ~ \E g : Summed(n, g)
    OBVIOUS
  <2>4. \A m \in Nat : m < n => m \notin Bad
    BY <2>2, <2>3 DEF OpToRel
  <2>5. CASE n = 0
    <3>1. Small(0) \subseteq {{}}
      <4> SUFFICES ASSUME NEW s \in SUBSET S, Cardinality(s) <= 0 PROVE s = {}
        OBVIOUS
      <4>1. Cardinality(s) = 0 /\ IsFiniteSet(s)
        BY <1>0, FS_Subset
      <4> QED
        BY <4>1, FS_EmptySet
    <3>2. Summed(0, [s \in {{}} |-> 0])
      BY <3>1 DEF SumStep
    <3> QED
      BY <2>5, <3>2, <2>3
  <2>6. CASE n # 0
    <3>1. n - 1 \in Nat /\ n - 1 < n
      BY <2>3, <2>6
    <3>2. PICK g : Summed(n - 1, g)
      BY <2>4, <3>1
    <3> DEFINE h == [s \in SUBSET S |-> IF Cardinality(s) <= n - 1 THEN g[s] ELSE SumStep(d, g, s)]
    <3>3. ASSUME NEW s \in Small(n) PROVE h[s] = SumStep(d, h, s)
      <4>1. h[s] = SumStep(d, g, s)
        BY <3>2
      <4>2. CASE s = {}
        BY <4>1, <4>2 DEF SumStep
      <4>3. CASE s # {}
        <5> DEFINE x == CHOOSE x \in s : TRUE
        <5>1. x \in s
          BY <4>3
        <5> HIDE DEF x
        <5>2. Cardinality(s \ {x}) = Cardinality(s) - 1
          BY <5>1, FS_RemoveElement, FS_Subset
        <5>3. Cardinality(s \ {x}) <= n - 1
          BY <5>2, <1>0, <2>3
        <5>4. h[s \ {x}] = g[s \ {x}]
          BY <5>3
        <5> QED
          BY <4>1, <4>3, <5>4 DEF SumStep, x
      <4> QED
        BY <4>2, <4>3
    <3>4. Summed(n, h)
      BY <3>3
    <3> QED
      BY <3>4, <2>3
  <2> QED
    BY <2>5, <2>6
<1>2. PICK g : Summed(Cardinality(S), g)
  BY <1>1, <1>0
<1> DEFINE f == [s \in SUBSET S |-> g[s]]
<1>3. ASSUME NEW s \in SUBSET S PROVE f[s] = SumStep(d, f, s)
  <2>1. g[s] = SumStep(d, g, s)
    BY <1>0, <1>2
  <2>2. SumStep(d, f, s) = SumStep(d, g, s)
    BY DEF SumStep
  <2> QED
    BY <2>1, <2>2
<1>4. f = [s \in SUBSET S |-> SumStep(d, f, s)]
  <2> DEFINE k == [s \in SUBSET S |-> SumStep(d, f, s)]
  <2>1. \A s \in SUBSET S : f[s] = k[s]
    BY <1>3
  <2>2. DOMAIN f = SUBSET S /\ DOMAIN k = SUBSET S
    OBVIOUS
  <2> HIDE DEF f
  <2>3. k = [s \in SUBSET S |-> SumStep(d, f, s)]
    OBVIOUS
  <2>4. f = [s \in SUBSET S |-> f[s]]
    BY DEF f
  <2> HIDE DEF k
  <2>5. k = [s \in SUBSET S |-> f[s]]
    BY <2>1, <2>3
  <2> QED
    BY <2>3, <2>4, <2>5
<1> QED
  BY <1>4

\* A sum of natural numbers is one.
LEMMA SumNat ==
  ASSUME NEW S, IsFiniteSet(S), NEW d \in [S -> Nat],
         NEW g, g = [s \in SUBSET S |-> SumStep(d, g, s)]
  PROVE  \A s \in SUBSET S : g[s] \in Nat
<1> DEFINE Bad == {s \in SUBSET S : g[s] \notin Nat}
<1> SUFFICES ASSUME Bad # {} PROVE FALSE
  OBVIOUS
<1>1. IsWellFoundedOn(StrictSubsetOrdering(S), SUBSET S)
  <2>1. IsWellFoundedOn(StrictSubsetOrdering(S), FiniteSubsetsOf(S))
    BY ONLY FS_StrictSubsetOrderingWellFounded
  <2>2. FiniteSubsetsOf(S) = SUBSET S
    BY FS_FiniteSubsetsOfFinite
  <2> QED
    BY ONLY <2>1, <2>2
<1>2. Bad \subseteq SUBSET S
  OBVIOUS
<1>3. PICK s \in Bad : \A r \in Bad : <<r, s>> \notin StrictSubsetOrdering(S)
  <2> HIDE DEF Bad
  <2> QED
    BY <1>1, <1>2, WFMin
<1>4. g[s] = SumStep(d, g, s)
  OBVIOUS
<1>5. CASE s = {}
  BY <1>4, <1>5 DEF SumStep
<1>6. CASE s # {}
  <2> DEFINE x == CHOOSE x \in s : TRUE
  <2>1. x \in s
    BY <1>6
  <2>2. g[s] = g[s \ {x}] + d[x]
    BY <1>4, <1>6 DEF SumStep
  <2> HIDE DEF x
  <2>3. s \ {x} \in SUBSET S /\ <<s \ {x}, s>> \in StrictSubsetOrdering(S)
    BY <2>1 DEF StrictSubsetOrdering
  <2>4. g[s \ {x}] \in Nat
    BY <2>3, <1>3
  <2>5. d[x] \in Nat
    BY <2>1
  <2> QED
    BY <2>2, <2>4, <2>5
<1> QED
  BY <1>5, <1>6

-----------------------------------------------------------------------------
(* Health. *)

\* Stages are counted from one.
LEMMA StageIsPositive ==
  ASSUME NEW r \in Nat
  PROVE  StageOf(r) \in Nat \ {0}
<1>1. FirstStageRounds \in Nat /\ RoundsPerStage \in Nat /\ RoundsPerStage > 0
  BY MatchRoundsAssumption
<1>2. CASE r <= FirstStageRounds
  BY <1>2 DEF StageOf
<1>3. CASE ~ (r <= FirstStageRounds)
  <2> DEFINE a == r - FirstStageRounds - 1
  <2>1. a \in Nat
    BY <1>1, <1>3
  <2>2. a \div RoundsPerStage \in Nat
    <3> HIDE DEF a
    <3> QED
      BY ONLY <2>1, <1>1
  <2> QED
    BY <1>1, <1>3, <2>2 DEF StageOf
<1> QED
  BY <1>2, <1>3

\* A lost fight never gives health.
LEMMA DamageIsNat ==
  ASSUME NEW r \in Nat, NEW n \in Nat
  PROVE  PlayerDamage(r, n) \in Nat
<1>1. BaseDamage \in Seq(Nat) /\ Len(BaseDamage) \in Nat \ {0} /\ PerSurvivingUnit \in Nat
  BY MatchRoundsAssumption
<1>2. Lesser(StageOf(r), Len(BaseDamage)) \in 1 .. Len(BaseDamage)
  <2>1. StageOf(r) \in Nat \ {0}
    BY StageIsPositive
  <2> QED
    BY <1>1, <2>1 DEF Lesser
<1>3. BaseDamage[Lesser(StageOf(r), Len(BaseDamage))] \in Nat
  BY <1>1, <1>2
<1>4. n * PerSurvivingUnit \in Nat
  BY <1>1
<1> QED
  BY <1>3, <1>4 DEF PlayerDamage

\* Losing fights takes a finite amount of health and never gives any.
LEMMA HealthFalls ==
  ASSUME NEW q \in Players, round \in Nat, health[q] \in Int,
         DOMAIN fights \subseteq Players, \A p \in DOMAIN fights : fights[p].survivors \in Nat
  PROVE  HealthAfter(q) \in Int /\ HealthAfter(q) <= health[q]
<1> DEFINE lost == {p \in DOMAIN fights : q \in Losers(p, fights[p])}
           d == [p \in lost |-> PlayerDamage(round, fights[p].survivors)]
           Sums(f) == [s \in SUBSET lost |-> IF s = {} THEN 0 ELSE
                         LET x == CHOOSE x \in s : TRUE IN f[s \ {x}] + PlayerDamage(round, fights[x].survivors)]
           sums == CHOOSE f : f = Sums(f)
<1>1. lost \subseteq Players
  OBVIOUS
<1>2. IsFiniteSet(lost)
  <2>1. NumPlayers \in Int
    BY MatchRoundsAssumption
  <2>2. IsFiniteSet(Players)
    BY <2>1, FS_Interval DEF Players
  <2> HIDE DEF lost
  <2> QED
    BY <1>1, <2>2, FS_Subset
<1>3. d \in [lost -> Nat]
  BY DamageIsNat
<1>4. HealthAfter(q) = health[q] - sums[lost]
  BY DEF HealthAfter, FoldSet, MapThenFoldSet
<1>5. \A s \in SUBSET lost : s # {} => d[CHOOSE x \in s : TRUE] = PlayerDamage(round, fights[CHOOSE x \in s : TRUE].survivors)
  OBVIOUS
<1>6. \A f : [s \in SUBSET lost |-> SumStep(d, f, s)] = Sums(f)
  <2> HIDE DEF d, lost
  <2> QED
    BY <1>5 DEF SumStep
<1> HIDE DEF lost, d
<1> DEFINE sum == CHOOSE f : f = [s \in SUBSET lost |-> SumStep(d, f, s)]
<1>7. sum = [s \in SUBSET lost |-> SumStep(d, sum, s)]
  BY ONLY <1>2, <1>3, SumExists
<1> HIDE DEF Sums, sum
<1>8. sum = Sums(sum)
  BY <1>6, <1>7
<1>9. sums = Sums(sums)
  BY <1>8
<1> HIDE DEF sums
<1>10. sums = [s \in SUBSET lost |-> SumStep(d, sums, s)]
  BY <1>6, <1>9
<1>11. \A s \in SUBSET lost : sums[s] \in Nat
  BY ONLY <1>2, <1>3, <1>10, SumNat
<1> QED
  BY <1>4, <1>11

-----------------------------------------------------------------------------
(* Places. *)

\* Those who fall in one round take the places below the survivors, each another one,
\* and all of them.
LEMMA PlacesOfFallen ==
  ASSUME NEW dying \in SUBSET alive, alive \subseteq Players, NumPlayers \in Nat,
         NEW h \in [Players -> Int]
  PROVE  LET places == Cardinality(alive \ dying) + 1 .. Cardinality(alive) IN
         /\ \A p \in dying : PlaceOf(h, dying, p) \in places
         /\ \A p, q \in dying : PlaceOf(h, dying, p) = PlaceOf(h, dying, q) => p = q
         /\ places \subseteq {PlaceOf(h, dying, p) : p \in dying}
<1> DEFINE n == Cardinality(alive)
           k == Cardinality(dying)
           Above(p) == {q \in dying : FallsBefore(h, q, p)}
           places == Cardinality(alive \ dying) + 1 .. n
<1>1. IsFiniteSet(Players)
  BY FS_Interval DEF Players
<1>2. IsFiniteSet(alive) /\ IsFiniteSet(dying)
  BY <1>1, FS_Subset
<1>3. n \in Nat /\ k \in Nat
  BY <1>2, FS_CardinalityType
<1>4. k <= n
  BY <1>2, FS_Subset
<1>5. Cardinality(alive \ dying) = n - k
  <2>1. alive \cap dying = dying
    OBVIOUS
  <2> QED
    BY <2>1, <1>2, FS_Difference
<1>6. ASSUME NEW p \in dying
      PROVE  IsFiniteSet(Above(p)) /\ Cardinality(Above(p)) \in Nat /\ Cardinality(Above(p)) <= k - 1
  <2>1. h[p] \in Int /\ p \in Int
    BY DEF Players
  <2>2. Above(p) \subseteq dying \ {p}
    BY <2>1 DEF FallsBefore
  <2>3. IsFiniteSet(dying \ {p}) /\ Cardinality(dying \ {p}) = k - 1
    BY <1>2, FS_RemoveElement
  <2> HIDE DEF Above, k
  <2>4. IsFiniteSet(Above(p)) /\ Cardinality(Above(p)) <= Cardinality(dying \ {p})
    BY <2>2, <2>3, FS_Subset
  <2> QED
    BY <2>3, <2>4, FS_CardinalityType
<1>7. ASSUME NEW p \in dying, NEW q \in dying, FallsBefore(h, p, q)
      PROVE  Cardinality(Above(p)) < Cardinality(Above(q))
  <2>1. h[p] \in Int /\ p \in Int /\ h[q] \in Int /\ q \in Int
    BY DEF Players
  <2>2. p \notin Above(p)
    BY <2>1 DEF FallsBefore
  <2>3. Above(p) \cup {p} \subseteq Above(q)
    <3> SUFFICES ASSUME NEW r \in dying, FallsBefore(h, r, p) PROVE FallsBefore(h, r, q)
      BY <1>7
    <3>1. h[r] \in Int /\ r \in Int
      BY DEF Players
    <3> QED
      BY <3>1, <2>1, <1>7 DEF FallsBefore
  <2> HIDE DEF Above
  <2>4. Cardinality(Above(p) \cup {p}) = Cardinality(Above(p)) + 1
    BY <2>2, <1>6, FS_AddElement
  <2>5. Cardinality(Above(p) \cup {p}) <= Cardinality(Above(q))
    BY <2>3, <1>6, FS_Subset
  <2> QED
    BY <2>4, <2>5, <1>6
<1>8. ASSUME NEW p \in dying, NEW q \in dying, p # q
      PROVE  FallsBefore(h, p, q) \/ FallsBefore(h, q, p)
  <2>1. h[p] \in Int /\ p \in Int /\ h[q] \in Int /\ q \in Int
    BY DEF Players
  <2> QED
    BY <2>1, <1>8 DEF FallsBefore
<1>9. \A p \in dying : PlaceOf(h, dying, p) = n - Cardinality(Above(p))
  BY DEF PlaceOf
<1> HIDE DEF Above, k, n
<1>10. \A p \in dying : PlaceOf(h, dying, p) \in places
  BY <1>3, <1>4, <1>5, <1>6, <1>9
<1>11. ASSUME NEW p \in dying, NEW q \in dying, p # q
       PROVE  PlaceOf(h, dying, p) # PlaceOf(h, dying, q)
  BY <1>3, <1>6, <1>7, <1>8, <1>9, <1>11
<1> DEFINE place == [p \in dying |-> PlaceOf(h, dying, p)]
<1>12. place \in Injection(dying, places)
  BY <1>10, <1>11 DEF Injection, IsInjective
<1>13. IsFiniteSet(places) /\ Cardinality(places) = k
  <2>1. IsFiniteSet(n - k + 1 .. n) /\ Cardinality(n - k + 1 .. n) = IF n - k + 1 > n THEN 0 ELSE n - (n - k + 1) + 1
    BY ONLY <1>3, FS_Interval
  <2> QED
    BY <2>1, <1>3, <1>5
<1>14. place \in Surjection(dying, places)
  <2> HIDE DEF place, places
  <2> QED
    BY <1>12, <1>13, FS_Injection DEF k
<1>15. places \subseteq {PlaceOf(h, dying, p) : p \in dying}
  BY <1>14 DEF Surjection
<1> QED
  BY <1>10, <1>11, <1>15 DEF n

-----------------------------------------------------------------------------
(* Who fights whom. *)

\* The fights of m that p takes part in, not as a ghost.
Part(m, p) == {h \in DOMAIN m : h = p \/ (m[h].away = p /\ ~ m[h].ghost)}

\* Each living player has one fight, nobody else has one, and a ghost is of another living player.
OneEach(m) ==
  /\ DOMAIN m \subseteq alive
  /\ \A h \in DOMAIN m : m[h].away \in 0 .. NumPlayers /\ m[h].ghost \in BOOLEAN
  /\ \A h \in DOMAIN m : m[h].ghost => m[h].away \in alive \ {h}
  /\ \A p \in alive : \E h : Part(m, p) = {h}
  /\ \A p \in Players \ alive : Part(m, p) = {}

\* In a round against monsters everybody is at home.
LEMMA MonstersForAll ==
  ASSUME alive \subseteq Players, NumPlayers \in Nat,
         NEW m, m = [p \in alive |-> [away |-> 0, ghost |-> FALSE]]
  PROVE  OneEach(m)
<1>1. DOMAIN m = alive /\ \A h \in alive : m[h].away = 0 /\ m[h].ghost = FALSE
  OBVIOUS
<1>5. 0 \in 0 .. NumPlayers
  OBVIOUS
<1>2. \A p \in Players : p # 0
  BY DEF Players
<1>3. ASSUME NEW p \in alive PROVE Part(m, p) = {p}
  BY <1>1, <1>2 DEF Part
<1>4. ASSUME NEW p \in Players \ alive PROVE Part(m, p) = {}
  BY <1>1, <1>2 DEF Part
<1>6. \A h \in DOMAIN m : m[h].away \in 0 .. NumPlayers /\ m[h].ghost \in BOOLEAN /\ ~ m[h].ghost
  BY <1>1, <1>5
<1> QED
  BY ONLY <1>1, <1>3, <1>4, <1>6 DEF OneEach

\* A shuffle names every living player once.
LEMMA ShuffleCovers ==
  ASSUME alive \subseteq Players, NumPlayers \in Nat, NEW ids \in SetToSeqs(alive)
  PROVE  /\ Len(ids) \in Nat /\ DOMAIN ids = 1 .. Len(ids)
         /\ \A i \in 1 .. Len(ids) : ids[i] \in alive
         /\ \A i, j \in 1 .. Len(ids) : ids[i] = ids[j] => i = j
         /\ \A p \in alive : \E i \in 1 .. Len(ids) : ids[i] = p
<1> DEFINE n == Cardinality(alive)
<1>1. IsFiniteSet(alive)
  <2>1. IsFiniteSet(Players)
    BY FS_Interval DEF Players
  <2> QED
    BY <2>1, FS_Subset
<1>2. n \in Nat
  BY <1>1, FS_CardinalityType
<1>3. ids \in [1 .. n -> alive] /\ \A i, j \in 1 .. n : i # j => ids[i] # ids[j]
  BY DEF SetToSeqs
<1>4. ids \in Injection(1 .. n, alive)
  BY <1>3 DEF Injection, IsInjective
<1>5. IsFiniteSet(1 .. n) /\ Cardinality(1 .. n) = n
  <2> HIDE DEF n
  <2>1. IsFiniteSet(1 .. n) /\ Cardinality(1 .. n) = IF 1 > n THEN 0 ELSE n - 1 + 1
    BY ONLY <1>2, FS_Interval
  <2> QED
    BY <2>1, <1>2
<1>6. ids \in Surjection(1 .. n, alive)
  BY <1>1, <1>4, <1>5, FS_Injection
<1>7. Len(ids) = n
  <2> HIDE DEF n
  <2> QED
    BY <1>2, <1>3
<1> HIDE DEF n
<1> QED
  BY <1>2, <1>3, <1>6, <1>7 DEF Surjection

\* Every other one of the shuffle is at home against the next; the last one without a next
\* against a ghost.
Odd(n) == {i \in 1 .. n : i % 2 = 1}

LEMMA NeighboursMeet ==
  ASSUME alive \subseteq Players, NumPlayers \in Nat, NEW ids \in SetToSeqs(alive), NEW m,
         DOMAIN m = {ids[i] : i \in Odd(Len(ids))},
         \A i \in Odd(Len(ids)) : i < Len(ids) => m[ids[i]].away = ids[i + 1] /\ m[ids[i]].ghost = FALSE,
         Len(ids) \in Odd(Len(ids)) =>
           m[ids[Len(ids)]].away \in alive \ {ids[Len(ids)]} /\ m[ids[Len(ids)]].ghost = TRUE
  PROVE  OneEach(m)
<1> DEFINE n == Len(ids)
<1>1. /\ n \in Nat
      /\ \A i \in 1 .. n : ids[i] \in alive
      /\ \A i, j \in 1 .. n : ids[i] = ids[j] => i = j
      /\ \A p \in alive : \E i \in 1 .. n : ids[i] = p
  BY ShuffleCovers
<1>2. \A i \in Odd(n) : i \in 1 .. n /\ (i < n \/ i = n)
  BY <1>1 DEF Odd
<1>3. ASSUME NEW i \in Odd(n)
      PROVE  /\ ids[i] \in alive
             /\ m[ids[i]].away \in alive /\ m[ids[i]].ghost \in BOOLEAN
             /\ m[ids[i]].ghost => m[ids[i]].away \in alive \ {ids[i]}
  <2>1. CASE i < n
    <3>1. i + 1 \in 1 .. n
      BY <1>1, <1>2, <2>1
    <3> QED
      BY <1>1, <1>2, <2>1, <3>1
  <2>2. CASE i = n
    BY <1>1, <1>2, <2>2
  <2> QED
    BY <1>2, <2>1, <2>2
<1>4. ASSUME NEW h \in DOMAIN m
      PROVE  /\ h \in alive /\ m[h].away \in alive /\ m[h].ghost \in BOOLEAN
             /\ m[h].ghost => m[h].away \in alive \ {h}
  <2>1. PICK i \in Odd(n) : h = ids[i]
    OBVIOUS
  <2> QED
    BY <1>3, <2>1
<1>5. ASSUME NEW p \in Players \ alive PROVE Part(m, p) = {}
  BY <1>4 DEF Part
<1>6. ASSUME NEW i \in Odd(n), NEW k \in 1 .. n, m[ids[i]].away = ids[k], ~ m[ids[i]].ghost
      PROVE  k = i + 1
  <2>1. i < n
    BY <1>2, <1>6
  <2>2. i + 1 \in 1 .. n /\ ids[i + 1] = ids[k]
    BY <1>1, <1>2, <1>6, <2>1
  <2> QED
    BY <1>1, <2>2
<1>7. ASSUME NEW k \in 1 .. n PROVE \E h : Part(m, ids[k]) = {h}
  <2>1. CASE k \in Odd(n)
    <3>1. ids[k] \in DOMAIN m
      BY <2>1
    <3>2. ASSUME NEW h \in DOMAIN m, m[h].away = ids[k], ~ m[h].ghost PROVE FALSE
      <4>1. PICK i \in Odd(n) : h = ids[i]
        BY <3>2
      <4>2. k = i + 1
        BY <1>6, <3>2, <4>1
      <4>3. i \in Nat /\ i % 2 = 1 /\ k % 2 = 1
        BY <2>1 DEF Odd
      <4>4. (i + 1) % 2 = 0
        BY ONLY <4>3
      <4> QED
        BY ONLY <4>2, <4>3, <4>4
    <3>3. Part(m, ids[k]) = {ids[k]}
      BY <3>1, <3>2 DEF Part
    <3> QED
      BY <3>3
  <2>2. CASE k \notin Odd(n)
    <3>1. k - 1 \in Odd(n) /\ k - 1 < n /\ (k - 1) + 1 = k
      BY <1>1, <2>2 DEF Odd
    <3>2. ids[k] \notin DOMAIN m
      <4> SUFFICES ASSUME NEW i \in Odd(n), ids[k] = ids[i] PROVE FALSE
        OBVIOUS
      <4> QED
        BY <1>1, <1>2, <2>2
    <3>3. ids[k - 1] \in DOMAIN m /\ m[ids[k - 1]].away = ids[k] /\ ~ m[ids[k - 1]].ghost
      BY <3>1
    <3>4. ASSUME NEW h \in DOMAIN m, m[h].away = ids[k], ~ m[h].ghost PROVE h = ids[k - 1]
      <4>1. PICK i \in Odd(n) : h = ids[i]
        BY <3>4
      <4>2. k = i + 1
        BY <1>6, <3>4, <4>1
      <4>3. i \in Nat
        BY DEF Odd
      <4>4. i = k - 1
        BY <4>2, <4>3
      <4> QED
        BY <4>1, <4>4
    <3>5. Part(m, ids[k]) = {ids[k - 1]}
      BY <3>2, <3>3, <3>4 DEF Part
    <3> QED
      BY <3>5
  <2> QED
    BY <2>1, <2>2
<1>8. ASSUME NEW p \in alive PROVE \E h : Part(m, p) = {h}
  <2>1. PICK k \in 1 .. n : ids[k] = p
    BY <1>1
  <2> QED
    BY <1>7, <2>1
<1>9. \A q \in alive : q \in 0 .. NumPlayers
  BY DEF Players
<1> QED
  BY <1>4, <1>5, <1>8, <1>9 DEF OneEach

\* Whatever the shuffle and whoever the ghost, each living player has one fight (Pairings).
LEMMA PairsMeet ==
  ASSUME alive \subseteq Players, NumPlayers \in Nat, NEW ids \in SetToSeqs(alive), NEW m \in Pairings(ids)
  PROVE  OneEach(m)
<1> DEFINE n == Len(ids)
           homes == Odd(n)
           meets(i, g) == IF i < n THEN [away |-> ids[i + 1], ghost |-> FALSE] ELSE [away |-> g, ghost |-> TRUE]
<1>1. /\ n \in Nat
      /\ \A i \in 1 .. n : ids[i] \in alive
      /\ \A i, j \in 1 .. n : ids[i] = ids[j] => i = j
  BY ShuffleCovers
<1>2. PICK g \in IF n % 2 = 0 THEN {0} ELSE GhostsFor(ids[n]) :
        m = [p \in {ids[i] : i \in homes} |-> meets(CHOOSE i \in homes : ids[i] = p, g)]
  BY DEF Pairings, Odd
<1>3. \A i \in homes : i \in 1 .. n
  BY DEF Odd
<1>4. ASSUME NEW i \in homes PROVE m[ids[i]] = meets(i, g)
  <2>1. (CHOOSE j \in homes : ids[j] = ids[i]) = i
    BY <1>1, <1>3
  <2> HIDE DEF homes, meets
  <2> QED
    BY <1>2, <2>1
<1>5. DOMAIN m = {ids[i] : i \in homes}
  BY <1>2
<1>6. ASSUME NEW i \in homes, i < n
      PROVE  m[ids[i]].away = ids[i + 1] /\ m[ids[i]].ghost = FALSE
  <2>1. m[ids[i]] = meets(i, g)
    BY <1>4
  <2>2. meets(i, g) = [away |-> ids[i + 1], ghost |-> FALSE]
    BY <1>6
  <2> QED
    BY ONLY <2>1, <2>2
<1>7. n \in homes => m[ids[n]].away \in alive \ {ids[n]} /\ m[ids[n]].ghost = TRUE
  <2> SUFFICES ASSUME n \in homes PROVE m[ids[n]].away \in alive \ {ids[n]} /\ m[ids[n]].ghost = TRUE
    OBVIOUS
  <2>1. g \in alive \ {ids[n]}
    BY <1>1, <1>2 DEF Odd, GhostsFor
  <2>2. m[ids[n]] = meets(n, g)
    BY <1>4
  <2>3. meets(n, g) = [away |-> g, ghost |-> TRUE]
    BY <1>1
  <2> QED
    BY ONLY <2>1, <2>2, <2>3
<1> QED
  BY <1>5, <1>6, <1>7, NeighboursMeet

\* So it is in every round.
LEMMA EverybodyPaired ==
  ASSUME alive \subseteq Players, NumPlayers \in Nat, NEW m \in BuildMatchups
  PROVE  OneEach(m)
<1>1. CASE IsPveRound(round)
  BY <1>1, MonstersForAll DEF BuildMatchups
<1>2. CASE ~ IsPveRound(round)
  <2>1. PICK ids \in SetToSeqs(alive) : m \in Pairings(ids)
    BY <1>2 DEF BuildMatchups
  <2> QED
    BY <2>1, PairsMeet
<1> QED
  BY <1>1, <1>2

-----------------------------------------------------------------------------
(* Standings. *)

\* Places are given from the last one up to those who are out, and the rest have health left.
Standings(living, place, h) ==
  LET placed == {p \in Players : place[p] # 0} IN
  /\ placed = Players \ living
  /\ \A p, q \in placed : place[p] = place[q] => p = q
  /\ {place[p] : p \in placed} = (Cardinality(living) + 1) .. NumPlayers
  /\ \A p \in living : h[p] > 0

Final == Placed = Players /\ placement[winner] = 1 /\ \A p, q \in Players : placement[p] = placement[q] => p = q

\* What a match keeps to, from one step to the next.
CourseInv ==
  /\ TypeOK
  /\ IF phase = "MatchOver" THEN Final ELSE Standings(alive, placement, health)
  /\ phase # "MotherNature" => undecided = {}
  /\ EverybodyFights

\* What MatchRoundsAssumption says, in the form the provers use.
LEMMA Parameters ==
  /\ NumPlayers \in Nat /\ NumPlayers > 1 /\ StartingHealth \in Nat /\ StartingHealth > 0
  /\ CombatTicks \in Nat /\ CombatTicks > 0 /\ CombatMinTicks \in Nat /\ CombatLingerTicks \in Nat /\ TickBound \in Nat
  /\ FightTicks \subseteq Nat /\ GiftHeals \subseteq Nat /\ MaxUnits \in Nat /\ MaxUnits > 0
  /\ LastRound \in Nat /\ RoundCycle \in 1 .. LastRound
BY MatchRoundsAssumption

\* Any part of the players can be counted.
LEMMA LivingAreFinite ==
  ASSUME NEW living \in SUBSET Players
  PROVE  IsFiniteSet(living) /\ Cardinality(living) \in 0 .. NumPlayers
<1>1. NumPlayers \in Nat
  BY Parameters
<1>2. IsFiniteSet(Players) /\ Cardinality(Players) = NumPlayers
  <2>1. IsFiniteSet(1 .. NumPlayers) /\ Cardinality(1 .. NumPlayers) = IF 1 > NumPlayers THEN 0 ELSE NumPlayers - 1 + 1
    BY ONLY <1>1, FS_Interval
  <2> QED
    BY <1>1, <2>1 DEF Players
<1>3. IsFiniteSet(living) /\ Cardinality(living) <= NumPlayers
  BY <1>2, FS_Subset
<1> QED
  BY <1>1, <1>3, FS_CardinalityType

\* The lobby is a correct standing: nobody is placed.
LEMMA CourseStarts == Init => CourseInv
<1> SUFFICES ASSUME Init PROVE CourseInv
  OBVIOUS
<1> USE DEF Init
<1>1. TypeOK
  <2>1. health \in [Players -> Int] /\ \A p \in Players : health[p] = StartingHealth
    BY Parameters
  <2> QED
    BY <2>1, Parameters DEF TypeOK
<1>2. Cardinality(Players) = NumPlayers
  <2>1. NumPlayers \in Nat
    BY Parameters
  <2>2. Cardinality(1 .. NumPlayers) = IF 1 > NumPlayers THEN 0 ELSE NumPlayers - 1 + 1
    BY ONLY <2>1, FS_Interval
  <2> QED
    BY <2>1, <2>2 DEF Players
<1>3. Standings(alive, placement, health)
  <2>1. {p \in Players : placement[p] # 0} = {}
    OBVIOUS
  <2>2. Cardinality(alive) + 1 .. NumPlayers = {}
    BY <1>2, Parameters
  <2> QED
    BY <2>1, <2>2, Parameters DEF Standings
<1> QED
  BY <1>1, <1>3 DEF CourseInv, EverybodyFights

\* A gift never lifts anybody above the health they started with, or costs health.
LEMMA HealingHelps ==
  ASSUME NEW x \in Int, x <= StartingHealth, NEW amount \in GiftHeals
  PROVE  Healed(x, amount) \in Int /\ Healed(x, amount) >= x /\ Healed(x, amount) <= StartingHealth
BY Parameters DEF Healed, Lesser

\* A fight ends with its phase at the latest.
LEMMA ClockIsBounded ==
  ASSUME NEW lastEnd \in FightTicks
  PROVE  ComputeCombatTicks(lastEnd) \in 0 .. CombatTicks
BY Parameters DEF ComputeCombatTicks, Lesser, Greater

\* A round opens with gifts or with planning.
LEMMA RoundBegins ==
  ASSUME NEW r \in 1 .. LastRound, BeginRound(r)
  PROVE  /\ phase' \in {"MotherNature", "Planning"} /\ round' \in 0 .. LastRound /\ ticks' \in 0 .. TickBound
         /\ undecided' \subseteq alive
BY Parameters DEF BeginRound, EnterMotherNature, Enter

\* The fights of a round are the pairs of its matchups, with a result each.
LEMMA FightsAreTyped ==
  ASSUME TypeOK, NEW m \in BuildMatchups, NEW results \in [DOMAIN m -> Results],
         fights' = [p \in DOMAIN m |-> [away |-> m[p].away, ghost |-> m[p].ghost,
                                        winner |-> results[p].winner, survivors |-> results[p].survivors]],
         alive' = alive
  PROVE  /\ DOMAIN fights' \subseteq Players /\ \A p \in DOMAIN fights' : fights'[p] \in Fights
         /\ \A p \in Players : Cardinality(FightsOf(p)') = IF p \in alive THEN 1 ELSE 0
         /\ \A h \in DOMAIN fights' : fights'[h].ghost => fights'[h].away \in alive \ {h}
<1>1. OneEach(m)
  BY EverybodyPaired, Parameters DEF TypeOK
<1>2. DOMAIN fights' = DOMAIN m /\ DOMAIN m \subseteq alive /\ alive \subseteq Players
  BY <1>1 DEF OneEach, TypeOK
<1>3. ASSUME NEW p \in DOMAIN m
      PROVE  fights'[p].away = m[p].away /\ fights'[p].ghost = m[p].ghost /\ fights'[p] \in Fights
  <2>1. m[p].away \in 0 .. NumPlayers /\ m[p].ghost \in BOOLEAN
    BY <1>1 DEF OneEach
  <2>2. results[p] \in Results
    OBVIOUS
  <2>3. results[p].winner \in {"Home", "Away", "Draw"} /\ results[p].survivors \in 0 .. MaxUnits
    BY <2>2, Parameters DEF Results
  <2>4. fights'[p] = [away |-> m[p].away, ghost |-> m[p].ghost,
                      winner |-> results[p].winner, survivors |-> results[p].survivors]
    OBVIOUS
  <2> QED
    BY ONLY <2>1, <2>3, <2>4 DEF Fights
<1>4. \A p \in Players : FightsOf(p)' = Part(m, p)
  BY <1>2, <1>3 DEF FightsOf, Part
<1>5. ASSUME NEW p \in Players PROVE Cardinality(FightsOf(p)') = IF p \in alive THEN 1 ELSE 0
  <2>1. CASE p \in alive
    <3>1. PICK h : Part(m, p) = {h}
      BY <1>1, <2>1 DEF OneEach
    <3>2. Cardinality({h}) = 1
      BY FS_Singleton
    <3> QED
      BY <1>4, <2>1, <3>1, <3>2
  <2>2. CASE p \notin alive
    <3>1. Part(m, p) = {}
      BY <1>1, <2>2 DEF OneEach
    <3> QED
      BY <1>4, <2>2, <3>1, FS_EmptySet
  <2> QED
    BY <2>1, <2>2
<1>6. \A h \in DOMAIN fights' : fights'[h].ghost => fights'[h].away \in alive \ {h}
  BY <1>1, <1>2, <1>3 DEF OneEach
<1> QED
  BY <1>2, <1>3, <1>5, <1>6

\* The fights of a round are settled: whoever falls takes the next places from below.
LEMMA FallenArePlaced ==
  ASSUME TypeOK, Standings(alive, placement, health), undecided = {}, EndCombat
  PROVE  TypeOK' /\ Standings(alive', placement', health')
<1> DEFINE h == [p \in Players |-> IF p \in alive THEN HealthAfter(p) ELSE health[p]]
           dying == {p \in alive : h[p] <= 0}
           n == Cardinality(alive)
           k == Cardinality(alive \ dying)
<1>1. /\ health' = h /\ alive' = alive \ dying
      /\ placement' = [p \in Players |-> IF p \in dying THEN PlaceOf(h, dying, p) ELSE placement[p]]
      /\ fights' = << >> /\ phase' = "Resolution" /\ ticks' = 0
      /\ UNCHANGED <<round, combatTicks, undecided, winner>>
  BY DEF EndCombat, Enter
<1>2. alive \subseteq Players /\ NumPlayers \in Nat
  BY Parameters DEF TypeOK
<1>3. ASSUME NEW p \in Players PROVE HealthAfter(p) \in Int /\ HealthAfter(p) <= health[p] /\ health[p] <= StartingHealth
  <2>1. health[p] \in Int /\ health[p] <= StartingHealth /\ round \in Nat /\ DOMAIN fights \subseteq Players
    BY Parameters DEF TypeOK
  <2>2. \A q \in DOMAIN fights : fights[q].survivors \in Nat
    BY Parameters DEF TypeOK, Fights
  <2> QED
    BY <2>1, <2>2, HealthFalls
<1>4. h \in [Players -> Int] /\ \A p \in Players : h[p] <= StartingHealth
  <2>1. \A p \in Players : health[p] \in Int /\ health[p] <= StartingHealth
    BY DEF TypeOK
  <2>2. StartingHealth \in Int
    BY Parameters
  <2>3. ASSUME NEW p \in Players PROVE h[p] \in Int /\ h[p] <= StartingHealth
    BY <1>3, <2>1, <2>2
  <2> QED
    BY <2>3
<1>5. dying \subseteq alive
  OBVIOUS
<1>6. n \in 0 .. NumPlayers /\ k \in 0 .. n
  <2>1. IsFiniteSet(alive) /\ n \in 0 .. NumPlayers
    BY <1>2, LivingAreFinite
  <2>2. k \in 0 .. NumPlayers
    <3> HIDE DEF dying
    <3> QED
      BY <1>2, LivingAreFinite
  <2>3. k <= n
    <3> HIDE DEF dying
    <3> QED
      BY <2>1, FS_Subset
  <2> QED
    BY <2>1, <2>2, <2>3
<1> HIDE DEF h
<1>7. \A p \in alive \ dying : h[p] > 0
  BY <1>2, <1>4
<1>8. dying \in SUBSET alive
  OBVIOUS
<1> HIDE DEF dying
<1>9. /\ \A p \in dying : PlaceOf(h, dying, p) \in k + 1 .. n
      /\ \A p, q \in dying : PlaceOf(h, dying, p) = PlaceOf(h, dying, q) => p = q
      /\ k + 1 .. n \subseteq {PlaceOf(h, dying, p) : p \in dying}
  BY <1>2, <1>4, <1>8, PlacesOfFallen
<1>10. /\ \A p \in Players : p \in alive <=> placement[p] = 0
       /\ \A p, q \in Players \ alive : placement[p] = placement[q] => p = q
       /\ {placement[p] : p \in Players \ alive} = n + 1 .. NumPlayers
  BY <1>2 DEF Standings
<1> HIDE DEF n, k
<1>11. \A p \in dying : placement'[p] = PlaceOf(h, dying, p) /\ placement'[p] \in k + 1 .. n
  BY <1>1, <1>2, <1>8, <1>9
<1>12. \A p \in Players \ alive : placement'[p] = placement[p] /\ placement[p] \in n + 1 .. NumPlayers
  BY <1>1, <1>8, <1>10
<1>13. \A p \in alive \ dying : placement'[p] = 0
  BY <1>1, <1>2, <1>10
<1>14. {p \in Players : placement'[p] # 0} = Players \ alive'
  <2>1. ASSUME NEW p \in Players PROVE placement'[p] # 0 <=> p \notin alive'
    <3>1. CASE p \in dying
      <4>1. p \notin alive'
        BY <1>1, <3>1
      <4>2. placement'[p] \in k + 1 .. n
        BY <1>11, <3>1
      <4>3. placement'[p] # 0
        BY ONLY <1>6, <4>2
      <4> QED
        BY <4>1, <4>3
    <3>2. CASE p \in Players \ alive
      BY <1>1, <1>6, <1>12, <3>2
    <3>3. CASE p \in alive \ dying
      BY <1>1, <1>13, <3>3
    <3> QED
      BY <3>1, <3>2, <3>3
  <2> QED
    BY <2>1
<1>15. Players \ alive' = dying \cup (Players \ alive)
  BY <1>1, <1>2, <1>8
<1>16. ASSUME NEW p \in dying \cup (Players \ alive), NEW q \in dying \cup (Players \ alive), placement'[p] = placement'[q]
       PROVE  p = q
  BY <1>6, <1>9, <1>10, <1>11, <1>12, <1>16
<1>17. {placement'[p] : p \in dying \cup (Players \ alive)} = k + 1 .. NumPlayers
  <2>1. {placement'[p] : p \in dying} = k + 1 .. n
    BY <1>9, <1>11
  <2>2. {placement'[p] : p \in Players \ alive} = n + 1 .. NumPlayers
    BY <1>10, <1>12
  <2>3. (k + 1 .. n) \cup (n + 1 .. NumPlayers) = k + 1 .. NumPlayers
    BY <1>2, <1>6
  <2>4. {placement'[p] : p \in dying \cup (Players \ alive)}
        = {placement'[p] : p \in dying} \cup {placement'[p] : p \in Players \ alive}
    OBVIOUS
  <2> QED
    BY <2>1, <2>2, <2>3, <2>4
<1>18. Standings(alive', placement', health')
  BY <1>1, <1>7, <1>14, <1>15, <1>16, <1>17 DEF Standings, k
<1>19. TypeOK'
  <2>1. placement' \in [Players -> 0 .. NumPlayers]
    <3>1. \A p \in Players : p \in dying \/ p \in Players \ alive \/ p \in alive \ dying
      OBVIOUS
    <3>2. \A p \in Players : placement'[p] \in 0 .. NumPlayers
      BY <1>2, <1>6, <1>11, <1>12, <1>13, <3>1
    <3> QED
      BY <1>1, <3>2
  <2>2. undecided' \subseteq alive'
    BY <1>1
  <2> QED
    BY <1>1, <1>4, <2>1, <2>2, Parameters DEF TypeOK
<1> QED
  BY <1>18, <1>19

\* Whoever is left gets the first place.
LEMMA LastOneWins ==
  ASSUME TypeOK, Standings(alive, placement, health), EndMatch
  PROVE  TypeOK' /\ Final'
<1>1. /\ phase' = "MatchOver" /\ ticks' = 0
      /\ placement' = [p \in Players |-> IF p \in alive THEN 1 ELSE placement[p]]
      /\ winner' = CHOOSE p \in Players : placement'[p] = 1
      /\ UNCHANGED <<round, combatTicks, undecided, health, alive, fights>>
  BY DEF EndMatch, Enter
<1>2. NumPlayers \in Nat /\ NumPlayers > 1 /\ alive \subseteq Players
  BY Parameters DEF TypeOK
<1>3. Cardinality(alive) \in {0, 1} /\ IsFiniteSet(alive)
  <2>1. Cardinality(alive) <= 1
    BY DEF EndMatch, IsDecided
  <2> QED
    BY <1>2, <2>1, LivingAreFinite
<1>4. /\ \A p \in Players : p \in alive <=> placement[p] = 0
      /\ \A p, q \in Players \ alive : placement[p] = placement[q] => p = q
      /\ {placement[p] : p \in Players \ alive} = Cardinality(alive) + 1 .. NumPlayers
  BY <1>2 DEF Standings
<1>5. \A p, q \in Players : placement'[p] = placement'[q] => p = q
  <2>1. CASE Cardinality(alive) = 0
    <3>1. alive = {}
      BY <1>3, <2>1, FS_EmptySet
    <3> QED
      BY <1>1, <1>4, <3>1
  <2>2. CASE Cardinality(alive) = 1
    <3>1. PICK a : alive = {a}
      BY <1>3, <2>2, FS_Singleton
    <3>2. \A p \in Players \ alive : placement[p] \in 2 .. NumPlayers
      BY <1>4, <2>2
    <3> QED
      BY <1>1, <1>4, <3>1, <3>2
  <2> QED
    BY <1>3, <2>1, <2>2
<1>6. \E p \in Players : placement'[p] = 1
  <2>1. CASE Cardinality(alive) = 0
    <3>1. alive = {}
      BY <1>3, <2>1, FS_EmptySet
    <3>2. 1 \in {placement[p] : p \in Players \ alive}
      BY <1>2, <1>4, <2>1
    <3> QED
      BY <1>1, <3>1, <3>2
  <2>2. CASE Cardinality(alive) = 1
    <3>1. PICK a : alive = {a}
      BY <1>3, <2>2, FS_Singleton
    <3> QED
      BY <1>1, <1>2, <3>1
  <2> QED
    BY <1>3, <2>1, <2>2
<1>7. winner' \in Players /\ placement'[winner'] = 1
  BY <1>1, <1>6
<1>8. \A p \in Players : placement'[p] # 0 /\ placement'[p] \in 0 .. NumPlayers
  <2> SUFFICES ASSUME NEW p \in Players PROVE placement'[p] # 0 /\ placement'[p] \in 0 .. NumPlayers
    OBVIOUS
  <2>1. placement[p] \in 0 .. NumPlayers
    BY DEF TypeOK
  <2> QED
    BY <1>1, <1>2, <1>4, <2>1
<1>9. Placed' = Players
  BY <1>8 DEF Placed
<1>10. TypeOK'
  <2>1. placement' \in [Players -> 0 .. NumPlayers]
    BY <1>1, <1>8
  <2>2. winner' \in 0 .. NumPlayers
    BY <1>2, <1>7 DEF Players
  <2> QED
    BY <1>1, <2>1, <2>2, Parameters DEF TypeOK
<1> QED
  BY <1>5, <1>7, <1>9, <1>10 DEF Final

\* Gifts only add to the health of the living.
LEMMA GiftsKeepStandings ==
  ASSUME TypeOK, Standings(alive, placement, health), UNCHANGED <<alive, placement>>,
         DOMAIN health' = Players, \A p \in Players : health'[p] \in Int /\ health'[p] >= health[p]
  PROVE  Standings(alive', placement', health')
<1>1. \A p \in alive : p \in Players /\ health[p] \in Int
  BY DEF TypeOK
<1> QED
  BY <1>1 DEF Standings

\* Every step of the match keeps the invariant.
LEMMA CourseKept == CourseInv /\ [Next]_vars => CourseInv'
<1> SUFFICES ASSUME CourseInv, [Next]_vars
             PROVE  CourseInv'
  OBVIOUS
<1>0. TypeOK /\ (phase = "MatchOver" => Final) /\ (phase # "MatchOver" => Standings(alive, placement, health))
      /\ (phase # "MotherNature" => undecided = {}) /\ EverybodyFights
  BY DEF CourseInv
<1>1. ASSUME Start \/ NextRound
      PROVE  CourseInv'
  <2>1. PICK r \in 1 .. LastRound : BeginRound(r)
    <3>1. CASE Start
      BY <3>1, Parameters DEF Start
    <3>2. CASE NextRound
      <4>1. (IF round = LastRound THEN LastRound + 1 - RoundCycle ELSE round + 1) \in 1 .. LastRound
        BY <1>0, Parameters DEF TypeOK
      <4> QED
        BY <3>2, <4>1 DEF NextRound
    <3> QED
      BY <1>1, <3>1, <3>2
  <2>2. UNCHANGED <<combatTicks, health, alive, placement, fights, winner>> /\ phase # "MatchOver"
    BY <1>1 DEF Start, NextRound
  <2>3. /\ phase' \in {"MotherNature", "Planning"} /\ round' \in 0 .. LastRound /\ ticks' \in 0 .. TickBound
        /\ undecided' \subseteq alive
    BY <2>1, RoundBegins
  <2>4. phase' # "MotherNature" => undecided' = {}
    BY <2>1 DEF BeginRound, EnterMotherNature, Enter
  <2>5. TypeOK'
    BY <1>0, <2>2, <2>3 DEF TypeOK
  <2>6. Standings(alive', placement', health')
    BY <1>0, <2>2
  <2> QED
    BY <2>3, <2>4, <2>5, <2>6 DEF CourseInv, EverybodyFights
<1>2. ASSUME NEW p \in Players, TryPickGift(p)
      PROVE  CourseInv'
  <2>1. PICK amount \in GiftHeals : health' = [health EXCEPT ![p] = Healed(@, amount)]
    BY <1>2 DEF TryPickGift
  <2>2. phase = "MotherNature" /\ undecided' = undecided \ {p}
        /\ UNCHANGED <<phase, round, ticks, combatTicks, alive, placement, fights, winner>>
    BY <1>2 DEF TryPickGift
  <2>3. health \in [Players -> Int] /\ \A q \in Players : health[q] <= StartingHealth
    BY <1>0 DEF TypeOK
  <2>4. \A q \in Players : health'[q] \in Int /\ health'[q] >= health[q] /\ health'[q] <= StartingHealth
    <3>1. Healed(health[p], amount) \in Int /\ Healed(health[p], amount) >= health[p]
          /\ Healed(health[p], amount) <= StartingHealth
      BY <2>3, HealingHelps
    <3> QED
      BY <2>1, <2>3, <3>1
  <2>5. DOMAIN health' = Players
    BY <2>1, <2>3
  <2>6. Standings(alive', placement', health')
    BY <1>0, <2>2, <2>4, <2>5, GiftsKeepStandings
  <2>7. TypeOK'
    <3>1. health' \in [Players -> Int]
      BY <2>1, <2>3, <2>4
    <3> QED
      BY <1>0, <2>2, <2>4, <3>1 DEF TypeOK
  <2> QED
    BY <2>2, <2>6, <2>7 DEF CourseInv, EverybodyFights
<1>3. ASSUME EndMotherNature
      PROVE  CourseInv'
  <2>1. PICK amounts \in [undecided -> GiftHeals] :
          health' = [p \in Players |-> IF p \in undecided THEN Healed(health[p], amounts[p]) ELSE health[p]]
    BY <1>3 DEF EndMotherNature
  <2>2. phase = "MotherNature" /\ phase' = "Planning" /\ ticks' = 0 /\ undecided' = {}
        /\ UNCHANGED <<round, combatTicks, alive, placement, fights, winner>>
    BY <1>3 DEF EndMotherNature, Enter
  <2>3. health \in [Players -> Int] /\ \A q \in Players : health[q] <= StartingHealth
    BY <1>0 DEF TypeOK
  <2>4. ASSUME NEW q \in Players
        PROVE  health'[q] \in Int /\ health'[q] >= health[q] /\ health'[q] <= StartingHealth
    <3>1. CASE q \in undecided
      <4>1. amounts[q] \in GiftHeals
        BY <3>1
      <4>2. Healed(health[q], amounts[q]) \in Int /\ Healed(health[q], amounts[q]) >= health[q]
            /\ Healed(health[q], amounts[q]) <= StartingHealth
        BY <2>3, <4>1, HealingHelps
      <4> QED
        BY <2>1, <3>1, <4>2
    <3>2. CASE q \notin undecided
      BY <2>1, <2>3, <3>2, Parameters
    <3> QED
      BY <3>1, <3>2
  <2>5. DOMAIN health' = Players
    BY <2>1
  <2>6. Standings(alive', placement', health')
    BY <1>0, <2>2, <2>4, <2>5, GiftsKeepStandings
  <2>7. TypeOK'
    <3>1. health' \in [Players -> Int]
      BY <2>1, <2>4
    <3> QED
      BY <1>0, <2>2, <2>4, <3>1, Parameters DEF TypeOK
  <2> QED
    BY <2>2, <2>6, <2>7 DEF CourseInv, EverybodyFights
<1>4. ASSUME StartCombat
      PROVE  CourseInv'
  <2>1. PICK m \in BuildMatchups : \E results \in [DOMAIN m -> Results] :
          fights' = [p \in DOMAIN m |-> [away |-> m[p].away, ghost |-> m[p].ghost,
                                         winner |-> results[p].winner, survivors |-> results[p].survivors]]
    BY <1>4 DEF StartCombat
  <2>2. PICK results \in [DOMAIN m -> Results] :
          fights' = [p \in DOMAIN m |-> [away |-> m[p].away, ghost |-> m[p].ghost,
                                         winner |-> results[p].winner, survivors |-> results[p].survivors]]
    BY <2>1
  <2>3. phase = "Planning" /\ phase' = "Combat" /\ ticks' = 0 /\ UNCHANGED <<round, undecided, health, alive, placement, winner>>
    BY <1>4 DEF StartCombat, Enter
  <2>4. combatTicks' \in 0 .. CombatTicks
    BY <1>4, ClockIsBounded DEF StartCombat
  <2>5. /\ DOMAIN fights' \subseteq Players /\ \A p \in DOMAIN fights' : fights'[p] \in Fights
        /\ \A p \in Players : Cardinality(FightsOf(p)') = IF p \in alive THEN 1 ELSE 0
        /\ \A h \in DOMAIN fights' : fights'[h].ghost => fights'[h].away \in alive \ {h}
    BY <1>0, <2>2, <2>3, FightsAreTyped
  <2>6. TypeOK'
    BY <1>0, <2>3, <2>4, <2>5, Parameters DEF TypeOK
  <2>7. \A h \in DOMAIN fights' : \A p \in Losers(h, fights[h])' : h \in FightsOf(p)'
    BY DEF Losers, FightsOf
  <2>8. EverybodyFights'
    BY <2>3, <2>5, <2>7 DEF EverybodyFights
  <2>9. Standings(alive', placement', health')
    BY <1>0, <2>3
  <2> QED
    BY <1>0, <2>3, <2>6, <2>8, <2>9 DEF CourseInv
<1>5. ASSUME EndCombat
      PROVE  CourseInv'
  <2>1. phase = "Combat" /\ phase' = "Resolution" /\ undecided' = undecided
    BY <1>5 DEF EndCombat, Enter
  <2>2. TypeOK' /\ Standings(alive', placement', health')
    BY <1>0, <1>5, <2>1, FallenArePlaced
  <2> QED
    BY <1>0, <2>1, <2>2 DEF CourseInv, EverybodyFights
<1>6. ASSUME EndMatch
      PROVE  CourseInv'
  <2>1. phase = "Resolution" /\ phase' = "MatchOver" /\ undecided' = undecided
    BY <1>6 DEF EndMatch, Enter
  <2>2. TypeOK' /\ Final'
    BY <1>0, <1>6, <2>1, LastOneWins
  <2> QED
    BY <1>0, <2>1, <2>2 DEF CourseInv, EverybodyFights
<1>7. ASSUME ticks < TickBound, ticks' = ticks + 1,
             UNCHANGED <<phase, round, combatTicks, undecided, health, alive, placement, fights, winner>>
      PROVE  CourseInv'
  <2>1. TypeOK'
    BY <1>0, <1>7, Parameters DEF TypeOK
  <2>2. EverybodyFights'
    BY <1>0, <1>7 DEF EverybodyFights, FightsOf, Losers, StageOf
  <2>3. (phase = "MatchOver" => Final') /\ (phase # "MatchOver" => Standings(alive', placement', health'))
    BY <1>0, <1>7 DEF Final, Placed
  <2> QED
    BY <1>0, <1>7, <2>1, <2>2, <2>3 DEF CourseInv
<1>8. CASE UNCHANGED vars
  <2> USE <1>8 DEF vars
  <2>1. TypeOK'
    BY <1>0 DEF TypeOK
  <2>2. EverybodyFights'
    BY <1>0, <1>8 DEF EverybodyFights, FightsOf, Losers, StageOf
  <2>3. (phase = "MatchOver" => Final') /\ (phase # "MatchOver" => Standings(alive', placement', health'))
    BY <1>0 DEF Final, Placed
  <2> QED
    BY <1>0, <2>1, <2>2, <2>3 DEF CourseInv
<1> QED
  BY <1>1, <1>2, <1>3, <1>4, <1>5, <1>6, <1>7, <1>8 DEF Next, Tick, AdvancePhase

\* Type correctness: among others, no gift lifts a player above the starting health, no clock
\* runs past its phase, and the round number stays where the schedule repeats.
THEOREM CourseTypes == Spec => []TypeOK
<1>1. CourseInv => TypeOK
  BY DEF CourseInv
<1> QED
  BY CourseStarts, CourseKept, <1>1, PTL DEF Spec

\* Every place is given once, from the last one up, to those who fall and only to them, also when
\* several or all fall in the same round; the last one, or the best of the last round, gets the
\* first (ApplyCombatOutcomes, EndMatch).
THEOREM StandingsAgreeKept == Spec => []StandingsAgree
<1>1. CourseInv => StandingsAgree
  <2> SUFFICES ASSUME CourseInv PROVE StandingsAgree
    OBVIOUS
  <2>1. CASE phase = "MatchOver"
    BY <2>1 DEF CourseInv, Final, StandingsAgree, Placed
  <2>2. CASE phase # "MatchOver"
    BY <2>2 DEF CourseInv, Standings, StandingsAgree, Placed
  <2> QED
    BY <2>1, <2>2
<1> QED
  BY CourseStarts, CourseKept, <1>1, PTL DEF Spec

\* For any number of players, odd or even, and any shuffle, each living player fights exactly one
\* fight of their own, and a ghost is of another living player (BuildMatchups).
THEOREM EverybodyFightsKept == Spec => []EverybodyFights
<1>1. CourseInv => EverybodyFights
  BY DEF CourseInv
<1> QED
  BY CourseStarts, CourseKept, <1>1, PTL DEF Spec

-----------------------------------------------------------------------------
(* The course of the match.                                                *)

\* The match starts where its course does.
LEMMA CycleStart == Init => Cycle!Init
BY DEF Init, Cycle!Init

\* Both decide on the same players.
LEMMA DecidedAlike == IsDecided <=> Cycle!Decided
BY DEF IsDecided, Cycle!Decided, Cardinality, Cycle!Cardinality

\* A new round is one of the two the course knows.
LEMMA BeginRoundOpens ==
  ASSUME NEW r, BeginRound(r)
  PROVE  Cycle!Opens(phase')
BY DEF BeginRound, EnterMotherNature, Enter, Cycle!Opens

\* A step of the match is a step of its course, or none.
LEMMA CycleStep == [Next]_vars => [Cycle!Next]_Cycle!vars
<1> SUFFICES ASSUME [Next]_vars
             PROVE  [Cycle!Next]_Cycle!vars
  OBVIOUS
<1> USE DEF Cycle!vars, Cycle!Next
<1>1. CASE Start
  BY <1>1, BeginRoundOpens DEF Start, Cycle!Start
<1>2. CASE \E p \in Players : TryPickGift(p)
  BY <1>2 DEF TryPickGift
<1>3. CASE UNCHANGED vars
  BY <1>3 DEF vars
<1>4. CASE Tick /\ UNCHANGED <<phase, alive>>
  BY <1>4
<1>5. CASE EndMotherNature
  BY <1>5 DEF EndMotherNature, Enter, Cycle!Plan
<1>6. CASE StartCombat
  BY <1>6 DEF StartCombat, Enter, Cycle!Fight
<1>7. CASE EndCombat
  BY <1>7 DEF EndCombat, Enter, Cycle!Settle
<1>8. CASE NextRound
  <2>1. phase = "Resolution" /\ ~ IsDecided /\ alive' = alive
    BY <1>8 DEF NextRound
  <2>2. Cycle!Opens(phase')
    BY <1>8, BeginRoundOpens DEF NextRound
  <2> QED
    BY <2>1, <2>2, DecidedAlike DEF Cycle!NextRound
<1>9. CASE EndMatch
  BY <1>9, DecidedAlike DEF EndMatch, Enter, Cycle!Finish
<1> QED
  BY <1>1, <1>2, <1>3, <1>4, <1>5, <1>6, <1>7, <1>8, <1>9 DEF Next, Tick, AdvancePhase

\* However long the phases, whoever fights whom and whatever the fights decide, the
\* match follows MatchCycle (MatchManager::AdvancePhase): players leave only when the
\* fights of a round are settled, never come back, and the match is over exactly at the
\* first resolution that leaves at most one of them.
THEOREM RoundsFollowCycle == Spec => FollowsCycle
<1> QED
  BY CycleStart, CycleStep, PTL DEF Spec, FollowsCycle, Cycle!Spec
=============================================================================
