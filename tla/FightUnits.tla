---------------------------- MODULE FightUnits ------------------------------
(***************************************************************************)
(* The state of one fight (class Fight of CombatSimulator.cpp) as a        *)
(* record, and the helpers that change one unit: statuses, hit points,     *)
(* targets, places on the grid.  Units are numbered as units_ is: in       *)
(* ascending UnitId, summons appended.  0 stands for "no unit".            *)
(*                                                                         *)
(* `shown` is what a viewer who plays the events back sees of each unit.   *)
(* Crits, armor and the percent modifiers of a stat are left out: damage   *)
(* is what is left after them.                                             *)
(***************************************************************************)
EXTENDS Hexes

CONSTANTS
  Kinds,              \* champion definitions: name -> record
  HealingCutPercent,  \* overtimeHealingCutPercent
  DamageRampPercent,  \* overtimeDamageRampPercent
  TicksPerSecond      \* kTicksPerSecond

NoHex == [x |-> -1, y |-> -1]
Forever == 1000000000        \* numeric_limits<int>::max(): a permanent shield or status

Kind(u) == Kinds[u.kind]
Unit(f, i) == f.units[i]
WithUnit(f, i, u) == [f EXCEPT !.units[i] = u]

\* Op(g, i) for every unit in order.
ForEachUnit(f, Op(_, _)) == Then(f, LAMBDA g : Fold(Op, g, [i \in DOMAIN g.units |-> i]))

\* The numbers of a set in ascending order.
InOrder(S) == SelectSeq([i \in 1 .. Max({0} \cup S) |-> i], LAMBDA i : i \in S)

\* A champion's own traits and hooks, and those of the items it carries.
Slot(hook) == [hook |-> hook, counter |-> 0, fired |-> 0, armed |-> TRUE]

MakeUnit(kind, team, at, items) ==
  LET k == Kinds[kind]
      hooks == FoldLeft(LAMBDA s, item : s \o item.hooks, k.hooks, items)
  IN [kind |-> kind, team |-> team, at |-> at, alive |-> TRUE,
      traits |-> UNION ({k.traits} \cup {item.traits : item \in ToSet(items)}),
      hp |-> k.hp, maxHp |-> k.hp, baseMaxHp |-> k.hp, damage |-> k.damage,
      mana |-> k.startMana, maxMana |-> k.maxMana, baseMaxMana |-> k.maxMana,
      lockedUntil |-> 0, nextAttackTick |-> 0, nextMoveTick |-> 0, nextPathTick |-> 0,
      target |-> 0, pathGoal |-> NoHex, path |-> <<>>, attacksSinceCast |-> 0, totalAttacks |-> 0,
      statuses |-> <<>>, shields |-> <<>>, dots |-> <<>>,
      slots |-> [j \in DOMAIN hooks |-> Slot(hooks[j])], inside |-> {},
      totalDealt |-> 0, lastDamagedTick |-> -1, manaFromDamage |-> 0,
      channel |-> 0, channelEnd |-> 0, killer |-> 0, onKill |-> <<>>,
      summon |-> FALSE, pilot |-> 0, mech |-> 0]

-----------------------------------------------------------------------------
(* What the stream tells a viewer.                                         *)

\* An event that carries hpAfter.
TellHp(f, i) == Then(f, LAMBDA g : [g EXCEPT !.shown[i].hp = g.units[i].hp])

TellPlace(f, i) == Then(f, LAMBDA g : [g EXCEPT !.shown[i].at = g.units[i].at])

TellDeath(f, i) == [f EXCEPT !.shown[i].alive = FALSE]

TellSpawn(f, i) ==
  Then(f,
       LAMBDA g : [g EXCEPT !.shown = Append(@, [hp |-> g.units[i].hp, at |-> g.units[i].at, alive |-> TRUE])])

-----------------------------------------------------------------------------
(* Statuses.                                                               *)

Has(u, type) == \E k \in DOMAIN u.statuses : u.statuses[k].type = type

\* StatusPercent: the statuses of one type add up.
Sum(u, type) == FoldLeft(LAMBDA n, s : IF s.type = type THEN n + s.n ELSE n, 0, u.statuses)

\* WoundPercent: of several wounds the strongest applies.
WoundPercent(u) == Max({0} \cup {s.n : s \in {t \in ToSet(u.statuses) : t.type = "Wound"}})

Without(statuses, Test(_)) == SelectSeq(statuses, LAMBDA s : ~Test(s))

\* A unit in the air is as helpless as a stunned one.
CrowdControl == {"Stun", "Root", "Knockup"}
Helpless == {"Stun", "Knockup"}
IsDisabled(u) == \E type \in Helpless \cup {"Piloting"} : Has(u, type)
IsStationary(u) == Kind(u).stationary /\ ~Has(u, "Awakened")
CanAutoTarget(u) == ~Has(u, "Untargetable") /\ ~Has(u, "AggroDrop") /\ ~Has(u, "Piloting")
CanBeAffectedByEnemies(u) == ~Has(u, "Untargetable") /\ ~Has(u, "Piloting")

\* Max HP follows its statuses: HP grows with it, and is only clipped when it shrinks.
RecomputeMaxHp(u) ==
  LET max == Max({1, u.baseMaxHp + Sum(u, "BonusMaxHp")})
  IN [u EXCEPT !.maxHp = max,
               !.hp = IF max > u.maxHp THEN @ + (max - u.maxHp) ELSE Min({@, max})]

\* The mana bar follows its statuses, never below 30 % of itself; mana above a shorter bar stays.
RecomputeMaxMana(u) ==
  IF u.baseMaxMana = 0 THEN u
  ELSE [u EXCEPT !.maxMana = Max({1, (u.baseMaxMana * Max({30, 100 + Sum(u, "ManaCost")})) \div 100})]

\* AddStatus: what a status does to its holder, unless it is refused.
Refused(u, self, type) == type \in CrowdControl /\ ~self /\ Has(u, "CcImmunity")

AddStatus(u, status, refresh) ==
  LET same == {k \in DOMAIN u.statuses : u.statuses[k].type = status.type}
      merged == [k \in DOMAIN u.statuses |->
                   IF k = Min(same)
                   THEN [u.statuses[k] EXCEPT !.n = Max({@, status.n}), !.until = Max({@, status.until})]
                   ELSE u.statuses[k]]
      merges == (status.type = "Wound" \/ refresh) /\ same # {}
  IN RecomputeMaxHp([u EXCEPT !.statuses = IF merges THEN merged ELSE Append(@, status)])

Status(type, n, until, source) == [type |-> type, n |-> n, until |-> until, source |-> source, aura |-> 0]

\* The first status of a type is used up, whole or by one charge.
Spent(u, type) ==
  LET k == SelectInSeq(u.statuses, LAMBDA s : s.type = type)
  IN IF type = "EmpoweredAttack" /\ u.statuses[k].n > 1
     THEN [u EXCEPT !.statuses[k].n = @ - 1]
     ELSE [u EXCEPT !.statuses = RemoveAt(@, k)]

-----------------------------------------------------------------------------
(* Hit points, targets and places.                                         *)

\* SuddenDeathHealing, SuddenDeathDamage: overtime cuts heals and shields and lets hits grow.
HealingReceived(f, u, amount) ==
  LET amplified == (amount * (100 + Sum(u, "HealingAmp"))) \div 100
  IN IF f.overtimeAt < 0 THEN amplified ELSE (amplified * (100 - HealingCutPercent)) \div 100

HitReceived(f, raw) ==
  IF f.overtimeAt < 0 THEN raw
  ELSE (raw * (100 + ((f.tick - f.overtimeAt) \div TicksPerSecond) * DamageRampPercent)) \div 100

\* HealUnit asks whether the unit is alive, not whether it has hit points left.
HealUnit(f, i, amount) ==
  LET u == f.units[i]
      effective == (HealingReceived(f, u, amount) * (100 - Min({100, WoundPercent(u)}))) \div 100
      restored == Min({effective, u.maxHp - u.hp})
  IN IF ~u.alive \/ amount <= 0 \/ restored <= 0 THEN f
     ELSE TellHp([f EXCEPT !.units[i].hp = @ + restored], i)

SetTarget(u, target) ==
  [u EXCEPT !.target = target, !.path = <<>>,
            !.attacksSinceCast = IF Kind(u).ability.resets THEN 0 ELSE @]

\* The grid follows a unit that moves; the event says where it went.
Placed(f, i, at) ==
  TellPlace([f EXCEPT !.units[i].at = at, !.blocked = (@ \ {f.units[i].at}) \cup {at}], i)

Far(f, i, j) == Distance(f.units[i].at, f.units[j].at)
InRange(f, i, j) == Far(f, i, j) <= Kind(f.units[i]).range

\* Of a set of units the one of the lowest rank; ties to the lowest number; 0 of none.
Lowest(S, rank) ==
  IF S = {} THEN 0 ELSE CHOOSE i \in S : \A j \in S : rank[i] < rank[j] \/ (rank[i] = rank[j] /\ i <= j)

\* ClosestEnemy: of the candidates the nearest.
Nearest(f, i, candidates) == Lowest(candidates, [j \in candidates |-> Far(f, i, j)])

Enemies(f, i) == {j \in DOMAIN f.units : f.units[j].alive /\ f.units[j].team # f.units[i].team}
ReachableEnemies(f, i) == {j \in Enemies(f, i) : CanBeAffectedByEnemies(f.units[j])}
Allies(f, i) == {j \in DOMAIN f.units : f.units[j].alive /\ f.units[j].team = f.units[i].team}

\* A stun breaks a channel: its pulses and its finale are cancelled.
InterruptChannel(f, i) ==
  IF f.units[i].channel = 0 THEN f
  ELSE [f EXCEPT !.units[i].channel = 0,
                         !.units[i].lockedUntil = Min({@, f.tick})]
=============================================================================
