--------------------------- MODULE FightEffects -----------------------------
(***************************************************************************)
(* What a cast, a hook, a hit and a death do to a fight                    *)
(* (CombatSimulator.cpp, "3. RESOLVE").  A cast record carries the effects *)
(* of its ability; an effect is a record [do, to, ...] as a champion's     *)
(* data defines it (Ability.h).                                            *)
(***************************************************************************)
EXTENDS FightUnits

CONSTANTS
  MaxSummonsPerFight,          \* kMaxSummonsPerFight
  MaxHookRounds,               \* kMaxHookRounds
  RawDamagePerMana             \* rawDamagePerMana

-----------------------------------------------------------------------------
(* Casts: whom an effect lands on and how big it is.                       *)

CastRecord(f, by, target, ability) ==
  [by |-> by, target |-> target,
   centre |-> f.units[IF target = 0 THEN by ELSE target].at,
   name |-> ability.name, effects |-> ability.effects, stopsOnDeath |-> ability.stopsOnDeath,
   serial |-> 0, attacker |-> 0, victim |-> 0, damage |-> 0, fromHook |-> FALSE, origin |-> -1]

\* The numbers of S ordered by their rank, then by number; at most limit of them.
Ranked(S, rank, limit) ==
  LET ordered == SortSeq(InOrder(S), LAMBDA a, b : rank[a] < rank[b] \/ (rank[a] = rank[b] /\ a < b))
  IN SubSeq(ordered, 1, Min({limit, Cardinality(S)}))

\* DensestEnemyCenter: the enemy with the most enemies around it.
DensestEnemy(f, by, radius) ==
  LET foes == ReachableEnemies(f, by)
  IN Lowest(foes, [i \in foes |-> -Cardinality({j \in foes : Far(f, i, j) <= radius})])

\* ResolveTargetsRaw.
TargetsRaw(f, c, e) ==
  LET foes == ReachableEnemies(f, c.by)
      reachable == Allies(f, c.by) \cup foes
      sided == CASE e.side = "enemies" -> foes [] e.side = "allies" -> Allies(f, c.by) [] OTHER -> reachable
      Within(centre) == {i \in sided : Distance(f.units[i].at, centre) <= e.radius
                                       /\ (e.center \/ f.units[i].at # centre)}
      Area(centre) ==
        IF e.count = 0 THEN InOrder(Within(centre))
        ELSE Ranked(Within(centre), [i \in Within(centre) |-> Distance(f.units[i].at, centre)], e.count)
      One(i) == IF i \in reachable THEN <<i>> ELSE <<>>
      line[n \in 0 .. e.radius] ==
        IF n = 0 THEN c.centre
        ELSE Neighbor(line[n - 1], DirectionToward(f.units[c.by].at, c.centre))
      behind == {i \in sided : \E n \in 1 .. e.radius : line[n] = f.units[i].at}
  IN CASE e.to = "Self" -> IF f.units[c.by].alive THEN <<c.by>> ELSE <<>>
       [] e.to = "CurrentTarget" -> One(c.target)
       [] e.to = "TriggerAttacker" -> One(c.attacker)
       [] e.to = "TriggerVictim" -> One(c.victim)
       [] e.to = "AreaAroundTarget" -> Area(c.centre)
       [] e.to = "AreaAroundSelf" -> Area(f.units[c.by].at)
       [] e.to = "AreaAroundDensestEnemy" ->
            IF foes = {} THEN <<>> ELSE Area(f.units[DensestEnemy(f, c.by, e.radius)].at)
       [] e.to = "ClosestEnemies" -> Ranked(foes, [i \in foes |-> Far(f, c.by, i)], e.count)
       [] e.to = "LineBehindTarget" ->
            IF c.target = 0 THEN <<>>
            ELSE Ranked(behind, [i \in behind |-> Distance(c.centre, f.units[i].at)], Cardinality(behind))
       [] e.to = "LowestHpAlly" -> Ranked(Allies(f, c.by), [i \in Allies(f, c.by) |-> f.units[i].hp], Max({1, e.count}))
       [] e.to = "LowestHpEnemy" -> Ranked(foes, [i \in foes |-> f.units[i].hp], 1)
       [] e.to = "HighestHpEnemy" -> Ranked(foes, [i \in foes |-> -f.units[i].hp], 1)
       [] e.to = "TopDamageEnemies" -> Ranked(foes, [i \in foes |-> -f.units[i].totalDealt], e.count)
       [] e.to = "AllEnemies" -> InOrder(foes)
       [] e.to = "AllAllies" -> InOrder(Allies(f, c.by))

\* ResolveTargets: a pilot inside its mech is never reached.
Targets(f, c, e) == SelectSeq(TargetsRaw(f, c, e), LAMBDA i : ~Has(f.units[i], "Piloting"))

EffectiveAttackDamage(u) == Max({0, u.damage + Sum(u, "BonusAttackDamage")})

\* Evaluate: a flat amount and a share of what the effect reads.
Evaluate(f, c, e, victim) ==
  LET caster == f.units[c.by]
      source == CASE e.of = "None" -> 0
                  [] e.of = "SelfMaxHp" -> caster.maxHp
                  [] e.of = "SelfCurrentHp" -> caster.hp
                  [] e.of = "SelfAttackDamage" -> EffectiveAttackDamage(caster)
                  [] e.of = "TargetMaxHp" -> f.units[victim].maxHp
                  [] e.of = "TargetCurrentHp" -> f.units[victim].hp
                  [] e.of = "TriggerDamage" -> c.damage
                  [] e.of = "HighestAllyMaxHp" ->
                       Max({0} \cup {f.units[i].maxHp : i \in {j \in Allies(f, c.by) : ~f.units[j].summon}})
  IN e.n + (source * e.percent) \div 100

-----------------------------------------------------------------------------
(* Hooks.                                                                  *)

\* FireHook: the hook of the k-th slot fires, if it is the Nth time and its cap allows.  What an
\* "immediate" hook does joins the casts of this tick; the others wait until the damage has landed.
FireHook(f, i, k, attacker, victim, damage, immediate) ==
  LET slot == f.units[i].slots[k]
      hook == slot.hook
      charged == IF hook.requiresCharge THEN WithUnit(f, i, Spent(f.units[i], "EmpoweredAttack")) ELSE f
      taken == hook.trigger \in {"OnTakeBasicAttackDamage", "OnTakeAbilityDamage", "OnHpDropBelowPercent", "OnShieldBreak"}
      cast == [CastRecord(f, i, IF taken THEN attacker ELSE victim, hook) EXCEPT
                 !.attacker = attacker, !.victim = victim, !.damage = damage, !.fromHook = TRUE]
      counted == [charged EXCEPT !.units[i].slots[k].counter = @ + 1]
      fired == [charged EXCEPT !.units[i].slots[k].counter = IF hook.attackCount > 1 THEN 0 ELSE @,
                               !.units[i].slots[k].fired = @ + 1]
  IN IF \/ hook.maxTriggers > 0 /\ slot.fired >= hook.maxTriggers
        \/ hook.requiresCharge /\ ~Has(f.units[i], "EmpoweredAttack") THEN f
     ELSE IF hook.attackCount > 1 /\ slot.counter + 1 < hook.attackCount THEN counted
     ELSE IF immediate THEN [fired EXCEPT !.casts = Append(@, cast)]
     ELSE [fired EXCEPT !.pendingHooks = Append(@, cast)]

SlotsThat(u, Hears(_)) == {k \in DOMAIN u.slots : Hears(u.slots[k].hook)}

\* The slots of unit i that hear of it fire, in the order of its list.
FireHooks(f, i, hearing, attacker, victim, damage, immediate) ==
  Fold(LAMBDA g, k : FireHook(g, i, k, attacker, victim, damage, immediate), f, InOrder(hearing))

\* OnHpDropBelowPercent, one slot: it fires once, until the unit's HP has climbed back.
CheckThreshold(f, victim, attacker, damage, k) ==
  LET u == f.units[victim]
      slot == u.slots[k]
      below == u.hp * 100 < slot.hook.threshold * u.maxHp
  IN IF slot.hook.trigger # "OnHpDropBelowPercent" THEN f
     ELSE IF slot.armed /\ below
     THEN FireHook([f EXCEPT !.units[victim].slots[k].armed = FALSE], victim, k, attacker, victim, damage, FALSE)
     ELSE IF ~below /\ slot.hook.maxTriggers # 1 THEN [f EXCEPT !.units[victim].slots[k].armed = TRUE]
     ELSE f

CheckThresholds(f, victim, attacker, damage) ==
  IF f.units[victim].alive /\ f.units[victim].hp > 0
  THEN Fold(LAMBDA g, k : CheckThreshold(g, victim, attacker, damage, k), f,
            [k \in DOMAIN f.units[victim].slots |-> k])
  ELSE f

\* Who hears of a hit, and as what, in order: its victim, its attacker, the attacker's allies.
Hearers(f, hit) ==
  LET allies == InOrder({i \in DOMAIN f.units \ {hit.by} : f.units[i].team = f.units[hit.by].team})
  IN <<[i |-> hit.at, as |-> "victim"], [i |-> hit.by, as |-> "attacker"]>>
       \o [k \in DOMAIN allies |-> [i |-> allies[k], as |-> "ally"]]

HearHit(f, hit, damage, hearer) ==
  LET u == f.units[hearer.i]
      Struck(h) == \/ h.trigger = "OnTakeBasicAttackDamage" /\ "basic" \in hit.flags
                   \/ h.trigger = "OnTakeAbilityDamage" /\ "ability" \in hit.flags
      Heard(h) == CASE hearer.as = "victim" -> Struck(h)
                    [] hearer.as = "attacker" -> h.trigger = "OnDealDamage" /\ h.damageFilter \in {"any"} \cup hit.flags
                    [] hearer.as = "ally" -> h.trigger = "OnAllyDealDamage" /\ h.damageFilter \in {"any"} \cup hit.flags
  IN IF u.alive /\ (hearer.as = "victim" => u.hp > 0 /\ "dot" \notin hit.flags)
     THEN FireHooks(f, hearer.i, SlotsThat(u, Heard), hit.by, hit.at, damage, FALSE) ELSE f

\* What a hook has dealt, what a tether sent on and what did nothing only checks the thresholds.
DispatchDamageHooks(f, hit, damage) ==
  LET silent == hit.fromHook \/ "redirected" \in hit.flags \/ damage <= 0
  IN Fold(LAMBDA g, hearer : HearHit(g, hit, damage, hearer), CheckThresholds(f, hit.at, hit.by, damage),
          IF silent THEN <<>> ELSE Hearers(f, hit))

-----------------------------------------------------------------------------
(* Damage.                                                                 *)

Hit(by, at, raw, flags, c) ==
  [by |-> by, at |-> at, raw |-> raw, flags |-> flags, onKill |-> <<>>, healPercent |-> 0,
   credit |-> TRUE, fromHook |-> c]

\* Shields absorb, the oldest first; those used up are broken.
Absorbed(shields, damage) ==
  FoldLeft(LAMBDA r, s :
             LET taken == Min({s.amount, r.left})
             IN [left |-> r.left - taken,
                 kept |-> IF taken = s.amount THEN r.kept
                          ELSE Append(r.kept, [s EXCEPT !.amount = @ - taken, !.absorbed = @ + taken]),
                 broken |-> IF taken = s.amount
                            THEN Append(r.broken, [s EXCEPT !.absorbed = @ + taken]) ELSE r.broken],
           [left |-> damage, kept |-> <<>>, broken |-> <<>>], shields)

BreakShields(f, hit, broken) ==
  Fold(LAMBDA g, s : FireHooks(g, hit.at,
                               SlotsThat(g.units[hit.at],
                                         LAMBDA h : h.trigger = "OnShieldBreak" /\ h.shieldFrom \in {"", s.source}),
                               hit.by, hit.at, s.absorbed, FALSE),
       f, broken)

\* Omnivamp heals the attacker, DamageTakenRegen the victim.
HealBack(f, hit, damage) ==
  LET Vamps(g) == hit.credit /\ damage > 0 /\ g.units[hit.by].alive /\ hit.by # hit.at
      Share(g, i, type) == HealUnit(g, i, (damage * Sum(g.units[i], type)) \div 100)
  IN Then(Then(f, LAMBDA g : IF Vamps(g) THEN Share(g, hit.by, "Omnivamp") ELSE g),
          LAMBDA g : IF g.units[hit.at].hp > 0 THEN Share(g, hit.at, "DamageTakenRegen") ELSE g)

\* The first hit that brings a victim to 0 HP with a reward for the kill is remembered.
RememberHit(f, hit, damage) ==
  LET v == hit.at
      victim == f.units[v]
      killed == victim.hp = 0 /\ victim.onKill = <<>> /\ hit.onKill # <<>>
  IN [f EXCEPT !.units[v].killer = IF killed THEN hit.by ELSE @,
               !.units[v].onKill = IF killed THEN hit.onKill ELSE @,
               !.units[v].lastDamagedTick = IF damage > 0 THEN f.tick ELSE @,
               !.units[v].manaFromDamage = IF victim.maxMana > 0 THEN @ + hit.raw \div RawDamagePerMana ELSE @,
               !.units[hit.by].totalDealt = IF hit.credit THEN @ + damage ELSE @]

\* What is left of the final damage after the shields' reduction.
Reduced(f, hit, final) ==
  (final * (100 - Max({0} \cup {s.reduction : s \in ToSet(f.units[hit.at].shields)}))) \div 100

\* DealResolved: the final damage of a hit goes through the shields to the hit points; then what
\* reads it: broken shields, the attacker's vamp, regeneration, the kill's reward, mana, hooks.
DealResolved(f, hit, final) ==
  LET damage == Reduced(f, hit, final)
      r == Absorbed(f.units[hit.at].shields, damage)
      landed == [f EXCEPT !.units[hit.at].shields = r.kept, !.units[hit.at].hp = Max({0, @ - r.left})]
  IN Then(Then(Then(Then(TellHp(landed, hit.at),
                         LAMBDA g : BreakShields(g, hit, r.broken)),
                    LAMBDA g : HealBack(g, hit, damage)),
               LAMBDA g : RememberHit(g, hit, damage)),
          LAMBDA g : DispatchDamageHooks(g, hit, damage))

\* The unit that takes a tether's share of what hits v, 0 if nobody does.
TetheredTo(f, v) ==
  LET statuses == f.units[v].statuses
      holds(k) == /\ statuses[k].type = "Tether"
                  /\ statuses[k].source # v
                  /\ f.units[statuses[k].source].alive
                  /\ f.units[statuses[k].source].hp > 0
      ties == {k \in DOMAIN statuses : holds(k)}
  IN IF ties = {} THEN 0 ELSE Min(ties)

\* Mutant: a hit whose attacker has just fallen is lost.
LandHit_FromTheStanding(f, hit) ==
  LET victim == f.units[hit.at]
  IN IF victim.hp <= 0 \/ f.units[hit.by].hp <= 0 THEN f ELSE DealResolved(f, hit, HitReceived(f, hit.raw))

\* One hit of ApplyHits: it misses a victim without hit points, a spell shield swallows an ability,
\* a tether sends its share on.
LandHit(f, hit) ==
  LET victim == f.units[hit.at]
      k == TetheredTo(f, hit.at)
      raw == HitReceived(f, (hit.raw * (100 + Sum(f.units[hit.by], "DamageAmp"))) \div 100)
      damage == (raw * (100 + Sum(victim, "DamageTaken"))) \div 100
      redirected == IF k = 0 THEN 0 ELSE (damage * victim.statuses[k].n) \div 100
      share == [hit EXCEPT !.at = victim.statuses[k].source, !.raw = 0, !.onKill = <<>>,
                           !.flags = (@ \ {"basic"}) \cup {"redirected"}]
  IN IF ~victim.alive \/ victim.hp <= 0 THEN f
     ELSE IF /\ "ability" \in hit.flags /\ "dot" \notin hit.flags
             /\ f.units[hit.by].team # victim.team /\ Has(victim, "SpellShield")
     THEN TellHp(WithUnit(f, hit.at, Spent(victim, "SpellShield")), hit.at)
     ELSE Then(Then(DealResolved(f, [hit EXCEPT !.raw = raw], damage - redirected),
                    LAMBDA g : IF hit.healPercent = 0 THEN g
                               ELSE HealUnit(g, hit.by, ((damage - redirected) * hit.healPercent) \div 100)),
               LAMBDA g : IF redirected = 0 THEN g ELSE DealResolved(g, share, redirected))

\* ApplyHits: everything queued lands, one hit after the other.
ApplyHits(f) == Fold(LandHit, [f EXCEPT !.hits = <<>>], f.hits)

\* TickDots: the damage over time that is due joins the hits.  A viewer is told when the last burn is
\* out; a basic attack that is spread over time is no burn.
TickDots(f) ==
  LET Due(d) == f.tick >= d.next
      Burns(dots) == {d \in ToSet(dots) : "ability" \in d.flags}
      Ticked(d) == [d EXCEPT !.left = @ - 1, !.raw = @ - d.raw \div d.left,
                             !.next = d.start + (d.duration * (d.total - d.left + 2)) \div d.total]
      Tick(g, i) ==
        LET u == g.units[i]
            due == SelectSeq(u.dots, Due)
            left == SelectSeq([k \in DOMAIN u.dots |-> IF Due(u.dots[k]) THEN Ticked(u.dots[k]) ELSE u.dots[k]],
                              LAMBDA d : d.left > 0)
            hits == [k \in DOMAIN due |->
                       [Hit(due[k].source, i, due[k].raw \div due[k].left, due[k].flags, FALSE)
                          EXCEPT !.healPercent = due[k].healPercent]]
            queued == [g EXCEPT !.units[i].dots = left,
                                !.hits = @ \o SelectSeq(hits, LAMBDA h : h.raw > 0)]
        IN IF ~u.alive \/ u.dots = <<>> THEN g
           ELSE IF Burns(u.dots) # {} /\ Burns(left) = {} THEN TellHp(queued, i) ELSE queued
  IN ForEachUnit(f, Tick)

-----------------------------------------------------------------------------
(* Effects.                                                                *)

\* A timed shield or status ends e.ticks later; 0 ticks mean for ever.
Until(f, e) == IF e.ticks = 0 THEN Forever ELSE f.tick + e.ticks

DealDamage(f, c, e, i, raw) ==
  IF raw <= 0 THEN f
  ELSE [f EXCEPT !.hits = Append(@, [Hit(c.by, i, raw, {"ability"}, c.fromHook) EXCEPT !.onKill = e.onKill])]

\* A capped shield only fills up what its holder's shields leave under the cap.
GiveShield(f, c, e, i, wanted) ==
  LET shields == f.units[i].shields
      held == FoldLeft(LAMBDA n, s : n + s.amount, 0, shields)
      amount == HealingReceived(f, f.units[i], IF e.cap > 0 THEN Min({wanted, e.cap - held}) ELSE wanted)
      shield == [amount |-> amount, until |-> Until(f, e), reduction |-> e.reduction, source |-> c.name, absorbed |-> 0]
  IN IF amount <= 0 THEN f ELSE [f EXCEPT !.units[i].shields = Append(@, shield)]

\* Mutant: a stun does not break its victim's channel.
GiveStatus_ChannelGoesOn(f, c, e, i, n) ==
  IF Refused(f.units[i], i = c.by, e.status) THEN f
  ELSE TellHp(WithUnit(f, i, AddStatus(f.units[i], Status(e.status, n, Until(f, e), c.by), e.refreshes)), i)

GiveStatus(f, c, e, i, n) ==
  IF Refused(f.units[i], i = c.by, e.status) THEN f
  ELSE Then(TellHp(WithUnit(f, i, AddStatus(f.units[i], Status(e.status, n, Until(f, e), c.by), e.refreshes)), i),
            LAMBDA g : IF e.status \in Helpless THEN InterruptChannel(g, i)
                       ELSE IF e.status = "ManaCost" THEN WithUnit(g, i, RecomputeMaxMana(g.units[i])) ELSE g)

\* Whoever inflicts wounds with its burns wounds the unit it has lit.
Wounded(f, c, e, i) ==
  LET n == Sum(f.units[c.by], "InflictsWound")
  IN IF n = 0 THEN f
     ELSE TellHp(WithUnit(f, i, AddStatus(f.units[i], Status("Wound", n, f.tick + e.ticks, 0), FALSE)), i)

\* A refreshing burn replaces the one of the same ability and keeps its rhythm.
LightBurn(f, c, e, i, amount) ==
  LET old == {d \in ToSet(f.units[i].dots) : e.refreshes /\ d.name = c.name}
      total == Max({1, e.ticks \div e.every})
      step == e.ticks \div total
      next == IF old # {} THEN Min({d.next : d \in old}) ELSE f.tick + step
      dot == [source |-> c.by, name |-> c.name, start |-> next - step, duration |-> e.ticks, total |-> total,
              left |-> total, next |-> next, raw |-> amount * total, flags |-> {"dot", "ability"}, healPercent |-> e.healPercent]
      others == SelectSeq(f.units[i].dots, LAMBDA d : d \notin old)
  IN IF amount <= 0 THEN f
     ELSE Then(TellHp([f EXCEPT !.units[i].dots = Append(others, dot)], i), LAMBDA g : Wounded(g, c, e, i))

GiveMana(f, i, amount) ==
  LET max == f.units[i].maxMana
  IN IF max = 0 THEN f ELSE [f EXCEPT !.units[i].mana = Max({0, Min({max, @ + amount})})]

\* The enemy a teleport leads to, 0 if there is none.
TeleportTarget(f, c, e, i) ==
  LET foes == ReachableEnemies(f, i)
  IN CASE e.destination = "BehindCurrentTarget" -> IF c.target \in foes THEN c.target ELSE 0
       [] e.destination = "NextToLowestHpEnemy" -> Lowest(foes, [j \in foes |-> f.units[j].hp])
       [] e.destination = "BehindFarthestEnemy" -> Lowest(Enemies(f, i), [j \in Enemies(f, i) |-> -Far(f, i, j)])

\* The free hexes next to a hex, or else two away from it, that are farthest from where one comes from.
Landings(f, at, from) ==
  LET rings == {r \in 1 .. 2 : \E h \in Hexes \ f.blocked : Distance(h, at) = r}
      near == {h \in Hexes \ f.blocked : \E r \in rings : r = Min(rings) /\ Distance(h, at) = r}
  IN {h \in near : \A g \in near : Distance(g, from) <= Distance(h, from)}

TeleportUnit(f, c, e, i) ==
  LET enemy == TeleportTarget(f, c, e, i)
      landing == IF enemy = 0 THEN {} ELSE Landings(f, f.units[enemy].at, f.units[i].at)
      target == IF e.destination = "BehindFarthestEnemy" THEN 0 ELSE enemy
  IN IF ~f.units[i].alive \/ landing = {} THEN f
     ELSE Then(Placed(f, i, FirstOf(landing)), LAMBDA g : WithUnit(g, i, SetTarget(g.units[i], target)))

\* Up to n hexes along a straight line, until something is in the way.
Slide(blocked, from, direction, n) ==
  LET slide[k \in 0 .. n] ==
        IF k = 0 THEN from
        ELSE CHOOSE h \in {slide[k - 1], Neighbor(slide[k - 1], direction)} :
               (h = slide[k - 1]) <=> Neighbor(slide[k - 1], direction) \notin Hexes \ blocked
  IN slide[n]

DisplaceUnit(f, c, e, i) ==
  LET from == f.units[i].at
      by == f.units[c.by].at
      direction == IF e.destination = "TowardCaster" THEN DirectionToward(from, by) ELSE DirectionToward(by, from)
      end == Slide(f.blocked, from, direction, e.n)
  IN IF ~f.units[i].alive \/ i = c.by \/ end = from THEN f
     ELSE [Placed(f, i, end) EXCEPT !.units[i].path = <<>>]

\* An ally of one kind hits the target in the caster's name; ties go to the lowest number.
AllyStrike(f, c, e, i) ==
  LET allies == {j \in Allies(f, c.by) \ {c.by} : f.units[j].kind = e.kind}
      raw == (EffectiveAttackDamage(f.units[Min(allies)]) * e.percent) \div 100
  IN IF allies = {} \/ f.units[i].team = f.units[c.by].team \/ raw <= 0 THEN f
     ELSE [f EXCEPT !.hits = Append(@, Hit(Min(allies), i, raw, {"ability"}, c.fromHook))]

\* ApplyEffectToTarget: the amount is the effect's, evaluated for this target.
ApplyEffect(f, c, e, i, amount) ==
  CASE e.do = "Damage" -> DealDamage(f, c, e, i, amount)
    [] e.do = "Shield" -> GiveShield(f, c, e, i, amount)
    [] e.do = "Status" -> GiveStatus(f, c, e, i, amount)
    [] e.do = "Dot" -> LightBurn(f, c, e, i, amount)
    [] e.do = "Heal" -> HealUnit(f, i, amount)
    [] e.do = "Mana" -> GiveMana(f, i, amount)
    [] e.do = "Teleport" -> TeleportUnit(f, c, e, i)
    [] e.do = "AllyStrike" -> AllyStrike(f, c, e, i)
    [] e.do = "Displace" -> DisplaceUnit(f, c, e, i)

-----------------------------------------------------------------------------
(* Summons, and the passives a unit runs when it appears.                  *)

RECURSIVE ExecuteEffect(_, _, _)

\* RunOrSchedule: e.repeat runs, the first after e.delay ticks and then every e.interval.
RunOrSchedule(f, c, e) ==
  Fold(LAMBDA g, n :
             LET due == e.delay + (n - 1) * e.interval
             IN IF due <= 0 THEN ExecuteEffect(g, c, e)
                ELSE [g EXCEPT !.scheduled = Append(@, [due |-> g.tick + due, effect |-> e,
                                                        cast |-> [c EXCEPT !.origin = g.tick]])],
           f, [n \in 1 .. e.repeat |-> n])

\* A unit casts every effect of an ability at itself.
SelfCast(f, i, ability) ==
  Fold(LAMBDA g, e : RunOrSchedule(g, CastRecord(g, i, 0, ability), e), f, ability.effects)

\* RunPassives: whenever a unit appears, its passives run as of tick 0.
RunPassives(f, i) ==
  IF Has(f.units[i], "Piloting") THEN f
  ELSE [Fold(LAMBDA g, ability : SelfCast(g, i, ability), [f EXCEPT !.tick = 0], Kind(f.units[i]).passives)
          EXCEPT !.tick = f.tick]

\* SpawnSummon: on the hex of `where`, if it is not empty; hp and damage above 0 replace the summon's own.
SpawnSummon(f, kind, team, where, hp, damage) ==
  LET own == MakeUnit(kind, team, CHOOSE h \in where : TRUE, <<>>)
      made == [own EXCEPT !.summon = TRUE,
                          !.hp = IF hp > 0 THEN hp ELSE @,
                          !.maxHp = IF hp > 0 THEN hp ELSE @,
                          !.baseMaxHp = IF hp > 0 THEN hp ELSE @,
                          !.damage = IF damage > 0 THEN damage ELSE @]
      i == Len(f.units) + 1
  IN IF where = {} \/ f.spawned >= MaxSummonsPerFight THEN f
     ELSE Then(TellSpawn([f EXCEPT !.units = Append(@, made), !.spawned = @ + 1, !.blocked = @ \cup {made.at}], i),
               LAMBDA g : RunPassives(g, i))

NextTo(f, i) == FreeNear(f.units[i].at, f.blocked)

SummonUnits(f, c, e) ==
  Fold(LAMBDA g, n : IF g.units[c.by].alive
                         THEN SpawnSummon(g, e.kind, g.units[c.by].team, NextTo(g, c.by), Evaluate(f, c, e, c.by), 0) ELSE g,
           f, [n \in 1 .. e.count |-> n])

\* CloneUnits: the costliest units of the team come back as summons with a share of their strength.
CloneUnits(f, c, e) ==
  LET originals == {i \in Allies(f, c.by) : ~f.units[i].summon /\ ~Kind(f.units[i]).plant /\ ~Has(f.units[i], "Piloting")}
  IN Fold(LAMBDA g, i : SpawnSummon(g, g.units[i].kind, g.units[i].team, NextTo(g, i), (g.units[i].baseMaxHp * e.percent) \div 100,
                                    Max({1, (g.units[i].damage * e.percent) \div 100})),
          f, Ranked(originals, [i \in originals |-> -Kind(f.units[i]).cost], e.count))

\* ExecuteEffect, unless its caster has been hurt since the cast and the effect minds that.
ExecuteEffect(f, c, e) ==
  LET since == IF c.origin >= 0 THEN c.origin ELSE f.tick
  IN IF e.unhurt /\ f.units[c.by].lastDamagedTick >= since THEN f
     ELSE IF e.do = "Summon" THEN SummonUnits(f, c, e)
     ELSE IF e.do = "Clone" THEN CloneUnits(f, c, e)
     ELSE Fold(LAMBDA g, i : ApplyEffect(g, c, e, i, Evaluate(g, c, e, i)), f, Targets(f, c, e))
=============================================================================
