------------------------------- MODULE Fight --------------------------------
(***************************************************************************)
(* One fight of two boards (CombatSimulator.cpp, Fight::Run): it starts    *)
(* from the fielded units, then every tick begins, lets each living unit   *)
(* act in turn and resolves what they declared, until a side has no units  *)
(* left or the limit is reached.  Teams are 1 (home) and 2 (away).         *)
(***************************************************************************)
EXTENDS FightEffects

CONSTANTS
  Lineups,             \* the fights: sequences of [kind, team, at, items], in ascending UnitId
  Synergies,           \* the traits in ascending id: [trait, need, scope, effects, hooks, mutations, ...]
  Modules,             \* the modules each team has chosen: team -> sequence of [trait, tier, echo, ...]
  MaxEchoes,           \* kMaxEchoes
  RegulationTicks,     \* regulationTicks
  OvertimeSpeed,       \* overtimeSpeed
  MaxTicks,            \* min(maxTicks, hardLimitTicks)
  TicksPerHexMove,     \* ticksPerHexMove
  DotSpreadTicks,      \* dotSpreadIntervalTicks
  RepathBackoffTicks,  \* repathBackoffTicks
  ManaPerAttack,       \* manaPerAttackMilli, in whole mana
  ManaFromDamageCap,   \* manaFromDamagePerTickCapMilli, in whole mana
  MaxDeathCastRounds   \* kMaxDeathCastRounds

VARIABLES
  lineup,   \* the specs RunFight was given
  fight,    \* the state of class Fight
  turn,     \* 0: the tick begins; i: unit i acts; beyond the units: the tick resolves
  winner    \* "none" while the fight lasts, then "home", "away" or "draw"

vars == <<lineup, fight, turn, winner>>

Teams == {1, 2}

-----------------------------------------------------------------------------
(* The start: spawns, synergies, pilots, passives.                         *)

Fielded(specs) ==
  LET units == [i \in DOMAIN specs |-> MakeUnit(specs[i].kind, specs[i].team, specs[i].at, specs[i].items)]
      Side(t) == {i \in DOMAIN units : units[i].team = t}
  IN [tick |-> 0, units |-> units, blocked |-> {units[i].at : i \in DOMAIN units},
      hits |-> <<>>, casts |-> <<>>, scheduled |-> <<>>, pendingHooks |-> <<>>,
      spawned |-> 0, overtimeAt |-> -1, serial |-> 0,
      living |-> [t \in Teams |-> Cardinality(Side(t))], teamMaxHp |-> [t \in Teams |-> 0],
      once |-> [t \in Teams |-> [s \in DOMAIN Synergies |-> 0]],
      shown |-> [i \in DOMAIN units |-> [hp |-> units[i].hp, at |-> units[i].at, alive |-> TRUE]]]

\* A real unit: it counts for synergies and for its team's HP.
IsReal(u) == ~u.summon /\ ~Kind(u).plant

HasTrait(u, trait) == trait \in u.traits

\* ApplyItems: every stat of an item is a status for ever; it may fill the mana bar a little.
Equip(u, item, i) ==
  LET dressed == FoldLeft(LAMBDA v, stat : AddStatus(v, Status(stat[1], stat[2], Forever, i), FALSE), u, item.stats)
  IN [dressed EXCEPT !.mana = IF u.maxMana > 0 THEN Min({u.maxMana, @ + item.startMana}) ELSE @]

ApplyItems(f, specs) ==
  Fold(LAMBDA g, i : Fold(LAMBDA h, item : TellHp(WithUnit(h, i, Equip(h.units[i], item, i)), i), g, specs[i].items),
       f, [i \in DOMAIN specs |-> i])

\* A grant is a cast of no ability.
Grants(s) == [name |-> "None", effects |-> s.effects, stopsOnDeath |-> FALSE]

\* ApplyMutations: the costliest holders each get the first mutation of a class of theirs, or else the
\* first without a class; the supercharged one if there is one.
MutationOf(u, mutations) ==
  LET fitting == {k \in DOMAIN mutations : mutations[k].classes \cap u.traits # {}}
      plain == {k \in DOMAIN mutations : mutations[k].classes = {}}
  IN Min(IF fitting # {} THEN fitting ELSE plain \cup {Len(mutations) + 1})

Mutate(f, i, synergy) ==
  LET k == MutationOf(f.units[i], synergy.mutations)
      mutation == synergy.mutations[k]
      super == synergy.supercharge /\ (mutation.superEffects # <<>> \/ mutation.superHooks # <<>>)
      hooks == IF super THEN mutation.superHooks ELSE mutation.hooks
  IN IF k > Len(synergy.mutations) THEN f
     ELSE Then(SelfCast(f, i, Grants([effects |-> IF super THEN mutation.superEffects ELSE mutation.effects])),
               LAMBDA g : [g EXCEPT !.units[i].slots = @ \o [j \in DOMAIN hooks |-> Slot(hooks[j])]])

ApplyMutations(f, holders, synergy) ==
  LET slots == IF synergy.mutationSlots < 0 THEN Cardinality(holders) ELSE synergy.mutationSlots
  IN Fold(LAMBDA g, i : Mutate(g, i, synergy), f,
          IF slots = 0 THEN <<>> ELSE Ranked(holders, [i \in holders |-> -Kind(f.units[i]).cost], slots))

\* SpawnInvention: a summon in the team's last corner, or near it, that runs the chosen modules of an
\* unlocked tier; an echo lets it run them again and again.
RunModule(f, i, module, echo) ==
  Fold(LAMBDA g, e :
         Fold(LAMBDA h, k : RunOrSchedule(h, CastRecord(f, i, 0, module), [e EXCEPT !.delay = @ + k * echo]), g,
              [k \in 1 .. (IF echo > 0 THEN MaxEchoes + 1 ELSE 1) |-> k - 1]),
       f, module.effects)

SpawnInvention(f, team, synergy) ==
  LET corner == IF team = 1 THEN Hex(Columns - 1, 0) ELSE Hex(0, Rows - 1)
      where == IF corner \in f.blocked THEN FreeNear(corner, f.blocked) ELSE {corner}
      i == Len(f.units) + 1
      modules == SelectSeq(Modules[team], LAMBDA m : m.trait = synergy.trait /\ m.tier <= synergy.moduleTier)
      echo == FoldLeft(LAMBDA n, m : IF m.echo > 0 THEN m.echo ELSE n, 0, modules)
  IN IF synergy.invention = "none" \/ synergy.moduleTier = 0 THEN f
     ELSE Then(SpawnSummon(f, synergy.invention, team, where, 0, 0),
               LAMBDA g : IF Len(g.units) < i THEN g
                          ELSE Fold(LAMBDA h, m : RunModule(h, i, m, echo), g, modules))

\* ApplyTraits, one synergy of one team: counted by different champions; its effects are self-casts of
\* the units in scope (of scope "team": of the first holder), its hooks go to the units in scope.
ApplySynergy(f, team, s) ==
  LET synergy == Synergies[s]
      members == {i \in DOMAIN f.units : f.units[i].team = team /\ ~f.units[i].summon}
      holders == {i \in members : HasTrait(f.units[i], synergy.trait)}
      real == {i \in members : IsReal(f.units[i])}
      count == Cardinality({f.units[i].kind : i \in {j \in holders : ~Kind(f.units[j]).plant}})
      casters == CASE synergy.scope = "team" -> {Min(holders)}
                   [] synergy.scope = "holders" -> real \cap holders
                   [] synergy.scope = "all" -> real
      listeners == IF synergy.scope = "all" THEN real ELSE real \cap holders
      slots == [k \in DOMAIN synergy.hooks |-> Slot(synergy.hooks[k])]
      Extras(g) == SpawnInvention(ApplyMutations(g, real \cap holders, synergy), team, synergy)
      Grant(u, i) == IF i \in listeners THEN [u EXCEPT !.slots = @ \o slots] ELSE u
  IN IF count < synergy.need THEN f
     ELSE Then(Fold(LAMBDA g, e :
                      Fold(LAMBDA h, i : RunOrSchedule(h, CastRecord(h, i, 0, Grants(synergy)), e), g, InOrder(casters)),
                    f, synergy.effects),
               LAMBDA g : Extras([g EXCEPT !.units = [i \in DOMAIN g.units |-> Grant(g.units[i], i)]]))

ApplyTraits(f) ==
  Fold(LAMBDA g, t : Fold(LAMBDA h, s : ApplySynergy(h, t, s), g, [s \in DOMAIN Synergies |-> s]),
           f, <<1, 2>>)

\* Who may climb into mech i: the ally directly behind it, if it is real and no mech itself.
Behind(u) == Hex(u.at.x, u.at.y + (IF u.team = 1 THEN -1 ELSE 1))

MayPilot(f, i) ==
  {j \in DOMAIN f.units \ {i} :
     LET p == f.units[j]
     IN /\ p.team = f.units[i].team /\ p.alive /\ IsReal(p)
        /\ ~Kind(p).pilot.enabled /\ p.mech = 0 /\ p.at = Behind(f.units[i])}

\* It climbs in; the mech gains a share of its HP and the first bonus one of its traits brings.
BoardMech(f, i, j) ==
  LET k == Kind(f.units[i]).pilot
      seat == AddStatus([f.units[j] EXCEPT !.mech = i], Status("Piloting", 0, Forever, i), FALSE)
      share == Status("BonusMaxHp", (f.units[j].maxHp * k.hpPercent) \div 100, Forever, i)
      mech == AddStatus([f.units[i] EXCEPT !.pilot = j], share, FALSE)
      match == {b \in DOMAIN k.bonuses : k.bonuses[b].traits \cap f.units[j].traits # {}}
  IN Then(TellHp(WithUnit(WithUnit(f, j, seat), i, mech), i),
          LAMBDA g : IF match = {} THEN g ELSE SelfCast(g, i, Grants(k.bonuses[Min(match)])))

ApplyPilots(f) ==
  Fold(LAMBDA g, i : IF ~Kind(g.units[i]).pilot.enabled \/ g.units[i].summon \/ MayPilot(g, i) = {} THEN g
                     ELSE BoardMech(g, i, Min(MayPilot(g, i))),
       f, [i \in DOMAIN f.units |-> i])

ApplyPassives(f) == ForEachUnit(f, RunPassives)

\* What OnTeamHpLoss compares: the HP of the team's real units; the dead count 0.
TeamHp(f, team, hp) ==
  MapThenSumSet(LAMBDA i : hp[i], {i \in DOMAIN f.units : f.units[i].team = team /\ IsReal(f.units[i])})

Start(specs) ==
  Then(Then(Then(ApplyTraits(ApplyItems(Fielded(specs), specs)), ApplyPilots), ApplyPassives),
       LAMBDA f : [f EXCEPT !.teamMaxHp = [t \in Teams |-> TeamHp(f, t, [i \in DOMAIN f.units |-> f.units[i].maxHp])]])

-----------------------------------------------------------------------------
(* 1. The tick begins.                                                     *)

Speed(f) == IF f.overtimeAt < 0 THEN 1 ELSE OvertimeSpeed

\* EnterOvertime shortens the timers that run.
EnterOvertime(f) ==
  LET Shorter(t) == f.tick + Max({0, t - f.tick}) \div OvertimeSpeed
  IN IF f.tick # RegulationTicks \/ OvertimeSpeed <= 1 THEN f
     ELSE [f EXCEPT !.overtimeAt = f.tick,
                            !.units = [i \in DOMAIN f.units |->
                              [f.units[i] EXCEPT !.nextAttackTick = Shorter(@), !.nextMoveTick = Shorter(@)]]]

\* Mutant: the clip of the hit points when a max-HP status ends is in no event.
ExpireEffects_SilentClip(f) ==
  LET Lasts(s) == s.until > f.tick
      Expire(g, i) ==
        WithUnit(g, i, IF g.units[i].alive
                       THEN RecomputeMaxHp([g.units[i] EXCEPT !.shields = SelectSeq(@, Lasts), !.statuses = SelectSeq(@, Lasts)])
                       ELSE g.units[i])
  IN ForEachUnit(f, Expire)

ExpireEffects(f) ==
  LET Lasts(s) == s.until > f.tick
      Expire(g, i) ==
        LET u == g.units[i]
            statuses == SelectSeq(u.statuses, Lasts)
            v == RecomputeMaxHp([u EXCEPT !.shields = SelectSeq(@, Lasts), !.statuses = statuses])
        IN IF ~u.alive \/ u = v THEN g
           ELSE IF statuses = u.statuses THEN WithUnit(g, i, v)
           ELSE TellHp(WithUnit(g, i, v), i)
  IN ForEachUnit(f, Expire)

\* UpdateAuras: who came into an aura gains its status, who left it (or whose holder died) loses it.
UpdateAuras(f) ==
  LET Update(g, i) ==
        LET u == g.units[i]
            aura == Kind(u).aura
            InSide(j) == \/ aura.side = "all"
                         \/ aura.side = "enemies" /\ j \in ReachableEnemies(g, i)
                         \/ aura.side = "allies" /\ g.units[j].team = u.team /\ (j # i \/ aura.self)
            now == IF u.alive
                   THEN {j \in DOMAIN g.units : g.units[j].alive /\ InSide(j) /\ Far(g, i, j) <= aura.radius} ELSE {}
            Lose(h, j) ==
              LET statuses == SelectSeq(h.units[j].statuses, LAMBDA s : s.aura # i)
              IN IF ~h.units[j].alive \/ statuses = h.units[j].statuses THEN h
                 ELSE TellHp(WithUnit(h, j, RecomputeMaxHp([h.units[j] EXCEPT !.statuses = statuses])), j)
            Gain(h, j) ==
              LET status == [Status(aura.status, aura.n, Forever, i) EXCEPT !.aura = i]
              IN TellHp(WithUnit(h, j, RecomputeMaxHp([h.units[j] EXCEPT !.statuses = Append(@, status)])), j)
            left == Fold(Lose, g, InOrder(u.inside \ now))
        IN IF aura.radius < 0 THEN g
           ELSE [Fold(Gain, left, InOrder(now \ u.inside)) EXCEPT !.units[i].inside = now]
  IN ForEachUnit(f, Update)

-----------------------------------------------------------------------------
(* 2. A unit acts: it only declares, except that a step happens at once.   *)

\* The target is chosen anew when it is gone, or out of range while another is in range.
Aimed(f, i) ==
  LET u == f.units[i]
      visible == {j \in Enemies(f, i) : CanAutoTarget(f.units[j])}
      near == Nearest(f, i, {j \in visible : InRange(f, i, j)})
  IN IF u.target \notin visible THEN WithUnit(f, i, SetTarget(u, Nearest(f, i, visible)))
     ELSE IF ~InRange(f, i, u.target) /\ near \notin {0, u.target} THEN WithUnit(f, i, SetTarget(u, near)) ELSE f

HasAbility(u) == Kind(u).ability.trigger # "None"

\* A channel locks its caster for its length and the tick its finale falls on, any other cast for
\* its lock.
DeclareCast(f, i, onDeath) ==
  LET u == f.units[i]
      ability == Kind(u).ability
      channels == ~onDeath /\ ability.channel > 0
      lock == IF onDeath THEN 0 ELSE IF channels THEN ability.channel + 1 ELSE ability.lock
      serial == f.serial + 1
      cast == [CastRecord(f, i, u.target, ability) EXCEPT !.serial = IF channels THEN serial ELSE 0]
      drained == [u EXCEPT !.mana = 0, !.attacksSinceCast = 0,
                           !.lockedUntil = IF lock > 0 THEN f.tick + lock ELSE @,
                           !.nextAttackTick = IF lock > 0 THEN Max({@, f.tick}) + lock ELSE @,
                           !.channel = IF channels THEN serial ELSE @,
                           !.channelEnd = IF channels THEN f.tick + ability.channel ELSE @]
      declared == [WithUnit(f, i, drained) EXCEPT !.casts = Append(@, cast),
                                                          !.serial = IF channels THEN serial ELSE @]
  IN IF onDeath THEN declared
     ELSE FireHooks(declared, i, SlotsThat(u, LAMBDA h : h.trigger = "OnCast"), i, u.target, 0, TRUE)

\* A blow lands at once or, if the attacker spreads its attacks, in parts.
Dealt(f, i, raw) ==
  LET u == f.units[i]
      spread == Kind(u).spread
      parts == Max({1, spread \div DotSpreadTicks})
      dot == [source |-> i, name |-> "", start |-> f.tick, duration |-> spread, total |-> parts, left |-> parts,
              next |-> f.tick + spread \div parts, raw |-> raw, flags |-> {"basic", "dot"}, healPercent |-> 0]
  IN IF raw = 0 THEN f
     ELSE IF spread > 0 THEN [f EXCEPT !.units[u.target].dots = Append(@, dot)]
     ELSE [f EXCEPT !.hits = Append(@, Hit(i, u.target, raw, {"basic"}, FALSE))]

DeclareAttack(f, i) ==
  LET u == f.units[i]
      raw == EffectiveAttackDamage(u)
      swung == [u EXCEPT !.nextAttackTick = f.tick + Max({1, Kind(u).interval \div Speed(f)}),
                         !.mana = IF u.maxMana > 0 THEN Min({u.maxMana, @ + ManaPerAttack}) ELSE @,
                         !.attacksSinceCast = @ + 1, !.totalAttacks = @ + 1]
      Listens(h) == h.trigger \in {"OnBasicAttack", "EveryNthAttack"} /\ u.totalAttacks >= h.afterAttacks
      hooked == FireHooks(Dealt(WithUnit(f, i, swung), i, raw), i, SlotsThat(u, Listens), i, u.target, 0, TRUE)
      rider == Kind(u).onAttack
      ridden == IF rider.effects = <<>> THEN hooked
                ELSE [hooked EXCEPT !.casts = Append(@, CastRecord(f, i, u.target, rider))]
  IN IF Kind(u).ability.trigger = "EveryNthAttack" /\ u.attacksSinceCast + 1 >= Kind(u).ability.attackCount
     THEN DeclareCast(ridden, i, FALSE) ELSE ridden

\* In range (a plant: from where it stands): a full mana bar casts first, then the attack.
Engaged(f, i) ==
  LET u == f.units[i]
      casts == Kind(u).ability.trigger = "Mana" /\ u.maxMana > 0 /\ u.mana >= u.maxMana
      g == IF casts THEN DeclareCast(f, i, FALSE) ELSE f
      attacks == ~IsStationary(u) /\ f.tick >= g.units[i].nextAttackTick /\ ~Has(u, "Blind")
  IN IF casts /\ Kind(u).ability.lock > 0 THEN g
     ELSE IF attacks THEN DeclareAttack(g, i) ELSE g

\* EnsurePath: a cached route holds while its target stands still and its next hex is free.
RouteHolds(f, i) ==
  LET u == f.units[i]
  IN u.path # <<>> /\ u.pathGoal = f.units[u.target].at /\ Head(u.path) \notin f.blocked

StepTo(f, i, path) ==
  LET moved == Placed(f, i, Head(path))
  IN WithUnit(moved, i, [moved.units[i] EXCEPT
       !.path = Tail(path), !.pathGoal = f.units[f.units[i].target].at,
       !.nextMoveTick = f.tick + Max({1, TicksPerHexMove \div Speed(f)})])

NoRoute(f, i) ==
  WithUnit(f, i, [f.units[i] EXCEPT !.path = <<>>, !.pathGoal = f.units[f.units[i].target].at,
                                    !.nextPathTick = f.tick + RepathBackoffTicks])

-----------------------------------------------------------------------------
(* 3. The tick resolves.                                                   *)

RegenerateMana(f) ==
  LET Gain(u) == u.alive /\ u.maxMana > 0 /\ f.tick >= u.lockedUntil
  IN [f EXCEPT !.units = [i \in DOMAIN f.units |->
        IF Gain(f.units[i])
        THEN [f.units[i] EXCEPT !.mana = Min({f.units[i].maxMana, @ + Kind(f.units[i]).regen * Speed(f)})]
        ELSE f.units[i]]]

FireIntervalHooks(f) ==
  LET Fire(g, i) ==
        LET u == g.units[i]
        IN IF u.alive /\ ~IsDisabled(u) /\ u.target \in ReachableEnemies(g, i) /\ InRange(g, i, u.target)
           THEN FireHooks(g, i, SlotsThat(u, LAMBDA h : h.trigger = "EveryInterval" /\ g.tick % h.interval = 0), i, u.target, 0, TRUE)
           ELSE g
  IN IF f.tick = 0 THEN f ELSE ForEachUnit(f, Fire)

\* What is due runs, unless its caster's death or a broken channel has cancelled it.
ExecuteScheduled(f) ==
  LET due == SelectSeq(f.scheduled, LAMBDA s : s.due <= f.tick)
      Cancelled(g, c) == \/ c.stopsOnDeath /\ ~g.units[c.by].alive
                         \/ c.serial # 0 /\ (~g.units[c.by].alive \/ g.units[c.by].channel # c.serial)
      Finish(u) == IF u.channel # 0 /\ f.tick >= u.channelEnd THEN [u EXCEPT !.channel = 0] ELSE u
  IN Then(Fold(LAMBDA g, s : IF Cancelled(g, s.cast) THEN g ELSE ExecuteEffect(g, s.cast, s.effect),
               [f EXCEPT !.scheduled = SelectSeq(@, LAMBDA s : s.due > f.tick)], due),
          LAMBDA g : [g EXCEPT !.units = [i \in DOMAIN g.units |-> Finish(g.units[i])]])

GrantsImmunity(e) == e.do = "Status" /\ e.status = "CcImmunity"

\* One pass over the casts: the effects that grant CC immunity, or the others.
CastPass(f, casts, immunity) ==
  Fold(LAMBDA g, c : Fold(LAMBDA h, e : IF GrantsImmunity(e) = immunity THEN RunOrSchedule(h, c, e) ELSE h,
                          g, c.effects),
       f, casts)

\* Two passes: effects that grant CC immunity land first.
RunCasts(f, casts) == Fold(LAMBDA g, immunity : CastPass(g, casts, immunity), f, <<TRUE, FALSE>>)

ExecuteCasts(f) == RunCasts([f EXCEPT !.casts = <<>>], f.casts)

\* Statuses that act on their own: HP per second, and the execution below a threshold.
HpPerSecond(f, i) ==
  LET By(s) == IF s.source # 0 THEN s.source ELSE i   \* a zone's damage is nobody's: it counts for no one
      Amount(g, s) == (g.units[i].maxHp * Magnitude(s.n)) \div 100
  IN Fold(LAMBDA g, s : IF s.type # "HpPerSecond" \/ s.n = 0 \/ g.units[i].hp <= 0 THEN g
                        ELSE IF s.n > 0 THEN HealUnit(g, i, Amount(g, s))
                        ELSE DealResolved(g, [Hit(By(s), i, Amount(g, s), {}, TRUE) EXCEPT !.credit = FALSE], Amount(g, s)),
          f, f.units[i].statuses)

Execute(f, i) ==
  LET u == f.units[i]
      threshold == Max({0} \cup {s.n : s \in {t \in ToSet(u.statuses) : t.type = "ExecuteBelow"}})
  IN IF u.hp > 0 /\ u.hp * 100 < threshold * u.maxHp THEN TellHp(WithUnit(f, i, [u EXCEPT !.hp = 0]), i) ELSE f

ApplyStatusSweeps(f) ==
  LET second == f.tick > 0 /\ f.tick % TicksPerSecond = 0
  IN ForEachUnit(f, LAMBDA g, i :
       IF ~g.units[i].alive \/ g.units[i].hp <= 0 \/ Has(g.units[i], "Piloting") THEN g
       ELSE Then(IF second THEN HpPerSecond(g, i) ELSE g, LAMBDA h : Execute(h, i)))

\* Hooks answer the damage of the tick, in bounded rounds; what they deal fires no further hooks.
AnswerOnce(f) ==
  IF f.pendingHooks = <<>> THEN f
  ELSE Then(RunCasts([f EXCEPT !.pendingHooks = <<>>], SelectSeq(f.pendingHooks, LAMBDA c : f.units[c.by].alive)),
            ApplyHits)

ProcessHooks(f) ==
  [Fold(LAMBDA g, n : AnswerOnce(g), f, [n \in 1 .. MaxHookRounds |-> n]) EXCEPT !.pendingHooks = <<>>]

ApplyManaFromDamage(f) ==
  LET Fill(u) == LET gain == Min({u.manaFromDamage, ManaFromDamageCap})
                 IN IF ~u.alive THEN u
                    ELSE [u EXCEPT !.manaFromDamage = 0,
                                   !.mana = IF u.maxMana > 0 /\ f.tick >= u.lockedUntil
                                            THEN Min({u.maxMana, @ + gain}) ELSE @]
  IN [f EXCEPT !.units = [i \in DOMAIN f.units |-> Fill(f.units[i])]]

\* OnTeamHpLoss: once per step of the team's HP that is gone, per holder or (`once`) per team.
CheckTeamHp(f) ==
  LET Steps(g, t, hook) ==
        LET lost == Max({0, g.teamMaxHp[t] - TeamHp(g, t, [i \in DOMAIN g.units |-> IF g.units[i].alive THEN g.units[i].hp ELSE 0])})
        IN (lost * 100) \div (g.teamMaxHp[t] * hook.threshold)
      FireStep(g, i, k) ==
        LET t == g.units[i].team
            slot == g.units[i].slots[k]
            hook == slot.hook
            seen == IF hook.once = 0 THEN slot.counter ELSE g.once[t][hook.once]
            noted == IF hook.once = 0 THEN [g EXCEPT !.units[i].slots[k].counter = @ + 1]
                     ELSE [g EXCEPT !.once[t][hook.once] = @ + 1]
        IN IF seen < Steps(f, t, hook) /\ (hook.maxTriggers = 0 \/ slot.fired < hook.maxTriggers)
           THEN FireHook(noted, i, k, 0, 0, 0, TRUE) ELSE g
      Check(g, i) ==
        LET u == g.units[i]
            listening == SelectSeq([k \in DOMAIN u.slots |-> k], LAMBDA k : u.slots[k].hook.trigger = "OnTeamHpLoss")
        IN IF ~u.alive \/ u.hp <= 0 \/ f.teamMaxHp[u.team] = 0 THEN g
           ELSE Fold(LAMBDA h, k : Fold(LAMBDA j, n : FireStep(j, i, k), h,
                                                [n \in 1 .. Steps(f, u.team, u.slots[k].hook) |-> n]),
                         g, listening)
  IN ForEachUnit(f, Check)

\* Mutant: the ejected pilot keeps its link to the mech.
EjectPilot_StaysLinked(f, i) ==
  LET j == f.units[i].pilot
  IN IF j = 0 THEN f
     ELSE TellHp([f EXCEPT !.units[i].pilot = 0,
                           !.units[j].statuses = SelectSeq(@, LAMBDA s : s.type # "Piloting")], j)

\* EjectPilot: its mech is gone; the pilot stands where it climbed in and runs its passives.
EjectPilot(f, i) ==
  LET j == f.units[i].pilot
      freed == [f EXCEPT !.units[i].pilot = 0, !.units[j].mech = 0]
      p == freed.units[j]
      out == [SetTarget(p, 0) EXCEPT !.statuses = SelectSeq(@, LAMBDA s : s.type # "Piloting"),
                                     !.nextAttackTick = Max({@, f.tick + 1}), !.nextMoveTick = Max({@, f.tick + 1})]
  IN IF j = 0 THEN f
     ELSE IF ~p.alive THEN freed
     ELSE Then(TellHp(WithUnit(freed, j, out), j), LAMBDA g : RunPassives(g, j))

\* Burials, last acts, kill rewards, casts on death, and who hears of a death.
Bury(f, i) ==
  LET u == f.units[i]
  IN TellDeath([WithUnit(f, i, [u EXCEPT !.alive = FALSE, !.channel = 0, !.shields = <<>>, !.statuses = <<>>, !.dots = <<>>])
                  EXCEPT !.living[u.team] = IF u.summon THEN @ ELSE @ - 1, !.blocked = @ \ {u.at}], i)

LastAct(f, i) ==
  Then(FireHooks(f, i, SlotsThat(f.units[i], LAMBDA h : h.trigger = "OnDeath"), 0, i, 0, TRUE), LAMBDA g : EjectPilot(g, i))

RewardKill(f, i) ==
  LET u == f.units[i]
      cast == CastRecord(f, u.killer, i, Kind(f.units[u.killer]).ability)
      noted == [f EXCEPT !.units[i].onKill = <<>>]
  IN IF u.onKill = <<>> \/ u.killer = 0 \/ ~f.units[u.killer].alive THEN noted
     ELSE Fold(LAMBDA g, e : ExecuteEffect(g, cast, e), noted, u.onKill)

CastOnDeath(f, i) ==
  LET u == f.units[i]
  IN IF Kind(u).ability.onDeath /\ u.target # 0 /\ f.units[u.target].alive THEN DeclareCast(f, i, TRUE) ELSE f

HearDeath(f, i) ==
  LET fallen == f.units[i]
      Hears(g, j) ==
        LET ally == fallen.team = g.units[j].team
            Listens(h) == \/ h.trigger = "OnAnyUnitDeath"
                          \/ h.trigger = "OnEnemyDeath" /\ ~ally
                          \/ h.trigger = "OnAllyDeath" /\ ally
        IN IF g.units[j].alive THEN FireHooks(g, j, SlotsThat(g.units[j], Listens), 0, i, 0, TRUE) ELSE g
  IN ForEachUnit(f, Hears)

\* One round: the dead are buried, act a last time, reward their killers, cast on death, are heard of.
Dead(f) == SelectSeq([i \in DOMAIN f.units |-> i], LAMBDA i : f.units[i].alive /\ f.units[i].hp <= 0)

ReapRound(f, dead) ==
  Fold(HearDeath, Fold(CastOnDeath, Fold(RewardKill, Fold(LastAct, Fold(Bury, f, dead), dead), dead), dead), dead)

\* What the dead have cast runs, lands and is answered.
Settle(f) == Then(Then(Then(f, ExecuteCasts), ApplyHits), ProcessHooks)

\* Mutant: what the casts on death kill is not looked at again.
ReapDeathsAndDeathCasts_Once(f) == Then(ReapRound(f, Dead(f)), Settle)

\* Rounds until nobody is dead or the dead have cast nothing.
ReapDeathsAndDeathCasts(f) ==
  Fold(LAMBDA r, n : IF r.done \/ Dead(r.f) = <<>> THEN [r EXCEPT !.done = TRUE]
                     ELSE Then(ReapRound(r.f, Dead(r.f)),
                               LAMBDA g : [f |-> IF g.casts = <<>> THEN g ELSE Settle(g), done |-> g.casts = <<>>]),
       [f |-> f, done |-> FALSE], [n \in 1 .. MaxDeathCastRounds |-> n]).f

Declared(f) == Then(Then(Then(f, RegenerateMana), FireIntervalHooks), ExecuteScheduled)

Resolved(f) ==
  Then(Then(Then(Then(Then(Then(Then(Then(Declared(f), ExecuteCasts), TickDots), ApplyHits), ApplyStatusSweeps),
                      ProcessHooks), ApplyManaFromDamage), CheckTeamHp), ReapDeathsAndDeathCasts)

-----------------------------------------------------------------------------
(* The end, and the loop of Run.                                           *)

\* DespawnSummons: every summon still standing vanishes.
DespawnSummons(f) ==
  LET Vanish(g, i) ==
        IF g.units[i].summon /\ g.units[i].alive
        THEN TellDeath([g EXCEPT !.units[i].alive = FALSE, !.units[i].hp = 0, !.blocked = @ \ {g.units[i].at}], i) ELSE g
  IN ForEachUnit(f, Vanish)

Decide(f) ==
  CASE f.living[1] = 0 /\ f.living[2] = 0 -> "draw"
    [] f.living[1] # 0 -> "home"
    [] OTHER -> "away"

\* DecideAtLimit: more units, then more HP, then a coin.
DecideAtLimit(f) ==
  LET Hp(t) == FoldLeft(LAMBDA n, u : IF u.team = t /\ u.alive /\ ~u.summon THEN n + u.hp ELSE n, 0, f.units)
      Better(a, b) == IF a > b THEN {"home"} ELSE {"away"}
  IN IF f.living[1] # f.living[2] THEN Better(f.living[1], f.living[2])
     ELSE IF Hp(1) # Hp(2) THEN Better(Hp(1), Hp(2)) ELSE {"home", "away"}

\* Nobody dies and nobody appears while the units act: the living take their turns in order.
TurnAfter(f, i) ==
  LET later == {j \in DOMAIN f.units : j > i /\ f.units[j].alive}
  IN IF later = {} THEN Len(f.units) + 1 ELSE Min(later)

Init ==
  /\ lineup \in Lineups
  /\ fight = Start(lineup)
  /\ turn = 0
  /\ winner = "none"

BeginTick ==
  /\ winner = "none" /\ turn = 0
  /\ fight' = Then(Then(Then(fight, EnterOvertime), ExpireEffects), UpdateAuras)
  /\ turn' = TurnAfter(fight, 0)
  /\ UNCHANGED <<lineup, winner>>

Turn(i) == winner = "none" /\ turn = i /\ i \in DOMAIN fight.units
Free(i) == ~IsDisabled(fight.units[i]) /\ fight.tick >= fight.units[i].lockedUntil
EndTurn(i) == turn' = TurnAfter(fight, i) /\ UNCHANGED <<lineup, winner>>

\* It is stunned, seated in a mech, or busy with a cast.
Sit(i) == Turn(i) /\ ~Free(i) /\ UNCHANGED fight /\ EndTurn(i)

Fights(f, i) == LET u == f.units[i]
                IN u.target # 0 /\ (InRange(f, i, u.target) \/ (IsStationary(u) /\ HasAbility(u)))

Engage(i) ==
  /\ Turn(i) /\ Free(i)
  /\ \E f \in {Aimed(fight, i)} : Fights(f, i) /\ fight' = Engaged(f, i)
  /\ EndTurn(i)

\* Out of range it walks if it can: by its route, or by any shortest one it finds.
MayWalk(f, i) == LET u == f.units[i]
                 IN u.target # 0 /\ ~Fights(f, i) /\ ~IsStationary(u) /\ ~Has(u, "Root") /\ f.tick >= u.nextMoveTick

FollowRoute(i) ==
  /\ Turn(i) /\ Free(i)
  /\ \E f \in {Aimed(fight, i)} :
       MayWalk(f, i) /\ RouteHolds(f, i) /\ fight' = StepTo(f, i, f.units[i].path)
  /\ EndTurn(i)

SearchRoute(i) ==
  /\ Turn(i) /\ Free(i)
  /\ \E f \in {Aimed(fight, i)} :
       /\ MayWalk(f, i) /\ ~RouteHolds(f, i) /\ f.tick >= f.units[i].nextPathTick
       /\ \E routes \in {Routes(f.units[i].at, f.units[f.units[i].target].at, Kind(f.units[i]).range, f.blocked)} :
            \/ routes = {} /\ fight' = NoRoute(f, i)
            \/ \E path \in routes : fight' = StepTo(f, i, path)
  /\ EndTurn(i)

Wait(i) ==
  /\ Turn(i) /\ Free(i)
  /\ \E f \in {Aimed(fight, i)} :
       /\ ~Fights(f, i)
       /\ ~MayWalk(f, i) \/ (~RouteHolds(f, i) /\ f.tick < f.units[i].nextPathTick)
       /\ fight' = f
  /\ EndTurn(i)

\* A side without units ends the fight; otherwise the next tick, up to the limit.
Wiped(f) == \E t \in Teams : f.living[t] = 0

Resolve ==
  /\ winner = "none" /\ turn = Len(fight.units) + 1
  /\ turn' = 0
  /\ UNCHANGED lineup
  /\ \E f \in {Resolved(fight)} :
       \/ Wiped(f) /\ fight' = DespawnSummons(f) /\ winner' = Decide(f)
       \/ /\ ~Wiped(f) /\ f.tick + 1 < MaxTicks
          /\ fight' = [f EXCEPT !.tick = @ + 1]
          /\ UNCHANGED winner
       \/ /\ ~Wiped(f) /\ f.tick + 1 = MaxTicks
          /\ fight' = DespawnSummons([f EXCEPT !.tick = @ + 1])
          /\ winner' \in DecideAtLimit(f)

Act(i) == Sit(i) \/ Engage(i) \/ FollowRoute(i) \/ SearchRoute(i) \/ Wait(i)

Next == BeginTick \/ (\E i \in DOMAIN fight.units : Act(i)) \/ Resolve

Spec == Init /\ [][Next]_vars /\ WF_vars(Next)

-----------------------------------------------------------------------------
(* Properties.                                                             *)

Living == {i \in DOMAIN fight.units : fight.units[i].alive}
TickEnded == turn = 0 \/ winner # "none"

\* What the fight keeps apart from its units agrees with them: the grid blocks exactly the
\* hexes living units stand on, no two share one, and the counts that end the fight are those
\* of the units standing that are no summons; it goes on exactly while both sides have one.
\* When a tick has resolved nobody stands with no hit points left, whatever the casts on
\* death, the hooks and the executions of that tick did to whom.
FieldAgrees ==
  /\ fight.blocked = {fight.units[i].at : i \in Living}
  /\ Cardinality(fight.blocked) = Cardinality(Living)
  /\ \A t \in Teams :
       fight.living[t] = Cardinality({i \in Living : fight.units[i].team = t /\ ~fight.units[i].summon})
  /\ winner = "none" => \A t \in Teams : fight.living[t] > 0
  /\ TickEnded => \A i \in Living : fight.units[i].hp > 0

\* A pilot and its mech know each other for as long as the mech lives; a pilot is inside exactly then.
PilotsAgree ==
  /\ \A i \in DOMAIN fight.units :
       LET j == fight.units[i].pilot
       IN j # 0 => fight.units[i].alive /\ fight.units[j].mech = i
  /\ \A j \in Living :
       LET i == fight.units[j].mech
       IN IF Has(fight.units[j], "Piloting") THEN i # 0 /\ fight.units[i].pilot = j ELSE i = 0

\* Whoever plays the events back sees, at the end of every tick, each unit standing where it stands,
\* with the hit points it has: nothing changes a bar or a place without an event that carries it.
StreamShowsTheFight ==
  TickEnded =>
    \A i \in DOMAIN fight.units :
      LET u == fight.units[i]
          s == fight.shown[i]
      IN s.alive = u.alive /\ (u.alive => s.hp = u.hp /\ s.at = u.at)

\* A unit that channels is alive, neither stunned nor in the air, and still locked in the cast.
ChannelUnbroken ==
  winner = "none" => \A i \in DOMAIN fight.units :
    LET u == fight.units[i]
    IN u.channel # 0 => u.alive /\ (\A type \in Helpless : ~Has(u, type)) /\ fight.tick <= u.channelEnd /\ u.channelEnd < u.lockedUntil

\* Two units of one kind that face each other from the start and have nothing that heals them fall
\* together: what a tick queues is dealt as if at once ("a draw, no lower-id advantage").
Twins == Len(lineup) = 2 /\ lineup[1].kind = lineup[2].kind
TwinsFallTogether ==
  (Twins /\ Distance(lineup[1].at, lineup[2].at) = 1 /\ Kinds[lineup[1].kind].plain) => winner \in {"none", "draw"}
=============================================================================
