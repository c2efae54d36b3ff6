------------------------------ MODULE MCFight -------------------------------
(* Fights of two to four units on a board of 3 by 4 hexes.                 *)
EXTENDS Fight

Plain == [do |-> "Damage", to |-> "CurrentTarget", side |-> "enemies", radius |-> 1, center |-> TRUE, count |-> 1,
          n |-> 0, of |-> "None", percent |-> 0, status |-> "Stun", ticks |-> 0, every |-> 1, healPercent |-> 0,
          refreshes |-> FALSE, cap |-> 0, reduction |-> 0, onKill |-> <<>>, destination |-> "BehindCurrentTarget",
          kind |-> "Pup", delay |-> 0, repeat |-> 1, interval |-> 0, unhurt |-> FALSE]

Gives(to, status, n, ticks) == [Plain EXCEPT !.do = "Status", !.to = to, !.status = status, !.n = n, !.ticks = ticks]

None == [name |-> "None", trigger |-> "None", attackCount |-> 1, maxTriggers |-> 0, requiresCharge |-> FALSE,
         threshold |-> 100, damageFilter |-> "any", shieldFrom |-> "", interval |-> 1, lock |-> 0, channel |-> 0,
         afterAttacks |-> 0, onDeath |-> FALSE, resets |-> FALSE, stopsOnDeath |-> FALSE, once |-> 0, effects |-> <<>>]

Ability(name, trigger, effects) == [None EXCEPT !.name = name, !.trigger = trigger, !.effects = effects]

Grunt == [hp |-> 6, damage |-> 2, range |-> 1, interval |-> 2, maxMana |-> 0, startMana |-> 0, regen |-> 0, cost |-> 1,
          stationary |-> FALSE, plant |-> FALSE, traits |-> {}, spread |-> 0, onAttack |-> None, ability |-> None, passives |-> <<>>, hooks |-> <<>>,
          aura |-> [side |-> "all", radius |-> -1, status |-> "Stun", n |-> 0, self |-> FALSE],
          pilot |-> [enabled |-> FALSE, hpPercent |-> 0, bonuses |-> <<>>], plain |-> TRUE]

MCKinds ==
  LET Caster(effects) == [Grunt EXCEPT !.maxMana = 2, !.regen = 1, !.ability = Ability("Spell", "Mana", effects)]
  IN [Grunt |-> Grunt,
      Pup |-> [Grunt EXCEPT !.hp = 2, !.damage = 1],
      \* Its arrows hurt for a while, and tire whoever they hit.
      Archer |-> [Grunt EXCEPT !.range = 2, !.hp = 4, !.spread = 2, !.traits = {"Engineer"},
                     !.onAttack = Ability("Tire", "None", <<Gives("CurrentTarget", "ManaCost", -30, 0)>>)],
      \* What the engineers have built.
      Turret |-> [Grunt EXCEPT !.hp = 2, !.damage = 0, !.stationary = TRUE],
      \* Drains, and heals itself from burns.
      Vampire |-> [Grunt EXCEPT !.plain = FALSE,
                     !.passives = <<Ability("Thirst", "None", <<Gives("Self", "Omnivamp", 100, 0)>>)>>,
                     !.hooks = <<Ability("Bite", "OnBasicAttack",
                          <<[Plain EXCEPT !.do = "Dot", !.n = 1, !.ticks = 2, !.healPercent = 50, !.refreshes = TRUE]>>)>>],
      \* Stuns, and is immune to it for a while.
      Stunner |-> [Caster(<<Gives("CurrentTarget", "Stun", 1, 2), Gives("Self", "CcImmunity", 1, 1)>>) EXCEPT
                     !.ability.lock = 1, !.traits = {"Brute"}],
      \* Three pulses around its target; a kill drops its aggro.
      Channeler |-> [Caster(<<[Plain EXCEPT !.to = "AreaAroundTarget", !.n = 2, !.repeat = 3, !.interval = 1,
                                 !.onKill = <<Gives("Self", "AggroDrop", 1, 2)>>]>>) EXCEPT
                     !.ability.channel = 2, !.ability.stopsOnDeath = TRUE, !.damage = 1],
      Mech |-> [Grunt EXCEPT !.hp = 4, !.pilot = [enabled |-> TRUE, hpPercent |-> 50,
                     bonuses |-> <<[traits |-> {"Brute"}, effects |-> <<Gives("Self", "BonusAttackDamage", 1, 0)>>]>>]],
      \* Hides at the start, and hurts around its target when it dies.
      Bomber |-> [Grunt EXCEPT !.hp = 3, !.passives = <<Ability("Shadow", "None", <<Gives("Self", "Untargetable", 1, 2)>>)>>,
                     !.ability = [Ability("Blast", "EveryNthAttack", <<[Plain EXCEPT !.to = "AreaAroundTarget", !.n = 3]>>) EXCEPT
                                    !.attackCount = 2, !.onDeath = TRUE, !.resets = TRUE]],
      \* Calls two pups, and copies its team when it dies.
      Caller |-> [Caster(<<[Plain EXCEPT !.do = "Summon", !.to = "Self", !.count = 2]>>) EXCEPT !.damage = 1, !.plain = FALSE,
                     !.hooks = <<Ability("Wail", "OnDeath", <<[Plain EXCEPT !.do = "Clone", !.to = "Self", !.percent = 50]>>)>>],
      \* Its allies near it have more HP; it takes half of what hits them.
      Guard |-> [Grunt EXCEPT !.plain = FALSE,
                     !.aura = [side |-> "allies", radius |-> 1, status |-> "BonusMaxHp", n |-> 2, self |-> TRUE],
                     !.passives = <<Ability("Bond", "None", <<Gives("AllAllies", "Tether", 50, 0),
                          [Plain EXCEPT !.do = "Shield", !.to = "AllAllies", !.n = 1, !.ticks = 4, !.reduction = 50]>>)>>,
                     !.hooks = <<Ability("Mend", "OnShieldBreak", <<[Plain EXCEPT !.do = "Heal", !.to = "LowestHpAlly", !.n = 1]>>)>>],
      \* Leaps to the weakest, throws it back and lifts it off its feet.
      Rogue |-> [Caster(<<[Plain EXCEPT !.do = "Teleport", !.to = "Self", !.destination = "NextToLowestHpEnemy"],
                          [Plain EXCEPT !.do = "Displace", !.n = 1, !.destination = "AwayFromCaster"],
                          Gives("CurrentTarget", "Knockup", 1, 2)>>) EXCEPT
                     !.plain = FALSE,
                     !.hooks = <<[Ability("Rage", "OnHpDropBelowPercent", <<Gives("Self", "BonusMaxHp", 3, 2)>>) EXCEPT !.threshold = 90]>>],
      \* Executes the weak and drains around it.
      Reaper |-> [Grunt EXCEPT !.plain = FALSE,
                     !.hooks = <<Ability("Doom", "OnDealDamage", <<Gives("TriggerVictim", "ExecuteBelow", 40, 0)>>),
                                       Ability("Harvest", "OnEnemyDeath", <<Gives("AllEnemies", "HpPerSecond", -25, 3)>>)>>],
      Plant |-> [Caster(<<[Plain EXCEPT !.to = "LowestHpEnemy", !.n = 1]>>) EXCEPT !.stationary = TRUE, !.plant = TRUE]]

\* A brute's team wounds what it burns, and is shielded when half of its HP is gone.  Engineers build
\* a turret, which sends their archers' blows again and again, and change the best of them.
MCSynergies ==
  LET Stand == [Ability("Stand", "OnTeamHpLoss", <<[Plain EXCEPT !.do = "Shield", !.to = "AllAllies", !.n = 1, !.ticks = 2]>>)
                  EXCEPT !.threshold = 50, !.once = 1]
  IN <<[trait |-> "Brute", need |-> 1, scope |-> "team", effects |-> <<Gives("AllAllies", "InflictsWound", 50, 0)>>,
        hooks |-> <<Stand>>, mutationSlots |-> 0, supercharge |-> FALSE, mutations |-> <<>>,
        invention |-> "none", moduleTier |-> 0],
       [trait |-> "Engineer", need |-> 1, scope |-> "holders", effects |-> <<>>, hooks |-> <<>>,
        mutationSlots |-> 1, supercharge |-> TRUE,
        mutations |-> <<[classes |-> {"Brute"}, effects |-> <<>>, hooks |-> <<>>, superHooks |-> <<>>,
                         superEffects |-> <<Gives("Self", "HealingAmp", 100, 0)>>],
                        [classes |-> {}, effects |-> <<Gives("Self", "DamageTaken", 50, 4)>>, hooks |-> <<>>,
                         superEffects |-> <<>>, superHooks |-> <<>>]>>,
        invention |-> "Turret", moduleTier |-> 1]>>

MCModules ==
  [t \in {1, 2} |->
     <<[trait |-> "Engineer", tier |-> 1, echo |-> 3, name |-> "Volley", stopsOnDeath |-> FALSE,
        effects |-> <<[Plain EXCEPT !.do = "AllyStrike", !.to = "ClosestEnemies", !.kind = "Archer",
                         !.percent = 50, !.delay = 2]>>],
       [trait |-> "Engineer", tier |-> 2, echo |-> 0, name |-> "Locked", stopsOnDeath |-> FALSE, effects |-> <<Plain>>]>>]

\* A cap makes its bearer a brute, and hits back at once when it has hit three times.
Cap == [stats |-> <<<<"BonusMaxHp", 1>>>>, startMana |-> 1, traits |-> {"Brute"},
        hooks |-> <<[Ability("Fury", "OnBasicAttack", <<[Plain EXCEPT !.n = 1]>>) EXCEPT !.afterAttacks = 2]>>]

Names == DOMAIN MCKinds \ {"Pup", "Turret"}

At(kind, team, h) == [kind |-> kind, team |-> team, at |-> h, items |-> <<>>]

\* Duels at every distance, and two against two.
Duels == {<<At(a, 1, Hex(x, 1)), At(b, 2, Hex(y, 2))>> : a \in Names, b \in Names, x \in {0, 1}, y \in {0, 2}}
Pairs == {<<[At(a, 1, Hex(1, 1)) EXCEPT !.items = IF c = "Guard" THEN <<Cap>> ELSE <<>>], At(b, 2, Hex(1, 2)), At(c, 1, Hex(1, 0)), At("Grunt", 2, Hex(2, 2))>> :
            a \in Names, b \in Names, c \in {"Mech", "Guard", "Caller", "Bomber", "Reaper", "Stunner"}}

MCLineups == Duels \cup Pairs
=============================================================================
