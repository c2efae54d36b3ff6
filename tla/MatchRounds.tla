----------------------------- MODULE MatchRounds -----------------------------
(***************************************************************************)
(* The course of a match: the clock of its phases, who fights whom, what   *)
(* losing costs, who falls in which place (MatchManager.cpp, the health of *)
(* PlayerState.cpp).  A fight is any result the simulator can report.      *)
(* What a match does with champions and shops is in Match.                 *)
(*                                                                         *)
(* Rounds go on as long as two players are left.  What they are like       *)
(* repeats, so a round number beyond LastRound is folded back by           *)
(* RoundCycle rounds.                                                      *)
(***************************************************************************)
EXTENDS Integers, FiniteSets, Sequences, SequencesExt

CONSTANTS
  NumPlayers, StartingHealth,
  MotherNatureTicks, PlanningTicks, CombatTicks, ResolutionTicks,   \* MatchConfig
  CombatMinTicks, CombatLingerTicks, FightTicks,   \* FightTicks: the ticks a fight may take
  FirstStageRounds, RoundsPerStage,
  FirstStagePveRounds, PveRoundInLaterStages, PveLossFromStage,
  GiftEvery,          \* motherNatureEveryRounds, 0 = never
  GiftHeals,          \* the health a gift may restore, 0 = a gift of another kind
  BaseDamage, PerSurvivingUnit,   \* DamageConfig
  MaxUnits,           \* a bound on the units that survive a fight
  LastRound, RoundCycle,
  TickBound           \* of the exploration: longer than every phase

Players == 1 .. NumPlayers

StageOf(r) == IF r <= FirstStageRounds THEN 1 ELSE 2 + ((r - FirstStageRounds - 1) \div RoundsPerStage)
RoundInStage(r) == IF r <= FirstStageRounds THEN r ELSE 1 + ((r - FirstStageRounds - 1) % RoundsPerStage)

ASSUME MatchRoundsAssumption ==
  /\ NumPlayers \in Nat \ {0, 1} /\ StartingHealth \in Nat \ {0}
  /\ {MotherNatureTicks, PlanningTicks, CombatTicks, ResolutionTicks, CombatMinTicks} \subseteq Nat \ {0}
  /\ TickBound \in Nat /\ \A d \in {MotherNatureTicks, PlanningTicks, CombatTicks, ResolutionTicks} : d <= TickBound
  /\ CombatLingerTicks \in Nat /\ FightTicks \subseteq Nat
  /\ {FirstStageRounds, RoundsPerStage} \subseteq Nat \ {0}
  /\ FirstStagePveRounds \in 0 .. FirstStageRounds /\ PveRoundInLaterStages \in 0 .. RoundsPerStage
  /\ PveLossFromStage \in Nat /\ GiftEvery \in Nat /\ GiftHeals \subseteq Nat
  /\ BaseDamage \in Seq(Nat) /\ BaseDamage # << >> /\ PerSurvivingUnit \in Nat /\ MaxUnits \in Nat \ {0}
  /\ LastRound \in Nat /\ RoundCycle \in 1 .. LastRound
  /\ RoundCycle % RoundsPerStage = 0 /\ (GiftEvery > 0 => RoundCycle % GiftEvery = 0)
  /\ LET repeated == LastRound + 1 - RoundCycle IN
       repeated > FirstStageRounds /\ StageOf(repeated) >= Len(BaseDamage) /\ StageOf(repeated) >= PveLossFromStage

VARIABLES
  phase, round,
  ticks,          \* ticksInPhase_
  combatTicks,    \* combatPhaseTicks_
  undecided,      \* players whose gift is not settled
  health,
  alive,
  placement,      \* 0 = none yet
  fights,         \* matchups_ with outcomes_, by the player at home; monsters are player 0
  winner          \* 0 = nobody

vars == <<phase, round, ticks, combatTicks, undecided, health, alive, placement, fights, winner>>

Fights == [away : 0 .. NumPlayers, ghost : BOOLEAN, winner : {"Home", "Away", "Draw"}, survivors : 0 .. MaxUnits]

TypeOK ==
  /\ phase \in {"NotStarted", "MotherNature", "Planning", "Combat", "Resolution", "MatchOver"}
  /\ round \in 0 .. LastRound
  /\ ticks \in 0 .. TickBound /\ combatTicks \in 0 .. CombatTicks
  /\ undecided \subseteq alive /\ alive \subseteq Players
  /\ health \in [Players -> Int] /\ \A p \in Players : health[p] <= StartingHealth
  /\ placement \in [Players -> 0 .. NumPlayers]
  /\ DOMAIN fights \subseteq Players /\ \A p \in DOMAIN fights : fights[p] \in Fights
  /\ winner \in 0 .. NumPlayers

Init ==
  /\ phase = "NotStarted" /\ round = 0 /\ ticks = 0 /\ combatTicks = 0
  /\ undecided = {} /\ fights = << >> /\ winner = 0
  /\ alive = Players
  /\ health = [p \in Players |-> StartingHealth]
  /\ placement = [p \in Players |-> 0]

-----------------------------------------------------------------------------
(* What a round is like.                                                   *)

IsMotherNatureRound(r) == GiftEvery > 0 /\ r % GiftEvery = 0

IsPveRound(r) ==
  IF StageOf(r) = 1 THEN RoundInStage(r) <= FirstStagePveRounds
  ELSE PveRoundInLaterStages > 0 /\ RoundInStage(r) = PveRoundInLaterStages

Lesser(a, b)  == IF a < b THEN a ELSE b
Greater(a, b) == IF a < b THEN b ELSE a

PlayerDamage(r, survivors) == BaseDamage[Lesser(StageOf(r), Len(BaseDamage))] + survivors * PerSurvivingUnit

PhaseDuration ==
  CASE phase = "MotherNature" -> MotherNatureTicks
    [] phase = "Planning"     -> PlanningTicks
    [] phase = "Combat"       -> IF combatTicks > 0 THEN combatTicks ELSE CombatTicks
    [] phase = "Resolution"   -> ResolutionTicks
    [] OTHER                  -> 0

-----------------------------------------------------------------------------
(* Gifts.                                                                  *)

Healed(h, amount) == IF h >= StartingHealth THEN h ELSE h + Lesser(amount, StartingHealth - h)

TryPickGift(p) ==
  /\ phase = "MotherNature" /\ p \in undecided
  /\ undecided' = undecided \ {p}
  /\ \E amount \in GiftHeals : health' = [health EXCEPT ![p] = Healed(@, amount)]
  /\ UNCHANGED <<phase, round, ticks, combatTicks, alive, placement, fights, winner>>

-----------------------------------------------------------------------------
(* Fights.                                                                 *)

GhostsFor_AnyLiving(lonely) == alive

\* Who may be copied for the odd one out to fight.
GhostsFor(lonely) == alive \ {lonely}

\* ids: the living players in the order of the shuffle.
Pairings(ids) ==
  LET n == Len(ids)
      homes == {i \in 1 .. n : i % 2 = 1}
      meets(i, g) == IF i < n THEN [away |-> ids[i + 1], ghost |-> FALSE] ELSE [away |-> g, ghost |-> TRUE]
  IN {[p \in {ids[i] : i \in homes} |-> meets(CHOOSE i \in homes : ids[i] = p, g)] :
        g \in IF n % 2 = 0 THEN {0} ELSE GhostsFor(ids[n])}

BuildMatchups ==
  IF IsPveRound(round) THEN {[p \in alive |-> [away |-> 0, ghost |-> FALSE]]}
  ELSE UNION {Pairings(ids) : ids \in SetToSeqs(alive)}

\* A fight is won with somebody left standing, or drawn.
Results == {[winner |-> "Draw", survivors |-> 0]}
             \cup [winner : {"Home", "Away"}, survivors : 1 .. MaxUnits]

ComputeCombatTicks(lastEnd) == Lesser(CombatTicks, Greater(CombatMinTicks, lastEnd + CombatLingerTicks))

Losers(p, f) ==
  CASE f.winner = "Home" -> IF f.ghost THEN {} ELSE {f.away} \cap Players
    [] f.winner = "Away" -> IF f.away = 0 /\ (PveLossFromStage = 0 \/ StageOf(round) < PveLossFromStage)
                            THEN {} ELSE {p}
    [] OTHER             -> {}

HealthAfter(q) ==
  LET lost == {p \in DOMAIN fights : q \in Losers(p, fights[p])}
  IN health[q] - FoldSet(LAMBDA p, sum : sum + PlayerDamage(round, fights[p].survivors), 0, lost)

\* The most overkill first; with equal health the later seat.
FallsBefore(h, a, b) == h[a] < h[b] \/ (h[a] = h[b] /\ a > b)

PlaceOf_FromSurvivors(h, dying, p) ==
  Cardinality(alive \ dying) - Cardinality({q \in dying : FallsBefore(h, q, p)})

PlaceOf(h, dying, p) == Cardinality(alive) - Cardinality({q \in dying : FallsBefore(h, q, p)})

-----------------------------------------------------------------------------
(* Phases.                                                                 *)

Enter(next) == phase' = next /\ ticks' = 0

EnterMotherNature ==
  /\ Enter("MotherNature")
  /\ undecided' \in SUBSET alive      \* who has anything on offer

BeginRound(r) ==
  /\ round' = r
  /\ IF IsMotherNatureRound(r) THEN EnterMotherNature ELSE Enter("Planning") /\ undecided' = {}

Start ==
  /\ phase = "NotStarted"
  /\ BeginRound(1)
  /\ UNCHANGED <<combatTicks, health, alive, placement, fights, winner>>

\* FinishGiftPhase: the first offer for whoever has not chosen.
EndMotherNature ==
  /\ phase = "MotherNature"
  /\ Enter("Planning")
  /\ undecided' = {}
  /\ \E amounts \in [undecided -> GiftHeals] :
       health' = [p \in Players |-> IF p \in undecided THEN Healed(health[p], amounts[p]) ELSE health[p]]
  /\ UNCHANGED <<round, combatTicks, alive, placement, fights, winner>>

StartCombat ==
  /\ phase = "Planning"
  /\ Enter("Combat")
  /\ \E m \in BuildMatchups : \E results \in [DOMAIN m -> Results] :
       fights' = [p \in DOMAIN m |-> [away |-> m[p].away, ghost |-> m[p].ghost,
                                      winner |-> results[p].winner, survivors |-> results[p].survivors]]
  /\ \E lastEnd \in FightTicks : combatTicks' = ComputeCombatTicks(lastEnd)
  /\ UNCHANGED <<round, undecided, health, alive, placement, winner>>

\* ApplyCombatOutcomes.  The fights are not read again.
EndCombat ==
  LET h == [p \in Players |-> IF p \in alive THEN HealthAfter(p) ELSE health[p]]
      dying == {p \in alive : h[p] <= 0}
  IN /\ phase = "Combat"
     /\ Enter("Resolution")
     /\ health' = h
     /\ alive' = alive \ dying
     /\ placement' = [p \in Players |-> IF p \in dying THEN PlaceOf(h, dying, p) ELSE placement[p]]
     /\ fights' = << >>
     /\ UNCHANGED <<round, combatTicks, undecided, winner>>

IsDecided_OneLeft == Cardinality(alive) = 1

IsDecided == Cardinality(alive) <= 1

NextRound ==
  /\ phase = "Resolution" /\ ~ IsDecided
  /\ BeginRound(IF round = LastRound THEN LastRound + 1 - RoundCycle ELSE round + 1)
  /\ UNCHANGED <<combatTicks, health, alive, placement, fights, winner>>

EndMatch ==
  /\ phase = "Resolution" /\ IsDecided
  /\ Enter("MatchOver")
  /\ placement' = [p \in Players |-> IF p \in alive THEN 1 ELSE placement[p]]
  /\ winner' = CHOOSE p \in Players : placement'[p] = 1
  /\ UNCHANGED <<round, combatTicks, undecided, health, alive, fights>>

AdvancePhase == EndMotherNature \/ StartCombat \/ EndCombat \/ NextRound \/ EndMatch

PhaseIsOver_WaitsForGifts == IF phase = "MotherNature" THEN undecided = {} ELSE ticks + 1 >= PhaseDuration

PhaseIsOver == (phase = "MotherNature" /\ undecided = {}) \/ ticks + 1 >= PhaseDuration

Tick ==
  /\ phase \notin {"NotStarted", "MatchOver"}
  /\ \/ PhaseIsOver /\ AdvancePhase
     \/ /\ ~ PhaseIsOver /\ ticks < TickBound
        /\ ticks' = ticks + 1
        /\ UNCHANGED <<phase, round, combatTicks, undecided, health, alive, placement, fights, winner>>

Next == Start \/ Tick \/ \E p \in Players : TryPickGift(p)

Spec == Init /\ [][Next]_vars

\* The room ticks its match for ever (GameServer::Tick, QueueServer::Tick).
LiveSpec == Spec /\ WF_vars(Tick)

-----------------------------------------------------------------------------
(* Properties.                                                             *)

Placed == {p \in Players : placement[p] # 0}

\* Places are given away from the last one up, each once, also when several players
\* fall in the same round or all who are left; whoever is still in has health left
\* and no place (what PlayerState::RestoreState demands of a snapshot); when the
\* match is over everybody has a place of their own and the winner has the first.
StandingsAgree ==
  /\ \A p, q \in Placed : placement[p] = placement[q] => p = q
  /\ phase # "MatchOver" =>
       /\ Placed = Players \ alive
       /\ {placement[p] : p \in Placed} = (Cardinality(alive) + 1) .. NumPlayers
       /\ \A p \in alive : health[p] > 0
  /\ phase = "MatchOver" => Placed = Players /\ placement[winner] = 1

FightsOf(p) == {h \in DOMAIN fights : h = p \/ (fights[h].away = p /\ ~ fights[h].ghost)}

\* In every round each living player fights exactly one fight of their own, the ghost
\* fought by the odd one out is of another living player, and nobody pays for a fight
\* but those who are in it themselves: not the player the ghost was copied from.
EverybodyFights ==
  phase = "Combat" =>
    /\ \A p \in Players : Cardinality(FightsOf(p)) = IF p \in alive THEN 1 ELSE 0
    /\ \A h \in DOMAIN fights : fights[h].ghost => fights[h].away \in alive \ {h}
    /\ \A h \in DOMAIN fights : \A p \in Losers(h, fights[h]) : h \in FightsOf(p)

\* Every phase of a running match ends, also a gift phase in which nobody chooses.
PhasesEnd ==
  \A ph \in {"MotherNature", "Planning", "Combat", "Resolution"} : phase = ph ~> phase # ph

\* The course of the match is the one MatchCycle promises.
Cycle == INSTANCE MatchCycle
FollowsCycle == Cycle!Spec
=============================================================================
