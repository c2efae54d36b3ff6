# Verification of the Woven2Fate match server

TLA+ models of the C++ server under `src/server` (engine in `src/server/src`, network side in
`src/server/net/src`), the TLC instances that check them, and theorems about them proved with TLAPS.
Paths below are relative to `src/server`.

The server runs auto-battler matches: up to eight players draw champions from one shared pool, place and
merge them, and fight in rounds; a hub logs players in, finds them opponents and runs one room per match.
The engine is deterministic and single threaded, and so is the network side: one event loop calls handlers
(`OnConnect`, `OnMessage`, `OnDisconnect`, `Tick`). What is hard is therefore not threads but long sequences of
legal calls by many players, calls that arrive between two phases, and state that refers to other state by id.

## 1. Inventory

| component | state | operations | talks to |
|---|---|---|---|
| Unit roster (`UnitRoster`) | units on cells, star levels, capacity, items | Add with merges, Move and swap, Remove, AddPlaced (plants), items, Restore | owned by PlayerState |
| Champion pool (`SharedChampionPool`) | copies left per champion | DrawFromTier, DrawableInTier, Return, Take, RestoreRemaining | shops, gifts, drops, sales, eliminations |
| Shop (`ShopManager`) | the slots | Refresh, Consume, OfferSpecial, ReturnShopToPool | pool, PlayerState |
| Player (`PlayerState`, `PlayerManager`) | gold, XP and level, health, streak, bag, roster, shop, traits | buy, sell, reroll, lock, XP, move, items, Eliminate | MatchManager calls it |
| Match (`MatchManager`, `Config`) | phase, round, ticks, gifts, outcomes, placements | Tick, AdvancePhase, every player call | everything in the engine; listeners |
| Mother Nature (`MotherNature`) | offers per player | GenerateGifts, PickGift, FinishGiftPhase | pool, roster, bag |
| Trait triggers (`MatchTraits`, `Trait`) | star dust, modules, unlocks, plants, pending choices | AfterRosterChange, GrantTraitRewards, choices | roster, shop, bag |
| Items (`Item`) | items of the bag and on units | equip, combine, unequip, consume | roster, merges |
| PvE (`Pve`) | – (tables) | drops | pool, bag, gold |
| Snapshot (`Snapshot`, `ResumeFile`) | the bytes of a match | Snapshot, Restore | whole engine, GameServer |
| Combat (`CombatSimulator`, `Combat`, `Hex`, `Ability`) | one fight | Simulate | MatchManager at the start of Combat |
| Bots (`AIBotController`) | rng, last round acted | Act | MatchManager's public calls |
| Room (`GameServer`) | seats, tokens, connections, match, outbox | connections, commands, Tick, Resume | hub or transport above, match below |
| Hub (`QueueServer`) | clients, ready checks, rooms, parties, password wait list, chat | the handlers, Matchmake | rooms, accounts, transport |
| Accounts (`Accounts`, `Progression`) | accounts, friends, sessions, matches, file | register, login, friends, record, Save | hub |
| Transport (`TcpServer`, `WebSocket`, `Encoding`) | sockets, buffers, close states | accept, read, write, timers, Reap | calls the handlers |
| Messages (`Protocol`, `Messages`) | – | parse, format | room, hub |
| Data loading, bot names, tools, clients | – | read once, or drive the rest | – |

What makes them correct, component by component:

* roster: nothing stays unplaced, no triple unmerged, capacity respected, a purchase worth exactly one copy;
* pool: copies are conserved over every call by everybody, gated champions stay hidden;
* match: what is locked during a fight stays as it was, eliminated players hold nothing, offers are settled once;
* hub: checks, rooms, parties and clients agree whatever disconnects, first come first served, everybody is served;
* accounts, snapshot: what is written can be read back, at any crash point;
* transport: the handler hears OnConnect, each message once and in order, one OnDisconnect, and no message of a
  connection that has been closed; what is closed goes;
* items, choices: conservation through merges and settling, every pending choice resolved once.

`PROJECT.json` lists under `hazards` what is hard to test, with its line and the properties that would catch it.

## 2. What is modelled

```
one player                      the match                        the fight            the server
Roster                          Match ── MCMatch                 Hexes                QueueServer ── MCQueueServer
 ├ UnitRoster                    └ Snapshot ── MCMatch            └ FightUnits        Room ── MCRoom
 │  └ ItemRoster ── MCItemRoster                                     └ FightEffects   Accounts ── MCAccounts
 ├ Bots ── MCBots               MatchCycle (abstract)                   └ Fight       HandlerLife (abstract)
 └ Match                         ├ Match                                   └ MCFight   └ Transport ── MCTransport
                                 └ MatchRounds ── MCMatchRounds
                                TraitChoices ── MCTraitChoices
```

Proofs: `RosterProofs`, `HoldingsProofs` (of `UnitRoster`, `ItemRoster`, `Accounts` and `Bots`), `MatchProofs` (of `Match` and `Snapshot`), `MatchRoundsProofs`,
`TraitChoicesProofs`, `RoomProofs`, `QueueProofs`, `TransportProofs`.

### Roster and UnitRoster (`src/UnitRoster.cpp`)

`Roster` is a module of operators without state: a roster is a function from the places (bench slots, board hexes
and the place "in hand" of a unit that is not placed yet) to a champion and a star level; unit ids are replaced
by places. `Add` is `UnitRoster::Add` whole: place, then merge until no triple is left, so the
transient unit of a full roster must disappear in the same call. The survivor is chosen by `MergeRank`, board first.
`Moved`, `Removed`, `CanAdd`, `CanMove`, `BenchOnlyPurchaseFits` follow the functions of those names.
`UnitRoster` is the state machine: the calls `PlayerState` makes, in any order.

### ItemRoster (`src/UnitRoster.cpp`, `PlayerState.cpp`, `Item.cpp`)

`UnitRoster` with what its units carry and the bag of its owner. Every action on units conjoins the action of `UnitRoster` and
says what it does to the items: `Acquire` repeats `MergeItems` once per merge of the cascade, so that items that overflow in the first
merge and those that combine in the second are told apart. `Fits` and `PlaceItem` are
`UnitRoster::PlaceItem`: a component combines with the first one that has a recipe with it, before a free slot is looked for.
`given` counts the base components handed out, and is the other side of the balance in `ItemsConserved`. A consumable (the remover) is
no component. Items may be put on a fielded unit during a fight, as in the code. Elimination is in `Match`.

### Match and Snapshot (`src/MatchManager.cpp`, `ShopManager`, `SharedChampionPool`, `PlayerState`, `MatchTraits`, `Snapshot.cpp`)

Who holds which copy. One action is one public call (`TryBuyShopUnit`, `TrySellUnit`, `TryMoveUnit`, `TryRerollShop`,
`TrySetShopLock`, `TryBuyXp`, `TryPickGift`) or one phase change (`Start`, `EndMotherNature`, `StartCombat`, `EndCombat`,
`EndRound`, `EndMatch`), with all that the code does in it: `EndCombat` pays drops and trait rewards and then
eliminates; `EnterPlanning` refreshes the shops and then runs every roster's triggers (plants, unlocks, the Queen).
Randomness (draws, gifts, drops, outcomes of fights) is a choice over what the code can roll: a draw takes any
drawable champion of a tier that the level can roll, or of the nearest tier when that is empty.

Abstracted: gold, XP points, health and streaks (a call that cannot be afforded changes nothing; XP shows as a level that
may rise; a fight as the players it kills); one opening unit and at most one champion drop per player and round;
items. `MaxRound` bounds the rounds.

`Snapshot` is not a machine: it says of any state of `Match` what `MatchManager::Snapshot` lists (`TheSnapshot`, a record with the
units as a set and the options without gaps), what every check of `Restore` asks (`Accepted`) and which match `Restore` builds (`Rebuilt`). The checks at the end of `Restore`, the
integrity of the pool, the layouts and the state hash, are evaluated in the rebuilt match, an instance of `Match` over the record. Bytes, the
checksum, the hashes of the data files, ticks, gold, XP, health, matchups, outcomes and logs are left out.

### TraitChoices (`src/MatchTraits.cpp`)

What the traits put before one player: Hexagon offers modules, one tier at a time, as the board passes its breakpoints; Najmi banks
star dust after fights and offers a cash-out at every hundred. Both share the one pending choice: a module pushes a cash-out aside, and
`ResolveTraitChoice` must bring it back. A call that changes the board (`ChangeBoard`, emblems, gifts) ends in `AfterRosterChange`,
`StartCombat` settles what is open, and settling may open the next tier. Units are the set of different champions owned, as a second copy counts for no
trait. An emblem equipped in Combat counts for that fight's rewards: the code reads the board when the fight is paid.
`TraitSectionAccepted` is what `Restore` asks of this part of a snapshot.

### MatchRounds and MatchCycle (`src/MatchManager.cpp`, `Config`, health of `PlayerState`)

The other half of `MatchManager`: its clock, who fights whom, what a defeat costs, who falls in which place. `Tick` counts
and, when `PhaseIsOver`, takes the step of `AdvancePhase`; `StartCombat` is `BuildMatchups` (any shuffle, so any pairing and
any ghost) with any result the simulator can report; `EndCombat` is `ApplyCombatOutcomes`, health first, then everybody
who is at zero, most overkill first. A gift is any of the amounts it may heal; other gifts change nothing here.
Rounds repeat in kind, so a round number past `LastRound` is folded back by `RoundCycle` rounds (an assumption of the module
says that nothing depends on the difference); matches are thus not cut off. `TickBound` is longer than any phase.

`MatchCycle` is what both promise of the course of a match, in phases and living players alone. That `Match` and
`MatchRounds` implement the same abstract machine is what ties the two halves: each leaves open what the other
decides (`Match` who dies, `MatchRounds` what is bought).

### Hexes, FightUnits, FightEffects, Fight (`src/CombatSimulator.cpp`, `Hex.cpp`, `Ability.h`, `Combat.h`)

One fight of two boards, tick by tick. `Hexes` is the field: distances, rings, the shortest routes around what is blocked, of which any may be
returned. `FightUnits` is the state of `class Fight` as a record, and the helpers that change one unit (statuses, hit points, shields,
mana, targets, places). `FightEffects` is the third part of a tick: casts and their repetitions, hooks with their rounds, hits, burns, displacement, teleports, summons and
clones. `Fight` is `Run`: `Start` (pilots, items, synergies, mutations, the Invention, passives, auras, in the code's order) and then
`BeginTick` (overtime, expiries, auras), the turn of one living unit after the other (`Act`: it sits, engages, follows its route, searches one or waits), and
`Resolve` (what was declared lands together, burns, hooks, mana, then deaths until nothing falls any more, and the test for the end).

* The data are records of a kind: what a champion, an item or a trait does is a sequence of effects `[do, to, ...]`, as in the data files.
  The instance chooses thirteen kinds so that every effect, target, trigger and status that is modelled happens.
* `shown` plays the event stream back as a viewer would (places, hit points, deaths): the events the code emits change it, and nothing else does.
  Left out is one that tells viewers nothing about the field: the blink of an ally's strike (subtype 2 of Teleport, `src/CombatSimulator.cpp:1351`), who stays on its own hex.
* Left out: the random generator (crits, RandomEnemy), armor, magic resist and percent modifiers of stats, ability power and the window
  counters of formulas, cone, row and highest-damage selectors, filters by trait or champion, star levels, mana in thousandths, takedowns, auras and passives of items, two
  of the teleports, and the pairing of `Simulate`. Damage is what is left after what is left out.

### Bots (`src/AIBotController.cpp`)

A bot's turn in one round: `LevelUp`, then purchases, sales that make room, rerolls, and the board it fields. The
code runs it in one call; here every turn of its loops is a step (`doing`), so that termination and what a loop leaves behind can be
said. Gifts and cash-outs are answered when they are seen. Ties by unit id (age) are broken in every order of `Ages`, an order being a different
number for every cell. Plants are never in a shop or among gifts, and only champions outside the pool take two slots (`BotAssumption`, `champions.json`). Left out: items
(equipping, and what they add to a unit's power), what a roster change triggers in the match, a pool that runs dry.

### Room (`net/src/GameServer.cpp`, `--autosave`/`--resume` of the server)

Seats, tokens, connections and what each player has been sent, in front of a match that is reduced to its phases and two small numbers per
seat: what its owner is told (`own`) and what everybody is told (`board`). `shown` is what the connection on a seat has received last; the
deltas (`lastPrivate`, `lastPublic`) are the code's. `Tick` is the engine's tick, the bots, and what goes out; a tick in which
nothing was reported sends nothing. `saved` is the restart point, taken when planning begins; `Crash` loses the rest, `Resume` is `DoResume`. The token bucket is `Violation`, which
may happen at any message.

### QueueServer (`net/src/QueueServer.cpp`, seats of `net/src/GameServer.cpp`)

The hub's four maps `clients_`, `proposals_`, `rooms_`, `parties_`. A handler is a composition of operators on a record
of the four, one operator per function of the code (`StopSearch`, `FailProposals`, `Progress`, `Propose`,
`Matchmake`, `LeaveParty`, `Tidy`, …), because the functions call one another and `Matchmake` ends most handlers.
`Next` has one action per handler call: `OnConnect` with and without a token, the commands of `OnMessage`,
`OnDisconnect`, a closing by the server (`Violate`: too many violations in the hub or a room), `Tick`.

* Ids that count up are the lowest free ones. There are twice as many as can be in use, so that an id freed in
  a step is not taken again in that step.
* Time is open. A tick finds any subset of the matches over, of the checks late and of the invites
  lapsed. `waited` says of a waiter that `fillMs` have passed; it becomes true at some moment, for earlier waiters first.
* Places in the queue (`order`) are bounded by `MaxOrder`. `LastOrder` restarts from the highest place that is still in use.
* A seat is named after the connection it was first given to, which stands for its token. A room keeps its seats when
  players leave; a newer connection with the token takes the seat and has the older one closed.
* `Login` stands for register, login and resume_session and also fires for a connection that is closing, because a
  login over the password budget is carried out by a later tick. The order of that wait list is left out.
* Left out: chat, profiles, friend requests (`Friends` is constant here, they are in `Accounts`), records and progression, the mode a party
  shows, the rate limit (`Violate` may happen at any time).

### Accounts (`net/src/Accounts.cpp`, `Progression.cpp`, `AccountCommand` and `Record` of `QueueServer.cpp`)

The store of accounts in memory (`store`) and on disk (`file`, `tmp`). A command changes the memory and saves; a save is `WriteTmp`, which may fail at once or on
the way, and `Rename`. The end of a match is a list of accounts, `todo`, each with the change it is at, and each change is saved before the next is made: coins
and XP, missions of the day and the week, what the finished missions earn (`due`), the record in the history. `Crash` may come between any two steps, `Restart` reads the file and saves it. Sessions,
friend requests in both directions with their limits, the shop of cosmetics, levels and the ranked points are modelled; password hashes, names, profile icons, the ladder and
the parsing of the file are not; which missions a day draws is a constant.

### Transport and HandlerLife (`net/src/TcpServer.cpp`, `Feed` of `net/src/WebSocket.cpp`)

`HandlerLife` is the promise to whoever implements `IServerHandler`, in calls per connection; `Transport` is the event loop
that keeps it. A pass of `RunOnce` is `BeginPass` (the first `FlushWrites`, `poll`, `AcceptPending`), `ReadFrom` for one piece of
input of one readable connection after the other, and `EndPass` (`FlushWrites`, `Timers` with its own `FlushWrites`, `Reap`). Between two passes come
the ticks of `RunServerLoop` (`Tick`) and at last `Shutdown`.

* Peers are an environment: they connect, send, end or vanish whenever they like, and how much of what waits for them can be written is
  open in every flush. So is what the handler does: in every call and tick it may `Send` to and `Close` any set of connections.
* Data are counted in frames; `half` says that the first one waiting is partly written. What a peer sends is one of the
  cases the code tells apart: a request, a whole message, the first or the last piece of one, a ping, something that completes nothing or is a pong, something refused or a
  close frame, the end. Middle pieces add nothing to a first one. One frame per piece of input: frames read together are
  dispatched one by one, with the test of line 288 before each.
* `age` is the time since what the timer of the state looks at; passes take no time or one unit. `MaxOutbound` counts frames. Like
  the code, the model tests it in `Send` only: pings, pongs and the answer to the handshake join the queue untested.
* A peer is one connection: `ConnectionId`s are never used twice.

## 3. Runs

| run | instance | states | shows |
|---|---|---|---|
| `match` | 2 players, 3 rounds (the first PvE with a closed shop, the second with an open one, gifts in the third), 1 shop slot, 1 bench slot, 2 hexes, 3 copies of the footman, a gated hero, Queen, herald and plant, 2 levels | 97 000 | copies conserved, layouts, board locked in fights, at most one Queen a player, a gated champion only where it is unlocked, the eliminated hold nothing, every state with no board past its capacity can be restored from its snapshot |
| `overflow_refused` (violation) | the same | – | `EverySnapshotRestores` fails: see section 7 |
| `items` | 2 bench slots, 2 hexes, an ordinary champion and a plant, up to 3 components | 135 000 | no item lost or doubled; a purchase is worth one copy through every cascade; merges keep a champion fielded |
| `trait_choices` | 4 champions, 3 module tiers with four modules, cash-outs every 2 star dust up to 14 | 55 000 | every tier answered once, the bank is on offer, a fight starts with every module it is owed |
| `restore_refused` (violation) | the same | – | `SnapshotsAreAccepted` fails: see section 7 |
| `match_rounds` | 3 players with 3 health, PvE and gift rounds for ever | 17 000 | standings, pairings and ghosts, every phase ends, the course is that of `MatchCycle` |
| `fight` | 3 by 4 hexes, thirteen kinds: all duels at four distances, and fights of two against two; 10 ticks, overtime from 6 | 57 000 | grid and counts, pilots, the event stream, channels, equals fall together |
| `bots` | 1 bench slot, 2 hexes, shop of 2, a cheap and a dear champion and the Queen, 2 stages, up to 4 gold | 233 000 | a bot sells for a purchase only; every turn ends with the board arranged |
| `room` | 2 people and a bot, 3 connections, 2 rounds, 3 tokens, 1 crash | 387 000 | connections and seats, what players see, the restart point, bots play every round |
| `hub_queue` | 3 connections, 3 accounts (two are friends), 2 seats, 1 match | 180 000 | ready checks, parties, accounts, order of service, places kept; every search ends |
| `accounts` | 3 accounts of which 1 plays, 2 matches, 2 days with a change of week between, 1 failed write, crashes at any time | 1 340 000 | the file is the store, coins add up, the history is backed |
| `transport` | 2 peers that send 3 pieces and 1, a queue of one frame, timeouts of 0 and 1 units | 245 000 | the handler's view is `HandlerLife`; the close frame is last; what closes or falls silent goes |

Why the bounds suffice.

* Three copies make a merge and nine a cascade: four cells, and the unit in hand, are enough for a cascade to three stars
  through a purchase on a full roster, which is the delicate case. Three components make one item and leave one that overflows.
* Two players are enough for everything that goes through the pool, since all others look the same to it; the
  three rounds are long enough for an elimination and for a snapshot of what is left after it, and for a locked shop to be kept into a second
  planning phase, with the Queen in it. One shop slot makes the pool run dry and the fallback to another tier happen; with a gated hero in
  the other tier it is met with nothing but gated champions left. Queen and herald come at level two, and the shop is locked there only
  (`OneLeads`): at most one of the two players gets there, and the other one competes for the pool at level one.
* Three players with three health each are the smallest match with a ghost, with several deaths in one round at different
  and at equal overkill, with everybody dying at once, and with a last pair.
* In `trait_choices` the third module tier is reached only with the emblem, the second has a single module, and fourteen star dust are seven tiers where six exist.
* The fights last ten ticks of which four are overtime; every effect, trigger and status of the modules fires, the limit is reached and both
  sides win, also by units left, by hit points left and by the coin.
* Three connections are an account that moves between two of them while a third waits; two seats with one
  match put the limit, the passed-over waiter and the failed check in reach; two friends make parties.
* In the room a seat is taken over while another connection waits; the second round has the gifts. Connections are interchangeable (symmetry).
* In `accounts` only one account plays, because accounts meet only through friendships, and friendships and matches touch no common state; matches
  are explored while there are no friends. Two matches with one kept make a record drop out while a history still names it.
* In the transport three pieces are a request and a message in two parts, or two more pieces that are read in one pass
  while the handler closes; the other peer is closed, written to or timed out meanwhile. A queue of one frame
  overflows at the second, whole or half written; timeouts of 0 fire at the first pass that takes time, and a grace of 1
  lets a closing connection outlive its pass.

`CHECK_DEADLOCK FALSE` stands where the system or its exploration stops: after `MatchOver` or at `MaxRound` (`Match`, `MatchRounds`), after
`Shutdown` (`Transport`), when the fight is decided (`Fight`), and when the bounds on days and matches (`Accounts`) or
tokens, rounds and crashes (`Room`) are used up.

Every property of these runs has a mutant of the code: a plausible bug, such as a forgotten cascade, an overflow that is dropped, a seat that
keeps two connections or a failed write that goes unnoticed, with which TLC reports a violation.

### Properties worth a comment

* `PoolIntegrity`: pool + shops + offers + 3^(star-1) per unit is constant for every pooled champion. This is
  `MatchManager::VerifyPoolIntegrity`, which the code evaluates in its tests and after a restore only.
* `BoardLockedInFight`: from the start of Combat to the end of Resolution a purchase may not touch the board, although
  buying is allowed; the fight that is shown was computed from that board.
* `SnapshotsRestore`: `Accepted(TheSnapshot)` in every state in which no board is past its capacity, the condition under which it is true: `EverySnapshotRestores`
  is the same without it and fails, with the Queen (section 7). It can fail through a bug in the match just as through a check of
  `Restore` that is too strict or a rebuilt state that differs.
* `StandingsAgree`: the places given are exactly the last ones, once each, though several players fall together; the winner
  of a match in which the last ones fall together is whoever had the least overkill, the lower seat on a tie.
* `EverybodyFights`: everybody alive fights once as themselves, the odd one out against the ghost of another living player, and whoever pays
  for a fight is in it in person: the player who was copied does not pay for the ghost's defeat.
* `AddIsWorthOneCopy`, `MergeKeepsFielded`: whatever merges a purchase sets off, the roster is worth one copy more, and no
  champion leaves the board by them.
* `ItemsConserved`: what was handed out, counted in base components, is in the bag or on a unit that may carry it.
* `EveryTierAnsweredOnce`, `FightsWithAllModules`, `BankIsOnOffer`: the tiers answered and waiting are the tiers offered, in order; a fight
  starts only when nothing is owed; a bank that is good for a cash-out has it on offer, behind a module, or declined.
* `FieldAgrees`: the grid and the counts that end the fight are those of the units standing, and when a tick has resolved
  nobody stands without hit points, whatever deaths caused what other deaths.
* `StreamShowsTheFight`: places, hit points and deaths as a viewer of the events has them are those of the
  fight when a tick has ended; no bar changes and no unit moves without an event that says so.
* `TwinsFallTogether`: two equal units that stand beside each other at the start fall in the same tick: what is declared in
  a tick lands together. It is stated for kinds without the order dependent effects listed in section 7.
* `ChannelUnbroken`, `PilotsAgree`: a unit that channels is alive, neither stunned nor in the air, and locked in its cast; pilot and mech
  know each other for as long as the mech lives.
* `SellsOnlyToBuy`: a bot's visit to the shop never leaves its roster worth less. Stated for bots without the Queen, see section 7.
* `RestartPointIsOfThisMatch`, `BotsPlayEveryRound`: which round and whose tokens the file has; a resumed bot neither plays
  a round twice nor misses one.
* `FileIsTheStore`: what the file says changes only to what the store in memory is at that moment. `HistoryIsBacked` and
  `CoinsAddUp` say it of what is read back: coins come from matches, missions and levels, each paid once, at any crash point.
* `ReadyChecksAgree`, `PartiesAgree`, `OneConnectionPerAccount`: the cross references of the hub's maps in both directions.
* `FirstComeFirstServed`: the greedy fill passes a group over only when it did not fit beside the others of the new ready check who
  are not later. It is stated for everybody who searches after the step, those included who queued in it or whose check failed in it.
* `PlaceKept`: a failed check costs the place of those who declined or were late, and of their party mates, only. Where the step is one by which a
  player of the check gives it up (`Declines`), it is that player's mates alone who may pay, whatever the others have answered. Parties change during a
  check: if the decliner has joined another one by then, the mates who stop may be those of either (`MatesOf`).
* `EverySearchEnds`: a liveness property, see below. It is checked for one mode: with several modes and the limit reached,
  `Matchmake` serves bots before normal before ranked in every call, so a stream of bots matches can keep the
  others waiting. And it is checked where no party can outgrow a match (three connections, two seats), which section 7 shows it may.
* `KeepsPromises`: `Transport` implements `HandlerLife`, under a refinement that counts a connection as `shut` from the
  moment it is closing, broken or gone.
* `CloseIsLast`: one close frame (or HTTP error), behind everything else; FIN follows when it is written, never before.

### Fairness

The event loop calls `Tick` for ever (`RunServerLoop`) and every room ticks its match.

* `LiveSpec` of `Transport`: the loop comes round again and again and time passes, `[]<>(step = "Idle")` and `[]<>(elapsed > 0)`;
  nothing is assumed of peers, writes or the handler.
* `LiveSpec` of `MatchRounds` is `WF_vars(Tick)` and nothing else: players need not choose a gift. It shows that phases end
  (`PhasesEnd`). That a match ends cannot be shown from it: fights may be drawn for ever in the model.
* `Spec` of `Bots`: `<>[](doing # "Waiting") => []<><<TRUE>>_vars`, a turn that has begun goes on, because it is one call of the code.
* `Spec` of `Fight` has `WF_vars(Next)`: `Run` is one loop. No liveness property is checked of it, its length is bounded by `MaxTicks`.
* `OwnSpec` of `QueueServer` goes further: a ready check reaches its deadline, a waiter its `fillMs`, a match its last round, and
  `Matchmake` makes every match it can. These are `[]<>` of the condition such a tick brings about, e.g. `[]<>(k \notin DOMAIN checks)`,
  which is what weak fairness of that tick gives: as long as the check lasts the tick that ends it stays
  enabled. (TLC evaluates these much faster than ENABLED of the composed handlers.) Nothing is assumed of the players: they need not
  answer, leave or come back. One of these conditions is an assumption about the game and not about scheduling: that every
  match ends, `[]<>(r \notin DOMAIN rooms)`. The code has no bound on the rounds of a match; it rests on damage that grows by
  stage and on fights that end with a winner unless both sides are wiped out.

## 4. What is proved

For every value of the constants, under the named assumptions of the modules (`RosterAssumption`, `MatchAssumption`, ...):

| theorem | states |
|---|---|
| `HoldingsProofs!TypeCorrect`, `LayoutKept`, `BenchOnlyKept` | types and layout of the roster machine; bench-only purchases leave the board alone (stated of `UnitRoster`, in no run) |
| `HoldingsProofs!ItemsFollowRoster` | `ItemRoster` implements `UnitRoster`: whatever is done with items, the units are those of the roster machine |
| `HoldingsProofs!AddWorthKept`, `FieldedKept` | the action properties of the run `items` |
| `HoldingsProofs!ItemsConservedKept` | `ItemRoster`: the invariant of the run `items` |
| `HoldingsProofs!AccountsKept` | `Accounts`: its inductive invariant, of the store, the file, the file being written and what is left to do for a match |
| `HoldingsProofs!CoinsAddUpKept`, `HistoryIsBackedKept`, `FileIsTheStoreKept` | `Accounts`: the two invariants and the action property of its run |
| `HoldingsProofs!FileIsWhole` | `Accounts`: what a restart reads is nothing or a store in which coins add up and the history is backed (in no run) |
| `HoldingsProofs!BotKept` | `Bots`: its inductive invariant: the layout, no more units on the board than the level allows, no debts |
| `HoldingsProofs!SellsOnlyToBuyKept` | `Bots`: the action property of its run |
| `RosterProofs!AddLayout`, `MovedLayout`, `ReplacedLayout`, `AddWorth`, `AddKeepsOnBoard` | the operators: what they preserve |
| `MatchProofs!RosterLayoutsKept` | `Spec => []RosterLayouts` |
| `MatchProofs!PoolIntegrityKept` | `Spec => []PoolIntegrity` |
| `MatchProofs!TypesKept`, `EliminatedHoldNothingKept`, `GatedOnlyWhenUnlockedKept`, `OneQueenKept` | `Match`: types and the other invariants of the run `match` |
| `MatchProofs!BoardLockedKept` | `Match`: the action property of the run `match` |
| `MatchProofs!SnapshotsRestoreKept`, `OverflowOfOneKept`, `RestoresUnlessQueenFielded` | `Snapshot`: what `Snapshot` writes `Restore` accepts unless a board is past its capacity (the invariant of the run `match`); by one slot at most, and only with a Queen on it (section 7) |
| `MatchProofs!MatchFollowsCycle` | `Match` implements `MatchCycle` |
| `MatchRoundsProofs!RoundsFollowCycle` | `MatchRounds` implements `MatchCycle` (`FollowsCycle`) |
| `MatchRoundsProofs!CourseTypes`, `StandingsAgreeKept`, `EverybodyFightsKept` | `MatchRounds`: types and the invariants of its run |
| `TraitChoicesProofs!ChoicesKept`, `EveryTierAnsweredOnceKept`, `BankIsOnOfferKept` | `TraitChoices`: its inductive invariant, and the two invariants of its runs |
| `TraitChoicesProofs!FightsWithAllModulesKept` | `TraitChoices`: the action property, if every tier has a module |
| `RoomProofs!RoomKept`, `RoomTypes` | `Room`: its inductive invariant, and the types |
| `RoomProofs!ConnectionsAgreeKept`, `RestartPointKept`, `BotsPlayEveryRoundKept`, `OwnersAreUpToDateKept` | `Room`: the invariants of its run |
| `QueueProofs!QueueKept`, `QueueTypes` | `QueueServer`: its inductive invariant, and the types |
| `QueueProofs!ReadyChecksAgreeKept`, `OneConnectionKept`, `PartiesAgreeKept` | `QueueServer`: the invariants of its runs |
| `QueueProofs!FirstComeFirstServedKept`, `PlaceKeptAlways` | `QueueServer`: the action properties of the runs |
| `QueueProofs!RoomsAgreeKept` | `QueueServer`: matches and ready checks together stay within `MaxMatches`, and whoever sits in a room is connected and knows it (in no run) |
| `TransportProofs!TransportKept`, `TransportTypes` | `Transport`: its inductive invariant, and the types with the bounds on a connection's age |
| `TransportProofs!CloseIsLastKept` | `Transport`: the invariant of its run |
| `TransportProofs!PromisesKept` | `Transport` implements `HandlerLife` (`KeepsPromises`) |

**Rosters.** A roster has at most two units of a champion and star below the maximum before an `Add`; one more unit makes
at most one triple; merging it empties two places and adds one unit one star up, so at most one triple exists again, one
star higher: the recursion ends at `MaxStar`, and as the unit in hand ranks last among the survivors it is consumed
by the first merge (`AddLayout`). Three units of a star are worth one of the next (`AddWorth`).

**Sums.** Items, coins and the cost of a roster are sums over functions (`SumFunction`, a fold over a finite set). That such a fold is
defined is shown by a minimal counterexample among the sizes (`FoldExists`, `SumIs`); from it follow that a sum of numbers is one
and that changing one summand by `v` changes the sum by `v` (`PointChange`). Everything else is made of such changes.

**Items.** `ItemInv` is types, layout, `Carrying` (only units that stand on a cell and are no plants carry items) and, for every base component, that what was
handed out is the `Stock`: what is on units and in the bag, counted through recipes. Taking everything off a unit is shown slot by slot
(`Mixed`, `RowChange`, `ReturnedParts`). Of the three copies of a merge the survivor takes over what the others carry, item after item
(`HandOnIs`, `AllHandedOn`): each is placed, combines with a component or goes to the bag, and the stock stays what it was (`MergeItemsIs`), for
each merge of a cascade.

**Accounts.** `AccountsInv`: `StoresOK`, the store in memory is good and the file is nothing or a good store; `SavingOK`, before a `Rename`
the file being written is the store; `TodoOK`, what is left to do for a match is one job per account, only the first of them begun, and its match is recorded,
the newest, paid for from the second step on and not yet in the history (`JobOK`). A store is good (`StoreOK`) when each account has the coins that add up
and its history is of matches paid for, newest first, each recorded or older than all that are kept; `KeptIs` says that dropping old records leaves
it so. As the file is always nothing or some good store, whichever step a crash hits, `Restart` finds one (`FileIsWhole`). The level for an amount of XP is a recursive function; that it exists
and never falls when XP grow is shown by minimal counterexample (`LevelFacts`), and with it that `Granted` pays for each level passed, once (`GrantedOK`).

**Bots.** `BotInv` has the layout and that no more units stand on the board than the level allows (`Fighters`, shared with the match). Without the Queen
every unit on the board takes one slot, so selling one leaves room for any other (`SaleMakesRoom`), the gold suffices since a price is a
cost, the unit sold is a single copy of one star that costs no more than the one bought, and `AddWorth` does the rest. That there is one unit
to sell at most needs that ages are different. Arranging the board is a loop over the team chosen, itself the result of a loop; `LoopExists` and
`LoopKeeps` give such sequences and carry along that the units are the same, champion by champion.

**Layouts and pool.** `RosterLayouts` is not inductive by itself: plants grow during `AfterRosterChange` for the levels and rosters reached there, so
`LayoutInv` adds `Shape`, the types of what those steps read (rosters, shops, offers, players).
`PoolIntegrity` is not inductive either: to add up copies one needs types, to know that placing a unit loses nothing one needs
the layouts (a unit left in hand would be a copy nobody sees), and to know that `NoOffers` loses nothing at the end of the
gift phase one needs that offers exist only in that phase, of players who are alive and have not settled. The invariant is
`BalanceInv == LayoutInv /\ Balanced /\ OffersSettled`, and `Balanced` speaks of *tokens*: a set of places (shop slot,
option, the copies inside a unit) each labelled with a champion, so that every transfer is a change of
one label or a disjoint union of sets and cardinalities do the rest. `Return`'s refusal of a surplus is shown never to happen.

**Holdings.** `HoldingsInv` adds to `BalanceInv` the types of the rest of the state and what each player holds (`Proper`): nothing once eliminated, gated
champions only if unlocked. `OneQueen` needs that the unit a trait grants is not the Queen (`Queen # Herald`; `grantUnit` of `traits.json`
is 9041, she is 9043): a grant does not ask for `HasQueen`. That no board is past its capacity by more than one slot (`OverflowOfOneKept`) needs
that only she takes two (`champions.json`). `SnapshotsRestore` follows from the invariant check by check of `Restore`; its bounds `GiftOptions <= MaxOffers` and `Gated` within `MaxUnlocked` are the limits of the format against the
tuning of the game, which the code leaves unrelated.

**Rounds.** `CourseInv`: types, the standings while the match runs (`Standings`) and at its end (`Final`), the pairings (`EverybodyFights`). The
sums of damage and the largest health left are recursive functions; that a sum is a natural number and that a largest element exists is
shown from a minimal counterexample (`WFMin` with `NatLessThanWellFounded`), which needs no induction theorem with an operator for a parameter.

**Trait choices.** `ChoicesInv` says of a seat which tiers were asked, which are answered and which waits (`AskedInv`), that a cash-out on offer is
the one the star dust is good for and that none is missing unless it was declined (`BankInv`, from the monotony of the quotient by the price),
and that in planning nobody alive has an unasked tier (`AskedInPlanning`). There are at most three tiers, so the four rounds of answers before a fight
settle everything, if every tier has a module (`EveryTierHasModules`; `traits.json` has 7, 5 and 5). `TraitAssumption` takes from `Trait.cpp:44` that
ids of modules are unique, over tiers too, and from `Trait.cpp:74` that breakpoints need at least one unit.

**Room.** `RoomInv == TypeOK /\ TablesInv /\ FileInv /\ BotsInv /\ ShownInv`. `TablesInv` adds to `ConnectionsAgree` what a connection that
is not closing may have done. `FileInv` says which state a restart point is of: the beginning of a planning phase, of the round before while gifts are chosen. `BotsInv` follows who has played the
round, in memory and in the file, so that a resumed match takes up neither more nor less. For `OwnersAreUpToDate` it is not enough that the
player sees the newest state: what the room recorded as sent must be what was shown (`ShownInv`), because `Push` compares with the record.

**Hub.** A handler of the hub is a composition of operators on its whole state (`Logout` leaves the party, which stops the searches and may
break up the party, and so on), so the invariant is one of values `h`, `HubInv(h)`, and every operator is shown to keep its parts, whichever handler uses it:
`PlayInv` (types, ready checks and their players, one activity at a time, seats, the limit of matches), `AccountInv` (one connection for an account) and
`PartyInv` (members logged in and in one party, none of them invited to it too, no party lingers). Between two operators of a handler they do not hold as they
stand: a connection about to be dropped may still have its search, an account that has just gone off is still in its
party, a party may have one member for a moment. `PlayInv(h, off)` and `PartyInv(h, off, lone)` name those exceptions, and each handler ends with none.
`Matchmake` starts checks and rooms one after the other, in a recursive function over the number made: that each of them keeps the
invariant is shown from a minimal counterexample. `Login` logs the account's older connections out by a fold over their set; the
invariant says there is at most one. `FreshCheck`, `FreshRoom` and `FreshParty` find a free id because checks and rooms together stay within `MaxMatches`, and
because no party is without members and no account in two (`FreshPartyIs`).
The two action properties compare the hub before and after a handler, so every operator is also shown to be what may happen in between. For
`FirstComeFirstServed`, `InOrder(h, K)` says that no check but those of `K`, the old ones, passes over anybody who searches. A handler comes to `Matchmake` without new
checks (`Quiet`), so with `InOrder`; each match that `Matchmake` makes, of the `Boarding` groups, keeps it, because whoever is left behind did not fit beside
those who are not later (`PassedOver`), and loses neither checks nor players (`Onward`). For `PlaceKept`, `Forgiving(n, h)` says of every check lost from `h` to `n` that it is
`Fair`: its players keep their place or lose it with their search, and whoever is left with nothing (`Idle`) has not answered.
`Pays(n, h, d)` says instead that the check is d's and whoever is left with nothing is a mate of d (`Mate`). A handler by which d declines
`Pays` for d, every other one is `Forgiving`: before its `Matchmake`, and `Onward` steps keep that.
`QueueServerAssumption` gives the accounts as a finite set, at least two seats and one match.

**Transport.** The state is a row for each peer: its connection, what has arrived, the messages it began and what the handler heard. Everything the loop
or a handler does is a function on one connection, applied to all, so the invariant is one of rows (`RowOK`), and `Later(c, d)` says what such a
function may make of a connection before it is reaped: it stays announced or not, never opens again, keeps its message while it is
open, gets no older. `Sent`, `Closed`, `Flushed`, `Timed`, `Served` and `Reactions` are shown to be `Later`, hence to keep the row.
Reading is not: `Outcome` says what one piece of input makes of a row, and that the call of the handler, if any, is the next one.
For this the invariant numbers the messages (`InOrder`): those that begin in what is unread follow the ones the handler has heard, and the one
being assembled if there is one. `Ends` is `CloseIsLast` for every connection, a broken one excepted. `InTime` bounds the age of a connection by its timeout, plus one pass while
a pass is being read. The refinement follows: each step tells each connection nothing or its next call (`HeardOn`). That there are
finitely many peers is not needed.

The proofs have one lemma per helper and one step per action. What is only model-checked, and why:

* liveness under fairness: `EverySearchEnds`, `PhasesEnd`, `GoneInTime` and `EveryTurnEnds`;
* the fight: `FieldAgrees`, `PilotsAgree`, `StreamShowsTheFight`, `ChannelUnbroken`, `TwinsFallTogether`. Its chains of casts, hooks
  and deaths are RECURSIVE operators (`FightEffects`), which the prover cannot reason about. The other modules use recursive functions and folds. Not all
  of it holds for every value of the constants either: that nobody stands without hit points after a tick (`FieldAgrees`) needs chains of
  deaths no longer than `MaxDeathCastRounds`, which the code leaves to the data.

Every other property of the passing runs is proved.

## 5. What is not modelled, and why

* Parsing and formatting of messages, data loading, bot names, tools and clients: no state, or state
  that is read once.
* Of the fight: the random generator, the arithmetic of resistances and percent modifiers, and the selectors listed in
  section 2. They change how much a hit takes and whom it picks, not the order of things, which the properties are about.
* Of the players: gold, XP, streaks and income (outside `Bots` and `Accounts`), item drops, the gold and items that other traits pay.
* Of the hub: chat, profiles, the order of the password wait list, the token buckets (any message may be one too many).
* Of the accounts: password hashing, names, icons, the ladder, parsing of the file.
* Of the snapshot: the byte format, checksum and data hashes.
* Of the transport: the set-up of the listening socket, the contents of requests and frames (headers, masks, lengths,
  UTF-8), the join code, which are one verdict of accepted or refused; a failing `poll`, after which the pass ends early.

A composition of everything is not checked: `Room` reduces the match and `QueueServer` the room. What links them is `MatchCycle`, which
both halves of the match implement, and `HandlerLife`, the promise of the transport that room and hub rely on.

## 6. Plan

The models are there, and all their safety properties are proved but those of the fight. To prove those, the chains of `FightEffects` would have to become functions over a
bounded depth, with an invariant for every link.

Modelling left, where it adds a hazard: the password wait list (below), the items of bots, `QueueServer`'s connections as an instance of `HandlerLife`.

## 7. Findings

* `restore_refused`: `Restore` refuses a trait choice of a tier above 4 (`src/Snapshot.cpp:519`), but the cash-outs of Najmi go up to 6
  (`kCashOutTiers`, `MatchTraits.cpp:24`; `MatchManager.h:42`) and stay pending over rounds and snapshots until the player answers. From
  500 star dust on no restart point of that match is accepted (`net/src/GameServer.cpp:657`), although `Snapshot.h:9` says that restoring is
  perfect. A player eliminated with such a choice open keeps it for the rest of the match.

* `overflow_refused`: `PlaceInFirstFree` (`src/UnitRoster.cpp:132`) compares the slots in use with the capacity without the size of the unit it places. The
  Queen takes two (`UnitRoster.h:38`); bought with a full bench and one slot left she takes the board past its capacity, and
  `PlayerState::RestoreState` (`PlayerState.cpp:336`) refuses a snapshot taken then: the second way in which restoring is not perfect. She stays until
  her player makes room or rises a level. `SnapshotsRestore` is the same without such states, and holds.

Seen while modelling, without a run of their own:

* Roster. `UnitRoster.h:66` calls swaps always allowed; `Move` refuses some.
* Match. `MatchManager.h:202` says the shop is closed in round 1 and in Mother Nature's rounds; it is closed in the gift phase and in
  the opening rounds of `Config`, of which there are none by default.
  `Config.h:126` says PvE rounds never hurt; later ones do. An emblem equipped in Combat counts for the rewards of that fight
  (`MatchManager.cpp:682` says from the next one on).
* Room. In a planning phase after a resume the bots play in a tick without events, so public_state may be stale until the next change
  (`network-protocol.md:115`); `OwnersAreUpToDate` says so. In a gift phase the restart point is that of the round before (`deploy.md:23`).
* Hub. Accepting an invite stops a search of the party (`HaltPartySearch`, `net/src/QueueServer.cpp:824`), but not a ready check, though the documents call its
  players searching: the match starts without the new member. A member who leaves a party during its ready check keeps the party's group and place and,
  when the check fails, searches with the party again. If the party took somebody else in meanwhile and its leader queues once more
  (`JoinQueue`, `:343`, not fresh: everybody joins the old place), the group has more players than the match has seats. In a bots match
  the ones beyond the last seat are closed (`match_in_progress`, `GameServer.cpp:101`). In the other modes the group fits in no match: first in
  the queue, with `fillMs` over and nobody else who fits, it makes `Matchmake` (`:398`) open rooms without players, up to `maxMatches` in every
  tick, until it stops searching. `QueueServer.h:46` says a match takes up to `match.seats`, `:17` that a party always lands in the same match.
  A login over the password budget waits while resume_session does not, so it may be carried
  out after later commands of its connection (`QueueServer.cpp:528`).
* Transport. When a client's queue overflows, `Send` throws all of it away (`net/src/TcpServer.cpp:191`) although part of its first frame may have been
  written. The close frame lands inside that frame, and the client does not see the code 1008 of `docs/network-protocol.md:182`.
* Fight. Passives that run in mid-fight (of summons, clones, ejected pilots) are stamped with tick 0, so ticks go back in the stream
  (`CombatSimulator.cpp:911`, `:1945`, `:2394`). Of two equal units at an even distance the lower id steps first, so the higher one strikes
  first and wins (`:603`), though `CombatSimulator.h:27` says that no id is at an advantage: `TwinsFallTogether` is stated for neighbours,
  as in `tests/tests.cpp:2032`. It also leaves out kinds that heal, teleport or summon: a unit at no hit points stands until the tick's deaths are
  reaped and may be healed, summons of both sides share one limit, and free hexes are looked for by rows. A pilot inside
  its mech gets auras, though `Ability.h:96` says nothing can affect it.
* Bots. The Queen costs 5 and is sold for 7: `BuyWantedUnits` compares the cost (`AIBotController.cpp:294`), `TryBuy` the price (`ShopManager.cpp:37`). A bot with 5 or 6 gold
  picks her, is refused and ends its visit, having sold a unit for nothing if its roster was full (`:308`, `:341`). This is why `SellsOnlyToBuy` excludes her. Above
  50 gold a bot buys experience down into the savings its header says it keeps.
