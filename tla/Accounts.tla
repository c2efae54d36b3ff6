------------------------------ MODULE Accounts ------------------------------
(***************************************************************************)
(* The account store (server/net/src/Accounts.cpp, Progression.cpp) as the *)
(* hub uses it (QueueServer.cpp, AccountCommand and Record): sessions,     *)
(* friends, coins, levels, missions, match history -- in memory, and in    *)
(* one file that is rewritten after every change through a temporary one.  *)
(*                                                                         *)
(* A command changes the memory and saves.  The end of a match is many     *)
(* changes, each saved before the next is made (todo).  A write may fail,  *)
(* which is ignored, and the process may crash between any two steps.      *)
(***************************************************************************)
EXTENDS Integers, Sequences, FiniteSets, SequencesExt

CONSTANTS
  Names,          \* account keys
  Players,        \* the ones whose matches are explored
  Cosmetics, Price,    \* what can be bought
  Missions, Mission,   \* their definitions: period, kind, mode, count, coins, xp
  Daily, Weekly,       \* the missions drawn for a day, for a week
  CoinsFor, XpFor,     \* what a placement earns in a mode
  LevelBase, LevelStep, LevelMax, LevelUpCoins, StartingCoins,
  MaxSessions, MaxFriends, MatchesKept, HistoryKept,
  Modes, Placements,   \* the results of matches that are explored
  FirstDay, LastDay, MaxMatches, MaxFailures   \* bounds of the exploration

\* Day 0 is a Thursday, and weeks begin on Mondays.
WeekOf(d) == (d + 3) \div 7

ASSUME AccountsAssumption ==
  /\ Players \subseteq Names
  /\ IsFiniteSet(Names) /\ IsFiniteSet(Cosmetics) /\ IsFiniteSet(Missions)
  /\ Price \in [Cosmetics -> Nat]
  /\ \A d \in FirstDay .. LastDay : Daily[d] \cup Weekly[WeekOf(d)] \subseteq Missions
  /\ \A m \in Missions : Mission[m].count \in Nat \ {0} /\ {Mission[m].coins, Mission[m].xp} \subseteq Nat
  /\ CoinsFor \in [Modes -> [Placements -> Nat]] /\ XpFor \in [Modes -> [Placements -> Nat]]
  /\ {LevelBase, MaxSessions, MaxFriends, MatchesKept, HistoryKept} \subseteq Nat \ {0}
  /\ {LevelStep, LevelMax, LevelUpCoins, StartingCoins, FirstDay, LastDay, MaxMatches, MaxFailures} \subseteq Nat
  /\ LevelMax >= LevelBase /\ FirstDay <= LastDay

VARIABLES
  store,    \* what the process holds: accounts_, matches_ (their ids), nextMatchId_
  file,     \* what is at path_: nothing, or a store, or part of one
  tmp,      \* what is at path_ + ".tmp"
  saving,   \* where Save is: "no", "write", "rename"
  todo,     \* what Record still has to do
  up,       \* the process runs
  day,      \* the day of the wall clock
  failures  \* of writes, so far

accountVars == <<store, file, tmp, saving, todo, up, day, failures>>

Nothing == [nothing |-> TRUE]
Part    == [part |-> TRUE]

\* Three fields are not in the code: paid and rewarded are the matches and the
\* missions whose coins were granted, earned is the sum of these coins.
NewAccount(session) ==
  [sessions |-> <<session>>, friends |-> {}, incoming |-> {}, outgoing |-> {},
   coins |-> StartingCoins, xp |-> 0, owned |-> {}, worn |-> "default",
   day |-> -1, week |-> -1, progress |-> [m \in Missions |-> 0], done |-> {},
   games |-> 0, wins |-> 0, points |-> 0, peak |-> 0, history |-> << >>,
   paid |-> {}, rewarded |-> {}, earned |-> 0]

EmptyStore == [accounts |-> << >>, matches |-> {}, next |-> 1]

AccountsInit ==
  /\ store = EmptyStore /\ file = Nothing /\ tmp = Nothing
  /\ saving = "no" /\ todo = << >> /\ up = TRUE /\ day = FirstDay /\ failures = 0

Has(key) == key \in DOMAIN store.accounts
The(key) == store.accounts[key]

-----------------------------------------------------------------------------
(* Save: to the temporary file, which then takes the name of the old one.  *)

\* Every change of the store is followed by a save.
Changed(s) == store' = s /\ saving' = "write"

WithAccount(s, key, a) ==
  [s EXCEPT !.accounts = [k \in DOMAIN @ \cup {key} |-> IF k = key THEN a ELSE @[k]]]

Failure == failures < MaxFailures /\ failures' = failures + 1

WriteTmp_FailureUnnoticed ==
  /\ saving = "write" /\ saving' = "rename"
  /\ \/ Failure /\ tmp' \in {tmp, Part}
     \/ tmp' = store /\ UNCHANGED failures
  /\ UNCHANGED <<store, file, todo, up, day>>

\* The write fails at once, or on the way, or succeeds.
WriteTmp ==
  /\ saving = "write"
  /\ \/ Failure /\ saving' = "no" /\ tmp' \in {tmp, Part}
     \/ saving' = "rename" /\ tmp' = store /\ UNCHANGED failures
  /\ UNCHANGED <<store, file, todo, up, day>>

\* rename() replaces the old file at once, or fails.
Rename ==
  /\ saving = "rename" /\ saving' = "no"
  /\ \/ file' = tmp /\ tmp' = Nothing /\ UNCHANGED failures
     \/ Failure /\ UNCHANGED <<file, tmp>>
  /\ UNCHANGED <<store, todo, up, day>>

Crash ==
  /\ up /\ up' = FALSE
  /\ store' = EmptyStore /\ saving' = "no" /\ todo' = << >>
  /\ UNCHANGED <<file, tmp, day, failures>>

\* Load, where no file is an empty store, and the save that must succeed before the
\* server starts (which writes what was read).
Restart ==
  /\ ~ up /\ file # Part
  /\ up' = TRUE
  /\ store' = IF file = Nothing THEN EmptyStore ELSE file
  /\ file' = store' /\ tmp' = Nothing
  /\ UNCHANGED <<saving, todo, day, failures>>

-----------------------------------------------------------------------------
(* Commands: each is one handler call, carried out when nothing else is.   *)

Idle == up /\ saving = "no" /\ todo = << >>

Command(key, a) == Idle /\ Changed(WithAccount(store, key, a)) /\ UNCHANGED <<file, tmp, todo, up, day, failures>>

\* NewHex(16): a token the account does not have.
Sessions == 1 .. MaxSessions + 1
NewToken(key) ==
  LET used == IF Has(key) THEN Range(The(key).sessions) ELSE {}
  IN CHOOSE t \in Sessions : t \notin used /\ \A u \in Sessions \ used : t <= u

Register(key) == ~ Has(key) /\ Command(key, NewAccount(NewToken(key)))

\* With the right password; the oldest devices are forgotten.
Login(key) ==
  /\ Has(key)
  /\ LET sessions == Append(The(key).sessions, NewToken(key))
         more == Len(sessions) - MaxSessions
     IN Command(key, [The(key) EXCEPT !.sessions = SubSeq(sessions, IF more > 0 THEN more + 1 ELSE 1, Len(sessions))])

Logout(key, session) ==
  Has(key) /\ Command(key, [The(key) EXCEPT !.sessions = SelectSeq(@, LAMBDA s : s # session)])

\* A changed password signs every other device out.
ChangePassword(key, keep) ==
  Has(key) /\ Command(key, [The(key) EXCEPT !.sessions = SelectSeq(@, LAMBDA s : s = keep)])

Buy(key, item) ==
  /\ Has(key) /\ item \notin The(key).owned /\ The(key).coins >= Price[item]
  /\ Command(key, [The(key) EXCEPT !.coins = @ - Price[item], !.owned = @ \cup {item}])

\* Everybody owns the default.
Equip(key, item) ==
  /\ Has(key) /\ item \in The(key).owned \cup {"default"}
  /\ Command(key, [The(key) EXCEPT !.worn = item])

-----------------------------------------------------------------------------
(* Friends.                                                                *)

Full(key) == Cardinality(The(key).friends) >= MaxFriends

\* me and other are no longer asking each other; friends if they have agreed.
Settled(s, me, other, agreed) ==
  LET Free(a, k) == [a EXCEPT !.incoming = @ \ {k}, !.outgoing = @ \ {k},
                              !.friends = IF agreed THEN @ \cup {k} ELSE @]
  IN WithAccount(WithAccount(s, me, Free(s.accounts[me], other)), other, Free(s.accounts[other], me))

Social(me, other, s) ==
  /\ Idle /\ Has(me) /\ Has(other)
  /\ Changed(s) /\ UNCHANGED <<file, tmp, todo, up, day, failures>>

\* If they asked first, that is a yes.
Request(me, other) ==
  /\ Has(me) /\ Has(other) /\ me # other
  /\ other \notin The(me).friends \cup The(me).outgoing
  /\ ~ Full(me) /\ ~ Full(other)
  /\ Social(me, other,
       IF other \in The(me).incoming THEN Settled(store, me, other, TRUE)
       ELSE WithAccount(WithAccount(store, me, [The(me) EXCEPT !.outgoing = @ \cup {other}]),
                        other, [The(other) EXCEPT !.incoming = @ \cup {me}]))

Accept(me, other) ==
  /\ Has(me) /\ Has(other) /\ other \in The(me).incoming
  /\ ~ Full(me) /\ ~ Full(other)
  /\ Social(me, other, Settled(store, me, other, TRUE))

\* Also takes the own request back.
Decline(me, other) ==
  /\ Has(me) /\ Has(other) /\ other \in The(me).incoming \cup The(me).outgoing
  /\ Social(me, other, Settled(store, me, other, FALSE))

Unfriend(me, other) ==
  /\ Has(me) /\ Has(other) /\ other \in The(me).friends
  /\ Social(me, other, WithAccount(WithAccount(store, me, [The(me) EXCEPT !.friends = @ \ {other}]),
                                   other, [The(other) EXCEPT !.friends = @ \ {me}]))

-----------------------------------------------------------------------------
(* Progression.                                                            *)

Least(a, b) == IF a < b THEN a ELSE b

Most(a, b)  == IF a > b THEN a ELSE b

XpToNext(level) == Most(1, Least(LevelMax, LevelBase + LevelStep * (level - 1)))

\* The level a total of XP makes.
LevelOf(xp) ==
  LET from[into \in 0 .. xp] ==
        [l \in Nat \ {0} |-> IF into >= XpToNext(l) THEN from[into - XpToNext(l)][l + 1] ELSE l]
  IN from[xp][1]

Granted_OneLevel(a, coins, xp) ==
  [a EXCEPT !.coins = @ + coins + (IF LevelOf(a.xp + xp) > LevelOf(a.xp) THEN LevelUpCoins ELSE 0),
            !.xp = @ + xp, !.earned = @ + coins]

\* Each level gained pays.
Granted(a, coins, xp) ==
  [a EXCEPT !.coins = @ + coins + LevelUpCoins * (LevelOf(a.xp + xp) - LevelOf(a.xp)),
            !.xp = @ + xp, !.earned = @ + coins]

\* A new day forgets the daily missions' progress, a new week the weekly ones'.
RefreshMissions(a) ==
  LET Keep(m) == IF Mission[m].period = "daily" THEN a.day = day ELSE a.week = WeekOf(day)
  IN [a EXCEPT !.progress = [m \in Missions |-> IF Keep(m) THEN @[m] ELSE 0],
               !.done = {m \in @ : Keep(m)}, !.rewarded = {m \in @ : Keep(m)},
               !.day = day, !.week = WeekOf(day)]

MissionCounts(m, mode, placement) ==
  /\ Mission[m].mode \in {"any", mode}
  /\ Mission[m].kind = "win" => placement = 1
  /\ Mission[m].kind = "top4" => placement <= 4

\* The missions of the day and the week that this match takes a step further,
\* and those it finishes.
Counting(a, mode, placement) ==
  {m \in (Daily[day] \cup Weekly[WeekOf(day)]) \ a.done : MissionCounts(m, mode, placement)}
Finishing(a, mode, placement) ==
  {m \in Counting(a, mode, placement) : a.progress[m] + 1 >= Mission[m].count}

CountMissions(a, mode, placement) ==
  [a EXCEPT !.progress = [m \in Missions |-> IF m \in Counting(a, mode, placement)
                                             THEN Least(Mission[m].count, @[m] + 1) ELSE @[m]],
            !.done = @ \cup Finishing(a, mode, placement)]

LpFor(p) == <<40, 30, 20, 10, -10, -20, -30, -40>>[p]

RecordMatch(a, id, mode, p) ==
  LET points == IF mode # "ranked" THEN a.points
                ELSE Most(0, a.points + LpFor(p))
      history == <<id>> \o a.history
  IN [a EXCEPT !.games = @ + 1, !.wins = @ + IF p = 1 THEN 1 ELSE 0,
               !.points = points, !.peak = Most(points, @),
               !.history = SubSeq(history, 1, Least(Len(history), HistoryKept))]

\* The newest are kept.
Kept(ids) == {id \in ids : Cardinality({i \in ids : i >= id}) <= MatchesKept}

AddMatch(s) == [s EXCEPT !.matches = Kept(@ \cup {s.next}), !.next = @ + 1]

-----------------------------------------------------------------------------
(* The end of a match: QueueServer's Record.                               *)

Steps_HistoryFirst == <<"RecordMatch", "Grant", "Missions", "CountMissions", "Reward">>

\* What is done for each account that played, in this order.
Steps == <<"Grant", "Missions", "CountMissions", "Reward", "RecordMatch">>

\* The record of the whole match comes first.
MatchEnds(mode, result) ==
  /\ Idle /\ store.next <= MaxMatches
  /\ Changed(AddMatch(store))
  /\ LET keys == SetToSeq(DOMAIN result)
     IN todo' = [n \in DOMAIN keys |-> [key |-> keys[n], id |-> store.next, mode |-> mode,
                                        placement |-> result[keys[n]], at |-> 1, due |-> {}]]
  /\ UNCHANGED <<file, tmp, up, day, failures>>

\* What step of job j makes of the account.
Done(j, a) ==
  CASE Steps[j.at] = "Grant" ->
         [Granted(a, CoinsFor[j.mode][j.placement], XpFor[j.mode][j.placement]) EXCEPT !.paid = @ \cup {j.id}]
    [] Steps[j.at] = "Missions" -> RefreshMissions(a)
    [] Steps[j.at] = "CountMissions" -> CountMissions(a, j.mode, j.placement)
    [] Steps[j.at] = "Reward" ->
         [Granted(a, SumFunction([m \in j.due |-> Mission[m].coins]), SumFunction([m \in j.due |-> Mission[m].xp]))
            EXCEPT !.rewarded = @ \cup j.due]
    [] Steps[j.at] = "RecordMatch" -> RecordMatch(a, j.id, j.mode, j.placement)

\* The account's next step, past the reward if nothing is due; after the last the next account's.
Onward(j, due) ==
  LET at == IF Steps[j.at] = "CountMissions" /\ due = {} THEN j.at + 2 ELSE j.at + 1
  IN IF at > Len(Steps) THEN Tail(todo) ELSE [todo EXCEPT ![1] = [j EXCEPT !.at = at, !.due = due]]

\* Each change is saved before the next is made; missions of today need no refresh.
\* What missions earn is granted in a change of its own, after they count as done.
RecordStep ==
  /\ up /\ saving = "no" /\ todo # << >>
  /\ LET j == Head(todo) a == The(j.key)
     IN /\ IF Steps[j.at] = "Missions" /\ <<a.day, a.week>> = <<day, WeekOf(day)>> THEN UNCHANGED <<store, saving>>
           ELSE Changed(WithAccount(store, j.key, Done(j, a)))
        /\ todo' = Onward(j, IF Steps[j.at] = "CountMissions" THEN Finishing(a, j.mode, j.placement) ELSE {})
  /\ UNCHANGED <<file, tmp, up, day, failures>>

\* Missions shown to a player move to the day of the clock.
ShowMissions(key) ==
  /\ Has(key) /\ <<The(key).day, The(key).week>> # <<day, WeekOf(day)>>
  /\ Command(key, RefreshMissions(The(key)))

NewDay == day < LastDay /\ day' = day + 1 /\ UNCHANGED <<store, file, tmp, saving, todo, up, failures>>

-----------------------------------------------------------------------------

Own(key) ==
  \/ Register(key) \/ Login(key)
  \/ Has(key) /\ \E s \in Range(The(key).sessions) : Logout(key, s) \/ ChangePassword(key, s)
  \/ \E item \in Cosmetics : Buy(key, item)
  \/ \E item \in Cosmetics \cup {"default"} : Equip(key, item)
  \/ ShowMissions(key)

Friends(key) ==
  \E other \in Names : Request(key, other) \/ Accept(key, other) \/ Decline(key, other) \/ Unfriend(key, other)

\* A match is between distinct placements.
Results == {r \in UNION {[S -> Placements] : S \in SUBSET {k \in Players : Has(k)} \ {{}}} :
              \A k, l \in DOMAIN r : r[k] = r[l] => k = l}

\* Bounds of the exploration: only Players do more than make friends, and matches are
\* explored while there are no friends.
Strangers == \A k \in DOMAIN store.accounts : LET a == The(k) IN a.friends \cup a.incoming \cup a.outgoing = {}

AccountsNext ==
  \/ \E key \in Players : Own(key)
  \/ \E key \in Names \ Players : Register(key)
  \/ store.next = 1 /\ \E key \in Names : Friends(key)
  \/ Strangers /\ \E mode \in Modes, r \in Results : MatchEnds(mode, r)
  \/ RecordStep
  \/ WriteTmp \/ Rename
  \/ Crash \/ Restart
  \/ NewDay

AccountsSpec == AccountsInit /\ [][AccountsNext]_accountVars

-----------------------------------------------------------------------------
(* Properties.                                                             *)

\* The stores that a restart could begin with, and the one in memory.
Stores == {store} \cup ({file} \ {Nothing, Part})
AccountsOf(s) == {s.accounts[k] : k \in DOMAIN s.accounts}

\* What is on disk under the store's name is always a whole store, and when it changes
\* it becomes what the process holds at that moment: a crash, a failed write or a
\* leftover temporary file never brings back an older or a torn one.
FileIsTheStore == [][file' # file => file' = store']_accountVars

Spent(a) == SumFunction([i \in Cosmetics |-> IF i \in a.owned THEN Price[i] ELSE 0])

\* Coins come from the start, the matches, the missions and the levels, each level paid
\* once, and go into what is owned: in memory and after any restart.
CoinsAddUp ==
  \A s \in Stores : \A a \in AccountsOf(s) :
    /\ a.coins >= 0
    /\ a.coins + Spent(a)
         = StartingCoins + a.earned + LevelUpCoins * (LevelOf(a.xp) - 1)

\* A match in the history has been paid for and has a number of its own; its record is
\* there unless it is older than all that are kept.
HistoryIsBacked ==
  \A s \in Stores : \A a \in AccountsOf(s) :
    /\ Range(a.history) \subseteq a.paid
    /\ \A i, j \in DOMAIN a.history : i < j => a.history[i] > a.history[j]
    /\ \A id \in Range(a.history) : id < s.next /\ (id \in s.matches \/ \A kept \in s.matches : kept > id)

=============================================================================
