-------------------------------- MODULE Room --------------------------------
(***************************************************************************)
(* The game server of one match (GameServer.cpp) and the restart point its *)
(* process keeps on disk (w2f_server.cpp --autosave, --resume): who sits   *)
(* where, what every player has been shown, and what a crash leaves.       *)
(*                                                                         *)
(* The match is reduced to what the room passes on: its phase, and for     *)
(* every seat what only its owner is told (own) and what everybody is      *)
(* (board), each a small number that stands for the whole of it.           *)
(***************************************************************************)
EXTENDS Naturals, FiniteSets

CONSTANTS
  NumSeats, NumBots,    \* GameServerConfig: the bots have the last seats
  ConnIds,
  GiftEvery,            \* motherNatureEveryRounds, 0 = never
  MaxViolations, PostMatchTicks,
  MaxRound, MaxTokens, MaxCrashes,   \* bounds of the exploration
  Followed,             \* another: the seats whose own and board are followed, those of the others stay as they are
  None                  \* no connection, no seat, no match, no file, nothing shown yet

ASSUME RoomAssumption ==
  /\ NumSeats \in Nat \ {0, 1} /\ NumBots \in 0 .. NumSeats - 1
  /\ Followed \subseteq 0 .. NumSeats - 1 /\ GiftEvery \in Nat
  /\ {MaxViolations, MaxTokens, MaxCrashes} \subseteq Nat /\ {PostMatchTicks, MaxRound} \subseteq Nat \ {0}

Seats  == 0 .. NumSeats - 1
Bots   == NumSeats - NumBots .. NumSeats - 1
Humans == Seats \ Bots

Values == 0 .. 1
Owns   == {f \in [Humans -> Values] : \A s \in Humans \ Followed : f[s] = 0}
Boards == {f \in [Seats -> Values] : \A s \in Seats \ Followed : f[s] = 0}

VARIABLES
  state,        \* "Down" while the process does not run
  token,        \* of the human seats, 0 = a free seat
  conn,         \* of the human seats
  lastPrivate, lastPublic,   \* what was last sent, to send only changes
  conns,        \* what the room knows of its connections
  match,
  lastActed,    \* the bots' lastActedRound_
  fights,       \* the round of the fights kept for those who come back
  finishedTicks,
  saved,        \* the restart point on disk
  open,         \* the transport's connections
  shown,        \* what the connection on a seat has been sent last
  issued,       \* tokens given out
  crashes,
  resumed       \* this planning phase began not in a tick of this process but in DoResume

seatVars == <<token, conn>>
toldVars == <<lastPrivate, lastPublic, shown>>
vars == <<state, token, conn, lastPrivate, lastPublic, conns, match, lastActed, fights, finishedTicks,
          saved, open, shown, issued, crashes, resumed>>

Phases == {"MotherNature", "Planning", "Combat", "Resolution", "MatchOver"}
Matches == [phase : Phases, round : 1 .. MaxRound, ticks : Nat, own : Owns, board : Boards,
            out : SUBSET Bots, picked : SUBSET Bots, played : [Bots -> 0 .. MaxRound]]
RestartPoints == [match : Matches, token : [Humans -> Nat], lastActed : [Bots -> 0 .. MaxRound]]

ASSUME NoneAssumption ==
  /\ None \notin ConnIds /\ None \notin Seats
  /\ None \notin Matches /\ None \notin RestartPoints /\ None \notin Nat \X Boards

NoOne == [s \in Humans |-> None]
Unplayed == [b \in Bots |-> 0]
NothingShown == [private |-> None, public |-> None, fights |-> 0, over |-> FALSE]

TypeOK ==
  /\ state \in {"Down", "Lobby", "Running", "Finished"}
  /\ token \in [Humans -> 0 .. issued] /\ issued \in 0 .. MaxTokens
  /\ conn \in [Humans -> ConnIds \cup {None}] /\ open \subseteq ConnIds
  /\ DOMAIN conns \subseteq ConnIds
  /\ \A c \in DOMAIN conns : conns[c] \in [seat : Humans \cup {None}, closing : BOOLEAN, violations : 0 .. MaxViolations + 1]
  /\ match \in Matches \cup {None} /\ (state \in {"Running", "Finished"} <=> match # None)
  /\ lastActed \in [Bots -> 0 .. MaxRound] /\ fights \in 0 .. MaxRound /\ finishedTicks \in 0 .. PostMatchTicks
  /\ saved \in RestartPoints \cup {None}
  /\ crashes \in 0 .. MaxCrashes /\ resumed \in BOOLEAN

---------------------------------------------------------------------------
(* What is sent. *)

PrivateState(m, s) == <<m.own[s], m.board[s]>>
PublicState(m)     == <<m.round, m.board>>

\* SyncPrivate, SyncPublic: only what has changed goes out.  told: lastPrivate, lastPublic, shown.
Synced(m, at, told) ==
  LET private == {s \in Humans : at[s] # None /\ PrivateState(m, s) # told.lastPrivate[s]}
      public  == PublicState(m) # told.lastPublic
  IN  [lastPrivate |-> [s \in Humans |-> IF s \in private THEN PrivateState(m, s) ELSE told.lastPrivate[s]],
       lastPublic  |-> PublicState(m),
       shown |-> [s \in Humans |->
          [told.shown[s] EXCEPT !.private = IF s \in private THEN PrivateState(m, s) ELSE @,
                                !.public = IF public /\ at[s] # None THEN PublicState(m) ELSE @]]]

Told == [lastPrivate |-> lastPrivate, lastPublic |-> lastPublic, shown |-> shown]
Tell(told) == lastPrivate' = told.lastPrivate /\ lastPublic' = told.lastPublic /\ shown' = told.shown

\* Who comes back is not told that the match is over.
FullSync_NoResult(m, s, over) ==
  [private |-> PrivateState(m, s), public |-> PublicState(m),
   fights |-> IF m.phase \in {"Combat", "Resolution"} THEN fights ELSE 0, over |-> FALSE]
\* FullSync: everything, whatever was sent before.
FullSync(m, s, over) ==
  [private |-> PrivateState(m, s), public |-> PublicState(m),
   fights |-> IF m.phase \in {"Combat", "Resolution"} THEN fights ELSE 0, over |-> over]

---------------------------------------------------------------------------
(* The match, as the room sees it: each of these is what the engine may do *)
(* in one of its calls.                                                    *)

NewMatch(own, board) ==
  [phase |-> IF GiftEvery = 1 THEN "MotherNature" ELSE "Planning", round |-> 1, ticks |-> 0, own |-> own, board |-> board,
   out |-> {}, picked |-> {}, played |-> Unplayed]

\* The phase is over: AdvancePhase.
Advanced(m) ==
  LET enter(phase) == [m EXCEPT !.phase = phase, !.ticks = 0, !.picked = {}]
      opens(r) == IF GiftEvery > 0 /\ r % GiftEvery = 0 THEN "MotherNature" ELSE "Planning"
  IN  CASE m.phase = "MotherNature" -> {[enter("Planning") EXCEPT !.own = own] : own \in Owns}
        [] m.phase = "Planning"     -> {enter("Combat")}
        [] m.phase = "Combat"       -> {[enter("Resolution") EXCEPT !.out = m.out \cup gone] : gone \in SUBSET Bots}
        [] m.phase = "Resolution"   ->
             {enter("MatchOver")} \cup
             (IF m.round = MaxRound THEN {}
              ELSE {[enter(opens(m.round + 1)) EXCEPT !.round = @ + 1, !.own = own] : own \in Owns})

\* MatchManager::Tick: planning takes two ticks, Mother Nature up to two, the other phases one.
Ticked(m) ==
  LET waits == [m EXCEPT !.ticks = @ + 1]
  IN  IF m.ticks > 0 \/ m.phase \in {"Combat", "Resolution"} THEN Advanced(m)
      ELSE IF m.phase = "MotherNature" THEN Advanced(m) \cup {waits}
      ELSE {waits}

EnteredPlanning(m, n) == n.phase = "Planning" /\ m.phase # "Planning"

\* AIBotController::Tick of every bot.  Picking a gift, buying, selling and moving units are
\* reported as events; levelling and rolling the shop are not.  In the first round they field what
\* they were dealt.
Picks(m) == {b \in Bots \ m.out : m.phase = "MotherNature" /\ b \notin m.picked}
Plays(m) == {b \in Bots \ m.out : m.phase = "Planning" /\ lastActed[b] # m.round}
BotsActed(m) ==
  LET act == Picks(m) \cup Plays(m)
  IN  {[m EXCEPT !.board = board, !.picked = @ \cup Picks(m),
                 !.played = [b \in Bots |-> IF b \in Plays(m) THEN m.round ELSE @[b]]] :
         board \in {f \in Boards : \A s \in Seats \ act : f[s] = m.board[s]}}
Reports(m, n) ==
  IF Picks(m) # {} \/ (m.round = 1 /\ Plays(m) # {}) THEN {TRUE}
  ELSE IF n.board # m.board THEN BOOLEAN ELSE {FALSE}

\* The restart point: the match as its planning begins, before the bots play.
RestartPoint_BotsDone(m, t, acted) == [match |-> m, token |-> t, lastActed |-> [b \in Bots |-> m.round]]
RestartPoint(m, t, acted) == [match |-> m, token |-> t, lastActed |-> acted]

\* The file is written when planning begins and removed when the match is over.
SavedAfter_Left(m, n) == IF EnteredPlanning(m, n) THEN RestartPoint(n, token, lastActed) ELSE saved
SavedAfter(m, n) ==
  IF EnteredPlanning(m, n) THEN RestartPoint(n, token, lastActed)
  ELSE IF n.phase = "MatchOver" THEN None ELSE saved

---------------------------------------------------------------------------
(* The seats. *)

Init == /\ state = "Lobby" /\ match = None /\ lastActed = Unplayed /\ fights = 0 /\ finishedTicks = 0
        /\ token = [s \in Humans |-> 0] /\ conn = NoOne /\ conns = << >>
        /\ lastPrivate = NoOne /\ lastPublic = None /\ shown = [s \in Humans |-> NothingShown]
        /\ saved = None /\ open = {} /\ issued = 0 /\ crashes = 0 /\ resumed = FALSE

\* Nobody is seated and no match runs any more.
Emptied == /\ match' = None /\ lastActed' = Unplayed /\ fights' = 0
           /\ token' = [s \in Humans |-> 0] /\ conn' = NoOne /\ conns' = << >>
           /\ lastPrivate' = NoOne /\ shown' = [s \in Humans |-> NothingShown]

NewConn(s) == [seat |-> s, closing |-> FALSE, violations |-> 0]
Refused    == [seat |-> None, closing |-> TRUE, violations |-> 0]

Taken(t) == Cardinality({s \in Humans : t[s] # 0})
Holders(t) == {s \in Humans : t # 0 /\ token[s] = t}
FreeSeats == {s \in Humans : token[s] = 0}

Appears(c) == c \in ConnIds \ open /\ open' = open \cup {c}

\* A connection whose seat was taken over by a newer one.
Replaced_Stays(k) == k
Replaced(k) == [k EXCEPT !.seat = None, !.closing = TRUE]

\* OnConnect of a player who holds a token of this match, perhaps while an older connection still
\* has the seat.
Reconnect(c, t) ==
  /\ state # "Down" /\ Appears(c) /\ Holders(t) # {}
  /\ LET s == CHOOSE s \in Holders(t) : TRUE IN
       /\ conns' = [x \in DOMAIN conns \cup {c} |->
                      IF x = c THEN NewConn(s)
                      ELSE IF x = conn[s] THEN Replaced(conns[x])
                      ELSE conns[x]]
       /\ conn' = [conn EXCEPT ![s] = c]
       /\ IF state = "Lobby" THEN shown' = [shown EXCEPT ![s] = NothingShown] /\ UNCHANGED lastPrivate
          ELSE /\ shown' = [shown EXCEPT ![s] = FullSync(match, s, state = "Finished")]
               /\ lastPrivate' = [lastPrivate EXCEPT ![s] = PrivateState(match, s)]
  /\ UNCHANGED <<state, token, lastPublic, match, lastActed, fights, finishedTicks, saved, issued, crashes, resumed>>

\* OnConnect of anybody else.
TurnAway(c, t) ==
  /\ state \in {"Running", "Finished"} /\ Appears(c) /\ Holders(t) = {}
  /\ conns' = [x \in DOMAIN conns \cup {c} |-> IF x = c THEN Refused ELSE conns[x]]
  /\ UNCHANGED <<state, seatVars, toldVars, match, lastActed, fights, finishedTicks, saved, issued, crashes, resumed>>

\* StartMatch: whatever the opening deals, everybody is shown it.
StartMatch(t, at, m) ==
  LET told == [lastPrivate |-> NoOne, lastPublic |-> None, shown |-> [s \in Humans |-> NothingShown]]
  IN  /\ state' = "Running" /\ match' = m /\ fights' = 0
      /\ lastActed' = Unplayed
      /\ saved' = IF m.phase = "Planning" THEN RestartPoint(m, t, Unplayed) ELSE saved
      /\ Tell(Synced(m, at, told))

\* In the lobby a newcomer gets the first free seat; the match starts when the last one is taken.
Join(c, t) ==
  /\ state = "Lobby" /\ Appears(c) /\ Holders(t) = {} /\ FreeSeats # {} /\ issued < MaxTokens
  /\ LET s == CHOOSE s \in FreeSeats : \A r \in FreeSeats : s <= r IN
       /\ token' = [token EXCEPT ![s] = issued + 1]
       /\ conn' = [conn EXCEPT ![s] = c]
       /\ conns' = [x \in DOMAIN conns \cup {c} |-> IF x = c THEN NewConn(s) ELSE conns[x]]
  /\ issued' = issued + 1
  /\ IF Taken(token') = Cardinality(Humans)
     THEN \E board \in Boards : StartMatch(token', conn', NewMatch([s \in Humans |-> 0], board))
     ELSE UNCHANGED <<state, toldVars, match, lastActed, fights, saved>>
  /\ UNCHANGED <<finishedTicks, crashes, resumed>>

\* OnDisconnect.  Before the match the seat is free again; in a match it waits for its token.
Disconnect(c) ==
  /\ c \in open /\ open' = open \ {c}
  /\ IF c \notin DOMAIN conns THEN UNCHANGED <<conns, seatVars, lastPrivate, shown>>
     ELSE LET mine == {s \in Humans : s = conns[c].seat /\ conn[s] = c} IN
          /\ conns' = [x \in DOMAIN conns \ {c} |-> conns[x]]
          /\ conn' = [s \in Humans |-> IF s \in mine THEN None ELSE conn[s]]
          /\ shown' = [s \in Humans |-> IF s \in mine THEN NothingShown ELSE shown[s]]
          /\ token' = [s \in Humans |-> IF s \in mine /\ state = "Lobby" THEN 0 ELSE token[s]]
          /\ lastPrivate' = [s \in Humans |-> IF s \in mine /\ state = "Lobby" THEN None ELSE lastPrivate[s]]
  /\ UNCHANGED <<state, lastPublic, match, lastActed, fights, finishedTicks, saved, issued, crashes, resumed>>

---------------------------------------------------------------------------
(* What players send. *)

Heard(c) == c \in DOMAIN conns /\ ~ conns[c].closing

\* Violation: a message that is malformed, too fast, or not for now.
Violation(c) ==
  /\ Heard(c)
  /\ LET n == conns[c].violations + 1 IN
       conns' = [conns EXCEPT ![c].violations = n, ![c].closing = n > MaxViolations]
  /\ UNCHANGED <<state, seatVars, toldVars, match, lastActed, fights, finishedTicks, saved, open, issued, crashes, resumed>>

\* A command that reaches the engine: done or refused, the player's own state and what others see
\* of it may have changed.
Act(c) ==
  /\ Heard(c) /\ match # None
  /\ LET s == conns[c].seat IN
     \E own, board \in Values :
       /\ match' = IF s \in Followed /\ state = "Running" THEN [match EXCEPT !.own[s] = own, !.board[s] = board] ELSE match
       /\ Tell(Synced(match', conn, Told))
  /\ UNCHANGED <<state, seatVars, conns, lastActed, fights, finishedTicks, saved, open, issued, crashes, resumed>>

\* get_state sends both states again.
GetState(c) ==
  /\ Heard(c) /\ match # None
  /\ LET s == conns[c].seat IN
       shown' = [shown EXCEPT ![s].private = PrivateState(match, s), ![s].public = PublicState(match)]
  /\ UNCHANGED <<state, seatVars, lastPrivate, lastPublic, conns, match, lastActed, fights, finishedTicks, saved, open,
                 issued, crashes, resumed>>

---------------------------------------------------------------------------
(* Time. *)

\* The engine, then the bots; what happened goes out if anything was reported.
Tick ==
  /\ state = "Running"
  /\ \E n \in Ticked(match) : \E m \in BotsActed(n) : \E reported \in Reports(n, m) :
       LET entered == n.phase # match.phase
           over    == n.phase = "MatchOver"
           began   == entered /\ n.phase = "Combat"
           dirty   == entered \/ reported
           told    == [Told EXCEPT !.shown = [s \in Humans |->
                         IF began /\ conn[s] # None THEN [shown[s] EXCEPT !.fights = n.round] ELSE shown[s]]]
           synced  == IF dirty THEN Synced(m, conn, told) ELSE told
       IN  /\ match' = m
           /\ lastActed' = [b \in Bots |-> IF b \in Plays(n) THEN n.round ELSE lastActed[b]]
           /\ fights' = IF began THEN n.round ELSE fights
           /\ Tell([synced EXCEPT !.shown = [s \in Humans |->
                      IF over /\ conn[s] # None THEN [synced.shown[s] EXCEPT !.over = TRUE] ELSE synced.shown[s]]])
           /\ state' = IF over THEN "Finished" ELSE state
           /\ saved' = SavedAfter(match, n)
           /\ finishedTicks' = IF over THEN 0 ELSE finishedTicks
           /\ resumed' = (resumed /\ ~ entered)
  /\ UNCHANGED <<seatVars, conns, open, issued, crashes>>

\* The result has been shown long enough: everybody is disconnected and a new lobby opens (ResetToLobby).
Wind ==
  /\ state = "Finished" /\ finishedTicks + 1 < PostMatchTicks /\ finishedTicks' = finishedTicks + 1
  /\ UNCHANGED <<state, seatVars, toldVars, conns, match, lastActed, fights, saved, open, issued, crashes, resumed>>

ResetToLobby ==
  /\ state = "Finished" /\ finishedTicks + 1 >= PostMatchTicks
  /\ state' = "Lobby" /\ Emptied
  /\ UNCHANGED <<lastPublic, finishedTicks, saved, open, issued, crashes, resumed>>

---------------------------------------------------------------------------
(* The process may die; it is started again with the restart point, if     *)
(* there is one (entrypoint.sh).                                           *)

Crash ==
  /\ state # "Down" /\ crashes < MaxCrashes /\ crashes' = crashes + 1
  /\ state' = "Down" /\ Emptied /\ lastPublic' = None /\ finishedTicks' = 0 /\ open' = {} /\ resumed' = FALSE
  /\ UNCHANGED <<saved, issued>>

StartAfresh ==
  /\ state = "Down" /\ saved = None /\ state' = "Lobby"
  /\ UNCHANGED <<seatVars, toldVars, conns, match, lastActed, fights, finishedTicks, saved, open, issued, crashes, resumed>>

\* DoResume: refused if a human seat has no token or the bots are not those of this server.
Resume ==
  /\ state = "Down" /\ saved # None /\ \A s \in Humans : saved.token[s] # 0
  /\ state' = "Running" /\ match' = saved.match /\ token' = saved.token /\ lastActed' = saved.lastActed
  /\ resumed' = TRUE
  /\ UNCHANGED <<conn, toldVars, conns, fights, finishedTicks, saved, open, issued, crashes>>

---------------------------------------------------------------------------

Connects(c) == \E t \in 0 .. issued : Reconnect(c, t) \/ TurnAway(c, t) \/ Join(c, t)
Sends(c)    == Violation(c) \/ Act(c) \/ GetState(c)

Next == \/ \E c \in ConnIds : Connects(c) \/ Disconnect(c) \/ Sends(c)
        \/ Tick \/ Wind \/ ResetToLobby
        \/ Crash \/ StartAfresh \/ Resume

Spec == Init /\ [][Next]_vars

---------------------------------------------------------------------------

\* Takeovers, late disconnects and closed connections leave the two tables in step: a seat's
\* connection is the one connection that speaks for it, and no connection speaks for a seat that
\* was given to another (OnConnect, OnDisconnect, GameServer.cpp:82-148).
ConnectionsAgree ==
  /\ \A s \in Humans : conn[s] # None => conn[s] \in DOMAIN conns /\ conns[conn[s]].seat = s
  /\ \A c \in DOMAIN conns : conns[c].seat = None => conns[c].closing
  /\ \A c \in DOMAIN conns : conns[c].seat # None => conn[conns[c].seat] = c
  /\ \A s \in Humans : conn[s] # None => token[s] # 0

\* Whoever is connected to a match has been shown their own state as it is, the fights of the
\* round while they are played, and the result when it is over, however often they left, came
\* back or took their seat over (SyncAfterEngineCall, FullSync: GameServer.cpp:503-541); and the
\* boards and levels of all, which go out "whenever it changed" (network-protocol.md:115).  The
\* exception: in a planning phase that a new process resumed, the bots play in a tick in which
\* the engine has nothing to report (GameServer.cpp:253-255).
OwnersAreUpToDate ==
  state \in {"Running", "Finished"} =>
    \A s \in Humans : conn[s] # None =>
      /\ shown[s].private = PrivateState(match, s)
      /\ match.phase \in {"Combat", "Resolution"} => shown[s].fights = match.round
      /\ state = "Finished" => shown[s].over
      /\ ~ resumed => shown[s].public = PublicState(match)

\* A file is there exactly while a match has a planning phase to go back to; it is of this match,
\* with the tokens its players hold, and no more than the gift phase that follows it is of a later
\* round (deploy.md:23, GameServer.h:147).
RestartPointIsOfThisMatch ==
  /\ state \in {"Lobby", "Finished"} => saved = None
  /\ state = "Running" /\ match.phase \in {"Planning", "Combat", "Resolution"} =>
       saved # None /\ saved.match.round = match.round
  /\ state = "Running" /\ saved # None =>
       saved.token = token /\ saved.match.round \in match.round - 1 .. match.round

\* Every bot that is still in plays each planning phase, and once, across a restart too: what a
\* bot remembers is what it has done in the match (AIBotController.cpp:171-187, SeatsJson:
\* GameServer.cpp:575-607).
BotsPlayEveryRound ==
  state \in {"Running", "Finished"} =>
    \A b \in Bots :
      /\ match.played[b] = lastActed[b]
      /\ match.phase = "Combat" /\ b \notin match.out => match.played[b] = match.round
=============================================================================
