----------------------------- MODULE RoomProofs -----------------------------
(***************************************************************************)
(* Theorems about Room, for every number of seats, bots and connections    *)
(* and every bound: the room's invariant RoomInv and, from it, all that    *)
(* the run of MCRoom checks.                                               *)
(*                                                                         *)
(* The invariant has a part for each thing the room keeps in step:         *)
(*   TablesInv  the seats' table, the connections' table, the transport;   *)
(*   FileInv    the restart point and the match it is of;                  *)
(*   BotsInv    what bots remember, did, and wrote down;                   *)
(*   ShownInv   what was sent, what was recorded as sent, and what is.     *)
(* Each action is shown to keep each part it can disturb.                  *)
(***************************************************************************)
EXTENDS Room, TLAPS, FiniteSetTheorems, WellFoundedInduction

-----------------------------------------------------------------------------
(* What the room is built on.                                              *)

\* The parameters, one by one.
LEMMA Parameters ==
  /\ NumSeats \in Nat /\ NumBots \in Nat /\ NumBots < NumSeats
  /\ MaxViolations \in Nat /\ MaxTokens \in Nat /\ MaxCrashes \in Nat
  /\ PostMatchTicks \in Nat /\ PostMatchTicks > 0 /\ MaxRound \in Nat /\ MaxRound > 0
  /\ Followed \subseteq Seats
  /\ None \notin ConnIds /\ None \notin Seats /\ None \notin Matches /\ None \notin RestartPoints
  /\ None \notin Nat \X Boards
BY RoomAssumption, NoneAssumption DEF Seats

\* The bots have the last seats, the human players the others (GameServer.cpp:70).
LEMMA SeatsAreShared ==
  /\ Humans \subseteq Seats /\ Bots \subseteq Seats /\ Humans \cap Bots = {}
  /\ None \notin Humans /\ 0 \notin Bots /\ Seats \subseteq Nat
BY Parameters DEF Humans, Bots, Seats

\* The match that StartMatch makes is a match of the first round.
LEMMA OpeningMatch ==
  ASSUME NEW board \in Boards
  PROVE  LET m == NewMatch([s \in Humans |-> 0], board) IN
         /\ m \in Matches /\ m.phase \in {"MotherNature", "Planning"} /\ m.round = 1 /\ m.ticks = 0
         /\ m.out = {} /\ m.played = Unplayed /\ m.board = board
<1> DEFINE own == [s \in Humans |-> 0]
<1>1. own \in Owns
  BY DEF Owns, Values
<1>2. Unplayed \in [Bots -> 0 .. MaxRound] /\ 1 \in 1 .. MaxRound
  BY Parameters DEF Unplayed
<1> DEFINE first == IF GiftEvery = 1 THEN "MotherNature" ELSE "Planning"
           m == NewMatch(own, board)
<1>3. first \in {"MotherNature", "Planning"} /\ first \in Phases
  BY DEF Phases
<1>4. m = [phase |-> first, round |-> 1, ticks |-> 0, own |-> own, board |-> board,
           out |-> {}, picked |-> {}, played |-> Unplayed]
  BY DEF NewMatch
<1> HIDE DEF own, first, m
<1>5. m \in Matches
  BY <1>1, <1>2, <1>3, <1>4 DEF Matches
<1>6. /\ m.phase \in {"MotherNature", "Planning"} /\ m.round = 1 /\ m.ticks = 0
      /\ m.out = {} /\ m.played = Unplayed /\ m.board = board
  BY <1>3, <1>4
<1> QED
  BY <1>5, <1>6 DEF m, own

\* What one tick of the engine does with the match m.
Stepped(m, n) ==
  /\ n \in Matches /\ n.board = m.board /\ n.played = m.played
  /\ \/ /\ n.phase = m.phase /\ m.phase \in {"MotherNature", "Planning"} /\ m.ticks = 0 /\ n.ticks = 1
        /\ n.round = m.round /\ n.own = m.own /\ n.out = m.out /\ n.picked = m.picked
     \/ m.phase = "MotherNature" /\ n.phase = "Planning" /\ n.ticks = 0 /\ n.round = m.round /\ n.out = m.out
     \/ /\ m.phase = "Planning" /\ m.ticks > 0 /\ n.phase = "Combat"
        /\ n.round = m.round /\ n.own = m.own /\ n.out = m.out
     \/ m.phase = "Combat" /\ n.phase = "Resolution" /\ n.round = m.round
     \/ m.phase = "Resolution" /\ n.phase = "MatchOver" /\ n.round = m.round
     \/ m.phase = "Resolution" /\ n.phase \in {"MotherNature", "Planning"} /\ n.ticks = 0 /\ n.round = m.round + 1

\* A phase is followed by the one that MatchManager's AdvancePhase enters.
LEMMA AdvancesByPhase ==
  ASSUME NEW m \in Matches, NEW n \in Advanced(m),
         m.phase # "MatchOver", m.phase = "Planning" => m.ticks > 0
  PROVE  Stepped(m, n)
<1> USE DEF Matches
<1>0. m.round \in 1 .. MaxRound /\ m.phase \in Phases /\ 1 .. MaxRound \subseteq Nat
  BY Parameters
<1>1. CASE m.phase = "MotherNature"
  <2>1. PICK own \in Owns : n = [[m EXCEPT !.phase = "Planning", !.ticks = 0, !.picked = {}] EXCEPT !.own = own]
    BY <1>1 DEF Advanced
  <2> QED
    BY <1>1, <2>1 DEF Stepped, Phases
<1>2. CASE m.phase = "Planning"
  <2>1. n = [m EXCEPT !.phase = "Combat", !.ticks = 0, !.picked = {}]
    BY <1>2 DEF Advanced
  <2> QED
    BY <1>2, <2>1 DEF Stepped, Phases
<1>3. CASE m.phase = "Combat"
  <2>1. PICK gone \in SUBSET Bots :
          n = [[m EXCEPT !.phase = "Resolution", !.ticks = 0, !.picked = {}] EXCEPT !.out = m.out \cup gone]
    BY <1>3 DEF Advanced
  <2> QED
    BY <1>3, <2>1 DEF Stepped, Phases
<1>4. CASE m.phase = "Resolution"
  <2>1. CASE n = [m EXCEPT !.phase = "MatchOver", !.ticks = 0, !.picked = {}]
    BY <1>4, <2>1 DEF Stepped, Phases
  <2>2. CASE n # [m EXCEPT !.phase = "MatchOver", !.ticks = 0, !.picked = {}]
    <3> DEFINE opens == IF GiftEvery > 0 /\ (m.round + 1) % GiftEvery = 0 THEN "MotherNature" ELSE "Planning"
    <3>1. m.round # MaxRound
      BY <1>4, <2>2 DEF Advanced
    <3>2. PICK own \in Owns :
            n = [[m EXCEPT !.phase = opens, !.ticks = 0, !.picked = {}] EXCEPT !.round = @ + 1, !.own = own]
      BY <1>4, <2>2 DEF Advanced
    <3>3. opens \in {"MotherNature", "Planning"}
      OBVIOUS
    <3>4. m.round + 1 \in 1 .. MaxRound
      BY <1>0, <3>1, Parameters
    <3> HIDE DEF opens
    <3> QED
      BY <1>4, <3>2, <3>3, <3>4 DEF Stepped, Phases
  <2> QED
    BY <2>1, <2>2
<1> QED
  BY <1>0, <1>1, <1>2, <1>3, <1>4 DEF Phases

\* So is every tick: it waits or advances.
LEMMA EngineSteps ==
  ASSUME NEW m \in Matches, NEW n \in Ticked(m), m.phase # "MatchOver"
  PROVE  Stepped(m, n)
<1>1. m.ticks \in Nat /\ m.phase \in Phases
  BY DEF Matches
<1>2. CASE n \in Advanced(m) /\ (m.phase = "Planning" => m.ticks > 0)
  BY <1>2, AdvancesByPhase
<1>3. CASE n = [m EXCEPT !.ticks = @ + 1] /\ m.ticks = 0 /\ m.phase \in {"MotherNature", "Planning"}
  BY <1>3 DEF Stepped, Matches
<1> QED
  BY <1>1, <1>2, <1>3 DEF Ticked, Phases

\* What the bots do with the match n after that.
Acted(n, m) ==
  /\ m \in Matches
  /\ m.phase = n.phase /\ m.round = n.round /\ m.ticks = n.ticks /\ m.own = n.own /\ m.out = n.out
  /\ \A s \in Humans : m.board[s] = n.board[s]
  /\ Picks(n) \cup Plays(n) = {} => m.board = n.board
  /\ m.played = [b \in Bots |-> IF b \in Plays(n) THEN n.round ELSE n.played[b]]

\* The bots play for themselves only and, when none of them has anything to do, not at all.
LEMMA BotsStep ==
  ASSUME NEW n \in Matches, NEW m \in BotsActed(n)
  PROVE  Acted(n, m)
<1> DEFINE act == Picks(n) \cup Plays(n)
<1>1. PICK board \in {f \in Boards : \A s \in Seats \ act : f[s] = n.board[s]} :
        m = [n EXCEPT !.board = board, !.picked = @ \cup Picks(n),
                      !.played = [b \in Bots |-> IF b \in Plays(n) THEN n.round ELSE @[b]]]
  BY DEF BotsActed
<1>2. act \subseteq Bots /\ Picks(n) \subseteq Bots
  BY DEF Picks, Plays
<1>3. board \in Boards /\ \A s \in Seats \ act : board[s] = n.board[s]
  OBVIOUS
<1>4. n.board \in Boards /\ n.round \in 0 .. MaxRound /\ n.played \in [Bots -> 0 .. MaxRound] /\ n.picked \in SUBSET Bots
  BY Parameters DEF Matches
<1>5. act = {} => board = n.board
  BY <1>3, <1>4 DEF Boards
<1>6. \A s \in Humans : board[s] = n.board[s]
  BY <1>2, <1>3, SeatsAreShared
<1>7. m.played = [b \in Bots |-> IF b \in Plays(n) THEN n.round ELSE n.played[b]]
      /\ m.board = board /\ m.picked = n.picked \cup Picks(n)
  BY <1>1 DEF Matches
<1>8. m.phase = n.phase /\ m.round = n.round /\ m.ticks = n.ticks /\ m.own = n.own /\ m.out = n.out
  BY <1>1 DEF Matches
<1>9. m \in Matches
  <2>1. [b \in Bots |-> IF b \in Plays(n) THEN n.round ELSE n.played[b]] \in [Bots -> 0 .. MaxRound]
    BY <1>4
  <2>2. n.picked \cup Picks(n) \in SUBSET Bots
    BY <1>2, <1>4
  <2> DEFINE pl == [b \in Bots |-> IF b \in Plays(n) THEN n.round ELSE n.played[b]]
             pi == n.picked \cup Picks(n)
  <2>3. m = [n EXCEPT !.board = board, !.picked = pi, !.played = pl]
    BY <1>1 DEF Matches
  <2> HIDE DEF pl, pi
  <2> QED
    BY <1>3, <2>1, <2>2, <2>3 DEF Matches, pl, pi
<1> HIDE DEF act
<1> QED
  BY <1>5, <1>6, <1>7, <1>8, <1>9 DEF Acted, act

-----------------------------------------------------------------------------
(* What holds of the tables and of the file.                               *)

\* There is a match to be looked at.
Running == state \in {"Running", "Finished"}

\* The two tables of the room, and the transport's: what ConnectionsAgree needs to survive a step.
TablesInv ==
  /\ DOMAIN conns \subseteq open
  /\ \A c \in DOMAIN conns : ~ conns[c].closing => conns[c].violations <= MaxViolations
  /\ state = "Down" => open = {}
  /\ ConnectionsAgree

\* The restart point and the match it is of.
FileInv ==
  /\ state = "Running" => match.phase # "MatchOver"
  /\ saved # None => saved.match.phase = "Planning" /\ saved.match.ticks = 0 /\ saved.token \in [Humans -> 0 .. issued]
  /\ state = "Running" /\ match.phase = "MotherNature" /\ saved # None => saved.match.round = match.round - 1
  /\ RestartPointIsOfThisMatch

\* The types, the tables and the file, when the server is started.
LEMMA NothingToStartWith == Init => TypeOK /\ TablesInv /\ FileInv
<1> SUFFICES ASSUME Init PROVE TypeOK /\ TablesInv /\ FileInv
  OBVIOUS
<1> USE DEF Init
<1>1. DOMAIN conns = {}
  OBVIOUS
<1>2. TypeOK
  <2>1. match = None /\ state = "Lobby" /\ saved = None
    OBVIOUS
  <2>2. lastActed \in [Bots -> 0 .. MaxRound]
    BY Parameters DEF Unplayed
  <2>3. conn \in [Humans -> ConnIds \cup {None}] /\ token \in [Humans -> 0 .. issued]
    BY DEF NoOne
  <2>4. issued \in 0 .. MaxTokens /\ fights \in 0 .. MaxRound /\ finishedTicks \in 0 .. PostMatchTicks /\ crashes \in 0 .. MaxCrashes
    BY Parameters
  <2>5. open \subseteq ConnIds /\ resumed \in BOOLEAN
    OBVIOUS
  <2> QED
    BY ONLY <1>1, <2>1, <2>2, <2>3, <2>4, <2>5 DEF TypeOK
<1>3. TablesInv
  BY <1>1 DEF TablesInv, ConnectionsAgree, NoOne
<1>4. FileInv
  BY DEF FileInv, RestartPointIsOfThisMatch
<1> QED
  BY <1>2, <1>3, <1>4

\* A match that is running is there to be looked at.
LEMMA MatchIsThere ==
  ASSUME TypeOK
  PROVE  /\ Running => match \in Matches
         /\ match # None => Running
         /\ \A c \in DOMAIN conns : conns[c] \in [seat : Humans \cup {None}, closing : BOOLEAN, violations : 0 .. MaxViolations + 1]
BY DEF TypeOK, Running

\* Who is heard has a seat.
LEMMA HeardAreSeated ==
  ASSUME TypeOK, TablesInv, NEW c, Heard(c)
  PROVE  /\ c \in DOMAIN conns /\ conns[c].seat \in Humans /\ conn[conns[c].seat] = c
         /\ conns[c].violations \in 0 .. MaxViolations
<1>1. c \in DOMAIN conns /\ ~ conns[c].closing /\ conns[c].violations <= MaxViolations
  BY DEF Heard, TablesInv
<1>2. conns[c].seat \in Humans \cup {None} /\ conns[c].violations \in 0 .. MaxViolations + 1
  BY <1>1, MatchIsThere
<1>3. conns[c].seat # None
  BY <1>1 DEF TablesInv, ConnectionsAgree
<1> QED
  BY <1>1, <1>2, <1>3, Parameters DEF TablesInv, ConnectionsAgree

\* Somebody has the first free seat.
LEMMA FirstFreeSeat ==
  ASSUME FreeSeats # {}
  PROVE  (CHOOSE s \in FreeSeats : \A r \in FreeSeats : s <= r) \in FreeSeats
<1>1. FreeSeats \subseteq Nat
  BY SeatsAreShared DEF FreeSeats
<1> DEFINE R == OpToRel(<, Nat)
<1>2. IsWellFoundedOn(R, Nat)
  BY NatLessThanWellFounded
<1>3. \E s \in FreeSeats : \A r \in FreeSeats : <<r, s>> \notin R
  <2> HIDE DEF R
  <2> QED
    BY <1>1, <1>2, WFMin
<1>4. PICK s \in FreeSeats : \A r \in FreeSeats : <<r, s>> \notin R
  BY <1>3
<1>5. ASSUME NEW r \in FreeSeats PROVE s <= r
  <2>1. r \in Nat /\ s \in Nat /\ <<r, s>> \notin R
    BY <1>1, <1>4
  <2> QED
    BY <2>1 DEF OpToRel
<1> QED
  BY <1>5

-----------------------------------------------------------------------------
(* The tables of seats and connections.                                    *)

\* A new connection takes seat s, which nobody or a connection that gives way had.
LEMMA SeatTaken ==
  ASSUME TypeOK, TablesInv, state' # "Down", NEW c \in ConnIds \ open, NEW s \in Humans, token'[s] # 0,
         \A r \in Humans : r # s => token'[r] = token[r],
         conn' = [conn EXCEPT ![s] = c],
         open' = open \cup {c},
         conns' = [x \in DOMAIN conns \cup {c} |->
                      IF x = c THEN NewConn(s) ELSE IF x = conn[s] THEN Replaced(conns[x]) ELSE conns[x]]
  PROVE  TablesInv'
<1>1. c \notin DOMAIN conns /\ DOMAIN conns \subseteq open /\ conn \in [Humans -> ConnIds \cup {None}]
  BY DEF TablesInv, TypeOK
<1>2. /\ \A r \in Humans : conn[r] # None => conn[r] \in DOMAIN conns /\ conns[conn[r]].seat = r /\ token[r] # 0
      /\ \A x \in DOMAIN conns : conns[x].seat = None => conns[x].closing
      /\ \A x \in DOMAIN conns : conns[x].seat # None => conn[conns[x].seat] = x
      /\ \A x \in DOMAIN conns : ~ conns[x].closing => conns[x].violations <= MaxViolations
  BY DEF TablesInv, ConnectionsAgree
<1>3. conn'[s] = c /\ \A r \in Humans : r # s => conn'[r] = conn[r]
  BY <1>1
<1>4. DOMAIN conns' = DOMAIN conns \cup {c}
  OBVIOUS
<1>5. conns'[c].seat = s /\ ~ conns'[c].closing /\ conns'[c].violations = 0
  BY DEF NewConn
<1>6. ASSUME NEW x \in DOMAIN conns, x # conn[s]
      PROVE  conns'[x] = conns[x] /\ conns[x].seat # s
  BY <1>1, <1>2, <1>6, SeatsAreShared
<1>7. ASSUME NEW x \in DOMAIN conns, x = conn[s]
      PROVE  conns'[x].seat = None /\ conns'[x].closing
  <2>1. conns'[x] = Replaced(conns[x])
    BY <1>1, <1>7
  <2>2. conns[x] \in [seat : Humans \cup {None}, closing : BOOLEAN, violations : 0 .. MaxViolations + 1]
    BY MatchIsThere
  <2> QED
    BY <2>1, <2>2 DEF Replaced
<1>8. \A x \in DOMAIN conns : conns[x].seat \in Humans \cup {None}
  BY MatchIsThere
<1>9. ASSUME NEW r \in Humans, conn'[r] # None
      PROVE  conn'[r] \in DOMAIN conns' /\ conns'[conn'[r]].seat = r /\ token'[r] # 0
  <2>1. CASE r = s
    BY <1>3, <1>4, <1>5, <2>1
  <2>2. CASE r # s
    <3>1. conn[r] \in DOMAIN conns /\ conns[conn[r]].seat = r /\ token[r] # 0
      BY <1>2, <1>3, <1>9, <2>2
    <3>2. conn[r] # conn[s]
      BY <1>2, <1>3, <1>9, <2>2
    <3> QED
      BY <1>3, <1>4, <1>6, <2>2, <3>1, <3>2
  <2> QED
    BY <2>1, <2>2
<1>10. ASSUME NEW x \in DOMAIN conns'
       PROVE  /\ conns'[x].seat = None => conns'[x].closing
              /\ conns'[x].seat # None => conn'[conns'[x].seat] = x
              /\ ~ conns'[x].closing => conns'[x].violations <= MaxViolations
  <2>1. CASE x = c
    BY <1>3, <1>5, <2>1, Parameters, SeatsAreShared
  <2>2. CASE x # c /\ x = conn[s]
    BY <1>4, <1>7, <2>2
  <2>3. CASE x # c /\ x # conn[s]
    BY <1>2, <1>3, <1>4, <1>6, <1>8, <2>3
  <2> QED
    BY <2>1, <2>2, <2>3
<1> QED
  BY <1>1, <1>4, <1>9, <1>10 DEF TablesInv, ConnectionsAgree

\* A connection the room never hears of gets no seat.
LEMMA NobodySeated ==
  ASSUME TypeOK, TablesInv, NEW c \in ConnIds, NEW t, TurnAway(c, t)
  PROVE  TablesInv'
<1>1. /\ c \notin open /\ open' = open \cup {c} /\ UNCHANGED <<state, token, conn>> /\ state # "Down"
      /\ conns' = [x \in DOMAIN conns \cup {c} |-> IF x = c THEN Refused ELSE conns[x]]
  BY DEF TurnAway, Appears, seatVars
<1>2. /\ \A r \in Humans : conn[r] # None => conn[r] \in DOMAIN conns /\ conns[conn[r]].seat = r /\ token[r] # 0
      /\ \A x \in DOMAIN conns : conns[x].seat = None => conns[x].closing
      /\ \A x \in DOMAIN conns : conns[x].seat # None => conn[conns[x].seat] = x
      /\ \A x \in DOMAIN conns : ~ conns[x].closing => conns[x].violations <= MaxViolations
      /\ DOMAIN conns \subseteq open
  BY DEF TablesInv, ConnectionsAgree
<1>3. /\ DOMAIN conns' = DOMAIN conns \cup {c}
      /\ conns'[c].seat = None /\ conns'[c].closing
      /\ \A x \in DOMAIN conns : conns'[x] = conns[x] /\ x # c
  BY <1>1, <1>2 DEF Refused
<1> QED
  BY <1>1, <1>2, <1>3 DEF TablesInv, ConnectionsAgree

\* A connection ends: its seat, if it still has one, is nobody's.
LEMMA SomebodyLeaves ==
  ASSUME TypeOK, TablesInv, NEW c \in ConnIds, Disconnect(c)
  PROVE  TablesInv'
<1>1. /\ \A r \in Humans : conn[r] # None => conn[r] \in DOMAIN conns /\ conns[conn[r]].seat = r /\ token[r] # 0
      /\ \A x \in DOMAIN conns : conns[x].seat = None => conns[x].closing
      /\ \A x \in DOMAIN conns : conns[x].seat # None => conn[conns[x].seat] = x
      /\ \A x \in DOMAIN conns : ~ conns[x].closing => conns[x].violations <= MaxViolations
      /\ DOMAIN conns \subseteq open
  BY DEF TablesInv, ConnectionsAgree
<1>2. c \in open /\ open' = open \ {c} /\ state' = state /\ (state = "Down" => open = {})
  BY DEF Disconnect, TablesInv
<1>3. CASE c \notin DOMAIN conns
  <2>1. UNCHANGED <<conns, token, conn>>
    BY <1>3 DEF Disconnect, seatVars
  <2> QED
    BY <1>1, <1>2, <1>3, <2>1 DEF TablesInv, ConnectionsAgree
<1>4. CASE c \in DOMAIN conns
  <2> DEFINE mine == {s \in Humans : s = conns[c].seat /\ conn[s] = c}
  <2>1. /\ conns' = [x \in DOMAIN conns \ {c} |-> conns[x]]
        /\ conn' = [s \in Humans |-> IF s \in mine THEN None ELSE conn[s]]
        /\ token' = [s \in Humans |-> IF s \in mine /\ state = "Lobby" THEN 0 ELSE token[s]]
    BY <1>4 DEF Disconnect
  <2>2. DOMAIN conns' = DOMAIN conns \ {c} /\ \A x \in DOMAIN conns' : conns'[x] = conns[x]
    BY <2>1
  <2>3. \A s \in Humans : s \in mine <=> conn[s] = c
    BY <1>1, Parameters
  <2>4. \A x \in DOMAIN conns : conns[x].seat \in Humans \cup {None}
    BY MatchIsThere
  <2> HIDE DEF mine
  <2>5. ASSUME NEW s \in Humans, conn'[s] # None
        PROVE  conn'[s] \in DOMAIN conns' /\ conns'[conn'[s]].seat = s /\ token'[s] # 0
    <3>1. conn'[s] = conn[s] /\ conn[s] # c /\ token'[s] = token[s]
      BY <2>1, <2>3, <2>5
    <3> QED
      BY <1>1, <2>2, <2>5, <3>1
  <2>6. ASSUME NEW x \in DOMAIN conns'
        PROVE  /\ conns'[x].seat = None => conns'[x].closing
               /\ conns'[x].seat # None => conn'[conns'[x].seat] = x
               /\ ~ conns'[x].closing => conns'[x].violations <= MaxViolations
    <3>1. x \in DOMAIN conns /\ x # c /\ conns'[x] = conns[x]
      BY <2>2
    <3>2. ASSUME conns[x].seat # None PROVE conn'[conns[x].seat] = x
      <4>1. conns[x].seat \in Humans /\ conn[conns[x].seat] = x
        BY <1>1, <2>4, <3>1, <3>2
      <4> QED
        BY <2>1, <2>3, <3>1, <4>1
    <3> QED
      BY <1>1, <3>1, <3>2
  <2>7. DOMAIN conns' \subseteq open'
    BY <1>1, <1>2, <2>2
  <2> QED
    BY <1>2, <2>5, <2>6, <2>7 DEF TablesInv, ConnectionsAgree
<1> QED
  BY <1>3, <1>4

\* A violation is counted; one too many closes the connection.
LEMMA SomebodyMisbehaves ==
  ASSUME TypeOK, TablesInv, NEW c \in ConnIds, Violation(c)
  PROVE  TablesInv'
<1>1. c \in DOMAIN conns /\ conns[c].seat \in Humans /\ conn[conns[c].seat] = c /\ conns[c].violations \in 0 .. MaxViolations
  BY HeardAreSeated DEF Violation
<1> DEFINE n == conns[c].violations + 1
<1>2. conns' = [conns EXCEPT ![c].violations = n, ![c].closing = n > MaxViolations]
      /\ UNCHANGED <<state, token, conn, open>>
  BY DEF Violation, seatVars
<1>3. conns[c] \in [seat : Humans \cup {None}, closing : BOOLEAN, violations : 0 .. MaxViolations + 1]
  BY <1>1, MatchIsThere
<1>4. conns' = [conns EXCEPT ![c] = [conns[c] EXCEPT !.violations = n, !.closing = n > MaxViolations]]
  BY <1>2
<1>5. DOMAIN conns' = DOMAIN conns /\ \A x \in DOMAIN conns : x # c => conns'[x] = conns[x]
  BY <1>2
<1>6. conns'[c].seat = conns[c].seat /\ conns'[c].closing = (n > MaxViolations) /\ conns'[c].violations = n
  BY <1>1, <1>3, <1>4
<1>7. n \in Int /\ MaxViolations \in Int
  BY <1>1, Parameters
<1>8. conns'[c].seat # None
  BY <1>1, <1>6, SeatsAreShared
<1> HIDE DEF n
<1>9. ASSUME NEW x \in DOMAIN conns'
      PROVE  /\ conns'[x].seat = conns[x].seat
             /\ conns'[x].seat = None => conns'[x].closing
             /\ ~ conns'[x].closing => conns'[x].violations <= MaxViolations
  <2>1. CASE x = c
    <3>1. CASE n > MaxViolations
      <4>1. conns'[c].closing = TRUE
        BY <1>6, <3>1
      <4> QED
        BY <1>6, <1>8, <2>1, <4>1
    <3>2. CASE ~ (n > MaxViolations)
      BY <1>6, <1>7, <1>8, <2>1, <3>2
    <3> QED
      BY <3>1, <3>2
  <2>2. CASE x # c
    BY <1>5, <2>2 DEF TablesInv, ConnectionsAgree
  <2> QED
    BY <2>1, <2>2
<1> QED
  BY <1>2, <1>5, <1>9 DEF TablesInv, ConnectionsAgree

\* The room is empty again.
LEMMA NobodyLeft ==
  ASSUME Emptied, state' = "Down" => open' = {}
  PROVE  TablesInv'
<1>1. DOMAIN conns' = {} /\ \A s \in Humans : conn'[s] = None
  BY DEF Emptied, NoOne
<1> QED
  BY <1>1 DEF TablesInv, ConnectionsAgree

\* Every step leaves the two tables in step.
LEMMA TablesKept ==
  ASSUME TypeOK, TablesInv, FileInv, [Next]_vars
  PROVE  TablesInv'
<1>1. ASSUME NEW c \in ConnIds, NEW t \in 0 .. issued, Reconnect(c, t) PROVE TablesInv'
  <2> DEFINE s == CHOOSE s \in Holders(t) : TRUE
  <2>1. s \in Humans /\ token[s] # 0
    BY <1>1 DEF Reconnect, Holders
  <2>2. /\ c \in ConnIds \ open /\ open' = open \cup {c} /\ token' = token /\ state' # "Down"
        /\ conns' = [x \in DOMAIN conns \cup {c} |->
                      IF x = c THEN NewConn(s) ELSE IF x = conn[s] THEN Replaced(conns[x]) ELSE conns[x]]
        /\ conn' = [conn EXCEPT ![s] = c]
    BY <1>1 DEF Reconnect, Appears
  <2> HIDE DEF s
  <2> QED
    BY <2>1, <2>2, SeatTaken
<1>2. ASSUME NEW c \in ConnIds, NEW t \in 0 .. issued, TurnAway(c, t) PROVE TablesInv'
  BY <1>2, NobodySeated
<1>3. ASSUME NEW c \in ConnIds, NEW t \in 0 .. issued, Join(c, t) PROVE TablesInv'
  <2> DEFINE s == CHOOSE s \in FreeSeats : \A r \in FreeSeats : s <= r
  <2>1. s \in FreeSeats
    BY <1>3, FirstFreeSeat DEF Join
  <2>2. /\ c \in ConnIds \ open /\ open' = open \cup {c}
        /\ token' = [token EXCEPT ![s] = issued + 1]
        /\ conns' = [x \in DOMAIN conns \cup {c} |-> IF x = c THEN NewConn(s) ELSE conns[x]]
        /\ conn' = [conn EXCEPT ![s] = c]
    BY <1>3 DEF Join, Appears
  <2> HIDE DEF s
  <2>3. s \in Humans /\ token[s] = 0
    BY <2>1 DEF FreeSeats
  <2>4. conn[s] = None
    BY <2>3 DEF TablesInv, ConnectionsAgree
  <2>5. issued \in Nat /\ token \in [Humans -> 0 .. issued] /\ DOMAIN conns \subseteq ConnIds
    BY Parameters DEF TypeOK
  <2>6. conns' = [x \in DOMAIN conns \cup {c} |->
                    IF x = c THEN NewConn(s) ELSE IF x = conn[s] THEN Replaced(conns[x]) ELSE conns[x]]
    BY <2>2, <2>4, <2>5, Parameters
  <2>8. state' # "Down"
    BY <1>3 DEF Join, StartMatch
  <2>7. token'[s] # 0 /\ \A r \in Humans : r # s => token'[r] = token[r]
    BY <2>2, <2>3, <2>5
  <2> QED
    BY <2>2, <2>3, <2>6, <2>7, <2>8, SeatTaken
<1>4. ASSUME NEW c \in ConnIds, Disconnect(c) PROVE TablesInv'
  BY <1>4, SomebodyLeaves
<1>5. ASSUME NEW c \in ConnIds, Violation(c) PROVE TablesInv'
  BY <1>5, SomebodyMisbehaves
<1>6. ASSUME UNCHANGED <<conns, conn, token, open>>, state' = "Down" => state = "Down" PROVE TablesInv'
  BY <1>6 DEF TablesInv, ConnectionsAgree
<1>7. ASSUME NEW c \in ConnIds, Act(c) \/ GetState(c) PROVE TablesInv'
  BY <1>6, <1>7 DEF Act, GetState, seatVars
<1>8. CASE Tick \/ Wind \/ StartAfresh \/ UNCHANGED vars
  BY <1>6, <1>8 DEF Tick, Wind, StartAfresh, vars, seatVars
<1>9. CASE ResetToLobby \/ Crash
  BY <1>9, NobodyLeft DEF ResetToLobby, Crash
<1>10. CASE Resume
  <2>1. open = {} /\ state' = "Running" /\ UNCHANGED <<conn, conns, open>>
    BY <1>10 DEF Resume, TablesInv
  <2>2. DOMAIN conns = {} /\ \A s \in Humans : conn[s] = None
    BY <2>1 DEF TablesInv, ConnectionsAgree
  <2> QED
    BY <2>1, <2>2 DEF TablesInv, ConnectionsAgree
<1> QED
  BY <1>1, <1>2, <1>3, <1>4, <1>5, <1>7, <1>8, <1>9, <1>10 DEF Next, Connects, Sends

-----------------------------------------------------------------------------
(* Types.                                                                  *)

ConnRecords == [seat : Humans \cup {None}, closing : BOOLEAN, violations : 0 .. MaxViolations + 1]

\* The part of TypeOK about the tables.
TableTypes ==
  /\ token \in [Humans -> 0 .. issued] /\ issued \in 0 .. MaxTokens
  /\ conn \in [Humans -> ConnIds \cup {None}] /\ open \subseteq ConnIds
  /\ DOMAIN conns \subseteq ConnIds /\ \A c \in DOMAIN conns : conns[c] \in ConnRecords

\* The rest of it.
MatchTypes ==
  /\ state \in {"Down", "Lobby", "Running", "Finished"}
  /\ match \in Matches \cup {None} /\ (state \in {"Running", "Finished"} <=> match # None)
  /\ lastActed \in [Bots -> 0 .. MaxRound] /\ fights \in 0 .. MaxRound /\ finishedTicks \in 0 .. PostMatchTicks
  /\ saved \in RestartPoints \cup {None}
  /\ crashes \in 0 .. MaxCrashes /\ resumed \in BOOLEAN

\* The types, in two parts.
LEMMA TypesInTwo == (TypeOK <=> TableTypes /\ MatchTypes) /\ (TypeOK' <=> TableTypes' /\ MatchTypes')
BY DEF TypeOK, TableTypes, MatchTypes, ConnRecords

\* What is put into the table of connections.
LEMMA ConnRecordsMade ==
  /\ \A s \in Humans : NewConn(s) \in ConnRecords
  /\ Refused \in ConnRecords
  /\ \A k \in ConnRecords : Replaced(k) \in ConnRecords
<1>1. 0 \in 0 .. MaxViolations + 1
  BY Parameters
<1>2. \A s \in Humans : NewConn(s) \in ConnRecords
  BY <1>1 DEF NewConn, ConnRecords
<1>3. Refused \in ConnRecords
  BY <1>1 DEF Refused, ConnRecords
<1>4. \A k \in ConnRecords : Replaced(k) \in ConnRecords
  BY DEF Replaced, ConnRecords
<1> QED
  BY <1>2, <1>3, <1>4

\* Every step keeps the types of the tables.
LEMMA TableTypesKept ==
  ASSUME TypeOK, TablesInv, FileInv, [Next]_vars
  PROVE  TableTypes'
<1>0. TableTypes /\ MaxTokens \in Nat
  BY Parameters, TypesInTwo
<1>a. issued \in Nat
  BY <1>0 DEF TableTypes
<1>1. ASSUME NEW c \in ConnIds, NEW t \in 0 .. issued, Reconnect(c, t) PROVE TableTypes'
  <2> DEFINE s == CHOOSE s \in Holders(t) : TRUE
  <2>1. s \in Humans
    BY <1>1 DEF Reconnect, Holders
  <2>2. /\ open' = open \cup {c} /\ token' = token /\ issued' = issued
        /\ conns' = [x \in DOMAIN conns \cup {c} |->
                      IF x = c THEN NewConn(s) ELSE IF x = conn[s] THEN Replaced(conns[x]) ELSE conns[x]]
        /\ conn' = [conn EXCEPT ![s] = c]
    BY <1>1 DEF Reconnect, Appears
  <2> HIDE DEF s
  <2>3. \A x \in DOMAIN conns' : conns'[x] \in ConnRecords
    BY <1>0, <2>1, <2>2, ConnRecordsMade DEF TableTypes
  <2> QED
    BY <1>0, <2>1, <2>2, <2>3 DEF TableTypes
<1>2. ASSUME NEW c \in ConnIds, NEW t \in 0 .. issued, TurnAway(c, t) PROVE TableTypes'
  <2>1. /\ open' = open \cup {c} /\ UNCHANGED <<token, conn, issued>>
        /\ conns' = [x \in DOMAIN conns \cup {c} |-> IF x = c THEN Refused ELSE conns[x]]
    BY <1>2 DEF TurnAway, Appears, seatVars
  <2>2. \A x \in DOMAIN conns' : conns'[x] \in ConnRecords
    BY <1>0, <2>1, ConnRecordsMade DEF TableTypes
  <2> QED
    BY <1>0, <2>1, <2>2 DEF TableTypes
<1>3. ASSUME NEW c \in ConnIds, NEW t \in 0 .. issued, Join(c, t) PROVE TableTypes'
  <2> DEFINE s == CHOOSE s \in FreeSeats : \A r \in FreeSeats : s <= r
  <2>1. s \in Humans
    BY <1>3, FirstFreeSeat DEF Join, FreeSeats
  <2>2. /\ open' = open \cup {c} /\ issued' = issued + 1 /\ issued < MaxTokens
        /\ token' = [token EXCEPT ![s] = issued + 1]
        /\ conns' = [x \in DOMAIN conns \cup {c} |-> IF x = c THEN NewConn(s) ELSE conns[x]]
        /\ conn' = [conn EXCEPT ![s] = c]
    BY <1>3 DEF Join, Appears
  <2> HIDE DEF s
  <2>3. \A x \in DOMAIN conns' : conns'[x] \in ConnRecords
    BY <1>0, <2>1, <2>2, ConnRecordsMade DEF TableTypes
  <2>4. token' \in [Humans -> 0 .. issued'] /\ issued' \in 0 .. MaxTokens
    BY <1>0, <1>a, <2>1, <2>2 DEF TableTypes
  <2> QED
    BY <1>0, <2>1, <2>2, <2>3, <2>4 DEF TableTypes
<1>4. ASSUME NEW c \in ConnIds, Disconnect(c) PROVE TableTypes'
  <2>1. open' = open \ {c} /\ issued' = issued
    BY <1>4 DEF Disconnect
  <2>2. CASE c \notin DOMAIN conns
    BY <1>0, <1>4, <2>1, <2>2 DEF Disconnect, seatVars, TableTypes
  <2>3. CASE c \in DOMAIN conns
    <3> DEFINE mine == {s \in Humans : s = conns[c].seat /\ conn[s] = c}
    <3>1. /\ conns' = [x \in DOMAIN conns \ {c} |-> conns[x]]
          /\ conn' = [s \in Humans |-> IF s \in mine THEN None ELSE conn[s]]
          /\ token' = [s \in Humans |-> IF s \in mine /\ state = "Lobby" THEN 0 ELSE token[s]]
      BY <1>4, <2>3 DEF Disconnect
    <3> HIDE DEF mine
    <3> QED
      BY <1>0, <1>a, <2>1, <3>1 DEF TableTypes
  <2> QED
    BY <2>2, <2>3
<1>5. ASSUME NEW c \in ConnIds, Violation(c) PROVE TableTypes'
  <2> DEFINE n == conns[c].violations + 1
  <2>1. c \in DOMAIN conns /\ conns[c].violations \in 0 .. MaxViolations
    BY <1>5, HeardAreSeated DEF Violation
  <2>2. conns' = [conns EXCEPT ![c] = [conns[c] EXCEPT !.violations = n, !.closing = n > MaxViolations]]
        /\ UNCHANGED <<token, conn, open, issued>>
    BY <1>5 DEF Violation, seatVars
  <2>3. n \in 0 .. MaxViolations + 1
    BY <2>1, Parameters
  <2> HIDE DEF n
  <2>4. (n > MaxViolations) \in BOOLEAN
    OBVIOUS
  <2>5. [conns[c] EXCEPT !.violations = n, !.closing = n > MaxViolations] \in ConnRecords
    BY <1>0, <2>1, <2>3, <2>4 DEF TableTypes, ConnRecords
  <2> QED
    BY <1>0, <2>1, <2>2, <2>5 DEF TableTypes
<1>6. ASSUME UNCHANGED <<conns, conn, token, open, issued>> PROVE TableTypes'
  BY <1>0, <1>6 DEF TableTypes
<1>7. ASSUME NEW c \in ConnIds, Act(c) \/ GetState(c) PROVE TableTypes'
  BY <1>6, <1>7 DEF Act, GetState, seatVars
<1>8. CASE Tick \/ Wind \/ StartAfresh \/ UNCHANGED vars
  BY <1>6, <1>8 DEF Tick, Wind, StartAfresh, vars, seatVars
<1>9. CASE ResetToLobby \/ Crash
  <2>1. Emptied /\ issued' = issued /\ (open' = open \/ open' = {})
    BY <1>9 DEF ResetToLobby, Crash
  <2>2. DOMAIN conns' = {} /\ token' = [s \in Humans |-> 0] /\ conn' = [s \in Humans |-> None]
    BY <2>1 DEF Emptied, NoOne
  <2> QED
    BY <1>0, <1>a, <2>1, <2>2 DEF TableTypes
<1>10. CASE Resume
  <2>1. token' = saved.token /\ UNCHANGED <<conn, conns, open, issued>> /\ saved # None
    BY <1>10 DEF Resume
  <2>2. saved.token \in [Humans -> 0 .. issued]
    BY <2>1 DEF FileInv
  <2> QED
    BY <1>0, <2>1, <2>2 DEF TableTypes
<1> QED
  BY <1>1, <1>2, <1>3, <1>4, <1>5, <1>7, <1>8, <1>9, <1>10 DEF Next, Connects, Sends

\* What is written of a match can be read again.
LEMMA RestartPointTyped ==
  ASSUME NEW m \in Matches, NEW n \in Nat, NEW t \in [Humans -> 0 .. n], NEW acted \in [Bots -> 0 .. MaxRound]
  PROVE  /\ RestartPoint(m, t, acted) \in RestartPoints /\ RestartPoint(m, t, acted) # None
         /\ RestartPoint(m, t, acted).match = m /\ RestartPoint(m, t, acted).token = t
         /\ RestartPoint(m, t, acted).lastActed = acted
<1>1. t \in [Humans -> Nat]
  OBVIOUS
<1> QED
  BY <1>1, Parameters DEF RestartPoint, RestartPoints

\* The tick of a running match, as one formula: the engine leaves n, the bots m.
LEMMA TickSteps ==
  ASSUME TypeOK, FileInv, Tick
  PROVE  \E n \in Matches, m \in Matches :
           /\ Stepped(match, n) /\ Acted(n, m) /\ match' = m
           /\ lastActed' = [b \in Bots |-> IF b \in Plays(n) THEN n.round ELSE lastActed[b]]
           /\ fights' = IF n.phase # match.phase /\ n.phase = "Combat" THEN n.round ELSE fights
           /\ state' = IF n.phase = "MatchOver" THEN "Finished" ELSE "Running"
           /\ saved' = SavedAfter(match, n)
           /\ finishedTicks' = IF n.phase = "MatchOver" THEN 0 ELSE finishedTicks
           /\ resumed' = (resumed /\ ~ (n.phase # match.phase))
           /\ UNCHANGED <<token, conn, conns, open, issued, crashes>>
<1>1. match \in Matches /\ match.phase # "MatchOver" /\ state = "Running"
  BY DEF TypeOK, FileInv, Tick
<1>2. PICK n \in Ticked(match) : \E m \in BotsActed(n) :
           /\ match' = m
           /\ lastActed' = [b \in Bots |-> IF b \in Plays(n) THEN n.round ELSE lastActed[b]]
           /\ fights' = IF n.phase # match.phase /\ n.phase = "Combat" THEN n.round ELSE fights
           /\ state' = IF n.phase = "MatchOver" THEN "Finished" ELSE state
           /\ saved' = SavedAfter(match, n)
           /\ finishedTicks' = IF n.phase = "MatchOver" THEN 0 ELSE finishedTicks
           /\ resumed' = (resumed /\ ~ (n.phase # match.phase))
  BY DEF Tick
<1>8. PICK m \in BotsActed(n) :
           /\ match' = m
           /\ lastActed' = [b \in Bots |-> IF b \in Plays(n) THEN n.round ELSE lastActed[b]]
           /\ fights' = IF n.phase # match.phase /\ n.phase = "Combat" THEN n.round ELSE fights
           /\ state' = IF n.phase = "MatchOver" THEN "Finished" ELSE state
           /\ saved' = SavedAfter(match, n)
           /\ finishedTicks' = IF n.phase = "MatchOver" THEN 0 ELSE finishedTicks
           /\ resumed' = (resumed /\ ~ (n.phase # match.phase))
  BY <1>2
<1>3. Stepped(match, n)
  BY <1>1, EngineSteps
<1>4. n \in Matches
  BY <1>3 DEF Stepped
<1>5. Acted(n, m)
  BY <1>4, BotsStep
<1>6. m \in Matches
  BY <1>5 DEF Acted
<1>7. UNCHANGED <<token, conn, conns, open, issued, crashes>>
  BY DEF Tick, seatVars
<1> QED
  BY <1>1, <1>3, <1>4, <1>5, <1>6, <1>7, <1>8

-----------------------------------------------------------------------------
(* The match, the file and the bots.                                       *)

\* What bots have done, and will have done when the fights begin.
BotsInv ==
  /\ saved # None => saved.lastActed = saved.match.played
  /\ state = "Running" /\ match.phase = "Planning" /\ match.ticks > 0 => \A b \in Bots \ match.out : lastActed[b] = match.round
  /\ state = "Running" /\ match.phase = "Planning" /\ match.round # 1 /\ ~ resumed => Plays(match) = {}
  /\ BotsPlayEveryRound

MatchInv == MatchTypes /\ FileInv /\ BotsInv

\* Seats, connections and messages leave match, file and bots alone.
LEMMA MatchUntouched ==
  ASSUME MatchInv, UNCHANGED <<match, lastActed, fights, saved, resumed, crashes>>,
         state' = state \/ (state = "Down" /\ state' = "Lobby" /\ saved = None),
         finishedTicks' \in 0 .. PostMatchTicks,
         issued \in Nat, issued' \in {issued, issued + 1}, state = "Running" => token' = token
  PROVE  MatchInv'
<1>1. MatchTypes'
  BY DEF MatchInv, MatchTypes
<1>2. FileInv'
  BY DEF MatchInv, FileInv, RestartPointIsOfThisMatch
<1>3. BotsInv'
  BY DEF MatchInv, BotsInv, BotsPlayEveryRound, Plays
<1> QED
  BY <1>1, <1>2, <1>3 DEF MatchInv

\* The last seat is taken: the match starts and, unless with gifts, is written down.
LEMMA MatchStarted ==
  ASSUME MatchInv, state = "Lobby", NEW board \in Boards, NEW at,
         issued' \in Nat, token' \in [Humans -> 0 .. issued'],
         StartMatch(token', at, NewMatch([s \in Humans |-> 0], board)),
         UNCHANGED <<finishedTicks, crashes, resumed>>
  PROVE  MatchInv'
<1> DEFINE m == NewMatch([s \in Humans |-> 0], board)
<1>1. /\ m \in Matches /\ m.phase \in {"MotherNature", "Planning"} /\ m.round = 1 /\ m.ticks = 0
      /\ m.out = {} /\ m.played = Unplayed
  BY OpeningMatch
<1>2. /\ state' = "Running" /\ match' = m /\ fights' = 0 /\ lastActed' = Unplayed
      /\ saved' = IF m.phase = "Planning" THEN RestartPoint(m, token', Unplayed) ELSE saved
  BY DEF StartMatch
<1> HIDE DEF m
<1>3. Unplayed \in [Bots -> 0 .. MaxRound]
  BY Parameters DEF Unplayed
<1>4. /\ RestartPoint(m, token', Unplayed) \in RestartPoints /\ RestartPoint(m, token', Unplayed) # None
      /\ RestartPoint(m, token', Unplayed).match = m /\ RestartPoint(m, token', Unplayed).token = token'
      /\ RestartPoint(m, token', Unplayed).lastActed = Unplayed
  BY <1>1, <1>3, RestartPointTyped
<1>5. saved = None
  BY DEF MatchInv, FileInv, RestartPointIsOfThisMatch
<1>6. MatchTypes'
  BY <1>1, <1>2, <1>3, <1>4, <1>5, Parameters DEF MatchInv, MatchTypes
<1>7. FileInv'
  BY <1>1, <1>2, <1>4, <1>5 DEF FileInv, RestartPointIsOfThisMatch
<1>8. BotsInv'
  BY <1>1, <1>2, <1>4, <1>5 DEF BotsInv, BotsPlayEveryRound
<1> QED
  BY <1>6, <1>7, <1>8 DEF MatchInv

\* A command changes only what its player owns or shows.
LEMMA ActSteps ==
  ASSUME TypeOK, TablesInv, NEW c \in ConnIds, Act(c)
  PROVE  /\ match \in Matches /\ match' \in Matches /\ Running
         /\ match'.phase = match.phase /\ match'.round = match.round /\ match'.ticks = match.ticks
         /\ match'.out = match.out /\ match'.played = match.played
         /\ \A b \in Bots : match'.board[b] = match.board[b]
<1> DEFINE s == conns[c].seat
<1>1. s \in Humans
  BY HeardAreSeated DEF Act
<1>2. Running /\ match \in Matches
  BY MatchIsThere DEF Act
<1> HIDE DEF s
<1>3. CASE match' = match
  BY <1>2, <1>3
<1>4. CASE match' # match
  <2>1. PICK own \in Values, board \in Values :
          s \in Followed /\ match' = [match EXCEPT !.own[s] = own, !.board[s] = board]
    BY <1>4 DEF Act, s
  <2> DEFINE owns == [match.own EXCEPT ![s] = own]
             boards == [match.board EXCEPT ![s] = board]
  <2>2. match' = [match EXCEPT !.own = owns, !.board = boards]
    BY <1>2, <2>1 DEF Matches
  <2>3. owns \in Owns
    BY <1>1, <1>2, <2>1 DEF Matches, Owns
  <2>4. boards \in Boards /\ \A b \in Bots : boards[b] = match.board[b]
    BY <1>1, <1>2, <2>1, SeatsAreShared DEF Matches, Boards
  <2> HIDE DEF owns, boards
  <2> QED
    BY <1>2, <2>2, <2>3, <2>4 DEF Matches
<1> QED
  BY <1>3, <1>4

\* A command that changes what a player owns or shows keeps match, file and bots as they should be.
LEMMA MatchPlayed ==
  ASSUME MatchInv, NEW m \in Matches, match' = m, Running,
         m.phase = match.phase, m.round = match.round, m.ticks = match.ticks, m.out = match.out, m.played = match.played,
         UNCHANGED <<state, token, lastActed, fights, finishedTicks, saved, issued, crashes, resumed>>
  PROVE  MatchInv'
<1>1. MatchTypes'
  BY Parameters DEF MatchInv, MatchTypes, Running
<1>2. FileInv'
  BY DEF MatchInv, FileInv, RestartPointIsOfThisMatch
<1>3. BotsInv'
  BY DEF MatchInv, BotsInv, BotsPlayEveryRound, Plays
<1> QED
  BY <1>1, <1>2, <1>3 DEF MatchInv

\* A tick: planning is written down as it begins, the bots play it at once or, resumed, in the
\* first tick of the new process, and the file is gone with the match.
LEMMA MatchTicked ==
  ASSUME TypeOK, MatchInv, Tick
  PROVE  MatchInv'
<1>1. PICK n \in Matches, m \in Matches :
           /\ Stepped(match, n) /\ Acted(n, m) /\ match' = m
           /\ lastActed' = [b \in Bots |-> IF b \in Plays(n) THEN n.round ELSE lastActed[b]]
           /\ fights' = IF n.phase # match.phase /\ n.phase = "Combat" THEN n.round ELSE fights
           /\ state' = IF n.phase = "MatchOver" THEN "Finished" ELSE "Running"
           /\ saved' = SavedAfter(match, n)
           /\ finishedTicks' = IF n.phase = "MatchOver" THEN 0 ELSE finishedTicks
           /\ resumed' = (resumed /\ ~ (n.phase # match.phase))
           /\ UNCHANGED <<token, conn, conns, open, issued, crashes>>
  BY TickSteps DEF MatchInv
<1>2. match \in Matches /\ state = "Running" /\ match.phase # "MatchOver"
  BY DEF TypeOK, Tick, MatchInv, FileInv
<1>3. /\ match.round \in 1 .. MaxRound /\ match.ticks \in Nat /\ n.round \in 1 .. MaxRound /\ n.ticks \in Nat
      /\ match.out \subseteq Bots /\ 1 .. MaxRound \subseteq Nat /\ 0 \in 0 .. MaxRound /\ 1 .. MaxRound \subseteq 0 .. MaxRound
  BY <1>2, Parameters DEF Matches
<1>4. /\ lastActed \in [Bots -> 0 .. MaxRound] /\ fights \in 0 .. MaxRound /\ finishedTicks \in 0 .. PostMatchTicks
      /\ saved \in RestartPoints \cup {None} /\ token \in [Humans -> 0 .. issued] /\ issued \in Nat
  BY Parameters DEF TypeOK
<1>5. /\ m.phase = n.phase /\ m.round = n.round /\ m.ticks = n.ticks /\ m.out = n.out
      /\ m.played = [b \in Bots |-> IF b \in Plays(n) THEN n.round ELSE n.played[b]]
      /\ n.played = match.played
  BY <1>1 DEF Acted, Stepped
<1>6. match.played = lastActed
  <2>1. match.played \in [Bots -> 0 .. MaxRound] /\ \A b \in Bots : match.played[b] = lastActed[b]
    BY <1>2 DEF Matches, MatchInv, BotsInv, BotsPlayEveryRound
  <2> QED
    BY <1>4, <2>1
<1>7. m.played = lastActed'
  BY <1>1, <1>5, <1>6
<1>8. /\ RestartPoint(n, token, lastActed) \in RestartPoints /\ RestartPoint(n, token, lastActed) # None
      /\ RestartPoint(n, token, lastActed).match = n /\ RestartPoint(n, token, lastActed).token = token
      /\ RestartPoint(n, token, lastActed).lastActed = lastActed
  BY <1>4, RestartPointTyped
<1>9. saved' = IF n.phase = "Planning" /\ match.phase # "Planning" THEN RestartPoint(n, token, lastActed)
               ELSE IF n.phase = "MatchOver" THEN None ELSE saved
  BY <1>1 DEF SavedAfter, EnteredPlanning
<1>10. MatchTypes'
  <2>1. lastActed' \in [Bots -> 0 .. MaxRound]
    BY <1>1, <1>3, <1>4
  <2>2. match' \in Matches /\ match' # None
    BY <1>1, Parameters
  <2>3. saved' \in RestartPoints \cup {None}
    BY <1>4, <1>8, <1>9
  <2>4. fights' \in 0 .. MaxRound /\ finishedTicks' \in 0 .. PostMatchTicks
    BY <1>1, <1>3, <1>4, Parameters
  <2>5. resumed' \in BOOLEAN /\ crashes' \in 0 .. MaxCrashes
    BY <1>1 DEF MatchInv, MatchTypes
  <2> QED
    BY <1>1, <2>1, <2>2, <2>3, <2>4, <2>5 DEF MatchTypes
<1>11. FileInv'
  <2>1. /\ saved # None => saved.match.phase = "Planning" /\ saved.match.ticks = 0 /\ saved.token \in [Humans -> 0 .. issued]
        /\ match.phase = "MotherNature" /\ saved # None => saved.match.round = match.round - 1
        /\ match.phase \in {"Planning", "Combat", "Resolution"} => saved # None /\ saved.match.round = match.round
        /\ saved # None => saved.token = token /\ saved.match.round \in match.round - 1 .. match.round
    BY <1>2 DEF MatchInv, FileInv, RestartPointIsOfThisMatch
  <2>2. CASE n.phase = "Planning" /\ match.phase # "Planning"
    <3>1. saved' = RestartPoint(n, token, lastActed) /\ n.ticks = 0
      BY <1>1, <1>9, <2>2 DEF Stepped
    <3> QED
      BY <1>1, <1>3, <1>4, <1>5, <1>8, <2>2, <3>1 DEF FileInv, RestartPointIsOfThisMatch
  <2>3. CASE n.phase = "MatchOver"
    BY <1>1, <1>9, <2>3 DEF FileInv, RestartPointIsOfThisMatch
  <2>4. CASE n.phase # "MatchOver" /\ ~ (n.phase = "Planning" /\ match.phase # "Planning")
    <3>1. saved' = saved /\ state' = "Running"
      BY <1>1, <1>9, <2>4
    <3>2. \/ n.round = match.round /\ (n.phase = "MotherNature" => match.phase = "MotherNature")
             /\ (n.phase \in {"Planning", "Combat", "Resolution"} => match.phase \in {"Planning", "Combat", "Resolution"})
          \/ n.round = match.round + 1 /\ match.phase = "Resolution" /\ n.phase = "MotherNature"
      BY <1>1, <2>4 DEF Stepped
    <3> QED
      BY <1>1, <1>3, <1>5, <2>1, <2>4, <3>1, <3>2 DEF FileInv, RestartPointIsOfThisMatch
  <2> QED
    BY <2>2, <2>3, <2>4
<1>12. BotsInv'
  <2>1. saved' # None => saved'.lastActed = saved'.match.played
    BY <1>5, <1>6, <1>8, <1>9 DEF MatchInv, BotsInv
  <2>2. \A b \in Bots \ n.out : n.phase = "Planning" => lastActed'[b] = n.round
    BY <1>1, <1>4 DEF Plays
  <2>3. n.phase = "Combat" => match.phase = "Planning" /\ match.ticks > 0 /\ n.round = match.round /\ n.out = match.out
                              /\ Plays(n) = {}
    BY <1>1 DEF Stepped, Plays
  <2>4. n.phase = "Combat" => \A b \in Bots \ n.out : lastActed'[b] = n.round
    <3> SUFFICES ASSUME n.phase = "Combat", NEW b \in Bots \ n.out PROVE lastActed'[b] = n.round
      OBVIOUS
    <3>1. lastActed[b] = match.round
      BY <1>2, <2>3 DEF MatchInv, BotsInv
    <3> QED
      BY <1>1, <2>3, <3>1
  <2>5. n.phase = "Planning" => Plays(match)' = {}
    <3>1. Plays(match)' = {b \in Bots \ m.out : m.phase = "Planning" /\ lastActed'[b] # m.round}
      BY <1>1 DEF Plays
    <3> QED
      BY <1>5, <2>2, <3>1
  <2>6. \A b \in Bots : m.played[b] = lastActed'[b]
    BY <1>7
  <2> QED
    BY <1>1, <1>5, <2>1, <2>2, <2>4, <2>5, <2>6 DEF BotsInv, BotsPlayEveryRound
<1> QED
  BY <1>10, <1>11, <1>12 DEF MatchInv

\* The result has been shown, or the process died.
LEMMA MatchGone ==
  ASSUME TypeOK, MatchInv, Emptied, UNCHANGED <<saved, issued>>,
         \/ state = "Finished" /\ state' = "Lobby" /\ UNCHANGED <<finishedTicks, crashes, resumed>>
         \/ state' = "Down" /\ finishedTicks' = 0 /\ crashes' = crashes + 1 /\ crashes < MaxCrashes /\ resumed' = FALSE
  PROVE  MatchInv'
<1>1. match' = None /\ lastActed' = Unplayed /\ fights' = 0
  BY DEF Emptied
<1>2. Unplayed \in [Bots -> 0 .. MaxRound] /\ 0 \in 0 .. MaxRound /\ 0 \in 0 .. PostMatchTicks
  BY Parameters DEF Unplayed
<1>3. MatchTypes'
  <2>a. crashes \in 0 .. MaxCrashes /\ resumed \in BOOLEAN /\ MaxCrashes \in Nat
    BY Parameters DEF MatchInv, MatchTypes
  <2>b. state' \in {"Down", "Lobby"} /\ resumed' \in BOOLEAN
    BY <2>a
  <2>c. crashes' \in 0 .. MaxCrashes
    <3>1. crashes' = crashes \/ (crashes' = crashes + 1 /\ crashes < MaxCrashes)
      OBVIOUS
    <3> QED
      BY ONLY <2>a, <3>1
  <2>1. state' \in {"Down", "Lobby"} /\ crashes' \in 0 .. MaxCrashes /\ resumed' \in BOOLEAN
    BY <2>b, <2>c
  <2>2. finishedTicks' \in 0 .. PostMatchTicks /\ saved' \in RestartPoints \cup {None}
    BY <1>2 DEF MatchInv, MatchTypes
  <2> QED
    BY <1>1, <1>2, <2>1, <2>2 DEF MatchTypes
<1>4. FileInv'
  BY <1>1 DEF MatchInv, FileInv, RestartPointIsOfThisMatch
<1>5. BotsInv'
  BY <1>1 DEF MatchInv, BotsInv, BotsPlayEveryRound
<1> QED
  BY <1>3, <1>4, <1>5 DEF MatchInv

\* A new process takes up the match where it was written down.
LEMMA MatchResumed ==
  ASSUME TypeOK, MatchInv, Resume
  PROVE  MatchInv'
<1>1. /\ saved \in RestartPoints /\ saved' = saved /\ state' = "Running" /\ match' = saved.match
      /\ token' = saved.token /\ lastActed' = saved.lastActed /\ resumed' = TRUE
      /\ UNCHANGED <<fights, finishedTicks, issued, crashes>>
  BY DEF Resume, TypeOK
<1>2. saved.match \in Matches /\ saved.lastActed \in [Bots -> 0 .. MaxRound] /\ saved # None /\ saved.match # None
  BY <1>1, Parameters DEF RestartPoints
<1>3. saved.match.phase = "Planning" /\ saved.match.ticks = 0 /\ saved.token \in [Humans -> 0 .. issued]
      /\ saved.lastActed = saved.match.played
  BY <1>2 DEF MatchInv, FileInv, BotsInv
<1>4. saved.match.round \in Nat
  BY <1>2, Parameters DEF Matches
<1>5. MatchTypes'
  BY <1>1, <1>2 DEF MatchInv, MatchTypes
<1>6. FileInv'
  BY <1>1, <1>2, <1>3, <1>4 DEF FileInv, RestartPointIsOfThisMatch
<1>7. BotsInv'
  BY <1>1, <1>3 DEF BotsInv, BotsPlayEveryRound
<1> QED
  BY <1>5, <1>6, <1>7 DEF MatchInv

\* Every step does.
LEMMA MatchKept ==
  ASSUME TypeOK, TablesInv, MatchInv, TableTypes', [Next]_vars
  PROVE  MatchInv'
<1>0. /\ issued \in Nat /\ token \in [Humans -> 0 .. issued] /\ finishedTicks \in 0 .. PostMatchTicks /\ PostMatchTicks \in Nat
      /\ token' \in [Humans -> 0 .. issued'] /\ issued' \in Nat
  BY Parameters DEF TypeOK, TableTypes
<1>1. ASSUME NEW c \in ConnIds, NEW t, Reconnect(c, t) \/ TurnAway(c, t) PROVE MatchInv'
  BY <1>0, <1>1, MatchUntouched DEF Reconnect, TurnAway, seatVars
<1>2. ASSUME NEW c \in ConnIds, NEW t, Join(c, t) PROVE MatchInv'
  <2>1. issued' = issued + 1 /\ state = "Lobby" /\ UNCHANGED <<finishedTicks, crashes, resumed>>
    BY <1>2 DEF Join
  <2>2. CASE Taken(token') = Cardinality(Humans)
    <3>1. PICK board \in Boards : StartMatch(token', conn', NewMatch([s \in Humans |-> 0], board))
      BY <1>2, <2>2 DEF Join
    <3> QED
      BY <1>0, <2>1, <3>1, MatchStarted
  <2>3. CASE Taken(token') # Cardinality(Humans)
    <3>1. UNCHANGED <<state, match, lastActed, fights, saved>>
      BY <1>2, <2>3 DEF Join
    <3> QED
      BY <1>0, <2>1, <3>1, MatchUntouched
  <2> QED
    BY <2>2, <2>3
<1>3. ASSUME NEW c \in ConnIds, Disconnect(c) PROVE MatchInv'
  <2>1. UNCHANGED <<state, match, lastActed, fights, finishedTicks, saved, issued, crashes, resumed>>
    BY <1>3 DEF Disconnect
  <2>2. state = "Running" => token' = token
    <3>1. CASE c \notin DOMAIN conns
      BY <1>3, <3>1 DEF Disconnect, seatVars
    <3>2. CASE c \in DOMAIN conns
      <4>1. PICK mine : token' = [s \in Humans |-> IF s \in mine /\ state = "Lobby" THEN 0 ELSE token[s]]
        BY <1>3, <3>2 DEF Disconnect
      <4> QED
        BY <1>0, <4>1
    <3> QED
      BY <3>1, <3>2
  <2> QED
    BY <1>0, <2>1, <2>2, MatchUntouched
<1>4. ASSUME NEW c \in ConnIds, Violation(c) \/ GetState(c) PROVE MatchInv'
  BY <1>0, <1>4, MatchUntouched DEF Violation, GetState, seatVars
<1>5. ASSUME NEW c \in ConnIds, Act(c) PROVE MatchInv'
  <2>1. UNCHANGED <<state, token, lastActed, fights, finishedTicks, saved, issued, crashes, resumed>>
    BY <1>5 DEF Act, seatVars
  <2>2. /\ match \in Matches /\ match' \in Matches /\ Running
        /\ match'.phase = match.phase /\ match'.round = match.round /\ match'.ticks = match.ticks
        /\ match'.out = match.out /\ match'.played = match.played
    BY <1>5, ActSteps
  <2> QED
    BY <2>1, <2>2, MatchPlayed
<1>6. CASE Tick
  BY <1>6, MatchTicked
<1>7. CASE Wind \/ StartAfresh \/ UNCHANGED vars
  <2>1. finishedTicks' \in 0 .. PostMatchTicks
    BY <1>0, <1>7 DEF Wind, StartAfresh, vars
  <2> QED
    BY <1>0, <1>7, <2>1, MatchUntouched DEF Wind, StartAfresh, vars, seatVars
<1>8. CASE ResetToLobby \/ Crash
  BY <1>8, MatchGone DEF ResetToLobby, Crash
<1>9. CASE Resume
  BY <1>9, MatchResumed
<1> QED
  BY <1>1, <1>2, <1>3, <1>4, <1>5, <1>6, <1>7, <1>8, <1>9 DEF Next, Connects, Sends

-----------------------------------------------------------------------------
(* What the players have been shown.                                       *)

\* A table of what every human seat has been shown.
Table(sh) ==
  sh = [s \in Humans |-> [private |-> sh[s].private, public |-> sh[s].public, fights |-> sh[s].fights, over |-> sh[s].over]]
Entries(f) == f = [s \in Humans |-> f[s]]

\* What was sent is what was shown, also while a resumed planning phase hides what the bots did.
SentInv ==
  /\ state = "Down" => lastPublic = None
  /\ resumed => state = "Running" /\ match.phase = "Planning"
  /\ Running =>
       /\ match.phase \in {"Combat", "Resolution"} => fights = match.round
       /\ \A s \in Humans : conn[s] # None => shown[s].private = lastPrivate[s]
       /\ ~ resumed => lastPublic = PublicState(match)
       /\ resumed =>
            /\ match.ticks = 0 => lastPublic \in {None, PublicState(match)}
            /\ lastPublic # None => lastPublic[1] = match.round /\ \A s \in Humans : lastPublic[2][s] = match.board[s]
            /\ lastPublic = PublicState(match) => \A s \in Humans : conn[s] # None => shown[s].public = lastPublic

ShownInv == Table(shown) /\ Entries(lastPrivate) /\ SentInv /\ OwnersAreUpToDate

\* SyncPrivate and SyncPublic: whoever is connected has afterwards been shown what there is now,
\* provided that what was recorded as sent was shown to them.
LEMMA SyncedTells ==
  ASSUME NEW m, NEW at, NEW lpr, NEW lpu, NEW sh, Table(sh),
         NEW new, new = Synced(m, at, [lastPrivate |-> lpr, lastPublic |-> lpu, shown |-> sh])
  PROVE  /\ new = [lastPrivate |-> new.lastPrivate, lastPublic |-> new.lastPublic, shown |-> new.shown]
         /\ Table(new.shown) /\ Entries(new.lastPrivate) /\ new.lastPublic = PublicState(m)
         /\ \A s \in Humans :
              /\ new.shown[s].fights = sh[s].fights /\ new.shown[s].over = sh[s].over
              /\ at[s] # None =>
                   /\ new.lastPrivate[s] = PrivateState(m, s)
                   /\ sh[s].private = lpr[s] => new.shown[s].private = PrivateState(m, s)
                   /\ (lpu = PublicState(m) => sh[s].public = lpu) => new.shown[s].public = PublicState(m)
<1> DEFINE told == [lastPrivate |-> lpr, lastPublic |-> lpu, shown |-> sh]
           private == {s \in Humans : at[s] # None /\ PrivateState(m, s) # lpr[s]}
           public  == PublicState(m) # lpu
           lpr2 == [s \in Humans |-> IF s \in private THEN PrivateState(m, s) ELSE lpr[s]]
           sh2 == [s \in Humans |->
                    [sh[s] EXCEPT !.private = IF s \in private THEN PrivateState(m, s) ELSE @,
                                  !.public = IF public /\ at[s] # None THEN PublicState(m) ELSE @]]
<1>1. new = [lastPrivate |-> lpr2, lastPublic |-> PublicState(m), shown |-> sh2]
  BY DEF Synced
<1>2. ASSUME NEW s \in Humans
      PROVE  sh2[s] = [private |-> IF s \in private THEN PrivateState(m, s) ELSE sh[s].private,
                       public |-> IF public /\ at[s] # None THEN PublicState(m) ELSE sh[s].public,
                       fights |-> sh[s].fights, over |-> sh[s].over]
  <2>1. sh[s] = [private |-> sh[s].private, public |-> sh[s].public, fights |-> sh[s].fights, over |-> sh[s].over]
    BY DEF Table
  <2> DEFINE a == IF s \in private THEN PrivateState(m, s) ELSE sh[s].private
             b == IF public /\ at[s] # None THEN PublicState(m) ELSE sh[s].public
  <2>2. sh2[s] = [sh[s] EXCEPT !.private = a, !.public = b]
    BY <2>1
  <2> HIDE DEF a, b, sh2
  <2>3. sh2[s] = [private |-> a, public |-> b, fights |-> sh[s].fights, over |-> sh[s].over]
    BY <2>1, <2>2
  <2> QED
    BY <2>3 DEF a, b
<1>a. ASSUME NEW s \in Humans
      PROVE  /\ sh2[s].private = IF s \in private THEN PrivateState(m, s) ELSE sh[s].private
             /\ sh2[s].public = IF public /\ at[s] # None THEN PublicState(m) ELSE sh[s].public
             /\ sh2[s].fights = sh[s].fights /\ sh2[s].over = sh[s].over
             /\ sh2[s] = [private |-> sh2[s].private, public |-> sh2[s].public, fights |-> sh2[s].fights, over |-> sh2[s].over]
  <2> DEFINE a == IF s \in private THEN PrivateState(m, s) ELSE sh[s].private
             b == IF public /\ at[s] # None THEN PublicState(m) ELSE sh[s].public
  <2>1. sh2[s] = [private |-> a, public |-> b, fights |-> sh[s].fights, over |-> sh[s].over]
    BY <1>2
  <2> HIDE DEF sh2, a, b
  <2>2. /\ sh2[s].private = a /\ sh2[s].public = b
        /\ sh2[s].fights = sh[s].fights /\ sh2[s].over = sh[s].over
        /\ sh2[s] = [private |-> sh2[s].private, public |-> sh2[s].public, fights |-> sh2[s].fights, over |-> sh2[s].over]
    BY <2>1
  <2> QED
    BY <2>2 DEF a, b
<1>3. Table(sh2)
  <2> DEFINE g == [s \in Humans |-> [private |-> sh2[s].private, public |-> sh2[s].public,
                                     fights |-> sh2[s].fights, over |-> sh2[s].over]]
  <2>1. \A s \in Humans : sh2[s] = g[s]
    <3> SUFFICES ASSUME NEW s \in Humans PROVE sh2[s] = g[s]
      OBVIOUS
    <3>1. g[s] = [private |-> sh2[s].private, public |-> sh2[s].public,
                                     fights |-> sh2[s].fights, over |-> sh2[s].over]
      OBVIOUS
    <3> HIDE DEF sh2, g
    <3> QED
      BY <1>a, <3>1
  <2>2. sh2 = g
    BY <2>1
  <2> QED
    BY <2>2 DEF Table
<1>4. Entries(lpr2)
  BY DEF Entries
<1>5. \A s \in Humans : lpr2[s] = IF s \in private THEN PrivateState(m, s) ELSE lpr[s]
  OBVIOUS
<1>6. \A s \in Humans : s \in private <=> at[s] # None /\ PrivateState(m, s) # lpr[s]
  OBVIOUS
<1> HIDE DEF private, lpr2, sh2
<1>7. ASSUME NEW s \in Humans
      PROVE  /\ sh2[s].fights = sh[s].fights /\ sh2[s].over = sh[s].over
             /\ at[s] # None =>
                  /\ lpr2[s] = PrivateState(m, s)
                  /\ sh[s].private = lpr[s] => sh2[s].private = PrivateState(m, s)
                  /\ (lpu = PublicState(m) => sh[s].public = lpu) => sh2[s].public = PublicState(m)
  BY <1>a, <1>5, <1>6
<1> HIDE DEF told, public
<1>8. new.lastPrivate = lpr2 /\ new.lastPublic = PublicState(m) /\ new.shown = sh2
  BY <1>1
<1>9. new = [lastPrivate |-> new.lastPrivate, lastPublic |-> new.lastPublic, shown |-> new.shown]
  BY <1>1, <1>8
<1>10. Table(new.shown) /\ Entries(new.lastPrivate) /\ new.lastPublic = PublicState(m)
  BY <1>3, <1>4, <1>8
<1>11. \A s \in Humans :
                  /\ new.shown[s].fights = sh[s].fights /\ new.shown[s].over = sh[s].over
                  /\ at[s] # None =>
                       /\ new.lastPrivate[s] = PrivateState(m, s)
                       /\ sh[s].private = lpr[s] => new.shown[s].private = PrivateState(m, s)
                       /\ (lpu = PublicState(m) => sh[s].public = lpu) => new.shown[s].public = PublicState(m)
  BY <1>7, <1>8
<1> QED
  BY <1>9, <1>10, <1>11

\* The seats S are shown the fights, or the result, too.
WithFights(sh, S, x) == [s \in Humans |-> IF s \in S THEN [sh[s] EXCEPT !.fights = x] ELSE sh[s]]

\* A field of some entries is set.
LEMMA FightsSet ==
  ASSUME NEW sh, Table(sh), NEW S, NEW x
  PROVE  LET g == WithFights(sh, S, x) IN
         /\ Table(g)
         /\ \A s \in Humans : /\ g[s].private = sh[s].private /\ g[s].public = sh[s].public /\ g[s].over = sh[s].over
                              /\ g[s].fights = IF s \in S THEN x ELSE sh[s].fights
<1> DEFINE g == WithFights(sh, S, x)
<1>0. g = [s \in Humans |-> IF s \in S THEN [sh[s] EXCEPT !.fights = x] ELSE sh[s]]
  BY DEF WithFights
<1> HIDE DEF g
<1>1. ASSUME NEW s \in Humans
      PROVE  /\ sh[s] = [private |-> sh[s].private, public |-> sh[s].public, fights |-> sh[s].fights, over |-> sh[s].over]
             /\ [sh[s] EXCEPT !.fights = x] = [private |-> sh[s].private, public |-> sh[s].public, fights |-> x, over |-> sh[s].over]
  <2>1. sh[s] = [private |-> sh[s].private, public |-> sh[s].public, fights |-> sh[s].fights, over |-> sh[s].over]
    BY DEF Table
  <2> QED
    BY <2>1
<1>2. ASSUME NEW s \in Humans
      PROVE  /\ g[s].private = sh[s].private /\ g[s].public = sh[s].public /\ g[s].over = sh[s].over
             /\ g[s].fights = IF s \in S THEN x ELSE sh[s].fights
             /\ g[s] = [private |-> g[s].private, public |-> g[s].public, fights |-> g[s].fights, over |-> g[s].over]
  <2>1. g[s] = IF s \in S THEN [sh[s] EXCEPT !.fights = x] ELSE sh[s]
    BY <1>0
  <2> QED
    BY ONLY <1>1, <2>1
<1>3. g = [s \in Humans |-> g[s]]
  BY <1>0
<1> DEFINE h == [s \in Humans |-> [private |-> g[s].private, public |-> g[s].public, fights |-> g[s].fights, over |-> g[s].over]]
<1>4. \A s \in Humans : h[s] = g[s]
  BY <1>2
<1>5. h = g
  BY <1>3, <1>4
<1> QED
  BY <1>2, <1>5 DEF Table, g

WithOver(sh, S, x) == [s \in Humans |-> IF s \in S THEN [sh[s] EXCEPT !.over = x] ELSE sh[s]]

\* A field of some entries is set.
LEMMA OverSet ==
  ASSUME NEW sh, Table(sh), NEW S, NEW x
  PROVE  LET g == WithOver(sh, S, x) IN
         /\ Table(g)
         /\ \A s \in Humans : /\ g[s].private = sh[s].private /\ g[s].public = sh[s].public /\ g[s].fights = sh[s].fights
                              /\ g[s].over = IF s \in S THEN x ELSE sh[s].over
<1> DEFINE g == WithOver(sh, S, x)
<1>0. g = [s \in Humans |-> IF s \in S THEN [sh[s] EXCEPT !.over = x] ELSE sh[s]]
  BY DEF WithOver
<1> HIDE DEF g
<1>1. ASSUME NEW s \in Humans
      PROVE  /\ sh[s] = [private |-> sh[s].private, public |-> sh[s].public, fights |-> sh[s].fights, over |-> sh[s].over]
             /\ [sh[s] EXCEPT !.over = x] = [private |-> sh[s].private, public |-> sh[s].public, fights |-> sh[s].fights, over |-> x]
  <2>1. sh[s] = [private |-> sh[s].private, public |-> sh[s].public, fights |-> sh[s].fights, over |-> sh[s].over]
    BY DEF Table
  <2> QED
    BY <2>1
<1>2. ASSUME NEW s \in Humans
      PROVE  /\ g[s].private = sh[s].private /\ g[s].public = sh[s].public /\ g[s].fights = sh[s].fights
             /\ g[s].over = IF s \in S THEN x ELSE sh[s].over
             /\ g[s] = [private |-> g[s].private, public |-> g[s].public, fights |-> g[s].fights, over |-> g[s].over]
  <2>1. g[s] = IF s \in S THEN [sh[s] EXCEPT !.over = x] ELSE sh[s]
    BY <1>0
  <2> QED
    BY ONLY <1>1, <2>1
<1>3. g = [s \in Humans |-> g[s]]
  BY <1>0
<1> DEFINE h == [s \in Humans |-> [private |-> g[s].private, public |-> g[s].public, fights |-> g[s].fights, over |-> g[s].over]]
<1>4. \A s \in Humans : h[s] = g[s]
  BY <1>2
<1>5. h = g
  BY <1>3, <1>4
<1> QED
  BY <1>2, <1>5 DEF Table, g

\* What a tick sends.
Sent(n, m, reported) ==
  LET dirty == n.phase # match.phase \/ reported
      began == n.phase # match.phase /\ n.phase = "Combat"
  IN  /\ Table(shown') /\ Entries(lastPrivate')
      /\ lastPublic' = IF dirty THEN PublicState(m) ELSE lastPublic
      /\ \A s \in Humans : conn[s] # None =>
           /\ shown'[s].fights = IF began THEN n.round ELSE shown[s].fights
           /\ n.phase = "MatchOver" => shown'[s].over
           /\ dirty =>
                /\ lastPrivate'[s] = PrivateState(m, s)
                /\ shown[s].private = lastPrivate[s] => shown'[s].private = PrivateState(m, s)
                /\ (lastPublic = PublicState(m) => shown[s].public = lastPublic) => shown'[s].public = PublicState(m)
           /\ ~ dirty =>
                /\ lastPrivate'[s] = lastPrivate[s]
                /\ shown'[s].private = shown[s].private /\ shown'[s].public = shown[s].public

\* The fights as they begin, what changed, and the result: what a tick sends, seat by seat.
LEMMA TickTells ==
  ASSUME Table(shown), Entries(lastPrivate), NEW n, NEW m, NEW reported \in BOOLEAN,
       LET entered == n.phase # match.phase
           over    == n.phase = "MatchOver"
           began   == entered /\ n.phase = "Combat"
           dirty   == entered \/ reported
           told    == [Told EXCEPT !.shown = [s \in Humans |->
                         IF began /\ conn[s] # None THEN [shown[s] EXCEPT !.fights = n.round] ELSE shown[s]]]
           synced  == IF dirty THEN Synced(m, conn, told) ELSE told
       IN  Tell([synced EXCEPT !.shown = [s \in Humans |->
                      IF over /\ conn[s] # None THEN [synced.shown[s] EXCEPT !.over = TRUE] ELSE synced.shown[s]]])
  PROVE  Sent(n, m, reported)
<1> DEFINE entered == n.phase # match.phase
           over    == n.phase = "MatchOver"
           began   == entered /\ n.phase = "Combat"
           dirty   == entered \/ reported
           F       == {s \in Humans : began /\ conn[s] # None}
           O       == {s \in Humans : over /\ conn[s] # None}
           sh1     == WithFights(shown, F, n.round)
           told    == [lastPrivate |-> lastPrivate, lastPublic |-> lastPublic, shown |-> sh1]
           synced  == IF dirty THEN Synced(m, conn, told) ELSE told
           sh2     == synced.shown
           sh3     == WithOver(sh2, O, TRUE)
<1>1. sh1 = [s \in Humans |-> IF began /\ conn[s] # None THEN [shown[s] EXCEPT !.fights = n.round] ELSE shown[s]]
  BY DEF WithFights
<1>2. told = [Told EXCEPT !.shown = sh1]
  BY DEF Told
<1>3. sh3 = [s \in Humans |-> IF over /\ conn[s] # None THEN [sh2[s] EXCEPT !.over = TRUE] ELSE sh2[s]]
  BY DEF WithOver
<1>4. Tell([synced EXCEPT !.shown = sh3])
  BY <1>1, <1>2, <1>3
<1>5. /\ Table(sh1)
      /\ \A s \in Humans : /\ sh1[s].private = shown[s].private /\ sh1[s].public = shown[s].public /\ sh1[s].over = shown[s].over
                           /\ sh1[s].fights = IF s \in F THEN n.round ELSE shown[s].fights
  <2> HIDE DEF F
  <2> QED
    BY FightsSet
<1>6. \A s \in Humans : (s \in F <=> began /\ conn[s] # None) /\ (s \in O <=> over /\ conn[s] # None)
  OBVIOUS
<1>a. F \subseteq Humans /\ O \subseteq Humans
  OBVIOUS
<1> HIDE DEF F, O, sh1
<1>7. /\ synced = [lastPrivate |-> synced.lastPrivate, lastPublic |-> synced.lastPublic, shown |-> sh2]
      /\ Table(sh2) /\ Entries(synced.lastPrivate)
      /\ synced.lastPublic = IF dirty THEN PublicState(m) ELSE lastPublic
      /\ \A s \in Humans : sh2[s].fights = sh1[s].fights /\ sh2[s].over = sh1[s].over
      /\ dirty => \A s \in Humans : conn[s] # None =>
                       /\ synced.lastPrivate[s] = PrivateState(m, s)
                       /\ sh1[s].private = lastPrivate[s] => sh2[s].private = PrivateState(m, s)
                       /\ (lastPublic = PublicState(m) => sh1[s].public = lastPublic) => sh2[s].public = PublicState(m)
      /\ ~ dirty => sh2 = sh1 /\ synced.lastPrivate = lastPrivate
  <2>1. CASE dirty
    <3>1. synced = Synced(m, conn, told)
      BY <2>1
    <3> HIDE DEF dirty
    <3> QED
      BY <1>5, <2>1, <3>1, SyncedTells
  <2>2. CASE ~ dirty
    <3>1. synced = told
      BY <2>2
    <3> HIDE DEF dirty
    <3> QED
      BY <1>5, <2>2, <3>1
  <2> QED
    BY <2>1, <2>2
<1> HIDE DEF synced, sh2, told
<1>8. lastPrivate' = synced.lastPrivate /\ lastPublic' = synced.lastPublic /\ shown' = sh3
  <2>1. [synced EXCEPT !.shown = sh3] = [lastPrivate |-> synced.lastPrivate, lastPublic |-> synced.lastPublic, shown |-> sh3]
    <3>1. synced = [lastPrivate |-> synced.lastPrivate, lastPublic |-> synced.lastPublic, shown |-> sh2]
      BY <1>7
    <3> HIDE DEF sh3
    <3> QED
      BY ONLY <3>1
  <2> HIDE DEF sh3
  <2> QED
    BY <1>4, <2>1 DEF Tell
<1>9. /\ Table(sh3)
      /\ \A s \in Humans : /\ sh3[s].private = sh2[s].private /\ sh3[s].public = sh2[s].public /\ sh3[s].fights = sh2[s].fights
                           /\ s \in O => sh3[s].over
  <2>1. Table(sh2)
    BY <1>7
  <2>2. /\ Table(sh3)
        /\ \A s \in Humans : /\ sh3[s].private = sh2[s].private /\ sh3[s].public = sh2[s].public /\ sh3[s].fights = sh2[s].fights
                             /\ s \in O => sh3[s].over = TRUE
    <3> HIDE DEF sh3
    <3>1. PICK yes : yes = TRUE
      OBVIOUS
    <3>2. sh3 = WithOver(sh2, O, yes)
      BY ONLY <3>1, Zenon DEF sh3
    <3>3. /\ Table(sh3)
          /\ \A s \in Humans : /\ sh3[s].private = sh2[s].private /\ sh3[s].public = sh2[s].public /\ sh3[s].fights = sh2[s].fights
                               /\ sh3[s].over = IF s \in O THEN yes ELSE sh2[s].over
      BY ONLY <2>1, <3>2, OverSet
    <3> QED
      BY ONLY <3>1, <3>3
  <2> HIDE DEF sh3
  <2>3. \A s \in Humans : s \in O => sh3[s].over
    BY ONLY <2>2
  <2> QED
    BY ONLY <2>2, <2>3
<1> HIDE DEF sh3, began, over, dirty
<1>10. Table(shown') /\ Entries(lastPrivate') /\ lastPublic' = IF dirty THEN PublicState(m) ELSE lastPublic
  BY <1>7, <1>8, <1>9
<1>11. ASSUME NEW s \in Humans, conn[s] # None
       PROVE  /\ shown'[s].fights = IF began THEN n.round ELSE shown[s].fights
              /\ over => shown'[s].over
              /\ dirty =>
                   /\ lastPrivate'[s] = PrivateState(m, s)
                   /\ shown[s].private = lastPrivate[s] => shown'[s].private = PrivateState(m, s)
                   /\ (lastPublic = PublicState(m) => shown[s].public = lastPublic) => shown'[s].public = PublicState(m)
              /\ ~ dirty =>
                   /\ lastPrivate'[s] = lastPrivate[s]
                   /\ shown'[s].private = shown[s].private /\ shown'[s].public = shown[s].public
  BY <1>5, <1>6, <1>7, <1>8, <1>9, <1>11
<1> QED
  BY <1>10, <1>11 DEF Sent, began, over, dirty

\* What everybody is shown of a match is not taken for nothing.
LEMMA PublicIsSomething ==
  ASSUME NEW m \in Matches
  PROVE  PublicState(m) # None /\ PublicState(m)[1] = m.round /\ PublicState(m)[2] = m.board
<1>1. m.round \in Nat /\ m.board \in Boards
  BY Parameters DEF Matches
<1>2. <<m.round, m.board>> \in Nat \X Boards
  BY <1>1
<1> QED
  BY <1>2, Parameters DEF PublicState

\* What everybody is shown before a step.
LEMMA EverybodyShown ==
  ASSUME ShownInv, Running, NEW s \in Humans, conn[s] # None
  PROVE  /\ shown[s].private = lastPrivate[s] /\ shown[s].private = PrivateState(match, s)
         /\ lastPublic = PublicState(match) => shown[s].public = lastPublic
         /\ match.phase \in {"Combat", "Resolution"} => shown[s].fights = match.round
BY DEF ShownInv, SentInv, OwnersAreUpToDate, Running

\* The tick of a running match once more, with what it sends.
LEMMA TickSends ==
  ASSUME TypeOK, FileInv, ShownInv, Tick
  PROVE  \E n \in Matches, m \in Matches, reported \in BOOLEAN :
           /\ Stepped(match, n) /\ Acted(n, m) /\ match' = m /\ Sent(n, m, reported)
           /\ ~ reported => Picks(n) = {} /\ (n.round = 1 => Plays(n) = {})
           /\ fights' = IF n.phase # match.phase /\ n.phase = "Combat" THEN n.round ELSE fights
           /\ state' = IF n.phase = "MatchOver" THEN "Finished" ELSE "Running"
           /\ resumed' = (resumed /\ ~ (n.phase # match.phase))
           /\ conn' = conn
<1>1. match \in Matches /\ match.phase # "MatchOver" /\ state = "Running"
  BY DEF TypeOK, FileInv, Tick
<1> DEFINE Telling(n, m, reported) ==
       LET entered == n.phase # match.phase
           over    == n.phase = "MatchOver"
           began   == entered /\ n.phase = "Combat"
           dirty   == entered \/ reported
           told    == [Told EXCEPT !.shown = [s \in Humans |->
                         IF began /\ conn[s] # None THEN [shown[s] EXCEPT !.fights = n.round] ELSE shown[s]]]
           synced  == IF dirty THEN Synced(m, conn, told) ELSE told
       IN  Tell([synced EXCEPT !.shown = [s \in Humans |->
                      IF over /\ conn[s] # None THEN [synced.shown[s] EXCEPT !.over = TRUE] ELSE synced.shown[s]]])
<1>2. \E n \in Ticked(match) : \E m \in BotsActed(n) : \E reported \in Reports(n, m) :
           /\ match' = m /\ Telling(n, m, reported)
           /\ fights' = IF n.phase # match.phase /\ n.phase = "Combat" THEN n.round ELSE fights
           /\ state' = IF n.phase = "MatchOver" THEN "Finished" ELSE state
           /\ resumed' = (resumed /\ ~ (n.phase # match.phase))
  BY DEF Tick
<1> HIDE DEF Telling
<1>3. PICK n \in Ticked(match) : \E m \in BotsActed(n) : \E reported \in Reports(n, m) :
           /\ match' = m /\ Telling(n, m, reported)
           /\ fights' = IF n.phase # match.phase /\ n.phase = "Combat" THEN n.round ELSE fights
           /\ state' = IF n.phase = "MatchOver" THEN "Finished" ELSE state
           /\ resumed' = (resumed /\ ~ (n.phase # match.phase))
  BY <1>2
<1>4. PICK m \in BotsActed(n) : \E reported \in Reports(n, m) :
           /\ match' = m /\ Telling(n, m, reported)
           /\ fights' = IF n.phase # match.phase /\ n.phase = "Combat" THEN n.round ELSE fights
           /\ state' = IF n.phase = "MatchOver" THEN "Finished" ELSE state
           /\ resumed' = (resumed /\ ~ (n.phase # match.phase))
  BY <1>3
<1>5. PICK reported \in Reports(n, m) :
           /\ match' = m /\ Telling(n, m, reported)
           /\ fights' = IF n.phase # match.phase /\ n.phase = "Combat" THEN n.round ELSE fights
           /\ state' = IF n.phase = "MatchOver" THEN "Finished" ELSE state
           /\ resumed' = (resumed /\ ~ (n.phase # match.phase))
  BY <1>4
<1>6. Stepped(match, n)
  BY <1>1, EngineSteps
<1>7. n \in Matches
  BY <1>6 DEF Stepped
<1>8. Acted(n, m)
  BY <1>7, BotsStep
<1>9. m \in Matches
  BY <1>8 DEF Acted
<1>10. reported \in BOOLEAN /\ (~ reported => Picks(n) = {} /\ (n.round = 1 => Plays(n) = {}))
  BY <1>5 DEF Reports
<1>11. Table(shown) /\ Entries(lastPrivate)
  BY DEF ShownInv
<1>12. Sent(n, m, reported)
  BY ONLY <1>5, <1>10, <1>11, TickTells DEF Telling
<1>13. conn' = conn
  BY DEF Tick, seatVars
<1> QED
  BY <1>1, <1>5, <1>6, <1>7, <1>8, <1>9, <1>10, <1>12, <1>13

\* A tick sends what changed; what the bots of a resumed planning phase did goes out later.
LEMMA ShownByTick ==
  ASSUME TypeOK, FileInv, BotsInv, ShownInv, Tick
  PROVE  ShownInv'
<1>1. PICK n \in Matches, m \in Matches, reported \in BOOLEAN :
           /\ Stepped(match, n) /\ Acted(n, m) /\ match' = m /\ Sent(n, m, reported)
           /\ ~ reported => Picks(n) = {} /\ (n.round = 1 => Plays(n) = {})
           /\ fights' = IF n.phase # match.phase /\ n.phase = "Combat" THEN n.round ELSE fights
           /\ state' = IF n.phase = "MatchOver" THEN "Finished" ELSE "Running"
           /\ resumed' = (resumed /\ ~ (n.phase # match.phase))
           /\ conn' = conn
  BY TickSends
<1> DEFINE dirty == n.phase # match.phase \/ reported
<1>2. match \in Matches /\ match.phase # "MatchOver" /\ state = "Running" /\ Running
  BY DEF TypeOK, FileInv, Tick, Running
<1>3. /\ match.round \in Nat /\ match.ticks \in Nat /\ n.round \in Nat
      /\ PublicState(match) # None /\ PublicState(match)[1] = match.round /\ PublicState(match)[2] = match.board
      /\ PublicState(m) # None /\ PublicState(m)[1] = m.round /\ PublicState(m)[2] = m.board
  BY <1>2, Parameters, PublicIsSomething DEF Matches
<1>4. /\ resumed => match.phase = "Planning"
      /\ ~ resumed => lastPublic = PublicState(match)
      /\ resumed => /\ match.ticks = 0 => lastPublic \in {None, PublicState(match)}
                    /\ lastPublic # None => lastPublic[1] = match.round /\ \A s \in Humans : lastPublic[2][s] = match.board[s]
      /\ match.phase \in {"Combat", "Resolution"} => fights = match.round
  BY <1>2 DEF ShownInv, SentInv
<1>5. /\ m.phase = n.phase /\ m.round = n.round /\ m.ticks = n.ticks /\ m.own = n.own
      /\ \A s \in Humans : m.board[s] = n.board[s]
      /\ Picks(n) \cup Plays(n) = {} => m.board = n.board
      /\ n.board = match.board
  BY <1>1 DEF Acted, Stepped
\* In the tick that ends a planning phase the bots have nothing left to do.
<1>6. n.phase = "Combat" => /\ match.phase = "Planning" /\ match.ticks > 0 /\ n.round = match.round /\ m.board = match.board
  <2>1. n.phase = "Combat" => Picks(n) = {} /\ Plays(n) = {}
    BY DEF Picks, Plays
  <2>2. n.phase = "Combat" => match.phase = "Planning" /\ match.ticks > 0 /\ n.round = match.round
    BY <1>1, <1>2 DEF Stepped
  <2> QED
    BY <1>5, <2>1, <2>2
<1>7. n.phase = match.phase => /\ match.phase \in {"MotherNature", "Planning"} /\ match.ticks = 0 /\ n.ticks = 1
                               /\ n.round = match.round /\ n.own = match.own /\ n.out = match.out
  BY <1>1, <1>2 DEF Stepped
<1>8. ~ dirty /\ ~ resumed => m.board = match.board
  <2> SUFFICES ASSUME ~ dirty, ~ resumed PROVE Picks(n) = {} /\ Plays(n) = {}
    BY <1>5
  <2>1. Picks(n) = {} /\ (n.round = 1 => Plays(n) = {})
    BY <1>1
  <2>2. n.phase # "Planning" => Plays(n) = {}
    BY DEF Plays
  <2>3. n.phase = "Planning" /\ n.round # 1 => Plays(match) = {} /\ Plays(n) = Plays(match)
    BY <1>2, <1>7 DEF BotsInv, Plays
  <2> QED
    BY <2>1, <2>2, <2>3
<1>9. ~ dirty => PublicState(match) = PublicState(m) \/ resumed
  BY <1>5, <1>7, <1>8 DEF PublicState
<1>10. ~ dirty => \A s \in Humans : PrivateState(m, s) = PrivateState(match, s)
  BY <1>5, <1>7 DEF PrivateState
\* Whoever was sent what is there now was sent it last.
<1>11. lastPublic = PublicState(m) => lastPublic = PublicState(match)
  <2>1. CASE resumed
    <3>1. CASE match.ticks = 0
      BY <1>3, <1>4, <2>1, <3>1
    <3>2. CASE match.ticks # 0
      <4>1. n.phase = "Combat"
        BY <1>1, <1>3, <1>4, <2>1, <3>2 DEF Stepped
      <4> QED
        BY <1>5, <1>6, <4>1 DEF PublicState
    <3> QED
      BY <3>1, <3>2
  <2>2. CASE ~ resumed
    BY <1>4, <2>2
  <2> QED
    BY <2>1, <2>2
<1>12. \A s \in Humans : conn[s] # None =>
         /\ shown[s].private = lastPrivate[s] /\ shown[s].private = PrivateState(match, s)
         /\ lastPublic = PublicState(m) => shown[s].public = lastPublic
         /\ match.phase \in {"Combat", "Resolution"} => shown[s].fights = match.round
  BY <1>2, <1>11, EverybodyShown
<1>13. /\ Table(shown') /\ Entries(lastPrivate')
       /\ lastPublic' = IF dirty THEN PublicState(m) ELSE lastPublic
       /\ \A s \in Humans : conn[s] # None =>
           /\ shown'[s].fights = IF n.phase # match.phase /\ n.phase = "Combat" THEN n.round ELSE shown[s].fights
           /\ n.phase = "MatchOver" => shown'[s].over
           /\ dirty =>
                /\ lastPrivate'[s] = PrivateState(m, s)
                /\ shown[s].private = lastPrivate[s] => shown'[s].private = PrivateState(m, s)
                /\ (lastPublic = PublicState(m) => shown[s].public = lastPublic) => shown'[s].public = PublicState(m)
           /\ ~ dirty =>
                /\ lastPrivate'[s] = lastPrivate[s]
                /\ shown'[s].private = shown[s].private /\ shown'[s].public = shown[s].public
  BY <1>1 DEF Sent
<1> HIDE DEF dirty
<1>14. ASSUME NEW s \in Humans, conn[s] # None
       PROVE  /\ shown'[s].private = lastPrivate'[s] /\ shown'[s].private = PrivateState(m, s)
              /\ dirty => shown'[s].public = PublicState(m)
              /\ lastPublic' = PublicState(m) => shown'[s].public = PublicState(m)
              /\ n.phase = "MatchOver" => shown'[s].over
  <2>1. CASE dirty
    BY <1>12, <1>13, <1>14, <2>1
  <2>2. CASE ~ dirty
    BY <1>10, <1>12, <1>13, <1>14, <2>2
  <2> QED
    BY <2>1, <2>2
<1>15. n.phase \in {"Combat", "Resolution"} => fights' = n.round /\ \A s \in Humans : conn[s] # None => shown'[s].fights = n.round
  <2>1. CASE n.phase = "Combat"
    BY <1>1, <1>6, <1>13, <2>1
  <2>2. CASE n.phase = "Resolution"
    <3>1. match.phase = "Combat" /\ n.round = match.round
      BY <1>1, <1>2, <2>2 DEF Stepped
    <3> QED
      BY <1>1, <1>4, <1>12, <1>13, <2>2, <3>1
  <2> QED
    BY <2>1, <2>2
<1>16. ~ resumed' => dirty \/ (~ resumed /\ PublicState(m) = PublicState(match))
  BY <1>1, <1>9 DEF dirty
<1>17. ~ resumed' => lastPublic' = PublicState(m) /\ \A s \in Humans : conn[s] # None => shown'[s].public = PublicState(m)
  BY <1>4, <1>13, <1>14, <1>16
<1>18. resumed' => /\ resumed /\ m.phase = "Planning" /\ m.round = match.round /\ m.ticks = 1 /\ state' = "Running"
                   /\ \A s \in Humans : m.board[s] = match.board[s]
  BY <1>1, <1>4, <1>5, <1>7
<1>19. resumed' /\ lastPublic' # None => lastPublic'[1] = m.round /\ \A s \in Humans : lastPublic'[2][s] = m.board[s]
  BY <1>3, <1>4, <1>13, <1>18
<1>20. SentInv'
  BY <1>1, <1>5, <1>13, <1>14, <1>15, <1>17, <1>18, <1>19 DEF SentInv, Running
<1>21. OwnersAreUpToDate'
  <2>1. state' = "Finished" => n.phase = "MatchOver"
    BY <1>1
  <2>2. ASSUME NEW s \in Humans, conn'[s] # None
        PROVE  /\ shown'[s].private = PrivateState(match', s)
               /\ match'.phase \in {"Combat", "Resolution"} => shown'[s].fights = match'.round
               /\ state' = "Finished" => shown'[s].over
               /\ ~ resumed' => shown'[s].public = PublicState(match')
    BY <1>1, <1>5, <1>14, <1>15, <1>17, <2>1, <2>2
  <2> QED
    BY <2>2 DEF OwnersAreUpToDate, PrivateState, PublicState
<1> QED
  BY <1>13, <1>20, <1>21 DEF ShownInv, Table, Entries

\* The match starts: everybody is shown the opening.
LEMMA ShownByStart ==
  ASSUME ShownInv, state = "Lobby", NEW board \in Boards, UNCHANGED resumed,
         StartMatch(token', conn', NewMatch([s \in Humans |-> 0], board))
  PROVE  ShownInv'
<1> DEFINE m == NewMatch([s \in Humans |-> 0], board)
           sh == [s \in Humans |-> NothingShown]
           new == Synced(m, conn', [lastPrivate |-> NoOne, lastPublic |-> None, shown |-> sh])
<1>1. m \in Matches /\ m.phase \in {"MotherNature", "Planning"}
  BY OpeningMatch
<1>2. state' = "Running" /\ match' = m /\ Tell(new)
  BY DEF StartMatch
<1>3. ~ resumed'
  BY DEF ShownInv, SentInv
<1> HIDE DEF m
<1>4. \A s \in Humans : sh[s] = NothingShown /\ NoOne[s] = None
  BY DEF NoOne
<1>5. Table(sh)
  BY DEF Table, NothingShown
<1>6. PublicState(m) # None
  BY <1>1, PublicIsSomething
<1>7. \A s \in Humans : sh[s].private = NoOne[s]
  BY <1>4 DEF NothingShown
<1> HIDE DEF sh
<1>8. /\ Table(new.shown) /\ Entries(new.lastPrivate) /\ new.lastPublic = PublicState(m)
      /\ \A s \in Humans : conn'[s] # None =>
           /\ new.lastPrivate[s] = PrivateState(m, s)
           /\ sh[s].private = NoOne[s] => new.shown[s].private = PrivateState(m, s)
           /\ (None = PublicState(m) => sh[s].public = None) => new.shown[s].public = PublicState(m)
  <2>1. new = Synced(m, conn', [lastPrivate |-> NoOne, lastPublic |-> None, shown |-> sh])
    OBVIOUS
  <2> HIDE DEF new
  <2> QED
    BY ONLY <1>5, <2>1, SyncedTells
<1> HIDE DEF new
<1>9. lastPrivate' = new.lastPrivate /\ lastPublic' = new.lastPublic /\ shown' = new.shown
  BY <1>2 DEF Tell
<1>10. \A s \in Humans : conn'[s] # None => /\ lastPrivate'[s] = PrivateState(m, s) /\ shown'[s].private = PrivateState(m, s)
                                            /\ shown'[s].public = PublicState(m)
  BY <1>6, <1>7, <1>8, <1>9
<1>11. SentInv'
  BY <1>1, <1>2, <1>3, <1>8, <1>9, <1>10 DEF SentInv, Running
<1>12. OwnersAreUpToDate'
  BY <1>1, <1>2, <1>3, <1>10 DEF OwnersAreUpToDate, PrivateState, PublicState
<1> QED
  BY <1>8, <1>9, <1>11, <1>12 DEF ShownInv, Table, Entries

\* A command, whatever it did, is followed by what it changed.
LEMMA ShownByAct ==
  ASSUME TypeOK, TablesInv, ShownInv, NEW c \in ConnIds, Act(c)
  PROVE  ShownInv'
<1>1. /\ match \in Matches /\ match' \in Matches /\ Running
      /\ match'.phase = match.phase /\ match'.round = match.round /\ match'.ticks = match.ticks
      /\ \A b \in Bots : match'.board[b] = match.board[b]
  BY ActSteps
<1>2. UNCHANGED <<state, conn, fights, resumed>>
  BY DEF Act, seatVars
<1>3. Tell(Synced(match', conn, Told))
  BY DEF Act
<1> DEFINE new == Synced(match', conn, [lastPrivate |-> lastPrivate, lastPublic |-> lastPublic, shown |-> shown])
<1>4. /\ Table(new.shown) /\ Entries(new.lastPrivate) /\ new.lastPublic = PublicState(match')
      /\ \A s \in Humans :
           /\ new.shown[s].fights = shown[s].fights /\ new.shown[s].over = shown[s].over
           /\ conn[s] # None =>
                /\ new.lastPrivate[s] = PrivateState(match', s)
                /\ shown[s].private = lastPrivate[s] => new.shown[s].private = PrivateState(match', s)
                /\ (lastPublic = PublicState(match') => shown[s].public = lastPublic) => new.shown[s].public = PublicState(match')
  <2>1. Table(shown)
    BY DEF ShownInv
  <2>2. new = Synced(match', conn, [lastPrivate |-> lastPrivate, lastPublic |-> lastPublic, shown |-> shown])
    OBVIOUS
  <2> HIDE DEF new
  <2> QED
    BY ONLY <2>1, <2>2, SyncedTells
<1>5. lastPrivate' = new.lastPrivate /\ lastPublic' = new.lastPublic /\ shown' = new.shown
  BY <1>3 DEF Tell, Told
<1> HIDE DEF new
<1>6. /\ PublicState(match) # None /\ PublicState(match)[1] = match.round /\ PublicState(match)[2] = match.board
      /\ PublicState(match') # None /\ PublicState(match')[1] = match'.round /\ PublicState(match')[2] = match'.board
  BY <1>1, PublicIsSomething
<1>7. lastPublic = PublicState(match') => lastPublic = PublicState(match)
  <2> SUFFICES ASSUME lastPublic = PublicState(match') PROVE PublicState(match') = PublicState(match)
    OBVIOUS
  <2>1. CASE resumed
    <3>1. \A s \in Humans : match'.board[s] = match.board[s]
      BY <1>1, <1>6, <2>1 DEF ShownInv, SentInv
    <3>2. match.board \in [Seats -> Values] /\ match'.board \in [Seats -> Values]
      BY <1>1 DEF Matches, Boards
    <3>3. \A s \in Seats : s \in Humans \/ s \in Bots
      BY DEF Humans
    <3>4. match'.board = match.board
      BY <1>1, <3>1, <3>2, <3>3
    <3> QED
      BY <1>1, <3>4 DEF PublicState
  <2>2. CASE ~ resumed
    BY <1>1, <2>2 DEF ShownInv, SentInv
  <2> QED
    BY <2>1, <2>2
<1>8. ASSUME NEW s \in Humans, conn[s] # None
      PROVE  /\ lastPrivate'[s] = PrivateState(match', s) /\ shown'[s].private = PrivateState(match', s)
             /\ shown'[s].public = PublicState(match')
             /\ match.phase \in {"Combat", "Resolution"} => shown'[s].fights = match.round
             /\ shown'[s].over = shown[s].over
  <2>1. /\ shown[s].private = lastPrivate[s]
        /\ lastPublic = PublicState(match) => shown[s].public = lastPublic
        /\ match.phase \in {"Combat", "Resolution"} => shown[s].fights = match.round
    BY <1>1, <1>8, EverybodyShown
  <2> QED
    BY <1>4, <1>5, <1>7, <1>8, <2>1
<1>9. lastPublic' = PublicState(match')
  BY <1>4, <1>5
<1>10. SentInv'
  <2>1. state' \in {"Running", "Finished"} /\ (resumed' => state' = "Running" /\ match'.phase = "Planning")
    BY <1>1, <1>2 DEF ShownInv, SentInv, Running
  <2>2. match'.phase \in {"Combat", "Resolution"} => fights' = match'.round
    BY <1>1, <1>2 DEF ShownInv, SentInv, Running
  <2>3. \A s \in Humans : conn'[s] # None => shown'[s].private = lastPrivate'[s] /\ shown'[s].public = lastPublic'
    BY <1>2, <1>8, <1>9
  <2>4. lastPublic'[1] = match'.round /\ lastPublic'[2] = match'.board
    BY <1>6, <1>9
  <2>5. (PublicState(match))' = lastPublic'
    BY <1>9 DEF PublicState
  <2> QED
    BY <2>1, <2>2, <2>3, <2>4, <2>5 DEF SentInv, Running
<1>11. OwnersAreUpToDate'
  <2>1. ASSUME NEW s \in Humans, conn[s] # None, state = "Finished"
        PROVE  shown'[s].over
    BY <1>8, <2>1 DEF ShownInv, OwnersAreUpToDate
  <2> QED
    BY <1>1, <1>2, <1>8, <2>1 DEF OwnersAreUpToDate, PrivateState, PublicState
<1> QED
  BY <1>4, <1>5, <1>10, <1>11 DEF ShownInv, Table, Entries

\* Who comes back, or takes the seat over, is sent everything.
LEMMA ShownToReturner ==
  ASSUME TypeOK, ShownInv, NEW c \in ConnIds, NEW t, Reconnect(c, t)
  PROVE  ShownInv'
<1> DEFINE s == CHOOSE s \in Holders(t) : TRUE
           full == FullSync(match, s, state = "Finished")
<1>1. s \in Humans
  BY DEF Reconnect, Holders
<1>2. /\ conn' = [conn EXCEPT ![s] = c] /\ state # "Down" /\ UNCHANGED <<state, lastPublic, match, fights, resumed>>
      /\ IF state = "Lobby" THEN shown' = [shown EXCEPT ![s] = NothingShown] /\ UNCHANGED lastPrivate
         ELSE /\ shown' = [shown EXCEPT ![s] = full]
              /\ lastPrivate' = [lastPrivate EXCEPT ![s] = PrivateState(match, s)]
  BY DEF Reconnect
<1>3. conn \in [Humans -> ConnIds \cup {None}] /\ state \in {"Down", "Lobby", "Running", "Finished"}
  BY DEF TypeOK
<1>4. /\ full.private = PrivateState(match, s) /\ full.public = PublicState(match)
      /\ full.fights = IF match.phase \in {"Combat", "Resolution"} THEN fights ELSE 0
      /\ state = "Finished" => full.over
      /\ full = [private |-> full.private, public |-> full.public, fights |-> full.fights, over |-> full.over]
  <2> DEFINE f == IF match.phase \in {"Combat", "Resolution"} THEN fights ELSE 0
  <2>1. full = [private |-> PrivateState(match, s), public |-> PublicState(match), fights |-> f, over |-> state = "Finished"]
    BY DEF FullSync
  <2> HIDE DEF full, f
  <2>2. /\ full.private = PrivateState(match, s) /\ full.public = PublicState(match) /\ full.fights = f
        /\ full.over = (state = "Finished")
        /\ full = [private |-> full.private, public |-> full.public, fights |-> full.fights, over |-> full.over]
    BY <2>1
  <2> QED
    BY <2>2 DEF f
<1>5. NothingShown = [private |-> NothingShown.private, public |-> NothingShown.public,
                      fights |-> NothingShown.fights, over |-> NothingShown.over]
  BY DEF NothingShown
<1> HIDE DEF s, full
<1>6. Table(shown) /\ Entries(lastPrivate)
  BY DEF ShownInv
<1>7. ASSUME NEW x, x = [private |-> x.private, public |-> x.public, fights |-> x.fights, over |-> x.over],
             shown' = [shown EXCEPT ![s] = x]
      PROVE  Table(shown') /\ shown'[s] = x /\ \A r \in Humans : r # s => shown'[r] = shown[r]
  <2>1. shown = [r \in Humans |-> [private |-> shown[r].private, public |-> shown[r].public,
                                   fights |-> shown[r].fights, over |-> shown[r].over]]
    BY <1>6 DEF Table
  <2>2. shown'[s] = x /\ \A r \in Humans : r # s => shown'[r] = shown[r]
    BY <1>1, <1>7, <2>1
  <2>3. shown' = [r \in Humans |-> shown'[r]]
    BY <1>7, <2>1
  <2>4. \A r \in Humans : shown[r] = [private |-> shown[r].private, public |-> shown[r].public,
                                      fights |-> shown[r].fights, over |-> shown[r].over]
    BY <2>1
  <2>5. ASSUME NEW r \in Humans
        PROVE  shown'[r] = [private |-> shown'[r].private, public |-> shown'[r].public,
                            fights |-> shown'[r].fights, over |-> shown'[r].over]
    BY ONLY <1>7, <2>2, <2>4, <2>5
  <2> DEFINE h == [r \in Humans |-> [private |-> shown'[r].private, public |-> shown'[r].public,
                                     fights |-> shown'[r].fights, over |-> shown'[r].over]]
  <2>6. \A r \in Humans : h[r] = shown'[r]
    BY <2>5
  <2>7. h = shown'
    BY <2>3, <2>6
  <2> QED
    BY <2>2, <2>7 DEF Table
<1>8. CASE state = "Lobby"
  <2>1. shown' = [shown EXCEPT ![s] = NothingShown] /\ lastPrivate' = lastPrivate
    BY <1>2, <1>8
  <2>2. Table(shown')
    BY <1>5, <1>7, <2>1
  <2>3. SentInv' /\ OwnersAreUpToDate'
    BY <1>2, <1>8 DEF ShownInv, SentInv, OwnersAreUpToDate, Running
  <2> QED
    BY <1>6, <2>1, <2>2, <2>3 DEF ShownInv, Table, Entries
<1>9. CASE state # "Lobby"
  <2>1. Running
    BY <1>2, <1>3, <1>9 DEF Running
  <2>2. shown' = [shown EXCEPT ![s] = full] /\ lastPrivate' = [lastPrivate EXCEPT ![s] = PrivateState(match, s)]
    BY <1>2, <1>9
  <2>3. Table(shown') /\ shown'[s] = full /\ \A r \in Humans : r # s => shown'[r] = shown[r]
    BY <1>4, <1>7, <2>2
  <2>4. /\ Entries(lastPrivate') /\ lastPrivate'[s] = PrivateState(match, s)
        /\ \A r \in Humans : r # s => lastPrivate'[r] = lastPrivate[r]
    <3>1. lastPrivate = [r \in Humans |-> lastPrivate[r]]
      BY <1>6 DEF Entries
    <3>2. lastPrivate'[s] = PrivateState(match, s) /\ \A r \in Humans : r # s => lastPrivate'[r] = lastPrivate[r]
      BY <1>1, <2>2, <3>1
    <3>3. lastPrivate' = [r \in Humans |-> lastPrivate'[r]]
      BY <2>2, <3>1
    <3> QED
      BY <3>2, <3>3 DEF Entries
  <2>5. \A r \in Humans : r # s => conn'[r] = conn[r]
    BY <1>2, <1>3
  <2>6. match.phase \in {"Combat", "Resolution"} => fights = match.round
    BY <2>1 DEF ShownInv, SentInv
  <2>7. ASSUME NEW r \in Humans, conn'[r] # None
        PROVE  /\ shown'[r].private = lastPrivate'[r] /\ shown'[r].private = PrivateState(match, r)
               /\ lastPublic = PublicState(match) => shown'[r].public = lastPublic
               /\ match.phase \in {"Combat", "Resolution"} => shown'[r].fights = match.round
               /\ ~ resumed => shown'[r].public = PublicState(match)
    <3>1. CASE r = s
      BY <1>4, <2>3, <2>4, <2>6, <3>1
    <3>2. CASE r # s
      BY <2>1, <2>3, <2>4, <2>5, <2>7, <3>2, EverybodyShown DEF ShownInv, OwnersAreUpToDate, Running
    <3> QED
      BY <3>1, <3>2
  <2>8. ASSUME NEW r \in Humans, conn'[r] # None, state = "Finished"
        PROVE  shown'[r].over
    <3>1. CASE r = s
      BY <1>4, <2>3, <2>8, <3>1
    <3>2. CASE r # s
      BY <2>3, <2>5, <2>8, <3>2 DEF ShownInv, OwnersAreUpToDate
    <3> QED
      BY <3>1, <3>2
  <2>9. SentInv'
    BY <1>2, <2>1, <2>7 DEF ShownInv, SentInv, Running, PublicState
  <2>10. OwnersAreUpToDate'
    BY <1>2, <2>7, <2>8 DEF OwnersAreUpToDate, PrivateState, PublicState
  <2> QED
    BY <2>3, <2>4, <2>9, <2>10 DEF ShownInv, Table, Entries
<1> QED
  BY <1>8, <1>9

\* Who left is shown nothing more; the others are.
LEMMA ShownToStayers ==
  ASSUME TypeOK, ShownInv, NEW c \in ConnIds, Disconnect(c)
  PROVE  ShownInv'
<1>1. UNCHANGED <<state, lastPublic, match, fights, resumed>>
  BY DEF Disconnect
<1>2. CASE c \notin DOMAIN conns
  BY <1>1, <1>2 DEF Disconnect, seatVars, ShownInv, SentInv, OwnersAreUpToDate, Table, Entries, Running, PrivateState, PublicState
<1>3. CASE c \in DOMAIN conns
  <2> DEFINE mine == {s \in Humans : s = conns[c].seat /\ conn[s] = c}
  <2>1. /\ conn' = [s \in Humans |-> IF s \in mine THEN None ELSE conn[s]]
        /\ shown' = [s \in Humans |-> IF s \in mine THEN NothingShown ELSE shown[s]]
        /\ lastPrivate' = [s \in Humans |-> IF s \in mine /\ state = "Lobby" THEN None ELSE lastPrivate[s]]
    BY <1>3 DEF Disconnect
  <2> HIDE DEF mine
  <2>2. \A s \in Humans : conn'[s] # None => conn[s] # None /\ shown'[s] = shown[s] /\ lastPrivate'[s] = lastPrivate[s]
    BY <2>1
  <2>3. Table(shown')
    <3>1. \A s \in Humans : shown[s] = [private |-> shown[s].private, public |-> shown[s].public,
                                        fights |-> shown[s].fights, over |-> shown[s].over]
      BY DEF ShownInv, Table
    <3>2. NothingShown = [private |-> NothingShown.private, public |-> NothingShown.public,
                          fights |-> NothingShown.fights, over |-> NothingShown.over]
      BY DEF NothingShown
    <3>3. ASSUME NEW s \in Humans
          PROVE  shown'[s] = [private |-> shown'[s].private, public |-> shown'[s].public,
                              fights |-> shown'[s].fights, over |-> shown'[s].over]
      <4>1. shown'[s] = NothingShown \/ shown'[s] = shown[s]
        BY <2>1
      <4> QED
        BY ONLY <3>1, <3>2, <4>1
    <3> DEFINE h == [r \in Humans |-> [private |-> shown'[r].private, public |-> shown'[r].public,
                                       fights |-> shown'[r].fights, over |-> shown'[r].over]]
    <3>4. \A r \in Humans : h[r] = shown'[r]
      BY <3>3
    <3>5. h = shown'
      BY <2>1, <3>4
    <3> QED
      BY <3>5 DEF Table
  <2>4. Entries(lastPrivate')
    BY <2>1 DEF Entries
  <2>5. SentInv'
    BY <1>1, <2>2 DEF ShownInv, SentInv, Running, PublicState
  <2>6. OwnersAreUpToDate'
    BY <1>1, <2>2 DEF ShownInv, OwnersAreUpToDate, PrivateState, PublicState
  <2> QED
    BY <2>3, <2>4, <2>5, <2>6 DEF ShownInv, Table, Entries
<1> QED
  BY <1>2, <1>3

\* Who asks is sent again what they had.
LEMMA ShownAgain ==
  ASSUME TypeOK, TablesInv, ShownInv, NEW c \in ConnIds, GetState(c)
  PROVE  ShownInv'
<1> DEFINE s == conns[c].seat
<1>1. s \in Humans /\ conn[s] = c
  BY HeardAreSeated DEF GetState
<1>2. Running /\ conn[s] # None
  BY <1>1, Parameters, MatchIsThere DEF GetState
<1>3. /\ shown' = [shown EXCEPT ![s].private = PrivateState(match, s), ![s].public = PublicState(match)]
      /\ UNCHANGED <<state, conn, lastPrivate, lastPublic, match, fights, resumed>>
  BY DEF GetState, seatVars
<1> HIDE DEF s
<1>4. shown = [r \in Humans |-> [private |-> shown[r].private, public |-> shown[r].public,
                                 fights |-> shown[r].fights, over |-> shown[r].over]]
  BY DEF ShownInv, Table
<1>5. /\ \A r \in Humans : r # s => shown'[r] = shown[r]
      /\ shown'[s] = [private |-> PrivateState(match, s), public |-> PublicState(match),
                      fights |-> shown[s].fights, over |-> shown[s].over]
      /\ shown' = [r \in Humans |-> shown'[r]]
  <2>1. /\ shown[s] = [private |-> shown[s].private, public |-> shown[s].public,
                       fights |-> shown[s].fights, over |-> shown[s].over]
        /\ DOMAIN shown = Humans
    BY <1>1, <1>4
  <2> DEFINE x == [shown[s] EXCEPT !.private = PrivateState(match, s), !.public = PublicState(match)]
  <2>2. shown' = [shown EXCEPT ![s] = x]
    BY <1>1, <1>3, <1>4
  <2>3. x = [private |-> PrivateState(match, s), public |-> PublicState(match),
             fights |-> shown[s].fights, over |-> shown[s].over]
    <3> DEFINE a == PrivateState(match, s)
               b == PublicState(match)
    <3>1. x = [shown[s] EXCEPT !.private = a, !.public = b]
      OBVIOUS
    <3> HIDE DEF a, b, x
    <3>2. x = [private |-> a, public |-> b, fights |-> shown[s].fights, over |-> shown[s].over]
      BY ONLY <2>1, <3>1
    <3> QED
      BY <3>2 DEF a, b
  <2> HIDE DEF x
  <2> QED
    BY <1>1, <1>4, <2>2, <2>3
<1>6. \A r \in Humans : shown[r] = [private |-> shown[r].private, public |-> shown[r].public,
                                    fights |-> shown[r].fights, over |-> shown[r].over]
  BY <1>4
<1>7. Table(shown')
  <2>1. ASSUME NEW r \in Humans
        PROVE  shown'[r] = [private |-> shown'[r].private, public |-> shown'[r].public,
                            fights |-> shown'[r].fights, over |-> shown'[r].over]
    BY ONLY <1>5, <1>6, <2>1
  <2> DEFINE h == [r \in Humans |-> [private |-> shown'[r].private, public |-> shown'[r].public,
                                     fights |-> shown'[r].fights, over |-> shown'[r].over]]
  <2>2. \A r \in Humans : h[r] = shown'[r]
    BY <2>1
  <2>3. h = shown'
    BY <1>5, <2>2
  <2> QED
    BY <2>3 DEF Table
<1>8. /\ shown'[s].private = PrivateState(match, s) /\ shown'[s].public = PublicState(match)
      /\ shown'[s].fights = shown[s].fights /\ shown'[s].over = shown[s].over
  BY <1>5
<1>9. ASSUME NEW r \in Humans, conn[r] # None
      PROVE  /\ shown'[r].private = lastPrivate[r] /\ shown'[r].private = PrivateState(match, r)
             /\ lastPublic = PublicState(match) => shown'[r].public = lastPublic
             /\ match.phase \in {"Combat", "Resolution"} => shown'[r].fights = match.round
             /\ ~ resumed => shown'[r].public = PublicState(match)
  <2>1. CASE r = s
    BY <1>2, <1>8, <1>9, <2>1, EverybodyShown
  <2>2. CASE r # s
    BY <1>2, <1>5, <1>9, <2>2, EverybodyShown DEF ShownInv, OwnersAreUpToDate, Running
  <2> QED
    BY <2>1, <2>2
<1>10. ASSUME NEW r \in Humans, conn[r] # None, state = "Finished"
       PROVE  shown'[r].over
  <2>1. shown[r].over
    BY <1>10 DEF ShownInv, OwnersAreUpToDate
  <2> QED
    BY <1>5, <1>8, <2>1
<1>11. SentInv'
  BY <1>2, <1>3, <1>9 DEF ShownInv, SentInv, Running, PublicState
<1>12. OwnersAreUpToDate'
  BY <1>3, <1>9, <1>10 DEF OwnersAreUpToDate, PrivateState, PublicState
<1>13. Entries(lastPrivate')
  BY <1>3 DEF ShownInv
<1> QED
  BY <1>7, <1>11, <1>12, <1>13 DEF ShownInv, Table, Entries

\* Every step leaves everybody shown what they are to see.
LEMMA ShownKept ==
  ASSUME TypeOK, TablesInv, FileInv, BotsInv, ShownInv, [Next]_vars
  PROVE  ShownInv'
<1>1. ASSUME NEW c \in ConnIds, NEW t, Reconnect(c, t) PROVE ShownInv'
  BY <1>1, ShownToReturner
<1>2. ASSUME UNCHANGED <<conn, toldVars, match, fights>>, state' = state \/ (state = "Down" /\ state' = "Lobby"), resumed' = resumed
      PROVE  ShownInv'
  BY <1>2 DEF toldVars, ShownInv, SentInv, OwnersAreUpToDate, Table, Entries, Running, PrivateState, PublicState
<1>3. ASSUME NEW c \in ConnIds, NEW t, TurnAway(c, t) \/ Violation(c) PROVE ShownInv'
  BY <1>2, <1>3 DEF TurnAway, Violation, seatVars
<1>4. ASSUME NEW c \in ConnIds, NEW t, Join(c, t) PROVE ShownInv'
  <2>1. state = "Lobby" /\ UNCHANGED resumed
    BY <1>4 DEF Join
  <2>2. CASE Taken(token') = Cardinality(Humans)
    <3>1. PICK board \in Boards : StartMatch(token', conn', NewMatch([s \in Humans |-> 0], board))
      BY <1>4, <2>2 DEF Join
    <3> QED
      BY <2>1, <3>1, ShownByStart
  <2>3. CASE Taken(token') # Cardinality(Humans)
    <3>1. UNCHANGED <<state, toldVars, match, fights, resumed>>
      BY <1>4, <2>3 DEF Join
    <3> QED
      BY <2>1, <3>1 DEF toldVars, ShownInv, SentInv, OwnersAreUpToDate, Table, Entries, Running
  <2> QED
    BY <2>2, <2>3
<1>5. ASSUME NEW c \in ConnIds, Disconnect(c) PROVE ShownInv'
  BY <1>5, ShownToStayers
<1>6. ASSUME NEW c \in ConnIds, Act(c) PROVE ShownInv'
  BY <1>6, ShownByAct
<1>7. ASSUME NEW c \in ConnIds, GetState(c) PROVE ShownInv'
  BY <1>7, ShownAgain
<1>8. CASE Tick
  BY <1>8, ShownByTick
<1>9. CASE Wind \/ StartAfresh \/ UNCHANGED vars
  BY <1>2, <1>9 DEF Wind, StartAfresh, vars, seatVars, toldVars
<1>10. CASE ResetToLobby \/ Crash
  <2>1. /\ Emptied /\ state' \in {"Lobby", "Down"} /\ ~ resumed'
        /\ state' = "Down" => lastPublic' = None
    <3>1. CASE ResetToLobby
      BY <3>1 DEF ResetToLobby, ShownInv, SentInv
    <3>2. CASE Crash
      BY <3>2 DEF Crash
    <3> QED
      BY <1>10, <3>1, <3>2
  <2>2. Table(shown') /\ Entries(lastPrivate')
    BY <2>1 DEF Emptied, Table, Entries, NothingShown, NoOne
  <2> QED
    BY <2>1, <2>2 DEF ShownInv, SentInv, OwnersAreUpToDate, Running, Table, Entries
<1>11. CASE Resume
  <2>1. /\ state' = "Running" /\ match' = saved.match /\ resumed' = TRUE /\ state = "Down"
        /\ UNCHANGED <<conn, toldVars, conns, fights>> /\ saved # None
    BY <1>11 DEF Resume
  <2>2. \A s \in Humans : conn[s] = None
    <3>1. DOMAIN conns = {}
      BY <2>1 DEF TablesInv
    <3> QED
      BY <3>1 DEF TablesInv, ConnectionsAgree
  <2>3. saved.match.phase = "Planning" /\ lastPublic' = None
    BY <2>1 DEF FileInv, ShownInv, SentInv, toldVars
  <2>4. SentInv'
    BY <2>1, <2>2, <2>3 DEF SentInv, Running
  <2> QED
    BY <2>1, <2>2, <2>4 DEF toldVars, ShownInv, OwnersAreUpToDate, Table, Entries
<1> QED
  BY <1>1, <1>3, <1>4, <1>5, <1>6, <1>7, <1>8, <1>9, <1>10, <1>11 DEF Next, Connects, Sends

-----------------------------------------------------------------------------
(* The invariant and the theorems.                                         *)

\* The inductive invariant.
RoomInv == TypeOK /\ TablesInv /\ FileInv /\ BotsInv /\ ShownInv

\* A server that was just started satisfies the invariant.
LEMMA RoomOpens == Init => RoomInv
<1> SUFFICES ASSUME Init PROVE BotsInv /\ ShownInv
  BY NothingToStartWith DEF RoomInv
<1>1. BotsInv
  BY DEF Init, BotsInv, BotsPlayEveryRound
<1>2. Table(shown) /\ Entries(lastPrivate)
  BY DEF Init, Table, Entries, NothingShown, NoOne
<1>3. SentInv /\ OwnersAreUpToDate
  BY DEF Init, SentInv, OwnersAreUpToDate, Running
<1> QED
  BY <1>1, <1>2, <1>3 DEF ShownInv

\* Every step of the room keeps it.
LEMMA RoomStep == RoomInv /\ [Next]_vars => RoomInv'
<1> SUFFICES ASSUME RoomInv, [Next]_vars PROVE RoomInv'
  OBVIOUS
<1>1. TypeOK /\ TablesInv /\ FileInv /\ BotsInv /\ ShownInv
  BY DEF RoomInv
<1>2. MatchInv
  BY <1>1, TypesInTwo DEF MatchInv
<1>3. TableTypes'
  BY <1>1, TableTypesKept
<1>4. TablesInv'
  BY <1>1, TablesKept
<1>5. MatchInv'
  BY <1>1, <1>2, <1>3, MatchKept
<1>6. ShownInv'
  BY <1>1, ShownKept
<1> QED
  BY <1>3, <1>4, <1>5, <1>6, TypesInTwo DEF RoomInv, MatchInv

\* The invariant of the room, in every state.
THEOREM RoomKept == Spec => []RoomInv
<1>1. RoomInv /\ UNCHANGED vars => RoomInv'
  BY RoomStep
<1> QED
  BY RoomOpens, RoomStep, <1>1, PTL DEF Spec

\* Every variable of the room has its type, whatever players and bots there are.
THEOREM RoomTypes == Spec => []TypeOK
<1>1. RoomInv => TypeOK
  BY DEF RoomInv
<1> QED
  BY RoomKept, <1>1, PTL

\* However connections come, take seats over, misbehave and end late, the table of seats and the
\* table of connections agree (OnConnect, OnDisconnect: GameServer.cpp:82-148).
THEOREM ConnectionsAgreeKept == Spec => []ConnectionsAgree
<1>1. RoomInv => ConnectionsAgree
  BY DEF RoomInv, TablesInv
<1> QED
  BY RoomKept, <1>1, PTL

\* The file on disk is there exactly while a match can be taken up again, and is of this match: a
\* crash at any point finds the right one or none (w2f_server.cpp --autosave).
THEOREM RestartPointKept == Spec => []RestartPointIsOfThisMatch
<1>1. RoomInv => RestartPointIsOfThisMatch
  BY DEF RoomInv, FileInv
<1> QED
  BY RoomKept, <1>1, PTL

\* No restart lets a bot play a round twice or miss one (SeatsJson: GameServer.cpp:575-607).
THEOREM BotsPlayEveryRoundKept == Spec => []BotsPlayEveryRound
<1>1. RoomInv => BotsPlayEveryRound
  BY DEF RoomInv, BotsInv
<1> QED
  BY RoomKept, <1>1, PTL

\* Whoever is connected to a match has been shown their own state as it is, the fights that are on,
\* and what everybody may see: sending only changes never leaves anybody behind
\* (SyncAfterEngineCall, FullSync: GameServer.cpp:503-541).
THEOREM OwnersAreUpToDateKept == Spec => []OwnersAreUpToDate
<1>1. RoomInv => OwnersAreUpToDate
  BY DEF RoomInv, ShownInv
<1> QED
  BY RoomKept, <1>1, PTL
=============================================================================
