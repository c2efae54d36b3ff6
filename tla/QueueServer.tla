----------------------------- MODULE QueueServer -----------------------------
(***************************************************************************)
(* The hub of a server that runs many matches (server/net/src/             *)
(* QueueServer.cpp): connections that log in, search for a match alone or  *)
(* as a party, answer ready checks, play in a room, leave it, and come     *)
(* back to it with their token.  A room is seen from the hub: which        *)
(* connection sits on which of its seats (server/net/src/GameServer.cpp).  *)
(* One action is one call of the handler (OnConnect, OnMessage with one    *)
(* command, OnDisconnect, Tick), matchmaking included.                     *)
(*                                                                         *)
(* Time is left open: a tick may find any ready check out of time, any     *)
(* invite lapsed, any match over; a waiter has waited for fillMs at some   *)
(* moment.  Friendships stay as they are; profiles, chat and messages      *)
(* change none of this state.                                              *)
(***************************************************************************)
EXTENDS Integers, FiniteSets, Sequences, SequencesExt

CONSTANTS
  NumConns,         \* connection ids; clients_ is ordered by id
  Accounts,         \* {} = a server without accounts
  NoAccount,        \* a connection that is not logged in
  Friends,          \* the pairs of accounts that are friends
  Modes,            \* QueueMode, the modes the run explores
  Seats,            \* GameServerConfig::seats
  MaxMatches,       \* QueueServerConfig::maxMatches
  RankedPartyMax,   \* QueueServerConfig::rankedPartyMax
  Wants,            \* the ready_check fields clients send with queue
  MaxOrder          \* bound of the exploration on places in the queue

Conns == 1 .. NumConns

ASSUME QueueServerAssumption ==
  /\ NumConns \in Nat \ {0}
  /\ IsFiniteSet(Accounts) /\ NoAccount \notin Accounts
  /\ Friends \subseteq Accounts \X Accounts
  /\ Modes \subseteq {"bots", "normal", "ranked"}
  /\ Seats \in Nat \ {0, 1} /\ Wants \subseteq BOOLEAN
  /\ MaxMatches \in Nat \ {0} /\ RankedPartyMax \in Nat \ {0} /\ MaxOrder \in Nat \ {0}

(***************************************************************************)
(* Ids that count up for ever in the code are the lowest ones not in use   *)
(* here.                                                                   *)
(***************************************************************************)
RoomIds  == 1 .. 2 * MaxMatches
CheckIds == RoomIds
PartyIds == 1 .. 2 * (NumConns + Cardinality(Accounts))

VARIABLES
  clients,   \* clients_: by connection id, the connected ones
  checks,    \* proposals_: by id, the ready checks under way
  rooms,     \* rooms_: by id, the connection on every human seat (0 = nobody)
  parties    \* parties_: by id, the accounts in it and the invited ones

vars == <<clients, checks, rooms, parties>>

Client == [account : Accounts \cup {NoAccount}, closing : BOOLEAN,
           room : {0} \cup RoomIds, check : {0} \cup CheckIds, searching : BOOLEAN,
           mode : Modes \cup {"none"}, order : 0 .. MaxOrder, waited : BOOLEAN,
           wants : BOOLEAN, group : {0} \cup PartyIds]

\* A seat is named after the connection it was given to: its token.
TypeOK ==
  /\ DOMAIN clients \subseteq Conns
  /\ \A id \in DOMAIN clients : /\ clients[id] \in Client
                                /\ clients[id].room \in {0} \cup DOMAIN rooms
                                /\ clients[id].check \in {0} \cup DOMAIN checks
  /\ DOMAIN checks \subseteq CheckIds
  /\ \A k \in DOMAIN checks : checks[k] \in [players : SUBSET Conns, accepted : SUBSET Conns]
  /\ DOMAIN rooms \subseteq RoomIds
  /\ \A r \in DOMAIN rooms : rooms[r] \in UNION {[S -> {0} \cup Conns] : S \in SUBSET Conns}
  /\ DOMAIN parties \subseteq PartyIds
  /\ \A g \in DOMAIN parties : /\ parties[g].invited \subseteq Accounts
                               /\ parties[g].members \in Seq(Accounts)

NewClient ==
  [account |-> NoAccount, closing |-> FALSE, room |-> 0, check |-> 0, searching |-> FALSE,
   mode |-> "none", order |-> 0, waited |-> FALSE, wants |-> FALSE, group |-> 0]

Init == clients = << >> /\ checks = << >> /\ rooms = << >> /\ parties = << >>

-----------------------------------------------------------------------------
(* A handler is a composition of operators on the hub's state.             *)

Hub == [clients |-> clients, checks |-> checks, rooms |-> rooms, parties |-> parties]

Becomes(h) ==
  /\ clients' = h.clients
  /\ checks' = h.checks
  /\ rooms' = h.rooms
  /\ parties' = h.parties

With(f, x, v) == [y \in DOMAIN f \cup {x} |-> IF y = x THEN v ELSE f[y]]
Without(f, S) == [y \in DOMAIN f \ S |-> f[y]]

LowestOf(S)   == CHOOSE x \in S : \A y \in S : x <= y
FreshRoom(h)  == LowestOf(RoomIds \ (DOMAIN h.rooms \cup DOMAIN rooms))
FreshCheck(h) == LowestOf(CheckIds \ (DOMAIN h.checks \cup DOMAIN checks))
FreshParty(h) == LowestOf(PartyIds \ (DOMAIN h.parties \cup {h.clients[id].group : id \in DOMAIN h.clients}))

\* What a search leaves behind is never read again once the client has stopped.
Stopped(c) ==
  [c EXCEPT !.searching = FALSE, !.mode = "none", !.order = 0, !.waited = FALSE, !.wants = FALSE,
            !.group = 0]

\* Stops a search, the whole group's when it is a party's.
StopSearch(h, id) ==
  LET g == h.clients[id].group
      who == {id} \cup {w \in DOMAIN h.clients :
                          g # 0 /\ h.clients[w].searching /\ h.clients[w].group = g}
  IN [h EXCEPT !.clients = [w \in DOMAIN @ |-> IF w \in who THEN Stopped(@[w]) ELSE @[w]]]

CancelSearch(h, id) == IF h.clients[id].searching THEN StopSearch(h, id) ELSE h

-----------------------------------------------------------------------------
(* Ready checks.                                                           *)

\* Mutant: the search for a player among the decliners is read the wrong way round.
FailProposals_OthersOut(h, K, decliners) ==
  LET c == h.clients
      Out(id) == id \notin decliners \/ c[id].closing
  IN [h EXCEPT !.checks = Without(@, K),
               !.clients = [id \in DOMAIN c |->
                 IF c[id].check \notin K THEN c[id]
                 ELSE IF Out(id) THEN [Stopped(c[id]) EXCEPT !.check = 0]
                 ELSE [c[id] EXCEPT !.check = 0, !.searching = TRUE]]]

(***************************************************************************)
(* FailProposal, for every check of K: the decliners and the rest of their *)
(* parties stop, everybody else searches again in their old place.         *)
(***************************************************************************)
FailProposals(h, K, decliners) ==
  LET c == h.clients
      In(id) == c[id].check \in K
      Out(id) == \/ id \in decliners \/ c[id].closing
                 \/ \E d \in decliners : /\ c[d].check = c[id].check
                                         /\ c[d].group = c[id].group /\ c[d].group # 0
  IN [h EXCEPT !.checks = Without(@, K),
               !.clients = [id \in DOMAIN c |->
                 IF ~ In(id) THEN c[id]
                 ELSE IF Out(id) THEN [Stopped(c[id]) EXCEPT !.check = 0]
                 ELSE [c[id] EXCEPT !.check = 0, !.searching = TRUE]]]

Decline(h, id) ==
  IF h.clients[id].check = 0 THEN h ELSE FailProposals(h, {h.clients[id].check}, {id})

\* The players take the seats, the lobby is full and the match starts.  A party can outgrow a
\* match of bots: whoever finds no seat is closed.
StartRoom(h, players) ==
  LET r == FreshRoom(h)
      seated == {id \in players : Cardinality({w \in players : w < id}) < Seats}
  IN [h EXCEPT !.rooms = With(@, r, [s \in seated |-> s]),
               !.clients = [id \in DOMAIN @ |->
                 IF id \in seated THEN [Stopped(@[id]) EXCEPT !.room = r]
                 ELSE IF id \in players THEN [Stopped(@[id]) EXCEPT !.room = r, !.closing = TRUE]
                 ELSE @[id]]]

\* When all have accepted the check is gone and the match starts.
Progress(h, k) ==
  LET players == h.checks[k].players
  IN IF h.checks[k].accepted # players THEN h
     ELSE StartRoom([h EXCEPT !.checks = Without(@, {k}),
                              !.clients = [id \in DOMAIN @ |->
                                IF id \in players THEN [@[id] EXCEPT !.check = 0] ELSE @[id]]],
                    players)

\* Who queued without asking for a ready check has accepted by queueing.
Propose(h, players) ==
  LET k == FreshCheck(h)
      wanting == {id \in players : h.clients[id].wants}
  IN IF wanting = {} THEN StartRoom(h, players)
     ELSE Progress([h EXCEPT !.checks = With(@, k, [players |-> players,
                                                    accepted |-> players \ wanting]),
                             !.clients = [id \in DOMAIN @ |->
                               IF id \in players
                               THEN [@[id] EXCEPT !.searching = FALSE, !.check = k] ELSE @[id]]],
                   k)

-----------------------------------------------------------------------------
(* Matchmaking.                                                            *)

\* Mutant: parties before single players, wherever they stand.
QueueKey_PartiesFirst(h, id) ==
  LET c == h.clients[id]
      parted == Cardinality(PartyIds)
  IN IF c.group # 0 THEN c.group ELSE c.order * (parted + NumConns + 1) + parted + id

\* First come first served; at the same place parties before single players.
QueueKey(h, id) ==
  LET c == h.clients[id]
      parted == Cardinality(PartyIds)
  IN c.order * (parted + NumConns + 1) + (IF c.group # 0 THEN c.group ELSE parted + id)

Waiting(h, mode) ==
  {id \in DOMAIN h.clients : /\ h.clients[id].searching /\ ~ h.clients[id].closing
                             /\ h.clients[id].mode = mode}

\* The waiting groups of a mode: a party, or one player.
Groups(h, mode) ==
  LET waiting == Waiting(h, mode)
  IN {{w \in waiting : QueueKey(h, w) = QueueKey(h, id)} : id \in waiting}

FirstGroup(h, mode) ==
  LET waiting == Waiting(h, mode)
  IN {id \in waiting : \A w \in waiting : QueueKey(h, id) <= QueueKey(h, w)}

\* Whoever fits beside those on board before them; a group that does not fit waits for the
\* next match.  (Of one set of groups only is this true.)
Boarding(h, mode) ==
  LET groups == Groups(h, mode)
      place  == [g \in groups |-> QueueKey(h, LowestOf(g))]
      Fits(g, B) == Cardinality((UNION {b \in B : place[b] < place[g]}) \cup g) <= Seats
  IN UNION UNION {B \in SUBSET groups : \A g \in groups : g \in B <=> Fits(g, B)}

PlayersFor(h, mode) == IF mode = "bots" THEN FirstGroup(h, mode) ELSE Boarding(h, mode)

CanMatch_FullOnly(h, mode) ==
  /\ Waiting(h, mode) # {}
  /\ mode = "bots" \/ Cardinality(Boarding(h, mode)) >= Seats

CanMatch(h, mode) ==
  /\ Waiting(h, mode) # {}
  /\ \/ mode = "bots"
     \/ Cardinality(Boarding(h, mode)) >= Seats
     \/ h.clients[LowestOf(FirstGroup(h, mode))].waited

AtLimit(h) == Cardinality(DOMAIN h.rooms) + Cardinality(DOMAIN h.checks) >= MaxMatches

FirstMode(S) == IF "bots" \in S THEN "bots" ELSE IF "normal" \in S THEN "normal" ELSE "ranked"

MatchOne(h) ==
  LET ready == {m \in Modes : CanMatch(h, m)}
  IN IF AtLimit(h) \/ ready = {} THEN h ELSE Propose(h, PlayersFor(h, FirstMode(ready)))

\* Every match made counts towards the limit, so MaxMatches turns are all there are.
Matchmake(h) ==
  LET after[n \in 0 .. MaxMatches] == IF n = 0 THEN h ELSE MatchOne(after[n - 1])
  IN after[MaxMatches]

-----------------------------------------------------------------------------
(* Parties.                                                                *)

\* The connection an account is logged in on, 0 = offline.
ConnOf(h, key) ==
  LET on == {id \in DOMAIN h.clients : h.clients[id].account = key /\ ~ h.clients[id].closing}
  IN IF key = NoAccount \/ on = {} THEN 0 ELSE LowestOf(on)

PartyOf(h, key) ==
  LET in == {g \in DOMAIN h.parties : key \in Range(h.parties[g].members)}
  IN IF in = {} THEN 0 ELSE LowestOf(in)

\* A party of one with no open invites is no party.
Lingers(p) == p.members = << >> \/ (Len(p.members) = 1 /\ p.invited = {})

Tidy(h, G) == [h EXCEPT !.parties = Without(@, {g \in G \cap DOMAIN @ : Lingers(@[g])})]

\* The first member found searching stops, and whoever searches in the same group.
HaltPartySearch(h, g) ==
  LET members == h.parties[g].members
      at == {i \in DOMAIN members : /\ ConnOf(h, members[i]) # 0
                                    /\ h.clients[ConnOf(h, members[i])].searching}
  IN IF at = {} THEN h ELSE StopSearch(h, ConnOf(h, members[LowestOf(at)]))

WithoutMember(members, key) == RemoveAt(members, CHOOSE i \in DOMAIN members : members[i] = key)

LeaveParty(h, key) ==
  LET g == PartyOf(h, key)
  IN IF g = 0 THEN h
     ELSE Tidy([HaltPartySearch(h, g) EXCEPT !.parties[g].members = WithoutMember(@, key)], {g})

-----------------------------------------------------------------------------
(* Connections.                                                            *)

Listening(id) == id \in DOMAIN clients /\ ~ clients[id].closing

OnConnect(id) ==
  /\ id \in Conns \ DOMAIN clients
  /\ Becomes([Hub EXCEPT !.clients = With(@, id, NewClient)])

\* With the token of seat s of room r: a connection that still holds the seat is closed.
OnConnectWithToken(id, r, s) ==
  /\ id \in Conns \ DOMAIN clients
  /\ r \in DOMAIN rooms /\ s \in DOMAIN rooms[r]
  /\ LET old == rooms[r][s]
     IN Becomes([Hub EXCEPT
          !.clients = With([c \in DOMAIN @ |-> IF c = old THEN [@[c] EXCEPT !.closing = TRUE] ELSE @[c]],
                           id, [NewClient EXCEPT !.room = r]),
          !.rooms[r][s] = id])

\* GameServer::OnDisconnect during a match: the seat stays reserved for its token.
Vacated(h, id) ==
  [h EXCEPT !.rooms = [r \in DOMAIN @ |-> [s \in DOMAIN @[r] |-> IF @[r][s] = id THEN 0 ELSE @[r][s]]]]

Closing_KeepsCheck(h, id) == CancelSearch([h EXCEPT !.clients[id].closing = TRUE], id)

\* Violation, or a room closing the connection: nothing more is read from it.
Closing(h, id) ==
  LET closed == [h EXCEPT !.clients[id].closing = TRUE]
  IN Decline(CancelSearch(closed, id), id)

Violate(id) == Listening(id) /\ Becomes(Closing(Hub, id))

OnDisconnect_StaysInParty(id) ==
  /\ id \in DOMAIN clients
  /\ Becomes([Closing(Vacated(Hub, id), id) EXCEPT !.clients = Without(@, {id})])

OnDisconnect(id) ==
  /\ id \in DOMAIN clients
  /\ LET account == clients[id].account
         gone == [Closing(Vacated(Hub, id), id) EXCEPT !.clients = Without(@, {id})]
     IN Becomes(IF account # NoAccount /\ ConnOf(gone, account) = 0
                THEN LeaveParty(gone, account) ELSE gone)

LeaveMatch(id) ==
  /\ Listening(id) /\ clients[id].room # 0
  /\ Becomes([Vacated(Hub, id) EXCEPT !.clients[id].room = 0])

-----------------------------------------------------------------------------
(* Queueing.                                                               *)

\* In a party of two or more, the leader queues for everyone who is in it.
GroupOf(id) ==
  LET g == PartyOf(Hub, clients[id].account)
  IN IF g # 0 /\ Len(parties[g].members) > 1
     THEN {ConnOf(Hub, k) : k \in Range(parties[g].members)} ELSE {id}

MayQueue(id, mode) ==
  LET g == PartyOf(Hub, clients[id].account)
  IN /\ Accounts # {} => clients[id].account # NoAccount
     /\ mode = "ranked" => Accounts # {}
     /\ clients[id].room = 0 /\ clients[id].check = 0
     /\ g # 0 /\ Len(parties[g].members) > 1 =>
          /\ parties[g].members[1] = clients[id].account
          /\ mode = "ranked" => Len(parties[g].members) <= RankedPartyMax
          /\ \A c \in GroupOf(id) : c # 0 /\ clients[c].room = 0 /\ clients[c].check = 0

LastOrder == LET held == {clients[id].order : id \in DOMAIN clients}
             IN CHOOSE x \in held : \A y \in held : y <= x

JoinQueue(id, mode, wants) ==
  /\ Listening(id) /\ MayQueue(id, mode)
  /\ LET group == GroupOf(id)
         fresh == ~ clients[id].searching \/ clients[id].mode # mode
         order == IF fresh THEN LastOrder + 1 ELSE clients[id].order
         groupId == IF Cardinality(group) > 1 THEN PartyOf(Hub, clients[id].account) ELSE 0
         Queued(c) == [c EXCEPT !.wants = wants, !.group = groupId]
         queued == [c \in DOMAIN clients |->
                      IF c \notin group THEN clients[c]
                      ELSE IF fresh \/ ~ clients[c].searching
                      THEN [Queued(clients[c]) EXCEPT !.searching = TRUE, !.mode = mode, !.order = order,
                                                     !.waited = FALSE]
                      ELSE Queued(clients[c])]
     IN /\ order <= MaxOrder
        /\ Becomes(Matchmake([Hub EXCEPT !.clients = queued]))

\* leave_queue, or decline_match while a match is waiting.
LeaveQueue(id) ==
  /\ Listening(id)
  /\ clients[id].searching \/ clients[id].check # 0
  /\ Becomes(IF clients[id].check # 0 THEN Decline(Hub, id) ELSE StopSearch(Hub, id))

AcceptMatch(id) ==
  /\ Listening(id) /\ clients[id].check # 0
  /\ LET k == clients[id].check
     IN Becomes(Progress([Hub EXCEPT !.checks[k].accepted = @ \cup {id}], k))

-----------------------------------------------------------------------------
(* Accounts.                                                               *)

LoggedOut_KeepsAccount(h, id) == CancelSearch(Decline(h, id), id)

LoggedOut(h, id) ==
  [CancelSearch(Decline(h, id), id) EXCEPT !.clients[id].account = NoAccount]

(***************************************************************************)
(* Register, login or resume_session: an older connection of the account   *)
(* is logged out.  A login over the tick's password budget is carried out  *)
(* in a later tick, when the connection may be closing.                    *)
(***************************************************************************)
Login(id, key) ==
  /\ id \in DOMAIN clients /\ clients[id].room = 0
  /\ LET previous == clients[id].account
         others == {c \in DOMAIN clients : c # id /\ clients[c].account = key}
         mine == CancelSearch(Decline(Hub, id), id)
         theirs == FoldSet(LAMBDA c, h : LoggedOut(h, c), mine, others)
         left == IF previous \in {NoAccount, key} THEN theirs
                 ELSE LeaveParty([theirs EXCEPT !.clients[id].account = NoAccount], previous)
     IN Becomes([left EXCEPT !.clients[id].account = key])

Logout(id) ==
  /\ Listening(id) /\ clients[id].account # NoAccount
  /\ Becomes(LeaveParty(LoggedOut(Hub, id), clients[id].account))

-----------------------------------------------------------------------------
(* Party commands, by account me on connection id.                         *)

PartyInvite(id, other) ==
  LET me == clients[id].account
      g  == PartyOf(Hub, me)
      h  == IF g # 0 THEN Hub
            ELSE [Hub EXCEPT !.parties = With(@, FreshParty(Hub), [members |-> <<me>>, invited |-> {}])]
  IN /\ Listening(id) /\ me # NoAccount
     /\ <<me, other>> \in Friends /\ other # me /\ ConnOf(Hub, other) # 0
     /\ g # 0 => /\ other \notin Range(parties[g].members)
                 /\ Len(parties[g].members) + Cardinality(parties[g].invited) < Seats
     /\ Becomes([h EXCEPT !.parties[PartyOf(h, me)].invited = @ \cup {other}])

\* An invite that has lapsed and was not swept yet is refused without a change.
AnswerInvite(id, other, accept) ==
  LET me == clients[id].account
      g  == PartyOf(Hub, other)
      h  == [Hub EXCEPT !.parties[g].invited = @ \ {me}]
      alone == LeaveParty(CancelSearch(h, id), me)
  IN /\ Listening(id) /\ me # NoAccount
     /\ g # 0 /\ me \in parties[g].invited
     /\ Becomes(IF \/ ~ accept
                   \/ clients[id].room # 0 \/ clients[id].check # 0
                   \/ Len(parties[g].members) >= Seats
                THEN Tidy(h, {g})
                ELSE [HaltPartySearch(alone, g) EXCEPT !.parties[g].members = Append(@, me)])

PartyLeave(id) ==
  /\ Listening(id) /\ PartyOf(Hub, clients[id].account) # 0
  /\ Becomes(LeaveParty(Hub, clients[id].account))

Leads(id, other) ==
  LET me == clients[id].account
      g  == PartyOf(Hub, me)
  IN /\ g # 0 /\ other # me
     /\ parties[g].members[1] = me /\ other \in Range(parties[g].members)

PartyKick(id, other) ==
  /\ Listening(id) /\ Leads(id, other)
  /\ Becomes(LeaveParty(Hub, other))

PartyPromote(id, other) ==
  /\ Listening(id) /\ Leads(id, other)
  /\ Becomes([Hub EXCEPT !.parties[PartyOf(Hub, other)].members = <<other>> \o WithoutMember(@, other)])

-----------------------------------------------------------------------------
(* Time.                                                                   *)

Invites == {t \in (DOMAIN parties) \X Accounts : t[2] \in parties[t[1]].invited}

\* Matches that are over, and those nobody was connected to for abandonTicks.
EndRooms(h, over) ==
  [h EXCEPT !.rooms = Without(@, over),
            !.clients = [id \in DOMAIN @ |->
              IF @[id].room \in over THEN [@[id] EXCEPT !.room = 0] ELSE @[id]]]

ExpireInvites(h, lapsed) ==
  LET swept == [h EXCEPT !.parties = [g \in DOMAIN h.parties |->
                  [h.parties[g] EXCEPT !.invited = {k \in h.parties[g].invited : <<g, k>> \notin lapsed}]]]
  IN Tidy(swept, {t[1] : t \in lapsed})

\* over: the matches that end; late: the checks out of time; lapsed: the invites.
Tick(over, late, lapsed) ==
  LET ended == EndRooms(Hub, over)
      failed == FailProposals(ended, late, UNION {checks[k].players \ checks[k].accepted : k \in late})
  IN Becomes(ExpireInvites(Matchmake(failed), lapsed))

-----------------------------------------------------------------------------

Searching == {id \in DOMAIN clients : clients[id].searching}
Checking  == {id \in DOMAIN clients : clients[id].check # 0}

(***************************************************************************)
(* fillMs pass for a waiter; whoever came earlier has waited as long.      *)
(***************************************************************************)
FillTimePasses(id) ==
  /\ id \in Searching \cup Checking /\ ~ clients[id].waited
  /\ \A c \in Searching \cup Checking :
       clients[c].mode = clients[id].mode /\ clients[c].order < clients[id].order => clients[c].waited
  /\ clients' = [clients EXCEPT ![id].waited = TRUE]
  /\ UNCHANGED <<checks, rooms, parties>>

AnyTick ==
  \E over \in SUBSET DOMAIN rooms, late \in SUBSET DOMAIN checks, lapsed \in SUBSET Invites :
    Tick(over, late, lapsed)

Message(id) ==
  \/ \E mode \in Modes, wants \in Wants : JoinQueue(id, mode, wants)
  \/ LeaveQueue(id)
  \/ AcceptMatch(id)
  \/ PartyLeave(id)
  \/ \E key \in Accounts : \/ PartyInvite(id, key)
                           \/ \E accept \in BOOLEAN : AnswerInvite(id, key, accept)
                           \/ PartyKick(id, key)
                           \/ PartyPromote(id, key)

Connection(id) ==
  \/ OnConnect(id)
  \/ \E r \in DOMAIN rooms : \E s \in DOMAIN rooms[r] : OnConnectWithToken(id, r, s)
  \/ OnDisconnect(id)
  \/ Violate(id)
  \/ LeaveMatch(id)
  \/ \E key \in Accounts : Login(id, key)
  \/ Logout(id)

Next ==
  \/ \E id \in Conns : Connection(id)
  \/ \E id \in DOMAIN clients : Message(id)
  \/ \E id \in DOMAIN clients : FillTimePasses(id)
  \/ AnyTick

Spec == Init /\ [][Next]_vars

MatchWaiting == ~ AtLimit(Hub) /\ \E mode \in Modes : CanMatch(Hub, mode)

(***************************************************************************)
(* The caller ticks for ever: a ready check meets its deadline, a waiter   *)
(* reaches fillMs, a match has only so many rounds, and a tick makes every *)
(* match that can be made.  Weak fairness of those ticks, written on the   *)
(* condition each of them ends: none of them lasts for ever.               *)
(***************************************************************************)
Fairness ==
  /\ \A k \in CheckIds : []<>(k \notin DOMAIN checks)
  /\ \A r \in RoomIds : []<>(r \notin DOMAIN rooms)
  /\ \A id \in Conns : []<>(id \notin Searching \/ clients[id].waited)
  /\ []<>(~ MatchWaiting)

-----------------------------------------------------------------------------
(* Properties.                                                             *)

\* A ready check and its players agree: every player in it is connected, is in no
\* other activity and knows the check, nobody else does, and somebody still has to
\* answer.  So no answer, disconnect, login elsewhere or timeout leaves a player
\* waiting for a check that is gone, or a check waiting for a player who is.
ReadyChecksAgree ==
  /\ \A k \in DOMAIN checks :
       /\ checks[k].players = {id \in DOMAIN clients : clients[id].check = k}
       /\ checks[k].players \ checks[k].accepted # {}
  /\ \A id \in DOMAIN clients : clients[id].check # 0 =>
       ~ clients[id].searching /\ ~ clients[id].closing /\ clients[id].room = 0

\* An account is logged in on at most one connection.
OneConnectionPerAccount ==
  \A a, b \in DOMAIN clients :
    clients[a].account = clients[b].account /\ clients[a].account # NoAccount => a = b

\* A party "lives as long as its members are logged in" (network-protocol.md): every
\* member is logged in on a connection, an account is in one party at most, nobody
\* is a member and invited, no party outgrows a match, and none lingers with one
\* member and no invite.
PartiesAgree ==
  \A g \in DOMAIN parties :
    LET p == parties[g] IN
    /\ \A k \in Range(p.members) : \E id \in DOMAIN clients : clients[id].account = k
    /\ \A other \in DOMAIN parties \ {g} : Range(p.members) \cap Range(parties[other].members) = {}
    /\ p.invited \cap Range(p.members) = {}
    /\ Len(p.members) = Cardinality(Range(p.members)) /\ Len(p.members) <= Seats
    /\ Len(p.members) > 1 \/ (Len(p.members) = 1 /\ p.invited # {})

TheMatchOf(id) == IF clients[id].check # 0 THEN checks[clients[id].check].players
                  ELSE IF clients[id].room # 0 THEN DOMAIN rooms[clients[id].room] ELSE {}

\* Those who wait in id's place in the queue: its party, if it queued as one.
WaitsWith(id) ==
  LET c == clients[id] IN
  {w \in Searching : \/ w = id
                     \/ /\ c.group # 0 /\ clients[w].group = c.group
                        /\ clients[w].mode = c.mode /\ clients[w].order = c.order}

\* First come, first served: where a later player is in a new ready check and somebody of
\* the same mode goes on searching, that one's party did not fit beside the others in it, who
\* are not later.  Players keep their place through the check, so this holds of those who came
\* with this step or are back from a check that failed with it too.
FirstComeFirstServed ==
  [][\A k \in DOMAIN checks' \ DOMAIN checks, id \in Searching' :
       LET players == checks'[k].players
           later == {p \in players : /\ clients'[p].mode = clients'[id].mode
                                     /\ clients'[p].order > clients'[id].order}
       IN later # {} => Cardinality(players \ later) + Cardinality(WaitsWith(id)') > Seats]_vars

InCheckWith(k, id) == {w \in checks[k].players : w = id \/ (clients[id].group # 0 /\ clients[w].group = clients[id].group)}

\* The players of check k who are d, queued with d or, since d may have joined another
\* party during the check, are in d's party now or queued with somebody who is.
MatesOf(k, d) ==
  LET g == PartyOf(Hub, clients[d].account)
      party == {w \in DOMAIN clients : w = d \/ (g # 0 /\ PartyOf(Hub, clients[w].account) = g)}
  IN {x \in checks[k].players :
        \E w \in party : x = w \/ (clients[w].group # 0 /\ clients[x].group = clients[w].group)}

\* The steps by which d itself gives up the ready check it is in.
Declines(d) ==
  IF d \notin DOMAIN clients' THEN OnDisconnect(d)
  ELSE LeaveQueue(d) \/ Violate(d) \/ (clients[d].account # NoAccount /\ Login(d, clients[d].account))

\* A ready check that fails costs only those their place who declined or did not
\* accept in time, and their party mates; everybody else searches on in their old
\* place or is already in another match.  Where somebody declined it is that one and
\* the mates who pay, and nobody else, who has not answered yet either.  (A step that
\* changes an account is left out: a login that takes an account over declines for the
\* older connection too.)
PlaceKept ==
  [][\A k \in DOMAIN checks \ DOMAIN checks' :
       LET players == checks[k].players \cap DOMAIN clients'
           idle == {id \in players : ~ clients'[id].searching /\ TheMatchOf(id)' = {}}
       IN /\ \A id \in players : clients'[id].order \in {0, clients[id].order}
          /\ (\A id \in DOMAIN clients \cap DOMAIN clients' : clients'[id].account = clients[id].account) =>
               /\ \A d \in checks[k].players : idle \subseteq MatesOf(k, d) \/ ~ Declines(d)
               /\ \/ \A id \in idle : InCheckWith(k, id) \ checks[k].accepted # {}
                  \/ \E d \in checks[k].players : Declines(d)
    ]_vars

\* Nobody searches for ever: every search ends in a match, a ready check or a stop,
\* though checks fail and send earlier players back into the queue.
EverySearchEnds == \A id \in Conns : id \in Searching ~> id \notin Searching
=============================================================================
