---------------------------- MODULE QueueProofs ----------------------------
(***************************************************************************)
(* Theorems about QueueServer, for any number of connections, accounts,    *)
(* seats and matches.                                                      *)
(*                                                                         *)
(* A handler composes operators on the hub's state, so the invariant is    *)
(* one of hubs, HubInv(h), and each operator is shown to keep its parts:   *)
(*   PlayInv     connections, ready checks, rooms and their limit;         *)
(*   AccountInv  one connection for an account;                            *)
(*   PartyInv    the parties and their members.                            *)
(* Between the steps of a handler a connection may be on its way out, an   *)
(* account logged off but still in its party, and a party be left alone:   *)
(* PlayInv and PartyInv name the ones that may (off, lone).                *)
(***************************************************************************)
EXTENDS QueueServer, TLAPS, FiniteSetTheorems, WellFoundedInduction, SequenceTheorems, FunctionTheorems

-----------------------------------------------------------------------------
(* The invariant.                                                          *)

Check == [players : SUBSET Conns, accepted : SUBSET Conns]
Party == [members : Seq(Accounts), invited : SUBSET Accounts]

IsHub(h) == h = [clients |-> h.clients, checks |-> h.checks, rooms |-> h.rooms, parties |-> h.parties]

PlayTypes(h) ==
  /\ IsHub(h)
  /\ h.clients \in [DOMAIN h.clients -> Client] /\ DOMAIN h.clients \subseteq Conns
  /\ h.checks \in [DOMAIN h.checks -> Check] /\ DOMAIN h.checks \subseteq CheckIds
  /\ h.rooms = [r \in DOMAIN h.rooms |-> h.rooms[r]] /\ DOMAIN h.rooms \subseteq RoomIds
  /\ \A r \in DOMAIN h.rooms : h.rooms[r] \in [DOMAIN h.rooms[r] -> {0} \cup Conns] /\ DOMAIN h.rooms[r] \subseteq Conns

\* A ready check and its players know of each other, and somebody still has to answer.
CheckInv(h) ==
  \A k \in DOMAIN h.checks :
    /\ h.checks[k].players = {id \in DOMAIN h.clients : h.clients[id].check = k}
    /\ h.checks[k].accepted \subseteq h.checks[k].players
    /\ h.checks[k].accepted # h.checks[k].players

\* A connection is in one activity at a time, and in none when it closes.
OneActivity(h, off) ==
  \A id \in DOMAIN h.clients :
    LET c == h.clients[id] IN
    /\ c.check \in {0} \cup DOMAIN h.checks /\ c.room \in {0} \cup DOMAIN h.rooms
    /\ c.check # 0 => ~ c.searching /\ c.room = 0
    /\ c.searching => c.room = 0
    /\ id \notin off /\ c.closing => ~ c.searching /\ c.check = 0

\* Whoever sits in a room is connected and knows it.
SeatsInv(h) ==
  \A r \in DOMAIN h.rooms : \A s \in DOMAIN h.rooms[r] :
    h.rooms[r][s] # 0 => h.rooms[r][s] \in DOMAIN h.clients /\ h.clients[h.rooms[r][s]].room = r

WithinLimit(R, C) == Cardinality(R) + Cardinality(C) <= MaxMatches

PlayInv(h, off) ==
  /\ PlayTypes(h) /\ CheckInv(h) /\ OneActivity(h, off) /\ SeatsInv(h)
  /\ WithinLimit(DOMAIN h.rooms, DOMAIN h.checks)

AccountInv(h) ==
  \A a, b \in DOMAIN h.clients :
    h.clients[a].account = h.clients[b].account /\ h.clients[a].account # NoAccount => a = b

Online(h, k) == \E id \in DOMAIN h.clients : h.clients[id].account = k

Distinct(s) == \A i, j \in DOMAIN s : s[i] = s[j] => i = j

\* One party, apart from whether it may be left alone and who of it is online.
PartyFits(p) == Distinct(p.members) /\ Len(p.members) <= Seats /\ p.invited \cap Range(p.members) = {}

Disjoint(P) == \A g, o \in DOMAIN P : g # o => Range(P[g].members) \cap Range(P[o].members) = {}

PartyInv(h, off, lone) ==
  /\ h.parties \in [DOMAIN h.parties -> Party] /\ DOMAIN h.parties \subseteq PartyIds
  /\ \A g \in DOMAIN h.parties :
       /\ PartyFits(h.parties[g])
       /\ g \in lone \/ ~ Lingers(h.parties[g])
       /\ \A k \in Range(h.parties[g].members) : k \in off \/ Online(h, k)
  /\ Disjoint(h.parties)

HubInv(h) == PlayInv(h, {}) /\ AccountInv(h) /\ PartyInv(h, {}, {})

QueueInv == HubInv(Hub)

-----------------------------------------------------------------------------
(* Numbers, ids and tables.                                                *)

LEMMA Parameters ==
  /\ NumConns \in Nat /\ NumConns > 0 /\ Conns \subseteq Nat /\ 0 \notin Conns
  /\ IsFiniteSet(Conns) /\ Cardinality(Conns) = NumConns
  /\ MaxMatches \in Nat /\ MaxMatches > 0 /\ RoomIds \subseteq Nat /\ 0 \notin RoomIds /\ CheckIds = RoomIds
  /\ IsFiniteSet(RoomIds) /\ Cardinality(RoomIds) = 2 * MaxMatches
  /\ IsFiniteSet(Accounts) /\ NoAccount \notin Accounts /\ Cardinality(Accounts) \in Nat
  /\ PartyIds \subseteq Nat /\ 0 \notin PartyIds
  /\ IsFiniteSet(PartyIds) /\ Cardinality(PartyIds) = 2 * (NumConns + Cardinality(Accounts))
  /\ Seats \in Nat /\ Seats > 1 /\ MaxOrder \in Nat /\ MaxOrder > 0
  /\ Modes \subseteq {"bots", "normal", "ranked"} /\ Wants \subseteq BOOLEAN /\ Friends \subseteq Accounts \X Accounts
<1>1. /\ NumConns \in Nat /\ NumConns > 0 /\ MaxMatches \in Nat /\ MaxMatches > 0
      /\ IsFiniteSet(Accounts) /\ NoAccount \notin Accounts
      /\ Seats \in Nat /\ Seats > 1 /\ MaxOrder \in Nat /\ MaxOrder > 0
      /\ Modes \subseteq {"bots", "normal", "ranked"} /\ Wants \subseteq BOOLEAN /\ Friends \subseteq Accounts \X Accounts
  BY QueueServerAssumption
<1>2. Cardinality(Accounts) \in Nat
  BY <1>1, FS_CardinalityType
<1>3. ASSUME NEW n \in Nat
      PROVE  1 .. n \subseteq Nat /\ 0 \notin 1 .. n /\ IsFiniteSet(1 .. n) /\ Cardinality(1 .. n) = n
  BY FS_Interval
<1>4. Conns = 1 .. NumConns /\ RoomIds = 1 .. 2 * MaxMatches /\ CheckIds = RoomIds
      /\ PartyIds = 1 .. 2 * (NumConns + Cardinality(Accounts))
  BY DEF Conns, RoomIds, CheckIds, PartyIds
<1>5. 2 * MaxMatches \in Nat /\ 2 * (NumConns + Cardinality(Accounts)) \in Nat
  BY <1>1, <1>2
<1> QED
  BY <1>1, <1>2, <1>3, <1>4, <1>5

\* A set of natural numbers has a least one.
LEMMA LeastExists ==
  ASSUME NEW S \in SUBSET Nat, S # {}
  PROVE  LowestOf(S) \in S /\ \A y \in S : LowestOf(S) <= y
<1> DEFINE R == OpToRel(<, Nat)
<1>1. \E x \in S : \A y \in S : <<y, x>> \notin R
  <2> HIDE DEF R
  <2>1. IsWellFoundedOn(R, Nat)
    BY NatLessThanWellFounded DEF R
  <2> QED
    BY <2>1, WFMin
<1>2. PICK x \in S : \A y \in S : ~ y < x
  BY <1>1 DEF OpToRel
<1>3. \A y \in S : x <= y
  BY <1>2
<1> QED
  BY <1>3 DEF LowestOf

\* Some id is free as long as two tables do not fill them all.
LEMMA FreeId ==
  ASSUME NEW n \in Nat, NEW Ids \in SUBSET Nat, IsFiniteSet(Ids), Cardinality(Ids) = 2 * n,
         NEW A \in SUBSET Ids, NEW B \in SUBSET Ids, Cardinality(A) <= n, Cardinality(B) < n
  PROVE  LowestOf(Ids \ (A \cup B)) \in Ids \ (A \cup B)
<1>1. IsFiniteSet(A) /\ IsFiniteSet(B)
  BY FS_Subset
<1>2. Cardinality(A) \in Nat /\ Cardinality(B) \in Nat /\ Cardinality(A \cap B) \in Nat
  BY <1>1, FS_CardinalityType, FS_Intersection
<1>3. Cardinality(A \cup B) = Cardinality(A) + Cardinality(B) - Cardinality(A \cap B)
  BY <1>1, FS_Union
<1>4. A \cup B # Ids
  <2> SUFFICES ASSUME A \cup B = Ids PROVE FALSE
    OBVIOUS
  <2>1. Cardinality(A \cup B) = 2 * n
    OBVIOUS
  <2> QED
    BY <1>2, <1>3, <2>1
<1>5. Ids \ (A \cup B) # {} /\ Ids \ (A \cup B) \in SUBSET Nat
  BY <1>4
<1> QED
  BY <1>5, LeastExists

LEMMA WithIs ==
  ASSUME NEW f, NEW x, NEW v, NEW w, w = With(f, x, v)
  PROVE  /\ DOMAIN w = DOMAIN f \cup {x} /\ w[x] = v
         /\ \A y \in DOMAIN f \ {x} : w[y] = f[y]
         /\ w = [y \in DOMAIN f \cup {x} |-> w[y]]
BY DEF With

LEMMA WithoutIs ==
  ASSUME NEW f, NEW S
  PROVE  /\ DOMAIN Without(f, S) = DOMAIN f \ S
         /\ \A y \in DOMAIN f \ S : Without(f, S)[y] = f[y]
         /\ Without(f, S) = [y \in DOMAIN f \ S |-> Without(f, S)[y]]
BY DEF Without

\* Taking ids from a table and adding one.
LEMMA TableSizes ==
  ASSUME NEW D, IsFiniteSet(D), NEW S, NEW x
  PROVE  /\ IsFiniteSet(D \ S) /\ Cardinality(D \ S) \in Nat /\ Cardinality(D \ S) <= Cardinality(D)
         /\ x \in D => Cardinality(D \ {x}) = Cardinality(D) - 1
         /\ IsFiniteSet(D \cup {x}) /\ Cardinality(D \cup {x}) <= Cardinality(D) + 1
         /\ Cardinality(D) \in Nat /\ Cardinality(D \cup {x}) \in Nat
<1>1. IsFiniteSet(D \ S) /\ Cardinality(D \ S) <= Cardinality(D)
  BY FS_Subset
<1>2. x \in D => Cardinality(D \ {x}) = Cardinality(D) - 1
  BY FS_RemoveElement
<1>3. /\ IsFiniteSet(D \cup {x})
      /\ Cardinality(D \cup {x}) = IF x \in D THEN Cardinality(D) ELSE Cardinality(D) + 1
  BY FS_AddElement
<1>4. Cardinality(D) \in Nat /\ Cardinality(D \ S) \in Nat /\ Cardinality(D \cup {x}) \in Nat
  BY <1>1, <1>3, FS_CardinalityType
<1> QED
  BY <1>1, <1>2, <1>3, <1>4

LEMMA FiniteTables ==
  ASSUME NEW h, PlayTypes(h)
  PROVE  IsFiniteSet(DOMAIN h.rooms) /\ IsFiniteSet(DOMAIN h.checks) /\ IsFiniteSet(DOMAIN h.clients)
BY Parameters, FS_Subset DEF PlayTypes

-----------------------------------------------------------------------------
(* Clients.                                                                *)

LEMMA NewClientIs ==
  /\ NewClient \in Client /\ NewClient.account = NoAccount /\ ~ NewClient.closing
  /\ NewClient.room = 0 /\ NewClient.check = 0 /\ ~ NewClient.searching /\ NewClient.group = 0
<1>1. 0 \in 0 .. MaxOrder
  BY Parameters
<1>2. PICK no : no = FALSE
  OBVIOUS
<1>3. NewClient = [account |-> NoAccount, closing |-> no, room |-> 0, check |-> 0, searching |-> no,
                   mode |-> "none", order |-> 0, waited |-> no, wants |-> no, group |-> 0]
  BY <1>2 DEF NewClient
<1>4. no \in BOOLEAN /\ ~ no
  BY <1>2
<1> QED
  BY <1>1, <1>3, <1>4 DEF Client

\* The fields of a client, one by one.
LEMMA ClientIs ==
  ASSUME NEW c \in Client
  PROVE  /\ c = [account |-> c.account, closing |-> c.closing, room |-> c.room, check |-> c.check,
                 searching |-> c.searching, mode |-> c.mode, order |-> c.order, waited |-> c.waited,
                 wants |-> c.wants, group |-> c.group]
         /\ c.account \in Accounts \cup {NoAccount} /\ c.closing \in BOOLEAN /\ c.searching \in BOOLEAN
         /\ c.room \in {0} \cup RoomIds /\ c.check \in {0} \cup CheckIds
         /\ c.mode \in Modes \cup {"none"} /\ c.order \in 0 .. MaxOrder
         /\ c.waited \in BOOLEAN /\ c.wants \in BOOLEAN /\ c.group \in {0} \cup PartyIds
BY DEF Client

LEMMA StoppedIs ==
  ASSUME NEW c \in Client
  PROVE  /\ Stopped(c) \in Client
         /\ Stopped(c).account = c.account /\ Stopped(c).closing = c.closing
         /\ Stopped(c).room = c.room /\ Stopped(c).check = c.check
         /\ ~ Stopped(c).searching /\ Stopped(c).order = 0
<1>1. 0 \in 0 .. MaxOrder
  BY Parameters
<1>2. PICK no : no = FALSE
  OBVIOUS
<1>3. Stopped(c) = [account |-> c.account, closing |-> c.closing, room |-> c.room, check |-> c.check,
                    searching |-> no, mode |-> "none", order |-> 0, waited |-> no, wants |-> no, group |-> 0]
  <2>1. c = [account |-> c.account, closing |-> c.closing, room |-> c.room, check |-> c.check,
             searching |-> c.searching, mode |-> c.mode, order |-> c.order, waited |-> c.waited,
             wants |-> c.wants, group |-> c.group]
    BY ClientIs
  <2>2. Stopped(c) = [c EXCEPT !.searching = no, !.mode = "none", !.order = 0, !.waited = no, !.wants = no, !.group = 0]
    BY <1>2 DEF Stopped
  <2> QED
    BY <2>1, <2>2
<1>4. no \in BOOLEAN /\ ~ no
  BY <1>2
<1> QED
  BY <1>1, <1>3, <1>4, ClientIs DEF Client

-----------------------------------------------------------------------------
(* Stopping searches.                                                      *)

\* Nobody has come, gone or logged in or out; parties are as they were.
SameAccounts(h2, h) ==
  /\ h2.parties = h.parties /\ DOMAIN h2.clients = DOMAIN h.clients
  /\ \A id \in DOMAIN h.clients : h2.clients[id].account = h.clients[id].account

\* n is h with no check more, and nobody has another place in the queue, but for losing it.
Quiet(n, h) ==
  /\ DOMAIN n.checks \subseteq DOMAIN h.checks
  /\ \A w \in DOMAIN n.clients \cap DOMAIN h.clients : n.clients[w].order \in {0, h.clients[w].order}

LEMMA QuietChain ==
  ASSUME NEW h, NEW h2, NEW h3, DOMAIN h2.clients = DOMAIN h.clients, Quiet(h2, h), Quiet(h3, h2)
  PROVE  Quiet(h3, h)
BY DEF Quiet

LEMMA SameAccountsKeep ==
  ASSUME NEW h, NEW h2, SameAccounts(h2, h)
  PROVE  /\ AccountInv(h) => AccountInv(h2)
         /\ \A off, lone : PartyInv(h, off, lone) => PartyInv(h2, off, lone)
         /\ \A k : Online(h2, k) <=> Online(h, k)
<1>1. \A k : Online(h2, k) <=> Online(h, k)
  BY DEF SameAccounts, Online
<1>2. AccountInv(h) => AccountInv(h2)
  BY DEF SameAccounts, AccountInv
<1>3. h2.parties = h.parties
  BY DEF SameAccounts
<1> QED
  BY <1>1, <1>2, <1>3 DEF PartyInv

\* h2 is h with some searches stopped.
Calmer(h2, h) ==
  /\ h2 = [clients |-> h2.clients, checks |-> h.checks, rooms |-> h.rooms, parties |-> h.parties]
  /\ h2.clients \in [DOMAIN h.clients -> Client]
  /\ \A w \in DOMAIN h.clients : h2.clients[w] = h.clients[w] \/ h2.clients[w] = Stopped(h.clients[w])

LEMMA CalmerKeeps ==
  ASSUME NEW h, NEW off, PlayInv(h, off), NEW h2, Calmer(h2, h)
  PROVE  PlayInv(h2, off) /\ SameAccounts(h2, h) /\ h2.checks = h.checks /\ Quiet(h2, h)
<1> DEFINE D == DOMAIN h.clients
<1>1. /\ h2.checks = h.checks /\ h2.rooms = h.rooms /\ h2.parties = h.parties
      /\ IsHub(h2) /\ DOMAIN h2.clients = D
  <2>1. h2 = [clients |-> h2.clients, checks |-> h.checks, rooms |-> h.rooms, parties |-> h.parties]
    BY DEF Calmer
  <2>2. h2.checks = h.checks /\ h2.rooms = h.rooms /\ h2.parties = h.parties
    BY <2>1
  <2>3. h2.clients \in [D -> Client]
    BY DEF Calmer
  <2> QED
    BY <2>1, <2>2, <2>3 DEF IsHub
<1>2. ASSUME NEW w \in D
      PROVE  /\ h2.clients[w].account = h.clients[w].account /\ h2.clients[w].closing = h.clients[w].closing
             /\ h2.clients[w].room = h.clients[w].room /\ h2.clients[w].check = h.clients[w].check
             /\ h2.clients[w].searching => h.clients[w].searching
             /\ h2.clients[w].order \in {0, h.clients[w].order}
  <2>1. h.clients[w] \in Client
    BY DEF PlayInv, PlayTypes
  <2> QED
    BY <2>1, StoppedIs DEF Calmer
<1>3. PlayTypes(h2)
  BY <1>1 DEF PlayInv, PlayTypes, Calmer
<1>4. CheckInv(h2)
  BY <1>1, <1>2 DEF PlayInv, CheckInv
<1>5. OneActivity(h2, off)
  BY <1>1, <1>2 DEF PlayInv, OneActivity
<1>6. SeatsInv(h2)
  BY <1>1, <1>2 DEF PlayInv, SeatsInv
<1>7. Quiet(h2, h)
  BY <1>1, <1>2 DEF Quiet
<1> QED
  BY <1>1, <1>2, <1>3, <1>4, <1>5, <1>6, <1>7 DEF PlayInv, SameAccounts

LEMMA StopSearchCalms ==
  ASSUME NEW h, PlayTypes(h), NEW id \in DOMAIN h.clients
  PROVE  Calmer(StopSearch(h, id), h) /\ ~ StopSearch(h, id).clients[id].searching
<1> DEFINE g == h.clients[id].group
           who == {id} \cup {w \in DOMAIN h.clients : g # 0 /\ h.clients[w].searching /\ h.clients[w].group = g}
           new == [w \in DOMAIN h.clients |-> IF w \in who THEN Stopped(h.clients[w]) ELSE h.clients[w]]
<1>1. StopSearch(h, id) = [h EXCEPT !.clients = new]
  BY DEF StopSearch
<1>2. \A w \in DOMAIN h.clients : h.clients[w] \in Client
  BY DEF PlayTypes
<1>3. new \in [DOMAIN h.clients -> Client]
  BY <1>2, StoppedIs
<1>4. id \in who /\ new[id] = Stopped(h.clients[id])
  OBVIOUS
<1>5. \A w \in DOMAIN h.clients : new[w] = h.clients[w] \/ new[w] = Stopped(h.clients[w])
  OBVIOUS
<1> HIDE DEF new, who
<1>6. StopSearch(h, id) = [clients |-> new, checks |-> h.checks, rooms |-> h.rooms, parties |-> h.parties]
  BY <1>1 DEF PlayTypes, IsHub
<1> QED
  BY <1>2, <1>3, <1>4, <1>5, <1>6, StoppedIs DEF Calmer

LEMMA NothingCalms ==
  ASSUME NEW h, PlayTypes(h)
  PROVE  Calmer(h, h)
BY DEF Calmer, PlayTypes, IsHub

LEMMA CancelCalms ==
  ASSUME NEW h, PlayTypes(h), NEW id \in DOMAIN h.clients
  PROVE  Calmer(CancelSearch(h, id), h) /\ ~ CancelSearch(h, id).clients[id].searching
BY StopSearchCalms, NothingCalms DEF CancelSearch

LEMMA ConnOfIs ==
  ASSUME NEW h, PlayTypes(h), NEW k
  PROVE  /\ ConnOf(h, k) # 0 => /\ ConnOf(h, k) \in DOMAIN h.clients /\ h.clients[ConnOf(h, k)].account = k
                                /\ ~ h.clients[ConnOf(h, k)].closing
         /\ ConnOf(h, k) = 0 /\ k # NoAccount => \A id \in DOMAIN h.clients : h.clients[id].account = k => h.clients[id].closing
<1> DEFINE on == {id \in DOMAIN h.clients : h.clients[id].account = k /\ ~ h.clients[id].closing}
<1>1. on \in SUBSET Nat /\ 0 \notin on
  BY Parameters DEF PlayTypes
<1>2. on # {} => LowestOf(on) \in on
  BY <1>1, LeastExists
<1>3. ConnOf(h, k) = IF k = NoAccount \/ on = {} THEN 0 ELSE LowestOf(on)
  BY DEF ConnOf
<1>4. k = NoAccount \/ on = {} => ConnOf(h, k) = 0
  BY <1>3
<1>5. ~ (k = NoAccount \/ on = {}) => ConnOf(h, k) \in on
  BY <1>2, <1>3
<1> QED
  BY <1>1, <1>4, <1>5

LEMMA HaltCalms ==
  ASSUME NEW h, PlayTypes(h), NEW g, h.parties[g].members \in Seq(Accounts)
  PROVE  Calmer(HaltPartySearch(h, g), h)
<1> DEFINE members == h.parties[g].members
           at == {i \in DOMAIN members : ConnOf(h, members[i]) # 0 /\ h.clients[ConnOf(h, members[i])].searching}
           i == LowestOf(at)
<1>1. CASE at = {}
  <2>1. HaltPartySearch(h, g) = h
    BY <1>1 DEF HaltPartySearch
  <2> QED
    BY <2>1, NothingCalms
<1>2. CASE at # {}
  <2>1. at \in SUBSET Nat
    <3>1. members \in Seq(Accounts)
      OBVIOUS
    <3>2. DOMAIN members = 1 .. Len(members) /\ Len(members) \in Nat
      BY <3>1
    <3> QED
      BY <3>2
  <2>2. i \in at
    BY <1>2, <2>1, LeastExists
  <2>3. ConnOf(h, members[i]) \in DOMAIN h.clients
    BY <2>2, ConnOfIs
  <2>4. HaltPartySearch(h, g) = StopSearch(h, ConnOf(h, members[i]))
    BY <1>2 DEF HaltPartySearch
  <2> HIDE DEF i
  <2> QED
    BY <2>3, <2>4, StopSearchCalms
<1> QED
  BY <1>1, <1>2

-----------------------------------------------------------------------------
(* Failing ready checks.                                                   *)

\* h2 is h with the checks of K failed.
Failed(h2, h, K) ==
  /\ h2 = [clients |-> h2.clients, checks |-> Without(h.checks, K), rooms |-> h.rooms, parties |-> h.parties]
  /\ h2.clients \in [DOMAIN h.clients -> Client]
  /\ \A w \in DOMAIN h.clients :
       /\ h2.clients[w].account = h.clients[w].account /\ h2.clients[w].closing = h.clients[w].closing
       /\ h2.clients[w].room = h.clients[w].room
       /\ h2.clients[w].order \in {0, h.clients[w].order}
       /\ h.clients[w].check \in K =>
            h2.clients[w].check = 0 /\ (h2.clients[w].searching => ~ h.clients[w].closing)
       /\ h.clients[w].check \notin K => h2.clients[w] = h.clients[w]

LEMMA FailProposalsFails ==
  ASSUME NEW h, PlayTypes(h), NEW K, NEW decliners
  PROVE  Failed(FailProposals(h, K, decliners), h, K)
<1> DEFINE c == h.clients
           Out(id) == \/ id \in decliners \/ c[id].closing
                      \/ \E d \in decliners : /\ c[d].check = c[id].check
                                              /\ c[d].group = c[id].group /\ c[d].group # 0
           One(id) == IF ~ c[id].check \in K THEN c[id]
                      ELSE IF Out(id) THEN [Stopped(c[id]) EXCEPT !.check = 0]
                      ELSE [c[id] EXCEPT !.check = 0, !.searching = TRUE]
           new == [id \in DOMAIN c |-> One(id)]
           left == Without(h.checks, K)
<1>1. FailProposals(h, K, decliners) = [h EXCEPT !.checks = left, !.clients = new]
  BY DEF FailProposals
<1>2. ASSUME NEW w \in DOMAIN c
      PROVE  /\ One(w) \in Client
             /\ One(w).account = c[w].account /\ One(w).closing = c[w].closing /\ One(w).room = c[w].room
             /\ One(w).order \in {0, c[w].order}
             /\ c[w].check \in K => One(w).check = 0 /\ (One(w).searching => ~ c[w].closing)
             /\ c[w].check \notin K => One(w) = c[w]
  <2>1. c[w] \in Client
    BY DEF PlayTypes
  <2>2. CASE c[w].check \notin K
    <3>1. One(w) = c[w]
      BY <2>2
    <3> HIDE DEF One
    <3> QED
      BY <2>1, <2>2, <3>1
  <2>3. CASE c[w].check \in K /\ Out(w)
    <3> DEFINE s == Stopped(c[w])
    <3>1. One(w) = [s EXCEPT !.check = 0]
      BY <2>3
    <3>2. s \in Client /\ s.account = c[w].account /\ s.closing = c[w].closing /\ s.room = c[w].room /\ ~ s.searching /\ s.order = 0
      BY <2>1, StoppedIs
    <3> HIDE DEF s, One, Out
    <3>3. One(w) \in Client
      BY <3>1, <3>2 DEF Client
    <3>4. /\ One(w).account = s.account /\ One(w).closing = s.closing /\ One(w).room = s.room
          /\ One(w).check = 0 /\ One(w).searching = s.searching /\ One(w).order = s.order
      BY <3>1, <3>2, ClientIs
    <3> QED
      BY <2>3, <3>2, <3>3, <3>4
  <2>4. CASE c[w].check \in K /\ ~ Out(w)
    <3>1. PICK yes : yes = TRUE
      OBVIOUS
    <3> DEFINE d == c[w]
    <3>2. One(w) = [d EXCEPT !.check = 0, !.searching = yes]
      BY <2>4, <3>1
    <3>3. ~ d.closing
      BY <2>4
    <3>4. d \in Client
      BY <2>1
    <3> HIDE DEF d, One, Out
    <3>5. One(w) = [account |-> d.account, closing |-> d.closing, room |-> d.room, check |-> 0,
                    searching |-> yes, mode |-> d.mode, order |-> d.order, waited |-> d.waited,
                    wants |-> d.wants, group |-> d.group]
      BY <3>2, <3>4, ClientIs
    <3>6. yes \in BOOLEAN
      BY <3>1
    <3>7. One(w) \in Client
      BY <3>4, <3>5, <3>6, ClientIs DEF Client
    <3>8. One(w).account = d.account /\ One(w).closing = d.closing /\ One(w).room = d.room /\ One(w).check = 0 /\ One(w).order = d.order
      BY <3>5
    <3> QED
      BY <2>4, <3>3, <3>7, <3>8 DEF d
  <2> QED
    BY <2>2, <2>3, <2>4
<1> HIDE DEF One, left
<1>3. new \in [DOMAIN c -> Client] /\ \A w \in DOMAIN c : new[w] = One(w)
  BY <1>2
<1> HIDE DEF new
<1>4. FailProposals(h, K, decliners) = [clients |-> new, checks |-> left, rooms |-> h.rooms, parties |-> h.parties]
  BY <1>1 DEF PlayTypes, IsHub
<1> QED
  BY <1>2, <1>3, <1>4 DEF Failed, left

LEMMA FailedKeeps ==
  ASSUME NEW h, NEW off, PlayInv(h, off), NEW K, 0 \notin K, NEW h2, Failed(h2, h, K)
  PROVE  /\ PlayInv(h2, off) /\ SameAccounts(h2, h) /\ Quiet(h2, h)
         /\ Cardinality(DOMAIN h2.checks) <= Cardinality(DOMAIN h.checks)
<1> DEFINE D == DOMAIN h.clients
<1>1. /\ h2.checks = Without(h.checks, K) /\ h2.rooms = h.rooms /\ h2.parties = h.parties
      /\ IsHub(h2) /\ h2.clients \in [D -> Client] /\ DOMAIN h2.clients = D
  <2>1. h2 = [clients |-> h2.clients, checks |-> Without(h.checks, K), rooms |-> h.rooms, parties |-> h.parties]
    BY DEF Failed
  <2>2. h2.checks = Without(h.checks, K) /\ h2.rooms = h.rooms /\ h2.parties = h.parties
    BY <2>1
  <2>3. h2.clients \in [D -> Client]
    BY DEF Failed
  <2> QED
    BY <2>1, <2>2, <2>3 DEF IsHub
<1>2. /\ DOMAIN h2.checks = DOMAIN h.checks \ K /\ \A k \in DOMAIN h2.checks : h2.checks[k] = h.checks[k]
      /\ h2.checks = [k \in DOMAIN h2.checks |-> h2.checks[k]]
  <2> DEFINE f == h.checks
             left == Without(f, K)
  <2>1. /\ DOMAIN left = DOMAIN f \ K /\ \A k \in DOMAIN f \ K : left[k] = f[k]
        /\ left = [k \in DOMAIN f \ K |-> left[k]]
    BY WithoutIs
  <2>2. h2.checks = left
    BY <1>1
  <2> HIDE DEF left
  <2> QED
    BY <2>1, <2>2
<1>3. ASSUME NEW w \in D
      PROVE  /\ h2.clients[w].account = h.clients[w].account /\ h2.clients[w].closing = h.clients[w].closing
             /\ h2.clients[w].room = h.clients[w].room /\ h2.clients[w].order \in {0, h.clients[w].order}
             /\ h.clients[w].check \in K => h2.clients[w].check = 0 /\ (h2.clients[w].searching => ~ h.clients[w].closing)
             /\ h.clients[w].check \notin K => h2.clients[w] = h.clients[w]
             /\ h.clients[w].check \in {0} \cup DOMAIN h.checks
             /\ h.clients[w].check # 0 => h.clients[w].room = 0
  BY DEF Failed, PlayInv, OneActivity
<1>4. h2.checks \in [DOMAIN h2.checks -> Check] /\ 0 \notin DOMAIN h.checks /\ DOMAIN h2.checks \subseteq CheckIds
  BY <1>2, Parameters DEF PlayInv, PlayTypes
<1>5. PlayTypes(h2)
  BY <1>1, <1>4 DEF PlayInv, PlayTypes
<1>6. CheckInv(h2)
  <2> SUFFICES ASSUME NEW k \in DOMAIN h2.checks
               PROVE  {id \in D : h2.clients[id].check = k} = {id \in D : h.clients[id].check = k}
    BY <1>1, <1>2 DEF PlayInv, CheckInv
  <2>1. k # 0 /\ k \notin K
    BY <1>2, <1>4
  <2> QED
    BY <1>3, <2>1
<1>7. OneActivity(h2, off)
  <2> SUFFICES ASSUME NEW id \in D
               PROVE  LET c == h2.clients[id] IN
                      /\ c.check \in {0} \cup DOMAIN h2.checks /\ c.room \in {0} \cup DOMAIN h2.rooms
                      /\ c.check # 0 => ~ c.searching /\ c.room = 0
                      /\ c.searching => c.room = 0
                      /\ id \notin off /\ c.closing => ~ c.searching /\ c.check = 0
    BY <1>1 DEF OneActivity
  <2>1. LET c == h.clients[id] IN
        /\ c.check \in {0} \cup DOMAIN h.checks /\ c.room \in {0} \cup DOMAIN h.rooms
        /\ c.check # 0 => ~ c.searching /\ c.room = 0
        /\ c.searching => c.room = 0
        /\ id \notin off /\ c.closing => ~ c.searching /\ c.check = 0
    BY DEF PlayInv, OneActivity
  <2>2. CASE h.clients[id].check \in K /\ h.clients[id].check # 0
    BY <1>1, <1>3, <2>1, <2>2
  <2>3. CASE h.clients[id].check \notin K
    BY <1>1, <1>2, <1>3, <2>1, <2>3
  <2>4. h.clients[id].check = 0 => 0 \notin K
    OBVIOUS
  <2> QED
    BY <2>2, <2>3, <2>4
<1>8. SeatsInv(h2)
  BY <1>1, <1>3 DEF PlayInv, SeatsInv
<1>9. Cardinality(DOMAIN h2.checks) <= Cardinality(DOMAIN h.checks)
  BY <1>2, FiniteTables, TableSizes DEF PlayInv
<1>10. WithinLimit(DOMAIN h2.rooms, DOMAIN h2.checks)
  <2>1. /\ Cardinality(DOMAIN h.rooms) \in Nat /\ Cardinality(DOMAIN h.checks) \in Nat /\ Cardinality(DOMAIN h2.checks) \in Nat
    BY <1>5, FiniteTables, FS_CardinalityType DEF PlayInv
  <2> QED
    BY <1>1, <1>9, <2>1, Parameters DEF PlayInv, WithinLimit
<1>11. Quiet(h2, h)
  BY <1>1, <1>2, <1>3 DEF Quiet
<1> QED
  BY <1>1, <1>3, <1>5, <1>6, <1>7, <1>8, <1>9, <1>10, <1>11 DEF PlayInv, SameAccounts

-----------------------------------------------------------------------------
(* Changes of the clients alone.                                           *)

\* A hub with one of its four maps replaced.
LEMMA HubParts ==
  ASSUME NEW h, IsHub(h), NEW v
  PROVE  /\ [h EXCEPT !.clients = v] = [clients |-> v, checks |-> h.checks, rooms |-> h.rooms, parties |-> h.parties]
         /\ [h EXCEPT !.checks = v] = [clients |-> h.clients, checks |-> v, rooms |-> h.rooms, parties |-> h.parties]
         /\ [h EXCEPT !.rooms = v] = [clients |-> h.clients, checks |-> h.checks, rooms |-> v, parties |-> h.parties]
         /\ [h EXCEPT !.parties = v] = [clients |-> h.clients, checks |-> h.checks, rooms |-> h.rooms, parties |-> v]
BY DEF IsHub

\* What a client may change without regard to the others.
LEMMA ClientsChange ==
  ASSUME NEW h, NEW off, PlayInv(h, off), NEW c \in [DOMAIN h.clients -> Client], NEW out,
         NEW h2, h2 = [clients |-> c, checks |-> h.checks, rooms |-> h.rooms, parties |-> h.parties],
         \A w \in DOMAIN h.clients :
           /\ c[w].check = h.clients[w].check
           /\ c[w].room = h.clients[w].room \/ (c[w].room = 0 /\ \A r \in DOMAIN h.rooms : \A s \in DOMAIN h.rooms[r] : h.rooms[r][s] # w)
           /\ c[w].searching => h.clients[w].searching \/ (c[w].check = 0 /\ c[w].room = 0)
           /\ w \notin out /\ c[w].closing => ~ c[w].searching /\ c[w].check = 0
  PROVE  PlayInv(h2, out)
<1> DEFINE D == DOMAIN h.clients
<1>1. /\ h2.clients = c /\ h2.checks = h.checks /\ h2.rooms = h.rooms /\ IsHub(h2) /\ DOMAIN h2.clients = D
  BY DEF IsHub
<1>2. PlayTypes(h2)
  BY <1>1 DEF PlayInv, PlayTypes
<1>3. CheckInv(h2)
  BY <1>1 DEF PlayInv, CheckInv
<1>4. OneActivity(h2, out)
  <2> SUFFICES ASSUME NEW id \in D
               PROVE  LET d == h2.clients[id] IN
                      /\ d.check \in {0} \cup DOMAIN h2.checks /\ d.room \in {0} \cup DOMAIN h2.rooms
                      /\ d.check # 0 => ~ d.searching /\ d.room = 0
                      /\ d.searching => d.room = 0
                      /\ id \notin out /\ d.closing => ~ d.searching /\ d.check = 0
    BY <1>1 DEF OneActivity
  <2>1. LET d == h.clients[id] IN
        /\ d.check \in {0} \cup DOMAIN h.checks /\ d.room \in {0} \cup DOMAIN h.rooms
        /\ d.check # 0 => ~ d.searching /\ d.room = 0
        /\ d.searching => d.room = 0
    BY DEF PlayInv, OneActivity
  <2> QED
    BY <1>1, <2>1
<1>5. SeatsInv(h2)
  BY <1>1 DEF PlayInv, SeatsInv
<1> QED
  BY <1>1, <1>2, <1>3, <1>4, <1>5 DEF PlayInv

LEMMA SameAccountsChain ==
  ASSUME NEW h, NEW h2, NEW h3, SameAccounts(h2, h), SameAccounts(h3, h2)
  PROVE  SameAccounts(h3, h)
BY DEF SameAccounts

\* Decline ends the check of a connection, and does not make it search unless it is open.
LEMMA DeclineKeeps ==
  ASSUME NEW h, NEW off, PlayInv(h, off), NEW id \in DOMAIN h.clients,
         NEW n, n = Decline(h, id)
  PROVE  /\ PlayInv(n, off) /\ SameAccounts(n, h) /\ n.rooms = h.rooms /\ Quiet(n, h)
         /\ n.clients[id].check = 0 /\ n.clients[id].closing = h.clients[id].closing
         /\ n.clients[id].room = h.clients[id].room
         /\ n.clients[id].searching => h.clients[id].searching \/ ~ h.clients[id].closing
<1> DEFINE k == h.clients[id].check
<1>1. CASE k = 0
  <2>1. n = h
    BY <1>1 DEF Decline
  <2> QED
    BY <1>1, <2>1 DEF SameAccounts, Quiet
<1>2. CASE k # 0
  <2>1. n = FailProposals(h, {k}, {id})
    BY <1>2 DEF Decline
  <2>2. Failed(n, h, {k})
    BY <2>1, FailProposalsFails DEF PlayInv
  <2>3. PlayInv(n, off) /\ SameAccounts(n, h) /\ Quiet(n, h)
    BY <1>2, <2>2, FailedKeeps
  <2>4. n = [clients |-> n.clients, checks |-> Without(h.checks, {k}), rooms |-> h.rooms, parties |-> h.parties]
    BY <2>2 DEF Failed
  <2>5. n.rooms = h.rooms
    BY <2>4
  <2>6. /\ n.clients[id].check = 0 /\ n.clients[id].closing = h.clients[id].closing
        /\ n.clients[id].room = h.clients[id].room
        /\ n.clients[id].searching => ~ h.clients[id].closing
    BY <2>2 DEF Failed
  <2> QED
    BY <2>3, <2>5, <2>6
<1> QED
  BY <1>1, <1>2

LEMMA CancelKeeps ==
  ASSUME NEW h, NEW off, PlayInv(h, off), NEW id \in DOMAIN h.clients,
         NEW n, n = CancelSearch(h, id)
  PROVE  /\ PlayInv(n, off) /\ SameAccounts(n, h) /\ n.rooms = h.rooms /\ n.checks = h.checks /\ Quiet(n, h)
         /\ ~ n.clients[id].searching
         /\ n.clients[id].check = h.clients[id].check /\ n.clients[id].closing = h.clients[id].closing
         /\ n.clients[id].room = h.clients[id].room
<1>1. Calmer(n, h) /\ ~ n.clients[id].searching
  BY CancelCalms DEF PlayInv
<1>2. PlayInv(n, off) /\ SameAccounts(n, h) /\ n.checks = h.checks /\ Quiet(n, h)
  BY <1>1, CalmerKeeps
<1>3. n = [clients |-> n.clients, checks |-> h.checks, rooms |-> h.rooms, parties |-> h.parties]
  BY <1>1 DEF Calmer
<1>4. n.rooms = h.rooms
  BY <1>3
<1>5. h.clients[id] \in Client /\ (n.clients[id] = h.clients[id] \/ n.clients[id] = Stopped(h.clients[id]))
  BY <1>1 DEF Calmer, PlayInv, PlayTypes
<1> QED
  BY <1>1, <1>2, <1>4, <1>5, StoppedIs

\* One field of one client.
LEMMA FieldIs ==
  ASSUME NEW c \in Client, NEW v
  PROVE  /\ [c EXCEPT !.closing = v] = [account |-> c.account, closing |-> v, room |-> c.room, check |-> c.check,
               searching |-> c.searching, mode |-> c.mode, order |-> c.order, waited |-> c.waited,
               wants |-> c.wants, group |-> c.group]
         /\ [c EXCEPT !.account = v] = [account |-> v, closing |-> c.closing, room |-> c.room, check |-> c.check,
               searching |-> c.searching, mode |-> c.mode, order |-> c.order, waited |-> c.waited,
               wants |-> c.wants, group |-> c.group]
         /\ [c EXCEPT !.room = v] = [account |-> c.account, closing |-> c.closing, room |-> v, check |-> c.check,
               searching |-> c.searching, mode |-> c.mode, order |-> c.order, waited |-> c.waited,
               wants |-> c.wants, group |-> c.group]
         /\ [c EXCEPT !.waited = v] = [account |-> c.account, closing |-> c.closing, room |-> c.room, check |-> c.check,
               searching |-> c.searching, mode |-> c.mode, order |-> c.order, waited |-> v,
               wants |-> c.wants, group |-> c.group]
         /\ [c EXCEPT !.check = v] = [account |-> c.account, closing |-> c.closing, room |-> c.room, check |-> v,
               searching |-> c.searching, mode |-> c.mode, order |-> c.order, waited |-> c.waited,
               wants |-> c.wants, group |-> c.group]
BY ClientIs

\* closing is set on one connection.
LEMMA MarkedKeeps ==
  ASSUME NEW h, PlayInv(h, {}), NEW id \in DOMAIN h.clients,
         NEW n, n = [h EXCEPT !.clients[id].closing = TRUE]
  PROVE  /\ PlayInv(n, {id}) /\ SameAccounts(n, h) /\ n.rooms = h.rooms /\ n.checks = h.checks /\ Quiet(n, h)
         /\ n.clients[id].closing /\ n.clients[id].room = h.clients[id].room
         /\ \A w \in DOMAIN h.clients : /\ n.clients[w].check = h.clients[w].check
                                        /\ n.clients[w].searching = h.clients[w].searching
                                        /\ n.clients[w].group = h.clients[w].group
                                        /\ w # id => n.clients[w] = h.clients[w]
<1> PICK yes : yes = TRUE
  OBVIOUS
<1> DEFINE f == h.clients
           c == [f EXCEPT ![id] = [f[id] EXCEPT !.closing = yes]]
<1>1. /\ IsHub(h) /\ f \in [DOMAIN f -> Client] /\ f[id] \in Client
  BY DEF PlayInv, PlayTypes
<1>2. n = [h EXCEPT !.clients = c]
  OBVIOUS
<1>3. [f[id] EXCEPT !.closing = yes] = [account |-> f[id].account, closing |-> yes, room |-> f[id].room, check |-> f[id].check,
               searching |-> f[id].searching, mode |-> f[id].mode, order |-> f[id].order, waited |-> f[id].waited,
               wants |-> f[id].wants, group |-> f[id].group]
  BY <1>1, FieldIs
<1>4. yes \in BOOLEAN
  OBVIOUS
<1>5. [f[id] EXCEPT !.closing = yes] \in Client
  BY <1>1, <1>3, <1>4, ClientIs DEF Client
<1>6. /\ c \in [DOMAIN f -> Client] /\ \A w \in DOMAIN f \ {id} : c[w] = f[w]
      /\ c[id] = [f[id] EXCEPT !.closing = yes]
  BY <1>1, <1>5
<1>7. /\ c[id].account = f[id].account /\ c[id].room = f[id].room /\ c[id].check = f[id].check
      /\ c[id].searching = f[id].searching /\ c[id].closing /\ c[id].order = f[id].order
      /\ c[id].group = f[id].group
  BY <1>3, <1>6
<1> HIDE DEF c, f
<1>8. n = [clients |-> c, checks |-> h.checks, rooms |-> h.rooms, parties |-> h.parties]
  BY <1>1, <1>2, HubParts
<1>9. f = h.clients
  BY DEF f
<1>10. \A w \in DOMAIN f \ {id} : f[w].closing => ~ f[w].searching /\ f[w].check = 0
  BY <1>9 DEF PlayInv, OneActivity
<1>11. \A w \in DOMAIN h.clients :
         /\ c[w].check = h.clients[w].check
         /\ c[w].room = h.clients[w].room
         /\ c[w].searching => h.clients[w].searching
         /\ w \notin {id} /\ c[w].closing => ~ c[w].searching /\ c[w].check = 0
  <2> TAKE w \in DOMAIN h.clients
  <2>1. CASE w = id
    BY <1>7, <1>9, <2>1
  <2>2. CASE w # id
    BY <1>6, <1>9, <1>10, <2>2
  <2> QED
    BY <2>1, <2>2
<1>12. c \in [DOMAIN h.clients -> Client]
  BY <1>6, <1>9
<1>13. PlayInv(n, {id})
  BY <1>8, <1>11, <1>12, ClientsChange, ZenonT(60)
<1>14. n.clients = c /\ n.checks = h.checks
  BY <1>8
<1>15. Quiet(n, h)
  BY <1>6, <1>7, <1>9, <1>14 DEF Quiet
<1>16. \A w \in DOMAIN h.clients : /\ n.clients[w].check = h.clients[w].check
                                   /\ n.clients[w].searching = h.clients[w].searching
                                   /\ n.clients[w].group = h.clients[w].group
                                   /\ w # id => n.clients[w] = h.clients[w]
  BY <1>6, <1>7, <1>9, <1>14
<1> QED
  BY <1>6, <1>7, <1>8, <1>9, <1>13, <1>14, <1>15, <1>16 DEF SameAccounts

\* Whoever is out of all activities is no exception any more.
LEMMA IdleAgain ==
  ASSUME NEW h, NEW id, PlayInv(h, {id}), ~ h.clients[id].searching, h.clients[id].check = 0
  PROVE  PlayInv(h, {})
BY DEF PlayInv, OneActivity

LEMMA ClosingKeeps ==
  ASSUME NEW h, PlayInv(h, {}), NEW id \in DOMAIN h.clients, NEW n, n = Closing(h, id)
  PROVE  /\ PlayInv(n, {}) /\ SameAccounts(n, h) /\ n.rooms = h.rooms /\ Quiet(n, h)
         /\ ~ n.clients[id].searching /\ n.clients[id].check = 0
<1> DEFINE a == [h EXCEPT !.clients[id].closing = TRUE]
           b == CancelSearch(a, id)
<1>1. /\ PlayInv(a, {id}) /\ SameAccounts(a, h) /\ a.rooms = h.rooms /\ a.clients[id].closing /\ Quiet(a, h)
  BY MarkedKeeps
<1>2. n = Decline(b, id)
  BY DEF Closing
<1> HIDE DEF a
<1>3. /\ PlayInv(b, {id}) /\ SameAccounts(b, a) /\ b.rooms = a.rooms /\ Quiet(b, a)
      /\ ~ b.clients[id].searching /\ b.clients[id].closing = a.clients[id].closing
  <2>1. id \in DOMAIN a.clients
    BY <1>1 DEF SameAccounts
  <2> QED
    BY <1>1, <2>1, CancelKeeps
<1> HIDE DEF b
<1>4. id \in DOMAIN b.clients /\ b.clients[id].closing
  BY <1>1, <1>3 DEF SameAccounts
<1>5. /\ PlayInv(n, {id}) /\ SameAccounts(n, b) /\ n.rooms = b.rooms /\ Quiet(n, b)
      /\ n.clients[id].check = 0 /\ ~ n.clients[id].searching
  BY <1>2, <1>3, <1>4, DeclineKeeps
<1>6. PlayInv(n, {})
  BY <1>5, IdleAgain
<1>7. SameAccounts(n, h)
  BY <1>1, <1>3, <1>5, SameAccountsChain
<1>8. Quiet(n, h)
  <2>1. DOMAIN a.clients = DOMAIN h.clients /\ DOMAIN b.clients = DOMAIN h.clients
    BY <1>1, <1>3 DEF SameAccounts
  <2>2. Quiet(b, h)
    BY <1>1, <1>3, <2>1, QuietChain
  <2> QED
    BY <1>5, <2>1, <2>2, QuietChain
<1> QED
  BY <1>1, <1>3, <1>5, <1>6, <1>7, <1>8

-----------------------------------------------------------------------------
(* Rooms.                                                                  *)

NoSeat(h, id) == \A r \in DOMAIN h.rooms : \A s \in DOMAIN h.rooms[r] : h.rooms[r][s] # id

\* The seat of a connection becomes free.
LEMMA VacatedKeeps ==
  ASSUME NEW h, NEW off, PlayInv(h, off), NEW id \in DOMAIN h.clients, NEW n, n = Vacated(h, id)
  PROVE  PlayInv(n, off) /\ n.clients = h.clients /\ n.checks = h.checks /\ n.parties = h.parties /\ NoSeat(n, id)
<1> DEFINE R == h.rooms
           v == [r \in DOMAIN R |-> [s \in DOMAIN R[r] |-> IF R[r][s] = id THEN 0 ELSE R[r][s]]]
<1>1. n = [h EXCEPT !.rooms = v]
  BY DEF Vacated
<1>2. /\ DOMAIN v = DOMAIN R /\ v = [r \in DOMAIN v |-> v[r]]
      /\ \A r \in DOMAIN R : /\ DOMAIN v[r] = DOMAIN R[r]
                             /\ v[r] \in [DOMAIN v[r] -> {0} \cup Conns]
                             /\ \A s \in DOMAIN R[r] : v[r][s] = IF R[r][s] = id THEN 0 ELSE R[r][s]
  BY DEF PlayInv, PlayTypes
<1>3. id # 0 /\ IsHub(h)
  BY Parameters DEF PlayInv, PlayTypes
<1> HIDE DEF v
<1>4. n = [clients |-> h.clients, checks |-> h.checks, rooms |-> v, parties |-> h.parties]
  BY <1>1, <1>3, HubParts
<1>5. n.clients = h.clients /\ n.checks = h.checks /\ n.rooms = v /\ n.parties = h.parties /\ IsHub(n)
  BY <1>4 DEF IsHub
<1>6. PlayTypes(n)
  BY <1>2, <1>5 DEF PlayInv, PlayTypes
<1>7. CheckInv(n) /\ OneActivity(n, off)
  BY <1>2, <1>5 DEF PlayInv, CheckInv, OneActivity
<1>8. SeatsInv(n)
  BY <1>2, <1>5 DEF PlayInv, SeatsInv
<1>9. NoSeat(n, id)
  BY <1>2, <1>3, <1>5 DEF NoSeat
<1> QED
  BY <1>2, <1>5, <1>6, <1>7, <1>8, <1>9 DEF PlayInv

\* Matches end: who was there is in no room.
LEMMA EndRoomsKeeps ==
  ASSUME NEW h, PlayInv(h, {}), NEW over, 0 \notin over, NEW n, n = EndRooms(h, over)
  PROVE  /\ PlayInv(n, {}) /\ SameAccounts(n, h) /\ n.checks = h.checks /\ Quiet(n, h)
         /\ \A w \in DOMAIN h.clients : /\ n.clients[w].check = h.clients[w].check
                                        /\ n.clients[w].closing = h.clients[w].closing
                                        /\ n.clients[w].group = h.clients[w].group
<1> DEFINE f == h.clients
           c == [id \in DOMAIN f |-> IF f[id].room \in over THEN [f[id] EXCEPT !.room = 0] ELSE f[id]]
           R == h.rooms
           left == Without(R, over)
<1>1. n = [h EXCEPT !.rooms = left, !.clients = c]
  BY DEF EndRooms
<1>2. ASSUME NEW w \in DOMAIN f
      PROVE  /\ c[w] \in Client /\ c[w].account = f[w].account /\ c[w].closing = f[w].closing
             /\ c[w].check = f[w].check /\ c[w].searching = f[w].searching /\ c[w].order = f[w].order
             /\ c[w].room = (IF f[w].room \in over THEN 0 ELSE f[w].room) /\ c[w].group = f[w].group
  <2>1. f[w] \in Client
    BY DEF PlayInv, PlayTypes
  <2>2. [f[w] EXCEPT !.room = 0] = [account |-> f[w].account, closing |-> f[w].closing, room |-> 0, check |-> f[w].check,
               searching |-> f[w].searching, mode |-> f[w].mode, order |-> f[w].order, waited |-> f[w].waited,
               wants |-> f[w].wants, group |-> f[w].group]
    BY <2>1, FieldIs
  <2>3. [f[w] EXCEPT !.room = 0] \in Client
    BY <2>1, <2>2, ClientIs DEF Client
  <2>4. c[w] = IF f[w].room \in over THEN [f[w] EXCEPT !.room = 0] ELSE f[w]
    OBVIOUS
  <2>5. CASE f[w].room \in over
    <3>1. c[w] = [f[w] EXCEPT !.room = 0]
      BY <2>4, <2>5
    <3> HIDE DEF c
    <3> QED
      BY <2>2, <2>3, <2>5, <3>1
  <2>6. CASE f[w].room \notin over
    <3>1. c[w] = f[w]
      BY <2>4, <2>6
    <3> HIDE DEF c
    <3> QED
      BY <2>1, <2>6, <3>1
  <2> QED
    BY <2>5, <2>6
<1>3. c \in [DOMAIN f -> Client]
  BY <1>2
<1>4. /\ DOMAIN left = DOMAIN R \ over /\ \A r \in DOMAIN R \ over : left[r] = R[r]
      /\ left = [r \in DOMAIN R \ over |-> left[r]]
  BY WithoutIs
<1> HIDE DEF c, left
<1>5. n = [clients |-> c, checks |-> h.checks, rooms |-> left, parties |-> h.parties]
  BY <1>1 DEF PlayInv, PlayTypes, IsHub
<1>6. /\ n.clients = c /\ n.checks = h.checks /\ n.rooms = left /\ n.parties = h.parties /\ IsHub(n)
      /\ DOMAIN n.clients = DOMAIN h.clients
  BY <1>3, <1>5 DEF IsHub
<1>7. PlayTypes(n)
  BY <1>3, <1>4, <1>6 DEF PlayInv, PlayTypes
<1>8. CheckInv(n)
  BY <1>2, <1>6 DEF PlayInv, CheckInv
<1>9. OneActivity(n, {})
  <2> SUFFICES ASSUME NEW id \in DOMAIN f
               PROVE  LET d == n.clients[id] IN
                      /\ d.check \in {0} \cup DOMAIN n.checks /\ d.room \in {0} \cup DOMAIN n.rooms
                      /\ d.check # 0 => ~ d.searching /\ d.room = 0
                      /\ d.searching => d.room = 0
                      /\ d.closing => ~ d.searching /\ d.check = 0
    BY <1>6 DEF OneActivity
  <2>1. LET d == f[id] IN
        /\ d.check \in {0} \cup DOMAIN h.checks /\ d.room \in {0} \cup DOMAIN h.rooms
        /\ d.check # 0 => ~ d.searching /\ d.room = 0
        /\ d.searching => d.room = 0
        /\ d.closing => ~ d.searching /\ d.check = 0
    BY DEF PlayInv, OneActivity
  <2> QED
    BY <1>2, <1>4, <1>6, <2>1
<1>10. SeatsInv(n)
  <2> SUFFICES ASSUME NEW r \in DOMAIN left, NEW s \in DOMAIN left[r], left[r][s] # 0
               PROVE  left[r][s] \in DOMAIN f /\ c[left[r][s]].room = r
    BY <1>6 DEF SeatsInv
  <2>1. r \in DOMAIN R /\ r \notin over /\ left[r] = R[r]
    BY <1>4
  <2>2. R[r][s] \in DOMAIN f /\ f[R[r][s]].room = r
    BY <2>1 DEF PlayInv, SeatsInv
  <2> QED
    BY <1>2, <2>1, <2>2
<1>11. WithinLimit(DOMAIN n.rooms, DOMAIN n.checks)
  <2>1. /\ Cardinality(DOMAIN n.rooms) \in Nat /\ Cardinality(DOMAIN n.rooms) <= Cardinality(DOMAIN h.rooms)
        /\ Cardinality(DOMAIN h.rooms) \in Nat
    BY <1>4, <1>6, FiniteTables, TableSizes DEF PlayInv
  <2>2. Cardinality(DOMAIN h.checks) \in Nat
    BY FiniteTables, FS_CardinalityType DEF PlayInv
  <2> QED
    BY <1>6, <2>1, <2>2, Parameters DEF PlayInv, WithinLimit
<1>12. Quiet(n, h)
  BY <1>2, <1>6 DEF Quiet
<1> QED
  BY <1>2, <1>6, <1>7, <1>8, <1>9, <1>10, <1>11, <1>12 DEF PlayInv, SameAccounts

\* What the handlers start from: ids in use are known and within the limit.
StateFits ==
  /\ DOMAIN rooms \subseteq RoomIds /\ Cardinality(DOMAIN rooms) <= MaxMatches
  /\ DOMAIN checks \subseteq CheckIds /\ Cardinality(DOMAIN checks) <= MaxMatches

\* In a check, or in a room that has seats.
Engaged(h, w) ==
  LET c == h.clients[w] IN c.check # 0 \/ (c.room # 0 /\ DOMAIN h.rooms[c.room] # {})

\* n is h with a match started or proposed: the players are engaged, everything else is as it was.
Started(n, h, players) ==
  /\ \A w \in DOMAIN h.clients \ players : n.clients[w] = h.clients[w]
  /\ \A w \in players : /\ ~ n.clients[w].searching /\ n.clients[w].order \in {0, h.clients[w].order}
                        /\ Engaged(n, w)
  /\ \A r \in DOMAIN h.rooms : r \in DOMAIN n.rooms /\ n.rooms[r] = h.rooms[r]

\* n has a new check of the players, who keep their places, beside those of h.
NewCheck(n, h, players, k) ==
  /\ k \notin DOMAIN h.checks /\ k \notin DOMAIN checks
  /\ DOMAIN n.checks = DOMAIN h.checks \cup {k} /\ n.checks[k].players = players
  /\ \A q \in DOMAIN h.checks : n.checks[q] = h.checks[q]
  /\ \A w \in players : n.clients[w].mode = h.clients[w].mode /\ n.clients[w].order = h.clients[w].order

\* A match starts with players who are in nothing else.
LEMMA StartRoomKeeps ==
  ASSUME NEW h, PlayInv(h, {}), StateFits, NEW players \in SUBSET DOMAIN h.clients,
         \A p \in players : h.clients[p].check = 0 /\ h.clients[p].room = 0,
         Cardinality(DOMAIN h.rooms) + Cardinality(DOMAIN h.checks) < MaxMatches,
         NEW n, n = StartRoom(h, players)
  PROVE  PlayInv(n, {}) /\ SameAccounts(n, h) /\ Started(n, h, players) /\ n.checks = h.checks
<1> DEFINE f == h.clients
           R == h.rooms
           r == FreshRoom(h)
           seated == {id \in players : Cardinality({w \in players : w < id}) < Seats}
           seats == [s \in seated |-> s]
           c == [id \in DOMAIN f |-> IF id \in seated THEN [Stopped(f[id]) EXCEPT !.room = r]
                                     ELSE IF id \in players THEN [Stopped(f[id]) EXCEPT !.room = r, !.closing = TRUE]
                                     ELSE f[id]]
           more == With(R, r, seats)
<1>1. n = [h EXCEPT !.rooms = more, !.clients = c]
  BY DEF StartRoom
<1>2. /\ Cardinality(DOMAIN h.rooms) \in Nat /\ Cardinality(DOMAIN h.checks) \in Nat /\ IsFiniteSet(DOMAIN R)
      /\ DOMAIN R \subseteq RoomIds
  BY FiniteTables, FS_CardinalityType DEF PlayInv, PlayTypes
<1>3. r \in RoomIds /\ r \notin DOMAIN R /\ r # 0
  <2> DEFINE A == DOMAIN rooms
             B == DOMAIN R
  <2>1. /\ A \in SUBSET RoomIds /\ Cardinality(A) <= MaxMatches /\ B \in SUBSET RoomIds
    BY <1>2 DEF StateFits
  <2>2. Cardinality(B) < MaxMatches
    BY <1>2, Parameters
  <2>3. r = LowestOf(RoomIds \ (A \cup B))
    <3>1. A \cup B = B \cup A
      OBVIOUS
    <3> QED
      BY <3>1 DEF FreshRoom
  <2> HIDE DEF A, B, r
  <2>4. r \in RoomIds \ (A \cup B)
    BY <2>1, <2>2, <2>3, FreeId, Parameters, SMTT(30)
  <2> QED
    BY <2>4, Parameters DEF B
<1>3a. seated \subseteq players
  OBVIOUS
<1> HIDE DEF r, seated
<1>4. ASSUME NEW w \in DOMAIN f
      PROVE  /\ c[w] \in Client /\ c[w].account = f[w].account /\ c[w].check = f[w].check
             /\ w \in players => c[w].room = r /\ ~ c[w].searching /\ c[w].order = 0
             /\ w \notin players => c[w] = f[w]
  <2>1. f[w] \in Client
    BY DEF PlayInv, PlayTypes
  <2>2. CASE w \notin players
    <3>1. c[w] = f[w]
      BY <1>3a, <2>2
    <3> HIDE DEF c
    <3> QED
      BY <2>1, <2>2, <3>1
  <2>3. CASE w \in players
    <3> DEFINE s == Stopped(f[w])
    <3>1. /\ s \in Client /\ s.account = f[w].account /\ s.closing = f[w].closing
          /\ s.check = f[w].check /\ ~ s.searching /\ s.order = 0
      BY <2>1, StoppedIs
    <3> PICK yes : yes = TRUE
      OBVIOUS
    <3> DEFINE closes == IF w \in seated THEN s.closing ELSE yes
    <3>2. c[w] = IF w \in seated THEN [s EXCEPT !.room = r] ELSE [s EXCEPT !.room = r, !.closing = yes]
      BY <2>3
    <3> HIDE DEF s, c
    <3>3. c[w] = [account |-> s.account, closing |-> closes, room |-> r, check |-> s.check,
               searching |-> s.searching, mode |-> s.mode, order |-> s.order, waited |-> s.waited,
               wants |-> s.wants, group |-> s.group]
      <4>1. CASE w \notin seated
        <5>1. c[w] = [s EXCEPT !.room = r, !.closing = yes] /\ closes = yes
          BY <3>2, <4>1
        <5> HIDE DEF closes
        <5> QED
          BY <3>1, <5>1, ClientIs
      <4>2. CASE w \in seated
        <5>1. c[w] = [s EXCEPT !.room = r] /\ closes = s.closing
          BY <3>2, <4>2
        <5> HIDE DEF closes
        <5> QED
          BY <3>1, <5>1, FieldIs
      <4> QED
        BY <4>1, <4>2
    <3>3a. closes \in BOOLEAN
      <4>1. s.closing \in BOOLEAN
        BY <3>1 DEF Client
      <4> QED
        BY <4>1
    <3> HIDE DEF closes
    <3>4. c[w] \in Client
      BY <1>3, <3>1, <3>3, <3>3a, ClientIs DEF Client
    <3> QED
      BY <2>3, <3>1, <3>3, <3>4
  <2> QED
    BY <2>2, <2>3
<1>5. c \in [DOMAIN f -> Client]
  BY <1>4
<1>6. /\ DOMAIN more = DOMAIN R \cup {r} /\ more[r] = seats
      /\ \A q \in DOMAIN R : more[q] = R[q]
      /\ more = [q \in DOMAIN R \cup {r} |-> more[q]]
  <2> HIDE DEF R, seats, more
  <2>1. DOMAIN R \ {r} = DOMAIN R
    BY <1>3
  <2>2. more = [y \in DOMAIN R \cup {r} |-> IF y = r THEN seats ELSE R[y]]
    BY DEF more, With
  <2>3. /\ DOMAIN more = DOMAIN R \cup {r} /\ more[r] = seats
        /\ \A q \in DOMAIN R \ {r} : more[q] = R[q]
        /\ more = [q \in DOMAIN R \cup {r} |-> more[q]]
    BY ONLY <2>2
  <2> QED
    BY ONLY <2>1, <2>3
<1>7. DOMAIN seats = seated /\ \A s \in seated : seats[s] = s
  OBVIOUS
<1>8. players \subseteq Conns
  BY DEF PlayInv, PlayTypes
<1> HIDE DEF c, more, seats
<1>9. n = [clients |-> c, checks |-> h.checks, rooms |-> more, parties |-> h.parties]
  BY <1>1 DEF PlayInv, PlayTypes, IsHub
<1>10. /\ n.clients = c /\ n.checks = h.checks /\ n.rooms = more /\ n.parties = h.parties /\ IsHub(n)
       /\ DOMAIN n.clients = DOMAIN h.clients
  BY <1>5, <1>9 DEF IsHub
<1>11. PlayTypes(n)
  <2>1. \A q \in DOMAIN more : more[q] \in [DOMAIN more[q] -> {0} \cup Conns] /\ DOMAIN more[q] \subseteq Conns
    <3>1. seats \in [seated -> {0} \cup Conns] /\ seated \subseteq Conns
      BY <1>8, <1>3a DEF seats
    <3> QED
      BY <1>6, <1>7, <3>1 DEF PlayInv, PlayTypes
  <2> QED
    BY <1>2, <1>3, <1>5, <1>6, <1>10, <2>1 DEF PlayInv, PlayTypes
<1>12. CheckInv(n)
  BY <1>4, <1>10 DEF PlayInv, CheckInv
<1>13. OneActivity(n, {})
  <2> SUFFICES ASSUME NEW id \in DOMAIN f
               PROVE  LET d == n.clients[id] IN
                      /\ d.check \in {0} \cup DOMAIN n.checks /\ d.room \in {0} \cup DOMAIN n.rooms
                      /\ d.check # 0 => ~ d.searching /\ d.room = 0
                      /\ d.searching => d.room = 0
                      /\ d.closing => ~ d.searching /\ d.check = 0
    BY <1>10 DEF OneActivity
  <2>1. LET d == f[id] IN
        /\ d.check \in {0} \cup DOMAIN h.checks /\ d.room \in {0} \cup DOMAIN h.rooms
        /\ d.check # 0 => ~ d.searching /\ d.room = 0
        /\ d.searching => d.room = 0
        /\ d.closing => ~ d.searching /\ d.check = 0
    BY DEF PlayInv, OneActivity
  <2> QED
    BY <1>4, <1>6, <1>10, <2>1
<1>14. SeatsInv(n)
  <2> SUFFICES ASSUME NEW q \in DOMAIN more, NEW s \in DOMAIN more[q], more[q][s] # 0
               PROVE  more[q][s] \in DOMAIN f /\ c[more[q][s]].room = q
    BY <1>10 DEF SeatsInv
  <2>1. CASE q = r
    <3>1. more[q][s] = s /\ s \in players
      BY <1>6, <1>7, <1>3a, <2>1
    <3> QED
      BY <1>4, <2>1, <3>1
  <2>2. CASE q # r
    <3>1. q \in DOMAIN R /\ more[q] = R[q]
      BY <1>6, <2>2
    <3>2. R[q][s] \in DOMAIN f /\ f[R[q][s]].room = q
      BY <3>1 DEF PlayInv, SeatsInv
    <3>3. q # 0
      BY <1>2, <3>1, Parameters
    <3> QED
      BY <1>4, <3>1, <3>2, <3>3
  <2> QED
    BY <2>1, <2>2
<1>15. WithinLimit(DOMAIN n.rooms, DOMAIN n.checks)
  <2>1. Cardinality(DOMAIN n.rooms) <= Cardinality(DOMAIN R) + 1 /\ Cardinality(DOMAIN n.rooms) \in Nat
    BY <1>2, <1>6, <1>10, TableSizes
  <2> QED
    BY <1>2, <1>10, <2>1, Parameters DEF WithinLimit
<1>16. players # {} => seated # {}
  <2> SUFFICES ASSUME players # {} PROVE seated # {}
    OBVIOUS
  <2>1. players \in SUBSET Nat
    BY <1>8, Parameters
  <2>2. PICK p \in players : \A y \in players : p <= y
    BY <2>1, LeastExists
  <2>3. {w \in players : w < p} = {}
    BY <2>1, <2>2
  <2>4. Cardinality({w \in players : w < p}) < Seats
    <3>1. Cardinality({}) = 0 /\ 0 < Seats
      BY FS_EmptySet, Parameters
    <3> QED
      BY ONLY <2>3, <3>1
  <2> QED
    BY <2>4 DEF seated
<1>17. Started(n, h, players)
  <2>1. \A w \in players : Engaged(n, w)
    <3> SUFFICES ASSUME NEW w \in players PROVE Engaged(n, w)
      OBVIOUS
    <3>1. n.clients[w].room = r /\ n.rooms[r] = seats
      BY <1>4, <1>6, <1>10
    <3>2. DOMAIN seats # {}
      BY <1>7, <1>16
    <3> QED
      BY <1>3, <3>1, <3>2 DEF Engaged
  <2> QED
    BY <1>4, <1>6, <1>10, <2>1 DEF Started
<1> QED
  BY <1>4, <1>10, <1>11, <1>12, <1>13, <1>14, <1>15, <1>17 DEF PlayInv, SameAccounts

\* A ready check gets answers: it waits for the others, or all its players go to a match.
Accepting(h, k, A) == [h EXCEPT !.checks[k].accepted = A]

LEMMA AnswerKeeps ==
  ASSUME NEW h, PlayInv(h, {}), StateFits, NEW k \in DOMAIN h.checks, NEW A \in SUBSET h.checks[k].players,
         NEW a, a = Accepting(h, k, A), NEW n, n = Progress(a, k)
  PROVE  /\ PlayInv(n, {}) /\ SameAccounts(n, h) /\ DOMAIN n.checks \subseteq DOMAIN h.checks
         /\ \A w \in DOMAIN h.clients : n.clients[w].order \in {0, h.clients[w].order}
         /\ k \in DOMAIN n.checks \/ \A w \in h.checks[k].players : Engaged(n, w)
         /\ DOMAIN h.checks \ {k} \subseteq DOMAIN n.checks
<1> DEFINE f == h.clients
           C == h.checks
           P == C[k].players
           asked == [C EXCEPT ![k] = [C[k] EXCEPT !.accepted = A]]
<1>1. /\ IsHub(h) /\ C \in [DOMAIN C -> Check] /\ C[k] \in Check /\ DOMAIN C \subseteq CheckIds /\ k # 0
      /\ f \in [DOMAIN f -> Client] /\ DOMAIN f \subseteq Conns
  BY Parameters DEF PlayInv, PlayTypes
<1>2. P = {id \in DOMAIN f : f[id].check = k} /\ A \subseteq P /\ P \subseteq Conns
  BY <1>1 DEF PlayInv, CheckInv
<1>3. /\ asked \in [DOMAIN C -> Check] /\ asked[k] = [players |-> P, accepted |-> A]
      /\ \A q \in DOMAIN C \ {k} : asked[q] = C[q]
  <2>1. [C[k] EXCEPT !.accepted = A] = [players |-> P, accepted |-> A]
    BY <1>1 DEF Check
  <2>2. [players |-> P, accepted |-> A] \in Check
    BY <1>2 DEF Check
  <2> HIDE DEF P
  <2> QED
    BY <1>1, <2>1, <2>2
<1>4. a = [h EXCEPT !.checks = asked]
  BY DEF Accepting
<1> HIDE DEF asked
<1>5. a = [clients |-> f, checks |-> asked, rooms |-> h.rooms, parties |-> h.parties]
  BY <1>1, <1>4, HubParts
<1>6. a.clients = f /\ a.checks = asked /\ a.rooms = h.rooms /\ a.parties = h.parties /\ IsHub(a)
  <2> HIDE DEF f, C, P
  <2>1. a.clients = f /\ a.checks = asked /\ a.rooms = h.rooms /\ a.parties = h.parties
    BY <1>5
  <2> QED
    BY <1>5, <2>1 DEF IsHub
<1>7. CASE A # P
  <2>1. n = a
    BY <1>3, <1>6, <1>7 DEF Progress
  <2>2. PlayTypes(a)
    BY <1>1, <1>3, <1>6 DEF PlayInv, PlayTypes
  <2>3. CheckInv(a)
    <3> SUFFICES ASSUME NEW q \in DOMAIN C
                 PROVE  /\ asked[q].players = {id \in DOMAIN f : f[id].check = q}
                        /\ asked[q].accepted \subseteq asked[q].players
                        /\ asked[q].accepted # asked[q].players
      BY <1>3, <1>6 DEF CheckInv
    <3>1. CASE q = k
      <4>1. asked[q].players = P /\ asked[q].accepted = A
        BY <1>3, <3>1
      <4> QED
        BY <1>2, <1>7, <3>1, <4>1
    <3>2. CASE q # k
      <4>1. asked[q] = C[q]
        BY <1>3, <3>2
      <4> QED
        BY <4>1 DEF PlayInv, CheckInv
    <3> QED
      BY <3>1, <3>2
  <2>4. OneActivity(a, {}) /\ SeatsInv(a) /\ WithinLimit(DOMAIN a.rooms, DOMAIN a.checks)
    BY <1>3, <1>6 DEF PlayInv, OneActivity, SeatsInv
  <2>5. DOMAIN n.checks = DOMAIN h.checks /\ n.clients = h.clients
    BY <1>3, <1>6, <2>1
  <2> QED
    BY <1>6, <2>1, <2>2, <2>3, <2>4, <2>5 DEF PlayInv, SameAccounts
<1>8. CASE A = P
  <2> DEFINE c == [id \in DOMAIN f |-> IF id \in P THEN [f[id] EXCEPT !.check = 0] ELSE f[id]]
             left == Without(asked, {k})
             b == [clients |-> c, checks |-> left, rooms |-> h.rooms, parties |-> h.parties]
  <2>1. n = StartRoom(b, P)
    <3>1. a.checks[k].players = P /\ a.checks[k].accepted = P
      BY <1>3, <1>6, <1>8
    <3>2. [a EXCEPT !.checks = Without(@, {k}),
                    !.clients = [id \in DOMAIN @ |-> IF id \in P THEN [@[id] EXCEPT !.check = 0] ELSE @[id]]] = b
      <4> DEFINE c2 == [id \in DOMAIN a.clients |-> IF id \in P THEN [a.clients[id] EXCEPT !.check = 0] ELSE a.clients[id]]
                 left2 == Without(a.checks, {k})
      <4> HIDE DEF P
      <4>1. a.clients = f /\ a.checks = asked
        BY <1>6
      <4>2. c2 = c
        BY <4>1
      <4>3. left2 = left
        BY <4>1
      <4> HIDE DEF c, left, c2, left2
      <4>4. PICK n2 : n2 = [a EXCEPT !.checks = left2, !.clients = c2]
        OBVIOUS
      <4>5. n2 = [clients |-> c2, checks |-> left2, rooms |-> a.rooms, parties |-> a.parties]
        <5>1. IsHub(a)
          BY <1>6
        <5> QED
          BY ONLY <4>4, <5>1 DEF IsHub
      <4>6. n2 = b
        BY <1>6, <4>2, <4>3, <4>5
      <4> QED
        BY <4>4, <4>6 DEF c2, left2
    <3> HIDE DEF P, b
    <3> QED
      BY <3>1, <3>2 DEF Progress
  <2>2. ASSUME NEW w \in DOMAIN f
        PROVE  /\ c[w] \in Client /\ c[w].account = f[w].account /\ c[w].closing = f[w].closing /\ c[w].room = f[w].room
               /\ c[w].searching = f[w].searching /\ c[w].order = f[w].order
               /\ w \in P => c[w].check = 0
               /\ w \notin P => c[w].check = f[w].check /\ c[w].check # k
    <3>1. f[w] \in Client
      BY <1>1
    <3>2. CASE w \notin P
      <4>1. c[w] = f[w]
        BY <3>2
      <4>2. f[w].check # k
        BY <1>2, <3>2
      <4> HIDE DEF c
      <4> QED
        BY <3>1, <3>2, <4>1, <4>2
    <3>3. CASE w \in P
      <4>1. c[w] = [f[w] EXCEPT !.check = 0]
        BY <3>3
      <4> HIDE DEF c
      <4>2. c[w] = [account |-> f[w].account, closing |-> f[w].closing, room |-> f[w].room, check |-> 0,
               searching |-> f[w].searching, mode |-> f[w].mode, order |-> f[w].order, waited |-> f[w].waited,
               wants |-> f[w].wants, group |-> f[w].group]
        BY <3>1, <4>1, FieldIs
      <4>3. c[w] \in Client
        BY <3>1, <4>2, ClientIs DEF Client
      <4> QED
        BY <3>3, <4>2, <4>3
    <3> QED
      BY <3>2, <3>3
  <2>3. c \in [DOMAIN f -> Client]
    BY <2>2
  <2>4. /\ DOMAIN left = DOMAIN C \ {k} /\ \A q \in DOMAIN left : left[q] = C[q]
        /\ left = [q \in DOMAIN left |-> left[q]]
    <3>1. left = [q \in DOMAIN asked \ {k} |-> asked[q]]
      BY DEF Without
    <3> HIDE DEF left
    <3> QED
      BY <1>3, <3>1
  <2> HIDE DEF c, left
  <2>5. /\ b.clients = c /\ b.checks = left /\ b.rooms = h.rooms /\ b.parties = h.parties /\ IsHub(b)
        /\ DOMAIN b.clients = DOMAIN f
    BY <2>3 DEF IsHub
  <2> HIDE DEF b
  <2>6. PlayTypes(b)
    BY <1>1, <2>3, <2>4, <2>5 DEF PlayInv, PlayTypes
  <2>7. CheckInv(b)
    <3> SUFFICES ASSUME NEW q \in DOMAIN left
                 PROVE  {id \in DOMAIN f : c[id].check = q} = {id \in DOMAIN f : f[id].check = q}
      BY <2>4, <2>5 DEF PlayInv, CheckInv
    <3>1. q # k /\ q # 0
      BY <1>1, <2>4, Parameters
    <3>2. \A id \in DOMAIN f : f[id].check = q => id \notin P
      BY <1>2, <3>1
    <3> QED
      BY <2>2, <3>1, <3>2
  <2>8. OneActivity(b, {})
    <3> SUFFICES ASSUME NEW id \in DOMAIN f
                 PROVE  LET d == c[id] IN
                        /\ d.check \in {0} \cup DOMAIN left /\ d.room \in {0} \cup DOMAIN h.rooms
                        /\ d.check # 0 => ~ d.searching /\ d.room = 0
                        /\ d.searching => d.room = 0
                        /\ d.closing => ~ d.searching /\ d.check = 0
      BY <2>5 DEF OneActivity
    <3>1. LET d == f[id] IN
          /\ d.check \in {0} \cup DOMAIN h.checks /\ d.room \in {0} \cup DOMAIN h.rooms
          /\ d.check # 0 => ~ d.searching /\ d.room = 0
          /\ d.searching => d.room = 0
          /\ d.closing => ~ d.searching /\ d.check = 0
      BY DEF PlayInv, OneActivity
    <3> QED
      BY <2>2, <2>4, <3>1
  <2>9. SeatsInv(b)
    BY <2>2, <2>5 DEF PlayInv, SeatsInv
  <2>10. /\ Cardinality(DOMAIN b.rooms) + Cardinality(DOMAIN b.checks) < MaxMatches
         /\ WithinLimit(DOMAIN b.rooms, DOMAIN b.checks)
    <3>1. Cardinality(DOMAIN left) = Cardinality(DOMAIN C) - 1 /\ Cardinality(DOMAIN left) \in Nat
      BY <2>4, FiniteTables, TableSizes DEF PlayInv
    <3>2. Cardinality(DOMAIN C) \in Nat /\ Cardinality(DOMAIN h.rooms) \in Nat
      BY FiniteTables, FS_CardinalityType DEF PlayInv
    <3>3. Cardinality(DOMAIN h.rooms) + Cardinality(DOMAIN C) <= MaxMatches
      BY DEF PlayInv, WithinLimit
    <3> QED
      BY <2>5, <3>1, <3>2, <3>3, Parameters DEF WithinLimit
  <2>11. PlayInv(b, {})
    BY <2>6, <2>7, <2>8, <2>9, <2>10 DEF PlayInv
  <2>12. P \in SUBSET DOMAIN b.clients /\ \A p \in P : b.clients[p].check = 0 /\ b.clients[p].room = 0
    <3>1. \A p \in P : f[p].check # 0 /\ p \in DOMAIN f
      BY <1>1, <1>2
    <3>2. \A p \in P : f[p].room = 0
      BY <3>1 DEF PlayInv, OneActivity
    <3> QED
      BY <2>2, <2>5, <3>1, <3>2
  <2>13. PlayInv(n, {}) /\ SameAccounts(n, b) /\ Started(n, b, P) /\ n.checks = b.checks
    BY <2>1, <2>10, <2>11, <2>12, StartRoomKeeps
  <2>14. SameAccounts(b, h)
    BY <2>2, <2>5 DEF SameAccounts
  <2>15. \A w \in DOMAIN f : n.clients[w].order \in {0, f[w].order}
    BY <1>2, <2>2, <2>5, <2>13 DEF Started
  <2>16. DOMAIN n.checks = DOMAIN C \ {k} /\ \A w \in P : Engaged(n, w)
    BY <2>4, <2>5, <2>13 DEF Started
  <2> QED
    BY <2>13, <2>14, <2>15, <2>16, SameAccountsChain
<1> QED
  BY <1>7, <1>8

\* Waiting players get a match, or a ready check if one of them asked for it.
LEMMA ProposeKeeps ==
  ASSUME NEW h, PlayInv(h, {}), StateFits, NEW players \in SUBSET DOMAIN h.clients,
         \A p \in players : h.clients[p].searching /\ ~ h.clients[p].closing,
         Cardinality(DOMAIN h.rooms) + Cardinality(DOMAIN h.checks) < MaxMatches,
         NEW n, n = Propose(h, players)
  PROVE  /\ PlayInv(n, {}) /\ SameAccounts(n, h) /\ Started(n, h, players)
         /\ n.checks = h.checks \/ \E k : NewCheck(n, h, players, k)
<1> DEFINE f == h.clients
           C == h.checks
           k == FreshCheck(h)
           wanting == {id \in players : f[id].wants}
           check == [players |-> players, accepted |-> players \ wanting]
           c == [id \in DOMAIN f |-> IF id \in players THEN [f[id] EXCEPT !.searching = FALSE, !.check = k] ELSE f[id]]
           more == With(C, k, check)
<1>1. ASSUME NEW p \in players PROVE f[p].check = 0 /\ f[p].room = 0
  BY DEF PlayInv, OneActivity
<1>2. CASE wanting = {}
  <2>1. n = StartRoom(h, players)
    BY <1>2 DEF Propose
  <2> QED
    BY <1>1, <2>1, StartRoomKeeps
<1>3. CASE wanting # {}
  <2>1. /\ IsHub(h) /\ C \in [DOMAIN C -> Check] /\ DOMAIN C \subseteq CheckIds /\ IsFiniteSet(DOMAIN C)
        /\ f \in [DOMAIN f -> Client] /\ DOMAIN f \subseteq Conns
        /\ Cardinality(DOMAIN h.rooms) \in Nat /\ Cardinality(DOMAIN C) \in Nat
    BY FiniteTables, FS_CardinalityType DEF PlayInv, PlayTypes
  <2>2. k \in CheckIds /\ k \notin DOMAIN C /\ k # 0 /\ k \notin DOMAIN checks
    <3> DEFINE A == DOMAIN checks
               B == DOMAIN C
    <3>1. /\ A \in SUBSET CheckIds /\ Cardinality(A) <= MaxMatches /\ B \in SUBSET CheckIds
      BY <2>1 DEF StateFits
    <3>2. Cardinality(B) < MaxMatches
      BY <2>1, Parameters
    <3>3. k = LowestOf(CheckIds \ (A \cup B))
      <4>1. A \cup B = B \cup A
        OBVIOUS
      <4> QED
        BY <4>1 DEF FreshCheck
    <3> HIDE DEF A, B, k
    <3>4. k \in CheckIds \ (A \cup B)
      BY <3>1, <3>2, <3>3, FreeId, Parameters, SMTT(30)
    <3> QED
      BY <3>4, Parameters DEF A, B
  <2> HIDE DEF k
  <2> DEFINE a == [clients |-> c, checks |-> more, rooms |-> h.rooms, parties |-> h.parties]
  <2>3. ASSUME NEW w \in DOMAIN f
        PROVE  /\ c[w] \in Client /\ c[w].account = f[w].account /\ c[w].closing = f[w].closing /\ c[w].room = f[w].room
               /\ w \in players => c[w].check = k /\ ~ c[w].searching /\ c[w].mode = f[w].mode /\ c[w].order = f[w].order
               /\ w \notin players => c[w] = f[w]
    <3>1. f[w] \in Client
      BY <2>1
    <3>2. CASE w \notin players
      <4>1. c[w] = f[w]
        BY <3>2
      <4> HIDE DEF c
      <4> QED
        BY <3>1, <3>2, <4>1
    <3>3. CASE w \in players
      <4> PICK no : no = FALSE
        OBVIOUS
      <4> DEFINE d == f[w]
      <4>1. c[w] = [d EXCEPT !.searching = no, !.check = k]
        BY <3>3
      <4>2. d \in Client
        BY <3>1
      <4> HIDE DEF c, d
      <4>3. c[w] = [account |-> d.account, closing |-> d.closing, room |-> d.room, check |-> k,
                 searching |-> no, mode |-> d.mode, order |-> d.order, waited |-> d.waited,
                 wants |-> d.wants, group |-> d.group]
        BY <4>1, <4>2, ClientIs
      <4>4. no \in BOOLEAN
        OBVIOUS
      <4>5. c[w] \in Client
        BY <2>2, <4>2, <4>3, <4>4, ClientIs DEF Client
      <4> QED
        BY <3>3, <4>3, <4>5 DEF d
    <3> QED
      BY <3>2, <3>3
  <2>4. c \in [DOMAIN f -> Client]
    BY <2>3
  <2>5. check \in Check /\ check.players = players /\ check.accepted = players \ wanting
    BY <2>1 DEF Check
  <2>6. check.accepted # players /\ check.accepted \subseteq players
    BY <1>3, <2>5
  <2> HIDE DEF check
  <2>7. /\ DOMAIN more = DOMAIN C \cup {k} /\ more[k] = check
        /\ \A q \in DOMAIN C : more[q] = C[q]
        /\ more = [q \in DOMAIN C \cup {k} |-> more[q]]
    <3>1. more = [y \in DOMAIN C \cup {k} |-> IF y = k THEN check ELSE C[y]]
      BY DEF With
    <3> HIDE DEF C, more
    <3> QED
      BY <2>2, <3>1
  <2>8. n = Progress(a, k)
    <3> PICK m : m = [h EXCEPT !.checks = more, !.clients = c]
      OBVIOUS
    <3>1. n = Progress(m, k)
      BY <1>3 DEF Propose, check, k
    <3> HIDE DEF c, more
    <3>2. m = a
      BY <2>1 DEF IsHub
    <3> QED
      BY <3>1, <3>2
  <2> HIDE DEF c, more
  <2>9. /\ a.clients = c /\ a.checks = more /\ a.rooms = h.rooms /\ a.parties = h.parties /\ IsHub(a)
        /\ DOMAIN a.clients = DOMAIN f
    BY <2>4 DEF IsHub
  <2>10. n = a
    <3> HIDE DEF a
    <3>1. a.checks[k].players = players /\ a.checks[k].accepted # players
      BY <2>5, <2>6, <2>7, <2>9
    <3> QED
      BY <2>8, <3>1 DEF Progress
  <2> HIDE DEF a
  <2>11. PlayTypes(a)
    <3>1. more \in [DOMAIN more -> Check] /\ DOMAIN more \subseteq CheckIds
      BY <2>1, <2>2, <2>5, <2>7
    <3> QED
      BY <2>1, <2>4, <2>9, <3>1 DEF PlayInv, PlayTypes
  <2>12. CheckInv(a)
    <3> SUFFICES ASSUME NEW q \in DOMAIN more
                 PROVE  /\ more[q].players = {id \in DOMAIN f : c[id].check = q}
                        /\ more[q].accepted \subseteq more[q].players
                        /\ more[q].accepted # more[q].players
      BY <2>9 DEF CheckInv
    <3>1. CASE q = k
      <4>1. \A id \in DOMAIN f : f[id].check # k
        BY <2>2 DEF PlayInv, OneActivity
      <4>2. {id \in DOMAIN f : c[id].check = k} = players
        BY <2>3, <4>1
      <4> QED
        BY <2>5, <2>6, <2>7, <3>1, <4>2
    <3>2. CASE q # k
      <4>1. q \in DOMAIN C /\ more[q] = C[q] /\ q # 0
        BY <2>1, <2>7, <3>2, Parameters
      <4>2. {id \in DOMAIN f : c[id].check = q} = {id \in DOMAIN f : f[id].check = q}
        BY <1>1, <2>3, <3>2, <4>1
      <4> QED
        BY <4>1, <4>2 DEF PlayInv, CheckInv
    <3> QED
      BY <3>1, <3>2
  <2>13. OneActivity(a, {})
    <3> SUFFICES ASSUME NEW id \in DOMAIN f
                 PROVE  LET d == c[id] IN
                        /\ d.check \in {0} \cup DOMAIN more /\ d.room \in {0} \cup DOMAIN h.rooms
                        /\ d.check # 0 => ~ d.searching /\ d.room = 0
                        /\ d.searching => d.room = 0
                        /\ d.closing => ~ d.searching /\ d.check = 0
      BY <2>9 DEF OneActivity
    <3>1. LET d == f[id] IN
          /\ d.check \in {0} \cup DOMAIN h.checks /\ d.room \in {0} \cup DOMAIN h.rooms
          /\ d.check # 0 => ~ d.searching /\ d.room = 0
          /\ d.searching => d.room = 0
          /\ d.closing => ~ d.searching /\ d.check = 0
      BY DEF PlayInv, OneActivity
    <3>2. CASE id \in players
      BY <1>1, <2>3, <2>7, <3>2
    <3>3. CASE id \notin players
      BY <2>3, <2>7, <3>1, <3>3
    <3> QED
      BY <3>2, <3>3
  <2>14. SeatsInv(a)
    BY <2>3, <2>9 DEF PlayInv, SeatsInv
  <2>15. WithinLimit(DOMAIN a.rooms, DOMAIN a.checks)
    <3>1. Cardinality(DOMAIN more) <= Cardinality(DOMAIN C) + 1 /\ Cardinality(DOMAIN more) \in Nat
      BY <2>1, <2>7, TableSizes
    <3> QED
      BY <2>1, <2>9, <3>1, Parameters DEF WithinLimit
  <2>16. Started(n, h, players)
    BY <2>2, <2>3, <2>9, <2>10 DEF Started, Engaged
  <2>17. NewCheck(n, h, players, k)
    <3>1. n.checks = more /\ n.clients = c
      BY <2>9, <2>10
    <3>2. more[k].players = players
      BY <2>5, <2>7
    <3>3. \A w \in players : c[w].mode = f[w].mode /\ c[w].order = f[w].order
      BY <2>3
    <3> QED
      BY <2>2, <2>7, <3>1, <3>2, <3>3 DEF NewCheck
  <2> QED
    BY <2>3, <2>9, <2>10, <2>11, <2>12, <2>13, <2>14, <2>15, <2>16, <2>17 DEF PlayInv, SameAccounts
<1> QED
  BY <1>2, <1>3

\* Only waiting players are matched.
LEMMA PlayersWait ==
  ASSUME NEW h, NEW mode
  PROVE  PlayersFor(h, mode) \subseteq Waiting(h, mode)
<1>1. FirstGroup(h, mode) \subseteq Waiting(h, mode)
  BY DEF FirstGroup
<1>2. \A g \in Groups(h, mode) : g \subseteq Waiting(h, mode)
  BY DEF Groups
<1>3. Boarding(h, mode) \subseteq UNION Groups(h, mode)
  BY DEF Boarding
<1>4. UNION Groups(h, mode) \subseteq Waiting(h, mode)
  BY <1>2
<1> QED
  BY <1>1, <1>3, <1>4 DEF PlayersFor

-----------------------------------------------------------------------------
(* First come, first served.                                               *)

LEMMA TwoDigits ==
  ASSUME NEW N \in Nat, NEW a \in Nat, NEW b \in Nat, NEW x \in Nat, NEW y \in Nat, x < N, y < N
  PROVE  /\ a * N + x <= b * N + y => a <= b
         /\ a * N + x = b * N + y => a = b /\ x = y
<1>1. ASSUME NEW i \in Nat, NEW j \in Nat, i > j
      PROVE  i * N >= j * N + N
  <2>1. PICK d \in Nat : i = j + 1 + d
    <3>1. i - j - 1 \in Nat /\ i = j + 1 + (i - j - 1)
      BY <1>1
    <3> QED
      BY ONLY <3>1
  <2>2. i * N = j * N + N + d * N
    BY <2>1
  <2>3. d * N \in Nat /\ j * N \in Nat
    OBVIOUS
  <2> QED
    BY ONLY <2>2, <2>3, N \in Nat
<1>2. a * N \in Nat /\ b * N \in Nat
  OBVIOUS
<1>3. a * N + x <= b * N + y => a <= b
  <2> SUFFICES ASSUME a * N + x <= b * N + y, a > b PROVE FALSE
    OBVIOUS
  <2>1. a * N >= b * N + N
    BY <1>1
  <2> QED
    BY <1>2, <2>1
<1>4. a * N + x = b * N + y => b <= a
  <2> SUFFICES ASSUME a * N + x = b * N + y, b > a PROVE FALSE
    OBVIOUS
  <2>1. b * N >= a * N + N
    BY <1>1
  <2> QED
    BY <1>2, <2>1
<1>5. a * N + x = b * N + y => a = b
  BY <1>2, <1>3, <1>4
<1> QED
  BY <1>2, <1>3, <1>5

\* The queue is sorted by place, and the players of one group have one key.
LEMMA QueueKeyIs ==
  ASSUME NEW h, PlayTypes(h), NEW a \in DOMAIN h.clients, NEW b \in DOMAIN h.clients
  PROVE  /\ QueueKey(h, a) \in Nat
         /\ QueueKey(h, a) <= QueueKey(h, b) => h.clients[a].order <= h.clients[b].order
         /\ QueueKey(h, a) = QueueKey(h, b) =>
              /\ h.clients[a].order = h.clients[b].order
              /\ a = b \/ (h.clients[a].group # 0 /\ h.clients[b].group = h.clients[a].group)
         /\ /\ h.clients[a].order = h.clients[b].order
            /\ a = b \/ (h.clients[a].group # 0 /\ h.clients[b].group = h.clients[a].group)
            => QueueKey(h, a) = QueueKey(h, b)
<1> DEFINE parted == Cardinality(PartyIds)
           N == parted + NumConns + 1
           rest(c, id) == IF c.group # 0 THEN c.group ELSE parted + id
<1>1. parted \in Nat /\ NumConns \in Nat /\ N \in Nat
  BY Parameters, FS_CardinalityType
<1>2. \A g \in PartyIds : g \in Nat /\ g # 0 /\ g <= parted
  <2>1. PartyIds = 1 .. 2 * (NumConns + Cardinality(Accounts)) /\ parted = 2 * (NumConns + Cardinality(Accounts))
    BY Parameters DEF PartyIds
  <2>2. 2 * (NumConns + Cardinality(Accounts)) \in Nat
    BY Parameters
  <2> HIDE DEF parted
  <2> QED
    BY ONLY <2>1, <2>2
<1>3. \A id \in Conns : id \in Nat /\ id # 0 /\ id <= NumConns
  BY Parameters DEF Conns
<1> HIDE DEF parted
<1>4. ASSUME NEW id \in DOMAIN h.clients
      PROVE  /\ h.clients[id].order \in Nat /\ rest(h.clients[id], id) \in Nat /\ rest(h.clients[id], id) < N
             /\ QueueKey(h, id) = h.clients[id].order * N + rest(h.clients[id], id)
             /\ h.clients[id].group # 0 => h.clients[id].group <= parted
             /\ h.clients[id].group = 0 => rest(h.clients[id], id) = parted + id /\ id \in Nat /\ id # 0
             /\ h.clients[id].group \in Nat
  <2>1. h.clients[id] \in Client /\ id \in Conns
    BY DEF PlayTypes
  <2>2. h.clients[id].order \in 0 .. MaxOrder /\ h.clients[id].group \in {0} \cup PartyIds /\ id \in Nat /\ id # 0 /\ id <= NumConns
    BY <1>3, <2>1, ClientIs
  <2>3. h.clients[id].order \in Nat
    BY <2>2
  <2>4. QueueKey(h, id) = h.clients[id].order * N + rest(h.clients[id], id)
    BY DEF QueueKey, parted
  <2>5. CASE h.clients[id].group # 0
    <3>1. rest(h.clients[id], id) = h.clients[id].group /\ h.clients[id].group \in PartyIds
      BY <2>2, <2>5
    <3>2. h.clients[id].group \in Nat /\ h.clients[id].group <= parted
      BY <1>2, <3>1
    <3>3. h.clients[id].group < N
      BY <1>1, <3>2
    <3> QED
      BY <2>3, <2>4, <2>5, <3>1, <3>2, <3>3
  <2>6. CASE h.clients[id].group = 0
    <3>1. rest(h.clients[id], id) = parted + id
      BY <2>6
    <3>2. parted + id \in Nat /\ parted + id < N
      BY <1>1, <2>2
    <3> QED
      BY <2>2, <2>3, <2>4, <2>6, <3>1, <3>2
  <2> QED
    BY <2>5, <2>6
<1>5. PICK oa, ob, xa, xb : /\ oa = h.clients[a].order /\ ob = h.clients[b].order
                            /\ xa = rest(h.clients[a], a) /\ xb = rest(h.clients[b], b)
  OBVIOUS
<1>6. /\ oa \in Nat /\ ob \in Nat /\ xa \in Nat /\ xb \in Nat /\ xa < N /\ xb < N
      /\ QueueKey(h, a) = oa * N + xa /\ QueueKey(h, b) = ob * N + xb
  BY <1>4, <1>5
<1>7. /\ oa * N + xa <= ob * N + xb => oa <= ob
      /\ oa * N + xa = ob * N + xb => oa = ob /\ xa = xb
  <2> HIDE DEF N
  <2> QED
    BY ONLY <1>1, <1>6, TwoDigits
<1>8. QueueKey(h, a) \in Nat
  <2>1. oa * N \in Nat
    BY ONLY <1>1, <1>6
  <2> QED
    BY ONLY <1>6, <2>1
<1>9. ASSUME xa = xb
      PROVE  a = b \/ (h.clients[a].group # 0 /\ h.clients[b].group = h.clients[a].group)
  <2>1. CASE h.clients[a].group # 0 /\ h.clients[b].group # 0
    BY <1>5, <1>9, <2>1
  <2>2. CASE h.clients[a].group = 0 /\ h.clients[b].group = 0
    <3>1. parted + a = parted + b /\ a \in Nat /\ b \in Nat
      BY <1>4, <1>5, <1>9, <2>2
    <3> QED
      BY ONLY <1>1, <3>1
  <2>3. CASE h.clients[a].group = 0 /\ h.clients[b].group # 0
    <3>1. xa = parted + a /\ xb <= parted /\ a \in Nat /\ a # 0 /\ xb \in Nat
      BY <1>4, <1>5, <2>3
    <3> QED
      BY ONLY <1>1, <1>9, <3>1
  <2>4. CASE h.clients[a].group # 0 /\ h.clients[b].group = 0
    <3>1. xb = parted + b /\ xa <= parted /\ b \in Nat /\ b # 0 /\ xa \in Nat
      BY <1>4, <1>5, <2>4
    <3> QED
      BY ONLY <1>1, <1>9, <3>1
  <2> QED
    BY <2>1, <2>2, <2>3, <2>4
<1>10. ASSUME a = b \/ (h.clients[a].group # 0 /\ h.clients[b].group = h.clients[a].group)
       PROVE  xa = xb
  BY <1>5, <1>10
<1> HIDE DEF N, rest
<1>11. (oa = ob /\ xa = xb) => QueueKey(h, a) = QueueKey(h, b)
  BY ONLY <1>6
<1> QED
  BY ONLY <1>5, <1>6, <1>7, <1>8, <1>9, <1>10, <1>11

\* The players of a match who came later than id, and those who wait in id's place.
LaterThan(h, players, id) ==
  {p \in players : h.clients[p].mode = h.clients[id].mode /\ h.clients[p].order > h.clients[id].order}

Together(h, id) ==
  {w \in DOMAIN h.clients :
     /\ h.clients[w].searching
     /\ \/ w = id
        \/ /\ h.clients[id].group # 0 /\ h.clients[w].group = h.clients[id].group
           /\ h.clients[w].mode = h.clients[id].mode /\ h.clients[w].order = h.clients[id].order}

\* A later player is in the match only if id's party did not fit beside the others.
Served(h, players, id) ==
  LaterThan(h, players, id) # {} =>
    Cardinality(players \ LaterThan(h, players, id)) + Cardinality(Together(h, id)) > Seats

LEMMA SizeOfTwo ==
  ASSUME NEW A, NEW B, IsFiniteSet(A), IsFiniteSet(B), NEW C \in SUBSET (A \cup B), ~ Cardinality(C) <= Seats
  PROVE  Cardinality(A) + Cardinality(B) > Seats
<1>1. IsFiniteSet(A \cup B) /\ Cardinality(A \cup B) = Cardinality(A) + Cardinality(B) - Cardinality(A \cap B)
  BY FS_Union
<1>2. IsFiniteSet(C) /\ Cardinality(C) <= Cardinality(A \cup B)
  BY <1>1, FS_Subset
<1>3. IsFiniteSet(A \cap B)
  BY FS_Intersection
<1>4. /\ Cardinality(A) \in Nat /\ Cardinality(B) \in Nat /\ Cardinality(C) \in Nat
      /\ Cardinality(A \cap B) \in Nat /\ Cardinality(A \cup B) \in Nat
  BY <1>1, <1>2, <1>3, FS_CardinalityType
<1> QED
  BY <1>1, <1>2, <1>4, Parameters

\* B are the groups who find a seat behind those of them who are ahead; the players of such
\* groups are who boards.
Boards(groups, place, B) ==
  \A g \in groups : g \in B <=> Cardinality((UNION {b \in B : place[b] < place[g]}) \cup g) <= Seats

LEMMA BoardingIs ==
  ASSUME NEW h, NEW mode, NEW groups, groups = Groups(h, mode),
         NEW place, place = [g \in groups |-> QueueKey(h, LowestOf(g))]
  PROVE  /\ \A x \in Boarding(h, mode) : \E B \in SUBSET groups : Boards(groups, place, B) /\ \E g \in B : x \in g
         /\ \A B \in SUBSET groups : Boards(groups, place, B) => \A g \in B : g \subseteq Boarding(h, mode)
<1>1. Boarding(h, mode) = UNION UNION {B \in SUBSET groups : Boards(groups, place, B)}
  BY DEF Boarding, Boards
<1> QED
  BY <1>1

\* Whoever waits on has not been passed over: nobody of its group is in the match, and its group
\* did not fit beside those who came before it.
LEMMA PassedOver ==
  ASSUME NEW h, PlayInv(h, {}), NEW mode, NEW P, P = PlayersFor(h, mode), NEW id \in Waiting(h, mode) \ P
  PROVE  P \cap Together(h, id) = {} /\ Served(h, P, id)
<1> DEFINE W == Waiting(h, mode)
           f == h.clients
           key(x) == QueueKey(h, x)
<1>1. PlayTypes(h) /\ W \subseteq DOMAIN f /\ P \subseteq W
  BY PlayersWait DEF PlayInv, Waiting
<1>2. \A x \in W : f[x].searching /\ f[x].mode = mode
  BY DEF Waiting
<1>3. id \in W /\ id \notin P
  OBVIOUS
<1> HIDE DEF W, key
<1>4. \A x, y \in W : /\ key(x) \in Nat
                      /\ key(x) <= key(y) => f[x].order <= f[y].order
                      /\ key(x) = key(y) =>
                           f[x].order = f[y].order /\ (x = y \/ (f[x].group # 0 /\ f[y].group = f[x].group))
  BY <1>1, QueueKeyIs DEF key
<1>5. \A x, y \in W : f[x].order = f[y].order /\ (x = y \/ (f[x].group # 0 /\ f[y].group = f[x].group)) => key(x) = key(y)
  BY <1>1, QueueKeyIs DEF key
<1>6. ASSUME \A x \in P, w \in W : key(w) = key(x) => w \in P
      PROVE  P \cap Together(h, id) = {}
  <2> SUFFICES ASSUME NEW x \in P, x \in Together(h, id) PROVE FALSE
    OBVIOUS
  <2>1. x # id /\ x \in W
    BY <1>1, <1>3
  <2>2. f[id].group # 0 /\ f[x].group = f[id].group /\ f[x].order = f[id].order
    BY <2>1 DEF Together
  <2>3. key(id) = key(x)
    BY <1>3, <1>5, <2>1, <2>2
  <2> QED
    BY <1>3, <1>6, <2>3
<1>7. CASE mode = "bots"
  <2>1. P = {x \in W : \A w \in W : key(x) <= key(w)}
    BY <1>7 DEF PlayersFor, FirstGroup, W, key
  <2>2. \A x \in P, w \in W : key(w) = key(x) => w \in P
    BY <2>1
  <2>3. \A x \in P : f[x].order <= f[id].order
    BY <1>1, <1>3, <1>4, <2>1
  <2>4. LaterThan(h, P, id) = {}
    <3> SUFFICES ASSUME NEW x \in P, f[x].order > f[id].order PROVE FALSE
      BY DEF LaterThan
    <3>1. f[x].order \in Nat /\ f[id].order \in Nat
      BY <1>1, <1>3 DEF PlayTypes, Client
    <3> QED
      BY <2>3, <3>1
  <2> QED
    BY <1>6, <2>2, <2>4 DEF Served
<1>8. CASE mode # "bots"
  <2>0. PICK groups, place : groups = Groups(h, mode) /\ place = [g \in groups |-> QueueKey(h, LowestOf(g))]
    OBVIOUS
  <2>8. PICK own : own = {w \in W : key(w) = key(id)}
    OBVIOUS
  <2>1. P = Boarding(h, mode)
    BY <1>8 DEF PlayersFor
  <2>2. groups = {{w \in W : key(w) = key(x)} : x \in W}
    BY <2>0 DEF Groups, W, key
  <2>3. ASSUME NEW g \in groups
        PROVE  g \subseteq W /\ g # {} /\ (\A x \in g, w \in W : w \in g <=> key(w) = key(x)) /\ \A x \in g : place[g] = key(x)
    <3>1. PICK x \in W : g = {w \in W : key(w) = key(x)}
      BY <2>2
    <3>2. g \subseteq W /\ x \in g /\ \A y \in g, w \in W : w \in g <=> key(w) = key(y)
      BY <3>1
    <3>3. g \in SUBSET Nat
      BY <1>1, <3>2, Parameters DEF PlayTypes
    <3>4. LowestOf(g) \in g
      BY <3>2, <3>3, LeastExists
    <3>5. place[g] = key(LowestOf(g))
      BY <2>0 DEF key
    <3>6. \A y \in g : key(LowestOf(g)) = key(y)
      BY <3>2, <3>4
    <3> QED
      BY <3>2, <3>5, <3>6
  <2>4. ASSUME NEW x \in P
        PROVE  \E B \in SUBSET groups : Boards(groups, place, B) /\ \E g \in B : x \in g
    BY <2>0, <2>1, BoardingIs
  <2>5. ASSUME NEW B \in SUBSET groups, Boards(groups, place, B), NEW g \in B
        PROVE  g \subseteq P
    BY <2>0, <2>1, <2>5, BoardingIs
  <2>6. \A x \in P, w \in W : key(w) = key(x) => w \in P
    <3> SUFFICES ASSUME NEW x \in P, NEW w \in W, key(w) = key(x) PROVE w \in P
      OBVIOUS
    <3>1. PICK B \in SUBSET groups : Boards(groups, place, B) /\ \E g \in B : x \in g
      BY <2>4
    <3>2. PICK g \in B : x \in g
      BY <3>1
    <3>3. w \in g
      BY <2>3, <3>2
    <3> QED
      BY <2>5, <3>1, <3>2, <3>3
  <2>7. ASSUME LaterThan(h, P, id) # {}
        PROVE  Cardinality(P \ LaterThan(h, P, id)) + Cardinality(Together(h, id)) > Seats
    <3> DEFINE later == LaterThan(h, P, id)
    <3>1. PICK p \in P : p \in later
      BY <2>7 DEF LaterThan
    <3>2. PICK B \in SUBSET groups : Boards(groups, place, B)
      BY <2>4, <3>1
    <3>3. own \in groups /\ id \in own
      BY <1>3, <2>2, <2>8
    <3>4. own \notin B
      BY <1>3, <2>5, <3>2, <3>3
    <3>5. PICK over : over = (UNION {b \in B : place[b] < place[own]}) \cup own /\ ~ Cardinality(over) <= Seats
      <4>1. ~ Cardinality((UNION {b \in B : place[b] < place[own]}) \cup own) <= Seats
        BY ONLY <3>2, <3>3, <3>4 DEF Boards
      <4> QED
        BY ONLY <4>1
    <3>6. place[own] = key(id)
      BY <2>3, <3>3
    <3>7. ASSUME NEW b \in B, place[b] < place[own], NEW x \in b
          PROVE  x \in P \ later
      <4>1. x \in P /\ x \in W /\ place[b] = key(x)
        BY <1>1, <2>3, <2>5, <3>2, <3>7
      <4>2. key(x) <= key(id)
        BY <1>3, <1>4, <3>6, <3>7, <4>1
      <4>3. f[x].order <= f[id].order
        BY <1>3, <1>4, <4>1, <4>2
      <4>4. f[x].order \in Nat /\ f[id].order \in Nat
        BY <1>1, <1>3, <4>1 DEF PlayTypes, Client
      <4> QED
        BY <4>1, <4>3, <4>4 DEF LaterThan
    <3>8. own \subseteq Together(h, id)
      <4> SUFFICES ASSUME NEW x \in W, key(x) = key(id) PROVE x \in Together(h, id)
        BY <2>8
      <4>1. f[id].order = f[x].order /\ (id = x \/ (f[id].group # 0 /\ f[x].group = f[id].group))
        BY <1>3, <1>4
      <4>2. f[x].searching /\ f[x].mode = mode /\ f[id].mode = mode /\ x \in DOMAIN f
        BY <1>1, <1>2, <1>3
      <4> QED
        BY <4>1, <4>2 DEF Together
    <3>9. IsFiniteSet(P \ later) /\ IsFiniteSet(Together(h, id))
      <4>1. IsFiniteSet(DOMAIN f) /\ P \ later \subseteq DOMAIN f /\ Together(h, id) \subseteq DOMAIN f
        BY <1>1, FiniteTables DEF Together
      <4> QED
        BY <4>1, FS_Subset
    <3>10. over \in SUBSET ((P \ later) \cup Together(h, id))
      <4> SUFFICES ASSUME NEW x \in over PROVE x \in (P \ later) \cup Together(h, id)
        OBVIOUS
      <4>1. CASE x \in own
        BY <3>8, <4>1
      <4>2. CASE x \notin own
        <5>1. PICK b \in B : place[b] < place[own] /\ x \in b
          BY ONLY <3>5, <4>2, x \in over
        <5> QED
          BY <3>7, <5>1
      <4> QED
        BY <4>1, <4>2
    <3> HIDE DEF later
    <3> QED
      BY <3>5, <3>9, <3>10, SizeOfTwo DEF later
  <2> QED
    BY <1>6, <2>6, <2>7 DEF Served
<1> QED
  BY <1>7, <1>8

\* Of the checks of h that are not in K, none passes over anybody who is searching.
InOrder(h, K) ==
  \A k \in DOMAIN h.checks \ K : \A id \in DOMAIN h.clients :
    h.clients[id].searching => Served(h, h.checks[k].players, id)

\* No check is lost from h to n, and whoever searches or is engaged goes on with either.
Onward(n, h) ==
  /\ DOMAIN h.checks \subseteq DOMAIN n.checks
  /\ \A w \in DOMAIN h.clients :
       /\ n.clients[w].order \in {0, h.clients[w].order}
       /\ h.clients[w].searching \/ Engaged(h, w) => n.clients[w].searching \/ Engaged(n, w)

\* A match made of the players whose turn it is.
LEMMA MadeInOrder ==
  ASSUME NEW h, PlayInv(h, {}), NEW mode, NEW P, P = PlayersFor(h, mode), NEW n, SameAccounts(n, h), Started(n, h, P),
         n.checks = h.checks \/ \E k : NewCheck(n, h, P, k)
  PROVE  Onward(n, h) /\ \A K : InOrder(h, K) => InOrder(n, K)
<1> DEFINE f == h.clients
           e == n.clients
           D == DOMAIN f
<1>1. /\ P \subseteq D /\ DOMAIN e = D
      /\ \A p \in P : f[p].searching /\ f[p].mode = mode /\ ~ e[p].searching /\ e[p].order \in {0, f[p].order} /\ Engaged(n, p)
      /\ \A w \in D \ P : e[w] = f[w]
      /\ \A r \in DOMAIN h.rooms : r \in DOMAIN n.rooms /\ n.rooms[r] = h.rooms[r]
  BY PlayersWait DEF Waiting, Started, SameAccounts
<1>2. \A q \in DOMAIN h.checks : q \in DOMAIN n.checks /\ n.checks[q] = h.checks[q]
  BY DEF NewCheck
<1>3. Onward(n, h)
  <2> SUFFICES ASSUME NEW w \in D
               PROVE  /\ e[w].order \in {0, f[w].order}
                      /\ f[w].searching \/ Engaged(h, w) => e[w].searching \/ Engaged(n, w)
    BY <1>2 DEF Onward
  <2>1. CASE w \in P
    BY <1>1, <2>1
  <2>2. CASE w \notin P
    <3>1. e[w] = f[w]
      BY <1>1, <2>2
    <3>2. f[w].room # 0 => f[w].room \in DOMAIN h.rooms
      BY DEF PlayInv, OneActivity
    <3> QED
      BY <1>1, <3>1, <3>2 DEF Engaged
  <2> QED
    BY <2>1, <2>2
<1>4. ASSUME NEW K, InOrder(h, K), NEW k \in DOMAIN n.checks \ K, NEW id \in D, e[id].searching
      PROVE  Served(n, n.checks[k].players, id)
  <2>1. id \notin P /\ e[id] = f[id] /\ f[id].searching
    BY <1>1, <1>4
  <2>2. f[id].mode = mode => P \cap Together(h, id) = {} /\ Served(h, P, id)
    <3> HAVE f[id].mode = mode
    <3>1. ~ f[id].closing
      BY <2>1 DEF PlayInv, OneActivity
    <3>2. id \in Waiting(h, mode) \ P
      BY <2>1, <3>1 DEF Waiting
    <3> QED
      BY <3>2, PassedOver
  <2>3. ASSUME NEW w \in Together(h, id)
        PROVE  w \notin P
    <3>1. CASE f[id].mode = mode
      BY <2>2, <3>1
    <3>2. CASE f[id].mode # mode
      BY <1>1, <2>1, <3>2 DEF Together
    <3> QED
      BY <3>1, <3>2
  <2>4. Together(n, id) = Together(h, id)
    <3>1. ASSUME NEW w \in D, w \notin P
          PROVE  w \in Together(n, id) <=> w \in Together(h, id)
      <4>1. e[w] = f[w]
        BY <1>1, <3>1
      <4> QED
        BY <1>1, <2>1, <4>1 DEF Together
    <3>2. \A w \in Together(n, id) : w \in D /\ w \notin P
      BY <1>1 DEF Together
    <3>3. \A w \in Together(h, id) : w \in D /\ w \notin P
      BY <2>3 DEF Together
    <3> QED
      BY <3>1, <3>2, <3>3
  <2>5. CASE k \in DOMAIN h.checks
    <3> DEFINE Q == h.checks[k].players
    <3>1. n.checks[k].players = Q
      BY <1>2, <2>5
    <3>2. ASSUME NEW x \in Q PROVE x \in D /\ x \notin P
      <4>1. x \in D /\ f[x].check = k
        BY <2>5 DEF PlayInv, CheckInv
      <4>2. k # 0
        BY <2>5, Parameters DEF PlayInv, PlayTypes
      <4>3. ~ f[x].searching
        BY <4>1, <4>2 DEF PlayInv, OneActivity
      <4> QED
        BY <1>1, <4>1, <4>3
    <3>3. LaterThan(n, Q, id) = LaterThan(h, Q, id)
      BY <1>1, <2>1, <3>2 DEF LaterThan
    <3>4. Served(h, Q, id)
      BY <1>4, <2>1, <2>5 DEF InOrder
    <3> HIDE DEF Q
    <3> QED
      BY <2>4, <3>1, <3>3, <3>4 DEF Served
  <2>6. CASE k \notin DOMAIN h.checks
    <3>1. PICK q : NewCheck(n, h, P, q)
      BY <2>6
    <3>2. n.checks[k].players = P /\ \A x \in P : e[x].mode = f[x].mode /\ e[x].order = f[x].order
      BY <2>6, <3>1 DEF NewCheck
    <3>3. LaterThan(n, P, id) = LaterThan(h, P, id)
      BY <2>1, <3>2 DEF LaterThan
    <3>4. Served(h, P, id)
      <4>1. CASE f[id].mode = mode
        BY <2>2, <4>1
      <4>2. CASE f[id].mode # mode
        <5>1. LaterThan(h, P, id) = {}
          BY <1>1, <4>2 DEF LaterThan
        <5> QED
          BY <5>1 DEF Served
      <4> QED
        BY <4>1, <4>2
    <3> QED
      BY <2>4, <3>2, <3>3, <3>4 DEF Served
  <2> QED
    BY <2>5, <2>6
<1>5. \A K : InOrder(h, K) => InOrder(n, K)
  BY <1>1, <1>4 DEF InOrder
<1> QED
  BY <1>3, <1>5

LEMMA SameOrder ==
  ASSUME NEW h, NEW n, n.clients = h.clients, n.checks = h.checks, NEW K, InOrder(h, K)
  PROVE  InOrder(n, K)
BY DEF InOrder, Served, LaterThan, Together

LEMMA OnwardChain ==
  ASSUME NEW h, NEW h2, NEW h3, DOMAIN h2.clients = DOMAIN h.clients, Onward(h2, h), Onward(h3, h2)
  PROVE  Onward(h3, h)
BY DEF Onward

LEMMA MatchOneKeeps ==
  ASSUME NEW h, PlayInv(h, {}), StateFits, NEW n, n = MatchOne(h)
  PROVE  PlayInv(n, {}) /\ SameAccounts(n, h) /\ Onward(n, h) /\ \A K : InOrder(h, K) => InOrder(n, K)
<1> DEFINE ready == {m \in Modes : CanMatch(h, m)}
           players == PlayersFor(h, FirstMode(ready))
<1>1. CASE AtLimit(h) \/ ready = {}
  <2>1. n = h
    BY <1>1 DEF MatchOne
  <2> QED
    BY <2>1 DEF SameAccounts, Onward
<1>2. CASE ~ (AtLimit(h) \/ ready = {})
  <2>1. n = Propose(h, players)
    BY <1>2 DEF MatchOne
  <2>2. players \subseteq Waiting(h, FirstMode(ready))
    BY PlayersWait
  <2> HIDE DEF players, ready
  <2>3. players \in SUBSET DOMAIN h.clients /\ \A p \in players : h.clients[p].searching /\ ~ h.clients[p].closing
    BY <2>2 DEF Waiting
  <2>4. Cardinality(DOMAIN h.rooms) + Cardinality(DOMAIN h.checks) < MaxMatches
    <3>1. Cardinality(DOMAIN h.rooms) \in Nat /\ Cardinality(DOMAIN h.checks) \in Nat
      BY FiniteTables, FS_CardinalityType DEF PlayInv
    <3> QED
      BY <1>2, <3>1, Parameters DEF AtLimit
  <2>5. PICK P : P = players
    OBVIOUS
  <2>6. /\ PlayInv(n, {}) /\ SameAccounts(n, h) /\ Started(n, h, P)
        /\ n.checks = h.checks \/ \E k : NewCheck(n, h, P, k)
    BY <2>1, <2>3, <2>4, <2>5, ProposeKeeps
  <2>7. P = PlayersFor(h, FirstMode(ready))
    BY <2>5 DEF players
  <2>8. Onward(n, h) /\ \A K : InOrder(h, K) => InOrder(n, K)
    BY <2>6, <2>7, MadeInOrder
  <2> QED
    BY <2>6, <2>8
<1> QED
  BY <1>1, <1>2

\* The matches made one after the other, as a function that exists.
MatchStep(h, g, n) == IF n = 0 THEN h ELSE MatchOne(g[n - 1])

LEMMA MatchesExist ==
  ASSUME NEW h, NEW M \in Nat
  PROVE  \E g : g = [n \in 0 .. M |-> MatchStep(h, g, n)]
<1> DEFINE Done(n) == \E g : g = [m \in 0 .. n |-> MatchStep(h, g, m)]
           Bad == {n \in Nat : ~ Done(n)}
           R == OpToRel(<, Nat)
<1>1. Bad = {}
  <2> SUFFICES ASSUME Bad # {} PROVE FALSE
    OBVIOUS
  <2>1. PICK n \in Bad : \A m \in Bad : <<m, n>> \notin R
    <3>1. Bad \subseteq Nat
      OBVIOUS
    <3> HIDE DEF Bad, R
    <3>2. IsWellFoundedOn(R, Nat)
      BY NatLessThanWellFounded DEF R
    <3> QED
      BY <3>1, <3>2, WFMin
  <2>2. n \in Nat /\ ~ Done(n)
    OBVIOUS
  <2>3. \A m \in Nat : m < n => Done(m)
    BY <2>1, <2>2 DEF OpToRel
  <2>4. CASE n = 0
    <3> DEFINE g == [m \in 0 .. 0 |-> h]
    <3>1. \A m \in 0 .. 0 : g[m] = MatchStep(h, g, m)
      BY DEF MatchStep
    <3>2. g = [m \in 0 .. 0 |-> MatchStep(h, g, m)]
      <4> HIDE DEF MatchStep
      <4>1. g = [m \in 0 .. 0 |-> g[m]]
        OBVIOUS
      <4> HIDE DEF g
      <4> QED
        BY <3>1, <4>1
    <3> QED
      BY <2>2, <2>4, <3>2
  <2>5. CASE n # 0
    <3>1. n - 1 \in Nat /\ n - 1 < n
      BY <2>2, <2>5
    <3>2. PICK f : f = [m \in 0 .. (n - 1) |-> MatchStep(h, f, m)]
      BY <2>3, <3>1
    <3> DEFINE g == [m \in 0 .. n |-> IF m = n THEN MatchOne(f[n - 1]) ELSE f[m]]
    <3>3. ASSUME NEW m \in 0 .. n PROVE g[m] = MatchStep(h, g, m)
      <4>1. CASE m = n
        <5>1. n - 1 \in 0 .. n /\ n - 1 # n
          BY <3>1
        <5>2. g[n - 1] = f[n - 1] /\ g[m] = MatchOne(f[n - 1])
          BY <4>1, <5>1
        <5> QED
          BY <2>5, <4>1, <5>2 DEF MatchStep
      <4>2. CASE m # n
        <5>1. m \in 0 .. (n - 1)
          BY <2>2, <4>2
        <5>2. g[m] = f[m] /\ f[m] = MatchStep(h, f, m)
          BY <3>2, <4>2, <5>1
        <5>3. CASE m = 0
          BY <5>2, <5>3 DEF MatchStep
        <5>4. CASE m # 0
          <6>1. m - 1 \in 0 .. n /\ m - 1 # n
            BY <2>2, <5>1, <5>4
          <6>2. g[m - 1] = f[m - 1]
            BY <6>1
          <6> QED
            BY <5>2, <5>4, <6>2 DEF MatchStep
        <5> QED
          BY <5>3, <5>4
      <4> QED
        BY <4>1, <4>2
    <3>4. g = [m \in 0 .. n |-> MatchStep(h, g, m)]
      <4>1. g = [m \in 0 .. n |-> g[m]]
        OBVIOUS
      <4> HIDE DEF g
      <4> QED
        BY <3>3, <4>1
    <3> HIDE DEF g
    <3> QED
      BY <2>2, <3>4
  <2> QED
    BY <2>4, <2>5
<1> QED
  BY <1>1

LEMMA MatchmakeKeeps ==
  ASSUME NEW h, PlayInv(h, {}), StateFits, NEW n, n = Matchmake(h)
  PROVE  PlayInv(n, {}) /\ SameAccounts(n, h) /\ Onward(n, h) /\ \A K : InOrder(h, K) => InOrder(n, K)
<1> DEFINE M == MaxMatches
           g == CHOOSE g : g = [i \in 0 .. M |-> MatchStep(h, g, i)]
           Keeps(i) == /\ PlayInv(g[i], {}) /\ SameAccounts(g[i], h) /\ Onward(g[i], h)
                       /\ \A K : InOrder(h, K) => InOrder(g[i], K)
           Bad == {i \in 0 .. M : ~ Keeps(i)}
           R == OpToRel(<, Nat)
<1>1. M \in Nat
  BY Parameters
<1>2. g = [i \in 0 .. M |-> MatchStep(h, g, i)]
  BY <1>1, MatchesExist
<1>3. n = g[M]
  BY DEF Matchmake, MatchStep
<1> HIDE DEF g
<1>4. \A i \in 0 .. M : g[i] = MatchStep(h, g, i)
  BY <1>2
<1>5. Bad = {}
  <2> SUFFICES ASSUME Bad # {} PROVE FALSE
    OBVIOUS
  <2>1. PICK i \in Bad : \A m \in Bad : <<m, i>> \notin R
    <3>1. Bad \subseteq Nat
      OBVIOUS
    <3> HIDE DEF Bad, R
    <3>2. IsWellFoundedOn(R, Nat)
      BY NatLessThanWellFounded DEF R
    <3> QED
      BY <3>1, <3>2, WFMin
  <2>2. i \in 0 .. M /\ ~ Keeps(i)
    OBVIOUS
  <2>3. CASE i = 0
    <3>1. g[i] = h
      BY <1>4, <2>2, <2>3 DEF MatchStep
    <3> QED
      BY <2>2, <3>1 DEF SameAccounts, Onward
  <2>4. CASE i # 0
    <3>1. i - 1 \in 0 .. M /\ i - 1 \in Nat /\ i \in Nat /\ i - 1 < i
      BY <1>1, <2>2, <2>4
    <3>2. Keeps(i - 1)
      BY <2>1, <3>1 DEF OpToRel
    <3>3. g[i] = MatchOne(g[i - 1])
      BY <1>4, <2>2, <2>4 DEF MatchStep
    <3>4. /\ PlayInv(g[i], {}) /\ SameAccounts(g[i], g[i - 1]) /\ Onward(g[i], g[i - 1])
          /\ \A K : InOrder(g[i - 1], K) => InOrder(g[i], K)
      BY <3>2, <3>3, MatchOneKeeps
    <3>5. SameAccounts(g[i], h)
      BY <3>2, <3>4, SameAccountsChain
    <3>6. Onward(g[i], h)
      BY <3>2, <3>4, OnwardChain DEF SameAccounts
    <3>7. \A K : InOrder(h, K) => InOrder(g[i], K)
      BY <3>2, <3>4
    <3> QED
      BY <2>2, <3>4, <3>5, <3>6, <3>7
  <2> QED
    BY <2>3, <2>4
<1>6. M \in 0 .. M
  BY <1>1
<1> QED
  BY <1>3, <1>5, <1>6

-----------------------------------------------------------------------------
(* Parties.                                                                *)

LEMMA SeqIs ==
  ASSUME NEW S, NEW s \in Seq(S)
  PROVE  /\ Len(s) \in Nat /\ DOMAIN s = 1 .. Len(s)
         /\ \A i \in DOMAIN s : s[i] \in S
         /\ Range(s) = {s[i] : i \in 1 .. Len(s)} /\ Range(s) \subseteq S
         /\ Len(s) = 0 <=> s = << >>
BY EmptySeq DEF Range

\* A sequence without one of its elements.
LEMMA WithoutMemberIs ==
  ASSUME NEW s \in Seq(Accounts), Distinct(s), NEW k \in Range(s), NEW r, r = WithoutMember(s, k)
  PROVE  /\ r \in Seq(Accounts) /\ Len(r) = Len(s) - 1 /\ Distinct(r)
         /\ Range(r) = Range(s) \ {k}
<1> DEFINE i == CHOOSE i \in DOMAIN s : s[i] = k
           L == Len(s)
           a == SubSeq(s, 1, i - 1)
           b == SubSeq(s, i + 1, L)
           At(j) == IF j < i THEN j ELSE j + 1
<1>1. L \in Nat /\ DOMAIN s = 1 .. L /\ \A j \in 1 .. L : s[j] \in Accounts
  BY SeqIs
<1>2. i \in 1 .. L /\ s[i] = k
  <2>1. \E j \in DOMAIN s : s[j] = k
    BY DEF Range
  <2> QED
    BY <1>1, <2>1
<1>3. r = a \o b
  BY DEF WithoutMember, RemoveAt
<1> HIDE DEF i
<1>4. a \in Seq(Accounts) /\ Len(a) = i - 1 /\ \A j \in 1 .. i - 1 : a[j] = s[j]
  <2>1. \A j \in 1 .. i - 1 : s[j] \in Accounts
    BY <1>1, <1>2
  <2>2. 1 \in Int /\ i - 1 \in Int /\ (i - 1) - 1 + 1 = i - 1 /\ (1 <= i - 1 \/ i - 1 = 0)
    BY <1>1, <1>2
  <2>3. /\ a \in Seq(Accounts) /\ Len(a) = (IF 1 <= i - 1 THEN (i - 1) - 1 + 1 ELSE 0)
        /\ \A j \in 1 .. (i - 1) - 1 + 1 : a[j] = s[1 + j - 1]
    BY <2>1, <2>2, SubSeqProperties
  <2>4. \A j \in 1 .. i - 1 : 1 + j - 1 = j
    OBVIOUS
  <2> HIDE DEF a
  <2> QED
    BY <2>2, <2>3, <2>4
<1>5. b \in Seq(Accounts) /\ Len(b) = L - i /\ \A j \in 1 .. L - i : b[j] = s[i + j]
  <2>1. \A j \in i + 1 .. L : s[j] \in Accounts
    BY <1>1, <1>2
  <2>2. i + 1 \in Int /\ L \in Int /\ L - (i + 1) + 1 = L - i /\ (i + 1 <= L \/ L - i = 0)
    <3>1. i \in Int /\ L \in Int /\ i <= L
      BY <1>1, <1>2
    <3> HIDE DEF L
    <3> QED
      BY ONLY <3>1
  <2>3. /\ b \in Seq(Accounts) /\ Len(b) = (IF i + 1 <= L THEN L - (i + 1) + 1 ELSE 0)
        /\ \A j \in 1 .. L - (i + 1) + 1 : b[j] = s[(i + 1) + j - 1]
    BY <2>1, <2>2, SubSeqProperties
  <2>4. \A j \in 1 .. L - i : (i + 1) + j - 1 = i + j
    BY <1>1, <1>2
  <2> HIDE DEF b
  <2> QED
    BY <2>2, <2>3, <2>4
<1> HIDE DEF a, b
<1>6. /\ r \in Seq(Accounts) /\ Len(r) = L - 1
      /\ \A j \in 1 .. L - 1 : r[j] = s[At(j)]
  <2>1. /\ r \in Seq(Accounts) /\ Len(r) = Len(a) + Len(b)
        /\ \A j \in 1 .. Len(a) + Len(b) : r[j] = IF j <= Len(a) THEN a[j] ELSE b[j - Len(a)]
    <3>1. a \in Seq(Accounts) /\ b \in Seq(Accounts)
      BY <1>4, <1>5
    <3>2. /\ a \o b \in Seq(Accounts) /\ Len(a \o b) = Len(a) + Len(b)
          /\ \A j \in 1 .. Len(a) + Len(b) : (a \o b)[j] = IF j <= Len(a) THEN a[j] ELSE b[j - Len(a)]
      BY ONLY <3>1, ConcatProperties
    <3> QED
      BY ONLY <1>3, <3>2
  <2>2. Len(a) + Len(b) = L - 1
    BY <1>1, <1>2, <1>4, <1>5
  <2>3. ASSUME NEW j \in 1 .. L - 1 PROVE r[j] = s[At(j)]
    <3>1. CASE j < i
      <4>1. j \in 1 .. i - 1 /\ j <= Len(a)
        BY <1>1, <1>2, <1>4, <3>1
      <4> QED
        BY <1>4, <2>1, <2>2, <3>1, <4>1
    <3>2. CASE ~ j < i
      <4>1. ~ j <= Len(a) /\ j - Len(a) = j - i + 1 /\ j - i + 1 \in 1 .. L - i /\ i + (j - i + 1) = j + 1
        BY <1>1, <1>2, <1>4, <3>2
      <4>2. r[j] = b[j - i + 1]
        BY <2>1, <2>2, <4>1
      <4>3. b[j - i + 1] = s[j + 1]
        BY <1>5, <4>1
      <4> QED
        BY <3>2, <4>2, <4>3
    <3> QED
      BY <3>1, <3>2
  <2> QED
    BY <2>1, <2>2, <2>3
<1>7. \A j \in 1 .. L - 1 : At(j) \in 1 .. L /\ At(j) # i
  BY <1>1, <1>2
<1>8. \A j, l \in 1 .. L - 1 : At(j) = At(l) => j = l
  BY <1>1, <1>2
<1>9. \A j \in 1 .. L : j # i => \E l \in 1 .. L - 1 : At(l) = j
  <2> SUFFICES ASSUME NEW j \in 1 .. L, j # i PROVE \E l \in 1 .. L - 1 : At(l) = j
    OBVIOUS
  <2>1. CASE j < i
    <3>1. j \in 1 .. L - 1 /\ At(j) = j
      BY <1>1, <1>2, <2>1
    <3> QED
      BY <3>1
  <2>2. CASE ~ j < i
    <3>1. j - 1 \in 1 .. L - 1 /\ At(j - 1) = j
      BY <1>1, <1>2, <2>2
    <3> QED
      BY <3>1
  <2> QED
    BY <2>1, <2>2
<1>10. DOMAIN r = 1 .. L - 1 /\ Range(r) = {r[j] : j \in 1 .. L - 1}
  <2>1. DOMAIN r = 1 .. Len(r) /\ Range(r) = {r[j] : j \in 1 .. Len(r)}
    BY <1>6, SeqIs
  <2> QED
    BY <1>6, <2>1
<1> HIDE DEF At
<1>11. Distinct(r)
  BY <1>1, <1>6, <1>7, <1>8, <1>10 DEF Distinct
<1>12. Range(r) = Range(s) \ {k}
  <2>1. Range(s) = {s[j] : j \in 1 .. L}
    BY SeqIs
  <2>2. ASSUME NEW x \in Range(r) PROVE x \in Range(s) \ {k}
    <3>1. PICK j \in 1 .. L - 1 : x = s[At(j)]
      BY <1>6, <1>10
    <3>2. s[At(j)] # s[i]
      BY <1>1, <1>2, <1>7 DEF Distinct
    <3> QED
      BY <1>2, <1>7, <2>1, <3>1, <3>2
  <2>3. ASSUME NEW x \in Range(s) \ {k} PROVE x \in Range(r)
    <3>1. PICK j \in 1 .. L : x = s[j]
      BY <2>1
    <3>2. j # i
      BY <1>2, <3>1
    <3>3. PICK l \in 1 .. L - 1 : At(l) = j
      BY <1>9, <3>2
    <3> QED
      BY <1>6, <1>10, <3>1, <3>3
  <2> QED
    BY <2>2, <2>3
<1> QED
  BY <1>6, <1>11, <1>12

LEMMA PartyOfIs ==
  ASSUME NEW h, NEW off, NEW lone, PartyInv(h, off, lone), NEW k
  PROVE  /\ PartyOf(h, k) # 0 => PartyOf(h, k) \in DOMAIN h.parties /\ k \in Range(h.parties[PartyOf(h, k)].members)
         /\ PartyOf(h, k) = 0 => \A g \in DOMAIN h.parties : k \notin Range(h.parties[g].members)
         /\ \A g \in DOMAIN h.parties : k \in Range(h.parties[g].members) => g = PartyOf(h, k) /\ g # 0
<1> DEFINE in == {g \in DOMAIN h.parties : k \in Range(h.parties[g].members)}
           x == PartyOf(h, k)
<1>1. in \in SUBSET Nat /\ 0 \notin in
  BY Parameters DEF PartyInv
<1>2. x = IF in = {} THEN 0 ELSE LowestOf(in)
  BY DEF PartyOf
<1> HIDE DEF x
<1>3. CASE in = {}
  BY <1>2, <1>3 DEF x
<1>4. CASE in # {}
  <2>1. x \in in
    BY <1>1, <1>2, <1>4, LeastExists
  <2>2. \A g \in in : g = x
    BY <2>1 DEF PartyInv, Disjoint
  <2> QED
    BY <1>1, <2>1, <2>2 DEF x
<1> QED
  BY <1>3, <1>4

\* The parties do not matter to the rest.
LEMMA SamePlay ==
  ASSUME NEW h, NEW off, PlayInv(h, off), NEW n, IsHub(n),
         n.clients = h.clients, n.checks = h.checks, n.rooms = h.rooms
  PROVE  PlayInv(n, off)
BY DEF PlayInv, PlayTypes, CheckInv, OneActivity, SeatsInv

\* One party changes.
LEMMA PartyChange ==
  ASSUME NEW h, NEW off, NEW lone, PartyInv(h, off, lone), NEW g \in DOMAIN h.parties, NEW p \in Party, PartyFits(p),
         NEW off2, NEW lone2, lone \subseteq lone2 \cup {g}, g \in lone2 \/ ~ Lingers(p),
         NEW n, n.parties = [h.parties EXCEPT ![g] = p], \A k : Online(h, k) => Online(n, k),
         \A k \in Range(p.members) : k \in off2 \/ Online(n, k),
         \A o \in DOMAIN h.parties \ {g} : /\ off \cap Range(h.parties[o].members) \subseteq off2
                                           /\ Range(p.members) \cap Range(h.parties[o].members) = {}
  PROVE  PartyInv(n, off2, lone2)
<1> DEFINE P == h.parties
           Q == n.parties
<1>1. /\ P \in [DOMAIN P -> Party] /\ DOMAIN P \subseteq PartyIds /\ Disjoint(P)
      /\ \A o \in DOMAIN P : PartyFits(P[o]) /\ (o \in lone \/ ~ Lingers(P[o]))
      /\ \A o \in DOMAIN P : \A k \in Range(P[o].members) : k \in off \/ Online(h, k)
  BY DEF PartyInv
<1>2. /\ Q \in [DOMAIN P -> Party] /\ DOMAIN Q = DOMAIN P /\ Q[g] = p
      /\ \A o \in DOMAIN P \ {g} : Q[o] = P[o]
  BY <1>1
<1> HIDE DEF P, Q
<1>3. ASSUME NEW o \in DOMAIN Q
      PROVE  /\ PartyFits(Q[o])
             /\ o \in lone2 \/ ~ Lingers(Q[o])
             /\ \A k \in Range(Q[o].members) : k \in off2 \/ Online(n, k)
  <2>1. CASE o = g
    BY <1>2, <2>1
  <2>2. CASE o # g
    <3>1. o \in DOMAIN P \ {g} /\ Q[o] = P[o]
      BY <1>2, <2>2
    <3>2. off \cap Range(P[o].members) \subseteq off2
      BY <3>1 DEF P
    <3> QED
      BY <1>1, <2>2, <3>1, <3>2
  <2> QED
    BY <2>1, <2>2
<1>4. Disjoint(Q)
  <2> SUFFICES ASSUME NEW a \in DOMAIN P, NEW o \in DOMAIN P, a # o
               PROVE  Range(Q[a].members) \cap Range(Q[o].members) = {}
    BY <1>2 DEF Disjoint
  <2>1. \A x \in DOMAIN P \ {g} : Range(p.members) \cap Range(P[x].members) = {}
    BY DEF P
  <2>2. CASE a = g
    BY <1>2, <2>1, <2>2
  <2>3. CASE o = g
    BY <1>2, <2>1, <2>3
  <2>4. CASE a # g /\ o # g
    BY <1>1, <1>2, <2>4 DEF Disjoint
  <2> QED
    BY <2>2, <2>3, <2>4
<1> QED
  BY <1>1, <1>2, <1>3, <1>4 DEF PartyInv, Q

\* Nobody has come, gone or logged in or out.
SameLogins(h2, h) ==
  /\ DOMAIN h2.clients = DOMAIN h.clients
  /\ \A id \in DOMAIN h.clients : h2.clients[id].account = h.clients[id].account

LEMMA SameLoginsKeep ==
  ASSUME NEW h, NEW h2, SameLogins(h2, h)
  PROVE  /\ AccountInv(h) => AccountInv(h2)
         /\ \A k : Online(h2, k) <=> Online(h, k)
BY DEF SameLogins, AccountInv, Online

\* Parties that may not be left alone are gone if they are.
LEMMA TidyKeeps ==
  ASSUME NEW h, IsHub(h), NEW off, NEW lone, PartyInv(h, off, lone), NEW G, NEW n, n = Tidy(h, G)
  PROVE  /\ PartyInv(n, off, lone \ G) /\ IsHub(n)
         /\ n.clients = h.clients /\ n.checks = h.checks /\ n.rooms = h.rooms
         /\ DOMAIN n.parties \subseteq DOMAIN h.parties
         /\ \A g \in DOMAIN n.parties : n.parties[g] = h.parties[g]
         /\ \A g \in DOMAIN h.parties \ G : g \in DOMAIN n.parties
<1> DEFINE P == h.parties
           gone == {g \in G \cap DOMAIN P : Lingers(P[g])}
           left == Without(P, gone)
<1>1. n = [h EXCEPT !.parties = left]
  BY DEF Tidy
<1>2. left = [g \in DOMAIN P \ gone |-> P[g]]
  BY DEF Without
<1>3. gone \subseteq G /\ \A g \in DOMAIN P \ gone : g \in G => ~ Lingers(P[g])
  OBVIOUS
<1>4. /\ P \in [DOMAIN P -> Party] /\ DOMAIN P \subseteq PartyIds /\ Disjoint(P)
      /\ \A g \in DOMAIN P : /\ PartyFits(P[g]) /\ (g \in lone \/ ~ Lingers(P[g]))
                             /\ \A k \in Range(P[g].members) : k \in off \/ Online(h, k)
  BY DEF PartyInv
<1> HIDE DEF gone, left
<1>5. n = [clients |-> h.clients, checks |-> h.checks, rooms |-> h.rooms, parties |-> left]
  BY <1>1, HubParts
<1>6. n.clients = h.clients /\ n.checks = h.checks /\ n.rooms = h.rooms /\ n.parties = left
  BY <1>5
<1>7. IsHub(n)
  BY <1>5, <1>6 DEF IsHub
<1>8. DOMAIN left = DOMAIN P \ gone /\ \A g \in DOMAIN left : left[g] = P[g]
  BY <1>2
<1>9. \A k : Online(h, k) => Online(n, k)
  BY <1>6 DEF Online
<1> HIDE DEF P
<1>10. left \in [DOMAIN left -> Party] /\ DOMAIN left \subseteq PartyIds
  BY <1>2, <1>4, <1>8
<1>11. Disjoint(left)
  BY <1>4, <1>8 DEF Disjoint
<1>12. ASSUME NEW g \in DOMAIN left
       PROVE  /\ PartyFits(left[g]) /\ (g \in lone \ G \/ ~ Lingers(left[g]))
              /\ \A k \in Range(left[g].members) : k \in off \/ Online(n, k)
  BY <1>3, <1>4, <1>8, <1>9
<1>13. PartyInv(n, off, lone \ G)
  BY <1>6, <1>10, <1>11, <1>12 DEF PartyInv
<1> QED
  BY <1>3, <1>6, <1>7, <1>8, <1>13 DEF P

\* The parties an account is not in are as they were.
OthersStay(h2, h, key) ==
  \A g \in DOMAIN h.parties : key \notin Range(h.parties[g].members) =>
    g \in DOMAIN h2.parties /\ h2.parties[g] = h.parties[g]

\* The connections are as before, or as when party g has stopped searching.
AsHalted(n, h, g) == n.clients = h.clients \/ (g # 0 /\ n.clients = HaltPartySearch(h, g).clients)

LEMMA LeavePartyKeeps ==
  ASSUME NEW h, NEW out, PlayInv(h, out), AccountInv(h), NEW off, NEW lone, PartyInv(h, off, lone), NEW key,
         NEW n, n = LeaveParty(h, key)
  PROVE  /\ PlayInv(n, out) /\ AccountInv(n) /\ PartyInv(n, off \ {key}, lone) /\ SameLogins(n, h)
         /\ \A g \in DOMAIN n.parties : key \notin Range(n.parties[g].members)
         /\ OthersStay(n, h, key) /\ n.checks = h.checks /\ Quiet(n, h)
         /\ AsHalted(n, h, PartyOf(h, key))
<1> DEFINE g == PartyOf(h, key)
           P == h.parties
<1>1. CASE g = 0
  <2>1. n = h
    BY <1>1 DEF LeaveParty
  <2>2. \A x \in DOMAIN P : key \notin Range(P[x].members)
    BY <1>1, PartyOfIs
  <2>3. PartyInv(h, off \ {key}, lone)
    BY <2>2 DEF PartyInv
  <2> QED
    BY <2>1, <2>2, <2>3 DEF SameLogins, OthersStay, Quiet, AsHalted
<1>2. CASE g # 0
  <2>1. /\ g \in DOMAIN P /\ key \in Range(P[g].members)
        /\ \A x \in DOMAIN P : key \in Range(P[x].members) => x = g
    BY <1>2, PartyOfIs
  <2>2. /\ P \in [DOMAIN P -> Party] /\ P[g] \in Party /\ PartyFits(P[g])
        /\ \A k \in Range(P[g].members) : k \in off \/ Online(h, k)
        /\ \A x \in DOMAIN P \ {g} : Range(P[g].members) \cap Range(P[x].members) = {}
    BY <2>1 DEF PartyInv, Disjoint
  <2> DEFINE half == HaltPartySearch(h, g)
             s == P[g].members
             W == WithoutMember(s, key)
             p == [members |-> W, invited |-> P[g].invited]
             m == [half EXCEPT !.parties[g].members = W]
  <2> HIDE DEF g
  <2>3. s \in Seq(Accounts) /\ P[g].invited \in SUBSET Accounts /\ Distinct(s) /\ Len(s) <= Seats /\ Len(s) \in Nat
    BY <2>2, SeqIs DEF Party, PartyFits
  <2>4. W \in Seq(Accounts) /\ Len(W) = Len(s) - 1 /\ Distinct(W) /\ Range(W) = Range(s) \ {key}
    BY <2>1, <2>3, WithoutMemberIs
  <2>5. Calmer(half, h)
    BY <2>3, HaltCalms DEF PlayInv
  <2>6. PlayInv(half, out) /\ SameAccounts(half, h) /\ half.checks = h.checks /\ Quiet(half, h)
    BY <2>5, CalmerKeeps
  <2>7. half.parties = P /\ IsHub(half)
    BY <2>6 DEF SameAccounts, PlayInv, PlayTypes
  <2>8. n = Tidy(m, {g})
    <3>1. n = Tidy([half EXCEPT !.parties[g].members = WithoutMember(@, key)], {g})
      BY <1>2 DEF LeaveParty, g
    <3>2. half.parties[g].members = s
      BY <2>7
    <3> HIDE DEF half, s
    <3>3. [half EXCEPT !.parties[g].members = WithoutMember(@, key)] = [half EXCEPT !.parties[g].members = WithoutMember(s, key)]
      BY <3>2
    <3> QED
      BY <3>1, <3>3
  <2> HIDE DEF half, W, P, s
  <2>9. /\ IsHub(m) /\ m.clients = half.clients /\ m.checks = half.checks /\ m.rooms = half.rooms
        /\ m.parties = [P EXCEPT ![g] = [members |-> W, invited |-> P[g].invited]]
    <3> DEFINE Q == [half.parties EXCEPT ![g] = [half.parties[g] EXCEPT !.members = W]]
    <3>1. m = [half EXCEPT !.parties = Q]
      OBVIOUS
    <3>2. Q = [P EXCEPT ![g] = [members |-> W, invited |-> P[g].invited]]
      <4>1. [P[g] EXCEPT !.members = W] = [members |-> W, invited |-> P[g].invited]
        BY <2>2 DEF Party
      <4> QED
        BY <2>7, <4>1
    <3> HIDE DEF Q
    <3>3. m = [clients |-> half.clients, checks |-> half.checks, rooms |-> half.rooms, parties |-> Q]
      BY <2>7, <3>1, HubParts
    <3> HIDE DEF m
    <3>4. m.clients = half.clients /\ m.checks = half.checks /\ m.rooms = half.rooms /\ m.parties = Q
      BY <3>3
    <3> QED
      BY <3>2, <3>3, <3>4 DEF IsHub
  <2>10. PlayInv(m, out)
    BY <2>6, <2>9, SamePlay
  <2>11. SameLogins(m, h)
    BY <2>6, <2>9 DEF SameAccounts, SameLogins
  <2>12. \A k : Online(h, k) => Online(m, k)
    BY <2>11, SameLoginsKeep
  <2>13. p \in Party /\ p.members = W /\ p.invited = P[g].invited
    BY <2>3, <2>4 DEF Party
  <2>14. PartyFits(p)
    <3>1. Len(W) <= Seats
      BY <2>3, <2>4, Parameters
    <3>2. P[g].invited \cap Range(s) = {}
      BY <2>2 DEF PartyFits, s
    <3> QED
      BY <2>4, <2>13, <3>1, <3>2 DEF PartyFits
  <2> HIDE DEF m, p
  <2>15. m.parties = [h.parties EXCEPT ![g] = p]
    BY <2>9 DEF p, P
  <2>16. PartyInv(m, off \ {key}, lone \cup {g})
    <3>1. lone \subseteq (lone \cup {g}) \cup {g} /\ g \in lone \cup {g} /\ g \in DOMAIN h.parties
      BY <2>1 DEF P
    <3>2. \A k \in Range(p.members) : k \in off \ {key} \/ Online(m, k)
      <4>1. \A k \in Range(s) : k \in off \/ Online(h, k)
        BY <2>2 DEF s
      <4> QED
        BY <2>4, <2>12, <2>13, <4>1
    <3>3. \A o \in DOMAIN h.parties \ {g} : /\ off \cap Range(h.parties[o].members) \subseteq off \ {key}
                                            /\ Range(p.members) \cap Range(h.parties[o].members) = {}
      BY <2>1, <2>2, <2>4, <2>13 DEF P, s
    <3> QED
      BY <2>12, <2>13, <2>14, <2>15, <3>1, <3>2, <3>3, PartyChange
  <2>17. /\ PartyInv(n, off \ {key}, (lone \cup {g}) \ {g}) /\ IsHub(n)
         /\ n.clients = m.clients /\ n.checks = m.checks /\ n.rooms = m.rooms
         /\ DOMAIN n.parties \subseteq DOMAIN m.parties
         /\ \A x \in DOMAIN n.parties : n.parties[x] = m.parties[x]
         /\ \A x \in DOMAIN m.parties \ {g} : x \in DOMAIN n.parties
    BY <2>8, <2>9, <2>16, TidyKeeps
  <2>18. PartyInv(n, off \ {key}, lone)
    BY <2>17 DEF PartyInv
  <2>19. PlayInv(n, out) /\ SameLogins(n, h)
    BY <2>10, <2>11, <2>17, SamePlay DEF SameLogins
  <2>20. AccountInv(n)
    BY <2>19, SameLoginsKeep
  <2>21. DOMAIN m.parties = DOMAIN P /\ m.parties[g] = p /\ \A x \in DOMAIN P \ {g} : m.parties[x] = P[x]
    BY <2>1, <2>2, <2>15 DEF P
  <2>22. \A x \in DOMAIN n.parties : key \notin Range(n.parties[x].members)
    BY <2>1, <2>4, <2>13, <2>17, <2>21
  <2>23. \A x \in DOMAIN P : key \notin Range(P[x].members) => x \in DOMAIN n.parties /\ n.parties[x] = P[x]
    BY <2>1, <2>17, <2>21
  <2>24. OthersStay(n, h, key)
    BY <2>23 DEF P, OthersStay
  <2>25. n.checks = h.checks /\ n.clients = half.clients
    BY <2>6, <2>9, <2>17
  <2>26. Quiet(n, h)
    BY <2>6, <2>25 DEF Quiet
  <2>27. AsHalted(n, h, PartyOf(h, key))
    BY <1>2, <2>25 DEF g, half, AsHalted
  <2> QED
    BY <2>18, <2>19, <2>20, <2>22, <2>24, <2>25, <2>26, <2>27
<1> QED
  BY <1>1, <1>2

\* Invites lapse, and parties that are left alone by it go.
LEMMA ExpireInvitesKeeps ==
  ASSUME NEW h, HubInv(h), NEW lapsed, NEW n, n = ExpireInvites(h, lapsed)
  PROVE  HubInv(n) /\ n.clients = h.clients /\ n.checks = h.checks /\ n.rooms = h.rooms
<1> DEFINE P == h.parties
           G == {t[1] : t \in lapsed}
           Open(g) == {k \in P[g].invited : <<g, k>> \notin lapsed}
           Q == [g \in DOMAIN P |-> [P[g] EXCEPT !.invited = {k \in P[g].invited : <<g, k>> \notin lapsed}]]
           m == [h EXCEPT !.parties = Q]
<1>1. n = Tidy(m, G)
  BY DEF ExpireInvites
<1>2. /\ PlayInv(h, {}) /\ AccountInv(h) /\ IsHub(h)
      /\ P \in [DOMAIN P -> Party] /\ DOMAIN P \subseteq PartyIds /\ Disjoint(P)
      /\ \A g \in DOMAIN P : /\ PartyFits(P[g]) /\ ~ Lingers(P[g])
                             /\ \A k \in Range(P[g].members) : Online(h, k)
  BY DEF HubInv, PartyInv, PlayInv, PlayTypes
<1>3. ASSUME NEW g \in DOMAIN P
      PROVE  /\ Q[g] = [members |-> P[g].members, invited |-> Open(g)]
             /\ g \notin G => Open(g) = P[g].invited
  <2>1. P[g] \in Party
    BY <1>2
  <2>2. Q[g] = [P[g] EXCEPT !.invited = Open(g)]
    OBVIOUS
  <2>3. \A k : <<g, k>> \in lapsed => g \in G
    <3> SUFFICES ASSUME NEW k, <<g, k>> \in lapsed PROVE g \in G
      OBVIOUS
    <3>1. <<g, k>>[1] = g
      OBVIOUS
    <3> QED
      BY <3>1
  <2>4. g \notin G => Open(g) = P[g].invited
    BY <2>3
  <2> HIDE DEF Open, G, Q
  <2> QED
    BY <2>1, <2>2, <2>4 DEF Party
<1>4. DOMAIN Q = DOMAIN P /\ Q = [g \in DOMAIN P |-> Q[g]]
  OBVIOUS
<1> HIDE DEF Q, G
<1>5. m = [clients |-> h.clients, checks |-> h.checks, rooms |-> h.rooms, parties |-> Q]
  BY <1>2, HubParts
<1> HIDE DEF m
<1>6. m.clients = h.clients /\ m.checks = h.checks /\ m.rooms = h.rooms /\ m.parties = Q
  BY <1>5
<1>7. IsHub(m)
  BY <1>5, <1>6 DEF IsHub
<1>8. \A g \in DOMAIN P : Open(g) \subseteq P[g].invited
  OBVIOUS
<1> HIDE DEF P, Open
<1>9. ASSUME NEW g \in DOMAIN P
      PROVE  Q[g] \in Party /\ Q[g].members = P[g].members /\ Q[g].invited = Open(g)
  <2>1. Q[g] = [members |-> P[g].members, invited |-> Open(g)]
    BY <1>3
  <2>2. P[g] \in [members : Seq(Accounts), invited : SUBSET Accounts]
    BY ONLY <1>2 DEF Party
  <2>3. P[g].members \in Seq(Accounts) /\ P[g].invited \subseteq Accounts
    BY ONLY <2>2
  <2>4. Open(g) \subseteq Accounts
    BY ONLY <2>3, <1>8
  <2> QED
    BY ONLY <2>1, <2>3, <2>4 DEF Party
<1>10. PartyInv(m, {}, G)
  <2>1. Q \in [DOMAIN Q -> Party] /\ DOMAIN Q \subseteq PartyIds
    BY <1>2, <1>4, <1>9
  <2>2. Disjoint(Q)
    BY <1>2, <1>4, <1>9 DEF Disjoint
  <2>3. \A k : Online(h, k) => Online(m, k)
    BY <1>6 DEF Online
  <2>4. ASSUME NEW g \in DOMAIN Q
        PROVE  /\ PartyFits(Q[g]) /\ (g \in G \/ ~ Lingers(Q[g]))
               /\ \A k \in Range(Q[g].members) : Online(m, k)
    <3>1. PartyFits(Q[g])
      BY <1>2, <1>4, <1>8, <1>9 DEF PartyFits
    <3>2. g \in G \/ ~ Lingers(Q[g])
      BY <1>2, <1>3, <1>4, <1>9 DEF Lingers
    <3> QED
      BY <1>2, <1>4, <1>9, <2>3, <3>1, <3>2
  <2> QED
    BY <1>6, <2>1, <2>2, <2>4 DEF PartyInv
<1>11. /\ PartyInv(n, {}, G \ G) /\ IsHub(n)
       /\ n.clients = m.clients /\ n.checks = m.checks /\ n.rooms = m.rooms
  BY <1>1, <1>7, <1>10, TidyKeeps
<1>12. PartyInv(n, {}, {})
  BY <1>11 DEF PartyInv
<1>13. PlayInv(n, {})
  BY <1>2, <1>6, <1>11, SamePlay
<1>14. AccountInv(n)
  BY <1>2, <1>6, <1>11 DEF AccountInv
<1> QED
  BY <1>6, <1>11, <1>12, <1>13, <1>14 DEF HubInv

\* There are fewer parties than ids, as their first members differ.
LEMMA FreshPartyIs ==
  ASSUME NEW h, HubInv(h)
  PROVE  FreshParty(h) \in PartyIds /\ FreshParty(h) \notin DOMAIN h.parties
<1> DEFINE P == h.parties
           D == DOMAIN h.clients
           N == NumConns + Cardinality(Accounts)
           used == {h.clients[id].group : id \in D}
           A == used \cap PartyIds
           first == [g \in DOMAIN P |-> P[g].members[1]]
<1>1. /\ P \in [DOMAIN P -> Party] /\ DOMAIN P \subseteq PartyIds /\ Disjoint(P)
      /\ \A g \in DOMAIN P : ~ Lingers(P[g])
      /\ D \subseteq Conns
  BY DEF HubInv, PartyInv, PlayInv, PlayTypes
<1>2. ASSUME NEW g \in DOMAIN P
      PROVE  first[g] \in Accounts /\ first[g] \in Range(P[g].members)
  <2>1. P[g].members \in Seq(Accounts) /\ P[g].members # << >>
    BY <1>1 DEF Party, Lingers
  <2>2. 1 \in DOMAIN P[g].members
    <3> DEFINE s == P[g].members
    <3>1. s \in Seq(Accounts) /\ s # << >>
      BY <2>1
    <3> HIDE DEF s
    <3>2. Len(s) \in Nat /\ DOMAIN s = 1 .. Len(s) /\ Len(s) # 0
      BY <3>1, SeqIs
    <3> QED
      BY <3>2 DEF s
  <2>3. P[g].members[1] \in Range(P[g].members)
    BY <2>2 DEF Range
  <2>4. Range(P[g].members) \subseteq Accounts
    BY <2>1, SeqIs
  <2> QED
    BY <2>3, <2>4
<1>3. first \in Injection(DOMAIN P, Accounts)
  <2>1. first \in [DOMAIN P -> Accounts]
    BY <1>2
  <2>2. ASSUME NEW a \in DOMAIN P, NEW b \in DOMAIN P, first[a] = first[b], a # b
        PROVE  FALSE
    <3>1. Range(P[a].members) \cap Range(P[b].members) = {}
      BY ONLY <1>1, <2>2 DEF Disjoint
    <3>2. first[a] \in Range(P[a].members) /\ first[b] \in Range(P[b].members)
      BY <1>2
    <3> QED
      BY ONLY <2>2, <3>1, <3>2
  <2> QED
    BY <2>1, <2>2, Fun_IsInj
<1>4. Cardinality(DOMAIN P) <= Cardinality(Accounts) /\ IsFiniteSet(DOMAIN P)
  BY <1>3, Parameters, FS_Injection
<1>5. Cardinality(used) <= Cardinality(D) /\ IsFiniteSet(used) /\ Cardinality(D) <= NumConns
  <2>1. IsFiniteSet(D) /\ Cardinality(D) <= NumConns
    BY <1>1, Parameters, FS_Subset
  <2> DEFINE f == [id \in D |-> h.clients[id].group]
  <2>2. f \in [D -> used] /\ \A u \in used : \E id \in D : f[id] = u
    OBVIOUS
  <2>3. f \in Surjection(D, used)
    BY <2>2, Fun_IsSurj
  <2> HIDE DEF f, used
  <2> QED
    BY <2>1, <2>3, FS_Surjection
<1>6. Cardinality(A) <= Cardinality(used) /\ IsFiniteSet(A)
  BY <1>5, FS_Subset
<1>7. /\ Cardinality(A) \in Nat /\ Cardinality(used) \in Nat /\ Cardinality(D) \in Nat /\ Cardinality(DOMAIN P) \in Nat
  <2>1. IsFiniteSet(D)
    BY <1>1, Parameters, FS_Subset
  <2> QED
    BY <1>4, <1>5, <1>6, <2>1, FS_CardinalityType
<1>8. N \in Nat /\ Cardinality(PartyIds) = 2 * N
  BY Parameters
<1>9. Cardinality(A) <= N /\ Cardinality(DOMAIN P) < N
  BY <1>4, <1>5, <1>6, <1>7, Parameters
<1>10. FreshParty(h) = LowestOf(PartyIds \ (A \cup DOMAIN P))
  <2>1. PartyIds \ (DOMAIN P \cup used) = PartyIds \ (A \cup DOMAIN P)
    OBVIOUS
  <2> HIDE DEF A
  <2> QED
    BY <2>1 DEF FreshParty
<1>11. A \in SUBSET PartyIds /\ DOMAIN P \in SUBSET PartyIds /\ PartyIds \in SUBSET Nat /\ IsFiniteSet(PartyIds)
  BY <1>1, Parameters
<1> HIDE DEF A, P, N
<1>12. LowestOf(PartyIds \ (A \cup DOMAIN P)) \in PartyIds \ (A \cup DOMAIN P)
  BY <1>8, <1>9, <1>11, FreeId
<1> QED
  BY <1>10, <1>12 DEF P

-----------------------------------------------------------------------------
(* The actions.                                                            *)

\* What an action starts from.
LEMMA HubIs ==
  ASSUME QueueInv
  PROVE  /\ PlayInv(Hub, {}) /\ AccountInv(Hub) /\ PartyInv(Hub, {}, {}) /\ IsHub(Hub) /\ StateFits
         /\ Hub.clients = clients /\ Hub.checks = checks /\ Hub.rooms = rooms /\ Hub.parties = parties
<1>1. Hub.clients = clients /\ Hub.checks = checks /\ Hub.rooms = rooms /\ Hub.parties = parties
  BY DEF Hub
<1>2. PlayInv(Hub, {}) /\ AccountInv(Hub) /\ PartyInv(Hub, {}, {}) /\ IsHub(Hub)
  BY DEF QueueInv, HubInv, PlayInv, PlayTypes
<1>3. StateFits
  <2>1. PlayTypes(Hub) /\ WithinLimit(DOMAIN rooms, DOMAIN checks)
    BY <1>1, <1>2 DEF PlayInv
  <2>2. DOMAIN rooms \subseteq RoomIds /\ DOMAIN checks \subseteq CheckIds
    BY <1>1, <2>1 DEF PlayTypes
  <2>3. IsFiniteSet(DOMAIN rooms) /\ IsFiniteSet(DOMAIN checks)
    BY <1>1, <2>1, FiniteTables
  <2>4. Cardinality(DOMAIN rooms) \in Nat /\ Cardinality(DOMAIN checks) \in Nat
    BY <2>3, FS_CardinalityType
  <2> QED
    BY <2>1, <2>2, <2>4, Parameters DEF WithinLimit, StateFits
<1> QED
  BY <1>1, <1>2, <1>3

LEMMA HubStep ==
  ASSUME NEW n, Becomes(n), HubInv(n)
  PROVE  QueueInv' /\ Hub' = n
<1>1. IsHub(n)
  BY DEF HubInv, PlayInv, PlayTypes
<1>2. Hub' = [clients |-> clients', checks |-> checks', rooms |-> rooms', parties |-> parties']
  BY DEF Hub
<1>3. Hub' = n
  BY <1>1, <1>2 DEF Becomes, IsHub
<1> QED
  BY <1>3 DEF QueueInv

\* A step that leaves accounts and parties alone.
LEMMA PlayStep ==
  ASSUME QueueInv, NEW n, Becomes(n), PlayInv(n, {}), SameAccounts(n, Hub)
  PROVE  QueueInv' /\ Hub' = n
<1>1. AccountInv(n) /\ PartyInv(n, {}, {})
  BY HubIs, SameAccountsKeep
<1>2. HubInv(n)
  BY <1>1 DEF HubInv
<1> QED
  BY <1>2, HubStep

LEMMA ViolateKeeps ==
  ASSUME QueueInv, NEW id, Violate(id)
  PROVE  QueueInv' /\ Quiet(Hub', Hub)
<1>1. PICK n : n = Closing(Hub, id)
  OBVIOUS
<1>2. id \in DOMAIN Hub.clients /\ Becomes(n)
  BY <1>1, HubIs DEF Violate, Listening
<1>3. PlayInv(n, {}) /\ SameAccounts(n, Hub) /\ Quiet(n, Hub)
  BY <1>1, <1>2, HubIs, ClosingKeeps
<1> QED
  BY <1>2, <1>3, PlayStep

LEMMA LeaveQueueKeeps ==
  ASSUME QueueInv, NEW id, LeaveQueue(id)
  PROVE  QueueInv' /\ Quiet(Hub', Hub)
<1>1. id \in DOMAIN Hub.clients
  BY HubIs DEF LeaveQueue, Listening
<1>2. CASE clients[id].check # 0
  <2>1. PICK n : n = Decline(Hub, id)
    OBVIOUS
  <2>2. Becomes(n)
    BY <1>2, <2>1 DEF LeaveQueue
  <2>3. PlayInv(n, {}) /\ SameAccounts(n, Hub) /\ Quiet(n, Hub)
    BY <1>1, <2>1, HubIs, DeclineKeeps
  <2> QED
    BY <2>2, <2>3, PlayStep
<1>3. CASE clients[id].check = 0
  <2>1. PICK n : n = StopSearch(Hub, id)
    OBVIOUS
  <2>2. Becomes(n)
    BY <1>3, <2>1 DEF LeaveQueue
  <2>3. Calmer(n, Hub)
    BY <1>1, <2>1, HubIs, StopSearchCalms DEF PlayInv
  <2>4. PlayInv(n, {}) /\ SameAccounts(n, Hub) /\ Quiet(n, Hub)
    BY <2>3, HubIs, CalmerKeeps
  <2> QED
    BY <2>2, <2>4, PlayStep
<1> QED
  BY <1>2, <1>3

LEMMA AcceptMatchKeeps ==
  ASSUME QueueInv, NEW id, AcceptMatch(id)
  PROVE  QueueInv' /\ Quiet(Hub', Hub)
<1> DEFINE k == clients[id].check
           A == checks[k].accepted \cup {id}
<1>1. id \in DOMAIN clients /\ k # 0
  BY DEF AcceptMatch, Listening
<1>2. k \in DOMAIN checks
  BY <1>1, HubIs DEF PlayInv, OneActivity
<1>3. A \in SUBSET checks[k].players
  BY <1>1, <1>2, HubIs DEF PlayInv, CheckInv
<1>4. PICK a : a = [Hub EXCEPT !.checks[k].accepted = A]
  OBVIOUS
<1>5. PICK n : n = Progress(a, k)
  OBVIOUS
<1>6. Becomes(n)
  <2>1. [Hub EXCEPT !.checks[k].accepted = @ \cup {id}] = [Hub EXCEPT !.checks[k].accepted = A]
    BY HubIs
  <2> QED
    BY <1>4, <1>5, <2>1 DEF AcceptMatch
<1> HIDE DEF k, A
<1>7. PlayInv(n, {}) /\ SameAccounts(n, Hub) /\ Quiet(n, Hub)
  <2>1. k \in DOMAIN Hub.checks /\ A \in SUBSET Hub.checks[k].players
    BY <1>2, <1>3, HubIs
  <2> QED
    <3>1. PICK h, q, B : h = Hub /\ q = k /\ B = A
      OBVIOUS
    <3>2. /\ StateFits /\ PlayInv(h, {}) /\ q \in DOMAIN h.checks /\ B \in SUBSET h.checks[q].players
          /\ a = Accepting(h, q, B) /\ n = Progress(a, q)
      BY <1>4, <1>5, <2>1, <3>1, HubIs DEF Accepting
    <3>3. /\ PlayInv(n, {}) /\ SameAccounts(n, h) /\ DOMAIN n.checks \subseteq DOMAIN h.checks
          /\ \A w \in DOMAIN h.clients : n.clients[w].order \in {0, h.clients[w].order}
      BY ONLY <3>2, AnswerKeeps
    <3> QED
      BY <3>1, <3>3 DEF SameAccounts, Quiet
<1> QED
  BY <1>6, <1>7, PlayStep

\* A connection comes, in no check and not searching.
LEMMA AddedKeeps ==
  ASSUME NEW h, PlayInv(h, {}), NEW id \in Conns \ DOMAIN h.clients, NEW c \in Client,
         c.account = NoAccount, c.check = 0, ~ c.searching, c.room \in {0} \cup DOMAIN h.rooms,
         NEW w, w = With(h.clients, id, c),
         NEW n, n = [clients |-> w, checks |-> h.checks, rooms |-> h.rooms, parties |-> h.parties]
  PROVE  /\ PlayInv(n, {}) /\ n.rooms = h.rooms /\ n.checks = h.checks /\ Quiet(n, h)
         /\ n.clients[id] = c /\ DOMAIN n.clients = DOMAIN h.clients \cup {id}
         /\ AccountInv(h) => AccountInv(n)
         /\ \A off, lone : PartyInv(h, off, lone) => PartyInv(n, off, lone)
<1> DEFINE f == h.clients
           D == DOMAIN f
<1>1. DOMAIN w = D \cup {id} /\ w[id] = c /\ \A x \in D : w[x] = f[x] /\ x # id
  BY DEF With
<1>2. w = [x \in DOMAIN w |-> w[x]]
  BY DEF With
<1>3. /\ f \in [D -> Client] /\ D \subseteq Conns
  BY DEF PlayInv, PlayTypes
<1>4. w \in [DOMAIN w -> Client] /\ DOMAIN w \subseteq Conns
  BY <1>1, <1>2, <1>3
<1>6. n.clients = w /\ n.checks = h.checks /\ n.rooms = h.rooms /\ n.parties = h.parties /\ IsHub(n)
  BY DEF IsHub
<1>7. PlayTypes(n)
  BY <1>4, <1>6 DEF PlayInv, PlayTypes
<1>8. CheckInv(n)
  <2> SUFFICES ASSUME NEW k \in DOMAIN h.checks
               PROVE  h.checks[k].players = {x \in DOMAIN w : w[x].check = k}
    BY <1>6 DEF CheckInv, PlayInv
  <2>1. k # 0
    BY Parameters DEF PlayInv, PlayTypes
  <2>2. {x \in DOMAIN w : w[x].check = k} = {x \in D : f[x].check = k}
    BY <1>1, <2>1
  <2> QED
    BY <2>2 DEF PlayInv, CheckInv
<1>9. OneActivity(n, {})
  BY <1>1, <1>6 DEF PlayInv, OneActivity
<1>10. SeatsInv(n)
  BY <1>1, <1>6 DEF PlayInv, SeatsInv
<1>11. AccountInv(h) => AccountInv(n)
  BY <1>1, <1>6 DEF AccountInv
<1>12. \A k : Online(h, k) => Online(n, k)
  BY <1>1, <1>6 DEF Online
<1>13. \A off, lone : PartyInv(h, off, lone) => PartyInv(n, off, lone)
  BY <1>6, <1>12 DEF PartyInv
<1>14. Quiet(n, h)
  BY <1>1, <1>6 DEF Quiet
<1> QED
  BY <1>1, <1>6, <1>7, <1>8, <1>9, <1>10, <1>11, <1>13, <1>14 DEF PlayInv

LEMMA OnConnectKeeps ==
  ASSUME QueueInv, NEW id, OnConnect(id)
  PROVE  QueueInv' /\ Quiet(Hub', Hub)
<1>1. PICK n : n = [Hub EXCEPT !.clients = With(Hub.clients, id, NewClient)]
  OBVIOUS
<1>2. Becomes(n)
  BY <1>1, HubIs DEF OnConnect
<1>3. id \in Conns \ DOMAIN Hub.clients
  BY HubIs DEF OnConnect
<1> PICK w : w = With(Hub.clients, id, NewClient)
  OBVIOUS
<1>4. n = [clients |-> w, checks |-> Hub.checks, rooms |-> Hub.rooms, parties |-> Hub.parties]
  <2>1. IsHub(Hub)
    BY HubIs
  <2> QED
    BY <1>1, <2>1, HubParts
<1>5. PlayInv(n, {}) /\ AccountInv(n) /\ PartyInv(n, {}, {}) /\ Quiet(n, Hub)
  <2> HIDE DEF Hub
  <2> QED
    BY <1>3, <1>4, HubIs, NewClientIs, AddedKeeps
<1> QED
  BY <1>2, <1>5, HubStep DEF HubInv

LEMMA LeaveMatchKeeps ==
  ASSUME QueueInv, NEW id, LeaveMatch(id)
  PROVE  QueueInv' /\ Quiet(Hub', Hub)
<1>1. PICK v : v = Vacated(Hub, id)
  OBVIOUS
<1>2. PICK n : n = [v EXCEPT !.clients[id].room = 0]
  OBVIOUS
<1>3. Becomes(n) /\ id \in DOMAIN Hub.clients
  BY <1>1, <1>2, HubIs DEF LeaveMatch, Listening
<1>4. PlayInv(v, {}) /\ v.clients = Hub.clients /\ v.checks = Hub.checks /\ v.parties = Hub.parties /\ NoSeat(v, id) /\ IsHub(v)
  <2>1. PlayInv(v, {}) /\ v.clients = Hub.clients /\ v.checks = Hub.checks /\ v.parties = Hub.parties /\ NoSeat(v, id)
    BY <1>1, <1>3, HubIs, VacatedKeeps
  <2> QED
    BY <2>1 DEF PlayInv, PlayTypes
<1> DEFINE f == v.clients
           e == [f[id] EXCEPT !.room = 0]
           c == [f EXCEPT ![id] = e]
<1>5. id \in DOMAIN f /\ f \in [DOMAIN f -> Client] /\ f[id] \in Client
  BY <1>3, <1>4 DEF PlayInv, PlayTypes
<1>6. n = [v EXCEPT !.clients = c]
  BY <1>2
<1>7. /\ e = [account |-> f[id].account, closing |-> f[id].closing, room |-> 0, check |-> f[id].check,
               searching |-> f[id].searching, mode |-> f[id].mode, order |-> f[id].order, waited |-> f[id].waited,
               wants |-> f[id].wants, group |-> f[id].group]
  BY <1>5, FieldIs
<1>8. e \in Client
  BY <1>5, <1>7, ClientIs DEF Client
<1>9. /\ e.account = f[id].account /\ e.closing = f[id].closing /\ e.room = 0
      /\ e.check = f[id].check /\ e.searching = f[id].searching /\ e.order = f[id].order
  BY <1>7
<1> HIDE DEF e
<1>10. c \in [DOMAIN f -> Client] /\ c[id] = e /\ \A w \in DOMAIN f \ {id} : c[w] = f[w]
  BY <1>5, <1>8
<1> HIDE DEF c
<1>11. n = [clients |-> c, checks |-> v.checks, rooms |-> v.rooms, parties |-> v.parties]
  BY <1>4, <1>6, HubParts
<1>12. \A w \in DOMAIN v.clients :
           /\ c[w].check = v.clients[w].check
           /\ c[w].room = v.clients[w].room \/ (c[w].room = 0 /\ \A r \in DOMAIN v.rooms : \A s \in DOMAIN v.rooms[r] : v.rooms[r][s] # w)
           /\ c[w].searching => v.clients[w].searching \/ (c[w].check = 0 /\ c[w].room = 0)
           /\ w \notin {} /\ c[w].closing => ~ c[w].searching /\ c[w].check = 0
  <2> SUFFICES ASSUME NEW w \in DOMAIN f
               PROVE  /\ c[w].check = f[w].check
                      /\ c[w].room = f[w].room \/ (c[w].room = 0 /\ \A r \in DOMAIN v.rooms : \A s \in DOMAIN v.rooms[r] : v.rooms[r][s] # w)
                      /\ c[w].searching => f[w].searching \/ (c[w].check = 0 /\ c[w].room = 0)
                      /\ w \notin {} /\ c[w].closing => ~ c[w].searching /\ c[w].check = 0
    OBVIOUS
  <2>1. f[w].closing => ~ f[w].searching /\ f[w].check = 0
    BY <1>4 DEF PlayInv, OneActivity
  <2>2. CASE w = id
    BY <1>4, <1>9, <1>10, <2>1, <2>2 DEF NoSeat
  <2>3. CASE w # id
    BY <1>10, <2>1, <2>3
  <2> QED
    BY <2>2, <2>3
<1>13. c \in [DOMAIN v.clients -> Client]
  BY <1>10
<1>14. PlayInv(n, {})
  BY <1>4, <1>11, <1>12, <1>13, ClientsChange
<1>15. SameAccounts(n, Hub) /\ Quiet(n, Hub)
  <2>1. n.clients = c /\ n.parties = v.parties /\ n.checks = v.checks
    BY <1>11
  <2> QED
    BY <1>4, <1>9, <1>10, <2>1 DEF SameAccounts, Quiet
<1> QED
  BY <1>3, <1>14, <1>15, PlayStep

LEMMA FillTimePassesKeeps ==
  ASSUME QueueInv, NEW id, FillTimePasses(id)
  PROVE  QueueInv' /\ Quiet(Hub', Hub)
<1> PICK yes : yes = TRUE
  OBVIOUS
<1> DEFINE f == clients
           e == [f[id] EXCEPT !.waited = yes]
           c == [f EXCEPT ![id] = e]
<1>1. id \in DOMAIN f
  BY DEF FillTimePasses, Searching, Checking
<1>2. f \in [DOMAIN f -> Client] /\ f[id] \in Client
  BY <1>1, HubIs DEF PlayInv, PlayTypes
<1>3. e = [account |-> f[id].account, closing |-> f[id].closing, room |-> f[id].room, check |-> f[id].check,
           searching |-> f[id].searching, mode |-> f[id].mode, order |-> f[id].order, waited |-> yes,
           wants |-> f[id].wants, group |-> f[id].group]
  BY <1>2, FieldIs
<1>4. e \in Client
  <2>1. yes \in BOOLEAN
    OBVIOUS
  <2> QED
    BY <1>2, <1>3, <2>1, ClientIs DEF Client
<1>5. /\ e.account = f[id].account /\ e.closing = f[id].closing /\ e.room = f[id].room
      /\ e.check = f[id].check /\ e.searching = f[id].searching /\ e.order = f[id].order
  BY <1>3
<1>6. clients' = c
  BY DEF FillTimePasses
<1> HIDE DEF e
<1>7. c \in [DOMAIN f -> Client] /\ c[id] = e /\ \A w \in DOMAIN f \ {id} : c[w] = f[w]
  BY <1>1, <1>2, <1>4
<1> HIDE DEF c
<1>8. PICK n : n = [clients |-> c, checks |-> Hub.checks, rooms |-> Hub.rooms, parties |-> Hub.parties]
  OBVIOUS
<1>9. n.clients = c /\ n.checks = checks /\ n.rooms = rooms /\ n.parties = parties
  BY <1>8, HubIs
<1>10. Becomes(n)
  BY <1>6, <1>9 DEF Becomes, FillTimePasses
<1>11. \A w \in DOMAIN Hub.clients :
           /\ c[w].check = Hub.clients[w].check
           /\ c[w].room = Hub.clients[w].room
           /\ c[w].searching => Hub.clients[w].searching
           /\ w \notin {} /\ c[w].closing => ~ c[w].searching /\ c[w].check = 0
  <2> SUFFICES ASSUME NEW w \in DOMAIN f
               PROVE  /\ c[w].check = f[w].check /\ c[w].room = f[w].room
                      /\ c[w].searching => f[w].searching
                      /\ w \notin {} /\ c[w].closing => ~ c[w].searching /\ c[w].check = 0
    BY HubIs
  <2>1. f[w].closing => ~ f[w].searching /\ f[w].check = 0
    BY HubIs DEF PlayInv, OneActivity
  <2> QED
    BY <1>5, <1>7, <2>1
<1>12. c \in [DOMAIN Hub.clients -> Client]
  BY <1>7, HubIs
<1>13. PlayInv(n, {})
  <2> HIDE DEF Hub
  <2> QED
    BY <1>8, <1>11, <1>12, HubIs, ClientsChange
<1>14. SameAccounts(n, Hub) /\ Quiet(n, Hub)
  BY <1>5, <1>7, <1>9, HubIs DEF SameAccounts, Quiet
<1> QED
  BY <1>10, <1>13, <1>14, PlayStep

\* A connection comes with the token of a seat, and takes it.
LEMMA OnConnectWithTokenKeeps ==
  ASSUME QueueInv, NEW id, NEW r, NEW s, OnConnectWithToken(id, r, s)
  PROVE  QueueInv' /\ Quiet(Hub', Hub)
<1> PICK yes : yes = TRUE
  OBVIOUS
<1> DEFINE f == clients
           old == rooms[r][s]
           marked(x) == [f[x] EXCEPT !.closing = yes]
           c == [x \in DOMAIN f |-> IF x = old THEN marked(x) ELSE f[x]]
           new == [NewClient EXCEPT !.room = r]
           w == With(c, id, new)
           R == [rooms EXCEPT ![r] = [rooms[r] EXCEPT ![s] = id]]
<1>1. /\ id \in Conns \ DOMAIN f /\ r \in DOMAIN rooms /\ s \in DOMAIN rooms[r]
  BY DEF OnConnectWithToken
<1>2. /\ f \in [DOMAIN f -> Client] /\ DOMAIN f \subseteq Conns /\ DOMAIN rooms \subseteq RoomIds
      /\ rooms = [x \in DOMAIN rooms |-> rooms[x]]
      /\ \A x \in DOMAIN rooms : rooms[x] \in [DOMAIN rooms[x] -> {0} \cup Conns] /\ DOMAIN rooms[x] \subseteq Conns
  BY HubIs DEF PlayInv, PlayTypes
<1>3. ASSUME NEW x \in DOMAIN f
      PROVE  /\ c[x] \in Client /\ c[x].account = f[x].account /\ c[x].room = f[x].room
             /\ c[x].check = f[x].check /\ c[x].searching = f[x].searching /\ c[x].order = f[x].order
             /\ x # old => c[x].closing = f[x].closing
  <2>1. f[x] \in Client
    BY <1>2
  <2>2. marked(x) = [account |-> f[x].account, closing |-> yes, room |-> f[x].room, check |-> f[x].check,
               searching |-> f[x].searching, mode |-> f[x].mode, order |-> f[x].order, waited |-> f[x].waited,
               wants |-> f[x].wants, group |-> f[x].group]
    BY <2>1, FieldIs
  <2>3. yes \in BOOLEAN
    OBVIOUS
  <2>4. marked(x) \in Client
    BY <2>1, <2>2, <2>3, ClientIs DEF Client
  <2>5. /\ marked(x).account = f[x].account /\ marked(x).room = f[x].room
        /\ marked(x).check = f[x].check /\ marked(x).searching = f[x].searching /\ marked(x).order = f[x].order
    BY <2>2
  <2>6. c[x] = IF x = old THEN marked(x) ELSE f[x]
    OBVIOUS
  <2> HIDE DEF marked, c
  <2> QED
    BY <2>1, <2>4, <2>5, <2>6
<1>4. c \in [DOMAIN f -> Client] /\ DOMAIN c = DOMAIN f
  <2>1. DOMAIN c = DOMAIN f /\ c = [x \in DOMAIN f |-> c[x]]
    OBVIOUS
  <2> HIDE DEF c
  <2> QED
    BY <1>3, <2>1
<1>5. PICK a : a = [clients |-> c, checks |-> Hub.checks, rooms |-> Hub.rooms, parties |-> Hub.parties]
  OBVIOUS
<1>6. \A x \in DOMAIN f :
           /\ c[x].check = f[x].check
           /\ c[x].room = f[x].room
           /\ c[x].searching => f[x].searching
           /\ x \notin {} /\ c[x].closing => ~ c[x].searching /\ c[x].check = 0
  <2> TAKE x \in DOMAIN f
  <2>1. /\ f[x].closing => ~ f[x].searching /\ f[x].check = 0
        /\ f[x].room # 0 => ~ f[x].searching /\ f[x].check = 0
    BY HubIs DEF PlayInv, OneActivity
  <2>2. x = old => f[x].room # 0
    <3> HAVE x = old
    <3>1. x # 0 /\ 0 \notin RoomIds
      BY <1>2, Parameters
    <3>2. old # 0 => f[old].room = r
      BY <1>1, HubIs DEF PlayInv, SeatsInv
    <3> QED
      BY <1>1, <1>2, <3>1, <3>2
  <2> QED
    BY <1>3, <2>1, <2>2
<1> HIDE DEF c
<1>7. PlayInv(a, {}) /\ SameAccounts(a, Hub) /\ a.clients = c /\ a.rooms = rooms /\ a.checks = checks /\ a.parties = parties
  <2>1. a.clients = c /\ a.rooms = rooms /\ a.checks = checks /\ a.parties = parties
    BY <1>5, HubIs
  <2>2. SameAccounts(a, Hub)
    BY <1>3, <1>4, <2>1, HubIs DEF SameAccounts
  <2>3. PlayInv(a, {})
    <3>1. c \in [DOMAIN Hub.clients -> Client]
      BY <1>4, HubIs
    <3>2. \A x \in DOMAIN Hub.clients :
           /\ c[x].check = Hub.clients[x].check
           /\ c[x].room = Hub.clients[x].room
           /\ c[x].searching => Hub.clients[x].searching
           /\ x \notin {} /\ c[x].closing => ~ c[x].searching /\ c[x].check = 0
      BY <1>6, HubIs
    <3> HIDE DEF Hub
    <3> QED
      BY <1>5, <3>1, <3>2, HubIs, ClientsChange
  <2> QED
    BY <2>1, <2>2, <2>3
<1>8. new \in Client /\ new.account = NoAccount /\ new.check = 0 /\ ~ new.searching /\ new.room = r
  <2> DEFINE b == NewClient
  <2>1. /\ b \in Client /\ b.account = NoAccount /\ b.check = 0 /\ ~ b.searching
    BY NewClientIs
  <2> HIDE DEF b
  <2>2. [b EXCEPT !.room = r] = [account |-> b.account, closing |-> b.closing, room |-> r, check |-> b.check,
               searching |-> b.searching, mode |-> b.mode, order |-> b.order, waited |-> b.waited,
               wants |-> b.wants, group |-> b.group]
    BY <2>1, FieldIs
  <2>3. new = [b EXCEPT !.room = r]
    BY DEF b
  <2>4. new \in Client
    BY <1>1, <1>2, <2>1, <2>2, <2>3, ClientIs DEF Client
  <2> QED
    BY <2>1, <2>2, <2>3, <2>4
<1> HIDE DEF new
<1> PICK b : b = With(a.clients, id, new)
  OBVIOUS
<1>9. PICK m : m = [clients |-> b, checks |-> a.checks, rooms |-> a.rooms, parties |-> a.parties]
  OBVIOUS
<1>10. /\ PlayInv(m, {}) /\ m.rooms = a.rooms /\ m.checks = a.checks /\ m.clients = b /\ m.clients[id] = new /\ DOMAIN m.clients = DOMAIN a.clients \cup {id}
       /\ AccountInv(m) /\ PartyInv(m, {}, {})
  <2>1. id \in Conns \ DOMAIN a.clients /\ new.room \in {0} \cup DOMAIN a.rooms
    BY <1>1, <1>4, <1>7, <1>8
  <2>2. AccountInv(a) /\ PartyInv(a, {}, {})
    BY <1>7, HubIs, SameAccountsKeep
  <2>3. PICK e : e = new
    OBVIOUS
  <2>4. /\ e \in Client /\ e.account = NoAccount /\ e.check = 0 /\ ~ e.searching /\ e.room \in {0} \cup DOMAIN a.rooms
    BY <1>8, <2>1, <2>3
  <2>5. b = With(a.clients, id, e)
    BY <2>3
  <2>6. PlayInv(a, {}) /\ id \in Conns \ DOMAIN a.clients
    BY <1>7, <2>1
  <2>7. PlayInv(m, {})
    BY ONLY <1>9, <2>4, <2>5, <2>6, AddedKeeps
  <2>8. m.rooms = a.rooms /\ m.checks = a.checks /\ m.clients = b
    BY ONLY <1>9
  <2>9. b[id] = e /\ DOMAIN b = DOMAIN a.clients \cup {id}
    BY ONLY <2>5 DEF With
  <2>10. AccountInv(m)
    BY ONLY <1>9, <2>2, <2>4, <2>5, <2>6, AddedKeeps
  <2>11. PartyInv(m, {}, {})
    BY ONLY <1>9, <2>2, <2>4, <2>5, <2>6, AddedKeeps
  <2> QED
    BY <2>3, <2>7, <2>8, <2>9, <2>10, <2>11
<1>11. PICK n : n = [clients |-> m.clients, checks |-> m.checks, rooms |-> R, parties |-> m.parties]
  OBVIOUS
<1>12. Becomes(n)
  <2>1. PICK z : z = [Hub EXCEPT !.clients = w, !.rooms = R]
    OBVIOUS
  <2>2. Becomes(z)
    <3>1. c = [x \in DOMAIN Hub.clients |-> IF x = Hub.rooms[r][s] THEN [Hub.clients[x] EXCEPT !.closing = TRUE] ELSE Hub.clients[x]]
      BY HubIs DEF c
    <3>2. R = [Hub.rooms EXCEPT ![r][s] = id]
      BY HubIs
    <3> HIDE DEF Hub, R
    <3> QED
      BY <2>1, <3>1, <3>2, HubIs DEF OnConnectWithToken, new
  <2>3. z = [clients |-> w, checks |-> checks, rooms |-> R, parties |-> parties]
    <3> HIDE DEF w, R
    <3> QED
      BY <2>1 DEF Hub
  <2>4. n = z
    BY <1>7, <1>9, <1>11, <2>3
  <2> QED
    BY <2>2, <2>4
<1> HIDE DEF w
<1>13. /\ DOMAIN R = DOMAIN rooms /\ R = [x \in DOMAIN rooms |-> R[x]]
       /\ \A x \in DOMAIN rooms : /\ DOMAIN R[x] = DOMAIN rooms[x] /\ R[x] \in [DOMAIN rooms[x] -> {0} \cup Conns]
                                  /\ \A t \in DOMAIN rooms[x] : R[x][t] = rooms[x][t] \/ (R[x][t] = id /\ x = r)
  BY <1>1, <1>2
<1> HIDE DEF R
<1>14. n.clients = m.clients /\ n.checks = m.checks /\ n.rooms = R /\ n.parties = m.parties /\ IsHub(n)
  BY <1>11 DEF IsHub
<1>15. m.rooms = rooms /\ id \in DOMAIN m.clients /\ m.clients[id].room = r
  BY <1>7, <1>8, <1>10
<1>16. PlayInv(n, {})
  <2>1. PlayTypes(n)
    BY <1>2, <1>10, <1>13, <1>14, <1>15 DEF PlayInv, PlayTypes
  <2>2. CheckInv(n)
    BY <1>10, <1>14 DEF PlayInv, CheckInv
  <2>3. OneActivity(n, {})
    BY <1>10, <1>13, <1>14, <1>15 DEF PlayInv, OneActivity
  <2>4. SeatsInv(n)
    BY <1>10, <1>13, <1>14, <1>15 DEF PlayInv, SeatsInv
  <2>5. WithinLimit(DOMAIN n.rooms, DOMAIN n.checks)
    BY <1>10, <1>13, <1>14, <1>15 DEF PlayInv
  <2> QED
    BY <2>1, <2>2, <2>3, <2>4, <2>5 DEF PlayInv
<1>17. AccountInv(n) /\ PartyInv(n, {}, {})
  <2>1. SameAccounts(n, m)
    BY <1>14 DEF SameAccounts
  <2> QED
    BY <1>10, <2>1, SameAccountsKeep
<1>18. Quiet(n, Hub)
  <2>1. \A x \in DOMAIN f : b[x] = c[x]
    BY <1>1, <1>4, <1>7 DEF With
  <2> QED
    BY <1>3, <1>7, <1>10, <1>14, <2>1, HubIs DEF Quiet
<1> QED
  BY <1>12, <1>16, <1>17, <1>18, HubStep DEF HubInv

\* Whoever is still there is as before.
StayWho(n, h) == \A x \in DOMAIN n.clients : n.clients[x] = h.clients[x]

\* A connection goes that is in no check and on no seat.
LEMMA RemovedKeeps ==
  ASSUME NEW h, PlayInv(h, {}), AccountInv(h), PartyInv(h, {}, {}), NEW id \in DOMAIN h.clients,
         h.clients[id].check = 0, NoSeat(h, id),
         NEW n, n = [h EXCEPT !.clients = Without(@, {id})]
  PROVE  /\ PlayInv(n, {}) /\ AccountInv(n) /\ PartyInv(n, {h.clients[id].account}, {})
         /\ Quiet(n, h) /\ n.checks = h.checks /\ n.parties = h.parties
         /\ DOMAIN n.clients = DOMAIN h.clients \ {id} /\ StayWho(n, h)
<1> DEFINE f == h.clients
           D == DOMAIN f
           w == Without(f, {id})
<1>1. DOMAIN w = D \ {id} /\ w = [x \in DOMAIN w |-> w[x]] /\ \A x \in D \ {id} : w[x] = f[x]
  BY DEF Without
<1>2. f \in [D -> Client] /\ D \subseteq Conns /\ IsHub(h)
  BY DEF PlayInv, PlayTypes
<1>3. w \in [DOMAIN w -> Client] /\ DOMAIN w \subseteq Conns
  BY <1>1, <1>2
<1>4. n = [h EXCEPT !.clients = w]
  OBVIOUS
<1> HIDE DEF w
<1>5. n = [clients |-> w, checks |-> h.checks, rooms |-> h.rooms, parties |-> h.parties]
  BY <1>2, <1>4, HubParts
<1>6. n.clients = w /\ n.checks = h.checks /\ n.rooms = h.rooms /\ n.parties = h.parties /\ IsHub(n)
  BY ONLY <1>5 DEF IsHub
<1>7. PlayTypes(n)
  BY <1>3, <1>6 DEF PlayInv, PlayTypes
<1>8. CheckInv(n)
  <2> SUFFICES ASSUME NEW k \in DOMAIN h.checks
               PROVE  h.checks[k].players = {x \in DOMAIN w : w[x].check = k}
    BY <1>6 DEF CheckInv, PlayInv
  <2>1. k # 0
    BY Parameters DEF PlayInv, PlayTypes
  <2>2. {x \in DOMAIN w : w[x].check = k} = {x \in D : f[x].check = k}
    BY <1>1, <2>1
  <2> QED
    BY <2>2 DEF PlayInv, CheckInv
<1>9. OneActivity(n, {})
  BY <1>1, <1>6 DEF PlayInv, OneActivity
<1>10. SeatsInv(n)
  BY <1>1, <1>6 DEF PlayInv, SeatsInv, NoSeat
<1>11. AccountInv(n)
  BY <1>1, <1>6 DEF AccountInv
<1>12. \A k : Online(h, k) => k = f[id].account \/ Online(n, k)
  BY <1>1, <1>6 DEF Online
<1>13. PartyInv(n, {f[id].account}, {})
  BY <1>6, <1>12 DEF PartyInv
<1>14. Quiet(n, h)
  BY <1>1, <1>6 DEF Quiet
<1> QED
  BY <1>1, <1>6, <1>7, <1>8, <1>9, <1>10, <1>11, <1>13, <1>14 DEF PlayInv, StayWho

\* Nobody is missed who is online after all, or who is no account.
LEMMA NotMissed ==
  ASSUME NEW h, NEW off, NEW lone, PartyInv(h, off, lone), \A k \in off : k = NoAccount \/ Online(h, k)
  PROVE  PartyInv(h, {}, lone)
<1>1. ASSUME NEW g \in DOMAIN h.parties, NEW m \in Range(h.parties[g].members)
      PROVE  Online(h, m)
  <2>1. h.parties[g].members \in Seq(Accounts)
    BY DEF PartyInv, Party
  <2>2. m \in Accounts
    BY <2>1, SeqIs
  <2>3. m # NoAccount
    BY <2>2, Parameters
  <2> QED
    BY <2>3 DEF PartyInv
<1> QED
  BY <1>1 DEF PartyInv

LEMMA OnDisconnectKeeps ==
  ASSUME QueueInv, NEW id, OnDisconnect(id)
  PROVE  QueueInv' /\ Quiet(Hub', Hub)
<1> DEFINE account == clients[id].account
<1>1. PICK v : v = Vacated(Hub, id)
  OBVIOUS
<1>2. PICK c : c = Closing(v, id)
  OBVIOUS
<1>3. PICK gone : gone = [c EXCEPT !.clients = Without(@, {id})]
  OBVIOUS
<1>4. PICK n : n = IF account # NoAccount /\ ConnOf(gone, account) = 0 THEN LeaveParty(gone, account) ELSE gone
  OBVIOUS
<1>5. Becomes(n) /\ id \in DOMAIN Hub.clients
  BY <1>1, <1>2, <1>3, <1>4, HubIs DEF OnDisconnect
<1>6. PlayInv(v, {}) /\ v.clients = Hub.clients /\ v.checks = Hub.checks /\ v.parties = Hub.parties /\ NoSeat(v, id)
  BY <1>1, <1>5, HubIs, VacatedKeeps
<1>7. SameAccounts(v, Hub)
  BY <1>6 DEF SameAccounts
<1>8. PlayInv(c, {}) /\ SameAccounts(c, v) /\ c.rooms = v.rooms /\ c.clients[id].check = 0 /\ Quiet(c, v)
  BY <1>2, <1>5, <1>6, ClosingKeeps
<1>9. AccountInv(c) /\ PartyInv(c, {}, {})
  <2>1. SameAccounts(c, Hub)
    BY <1>7, <1>8, SameAccountsChain
  <2> QED
    BY <2>1, HubIs, SameAccountsKeep
<1>10. id \in DOMAIN c.clients /\ c.clients[id].account = account /\ NoSeat(c, id)
  BY <1>5, <1>6, <1>8, HubIs DEF SameAccounts, NoSeat
<1>11. PlayInv(gone, {}) /\ AccountInv(gone) /\ PartyInv(gone, {account}, {}) /\ Quiet(gone, c)
  <2>1. PlayInv(gone, {}) /\ AccountInv(gone) /\ PartyInv(gone, {c.clients[id].account}, {}) /\ Quiet(gone, c)
    BY <1>3, <1>8, <1>9, <1>10, RemovedKeeps
  <2> QED
    BY <1>10, <2>1
<1> HIDE DEF account
<1>12. HubInv(n) /\ Quiet(n, gone) /\ DOMAIN n.clients = DOMAIN gone.clients
  <2>1. CASE account # NoAccount /\ ConnOf(gone, account) = 0
    <3>1. n = LeaveParty(gone, account)
      BY <1>4, <2>1
    <3>2. PlayInv(n, {}) /\ AccountInv(n) /\ PartyInv(n, {account} \ {account}, {}) /\ Quiet(n, gone) /\ SameLogins(n, gone)
      BY <1>11, <3>1, LeavePartyKeeps
    <3>3. {account} \ {account} = {}
      OBVIOUS
    <3> QED
      BY <3>2, <3>3 DEF HubInv, SameLogins
  <2>2. CASE ~ (account # NoAccount /\ ConnOf(gone, account) = 0)
    <3>1. n = gone
      BY <1>4, <2>2
    <3>2. PlayTypes(gone)
      BY <1>11 DEF PlayInv
    <3>3. \A k \in {account} : k = NoAccount \/ Online(gone, k)
      BY <2>2, <3>2, ConnOfIs DEF Online
    <3>4. PartyInv(gone, {}, {})
      BY <1>11, <3>3, NotMissed
    <3> QED
      BY <1>11, <3>1, <3>4 DEF HubInv, Quiet
  <2> QED
    BY <2>1, <2>2
<1>13. Quiet(n, Hub)
  <2>1. Quiet(c, Hub)
    BY <1>6, <1>8 DEF Quiet
  <2>2. Quiet(gone, Hub)
    BY <1>6, <1>8, <1>11, <2>1, QuietChain DEF SameAccounts
  <2> QED
    BY <1>12, <2>2 DEF Quiet
<1> QED
  BY <1>5, <1>12, <1>13, HubStep

LEMMA TickKeeps ==
  ASSUME QueueInv, NEW over \in SUBSET DOMAIN rooms, NEW late \in SUBSET DOMAIN checks, NEW lapsed,
         Tick(over, late, lapsed)
  PROVE  QueueInv' /\ InOrder(Hub', DOMAIN checks)
<1>1. PICK ended : ended = EndRooms(Hub, over)
  OBVIOUS
<1>2. PICK decliners : decliners = UNION {checks[k].players \ checks[k].accepted : k \in late}
  OBVIOUS
<1>3. PICK failed : failed = FailProposals(ended, late, decliners)
  OBVIOUS
<1>4. PICK made : made = Matchmake(failed)
  OBVIOUS
<1>5. PICK n : n = ExpireInvites(made, lapsed)
  OBVIOUS
<1>6. Becomes(n)
  BY <1>1, <1>2, <1>3, <1>4, <1>5 DEF Tick
<1>7. 0 \notin over /\ 0 \notin late
  BY HubIs, Parameters DEF StateFits
<1>8. PlayInv(ended, {}) /\ SameAccounts(ended, Hub) /\ Quiet(ended, Hub)
  BY <1>1, <1>7, HubIs, EndRoomsKeeps
<1>9. PlayInv(failed, {}) /\ SameAccounts(failed, ended) /\ Quiet(failed, ended)
  <2>1. Failed(failed, ended, late)
    BY <1>3, <1>8, FailProposalsFails DEF PlayInv
  <2> QED
    BY <1>7, <1>8, <2>1, FailedKeeps
<1>10. PlayInv(made, {}) /\ SameAccounts(made, failed) /\ \A K : InOrder(failed, K) => InOrder(made, K)
  BY <1>4, <1>9, HubIs, MatchmakeKeeps
<1>11. AccountInv(made) /\ PartyInv(made, {}, {})
  <2>1. SameAccounts(made, Hub)
    BY <1>8, <1>9, <1>10, SameAccountsChain
  <2> QED
    BY <2>1, HubIs, SameAccountsKeep
<1>12. HubInv(n) /\ n.clients = made.clients /\ n.checks = made.checks
  BY <1>5, <1>10, <1>11, ExpireInvitesKeeps DEF HubInv
<1>13. InOrder(made, DOMAIN checks)
  <2>1. DOMAIN failed.checks \subseteq DOMAIN checks
    BY <1>8, <1>9, HubIs DEF Quiet
  <2>2. InOrder(failed, DOMAIN checks)
    BY <2>1 DEF InOrder
  <2> QED
    BY <1>10, <2>2
<1>14. InOrder(n, DOMAIN checks)
  BY <1>12, <1>13, SameOrder
<1> QED
  BY <1>6, <1>12, <1>14, HubStep

\* The last place in the queue that is held.
LEMMA LastOrderIs ==
  ASSUME QueueInv, clients # << >>
  PROVE  LastOrder \in 0 .. MaxOrder
<1> DEFINE held == {clients[id].order : id \in DOMAIN clients}
           below == {MaxOrder - x : x \in held}
           m == LowestOf(below)
<1>1. \A x \in held : x \in 0 .. MaxOrder
  BY HubIs DEF PlayInv, PlayTypes, Client
<1>2. held # {}
  <2>1. DOMAIN clients # {}
    <3> SUFFICES ASSUME DOMAIN clients = {} PROVE clients = << >>
      OBVIOUS
    <3>1. clients \in [DOMAIN clients -> Client]
      BY HubIs DEF PlayInv, PlayTypes
    <3> QED
      BY <3>1
  <2> QED
    BY <2>1
<1>3. MaxOrder \in Nat
  BY Parameters
<1> HIDE DEF held
<1>4. below \in SUBSET Nat /\ below # {}
  BY <1>1, <1>2, <1>3
<1>5. m \in below /\ \A y \in below : m <= y
  BY <1>4, LeastExists
<1> HIDE DEF m
<1>6. PICK x \in held : m = MaxOrder - x
  BY <1>5
<1>7. \A y \in held : y <= x
  <2> TAKE y \in held
  <2>1. m <= MaxOrder - y
    BY <1>5
  <2>2. x \in Nat /\ y \in Nat
    BY <1>1
  <2> QED
    BY <1>3, <1>6, <2>1, <2>2
<1>8. LastOrder = CHOOSE z \in held : \A y \in held : y <= z
  BY DEF LastOrder, held
<1>9. LastOrder \in held
  BY <1>7, <1>8
<1> QED
  BY <1>1, <1>9

\* A client that is told its group and its wish, and one that takes its place.
Told(c, wants, group) == [c EXCEPT !.wants = wants, !.group = group]
Placed(c, mode, order) == [c EXCEPT !.searching = TRUE, !.mode = mode, !.order = order, !.waited = FALSE]

LEMMA QueuedIs ==
  ASSUME NEW c \in Client, NEW wants \in BOOLEAN, NEW group \in {0} \cup PartyIds,
         NEW mode \in Modes, NEW order \in 0 .. MaxOrder,
         NEW told, told = Told(c, wants, group),
         NEW queued, queued = Placed(told, mode, order)
  PROVE  /\ told \in Client /\ queued \in Client
         /\ told.account = c.account /\ told.closing = c.closing /\ told.room = c.room
         /\ told.check = c.check /\ told.searching = c.searching
         /\ queued.account = c.account /\ queued.closing = c.closing /\ queued.room = c.room
         /\ queued.check = c.check
<1>1. PICK yes : yes = TRUE
  OBVIOUS
<1>2. PICK no : no = FALSE
  OBVIOUS
<1>3. c = [account |-> c.account, closing |-> c.closing, room |-> c.room, check |-> c.check,
           searching |-> c.searching, mode |-> c.mode, order |-> c.order, waited |-> c.waited,
           wants |-> c.wants, group |-> c.group]
  BY ClientIs
<1>4. told = [account |-> c.account, closing |-> c.closing, room |-> c.room, check |-> c.check,
              searching |-> c.searching, mode |-> c.mode, order |-> c.order, waited |-> c.waited,
              wants |-> wants, group |-> group]
  BY <1>3 DEF Told
<1>5. queued = [told EXCEPT !.searching = yes, !.mode = mode, !.order = order, !.waited = no]
  BY <1>1, <1>2 DEF Placed
<1>6. queued = [account |-> c.account, closing |-> c.closing, room |-> c.room, check |-> c.check,
                searching |-> yes, mode |-> mode, order |-> order, waited |-> no,
                wants |-> wants, group |-> group]
  BY ONLY <1>4, <1>5
<1>7. yes \in BOOLEAN /\ no \in BOOLEAN
  BY <1>1, <1>2
<1>8. told \in Client
  BY ONLY <1>4, c \in Client, wants \in BOOLEAN, group \in {0} \cup PartyIds, ClientIs DEF Client
<1>9. queued \in Client
  <2>1. mode \in Modes \cup {"none"}
    OBVIOUS
  <2> QED
    BY ONLY <1>6, <1>7, <2>1, c \in Client, wants \in BOOLEAN, group \in {0} \cup PartyIds, order \in 0 .. MaxOrder, ClientIs DEF Client
<1>10. told.account = c.account /\ told.closing = c.closing /\ told.room = c.room
       /\ told.check = c.check /\ told.searching = c.searching
  BY ONLY <1>4
<1>11. queued.account = c.account /\ queued.closing = c.closing /\ queued.room = c.room /\ queued.check = c.check
  BY ONLY <1>6
<1> QED
  BY ONLY <1>8, <1>9, <1>10, <1>11

\* Who queues together is online and in no match.
LEMMA GroupIs ==
  ASSUME QueueInv, NEW id, Listening(id), NEW mode, MayQueue(id, mode), NEW x \in GroupOf(id)
  PROVE  /\ x \in DOMAIN clients /\ ~ clients[x].closing /\ clients[x].room = 0 /\ clients[x].check = 0
<1> DEFINE g == PartyOf(Hub, clients[id].account)
<1>1. CASE g # 0 /\ Len(parties[g].members) > 1
  <2>1. GroupOf(id) = {ConnOf(Hub, k) : k \in Range(parties[g].members)}
    BY <1>1 DEF GroupOf
  <2>2. PICK k \in Range(parties[g].members) : x = ConnOf(Hub, k)
    BY <2>1
  <2>3. x # 0 /\ clients[x].room = 0 /\ clients[x].check = 0
    BY <1>1 DEF MayQueue
  <2>4. x \in DOMAIN Hub.clients /\ ~ Hub.clients[x].closing
    BY <2>2, <2>3, HubIs, ConnOfIs DEF PlayInv
  <2> QED
    BY <2>3, <2>4, HubIs
<1>2. CASE ~ (g # 0 /\ Len(parties[g].members) > 1)
  <2>1. GroupOf(id) = {id}
    BY <1>2 DEF GroupOf
  <2> QED
    BY <2>1 DEF MayQueue, Listening
<1> QED
  BY <1>1, <1>2

LEMMA JoinQueueKeeps ==
  ASSUME QueueInv, NEW id, NEW mode \in Modes, NEW wants \in Wants, JoinQueue(id, mode, wants)
  PROVE  QueueInv' /\ InOrder(Hub', DOMAIN checks) /\ DOMAIN checks \subseteq DOMAIN checks'
<1> DEFINE f == clients
           group == GroupOf(id)
           fresh == ~ clients[id].searching \/ clients[id].mode # mode
           order == IF fresh THEN LastOrder + 1 ELSE clients[id].order
           groupId == IF Cardinality(group) > 1 THEN PartyOf(Hub, clients[id].account) ELSE 0
           told(x) == [f[x] EXCEPT !.wants = wants, !.group = groupId]
           waits(x) == [told(x) EXCEPT !.searching = TRUE, !.mode = mode, !.order = order, !.waited = FALSE]
           c == [x \in DOMAIN f |-> IF x \notin group THEN f[x]
                                    ELSE IF fresh \/ ~ f[x].searching THEN waits(x) ELSE told(x)]
<1>1. Listening(id) /\ MayQueue(id, mode) /\ order <= MaxOrder
  BY DEF JoinQueue
<1>2. PICK a : a = [Hub EXCEPT !.clients = c]
  OBVIOUS
<1>3. PICK n : n = Matchmake(a)
  OBVIOUS
<1>4. Becomes(n)
  BY <1>2, <1>3 DEF JoinQueue
<1>5. order \in 0 .. MaxOrder
  <2>1. id \in DOMAIN f /\ f # << >>
    BY <1>1 DEF Listening
  <2>2. LastOrder \in 0 .. MaxOrder
    BY <2>1, LastOrderIs
  <2>3. f[id].order \in 0 .. MaxOrder
    BY <2>1, HubIs DEF PlayInv, PlayTypes, Client
  <2>4. order \in Nat
    <3> HIDE DEF fresh
    <3> QED
      BY <2>2, <2>3
  <2> QED
    BY <1>1, <2>4, Parameters
<1>6. groupId \in {0} \cup PartyIds
  <2>1. PartyOf(Hub, clients[id].account) \in {0} \cup DOMAIN parties
    BY HubIs, PartyOfIs
  <2>2. DOMAIN parties \subseteq PartyIds
    BY HubIs DEF PartyInv
  <2> QED
    BY <2>1, <2>2
<1>7. wants \in BOOLEAN
  BY Parameters
<1>8. f \in [DOMAIN f -> Client]
  BY HubIs DEF PlayInv, PlayTypes
<1>9. DOMAIN c = DOMAIN f /\ c = [x \in DOMAIN f |-> c[x]]
  OBVIOUS
<1>10. ASSUME NEW x \in DOMAIN f
       PROVE  /\ c[x] \in Client /\ c[x].account = f[x].account /\ c[x].closing = f[x].closing
              /\ c[x].room = f[x].room /\ c[x].check = f[x].check
              /\ x \notin group => c[x].searching = f[x].searching
  <2>1. PICK t : t = told(x)
    OBVIOUS
  <2>2. PICK q : q = waits(x)
    OBVIOUS
  <2>3. (c[x] = f[x] /\ x \notin group) \/ (c[x] = q /\ x \in group) \/ (c[x] = t /\ x \in group)
    <3> HIDE DEF waits, told, group, fresh
    <3> QED
      BY <2>1, <2>2
  <2>4. f[x] \in Client
    BY <1>8
  <2> HIDE DEF c, group, order, groupId, fresh
  <2>5. PICK e : e = f[x]
    OBVIOUS
  <2>6. PICK o, i : o = order /\ i = groupId
    OBVIOUS
  <2>7. t = Told(e, wants, i)
    BY <2>1, <2>5, <2>6 DEF Told
  <2>8. q = Placed(t, mode, o)
    BY <2>1, <2>2, <2>6 DEF Placed
  <2>9. e \in Client /\ o \in 0 .. MaxOrder /\ i \in {0} \cup PartyIds
    BY <1>5, <1>6, <2>4, <2>5, <2>6
  <2>10. /\ t \in Client /\ q \in Client
         /\ t.account = e.account /\ t.closing = e.closing /\ t.room = e.room /\ t.check = e.check
         /\ q.account = e.account /\ q.closing = e.closing /\ q.room = e.room /\ q.check = e.check
    BY ONLY <1>7, <2>7, <2>8, <2>9, mode \in Modes, QueuedIs
  <2> QED
    BY <2>3, <2>4, <2>5, <2>10
<1> HIDE DEF c
<1>11. a = [clients |-> c, checks |-> Hub.checks, rooms |-> Hub.rooms, parties |-> Hub.parties]
  <2>1. IsHub(Hub)
    BY HubIs
  <2> QED
    BY <1>2, <2>1, HubParts
<1>12. \A w \in DOMAIN Hub.clients :
           /\ c[w].check = Hub.clients[w].check
           /\ c[w].room = Hub.clients[w].room
           /\ c[w].searching => Hub.clients[w].searching \/ (c[w].check = 0 /\ c[w].room = 0)
           /\ w \notin {} /\ c[w].closing => ~ c[w].searching /\ c[w].check = 0
  <2> SUFFICES ASSUME NEW w \in DOMAIN f
               PROVE  /\ c[w].check = f[w].check /\ c[w].room = f[w].room
                      /\ c[w].searching => f[w].searching \/ (c[w].check = 0 /\ c[w].room = 0)
                      /\ w \notin {} /\ c[w].closing => ~ c[w].searching /\ c[w].check = 0
    BY HubIs
  <2>1. f[w].closing => ~ f[w].searching /\ f[w].check = 0
    BY HubIs DEF PlayInv, OneActivity
  <2>2. CASE w \in group
    <3>1. ~ f[w].closing /\ f[w].room = 0 /\ f[w].check = 0
      BY <1>1, <2>2, GroupIs
    <3> QED
      BY <1>10, <3>1
  <2>3. CASE w \notin group
    BY <1>10, <2>1, <2>3
  <2> QED
    BY <2>2, <2>3
<1>13. c \in [DOMAIN Hub.clients -> Client]
  BY <1>9, <1>10, HubIs
<1>14. PlayInv(a, {}) /\ SameAccounts(a, Hub)
  <2>1. a.clients = c /\ a.parties = Hub.parties
    BY <1>11
  <2>2. SameAccounts(a, Hub)
    BY <1>9, <1>10, <2>1, HubIs DEF SameAccounts
  <2>3. PlayInv(a, {})
    <3> HIDE DEF Hub
    <3> QED
      BY <1>11, <1>12, <1>13, HubIs, ClientsChange
  <2> QED
    BY <2>2, <2>3
<1>15. PlayInv(n, {}) /\ SameAccounts(n, a) /\ Onward(n, a) /\ \A K : InOrder(a, K) => InOrder(n, K)
  BY <1>3, <1>14, HubIs, MatchmakeKeeps
<1>16. SameAccounts(n, Hub)
  BY <1>14, <1>15, SameAccountsChain
<1>17. InOrder(n, DOMAIN checks)
  <2>1. a.checks = checks
    BY <1>11, HubIs
  <2>2. InOrder(a, DOMAIN checks)
    BY <2>1 DEF InOrder
  <2> QED
    BY <1>15, <2>2
<1>18. DOMAIN checks \subseteq DOMAIN checks'
  BY <1>4, <1>11, <1>15, HubIs DEF Becomes, Onward
<1> QED
  BY <1>4, <1>15, <1>16, <1>17, <1>18, PlayStep

\* The parts of Login: the older connections are logged out, and an account is set.
LoggedOutAll(base, S) == FoldSet(LAMBDA c, h : LoggedOut(h, c), base, S)
AccountSet(h, id, key) == [h EXCEPT !.clients[id].account = key]

\* The fold, as a function that exists.
FoldStep(h, g, s) == IF s = {} THEN h ELSE LET x == CHOOSE x \in s : TRUE IN LoggedOut(g[s \ {x}], x)

LEMMA FoldExists ==
  ASSUME NEW h, NEW S, \A a, b \in S : a = b
  PROVE  \E g : g = [s \in SUBSET S |-> FoldStep(h, g, s)]
<1> DEFINE k == [s \in SUBSET S |-> IF s = {} THEN h ELSE LoggedOut(h, CHOOSE x \in s : TRUE)]
           pick(s) == CHOOSE x \in s : TRUE
<1>1. ASSUME NEW s \in SUBSET S, s # {}
      PROVE  s \ {pick(s)} = {}
  <2>1. pick(s) \in s
    BY <1>1
  <2> HIDE DEF pick
  <2> QED
    BY <2>1
<1>2. k[{}] = h
  OBVIOUS
<1>3. ASSUME NEW s \in SUBSET S
      PROVE  k[s] = FoldStep(h, k, s)
  <2>1. k[s] = IF s = {} THEN h ELSE LoggedOut(h, pick(s))
    OBVIOUS
  <2>2. FoldStep(h, k, s) = IF s = {} THEN h ELSE LoggedOut(k[s \ {pick(s)}], pick(s))
    BY DEF FoldStep
  <2> HIDE DEF pick, k
  <2> QED
    BY <1>1, <1>2, <2>1, <2>2
<1>4. k = [s \in SUBSET S |-> k[s]]
  OBVIOUS
<1> HIDE DEF k
<1>5. k = [s \in SUBSET S |-> FoldStep(h, k, s)]
  BY <1>3, <1>4
<1> QED
  BY <1>5

\* Logging out the connections of a set that has one at most.
LEMMA LoggedOutFold ==
  ASSUME NEW h, NEW S, \A a, b \in S : a = b,
         NEW n, n = LoggedOutAll(h, S)
  PROVE  (S = {} /\ n = h) \/ \E c \in S : S = {c} /\ n = LoggedOut(h, c)
<1> DEFINE g == CHOOSE g : g = [s \in SUBSET S |-> FoldStep(h, g, s)]
           c == CHOOSE x \in S : TRUE
<1>1. n = g[S]
  BY DEF LoggedOutAll, FoldSet, MapThenFoldSet, FoldStep
<1>2. \A a, b \in S : a = b
  OBVIOUS
<1>3. g = [s \in SUBSET S |-> FoldStep(h, g, s)]
  BY ONLY <1>2, FoldExists
<1> HIDE DEF g
<1>4. \A s \in SUBSET S : g[s] = FoldStep(h, g, s)
  BY ONLY <1>3
<1>5. S # {} => c \in S
  BY ONLY TRUE
<1> HIDE DEF c
<1>6. g[S] = IF S = {} THEN h ELSE LoggedOut(g[S \ {c}], c)
  BY ONLY <1>4 DEF FoldStep, c
<1>7. g[{}] = h
  BY ONLY <1>4 DEF FoldStep
<1>8. S # {} => S = {c} /\ S \ {c} = {}
  BY ONLY <1>2, <1>5
<1> QED
  BY ONLY <1>1, <1>5, <1>6, <1>7, <1>8

\* A connection is logged in or out.
LEMMA AccountSetKeeps ==
  ASSUME NEW h, PlayInv(h, {}), NEW id \in DOMAIN h.clients, NEW key \in Accounts \cup {NoAccount},
         NEW n, n = AccountSet(h, id, key)
  PROVE  /\ PlayInv(n, {}) /\ n.parties = h.parties /\ n.rooms = h.rooms /\ DOMAIN n.clients = DOMAIN h.clients
         /\ n.checks = h.checks /\ Quiet(n, h)
         /\ n.clients[id].account = key
         /\ \A x \in DOMAIN h.clients : n.clients[x].searching = h.clients[x].searching
         /\ \A x \in DOMAIN h.clients \ {id} : n.clients[x].account = h.clients[x].account
         /\ \A off, lone : PartyInv(h, off, lone) => PartyInv(n, off \cup {h.clients[id].account}, lone)
<1> DEFINE f == h.clients
           e == [f[id] EXCEPT !.account = key]
           c == [f EXCEPT ![id] = e]
<1>1. f \in [DOMAIN f -> Client] /\ f[id] \in Client /\ IsHub(h)
  BY DEF PlayInv, PlayTypes
<1>2. n = [h EXCEPT !.clients = c]
  BY DEF AccountSet
<1>3. e = [account |-> key, closing |-> f[id].closing, room |-> f[id].room, check |-> f[id].check,
           searching |-> f[id].searching, mode |-> f[id].mode, order |-> f[id].order, waited |-> f[id].waited,
           wants |-> f[id].wants, group |-> f[id].group]
  BY <1>1, FieldIs
<1>4. e \in Client
  BY <1>1, <1>3, ClientIs DEF Client
<1>5. /\ e.account = key /\ e.closing = f[id].closing /\ e.room = f[id].room
      /\ e.check = f[id].check /\ e.searching = f[id].searching /\ e.order = f[id].order
  BY <1>3
<1> HIDE DEF e
<1>6. c \in [DOMAIN f -> Client] /\ c[id] = e /\ \A w \in DOMAIN f \ {id} : c[w] = f[w]
  BY <1>1, <1>4
<1> HIDE DEF c
<1>7. n = [clients |-> c, checks |-> h.checks, rooms |-> h.rooms, parties |-> h.parties]
  BY <1>1, <1>2, HubParts
<1>8. n.clients = c /\ n.parties = h.parties /\ n.rooms = h.rooms /\ n.checks = h.checks
  BY ONLY <1>7
<1>9. \A w \in DOMAIN h.clients :
           /\ c[w].check = h.clients[w].check
           /\ c[w].room = h.clients[w].room
           /\ c[w].searching => h.clients[w].searching
           /\ w \notin {} /\ c[w].closing => ~ c[w].searching /\ c[w].check = 0
  <2> SUFFICES ASSUME NEW w \in DOMAIN f
               PROVE  /\ c[w].check = f[w].check /\ c[w].room = f[w].room
                      /\ c[w].searching => f[w].searching
                      /\ w \notin {} /\ c[w].closing => ~ c[w].searching /\ c[w].check = 0
    OBVIOUS
  <2>1. f[w].closing => ~ f[w].searching /\ f[w].check = 0
    BY DEF PlayInv, OneActivity
  <2> QED
    BY <1>5, <1>6, <2>1
<1>10. c \in [DOMAIN h.clients -> Client]
  BY <1>6
<1>11. PlayInv(n, {})
  BY ONLY <1>7, <1>9, <1>10, PlayInv(h, {}), ClientsChange
<1>12. \A k : Online(h, k) => k = f[id].account \/ Online(n, k)
  BY ONLY <1>6, <1>8 DEF Online
<1>13. ASSUME NEW off, NEW lone, PartyInv(h, off, lone)
       PROVE  PartyInv(n, off \cup {f[id].account}, lone)
  BY ONLY <1>8, <1>12, <1>13 DEF PartyInv
<1>14. Quiet(n, h)
  BY <1>5, <1>6, <1>8 DEF Quiet
<1> QED
  BY <1>5, <1>6, <1>8, <1>11, <1>13, <1>14

\* The connection is out of the queue and of its check, and logged off; its account stays in its party.
LEMMA LoggedOutKeeps ==
  ASSUME NEW h, PlayInv(h, {}), AccountInv(h), NEW id \in DOMAIN h.clients, NEW n, n = LoggedOut(h, id)
  PROVE  /\ PlayInv(n, {}) /\ AccountInv(n) /\ DOMAIN n.clients = DOMAIN h.clients /\ Quiet(n, h)
         /\ n.clients[id].account = NoAccount
         /\ \A x \in DOMAIN h.clients \ {id} : n.clients[x].account = h.clients[x].account
         /\ \A off, lone : PartyInv(h, off, lone) => PartyInv(n, off \cup {h.clients[id].account}, lone)
<1>1. PICK d : d = Decline(h, id)
  OBVIOUS
<1>2. PICK c : c = CancelSearch(d, id)
  OBVIOUS
<1>3. n = AccountSet(c, id, NoAccount)
  BY <1>1, <1>2 DEF LoggedOut, AccountSet
<1>4. PlayInv(d, {}) /\ SameAccounts(d, h) /\ Quiet(d, h)
  BY <1>1, DeclineKeeps
<1>5. PlayInv(c, {}) /\ SameAccounts(c, d) /\ Quiet(c, d)
  <2>1. id \in DOMAIN d.clients
    BY <1>4 DEF SameAccounts
  <2> QED
    BY <1>2, <1>4, <2>1, CancelKeeps
<1>6. SameAccounts(c, h)
  BY <1>4, <1>5, SameAccountsChain
<1>7. id \in DOMAIN c.clients /\ NoAccount \in Accounts \cup {NoAccount}
  BY <1>6 DEF SameAccounts
<1>8. /\ PlayInv(n, {}) /\ DOMAIN n.clients = DOMAIN c.clients /\ Quiet(n, c)
      /\ n.clients[id].account = NoAccount
      /\ \A x \in DOMAIN c.clients \ {id} : n.clients[x].account = c.clients[x].account
      /\ \A off, lone : PartyInv(c, off, lone) => PartyInv(n, off \cup {c.clients[id].account}, lone)
  BY <1>3, <1>5, <1>7, AccountSetKeeps
<1>9. DOMAIN c.clients = DOMAIN h.clients /\ \A x \in DOMAIN h.clients : c.clients[x].account = h.clients[x].account
  BY <1>6 DEF SameAccounts
<1>10. /\ AccountInv(h) => AccountInv(c)
       /\ \A off, lone : PartyInv(h, off, lone) => PartyInv(c, off, lone)
  BY <1>6, SameAccountsKeep
<1>11. AccountInv(n)
  BY <1>8, <1>9, <1>10 DEF AccountInv
<1>12. Quiet(n, h)
  <2>1. Quiet(c, h)
    BY <1>4, <1>5, QuietChain DEF SameAccounts
  <2> QED
    BY <1>8, <1>9, <2>1, QuietChain
<1> QED
  BY <1>8, <1>9, <1>10, <1>11, <1>12

LEMMA LogoutKeeps ==
  ASSUME QueueInv, NEW id, Logout(id)
  PROVE  QueueInv' /\ Quiet(Hub', Hub)
<1>1. PICK key : key = clients[id].account
  OBVIOUS
<1>2. PICK o : o = LoggedOut(Hub, id)
  OBVIOUS
<1>3. PICK n : n = LeaveParty(o, key)
  OBVIOUS
<1>4. Becomes(n) /\ id \in DOMAIN Hub.clients /\ key = Hub.clients[id].account
  BY <1>1, <1>2, <1>3, HubIs DEF Logout, Listening
<1>5. /\ PlayInv(o, {}) /\ AccountInv(o) /\ PartyInv(o, {key}, {})
      /\ Quiet(o, Hub) /\ DOMAIN o.clients = DOMAIN Hub.clients
  <2>1. /\ PlayInv(o, {}) /\ AccountInv(o) /\ PartyInv(o, {} \cup {Hub.clients[id].account}, {})
        /\ Quiet(o, Hub) /\ DOMAIN o.clients = DOMAIN Hub.clients
    BY <1>2, <1>4, HubIs, LoggedOutKeeps
  <2>2. {} \cup {Hub.clients[id].account} = {key}
    BY <1>4
  <2> QED
    BY <2>1, <2>2
<1>6. PlayInv(n, {}) /\ AccountInv(n) /\ PartyInv(n, {key} \ {key}, {}) /\ Quiet(n, o)
  BY <1>3, <1>5, LeavePartyKeeps
<1>7. {key} \ {key} = {}
  OBVIOUS
<1>8. Quiet(n, Hub)
  BY <1>5, <1>6, QuietChain
<1> QED
  BY <1>4, <1>6, <1>7, <1>8, HubStep DEF HubInv

LEMMA LoginKeeps ==
  ASSUME QueueInv, NEW id, NEW key \in Accounts, Login(id, key)
  PROVE  QueueInv' /\ Quiet(Hub', Hub) /\ id \in DOMAIN clients' /\ clients'[id].account = key
<1> DEFINE others == {c \in DOMAIN clients : c # id /\ clients[c].account = key}
<1>1. PICK previous : previous = clients[id].account
  OBVIOUS
<1>2. PICK d : d = Decline(Hub, id)
  OBVIOUS
<1>3. PICK mine : mine = CancelSearch(d, id)
  OBVIOUS
<1>4. PICK theirs : theirs = LoggedOutAll(mine, others)
  OBVIOUS
<1>5. PICK off : off = AccountSet(theirs, id, NoAccount)
  OBVIOUS
<1>6. PICK left : left = IF previous \in {NoAccount, key} THEN theirs ELSE LeaveParty(off, previous)
  OBVIOUS
<1>7. PICK n : n = AccountSet(left, id, key)
  OBVIOUS
<1>8. Becomes(n)
  BY <1>1, <1>2, <1>3, <1>4, <1>5, <1>6, <1>7 DEF Login, LoggedOutAll, AccountSet
<1>9. id \in DOMAIN Hub.clients /\ previous = Hub.clients[id].account
  BY <1>1, HubIs DEF Login
<1>10. previous \in Accounts \cup {NoAccount} /\ key # NoAccount
  BY <1>9, HubIs, Parameters DEF PlayInv, PlayTypes, Client
<1>11. /\ PlayInv(mine, {}) /\ SameAccounts(mine, Hub) /\ AccountInv(mine) /\ PartyInv(mine, {}, {})
       /\ Quiet(mine, Hub)
  <2>1. PlayInv(d, {}) /\ SameAccounts(d, Hub) /\ Quiet(d, Hub)
    BY <1>2, <1>9, HubIs, DeclineKeeps
  <2>2. id \in DOMAIN d.clients
    BY <1>9, <2>1 DEF SameAccounts
  <2>3. PlayInv(mine, {}) /\ SameAccounts(mine, d) /\ Quiet(mine, d)
    BY <1>3, <2>1, <2>2, CancelKeeps
  <2>4. SameAccounts(mine, Hub)
    BY <2>1, <2>3, SameAccountsChain
  <2>5. Quiet(mine, Hub)
    BY <2>1, <2>3, QuietChain DEF SameAccounts
  <2> QED
    BY <2>3, <2>4, <2>5, HubIs, SameAccountsKeep
<1>12. DOMAIN mine.clients = DOMAIN clients /\ \A x \in DOMAIN clients : mine.clients[x].account = clients[x].account
  BY <1>11, HubIs DEF SameAccounts
<1>13. \A a, b \in others : a = b
  BY <1>10, HubIs DEF AccountInv
<1>13a. DOMAIN mine.clients = DOMAIN Hub.clients
  BY <1>11 DEF SameAccounts
<1>14. (others = {} /\ theirs = mine) \/ \E c \in others : others = {c} /\ theirs = LoggedOut(mine, c)
  BY ONLY <1>4, <1>13, LoggedOutFold
<1>15. PICK K : /\ K \subseteq {key} /\ PlayInv(theirs, {}) /\ AccountInv(theirs) /\ PartyInv(theirs, K, {})
                /\ DOMAIN theirs.clients = DOMAIN clients /\ theirs.clients[id].account = previous
                /\ \A x \in DOMAIN clients \ {id} : theirs.clients[x].account # key
                /\ Quiet(theirs, Hub)
  <2>1. CASE others = {} /\ theirs = mine
    <3>1. /\ {} \subseteq {key} /\ PlayInv(theirs, {}) /\ AccountInv(theirs) /\ PartyInv(theirs, {}, {})
          /\ DOMAIN theirs.clients = DOMAIN clients /\ Quiet(theirs, Hub)
      BY ONLY <1>11, <1>12, <2>1
    <3>2. theirs.clients[id].account = previous
      BY ONLY <1>1, <1>9, <1>12, <2>1, HubIs, QueueInv
    <3>3. \A x \in DOMAIN clients \ {id} : theirs.clients[x].account # key
      BY ONLY <1>12, <2>1
    <3> QED
      BY ONLY <3>1, <3>2, <3>3
  <2>2. ASSUME NEW c \in others, others = {c}, theirs = LoggedOut(mine, c)
        PROVE  /\ {key} \subseteq {key} /\ PlayInv(theirs, {}) /\ AccountInv(theirs) /\ PartyInv(theirs, {key}, {})
               /\ DOMAIN theirs.clients = DOMAIN clients /\ theirs.clients[id].account = previous
               /\ \A x \in DOMAIN clients \ {id} : theirs.clients[x].account # key
               /\ Quiet(theirs, Hub)
    <3>1. c \in DOMAIN mine.clients /\ mine.clients[c].account = key /\ c # id /\ id \in DOMAIN mine.clients
      BY ONLY <1>9, <1>12, <2>2, HubIs, QueueInv
    <3>2. /\ PlayInv(theirs, {}) /\ AccountInv(theirs) /\ DOMAIN theirs.clients = DOMAIN mine.clients
          /\ theirs.clients[c].account = NoAccount /\ Quiet(theirs, mine)
          /\ \A x \in DOMAIN mine.clients \ {c} : theirs.clients[x].account = mine.clients[x].account
      BY ONLY <1>11, <2>2, <3>1, LoggedOutKeeps
    <3>3. PartyInv(theirs, {key}, {})
      <4>1. PartyInv(theirs, {} \cup {mine.clients[c].account}, {})
        BY ONLY <1>11, <2>2, <3>1, LoggedOutKeeps
      <4>2. {} \cup {mine.clients[c].account} = {key}
        BY ONLY <3>1
      <4> QED
        BY ONLY <4>1, <4>2
    <3>4. theirs.clients[id].account = previous
      BY ONLY <1>1, <1>12, <3>1, <3>2
    <3>5. \A x \in DOMAIN clients \ {id} : theirs.clients[x].account # key
      BY ONLY <1>10, <1>12, <2>2, <3>2
    <3>6. Quiet(theirs, Hub)
      BY ONLY <1>11, <1>13a, <3>2, QuietChain
    <3> QED
      BY ONLY <1>12, <3>2, <3>3, <3>4, <3>5, <3>6
  <2> QED
    BY ONLY <1>14, <2>1, <2>2
<1>16. PICK L : /\ L \subseteq {key} /\ PlayInv(left, {}) /\ PartyInv(left, L, {})
                /\ DOMAIN left.clients = DOMAIN clients /\ left.clients[id].account \in {NoAccount, key}
                /\ \A x \in DOMAIN clients \ {id} : left.clients[x].account # key
                /\ AccountInv(left) /\ Quiet(left, Hub)
  <2>1. CASE previous \in {NoAccount, key}
    <3>1. left = theirs
      BY ONLY <1>6, <2>1
    <3> QED
      BY ONLY <1>15, <2>1, <3>1
  <2>2. CASE previous \notin {NoAccount, key}
    <3>1. left = LeaveParty(off, previous)
      BY ONLY <1>6, <2>2
    <3>2. id \in DOMAIN theirs.clients /\ NoAccount \in Accounts \cup {NoAccount}
      BY ONLY <1>9, <1>15, HubIs, QueueInv
    <3>3. /\ PlayInv(off, {}) /\ DOMAIN off.clients = DOMAIN theirs.clients /\ off.clients[id].account = NoAccount
          /\ Quiet(off, theirs)
          /\ \A x \in DOMAIN theirs.clients \ {id} : off.clients[x].account = theirs.clients[x].account
      BY ONLY <1>5, <1>15, <3>2, AccountSetKeeps
    <3>4. PartyInv(off, K \cup {previous}, {})
      <4>1. PartyInv(off, K \cup {theirs.clients[id].account}, {})
        BY ONLY <1>5, <1>15, <3>2, AccountSetKeeps
      <4> QED
        BY ONLY <1>15, <4>1
    <3>5. AccountInv(off)
      BY ONLY <1>15, <3>3 DEF AccountInv
    <3>6. /\ PlayInv(left, {}) /\ AccountInv(left) /\ PartyInv(left, (K \cup {previous}) \ {previous}, {})
          /\ SameLogins(left, off) /\ Quiet(left, off)
      BY ONLY <3>1, <3>3, <3>4, <3>5, LeavePartyKeeps
    <3>7. (K \cup {previous}) \ {previous} \subseteq {key}
      BY ONLY <1>15
    <3>8. /\ DOMAIN left.clients = DOMAIN clients /\ left.clients[id].account = NoAccount
          /\ \A x \in DOMAIN clients \ {id} : left.clients[x].account # key
      BY ONLY <1>15, <3>2, <3>3, <3>6 DEF SameLogins
    <3>9. Quiet(left, Hub)
      <4>1. DOMAIN theirs.clients = DOMAIN Hub.clients /\ DOMAIN off.clients = DOMAIN Hub.clients
        BY ONLY <1>15, <3>3, HubIs, QueueInv
      <4>2. Quiet(off, Hub)
        BY ONLY <1>15, <3>3, <4>1, QuietChain
      <4> QED
        BY ONLY <3>6, <4>1, <4>2, QuietChain
    <3> QED
      BY ONLY <3>6, <3>7, <3>8, <3>9
  <2> QED
    BY ONLY <2>1, <2>2
<1>17. id \in DOMAIN left.clients /\ key \in Accounts \cup {NoAccount}
  BY ONLY <1>9, <1>16, HubIs, QueueInv, key \in Accounts
<1>18. /\ PlayInv(n, {}) /\ DOMAIN n.clients = DOMAIN left.clients /\ n.clients[id].account = key
       /\ Quiet(n, left)
       /\ \A x \in DOMAIN left.clients \ {id} : n.clients[x].account = left.clients[x].account
  BY ONLY <1>7, <1>16, <1>17, AccountSetKeeps
<1>19. PartyInv(n, L \cup {left.clients[id].account}, {})
  BY ONLY <1>7, <1>16, <1>17, AccountSetKeeps
<1>20. Online(n, key)
  BY ONLY <1>17, <1>18 DEF Online
<1>21. PartyInv(n, {}, {})
  <2>1. \A k \in L \cup {left.clients[id].account} : k = NoAccount \/ Online(n, k)
    BY ONLY <1>16, <1>20
  <2> QED
    BY ONLY <1>19, <2>1, NotMissed
<1>22. AccountInv(n)
  BY ONLY <1>16, <1>18 DEF AccountInv
<1>23. Quiet(n, Hub)
  <2>1. DOMAIN left.clients = DOMAIN Hub.clients
    BY ONLY <1>16, HubIs, QueueInv
  <2> QED
    BY ONLY <1>16, <1>18, <2>1, QuietChain
<1>24. id \in DOMAIN clients' /\ clients'[id].account = key
  BY ONLY <1>8, <1>17, <1>18 DEF Becomes
<1> QED
  BY ONLY <1>8, <1>18, <1>21, <1>22, <1>23, <1>24, QueueInv, HubStep DEF HubInv

LEMMA MemberGoesKeeps ==
  ASSUME QueueInv, NEW key, NEW n, n = LeaveParty(Hub, key), Becomes(n)
  PROVE  QueueInv' /\ Quiet(Hub', Hub)
<1>1. PlayInv(n, {}) /\ AccountInv(n) /\ PartyInv(n, {} \ {key}, {}) /\ Quiet(n, Hub)
  BY HubIs, LeavePartyKeeps
<1>2. {} \ {key} = {}
  OBVIOUS
<1> QED
  BY <1>1, <1>2, HubStep DEF HubInv

LEMMA PartyLeaveKeeps ==
  ASSUME QueueInv, NEW id, PartyLeave(id)
  PROVE  QueueInv' /\ Quiet(Hub', Hub)
<1>1. PICK n : n = LeaveParty(Hub, clients[id].account)
  OBVIOUS
<1>2. PICK key : key = clients[id].account
  OBVIOUS
<1>3. Becomes(n) /\ n = LeaveParty(Hub, key)
  BY <1>1, <1>2 DEF PartyLeave
<1> QED
  BY <1>3, MemberGoesKeeps

LEMMA PartyKickKeeps ==
  ASSUME QueueInv, NEW id, NEW other, PartyKick(id, other)
  PROVE  QueueInv' /\ Quiet(Hub', Hub)
<1>1. PICK n : n = LeaveParty(Hub, other)
  OBVIOUS
<1>2. Becomes(n)
  BY <1>1 DEF PartyKick
<1> QED
  BY <1>1, <1>2, MemberGoesKeeps

\* A member put in front.
LEMMA InFrontIs ==
  ASSUME NEW s \in Seq(Accounts), Distinct(s), NEW k \in Range(s), NEW t, t = <<k>> \o WithoutMember(s, k)
  PROVE  t \in Seq(Accounts) /\ Len(t) = Len(s) /\ Distinct(t) /\ Range(t) = Range(s)
<1>1. PICK r : r = WithoutMember(s, k)
  OBVIOUS
<1>2. PICK a : a = <<k>>
  OBVIOUS
<1>3. r \in Seq(Accounts) /\ Len(r) = Len(s) - 1 /\ Distinct(r) /\ Range(r) = Range(s) \ {k}
  BY <1>1, WithoutMemberIs
<1>4. k \in Accounts /\ Len(s) \in Nat
  BY SeqIs
<1>5. a \in Seq(Accounts) /\ Len(a) = 1 /\ a[1] = k
  BY <1>2, <1>4
<1>6. t = a \o r
  BY <1>1, <1>2
<1>7. /\ t \in Seq(Accounts) /\ Len(t) = Len(a) + Len(r)
      /\ \A i \in 1 .. Len(a) + Len(r) : t[i] = IF i <= Len(a) THEN a[i] ELSE r[i - Len(a)]
  <2>1. /\ a \o r \in Seq(Accounts) /\ Len(a \o r) = Len(a) + Len(r)
        /\ \A i \in 1 .. Len(a) + Len(r) : (a \o r)[i] = IF i <= Len(a) THEN a[i] ELSE r[i - Len(a)]
    <3>1. a \in Seq(Accounts) /\ r \in Seq(Accounts)
      BY <1>3, <1>5
    <3> QED
      BY ONLY <3>1, ConcatProperties
  <2> QED
    BY ONLY <1>6, <2>1
<1>8. Len(t) = Len(s) /\ Len(r) \in Nat
  BY ONLY <1>3, <1>4, <1>5, <1>7, SeqIs
<1>9. t[1] = k /\ \A i \in 2 .. Len(t) : i - 1 \in 1 .. Len(r) /\ t[i] = r[i - 1]
  <2>1. 1 \in 1 .. Len(a) + Len(r) /\ 1 <= Len(a)
    BY ONLY <1>5, <1>8
  <2>2. \A i \in 2 .. Len(t) : i - 1 \in 1 .. Len(r) /\ i \in 1 .. Len(a) + Len(r) /\ ~ i <= Len(a) /\ i - Len(a) = i - 1
    BY ONLY <1>3, <1>4, <1>5, <1>7, <1>8
  <2> QED
    BY ONLY <1>5, <1>7, <2>1, <2>2
<1>10. DOMAIN t = 1 .. Len(t) /\ DOMAIN r = 1 .. Len(r) /\ Len(t) = Len(r) + 1
  BY ONLY <1>3, <1>4, <1>7, <1>8, SeqIs
<1>11. Range(t) = {t[i] : i \in DOMAIN t} /\ Range(r) = {r[i] : i \in DOMAIN r}
  BY DEF Range
<1>12. \A i \in DOMAIN t : i = 1 \/ (i \in 2 .. Len(t) /\ i - 1 \in DOMAIN r /\ t[i] = r[i - 1])
  BY ONLY <1>8, <1>9, <1>10
<1>13. Distinct(t)
  <2> SUFFICES ASSUME NEW i \in DOMAIN t, NEW j \in DOMAIN t, t[i] = t[j]
               PROVE  i = j
    BY DEF Distinct
  <2>1. \A l \in DOMAIN r : r[l] # k
    BY ONLY <1>3, <1>11
  <2>2. CASE i = 1 \/ j = 1
    BY <1>9, <1>12, <2>1, <2>2
  <2>3. CASE i # 1 /\ j # 1
    <3>1. i - 1 = j - 1
      BY <1>3, <1>12, <2>3 DEF Distinct
    <3> QED
      BY <1>10, <3>1, <1>8
  <2> QED
    BY <2>2, <2>3
<1>14. Range(t) = Range(s)
  <2>1. ASSUME NEW x \in Range(t) PROVE x \in Range(s)
    <3>1. PICK i \in DOMAIN t : x = t[i]
      BY <1>11
    <3> QED
      BY <1>3, <1>9, <1>11, <1>12, <3>1
  <2>2. ASSUME NEW x \in Range(s) PROVE x \in Range(t)
    <3>1. CASE x = k
      <4>1. 1 \in DOMAIN t
        BY ONLY <1>8, <1>10
      <4> QED
        BY <1>9, <1>11, <3>1, <4>1
    <3>2. CASE x # k
      <4>1. PICK i \in DOMAIN r : x = r[i]
        BY <1>3, <1>11, <3>2
      <4>2. i + 1 \in 2 .. Len(t) /\ (i + 1) - 1 = i /\ i + 1 \in DOMAIN t
        BY <1>8, <1>10
      <4>3. t[i + 1] = x
        BY <1>9, <4>1, <4>2
      <4> QED
        BY <1>11, <4>2, <4>3
    <3> QED
      BY <3>1, <3>2
  <2> QED
    BY <2>1, <2>2
<1> QED
  BY <1>7, <1>8, <1>13, <1>14

\* A member who comes last.
LEMMA AppendedIs ==
  ASSUME NEW s \in Seq(Accounts), Distinct(s), NEW k \in Accounts \ Range(s), NEW t, t = Append(s, k)
  PROVE  t \in Seq(Accounts) /\ Len(t) = Len(s) + 1 /\ Distinct(t) /\ Range(t) = Range(s) \cup {k}
<1>1. /\ t \in Seq(Accounts) /\ Len(t) = Len(s) + 1
      /\ \A i \in 1 .. Len(s) : t[i] = s[i]
      /\ t[Len(s) + 1] = k
  BY AppendProperties
<1>2. Len(s) \in Nat /\ DOMAIN s = 1 .. Len(s) /\ DOMAIN t = 1 .. Len(t)
  BY <1>1, SeqIs
<1>3. Range(t) = {t[i] : i \in DOMAIN t} /\ Range(s) = {s[i] : i \in DOMAIN s}
  BY DEF Range
<1>4. \A i \in DOMAIN t : (i \in DOMAIN s /\ t[i] = s[i]) \/ (i = Len(s) + 1 /\ t[i] = k)
  BY ONLY <1>1, <1>2
<1>5. Distinct(t)
  <2> SUFFICES ASSUME NEW i \in DOMAIN t, NEW j \in DOMAIN t, t[i] = t[j]
               PROVE  i = j
    BY DEF Distinct
  <2>1. \A l \in DOMAIN s : s[l] # k
    BY <1>3
  <2> QED
    BY <1>4, <2>1 DEF Distinct
<1>6. Range(t) = Range(s) \cup {k}
  <2>1. \A x \in Range(t) : x \in Range(s) \cup {k}
    BY ONLY <1>3, <1>4
  <2>2. \A x \in Range(s) : x \in Range(t)
    <3>1. \A i \in DOMAIN s : i \in DOMAIN t /\ t[i] = s[i]
      BY ONLY <1>1, <1>2
    <3> QED
      BY ONLY <1>3, <3>1
  <2>3. k \in Range(t)
    <3>1. Len(s) + 1 \in DOMAIN t
      BY ONLY <1>1, <1>2
    <3> QED
      BY ONLY <1>1, <1>3, <3>1
  <2> QED
    BY <2>1, <2>2, <2>3
<1> QED
  BY <1>1, <1>5, <1>6

\* One party is set.
PartySet(h, g, p) ==
  [clients |-> h.clients, checks |-> h.checks, rooms |-> h.rooms, parties |-> [h.parties EXCEPT ![g] = p]]

LEMMA MembersSetIs ==
  ASSUME NEW h, IsHub(h), NEW g \in DOMAIN h.parties, h.parties[g] \in Party, NEW v
  PROVE  [h EXCEPT !.parties[g].members = v] = PartySet(h, g, [members |-> v, invited |-> h.parties[g].invited])
<1> DEFINE P == h.parties
           Q == [P EXCEPT ![g] = [P[g] EXCEPT !.members = v]]
<1>1. [h EXCEPT !.parties[g].members = v] = [h EXCEPT !.parties = Q]
  OBVIOUS
<1>2. [P[g] EXCEPT !.members = v] = [members |-> v, invited |-> P[g].invited]
  BY DEF Party
<1>3. Q = [P EXCEPT ![g] = [members |-> v, invited |-> P[g].invited]]
  BY <1>2
<1> HIDE DEF Q
<1>4. [h EXCEPT !.parties = Q] = [clients |-> h.clients, checks |-> h.checks, rooms |-> h.rooms, parties |-> Q]
  BY HubParts
<1> QED
  BY <1>1, <1>3, <1>4 DEF PartySet

LEMMA InvitedSetIs ==
  ASSUME NEW h, IsHub(h), NEW g \in DOMAIN h.parties, h.parties[g] \in Party, NEW v
  PROVE  [h EXCEPT !.parties[g].invited = v] = PartySet(h, g, [members |-> h.parties[g].members, invited |-> v])
<1> DEFINE P == h.parties
           Q == [P EXCEPT ![g] = [P[g] EXCEPT !.invited = v]]
<1>1. [h EXCEPT !.parties[g].invited = v] = [h EXCEPT !.parties = Q]
  OBVIOUS
<1>2. [P[g] EXCEPT !.invited = v] = [members |-> P[g].members, invited |-> v]
  BY DEF Party
<1>3. Q = [P EXCEPT ![g] = [members |-> P[g].members, invited |-> v]]
  BY <1>2
<1> HIDE DEF Q
<1>4. [h EXCEPT !.parties = Q] = [clients |-> h.clients, checks |-> h.checks, rooms |-> h.rooms, parties |-> Q]
  BY HubParts
<1> QED
  BY <1>1, <1>3, <1>4 DEF PartySet

LEMMA PartySetKeeps ==
  ASSUME NEW h, PlayInv(h, {}), AccountInv(h), NEW off, NEW lone, PartyInv(h, off, lone),
         NEW g \in DOMAIN h.parties, NEW p \in Party, PartyFits(p),
         NEW lone2, lone \subseteq lone2 \cup {g}, g \in lone2 \/ ~ Lingers(p),
         \A k \in Range(p.members) : k \in off \/ Online(h, k),
         \A o \in DOMAIN h.parties \ {g} : Range(p.members) \cap Range(h.parties[o].members) = {},
         NEW n, n = PartySet(h, g, p)
  PROVE  /\ PlayInv(n, {}) /\ AccountInv(n) /\ PartyInv(n, off, lone2) /\ SameLogins(n, h) /\ IsHub(n)
         /\ n.parties = [h.parties EXCEPT ![g] = p] /\ Quiet(n, h)
<1> PICK Q : Q = [h.parties EXCEPT ![g] = p]
  OBVIOUS
<1>1. n = [clients |-> h.clients, checks |-> h.checks, rooms |-> h.rooms, parties |-> Q]
  BY DEF PartySet
<1>2. n.clients = h.clients /\ n.checks = h.checks /\ n.rooms = h.rooms /\ n.parties = Q /\ IsHub(n)
  BY ONLY <1>1 DEF IsHub
<1>3. PlayInv(n, {})
  BY ONLY <1>2, PlayInv(h, {}), SamePlay
<1>4. SameLogins(n, h)
  BY ONLY <1>2 DEF SameLogins
<1>5. AccountInv(n) /\ \A k : Online(h, k) => Online(n, k)
  BY <1>4, SameLoginsKeep
<1>6. n.parties = [h.parties EXCEPT ![g] = p]
  BY <1>2
<1>7. PartyInv(n, off, lone2)
  <2>1. \A k \in Range(p.members) : k \in off \/ Online(n, k)
    BY <1>5
  <2>2. \A o \in DOMAIN h.parties \ {g} : /\ off \cap Range(h.parties[o].members) \subseteq off
                                           /\ Range(p.members) \cap Range(h.parties[o].members) = {}
    OBVIOUS
  <2> QED
    BY <1>5, <1>6, <2>1, <2>2, PartyChange
<1>8. Quiet(n, h)
  BY ONLY <1>2 DEF Quiet
<1> QED
  BY <1>2, <1>3, <1>4, <1>5, <1>6, <1>7, <1>8

\* What is known of one party.
LEMMA OnePartyIs ==
  ASSUME NEW h, NEW off, NEW lone, PartyInv(h, off, lone), NEW g \in DOMAIN h.parties
  PROVE  /\ h.parties[g] \in Party /\ PartyFits(h.parties[g]) /\ (g \in lone \/ ~ Lingers(h.parties[g]))
         /\ h.parties[g].members \in Seq(Accounts) /\ h.parties[g].invited \in SUBSET Accounts
         /\ Distinct(h.parties[g].members) /\ Len(h.parties[g].members) <= Seats /\ Len(h.parties[g].members) \in Nat
         /\ Range(h.parties[g].members) \subseteq Accounts
         /\ h.parties[g].invited \cap Range(h.parties[g].members) = {}
         /\ \A k \in Range(h.parties[g].members) : k \in off \/ Online(h, k)
         /\ \A o \in DOMAIN h.parties \ {g} : Range(h.parties[g].members) \cap Range(h.parties[o].members) = {}
<1>1. h.parties[g] \in Party /\ PartyFits(h.parties[g]) /\ (g \in lone \/ ~ Lingers(h.parties[g]))
  BY DEF PartyInv
<1>2. h.parties[g].members \in Seq(Accounts) /\ h.parties[g].invited \in SUBSET Accounts
  BY <1>1 DEF Party
<1>3. Len(h.parties[g].members) \in Nat /\ Range(h.parties[g].members) \subseteq Accounts
  BY <1>2, SeqIs
<1>4. \A k \in Range(h.parties[g].members) : k \in off \/ Online(h, k)
  BY DEF PartyInv
<1>5. \A o \in DOMAIN h.parties \ {g} : Range(h.parties[g].members) \cap Range(h.parties[o].members) = {}
  BY DEF PartyInv, Disjoint
<1> QED
  BY <1>1, <1>2, <1>3, <1>4, <1>5 DEF PartyFits

LEMMA PartyPromoteKeeps ==
  ASSUME QueueInv, NEW id, NEW other, PartyPromote(id, other)
  PROVE  QueueInv' /\ Quiet(Hub', Hub)
<1>1. PICK g : g = PartyOf(Hub, clients[id].account)
  OBVIOUS
<1>2. g # 0 /\ other \in Range(parties[g].members)
  BY <1>1 DEF PartyPromote, Leads
<1>3. g \in DOMAIN Hub.parties
  BY <1>1, <1>2, HubIs, PartyOfIs
<1>4. PartyOf(Hub, other) = g
  BY <1>2, <1>3, HubIs, PartyOfIs
<1>5. PICK s : s = parties[g].members
  OBVIOUS
<1>6. PICK t : t = <<other>> \o WithoutMember(s, other)
  OBVIOUS
<1>7. PICK p : p = [members |-> t, invited |-> parties[g].invited]
  OBVIOUS
<1>8. PICK n : n = PartySet(Hub, g, p)
  OBVIOUS
<1>9. /\ Hub.parties[g] \in Party /\ ~ Lingers(Hub.parties[g])
      /\ s \in Seq(Accounts) /\ Hub.parties[g].invited \in SUBSET Accounts
      /\ Distinct(s) /\ Len(s) <= Seats
      /\ Hub.parties[g].invited \cap Range(s) = {}
      /\ \A k \in Range(s) : Online(Hub, k)
      /\ \A o \in DOMAIN Hub.parties \ {g} : Range(s) \cap Range(Hub.parties[o].members) = {}
  <2>1. Hub.parties[g].members = s
    BY <1>5, HubIs
  <2> HIDE DEF Hub
  <2> QED
    BY <1>3, <2>1, HubIs, OnePartyIs
<1>10. t \in Seq(Accounts) /\ Len(t) = Len(s) /\ Distinct(t) /\ Range(t) = Range(s)
  <2>1. s \in Seq(Accounts) /\ Distinct(s) /\ other \in Range(s)
    BY ONLY <1>2, <1>5, <1>9
  <2> QED
    BY ONLY <1>6, <2>1, InFrontIs
<1>11. Becomes(n)
  <2>1. Hub.parties[g].members = s /\ Hub.parties[g].invited = parties[g].invited
    BY <1>5, HubIs
  <2>2. [Hub EXCEPT !.parties[g].members = <<other>> \o WithoutMember(@, other)] = [Hub EXCEPT !.parties[g].members = t]
    <3> HIDE DEF Hub
    <3> QED
      BY <1>6, <2>1
  <2>3. [Hub EXCEPT !.parties[g].members = t] = n
    <3>1. [Hub EXCEPT !.parties[g].members = t] = PartySet(Hub, g, [members |-> t, invited |-> Hub.parties[g].invited])
      <4> HIDE DEF Hub
      <4> QED
        BY <1>3, <1>9, HubIs, MembersSetIs
    <3> QED
      BY <1>7, <1>8, <2>1, <3>1
  <2> QED
    BY <1>4, <2>2, <2>3 DEF PartyPromote
<1>12. p \in Party /\ PartyFits(p) /\ ~ Lingers(p) /\ p.members = t
  <2>1. p.members = t /\ p.invited = Hub.parties[g].invited
    BY <1>7, HubIs
  <2>2. p \in Party
    BY <1>7, <1>9, <1>10, HubIs DEF Party
  <2>3. PartyFits(p)
    BY <1>9, <1>10, <2>1 DEF PartyFits
  <2>4. ~ Lingers(p)
    <3>1. Hub.parties[g].members = s
      BY <1>5, HubIs
    <3>2. Len(s) = 0 <=> s = << >>
      BY <1>9, SeqIs
    <3>3. Len(t) = 0 <=> t = << >>
      BY <1>10, SeqIs
    <3> QED
      BY <1>9, <1>10, <2>1, <3>1, <3>2, <3>3 DEF Lingers
  <2> QED
    BY <2>1, <2>2, <2>3, <2>4
<1>13. HubInv(n) /\ Quiet(n, Hub)
  <2>1. \A k \in Range(p.members) : k \in {} \/ Online(Hub, k)
    BY <1>9, <1>10, <1>12
  <2>2. \A o \in DOMAIN Hub.parties \ {g} : Range(p.members) \cap Range(Hub.parties[o].members) = {}
    BY <1>9, <1>10, <1>12
  <2>3. PlayInv(Hub, {}) /\ AccountInv(Hub) /\ PartyInv(Hub, {}, {})
    BY HubIs
  <2>4. {} \subseteq {} \cup {g}
    OBVIOUS
  <2> HIDE DEF Hub
  <2> QED
    BY <1>3, <1>8, <1>12, <2>1, <2>2, <2>3, <2>4, PartySetKeeps DEF HubInv
<1> QED
  BY <1>11, <1>13, HubStep

\* An invite is closed; its party may be left alone by it.
LEMMA AnsweredKeeps ==
  ASSUME QueueInv, NEW g \in DOMAIN parties, NEW me,
         NEW h, h = [Hub EXCEPT !.parties[g].invited = @ \ {me}]
  PROVE  /\ PlayInv(h, {}) /\ AccountInv(h) /\ PartyInv(h, {}, {g}) /\ SameLogins(h, Hub) /\ IsHub(h) /\ Quiet(h, Hub)
         /\ DOMAIN h.parties = DOMAIN parties
         /\ h.parties[g].members = parties[g].members /\ h.parties[g].invited = parties[g].invited \ {me}
<1>1. PICK p : p = [members |-> parties[g].members, invited |-> parties[g].invited \ {me}]
  OBVIOUS
<1>2. g \in DOMAIN Hub.parties /\ Hub.parties[g] = parties[g]
  BY HubIs
<1>3. /\ parties[g] \in Party
      /\ parties[g].members \in Seq(Accounts) /\ parties[g].invited \in SUBSET Accounts
      /\ Distinct(parties[g].members) /\ Len(parties[g].members) <= Seats
      /\ parties[g].invited \cap Range(parties[g].members) = {}
      /\ \A k \in Range(parties[g].members) : Online(Hub, k)
      /\ \A o \in DOMAIN Hub.parties \ {g} : Range(parties[g].members) \cap Range(Hub.parties[o].members) = {}
  <2> HIDE DEF Hub
  <2> QED
    BY <1>2, HubIs, OnePartyIs
<1>4. h = PartySet(Hub, g, p)
  <2>1. PICK v : v = parties[g].invited \ {me}
    OBVIOUS
  <2>2. h = [Hub EXCEPT !.parties[g].invited = v]
    <3> HIDE DEF Hub
    <3> QED
      BY <1>2, <2>1
  <2>3. [Hub EXCEPT !.parties[g].invited = v] = PartySet(Hub, g, [members |-> Hub.parties[g].members, invited |-> v])
    <3>1. PICK b : b = Hub
      OBVIOUS
    <3>2. IsHub(b) /\ g \in DOMAIN b.parties /\ b.parties[g] \in Party
      BY <1>2, <1>3, <3>1, HubIs
    <3>3. [b EXCEPT !.parties[g].invited = v] = PartySet(b, g, [members |-> b.parties[g].members, invited |-> v])
      BY ONLY <3>2, InvitedSetIs
    <3> QED
      BY ONLY <3>1, <3>3
  <2> QED
    BY ONLY <1>1, <1>2, <2>1, <2>2, <2>3
<1>5. p \in Party /\ PartyFits(p) /\ p.members = parties[g].members /\ p.invited = parties[g].invited \ {me}
  <2>1. p.members = parties[g].members /\ p.invited = parties[g].invited \ {me}
    BY ONLY <1>1
  <2>2. p \in Party
    BY ONLY <1>1, <1>3 DEF Party
  <2>3. PartyFits(p)
    BY ONLY <1>3, <2>1 DEF PartyFits
  <2> QED
    BY ONLY <2>1, <2>2, <2>3
<1>6. /\ PlayInv(h, {}) /\ AccountInv(h) /\ PartyInv(h, {}, {g}) /\ SameLogins(h, Hub) /\ IsHub(h) /\ Quiet(h, Hub)
      /\ h.parties = [Hub.parties EXCEPT ![g] = p]
  <2>1. \A k \in Range(p.members) : k \in {} \/ Online(Hub, k)
    BY ONLY <1>3, <1>5
  <2>2. \A o \in DOMAIN Hub.parties \ {g} : Range(p.members) \cap Range(Hub.parties[o].members) = {}
    BY ONLY <1>3, <1>5
  <2>3. PlayInv(Hub, {}) /\ AccountInv(Hub) /\ PartyInv(Hub, {}, {})
    BY HubIs
  <2>4. {} \subseteq {g} \cup {g} /\ g \in {g}
    OBVIOUS
  <2> HIDE DEF Hub
  <2> QED
    BY ONLY <1>2, <1>4, <1>5, <2>1, <2>2, <2>3, <2>4, PartySetKeeps
<1>7. DOMAIN h.parties = DOMAIN parties /\ h.parties[g] = p
  <2>1. Hub.parties = parties
    BY HubIs
  <2> QED
    BY ONLY <1>6, <2>1, g \in DOMAIN parties
<1> QED
  BY ONLY <1>5, <1>6, <1>7

\* A player joins the party of an invite, from no match and no queue.
LEMMA JoinedKeeps ==
  ASSUME NEW h, PlayInv(h, {}), AccountInv(h), NEW g \in DOMAIN h.parties, PartyInv(h, {}, {g}),
         NEW id \in DOMAIN h.clients, NEW me \in Accounts, me = h.clients[id].account,
         me \notin Range(h.parties[g].members), me \notin h.parties[g].invited,
         h.parties[g].members # << >>, Len(h.parties[g].members) < Seats,
         NEW alone, alone = LeaveParty(CancelSearch(h, id), me),
         NEW n, n = [HaltPartySearch(alone, g) EXCEPT !.parties[g].members = Append(@, me)]
  PROVE  HubInv(n) /\ Quiet(n, h)
<1> DEFINE s == h.parties[g].members
<1>1. PICK c : c = CancelSearch(h, id)
  OBVIOUS
<1>2. PlayInv(c, {}) /\ SameAccounts(c, h) /\ Quiet(c, h)
  BY <1>1, CancelKeeps
<1>3. AccountInv(c) /\ PartyInv(c, {}, {g}) /\ c.parties = h.parties
  BY <1>2, SameAccountsKeep DEF SameAccounts
<1>4. /\ PlayInv(alone, {}) /\ AccountInv(alone) /\ PartyInv(alone, {} \ {me}, {g}) /\ SameLogins(alone, c)
      /\ \A x \in DOMAIN alone.parties : me \notin Range(alone.parties[x].members)
      /\ alone = LeaveParty(c, me) /\ Quiet(alone, c)
  <2>1. alone = LeaveParty(c, me)
    BY <1>1
  <2> QED
    <3>1. PlayInv(c, {}) /\ AccountInv(c) /\ PartyInv(c, {}, {g})
      BY <1>2, <1>3
    <3>2. PlayInv(alone, {}) /\ AccountInv(alone) /\ PartyInv(alone, {} \ {me}, {g}) /\ SameLogins(alone, c) /\ Quiet(alone, c)
      BY ONLY <2>1, <3>1, LeavePartyKeeps
    <3>3. \A x \in DOMAIN alone.parties : me \notin Range(alone.parties[x].members)
      BY ONLY <2>1, <3>1, LeavePartyKeeps
    <3> QED
      BY <2>1, <3>2, <3>3
<1>5. PartyInv(alone, {}, {g}) /\ g \in DOMAIN alone.parties /\ alone.parties[g] = h.parties[g]
  <2>1. {} \ {me} = {}
    OBVIOUS
  <2>2. PartyInv(alone, {}, {g})
    BY ONLY <1>4, <2>1
  <2>3. g \in DOMAIN c.parties /\ me \notin Range(c.parties[g].members)
    BY <1>3
  <2>4. PlayInv(c, {}) /\ AccountInv(c) /\ PartyInv(c, {}, {g}) /\ alone = LeaveParty(c, me)
    BY <1>2, <1>3, <1>4
  <2>5. OthersStay(alone, c, me)
    BY ONLY <2>4, LeavePartyKeeps
  <2>6. g \in DOMAIN alone.parties /\ alone.parties[g] = c.parties[g]
    BY ONLY <2>3, <2>5 DEF OthersStay
  <2> QED
    BY <1>3, <2>2, <2>6
<1>6. PICK half : half = HaltPartySearch(alone, g)
  OBVIOUS
<1>7. /\ s \in Seq(Accounts) /\ h.parties[g].invited \in SUBSET Accounts
      /\ Distinct(s) /\ h.parties[g].invited \cap Range(s) = {} /\ h.parties[g] \in Party
  BY OnePartyIs
<1>8. PlayInv(half, {}) /\ SameAccounts(half, alone) /\ Quiet(half, alone)
  <2>1. Calmer(half, alone)
    BY <1>4, <1>5, <1>6, <1>7, HaltCalms DEF PlayInv
  <2> QED
    BY ONLY <1>4, <2>1, CalmerKeeps
<1>9. AccountInv(half) /\ PartyInv(half, {}, {g}) /\ half.parties = alone.parties /\ IsHub(half)
  BY ONLY <1>4, <1>5, <1>8, SameAccountsKeep DEF SameAccounts, PlayInv, PlayTypes
<1>10. PICK t : t = Append(s, me)
  OBVIOUS
<1>11. t \in Seq(Accounts) /\ Len(t) = Len(s) + 1 /\ Distinct(t) /\ Range(t) = Range(s) \cup {me}
  BY <1>7, <1>10, AppendedIs
<1>12. PICK p : p = [members |-> t, invited |-> h.parties[g].invited]
  OBVIOUS
<1>13. n = PartySet(half, g, p)
  <2>1. half.parties[g] = h.parties[g] /\ g \in DOMAIN half.parties
    BY ONLY <1>5, <1>9
  <2>2. half.parties[g].members = s
    BY <2>1
  <2>3. n = [half EXCEPT !.parties[g].members = t]
    <3>1. n = [half EXCEPT !.parties[g].members = Append(@, me)]
      BY <1>6
    <3> HIDE DEF s
    <3> QED
      BY ONLY <1>10, <2>2, <3>1
  <2>4. [half EXCEPT !.parties[g].members = t] = PartySet(half, g, [members |-> t, invited |-> half.parties[g].invited])
    <3>1. IsHub(half) /\ g \in DOMAIN half.parties /\ half.parties[g] \in Party
      BY ONLY <1>7, <1>9, <2>1
    <3> QED
      BY ONLY <3>1, MembersSetIs
  <2> QED
    BY ONLY <1>12, <2>1, <2>3, <2>4
<1>14. p \in Party /\ PartyFits(p) /\ ~ Lingers(p) /\ p.members = t
  <2>1. p.members = t /\ p.invited = h.parties[g].invited
    BY ONLY <1>12
  <2>2. p \in Party
    BY ONLY <1>7, <1>11, <1>12 DEF Party
  <2>3. Len(s) \in Nat /\ Len(s) # 0 /\ Len(s) < Seats
    <3>1. s \in Seq(Accounts) /\ Len(s) < Seats /\ s # << >>
      BY <1>7
    <3>2. Len(s) \in Nat /\ (Len(s) = 0 <=> s = << >>)
      BY ONLY <3>1, SeqIs
    <3> QED
      BY ONLY <3>1, <3>2
  <2>4. Len(t) <= Seats /\ Len(t) # 1 /\ Len(t) # 0
    BY ONLY <1>11, <2>3, Parameters
  <2>5. PartyFits(p)
    BY <1>7, <1>11, <2>1, <2>4 DEF PartyFits
  <2>6. ~ Lingers(p)
    <3>1. t # << >>
      BY ONLY <1>11, <2>4, SeqIs
    <3> QED
      BY ONLY <2>1, <2>4, <3>1 DEF Lingers
  <2> QED
    BY ONLY <2>1, <2>2, <2>5, <2>6
<1>15. HubInv(n) /\ Quiet(n, half)
  <2>1. \A k \in Range(p.members) : k \in {} \/ Online(half, k)
    <3>1. \A k \in Range(half.parties[g].members) : k \in {} \/ Online(half, k)
      BY ONLY <1>5, <1>9, OnePartyIs
    <3>2. Online(half, me)
      <4>1. DOMAIN half.clients = DOMAIN h.clients /\ half.clients[id].account = h.clients[id].account
        BY <1>2, <1>4, <1>8 DEF SameAccounts, SameLogins
      <4> QED
        BY <4>1 DEF Online
    <3>3. half.parties[g].members = s
      BY <1>5, <1>9
    <3> QED
      BY ONLY <1>11, <1>14, <3>1, <3>2, <3>3
  <2>2. \A o \in DOMAIN half.parties \ {g} : Range(p.members) \cap Range(half.parties[o].members) = {}
    <3>1. \A o \in DOMAIN half.parties \ {g} : Range(half.parties[g].members) \cap Range(half.parties[o].members) = {}
      BY ONLY <1>5, <1>9, OnePartyIs
    <3>2. half.parties[g].members = s
      BY <1>5, <1>9
    <3>3. \A o \in DOMAIN half.parties : me \notin Range(half.parties[o].members)
      BY ONLY <1>4, <1>9
    <3> QED
      BY ONLY <1>11, <1>14, <3>1, <3>2, <3>3
  <2>3. {g} \subseteq {} \cup {g} /\ g \in DOMAIN half.parties
    BY ONLY <1>5, <1>9
  <2>4. PlayInv(n, {}) /\ AccountInv(n) /\ PartyInv(n, {}, {}) /\ Quiet(n, half)
    BY ONLY <1>8, <1>9, <1>13, <1>14, <2>1, <2>2, <2>3, PartySetKeeps
  <2> QED
    BY ONLY <2>4 DEF HubInv
<1>16. Quiet(n, h)
  <2>1. DOMAIN c.clients = DOMAIN h.clients /\ DOMAIN alone.clients = DOMAIN h.clients /\ DOMAIN half.clients = DOMAIN h.clients
    BY ONLY <1>2, <1>4, <1>8 DEF SameAccounts, SameLogins
  <2>2. Quiet(alone, h)
    BY ONLY <1>2, <1>4, <2>1, QuietChain
  <2>3. Quiet(half, h)
    BY ONLY <1>8, <2>1, <2>2, QuietChain
  <2> QED
    BY ONLY <1>15, <2>1, <2>3, QuietChain
<1> QED
  BY ONLY <1>15, <1>16

LEMMA AnswerInviteKeeps ==
  ASSUME QueueInv, NEW id, NEW other, NEW accept, AnswerInvite(id, other, accept)
  PROVE  QueueInv' /\ Quiet(Hub', Hub)
<1>1. PICK me : me = clients[id].account
  OBVIOUS
<1>2. PICK g : g = PartyOf(Hub, other)
  OBVIOUS
<1>3. PICK h : h = [Hub EXCEPT !.parties[g].invited = @ \ {me}]
  OBVIOUS
<1>4. PICK alone : alone = LeaveParty(CancelSearch(h, id), me)
  OBVIOUS
<1>5. /\ id \in DOMAIN clients /\ me # NoAccount /\ g # 0 /\ me \in parties[g].invited
  BY <1>1, <1>2 DEF AnswerInvite, Listening
<1>6. \/ Becomes(Tidy(h, {g}))
      \/ /\ Len(parties[g].members) < Seats
         /\ Becomes([HaltPartySearch(alone, g) EXCEPT !.parties[g].members = Append(@, me)])
  <2>1. g \in DOMAIN Hub.parties
    BY <1>2, <1>5, HubIs, PartyOfIs
  <2>2. Len(Hub.parties[g].members) \in Nat
    <3> HIDE DEF Hub
    <3> QED
      BY <2>1, HubIs, OnePartyIs
  <2>3. Len(parties[g].members) \in Nat /\ Seats \in Nat
    BY <2>2, HubIs, Parameters
  <2>4. CASE \/ ~ accept
             \/ clients[id].room # 0 \/ clients[id].check # 0
             \/ Len(parties[g].members) >= Seats
    BY <1>1, <1>2, <1>3, <2>4 DEF AnswerInvite
  <2>5. CASE ~ (\/ ~ accept
                \/ clients[id].room # 0 \/ clients[id].check # 0
                \/ Len(parties[g].members) >= Seats)
    <3>1. Len(parties[g].members) < Seats
      BY <2>3, <2>5
    <3>2. Becomes([HaltPartySearch(alone, g) EXCEPT !.parties[g].members = Append(@, me)])
      BY <1>1, <1>2, <1>3, <1>4, <2>5 DEF AnswerInvite
    <3> QED
      BY <3>1, <3>2
  <2> QED
    BY <2>4, <2>5
<1>7. g \in DOMAIN parties
  BY <1>2, <1>5, HubIs, PartyOfIs
<1>8. /\ PlayInv(h, {}) /\ AccountInv(h) /\ PartyInv(h, {}, {g}) /\ SameLogins(h, Hub) /\ IsHub(h) /\ Quiet(h, Hub)
      /\ DOMAIN h.parties = DOMAIN parties
      /\ h.parties[g].members = parties[g].members /\ h.parties[g].invited = parties[g].invited \ {me}
  BY ONLY <1>3, <1>7, QueueInv, AnsweredKeeps
<1>9. CASE Becomes(Tidy(h, {g}))
  <2>1. PICK n : n = Tidy(h, {g})
    OBVIOUS
  <2>2. /\ PartyInv(n, {}, {g} \ {g}) /\ IsHub(n)
        /\ n.clients = h.clients /\ n.checks = h.checks /\ n.rooms = h.rooms
    BY ONLY <1>8, <2>1, TidyKeeps
  <2>3. PlayInv(n, {})
    BY ONLY <1>8, <2>2, SamePlay
  <2>4. AccountInv(n)
    BY ONLY <1>8, <2>2 DEF AccountInv
  <2>5. {g} \ {g} = {}
    OBVIOUS
  <2>6. HubInv(n)
    BY ONLY <2>2, <2>3, <2>4, <2>5 DEF HubInv
  <2>7. Quiet(n, Hub)
    BY ONLY <1>8, <2>2 DEF Quiet
  <2> QED
    BY ONLY <1>9, <2>1, <2>6, <2>7, HubStep
<1>10. CASE /\ Len(parties[g].members) < Seats
            /\ Becomes([HaltPartySearch(alone, g) EXCEPT !.parties[g].members = Append(@, me)])
  <2>1. PICK n : n = [HaltPartySearch(alone, g) EXCEPT !.parties[g].members = Append(@, me)]
    OBVIOUS
  <2>2. Becomes(n)
    BY ONLY <1>10, <2>1
  <2>3. /\ ~ Lingers(Hub.parties[g]) /\ Hub.parties[g].invited \in SUBSET Accounts
        /\ Hub.parties[g].invited \cap Range(Hub.parties[g].members) = {}
    <3>1. g \in DOMAIN Hub.parties /\ PartyInv(Hub, {}, {})
      BY <1>7, HubIs
    <3> QED
      BY ONLY <3>1, OnePartyIs
  <2>4. Hub.parties[g] = parties[g]
    BY HubIs
  <2>5. parties[g].members # << >> /\ me \in Accounts /\ me \notin Range(parties[g].members)
    BY ONLY <1>5, <2>3, <2>4 DEF Lingers
  <2>6. /\ g \in DOMAIN h.parties /\ me \notin Range(h.parties[g].members) /\ me \notin h.parties[g].invited
        /\ h.parties[g].members # << >> /\ Len(h.parties[g].members) < Seats
    BY ONLY <1>7, <1>8, <1>10, <2>5
  <2>7. id \in DOMAIN h.clients /\ me = h.clients[id].account
    BY ONLY <1>1, <1>5, <1>8, HubIs, QueueInv DEF SameLogins
  <2>8. PICK m : m = HaltPartySearch(alone, g)
    OBVIOUS
  <2>9. HubInv(n) /\ Quiet(n, h)
    BY ONLY <1>4, <1>8, <2>1, <2>5, <2>6, <2>7, JoinedKeeps
  <2> QED
    <3>1. Quiet(n, Hub)
      BY ONLY <1>8, <2>9, QuietChain DEF SameLogins
    <3> QED
      BY ONLY <2>2, <2>9, <3>1, HubStep
<1> QED
  BY ONLY <1>6, <1>9, <1>10

\* The parties with one more of a single member; the hub with other parties.
OwnParty(P, x, me) == With(P, x, [members |-> <<me>>, invited |-> {}])
PartiesSet(h, Q) == [clients |-> h.clients, checks |-> h.checks, rooms |-> h.rooms, parties |-> Q]

\* An account without a party starts one, alone at first.
LEMMA StartedKeeps ==
  ASSUME NEW b, HubInv(b), NEW me \in Accounts, Online(b, me), PartyOf(b, me) = 0,
         NEW x \in PartyIds, x \notin DOMAIN b.parties,
         NEW Q, Q = OwnParty(b.parties, x, me), NEW h, h = PartiesSet(b, Q)
  PROVE  /\ PlayInv(h, {}) /\ AccountInv(h) /\ PartyInv(h, {}, {x}) /\ IsHub(h) /\ Quiet(h, b) /\ DOMAIN h.clients = DOMAIN b.clients
         /\ x \in DOMAIN h.parties /\ h.parties[x].members = <<me>> /\ h.parties[x] \in Party /\ PartyOf(h, me) = x
<1> DEFINE P == b.parties
<1>1. PICK p : p = [members |-> <<me>>, invited |-> {}]
  OBVIOUS
<1>2. PICK s : s = <<me>>
  OBVIOUS
<1>3. s \in Seq(Accounts) /\ Len(s) = 1 /\ DOMAIN s = {1} /\ s[1] = me /\ s # << >>
  BY <1>2
<1>4. Range(s) = {me} /\ Distinct(s)
  BY ONLY <1>3 DEF Range, Distinct
<1>5. p.members = s /\ p.invited = {} /\ p \in Party
  BY ONLY <1>1, <1>2, <1>3 DEF Party
<1>6. PartyFits(p)
  <2>1. Len(p.members) <= Seats
    <3>1. Seats \in Nat /\ Seats > 1
      BY ONLY Parameters
    <3>2. 1 <= Seats
      BY ONLY <3>1
    <3> QED
      BY ONLY <1>3, <1>5, <3>2
  <2>2. p.invited \cap Range(p.members) = {}
    BY ONLY <1>5
  <2> QED
    BY ONLY <1>4, <1>5, <2>1, <2>2 DEF PartyFits
<1>7. PlayInv(b, {}) /\ AccountInv(b) /\ PartyInv(b, {}, {})
  BY DEF HubInv
<1>8. /\ P \in [DOMAIN P -> Party] /\ DOMAIN P \subseteq PartyIds /\ Disjoint(P)
      /\ \A g \in DOMAIN P : PartyFits(P[g]) /\ ~ Lingers(P[g]) /\ \A k \in Range(P[g].members) : Online(b, k)
  BY ONLY <1>7 DEF PartyInv
<1>9. Q = With(P, x, p)
  BY <1>1 DEF OwnParty
<1>10. /\ DOMAIN Q = DOMAIN P \cup {x} /\ Q[x] = p /\ \A g \in DOMAIN P : Q[g] = P[g] /\ g # x
       /\ Q = [g \in DOMAIN Q |-> Q[g]]
  BY ONLY <1>9, x \notin DOMAIN P DEF With
<1>11. h.clients = b.clients /\ h.checks = b.checks /\ h.rooms = b.rooms /\ h.parties = Q /\ IsHub(h)
  BY ONLY h = PartiesSet(b, Q) DEF PartiesSet, IsHub
<1>12. PlayInv(h, {})
  BY ONLY <1>7, <1>11, SamePlay
<1>13. AccountInv(h) /\ \A k : Online(b, k) => Online(h, k)
  BY ONLY <1>7, <1>11 DEF AccountInv, Online
<1>14. \A g \in DOMAIN P : me \notin Range(P[g].members)
  BY <1>7, PartyOfIs
<1>15. PartyInv(h, {}, {x})
  <2>1. Q \in [DOMAIN Q -> Party]
    BY ONLY <1>5, <1>8, <1>10
  <2>2. DOMAIN Q \subseteq PartyIds
    BY ONLY <1>8, <1>10, x \in PartyIds
  <2>3. Disjoint(Q)
    <3> SUFFICES ASSUME NEW g \in DOMAIN Q, NEW o \in DOMAIN Q, g # o
                 PROVE  Range(Q[g].members) \cap Range(Q[o].members) = {}
      BY DEF Disjoint
    <3>1. CASE g = x
      BY ONLY <1>4, <1>5, <1>10, <1>14, <3>1, g # o, o \in DOMAIN Q
    <3>2. CASE o = x
      BY ONLY <1>4, <1>5, <1>10, <1>14, <3>2, g # o, g \in DOMAIN Q
    <3>3. CASE g # x /\ o # x
      BY ONLY <1>8, <1>10, <3>3, g # o, g \in DOMAIN Q, o \in DOMAIN Q DEF Disjoint
    <3> QED
      BY ONLY <3>1, <3>2, <3>3
  <2>4. ASSUME NEW g \in DOMAIN Q
        PROVE  /\ PartyFits(Q[g]) /\ (g \in {x} \/ ~ Lingers(Q[g]))
               /\ \A k \in Range(Q[g].members) : Online(h, k)
    <3>1. CASE g = x
      BY ONLY <1>4, <1>5, <1>6, <1>10, <1>13, <3>1, Online(b, me)
    <3>2. CASE g # x
      BY ONLY <1>8, <1>10, <1>13, <3>2, g \in DOMAIN Q
    <3> QED
      BY ONLY <3>1, <3>2
  <2> QED
    BY ONLY <1>11, <2>1, <2>2, <2>3, <2>4 DEF PartyInv
<1>16. x \in DOMAIN h.parties /\ h.parties[x] = p
  BY ONLY <1>10, <1>11
<1>17. PartyOf(h, me) = x
  BY ONLY <1>4, <1>5, <1>15, <1>16, PartyOfIs
<1>18. Quiet(h, b)
  BY ONLY <1>11 DEF Quiet
<1> QED
  BY ONLY <1>2, <1>5, <1>11, <1>12, <1>13, <1>15, <1>16, <1>17, <1>18

\* Somebody is invited to a party.
LEMMA InvitedKeeps ==
  ASSUME NEW h, PlayInv(h, {}), AccountInv(h), NEW g \in DOMAIN h.parties, NEW lone \in SUBSET {g}, PartyInv(h, {}, lone),
         h.parties[g].members # << >>, NEW other \in Accounts, other \notin Range(h.parties[g].members),
         NEW v, v = h.parties[g].invited \cup {other},
         NEW n, n = PartySet(h, g, [members |-> h.parties[g].members, invited |-> v])
  PROVE  HubInv(n) /\ Quiet(n, h)
<1>1. PICK p : p = [members |-> h.parties[g].members, invited |-> v]
  OBVIOUS
<1>2. /\ h.parties[g].members \in Seq(Accounts) /\ h.parties[g].invited \in SUBSET Accounts
      /\ Distinct(h.parties[g].members) /\ Len(h.parties[g].members) <= Seats
      /\ h.parties[g].invited \cap Range(h.parties[g].members) = {}
      /\ \A k \in Range(h.parties[g].members) : k \in {} \/ Online(h, k)
      /\ \A o \in DOMAIN h.parties \ {g} : Range(h.parties[g].members) \cap Range(h.parties[o].members) = {}
  BY ONLY PartyInv(h, {}, lone), g \in DOMAIN h.parties, OnePartyIs
<1>3. p.members = h.parties[g].members /\ p.invited = v
  BY ONLY <1>1
<1>4. v \in SUBSET Accounts /\ v # {} /\ v \cap Range(h.parties[g].members) = {}
  BY <1>2
<1>5. p \in Party
  BY ONLY <1>1, <1>2, <1>4 DEF Party
<1>6. PartyFits(p)
  BY ONLY <1>2, <1>3, <1>4 DEF PartyFits
<1>7. ~ Lingers(p)
  BY ONLY <1>3, <1>4, h.parties[g].members # << >> DEF Lingers
<1>8. \A k \in Range(p.members) : k \in {} \/ Online(h, k)
  BY ONLY <1>2, <1>3
<1>9. \A o \in DOMAIN h.parties \ {g} : Range(p.members) \cap Range(h.parties[o].members) = {}
  BY ONLY <1>2, <1>3
<1>10. n = PartySet(h, g, p) /\ lone \subseteq {} \cup {g}
  BY <1>1
<1>11. PlayInv(n, {}) /\ AccountInv(n) /\ PartyInv(n, {}, {}) /\ Quiet(n, h)
  BY ONLY <1>5, <1>6, <1>7, <1>8, <1>9, <1>10, PlayInv(h, {}), AccountInv(h), PartyInv(h, {}, lone),
          g \in DOMAIN h.parties, PartySetKeeps, ZenonT(60)
<1> QED
  BY <1>11 DEF HubInv

LEMMA PartyInviteKeeps ==
  ASSUME QueueInv, NEW id, NEW other, PartyInvite(id, other)
  PROVE  QueueInv' /\ Quiet(Hub', Hub)
<1>1. PICK b : b = Hub
  OBVIOUS
<1>2. PICK me : me = clients[id].account
  OBVIOUS
<1>3. PICK z : z = PartyOf(b, me)
  OBVIOUS
<1>4. PICK h : h = IF z # 0 THEN b ELSE [b EXCEPT !.parties = With(@, FreshParty(b), [members |-> <<me>>, invited |-> {}])]
  OBVIOUS
<1>5. PICK g : g = PartyOf(h, me)
  OBVIOUS
<1>6. PICK n : n = [h EXCEPT !.parties[g].invited = @ \cup {other}]
  OBVIOUS
<1>7. /\ Becomes(n) /\ id \in DOMAIN clients /\ me # NoAccount /\ <<me, other>> \in Friends /\ other # me
      /\ z # 0 => other \notin Range(parties[z].members)
  BY <1>1, <1>2, <1>3, <1>4, <1>5, <1>6 DEF PartyInvite, Listening
<1>8. me \in Accounts /\ other \in Accounts
  BY <1>7, Parameters
<1>9. /\ HubInv(b) /\ IsHub(b) /\ PlayInv(b, {}) /\ AccountInv(b) /\ PartyInv(b, {}, {})
      /\ b.clients = clients /\ b.parties = parties
  BY <1>1, HubIs DEF HubInv
<1>10. PICK lone : /\ PlayInv(h, {}) /\ AccountInv(h) /\ PartyInv(h, {}, lone) /\ IsHub(h)
                   /\ g \in DOMAIN h.parties /\ lone \subseteq {g} /\ h.parties[g] \in Party
                   /\ h.parties[g].members # << >> /\ other \notin Range(h.parties[g].members)
                   /\ Quiet(h, b) /\ DOMAIN h.clients = DOMAIN b.clients
  <2>1. CASE z # 0
    <3>1. h = b /\ g = z
      BY ONLY <1>3, <1>4, <1>5, <2>1
    <3>2. g \in DOMAIN b.parties
      BY ONLY <1>3, <1>9, <2>1, <3>1, PartyOfIs
    <3>3. b.parties[g] \in Party /\ ~ Lingers(b.parties[g])
      BY ONLY <1>9, <3>2, OnePartyIs
    <3>4. b.parties[g].members # << >> /\ other \notin Range(b.parties[g].members)
      BY ONLY <1>7, <1>9, <2>1, <3>1, <3>3 DEF Lingers
    <3>5. {} \subseteq {g}
      OBVIOUS
    <3>6. Quiet(h, b) /\ DOMAIN h.clients = DOMAIN b.clients
      BY ONLY <3>1 DEF Quiet
    <3> QED
      BY ONLY <1>9, <3>1, <3>2, <3>3, <3>4, <3>5, <3>6
  <2>2. CASE z = 0
    <3>1. PICK x : x = FreshParty(b)
      OBVIOUS
    <3>2. PICK Q : Q = OwnParty(b.parties, x, me)
      OBVIOUS
    <3>3. h = [b EXCEPT !.parties = Q]
      BY ONLY <1>4, <2>2, <3>1, <3>2 DEF OwnParty
    <3>4. h = PartiesSet(b, Q)
      BY ONLY <1>9, <3>3, HubParts DEF PartiesSet
    <3>5. x \in PartyIds /\ x \notin DOMAIN b.parties
      BY ONLY <1>9, <3>1, FreshPartyIs
    <3>6. Online(b, me) /\ PartyOf(b, me) = 0
      BY ONLY <1>2, <1>3, <1>7, <1>9, <2>2 DEF Online
    <3>7. /\ PlayInv(h, {}) /\ AccountInv(h) /\ PartyInv(h, {}, {x}) /\ IsHub(h) /\ Quiet(h, b) /\ DOMAIN h.clients = DOMAIN b.clients
          /\ x \in DOMAIN h.parties /\ h.parties[x].members = <<me>> /\ h.parties[x] \in Party /\ PartyOf(h, me) = x
      <4>1. HubInv(b) /\ me \in Accounts
        BY ONLY <1>8, <1>9
      <4> QED
        BY ONLY <4>1, <3>2, <3>4, <3>5, <3>6, StartedKeeps
    <3>8. g = x /\ {x} \subseteq {g}
      BY ONLY <1>5, <3>7
    <3>9. other \notin Range(h.parties[g].members) /\ h.parties[g].members # << >>
      <4>1. PICK s : s = <<me>>
        OBVIOUS
      <4>2. DOMAIN s = {1} /\ s[1] = me /\ s # << >>
        BY ONLY <4>1
      <4>3. other \notin Range(s)
        BY ONLY <1>7, <4>2 DEF Range
      <4> QED
        BY ONLY <3>7, <3>8, <4>1, <4>2, <4>3
    <3> QED
      BY ONLY <3>7, <3>8, <3>9
  <2> QED
    BY ONLY <2>1, <2>2
<1>11. PICK v : v = h.parties[g].invited \cup {other}
  OBVIOUS
<1>12. n = PartySet(h, g, [members |-> h.parties[g].members, invited |-> v])
  <2>1. n = [h EXCEPT !.parties[g].invited = v]
    BY ONLY <1>6, <1>11
  <2>2. [h EXCEPT !.parties[g].invited = v] = PartySet(h, g, [members |-> h.parties[g].members, invited |-> v])
    BY ONLY <1>10, InvitedSetIs
  <2> QED
    BY ONLY <2>1, <2>2
<1>13. HubInv(n) /\ Quiet(n, h)
  <2>1. lone \in SUBSET {g}
    BY ONLY <1>10
  <2> QED
    BY ONLY <1>8, <1>10, <1>11, <1>12, <2>1, InvitedKeeps
<1>14. Quiet(n, Hub)
  BY ONLY <1>1, <1>10, <1>13, QuietChain
<1> QED
  BY ONLY <1>7, <1>13, <1>14, HubStep

-----------------------------------------------------------------------------
(* Who loses their place.                                                  *)

\* x and y queued as one party.
Grouped(h, x, y) == h.clients[x].group # 0 /\ h.clients[y].group = h.clients[x].group

\* Those of a failed check who do not search again are decliners, closing or grouped with a
\* decliner; a search that starts or goes on is of the same party as before.
LEMMA FailedBack ==
  ASSUME NEW h, PlayTypes(h), NEW K, NEW decliners, NEW n, n = FailProposals(h, K, decliners),
         NEW x \in DOMAIN h.clients
  PROVE  /\ h.clients[x].check \in K =>
              \/ n.clients[x].searching \/ x \in decliners \/ h.clients[x].closing
              \/ \E d \in decliners : h.clients[d].check = h.clients[x].check /\ Grouped(h, d, x)
         /\ h.clients[x].check \in K /\ x \in decliners => ~ n.clients[x].searching
         /\ n.clients[x].searching => n.clients[x].group = h.clients[x].group
<1> DEFINE c == h.clients
           Out(id) == \/ id \in decliners \/ c[id].closing
                      \/ \E d \in decliners : /\ c[d].check = c[id].check
                                              /\ c[d].group = c[id].group /\ c[d].group # 0
           One(id) == IF ~ c[id].check \in K THEN c[id]
                      ELSE IF Out(id) THEN [Stopped(c[id]) EXCEPT !.check = 0]
                      ELSE [c[id] EXCEPT !.check = 0, !.searching = TRUE]
           new == [id \in DOMAIN c |-> One(id)]
           left == Without(h.checks, K)
<1>1. FailProposals(h, K, decliners) = [h EXCEPT !.checks = left, !.clients = new]
  BY DEF FailProposals
<1>2. new[x] = One(x)
  OBVIOUS
<1> HIDE DEF new, left
<1>3. n = [clients |-> new, checks |-> left, rooms |-> h.rooms, parties |-> h.parties]
  BY <1>1 DEF PlayTypes, IsHub
<1>4. n.clients[x] = One(x)
  BY <1>2, <1>3
<1>5. c[x] \in Client
  BY DEF PlayTypes
<1>6. CASE c[x].check \notin K
  <2>1. One(x) = c[x]
    BY <1>6
  <2> HIDE DEF One
  <2> QED
    BY <1>4, <1>6, <2>1
<1>7. CASE c[x].check \in K /\ Out(x)
  <2> DEFINE s == Stopped(c[x])
  <2>1. One(x) = [s EXCEPT !.check = 0]
    BY <1>7
  <2>2. s \in Client /\ ~ s.searching
    BY <1>5, StoppedIs
  <2> HIDE DEF s, One
  <2>3. ~ One(x).searching
    BY <2>1, <2>2, FieldIs
  <2>4. \/ x \in decliners \/ c[x].closing
        \/ \E d \in decliners : c[d].check = c[x].check /\ Grouped(h, d, x)
    BY <1>7 DEF Grouped
  <2> HIDE DEF Out
  <2> QED
    BY <1>4, <2>3, <2>4
<1>8. CASE c[x].check \in K /\ ~ Out(x)
  <2>1. PICK yes : yes = TRUE
    OBVIOUS
  <2>2. One(x) = [c[x] EXCEPT !.check = 0, !.searching = yes]
    BY <1>8, <2>1
  <2>3. x \notin decliners
    BY <1>8
  <2> HIDE DEF One, Out
  <2>4. PICK e : e = c[x]
    OBVIOUS
  <2>4a. One(x) = [e EXCEPT !.check = 0, !.searching = yes]
    BY <2>2, <2>4
  <2>4b. e \in Client
    BY <1>5, <2>4
  <2>5. One(x) = [account |-> e.account, closing |-> e.closing, room |-> e.room, check |-> 0,
                  searching |-> yes, mode |-> e.mode, order |-> e.order, waited |-> e.waited,
                  wants |-> e.wants, group |-> e.group]
    BY ONLY <2>4a, <2>4b, ClientIs
  <2>6. One(x).searching /\ One(x).group = c[x].group
    BY <2>1, <2>4, <2>5
  <2> QED
    BY <1>4, <2>3, <2>6
<1> QED
  BY <1>6, <1>7, <1>8

LEMMA DeclineBack ==
  ASSUME NEW h, PlayTypes(h), NEW id \in DOMAIN h.clients, NEW k, k = h.clients[id].check,
         NEW n, n = Decline(h, id)
  PROVE  /\ DOMAIN h.checks \ DOMAIN n.checks \subseteq {k} /\ (k = 0 => n = h)
         /\ k # 0 =>
              /\ ~ n.clients[id].searching
              /\ \A x \in DOMAIN h.clients : h.clients[x].check = k =>
                   n.clients[x].searching \/ x = id \/ h.clients[x].closing \/ Grouped(h, id, x)
         /\ \A x \in DOMAIN h.clients : n.clients[x].searching => n.clients[x].group = h.clients[x].group
<1>1. CASE k = 0
  <2>1. n = h
    BY <1>1 DEF Decline
  <2> QED
    BY <1>1, <2>1
<1>2. CASE k # 0
  <2>1. PICK K, D : K = {k} /\ D = {id}
    OBVIOUS
  <2>2. n = FailProposals(h, K, D)
    BY <1>2, <2>1 DEF Decline
  <2>3. DOMAIN n.checks = DOMAIN h.checks \ {k}
    <3>1. Failed(n, h, K)
      BY <2>2, FailProposalsFails
    <3>2. n = [clients |-> n.clients, checks |-> Without(h.checks, K), rooms |-> h.rooms, parties |-> h.parties]
      BY <3>1 DEF Failed
    <3>3. n.checks = Without(h.checks, K)
      BY ONLY <3>2
    <3>4. DOMAIN Without(h.checks, K) = DOMAIN h.checks \ K
      BY DEF Without
    <3> QED
      BY ONLY <2>1, <3>3, <3>4
  <2>4. \A x \in DOMAIN h.clients :
          /\ h.clients[x].check \in K =>
               \/ n.clients[x].searching \/ x \in D \/ h.clients[x].closing
               \/ \E d \in D : h.clients[d].check = h.clients[x].check /\ Grouped(h, d, x)
          /\ h.clients[x].check \in K /\ x \in D => ~ n.clients[x].searching
          /\ n.clients[x].searching => n.clients[x].group = h.clients[x].group
    BY <2>2, FailedBack
  <2> QED
    BY <1>2, <2>1, <2>3, <2>4
<1> QED
  BY <1>1, <1>2

LEMMA ClosingBack ==
  ASSUME NEW h, PlayInv(h, {}), NEW id \in DOMAIN h.clients, NEW k, k = h.clients[id].check,
         NEW n, n = Closing(h, id)
  PROVE  /\ DOMAIN h.checks \ DOMAIN n.checks \subseteq {k} \ {0}
         /\ k # 0 => \A x \in DOMAIN h.clients :
              /\ h.clients[x].check = k => n.clients[x].searching \/ x = id \/ Grouped(h, id, x)
              /\ n.clients[x].searching => n.clients[x].group = h.clients[x].group
<1> DEFINE a == [h EXCEPT !.clients[id].closing = TRUE]
<1>2. PICK b : b = CancelSearch(a, id)
  OBVIOUS
<1>4. n = Decline(b, id)
  BY <1>2 DEF Closing
<1>3. /\ PlayInv(a, {id}) /\ a.checks = h.checks /\ DOMAIN a.clients = DOMAIN h.clients
      /\ \A w \in DOMAIN h.clients : /\ a.clients[w].check = h.clients[w].check
                                     /\ a.clients[w].searching = h.clients[w].searching
                                     /\ a.clients[w].group = h.clients[w].group
                                     /\ w # id => a.clients[w] = h.clients[w]
  BY MarkedKeeps DEF SameAccounts
<1> HIDE DEF a
<1>5. CASE k = 0
  <2>0. id \in DOMAIN a.clients /\ a.clients[id].check = 0
    BY <1>3, <1>5
  <2>1. PlayInv(b, {id}) /\ b.checks = a.checks /\ b.clients[id].check = 0 /\ DOMAIN b.clients = DOMAIN a.clients
    BY <1>2, <1>3, <2>0, CancelKeeps DEF SameAccounts
  <2>2. n = b
    BY <1>4, <2>1 DEF Decline
  <2> QED
    BY <1>3, <1>5, <2>1, <2>2
<1>6. CASE k # 0
  <2>1. ~ h.clients[id].searching
    BY <1>6 DEF PlayInv, OneActivity
  <2>2. b = a
    BY <1>2, <1>3, <2>1 DEF CancelSearch
  <2>3. PlayTypes(a) /\ id \in DOMAIN a.clients /\ k = a.clients[id].check /\ n = Decline(a, id)
    BY <1>3, <1>4, <2>2 DEF PlayInv
  <2>4. /\ DOMAIN a.checks \ DOMAIN n.checks \subseteq {k}
        /\ \A x \in DOMAIN a.clients :
             /\ a.clients[x].check = k =>
                  n.clients[x].searching \/ x = id \/ a.clients[x].closing \/ Grouped(a, id, x)
             /\ n.clients[x].searching => n.clients[x].group = a.clients[x].group
    BY <1>6, <2>3, DeclineBack
  <2>5. ASSUME NEW x \in DOMAIN h.clients
        PROVE  /\ h.clients[x].check = k => n.clients[x].searching \/ x = id \/ Grouped(h, id, x)
               /\ n.clients[x].searching => n.clients[x].group = h.clients[x].group
    <3>1. h.clients[x].check = k => ~ h.clients[x].closing
      BY <1>6 DEF PlayInv, OneActivity
    <3>2. Grouped(a, id, x) => Grouped(h, id, x)
      BY <1>3 DEF Grouped
    <3> QED
      BY <1>3, <2>4, <3>1, <3>2
  <2> QED
    BY <1>3, <1>6, <2>4, <2>5
<1> QED
  BY <1>5, <1>6

\* Whose search is stopped with a party's searches with a member of it.
LEMMA HaltBack ==
  ASSUME NEW h, PlayTypes(h), NEW g, h.parties[g].members \in Seq(Accounts),
         NEW x \in DOMAIN h.clients, h.clients[x].searching, ~ HaltPartySearch(h, g).clients[x].searching
  PROVE  \E w \in DOMAIN h.clients : /\ h.clients[w].account \in Range(h.parties[g].members)
                                     /\ h.clients[w].searching /\ (x = w \/ Grouped(h, w, x))
<1> DEFINE members == h.parties[g].members
           at == {i \in DOMAIN members : ConnOf(h, members[i]) # 0 /\ h.clients[ConnOf(h, members[i])].searching}
<1>1. PICK i : i = LowestOf(at)
  OBVIOUS
<1>2. at # {}
  BY DEF HaltPartySearch
<1>3. at \in SUBSET Nat
  <2>1. members \in Seq(Accounts)
    OBVIOUS
  <2>2. DOMAIN members = 1 .. Len(members) /\ Len(members) \in Nat
    BY <2>1
  <2> QED
    BY <2>2
<1>4. i \in at
  BY <1>1, <1>2, <1>3, LeastExists
<1>5. PICK w : w = ConnOf(h, members[i])
  OBVIOUS
<1>6. w \in DOMAIN h.clients /\ h.clients[w].account = members[i] /\ h.clients[w].searching
  BY <1>4, <1>5, ConnOfIs
<1>7. members[i] \in Range(members)
  BY <1>4 DEF Range
<1>8. HaltPartySearch(h, g) = StopSearch(h, w)
  BY <1>1, <1>2, <1>5 DEF HaltPartySearch
<1>9. x = w \/ Grouped(h, w, x)
  <2> SUFFICES ASSUME x # w, ~ Grouped(h, w, x) PROVE FALSE
    OBVIOUS
  <2> DEFINE gw == h.clients[w].group
             who == {w} \cup {y \in DOMAIN h.clients : gw # 0 /\ h.clients[y].searching /\ h.clients[y].group = gw}
             new == [y \in DOMAIN h.clients |-> IF y \in who THEN Stopped(h.clients[y]) ELSE h.clients[y]]
  <2>1. StopSearch(h, w) = [h EXCEPT !.clients = new]
    BY DEF StopSearch
  <2>2. x \notin who
    BY DEF Grouped
  <2> HIDE DEF who
  <2>3. new[x] = h.clients[x]
    BY <2>2
  <2> HIDE DEF new
  <2>4. StopSearch(h, w) = [clients |-> new, checks |-> h.checks, rooms |-> h.rooms, parties |-> h.parties]
    BY <2>1, HubParts DEF PlayTypes
  <2>5. StopSearch(h, w).clients[x].searching
    BY <2>3, <2>4
  <2> QED
    BY <1>8, <2>5
<1> QED
  BY <1>6, <1>7, <1>9

-----------------------------------------------------------------------------
(* What leaves the ready checks alone.                                     *)

Stays(n, h) == IsHub(n) /\ n.checks = h.checks

LEMMA PartsStay ==
  ASSUME NEW h, IsHub(h), NEW v
  PROVE  /\ Stays([h EXCEPT !.clients = v], h) /\ Stays([h EXCEPT !.rooms = v], h)
         /\ Stays([h EXCEPT !.parties = v], h)
<1>1. PICK a : a = [clients |-> v, checks |-> h.checks, rooms |-> h.rooms, parties |-> h.parties]
  OBVIOUS
<1>2. PICK b : b = [clients |-> h.clients, checks |-> h.checks, rooms |-> v, parties |-> h.parties]
  OBVIOUS
<1>3. PICK c : c = [clients |-> h.clients, checks |-> h.checks, rooms |-> h.rooms, parties |-> v]
  OBVIOUS
<1>4. Stays(a, h) /\ Stays(b, h) /\ Stays(c, h)
  BY ONLY <1>1, <1>2, <1>3 DEF Stays, IsHub
<1>5. a = [h EXCEPT !.clients = v] /\ b = [h EXCEPT !.rooms = v] /\ c = [h EXCEPT !.parties = v]
  BY <1>1, <1>2, <1>3, HubParts
<1> QED
  BY <1>4, <1>5

LEMMA StaysChain ==
  ASSUME NEW h, NEW h2, NEW h3, Stays(h2, h), Stays(h3, h2)
  PROVE  Stays(h3, h)
BY DEF Stays

\* Searches stop and parties change without a ready check.
LEMMA PartiesStay ==
  ASSUME NEW h, IsHub(h), NEW x, NEW v
  PROVE  /\ Stays(h, h)
         /\ Stays(StopSearch(h, x), h) /\ Stays(CancelSearch(h, x), h) /\ Stays(HaltPartySearch(h, x), h)
         /\ Stays(Tidy(h, v), h)
<1>1. Stays(h, h)
  BY DEF Stays
<1>2. ASSUME NEW id PROVE Stays(StopSearch(h, id), h)
  BY PartsStay DEF StopSearch
<1>3. Stays(CancelSearch(h, x), h) /\ Stays(HaltPartySearch(h, x), h)
  BY <1>1, <1>2 DEF CancelSearch, HaltPartySearch
<1>6. Stays(Tidy(h, v), h)
  BY PartsStay DEF Tidy
<1> QED
  BY <1>1, <1>2, <1>3, <1>6

\* A party with other members, with other invites.
Manned(h, g, v)  == [h EXCEPT !.parties[g].members = v]
Inviting(h, g, v) == [h EXCEPT !.parties[g].invited = v]

LEMMA PartyStays ==
  ASSUME NEW h, IsHub(h), NEW g, NEW v
  PROVE  Stays(Manned(h, g, v), h) /\ Stays(Inviting(h, g, v), h)
<1>1. PICK q, r : q = [h.parties EXCEPT ![g].members = v] /\ r = [h.parties EXCEPT ![g].invited = v]
  OBVIOUS
<1>2. Manned(h, g, v) = [h EXCEPT !.parties = q] /\ Inviting(h, g, v) = [h EXCEPT !.parties = r]
  BY <1>1 DEF Manned, Inviting
<1> QED
  BY <1>2, PartsStay

LEMMA LeaveStays ==
  ASSUME NEW h, IsHub(h), NEW key
  PROVE  Stays(LeaveParty(h, key), h)
<1>1. PICK g : g = PartyOf(h, key)
  OBVIOUS
<1>2. CASE g = 0
  BY <1>1, <1>2 DEF LeaveParty, Stays
<1>3. CASE g # 0
  <2>1. PICK half : half = HaltPartySearch(h, g)
    OBVIOUS
  <2>2. PICK W : W = WithoutMember(half.parties[g].members, key)
    OBVIOUS
  <2>3. PICK m : m = [half EXCEPT !.parties[g].members = W]
    OBVIOUS
  <2>4. LeaveParty(h, key) = Tidy(m, {g})
    <3>1. LeaveParty(h, key) = Tidy([half EXCEPT !.parties[g].members = WithoutMember(@, key)], {g})
      BY <1>1, <1>3, <2>1 DEF LeaveParty
    <3>2. [half EXCEPT !.parties[g].members = WithoutMember(@, key)] = m
      BY ONLY <2>2, <2>3
    <3> QED
      BY <3>1, <3>2
  <2>5. Stays(half, h)
    BY <2>1, PartiesStay
  <2>6. Stays(m, half)
    <3>1. IsHub(half) /\ m = Manned(half, g, W)
      BY <2>3, <2>5 DEF Stays, Manned
    <3> QED
      BY ONLY <3>1, PartyStays
  <2>7. Stays(Tidy(m, {g}), m)
    BY <2>6, PartiesStay DEF Stays
  <2> QED
    BY ONLY <2>4, <2>5, <2>6, <2>7, StaysChain
<1> QED
  BY <1>2, <1>3

LEMMA BecomesStays ==
  ASSUME QueueInv, NEW n, Becomes(n), Stays(n, Hub)
  PROVE  checks' = checks
BY HubIs DEF Becomes, Stays

LEMMA ConnectionsStay ==
  ASSUME QueueInv, NEW id,
         \/ OnConnect(id) \/ LeaveMatch(id) \/ FillTimePasses(id)
         \/ \E r \in DOMAIN rooms : \E s \in DOMAIN rooms[r] : OnConnectWithToken(id, r, s)
  PROVE  checks' = checks
<1>1. PICK h : h = Hub
  OBVIOUS
<1>2. IsHub(h) /\ h.clients = clients /\ h.checks = checks /\ h.rooms = rooms
  BY <1>1, HubIs
<1>3. CASE OnConnect(id)
  <2>1. PICK w : w = With(h.clients, id, NewClient)
    OBVIOUS
  <2>2. Becomes([h EXCEPT !.clients = w])
    BY <1>1, <1>3, <2>1 DEF OnConnect
  <2>3. Stays([h EXCEPT !.clients = w], h)
    BY <1>2, PartsStay
  <2> QED
    BY <1>2, <2>2, <2>3 DEF Becomes, Stays
<1>4. CASE LeaveMatch(id)
  <2>1. PICK v : v = Vacated(h, id)
    OBVIOUS
  <2>2. PICK c : c = [v.clients EXCEPT ![id].room = 0]
    OBVIOUS
  <2>3. Becomes([v EXCEPT !.clients = c])
    BY <1>1, <1>4, <2>1, <2>2 DEF LeaveMatch
  <2>4. Stays(v, h)
    BY <1>2, <2>1, PartsStay DEF Vacated
  <2>5. Stays([v EXCEPT !.clients = c], v)
    BY <2>4, PartsStay DEF Stays
  <2> QED
    BY <1>2, <2>3, <2>4, <2>5 DEF Becomes, Stays
<1>5. CASE FillTimePasses(id)
  BY <1>5 DEF FillTimePasses
<1>6. ASSUME NEW r \in DOMAIN rooms, NEW s \in DOMAIN rooms[r], OnConnectWithToken(id, r, s)
      PROVE  checks' = checks
  <2>1. PICK w : w = With([c \in DOMAIN clients |-> IF c = rooms[r][s] THEN [clients[c] EXCEPT !.closing = TRUE]
                                                    ELSE clients[c]],
                          id, [NewClient EXCEPT !.room = r])
    OBVIOUS
  <2>2. PICK R : R = [rooms EXCEPT ![r][s] = id]
    OBVIOUS
  <2>3. PICK n : n = [h EXCEPT !.clients = w, !.rooms = R]
    OBVIOUS
  <2>4. Becomes(n)
    BY <1>1, <1>2, <1>6, <2>1, <2>2, <2>3 DEF OnConnectWithToken
  <2>5. n = [clients |-> w, checks |-> h.checks, rooms |-> R, parties |-> h.parties]
    BY ONLY <1>2, <2>3 DEF IsHub
  <2>6. n.checks = h.checks
    BY ONLY <2>5
  <2> QED
    BY <1>2, <2>4, <2>6 DEF Becomes
<1> QED
  BY <1>3, <1>4, <1>5, <1>6

LEMMA PartiesOnly ==
  ASSUME QueueInv, NEW id, NEW other, NEW accept,
         \/ PartyLeave(id) \/ PartyKick(id, other) \/ PartyPromote(id, other)
         \/ PartyInvite(id, other) \/ AnswerInvite(id, other, accept)
  PROVE  checks' = checks
<1>1. PICK h : h = Hub
  OBVIOUS
<1>2. IsHub(h) /\ h.parties = parties
  BY <1>1, HubIs
<1>3. ASSUME NEW n, Becomes(n), Stays(n, h) PROVE checks' = checks
  BY <1>1, <1>3, BecomesStays
<1>4. CASE PartyLeave(id) \/ PartyKick(id, other)
  <2>1. PICK key : Becomes(LeaveParty(h, key))
    BY <1>1, <1>4 DEF PartyLeave, PartyKick
  <2> QED
    BY <1>2, <1>3, <2>1, LeaveStays
<1>5. CASE PartyPromote(id, other)
  <2>1. PICK g, v : g = PartyOf(h, other) /\ v = <<other>> \o WithoutMember(h.parties[g].members, other)
    OBVIOUS
  <2>2. Becomes(Manned(h, g, v))
    <3>1. Becomes([h EXCEPT !.parties[g].members = <<other>> \o WithoutMember(@, other)])
      BY <1>1, <1>5, <2>1 DEF PartyPromote
    <3>2. [h EXCEPT !.parties[g].members = <<other>> \o WithoutMember(@, other)] = Manned(h, g, v)
      BY <2>1 DEF Manned
    <3> QED
      BY <3>1, <3>2
  <2> QED
    BY <1>2, <1>3, <2>2, PartyStays
<1>6. CASE PartyInvite(id, other)
  <2>1. PICK me : me = clients[id].account
    OBVIOUS
  <2>2. PICK v : v = With(h.parties, FreshParty(h), [members |-> <<me>>, invited |-> {}])
    OBVIOUS
  <2>3. PICK b : b = IF PartyOf(h, me) # 0 THEN h ELSE [h EXCEPT !.parties = v]
    OBVIOUS
  <2>4. PICK g, u : g = PartyOf(b, me) /\ u = b.parties[g].invited \cup {other}
    OBVIOUS
  <2>5. Becomes(Inviting(b, g, u))
    <3>1. Becomes([b EXCEPT !.parties[g].invited = @ \cup {other}])
      BY <1>1, <1>2, <1>6, <2>1, <2>2, <2>3, <2>4 DEF PartyInvite
    <3>2. [b EXCEPT !.parties[g].invited = @ \cup {other}] = Inviting(b, g, u)
      BY <2>4 DEF Inviting
    <3> QED
      BY <3>1, <3>2
  <2>6. Stays(b, h)
    BY <1>2, <2>3, PartsStay DEF Stays
  <2>7. Stays(Inviting(b, g, u), b)
    BY <2>6, PartyStays DEF Stays
  <2> QED
    BY <1>3, <2>5, <2>6, <2>7, StaysChain
<1>7. CASE AnswerInvite(id, other, accept)
  <2>1. PICK me, g : me = clients[id].account /\ g = PartyOf(h, other)
    OBVIOUS
  <2>2. PICK u : u = h.parties[g].invited \ {me}
    OBVIOUS
  <2>3. PICK a : a = Inviting(h, g, u)
    OBVIOUS
  <2>4. PICK alone : alone = LeaveParty(CancelSearch(a, id), me)
    OBVIOUS
  <2>5. PICK half : half = HaltPartySearch(alone, g)
    OBVIOUS
  <2>6. PICK v : v = Append(half.parties[g].members, me)
    OBVIOUS
  <2>7. Becomes(Tidy(a, {g})) \/ Becomes(Manned(half, g, v))
    <3>1. a = [Hub EXCEPT !.parties[g].invited = @ \ {me}]
      BY <1>1, <2>2, <2>3 DEF Inviting
    <3>2. Manned(half, g, v) = [half EXCEPT !.parties[g].members = Append(@, me)]
      BY <2>6 DEF Manned
    <3> QED
      BY <1>1, <1>7, <2>1, <2>4, <2>5, <3>1, <3>2 DEF AnswerInvite
  <2>8. Stays(a, h)
    BY <1>2, <2>3, PartyStays
  <2>9. Stays(Tidy(a, {g}), h)
    BY <2>8, PartiesStay, StaysChain DEF Stays
  <2>10. Stays(alone, h)
    <3>1. Stays(CancelSearch(a, id), a)
      BY <2>8, PartiesStay DEF Stays
    <3>2. Stays(alone, CancelSearch(a, id))
      BY <2>4, <3>1, LeaveStays DEF Stays
    <3> QED
      BY <2>8, <3>1, <3>2, StaysChain
  <2>11. Stays(half, h)
    BY <2>5, <2>10, PartiesStay, StaysChain DEF Stays
  <2>12. Stays(Manned(half, g, v), half)
    BY <2>11, PartyStays DEF Stays
  <2> QED
    BY <1>3, <2>7, <2>9, <2>11, <2>12, StaysChain
<1> QED
  BY <1>4, <1>5, <1>6, <1>7

-----------------------------------------------------------------------------
(* Who pays for a ready check that fails.                                  *)

\* The players of check k who are left with nothing in n.
Idle(n, h, k) == {x \in h.checks[k].players \cap DOMAIN n.clients : ~ n.clients[x].searching /\ ~ Engaged(n, x)}

\* x is d, or in d's party, or queued with one of these.
Mate(h, d, x) ==
  LET g == PartyOf(h, h.clients[d].account)
  IN \E w \in DOMAIN h.clients : /\ w = d \/ (g # 0 /\ PartyOf(h, h.clients[w].account) = g)
                                 /\ x = w \/ Grouped(h, w, x)

\* They have not answered, or one of their group has not.
Unanswered(n, h, k) ==
  \A x \in Idle(n, h, k) : \E w \in h.checks[k].players \ h.checks[k].accepted : w = x \/ Grouped(h, x, w)

Changed(n, h) == \E w \in DOMAIN h.clients \cap DOMAIN n.clients : n.clients[w].account # h.clients[w].account

OldPlaces(n, h, k) == \A w \in h.checks[k].players \cap DOMAIN n.clients : n.clients[w].order \in {0, h.clients[w].order}

Fair(n, h, k) == OldPlaces(n, h, k) /\ (Unanswered(n, h, k) \/ Changed(n, h))

\* The check is d's, and only d and its mates pay for it.
PaysFor(n, h, k, d) ==
  /\ OldPlaces(n, h, k)
  /\ Changed(n, h) \/ (d \in h.checks[k].players /\ \A x \in Idle(n, h, k) : Mate(h, d, x))

Forgiving(n, h) == \A k \in DOMAIN h.checks \ DOMAIN n.checks : Fair(n, h, k)
Pays(n, h, d)   == \A k \in DOMAIN h.checks \ DOMAIN n.checks : PaysFor(n, h, k, d)

LEMMA NoneLost ==
  ASSUME QueueInv, checks' = checks
  PROVE  Forgiving(Hub', Hub) /\ \A d : Pays(Hub', Hub, d)
<1>1. Hub'.checks = checks' /\ Hub.checks = checks
  BY DEF Hub
<1> QED
  BY <1>1 DEF Forgiving, Pays

\* Nobody has another place who keeps one, and whoever pays is id or a mate of id.
LEMMA BlamedOnOne ==
  ASSUME NEW h, PlayInv(h, {}), NEW id \in DOMAIN h.clients, NEW k, k = h.clients[id].check, NEW n, Quiet(n, h),
         DOMAIN h.checks \ DOMAIN n.checks \subseteq {k} \ {0},
         k # 0 => \A x \in DOMAIN h.clients \cap DOMAIN n.clients :
           h.clients[x].check = k => n.clients[x].searching \/ Mate(h, id, x)
  PROVE  Pays(n, h, id)
<1> SUFFICES ASSUME NEW q \in DOMAIN h.checks \ DOMAIN n.checks PROVE PaysFor(n, h, q, id)
  BY DEF Pays
<1>1. q = k /\ k # 0
  OBVIOUS
<1>2. h.checks[k].players = {x \in DOMAIN h.clients : h.clients[x].check = k}
  BY <1>1 DEF PlayInv, CheckInv
<1>3. \A x \in h.checks[k].players \cap DOMAIN n.clients : n.clients[x].order \in {0, h.clients[x].order}
  BY <1>2 DEF Quiet
<1>4. id \in h.checks[k].players
  BY <1>2
<1>5. \A x \in Idle(n, h, k) : Mate(h, id, x)
  BY <1>1, <1>2 DEF Idle
<1> QED
  BY <1>1, <1>3, <1>4, <1>5 DEF PaysFor, OldPlaces

LEMMA GroupMate ==
  ASSUME NEW h, NEW id \in DOMAIN h.clients, NEW x, x = id \/ Grouped(h, id, x)
  PROVE  Mate(h, id, x)
BY DEF Mate

LEMMA ViolatePays ==
  ASSUME QueueInv, NEW id, Violate(id)
  PROVE  Pays(Hub', Hub, id) /\ id \in DOMAIN clients'
<1>1. PICK h : h = Hub
  OBVIOUS
<1>2. PICK n : n = Closing(h, id)
  OBVIOUS
<1>3. id \in DOMAIN h.clients /\ Becomes(n) /\ PlayInv(h, {})
  BY <1>1, <1>2, HubIs DEF Violate, Listening
<1>4. PICK k : k = h.clients[id].check
  OBVIOUS
<1>5. PlayInv(n, {}) /\ SameAccounts(n, h) /\ Quiet(n, h)
  BY <1>2, <1>3, ClosingKeeps
<1>6. /\ DOMAIN h.checks \ DOMAIN n.checks \subseteq {k} \ {0}
      /\ k # 0 => \A x \in DOMAIN h.clients :
           h.clients[x].check = k => n.clients[x].searching \/ x = id \/ Grouped(h, id, x)
  BY <1>2, <1>3, <1>4, ClosingBack
<1>7. k # 0 => \A x \in DOMAIN h.clients \cap DOMAIN n.clients :
                 h.clients[x].check = k => n.clients[x].searching \/ Mate(h, id, x)
  BY <1>3, <1>6, GroupMate
<1>8. Pays(n, h, id)
  BY ONLY <1>3, <1>4, <1>5, <1>6, <1>7, BlamedOnOne
<1>9. Hub' = n
  BY <1>1, <1>3, <1>5, PlayStep
<1>10. id \in DOMAIN clients'
  BY <1>3, <1>5, <1>9 DEF SameAccounts, Hub
<1> QED
  BY <1>1, <1>8, <1>9, <1>10

LEMMA LeaveQueuePays ==
  ASSUME QueueInv, NEW id, LeaveQueue(id)
  PROVE  Pays(Hub', Hub, id) /\ (id \in DOMAIN clients' \/ checks' = checks)
<1>1. PICK h : h = Hub
  OBVIOUS
<1>2. id \in DOMAIN h.clients /\ PlayInv(h, {}) /\ h.clients = clients /\ IsHub(h)
  BY <1>1, HubIs DEF LeaveQueue, Listening
<1>3. CASE clients[id].check = 0
  <2>1. Becomes(StopSearch(h, id))
    BY <1>1, <1>3 DEF LeaveQueue
  <2>2. Stays(StopSearch(h, id), h)
    BY <1>2, PartiesStay
  <2> QED
    BY <1>1, <2>1, <2>2, BecomesStays, NoneLost
<1>4. CASE clients[id].check # 0
  <2>1. PICK n : n = Decline(h, id)
    OBVIOUS
  <2>2. Becomes(n)
    BY <1>1, <1>4, <2>1 DEF LeaveQueue
  <2>3. PICK k : k = h.clients[id].check
    OBVIOUS
  <2>4. PlayInv(n, {}) /\ SameAccounts(n, h) /\ Quiet(n, h)
    BY <1>2, <2>1, DeclineKeeps
  <2>5. k # 0
    BY <1>2, <1>4, <2>3
  <2>6. /\ DOMAIN h.checks \ DOMAIN n.checks \subseteq {k}
        /\ \A x \in DOMAIN h.clients : h.clients[x].check = k =>
             n.clients[x].searching \/ x = id \/ h.clients[x].closing \/ Grouped(h, id, x)
    BY <1>2, <2>1, <2>3, <2>5, DeclineBack DEF PlayInv
  <2>7. ASSUME NEW x \in DOMAIN h.clients, h.clients[x].check = k
        PROVE  n.clients[x].searching \/ Mate(h, id, x)
    <3>1. ~ h.clients[x].closing
      BY <1>2, <2>5, <2>7 DEF PlayInv, OneActivity
    <3> QED
      BY <1>2, <2>6, <2>7, <3>1, GroupMate
  <2>8. Pays(n, h, id)
    BY <1>2, <2>3, <2>4, <2>5, <2>6, <2>7, BlamedOnOne
  <2>9. Hub' = n
    BY <1>1, <2>2, <2>4, PlayStep
  <2>10. id \in DOMAIN clients'
    BY <1>2, <2>4, <2>9 DEF SameAccounts, Hub
  <2> QED
    BY <1>1, <2>8, <2>9, <2>10
<1> QED
  BY <1>3, <1>4

LEMMA AcceptMatchForgives ==
  ASSUME QueueInv, NEW id, AcceptMatch(id)
  PROVE  Forgiving(Hub', Hub)
<1>1. PICK h : h = Hub
  OBVIOUS
<1>2. PICK k, A : k = clients[id].check /\ A = h.checks[k].accepted \cup {id}
  OBVIOUS
<1>3. PlayInv(h, {}) /\ IsHub(h) /\ h.clients = clients /\ StateFits /\ h.checks = checks
  BY <1>1, HubIs
<1>4. k # 0 /\ id \in DOMAIN h.clients
  BY <1>2, <1>3 DEF AcceptMatch, Listening
<1>5. k \in DOMAIN h.checks
  BY <1>2, <1>3, <1>4 DEF PlayInv, OneActivity
<1>6. A \in SUBSET h.checks[k].players
  BY <1>2, <1>3, <1>4, <1>5 DEF PlayInv, CheckInv
<1>7. PICK a : a = Accepting(h, k, A)
  OBVIOUS
<1>8. PICK n : n = Progress(a, k)
  OBVIOUS
<1>9. Becomes(n)
  <2>1. [h EXCEPT !.checks[k].accepted = @ \cup {id}] = [h EXCEPT !.checks[k].accepted = A]
    BY <1>2
  <2> QED
    BY <1>1, <1>2, <1>7, <1>8, <2>1 DEF AcceptMatch, Accepting
<1>10. /\ PlayInv(n, {}) /\ SameAccounts(n, h)
       /\ \A w \in DOMAIN h.clients : n.clients[w].order \in {0, h.clients[w].order}
       /\ k \in DOMAIN n.checks \/ \A w \in h.checks[k].players : Engaged(n, w)
       /\ DOMAIN h.checks \ {k} \subseteq DOMAIN n.checks
  BY ONLY <1>3, <1>5, <1>6, <1>7, <1>8, AnswerKeeps
<1>11. Hub' = n
  BY <1>1, <1>9, <1>10, PlayStep
<1>12. ASSUME NEW q \in DOMAIN h.checks \ DOMAIN n.checks PROVE Fair(n, h, q)
  <2>1. q = k /\ \A w \in h.checks[k].players : Engaged(n, w)
    BY <1>10
  <2>2. Unanswered(n, h, k)
    BY <2>1 DEF Unanswered, Idle
  <2>3. h.checks[k].players \subseteq DOMAIN h.clients
    BY <1>3, <1>5 DEF PlayInv, CheckInv
  <2> QED
    BY <1>10, <2>1, <2>2, <2>3 DEF Fair, OldPlaces
<1> QED
  BY <1>1, <1>11, <1>12 DEF Forgiving

LEMMA LogoutForgives ==
  ASSUME QueueInv, NEW id, Logout(id)
  PROVE  Forgiving(Hub', Hub)
<1>1. PICK h : h = Hub
  OBVIOUS
<1>2. PICK key : key = clients[id].account
  OBVIOUS
<1>3. PICK o : o = LoggedOut(h, id)
  OBVIOUS
<1>4. PICK n : n = LeaveParty(o, key)
  OBVIOUS
<1>5. /\ Becomes(n) /\ id \in DOMAIN h.clients /\ key = h.clients[id].account /\ key # NoAccount
      /\ PlayInv(h, {}) /\ AccountInv(h) /\ PartyInv(h, {}, {})
  BY <1>1, <1>2, <1>3, <1>4, HubIs DEF Logout, Listening
<1>6. /\ PlayInv(o, {}) /\ AccountInv(o) /\ PartyInv(o, {} \cup {key}, {})
      /\ DOMAIN o.clients = DOMAIN h.clients /\ o.clients[id].account = NoAccount
  BY <1>3, <1>5, LoggedOutKeeps
<1>7. SameLogins(n, o)
  BY <1>4, <1>6, LeavePartyKeeps
<1>8. id \in DOMAIN n.clients /\ n.clients[id].account # h.clients[id].account
  BY <1>5, <1>6, <1>7 DEF SameLogins
<1>9. n.clients = Hub'.clients /\ Quiet(Hub', h)
  <2>1. Hub'.clients = clients'
    BY DEF Hub
  <2> QED
    BY <1>1, <1>5, <2>1, LogoutKeeps DEF Becomes
<1>10. ASSUME NEW k \in DOMAIN h.checks PROVE Fair(Hub', h, k)
  <2>1. h.checks[k].players \subseteq DOMAIN h.clients
    BY <1>5 DEF PlayInv, CheckInv
  <2> QED
    BY <1>5, <1>8, <1>9, <2>1 DEF Fair, OldPlaces, Changed, Quiet
<1> QED
  BY <1>1, <1>10 DEF Forgiving

LEMMA LoginPays ==
  ASSUME QueueInv, NEW id, NEW key \in Accounts, Login(id, key)
  PROVE  /\ Pays(Hub', Hub, id) /\ id \in DOMAIN clients'
         /\ clients[id].account # key => Forgiving(Hub', Hub)
<1>1. PICK h : h = Hub
  OBVIOUS
<1>2. PICK previous : previous = h.clients[id].account
  OBVIOUS
<1>3. PICK others : others = {c \in DOMAIN clients : c # id /\ clients[c].account = key}
  OBVIOUS
<1>4. PICK d : d = Decline(h, id)
  OBVIOUS
<1>5. PICK mine : mine = CancelSearch(d, id)
  OBVIOUS
<1>6. PICK theirs : theirs = LoggedOutAll(mine, others)
  OBVIOUS
<1>7. PICK left : left = IF previous \in {NoAccount, key} THEN theirs
                         ELSE LeaveParty(AccountSet(theirs, id, NoAccount), previous)
  OBVIOUS
<1>8. PICK n : n = AccountSet(left, id, key)
  OBVIOUS
<1>9. PlayInv(h, {}) /\ AccountInv(h) /\ h.clients = clients /\ h.checks = checks /\ id \in DOMAIN h.clients
  BY <1>1, HubIs DEF Login
<1>10. Becomes(n)
  BY <1>1, <1>2, <1>3, <1>4, <1>5, <1>6, <1>7, <1>8, <1>9 DEF Login, LoggedOutAll, AccountSet
<1>11. Quiet(Hub', h) /\ QueueInv'
  BY <1>1, LoginKeeps
<1>12. Hub'.clients = n.clients /\ Hub'.checks = n.checks
  <2>1. Hub'.clients = clients' /\ Hub'.checks = checks'
    BY DEF Hub
  <2> QED
    BY <1>10, <2>1 DEF Becomes
<1>13. PICK k : k = h.clients[id].check
  OBVIOUS
<1>14. id \in DOMAIN clients'
  BY LoginKeeps
<1>15. CASE previous # key
  <2>1. id \in DOMAIN Hub'.clients /\ Hub'.clients[id].account = key
    <3>1. id \in DOMAIN clients' /\ clients'[id].account = key
      BY LoginKeeps
    <3> QED
      BY <3>1 DEF Hub
  <2>2. ASSUME NEW q \in DOMAIN h.checks PROVE Fair(Hub', h, q) /\ PaysFor(Hub', h, q, id)
    <3>1. h.checks[q].players \subseteq DOMAIN h.clients
      BY <1>9 DEF PlayInv, CheckInv
    <3> QED
      BY <1>2, <1>9, <1>11, <1>15, <2>1, <3>1 DEF Fair, PaysFor, OldPlaces, Changed, Quiet
  <2> QED
    BY <1>1, <1>14, <2>2 DEF Forgiving, Pays
<1>16. CASE previous = key
  <2>1. others = {}
    BY <1>2, <1>3, <1>9, <1>16, Parameters DEF AccountInv
  <2>2. theirs = mine
    BY <1>6, <2>1, LoggedOutFold
  <2>3. n = AccountSet(mine, id, key)
    BY <1>7, <1>8, <1>16, <2>2
  <2>4. /\ PlayInv(d, {}) /\ SameAccounts(d, h) /\ id \in DOMAIN d.clients
    BY <1>4, <1>9, DeclineKeeps DEF SameAccounts
  <2>5. PlayInv(mine, {}) /\ mine.checks = d.checks /\ id \in DOMAIN mine.clients
    BY <1>5, <2>4, CancelKeeps DEF SameAccounts
  <2>6. key \in Accounts \cup {NoAccount}
    OBVIOUS
  <2>7. /\ n.checks = mine.checks
        /\ \A x \in DOMAIN mine.clients : n.clients[x].searching = mine.clients[x].searching
    BY ONLY <2>3, <2>5, <2>6, AccountSetKeeps
  <2>8. /\ DOMAIN h.checks \ DOMAIN d.checks \subseteq {k} /\ (k = 0 => d = h)
        /\ k # 0 =>
             /\ ~ d.clients[id].searching
             /\ \A x \in DOMAIN h.clients : h.clients[x].check = k =>
                  d.clients[x].searching \/ x = id \/ h.clients[x].closing \/ Grouped(h, id, x)
    BY <1>4, <1>9, <1>13, DeclineBack DEF PlayInv
  <2>9. ASSUME k # 0, NEW x \in DOMAIN h.clients, h.clients[x].check = k
        PROVE  n.clients[x].searching \/ Mate(h, id, x)
    <3>1. mine = d
      BY <1>5, <2>8, <2>9 DEF CancelSearch
    <3>2. ~ h.clients[x].closing
      BY <1>9, <2>9 DEF PlayInv, OneActivity
    <3>3. x \in DOMAIN mine.clients
      BY <2>4, <3>1 DEF SameAccounts
    <3> QED
      BY <1>9, <2>7, <2>8, <2>9, <3>1, <3>2, <3>3, GroupMate
  <2>10. DOMAIN h.checks \ DOMAIN n.checks \subseteq {k} \ {0}
    BY <2>5, <2>7, <2>8
  <2>11. PICK m : m = Hub'
    OBVIOUS
  <2>12. /\ Quiet(m, h) /\ DOMAIN h.checks \ DOMAIN m.checks \subseteq {k} \ {0}
         /\ k # 0 => \A x \in DOMAIN h.clients \cap DOMAIN m.clients :
              h.clients[x].check = k => m.clients[x].searching \/ Mate(h, id, x)
    BY <1>11, <1>12, <2>9, <2>10, <2>11
  <2>13. Pays(m, h, id)
    BY ONLY <1>9, <1>13, <2>12, BlamedOnOne
  <2> QED
    BY <1>1, <1>2, <1>9, <1>14, <1>16, <2>11, <2>13
<1> QED
  BY <1>15, <1>16

LEMMA OnDisconnectPays ==
  ASSUME QueueInv, NEW id, OnDisconnect(id)
  PROVE  Pays(Hub', Hub, id) /\ id \notin DOMAIN clients'
<1>1. PICK h : h = Hub
  OBVIOUS
<1>2. PICK account : account = h.clients[id].account
  OBVIOUS
<1>3. PICK v : v = Vacated(h, id)
  OBVIOUS
<1>4. PICK c : c = Closing(v, id)
  OBVIOUS
<1>5. PICK gone : gone = [c EXCEPT !.clients = Without(@, {id})]
  OBVIOUS
<1>6. PICK n : n = IF account # NoAccount /\ ConnOf(gone, account) = 0 THEN LeaveParty(gone, account) ELSE gone
  OBVIOUS
<1>7. PlayInv(h, {}) /\ AccountInv(h) /\ PartyInv(h, {}, {}) /\ h.clients = clients
  BY <1>1, HubIs
<1>8. Becomes(n) /\ id \in DOMAIN h.clients
  BY <1>1, <1>2, <1>3, <1>4, <1>5, <1>6, <1>7 DEF OnDisconnect
<1>9. PlayInv(v, {}) /\ v.clients = h.clients /\ v.checks = h.checks /\ v.parties = h.parties /\ NoSeat(v, id)
  BY <1>3, <1>7, <1>8, VacatedKeeps
<1>10. PICK k : k = h.clients[id].check
  OBVIOUS
<1>11. PlayInv(c, {}) /\ SameAccounts(c, v) /\ c.rooms = v.rooms /\ c.clients[id].check = 0 /\ Quiet(c, v)
  BY <1>4, <1>8, <1>9, ClosingKeeps
<1>12. /\ DOMAIN h.checks \ DOMAIN c.checks \subseteq {k} \ {0}
       /\ k # 0 => \A x \in DOMAIN h.clients :
            /\ h.clients[x].check = k => c.clients[x].searching \/ x = id \/ Grouped(h, id, x)
            /\ c.clients[x].searching => c.clients[x].group = h.clients[x].group
  <2>1. /\ DOMAIN v.checks \ DOMAIN c.checks \subseteq {k} \ {0}
        /\ k # 0 => \A x \in DOMAIN v.clients :
             /\ v.clients[x].check = k => c.clients[x].searching \/ x = id \/ Grouped(v, id, x)
             /\ c.clients[x].searching => c.clients[x].group = v.clients[x].group
    BY <1>4, <1>8, <1>9, <1>10, ClosingBack
  <2>2. \A x \in DOMAIN h.clients : Grouped(v, id, x) <=> Grouped(h, id, x)
    BY <1>9 DEF Grouped
  <2> QED
    BY ONLY <1>9, <2>1, <2>2
<1>13. SameAccounts(c, h)
  BY <1>9, <1>11 DEF SameAccounts
<1>14. AccountInv(c) /\ PartyInv(c, {}, {})
  BY <1>7, <1>13, SameAccountsKeep
<1>15. /\ PlayInv(gone, {}) /\ AccountInv(gone) /\ PartyInv(gone, {account}, {}) /\ Quiet(gone, c)
       /\ gone.checks = c.checks /\ gone.parties = h.parties /\ DOMAIN gone.clients = DOMAIN h.clients \ {id}
       /\ \A x \in DOMAIN gone.clients : gone.clients[x] = c.clients[x]
  <2>1. id \in DOMAIN c.clients /\ c.clients[id].account = account /\ NoSeat(c, id)
    BY <1>2, <1>8, <1>9, <1>11, <1>13 DEF SameAccounts, NoSeat
  <2>2. PlayInv(gone, {}) /\ AccountInv(gone) /\ PartyInv(gone, {c.clients[id].account}, {}) /\ Quiet(gone, c)
    BY <1>5, <1>11, <1>14, <2>1, RemovedKeeps
  <2>3. gone.checks = c.checks /\ gone.parties = c.parties /\ DOMAIN gone.clients = DOMAIN c.clients \ {id}
    BY <1>5, <1>11, <1>14, <2>1, RemovedKeeps
  <2>4. StayWho(gone, c)
    BY <1>5, <1>11, <1>14, <2>1, RemovedKeeps
  <2> QED
    BY <1>13, <2>1, <2>2, <2>3, <2>4 DEF SameAccounts, StayWho
<1>16. PICK g : g = PartyOf(gone, account)
  OBVIOUS
<1>17. /\ n.checks = gone.checks /\ DOMAIN n.clients = DOMAIN gone.clients
       /\ n.clients = gone.clients \/ (g # 0 /\ n.clients = HaltPartySearch(gone, g).clients)
  <2>1. CASE n = gone
    BY <2>1
  <2>2. CASE n = LeaveParty(gone, account)
    <3>1. /\ PartyInv(n, {account} \ {account}, {})
          /\ SameLogins(n, gone) /\ n.checks = gone.checks /\ AsHalted(n, gone, PartyOf(gone, account))
      BY ONLY <1>15, <2>2, LeavePartyKeeps
    <3> QED
      BY ONLY <1>16, <3>1 DEF SameLogins, AsHalted
  <2> QED
    BY <1>6, <2>1, <2>2
<1>18. Hub'.clients = n.clients /\ Hub'.checks = n.checks /\ Quiet(Hub', h)
  <2>1. Hub'.clients = clients' /\ Hub'.checks = checks'
    BY DEF Hub
  <2> QED
    BY <1>1, <1>8, <2>1, OnDisconnectKeeps DEF Becomes
\* Who was in the party of the account and searched with the others.
<1>19. ASSUME k # 0, NEW x \in DOMAIN gone.clients, gone.clients[x].searching, ~ n.clients[x].searching
       PROVE  Mate(h, id, x)
  <2>1. g # 0 /\ ~ HaltPartySearch(gone, g).clients[x].searching
    BY <1>17, <1>19
  <2>2. g \in DOMAIN gone.parties /\ gone.parties[g].members \in Seq(Accounts)
    BY <1>15, <1>16, <2>1, PartyOfIs DEF PartyInv, Party
  <2>3. PICK w \in DOMAIN gone.clients : /\ gone.clients[w].account \in Range(gone.parties[g].members)
                                         /\ gone.clients[w].searching /\ (x = w \/ Grouped(gone, w, x))
    BY <1>15, <1>19, <2>1, <2>2, HaltBack DEF PlayInv
  <2>4. PartyOf(h, h.clients[id].account) = g
    BY <1>2, <1>15, <1>16 DEF PartyOf
  <2>5. w \in DOMAIN h.clients /\ h.clients[w].account = gone.clients[w].account
    BY <1>13, <1>15 DEF SameAccounts
  <2>6. PartyOf(h, h.clients[w].account) = g
    BY <1>7, <1>15, <2>2, <2>3, <2>5, PartyOfIs
  <2>7. x = w \/ Grouped(h, w, x)
    <3>1. c.clients[w].searching /\ c.clients[x].searching /\ x \in DOMAIN h.clients
      BY <1>15, <1>19, <2>3
    <3>2. gone.clients[w].group = h.clients[w].group /\ gone.clients[x].group = h.clients[x].group
      BY <1>12, <1>15, <1>19, <2>3, <2>5, <3>1
    <3> QED
      BY <2>3, <3>2 DEF Grouped
  <2> QED
    BY <2>1, <2>4, <2>5, <2>6, <2>7 DEF Mate
<1>20. ASSUME k # 0, NEW x \in DOMAIN h.clients \cap DOMAIN n.clients, h.clients[x].check = k
       PROVE  n.clients[x].searching \/ Mate(h, id, x)
  <2>1. x \in DOMAIN gone.clients /\ gone.clients[x] = c.clients[x]
    BY <1>15, <1>17
  <2>2. c.clients[x].searching \/ x = id \/ Grouped(h, id, x)
    BY <1>12, <1>20
  <2> QED
    BY <1>8, <1>19, <1>20, <2>1, <2>2, GroupMate
<1>21. PICK m : m = Hub'
  OBVIOUS
<1>22. /\ Quiet(m, h) /\ DOMAIN h.checks \ DOMAIN m.checks \subseteq {k} \ {0}
       /\ k # 0 => \A x \in DOMAIN h.clients \cap DOMAIN m.clients :
            h.clients[x].check = k => m.clients[x].searching \/ Mate(h, id, x)
  BY <1>12, <1>15, <1>17, <1>18, <1>20, <1>21
<1>23. Pays(m, h, id)
  BY ONLY <1>7, <1>8, <1>10, <1>22, BlamedOnOne
<1>24. id \notin DOMAIN clients'
  BY <1>15, <1>17, <1>18 DEF Hub
<1> QED
  BY <1>1, <1>21, <1>23, <1>24

LEMMA TickForgives ==
  ASSUME QueueInv, NEW over \in SUBSET DOMAIN rooms, NEW late \in SUBSET DOMAIN checks, NEW lapsed,
         Tick(over, late, lapsed)
  PROVE  Forgiving(Hub', Hub)
<1>1. PICK h : h = Hub
  OBVIOUS
<1>2. PICK ended : ended = EndRooms(h, over)
  OBVIOUS
<1>3. PICK decliners : decliners = UNION {checks[k].players \ checks[k].accepted : k \in late}
  OBVIOUS
<1>4. PICK failed : failed = FailProposals(ended, late, decliners)
  OBVIOUS
<1>5. PICK made : made = Matchmake(failed)
  OBVIOUS
<1>6. PICK n : n = ExpireInvites(made, lapsed)
  OBVIOUS
<1>7. Becomes(n)
  BY <1>1, <1>2, <1>3, <1>4, <1>5, <1>6 DEF Tick
<1>8. 0 \notin over /\ 0 \notin late
  BY HubIs, Parameters DEF StateFits
<1>9. PlayInv(h, {}) /\ AccountInv(h) /\ PartyInv(h, {}, {}) /\ h.checks = checks /\ StateFits
  BY <1>1, HubIs
<1>10. /\ PlayInv(ended, {}) /\ SameAccounts(ended, h) /\ ended.checks = h.checks /\ Quiet(ended, h)
       /\ \A w \in DOMAIN h.clients : /\ ended.clients[w].check = h.clients[w].check
                                      /\ ended.clients[w].closing = h.clients[w].closing
                                      /\ ended.clients[w].group = h.clients[w].group
  BY <1>2, <1>8, <1>9, EndRoomsKeeps
<1>11. Failed(failed, ended, late)
  BY <1>4, <1>10, FailProposalsFails DEF PlayInv
<1>12. PlayInv(failed, {}) /\ SameAccounts(failed, ended) /\ Quiet(failed, ended)
  BY <1>8, <1>10, <1>11, FailedKeeps
<1>13. DOMAIN failed.checks = DOMAIN h.checks \ late
  <2>1. failed = [clients |-> failed.clients, checks |-> Without(ended.checks, late), rooms |-> ended.rooms,
                  parties |-> ended.parties]
    BY <1>11 DEF Failed
  <2>2. failed.checks = Without(ended.checks, late)
    BY ONLY <2>1
  <2> QED
    BY <1>10, <2>2 DEF Without
<1>14. \A x \in DOMAIN ended.clients : ended.clients[x].check \in late =>
         \/ failed.clients[x].searching \/ x \in decliners \/ ended.clients[x].closing
         \/ \E d \in decliners : ended.clients[d].check = ended.clients[x].check /\ Grouped(ended, d, x)
  BY <1>4, <1>10, FailedBack DEF PlayInv
<1>15. PlayInv(made, {}) /\ SameAccounts(made, failed) /\ Onward(made, failed)
  BY <1>5, <1>9, <1>12, MatchmakeKeeps
<1>16. SameAccounts(failed, h) /\ SameAccounts(made, h)
  BY <1>10, <1>12, <1>15, SameAccountsChain
<1>17. AccountInv(made) /\ PartyInv(made, {}, {})
  BY <1>9, <1>16, SameAccountsKeep
<1>18. HubInv(n) /\ n.clients = made.clients /\ n.checks = made.checks /\ n.rooms = made.rooms
  BY <1>6, <1>15, <1>17, ExpireInvitesKeeps DEF HubInv
<1>19. Hub' = n
  BY <1>7, <1>18, HubStep
<1>20. DOMAIN made.clients = DOMAIN h.clients /\ DOMAIN failed.clients = DOMAIN h.clients /\ DOMAIN ended.clients = DOMAIN h.clients
  BY <1>10, <1>16 DEF SameAccounts
<1>21. \A w \in DOMAIN h.clients : n.clients[w].order \in {0, h.clients[w].order}
  <2>1. \A w \in DOMAIN h.clients : failed.clients[w].order \in {0, h.clients[w].order}
    BY <1>10, <1>12, <1>20 DEF Quiet
  <2> QED
    BY <1>15, <1>18, <1>20, <2>1 DEF Onward
<1>22. ASSUME NEW k \in DOMAIN h.checks \ DOMAIN n.checks PROVE Fair(n, h, k)
  <2>1. k \in late
    BY <1>13, <1>15, <1>18 DEF Onward
  <2>2. h.checks[k].players = {x \in DOMAIN h.clients : h.clients[x].check = k}
    BY <1>9 DEF PlayInv, CheckInv
  <2>3. ASSUME NEW d \in decliners, d \in DOMAIN h.clients, h.clients[d].check = k
        PROVE  d \in h.checks[k].players \ h.checks[k].accepted
    <3>1. PICK q \in late : d \in h.checks[q].players \ h.checks[q].accepted
      BY <1>3, <1>9
    <3>2. h.clients[d].check = q
      BY <1>9, <3>1 DEF PlayInv, CheckInv
    <3> QED
      BY <2>3, <3>1, <3>2
  <2>4. \A d \in decliners : d \in DOMAIN h.clients
    BY <1>3, <1>9 DEF PlayInv, CheckInv
  <2>5. ASSUME NEW x \in Idle(n, h, k)
        PROVE  \E w \in h.checks[k].players \ h.checks[k].accepted : w = x \/ Grouped(h, x, w)
    <3>1. x \in DOMAIN h.clients /\ h.clients[x].check = k /\ ~ n.clients[x].searching /\ ~ Engaged(n, x)
      BY <2>2 DEF Idle
    <3>2. ~ made.clients[x].searching /\ ~ Engaged(made, x)
      BY <1>18, <3>1 DEF Engaged
    <3>3. ~ failed.clients[x].searching
      BY <1>15, <1>20, <3>1, <3>2 DEF Onward
    <3>4. ~ h.clients[x].closing
      BY <1>8, <1>9, <2>1, <3>1 DEF PlayInv, OneActivity
    <3>5. \/ x \in decliners
          \/ \E d \in decliners : ended.clients[d].check = k /\ Grouped(ended, d, x)
      BY <1>10, <1>14, <1>20, <2>1, <3>1, <3>3, <3>4
    <3>6. CASE x \in decliners
      BY <2>3, <3>1, <3>6
    <3>7. ASSUME NEW d \in decliners, ended.clients[d].check = k, Grouped(ended, d, x)
          PROVE  d \in h.checks[k].players \ h.checks[k].accepted /\ Grouped(h, x, d)
      BY <1>10, <2>3, <2>4, <3>1, <3>7 DEF Grouped
    <3> QED
      BY <3>5, <3>6, <3>7
  <2>6. Unanswered(n, h, k)
    BY <2>5 DEF Unanswered
  <2> QED
    BY <1>21, <2>2, <2>6 DEF Fair, OldPlaces
<1> QED
  BY <1>1, <1>19, <1>22 DEF Forgiving

LEMMA NextForgives ==
  ASSUME QueueInv, [Next]_vars
  PROVE  Forgiving(Hub', Hub) \/ \E d : Declines(d) /\ Pays(Hub', Hub, d)
<1> DEFINE Ok == Forgiving(Hub', Hub) \/ \E d : Declines(d) /\ Pays(Hub', Hub, d)
<1>1. CASE UNCHANGED vars
  BY <1>1, NoneLost DEF vars
<1>2. ASSUME NEW id \in Conns, Connection(id)
      PROVE  Ok
  <2>1. CASE OnConnect(id) \/ LeaveMatch(id) \/ \E r \in DOMAIN rooms : \E s \in DOMAIN rooms[r] : OnConnectWithToken(id, r, s)
    BY <2>1, ConnectionsStay, NoneLost
  <2>2. CASE OnDisconnect(id)
    BY <2>2, OnDisconnectPays DEF Declines
  <2>3. CASE Violate(id)
    BY <2>3, ViolatePays DEF Declines
  <2>4. ASSUME NEW key \in Accounts, Login(id, key)
        PROVE  Ok
    BY <2>4, LoginPays, Parameters DEF Declines
  <2>5. CASE Logout(id)
    BY <2>5, LogoutForgives
  <2> QED
    BY <1>2, <2>1, <2>2, <2>3, <2>4, <2>5 DEF Connection
<1>3. ASSUME NEW id \in DOMAIN clients, Message(id)
      PROVE  Ok
  <2>1. ASSUME NEW mode \in Modes, NEW wants \in Wants, JoinQueue(id, mode, wants)
        PROVE  Ok
    <3>1. DOMAIN checks \subseteq DOMAIN checks'
      BY <2>1, JoinQueueKeeps
    <3> QED
      BY <3>1 DEF Forgiving, Hub
  <2>2. CASE LeaveQueue(id)
    BY <2>2, LeaveQueuePays, NoneLost DEF Declines
  <2>3. CASE AcceptMatch(id)
    BY <2>3, AcceptMatchForgives
  <2>4. CASE PartyLeave(id)
    BY <2>4, PartiesOnly, NoneLost
  <2>5. ASSUME NEW key \in Accounts, NEW accept \in BOOLEAN,
               PartyInvite(id, key) \/ AnswerInvite(id, key, accept) \/ PartyKick(id, key) \/ PartyPromote(id, key)
        PROVE  Ok
    BY <2>5, PartiesOnly, NoneLost
  <2> QED
    BY <1>3, <2>1, <2>2, <2>3, <2>4, <2>5 DEF Message
<1>4. ASSUME NEW id \in DOMAIN clients, FillTimePasses(id)
      PROVE  Ok
  BY <1>4, ConnectionsStay, NoneLost
<1>5. ASSUME NEW over \in SUBSET DOMAIN rooms, NEW late \in SUBSET DOMAIN checks,
             NEW lapsed \in SUBSET Invites, Tick(over, late, lapsed)
      PROVE  Ok
  BY <1>5, TickForgives
<1> QED
  BY <1>1, <1>2, <1>3, <1>4, <1>5 DEF Next, AnyTick

LEMMA DecliningPays ==
  ASSUME QueueInv, NEW d \in DOMAIN clients, Declines(d)
  PROVE  Pays(Hub', Hub, d)
<1>1. CASE OnDisconnect(d)
  BY <1>1, OnDisconnectPays
<1>2. CASE LeaveQueue(d)
  BY <1>2, LeaveQueuePays
<1>3. CASE Violate(d)
  BY <1>3, ViolatePays
<1>4. CASE clients[d].account # NoAccount /\ Login(d, clients[d].account)
  <2>1. clients[d].account \in Accounts
    BY <1>4, HubIs DEF PlayInv, PlayTypes, Client
  <2> QED
    BY <1>4, <2>1, LoginPays
<1> QED
  BY <1>1, <1>2, <1>3, <1>4 DEF Declines

-----------------------------------------------------------------------------
(* The theorems.                                                           *)

LEMMA InitKeeps ==
  ASSUME Init
  PROVE  QueueInv
<1>1. PICK e : e = << >>
  OBVIOUS
<1>2. DOMAIN e = {} /\ \A S : e \in [DOMAIN e -> S]
  BY <1>1
<1>3. PICK h : h = Hub
  OBVIOUS
<1>4. h.clients = e /\ h.checks = e /\ h.rooms = e /\ h.parties = e /\ IsHub(h)
  BY <1>1, <1>3 DEF Init, Hub, IsHub
<1>5. PlayTypes(h) /\ CheckInv(h) /\ OneActivity(h, {}) /\ SeatsInv(h)
  <2>1. e = [r \in DOMAIN e |-> e[r]]
    BY ONLY <1>2
  <2> QED
    BY ONLY <1>2, <1>4, <2>1 DEF PlayTypes, CheckInv, OneActivity, SeatsInv
<1>6. WithinLimit(DOMAIN h.rooms, DOMAIN h.checks)
  <2>1. Cardinality({}) = 0
    BY FS_EmptySet
  <2>2. MaxMatches \in Nat /\ 0 + 0 <= MaxMatches
    BY Parameters
  <2> QED
    BY ONLY <1>2, <1>4, <2>1, <2>2 DEF WithinLimit
<1>7. AccountInv(h) /\ PartyInv(h, {}, {})
  BY ONLY <1>2, <1>4 DEF AccountInv, PartyInv, Disjoint
<1> QED
  BY ONLY <1>3, <1>5, <1>6, <1>7 DEF PlayInv, HubInv, QueueInv

LEMMA QuietInOrder ==
  ASSUME QueueInv, Quiet(Hub', Hub)
  PROVE  InOrder(Hub', DOMAIN checks)
<1>1. DOMAIN Hub.checks = DOMAIN checks
  BY DEF Hub
<1> QED
  BY <1>1 DEF Quiet, InOrder

LEMMA NextKeeps ==
  ASSUME QueueInv, [Next]_vars
  PROVE  QueueInv' /\ InOrder(Hub', DOMAIN checks)
<1> DEFINE Ordered == QueueInv' /\ InOrder(Hub', DOMAIN checks)
<1>1. CASE UNCHANGED vars
  <2>1. Hub' = Hub
    BY <1>1 DEF vars, Hub
  <2>2. Quiet(Hub', Hub)
    BY <2>1 DEF Quiet
  <2> QED
    BY <2>1, <2>2, QuietInOrder DEF QueueInv
<1>2. ASSUME NEW id \in Conns, Connection(id)
      PROVE  Ordered
  <2>1. CASE OnConnect(id)
    BY <2>1, OnConnectKeeps, QuietInOrder
  <2>2. ASSUME NEW r \in DOMAIN rooms, NEW s \in DOMAIN rooms[r], OnConnectWithToken(id, r, s)
        PROVE  Ordered
    BY <2>2, OnConnectWithTokenKeeps, QuietInOrder
  <2>3. CASE OnDisconnect(id)
    BY <2>3, OnDisconnectKeeps, QuietInOrder
  <2>4. CASE Violate(id)
    BY <2>4, ViolateKeeps, QuietInOrder
  <2>5. CASE LeaveMatch(id)
    BY <2>5, LeaveMatchKeeps, QuietInOrder
  <2>6. ASSUME NEW key \in Accounts, Login(id, key)
        PROVE  Ordered
    BY <2>6, LoginKeeps, QuietInOrder
  <2>7. CASE Logout(id)
    BY <2>7, LogoutKeeps, QuietInOrder
  <2> QED
    BY <1>2, <2>1, <2>2, <2>3, <2>4, <2>5, <2>6, <2>7 DEF Connection
<1>3. ASSUME NEW id \in DOMAIN clients, Message(id)
      PROVE  Ordered
  <2>1. ASSUME NEW mode \in Modes, NEW wants \in Wants, JoinQueue(id, mode, wants)
        PROVE  Ordered
    BY <2>1, JoinQueueKeeps
  <2>2. CASE LeaveQueue(id)
    BY <2>2, LeaveQueueKeeps, QuietInOrder
  <2>3. CASE AcceptMatch(id)
    BY <2>3, AcceptMatchKeeps, QuietInOrder
  <2>4. CASE PartyLeave(id)
    BY <2>4, PartyLeaveKeeps, QuietInOrder
  <2>5. ASSUME NEW key \in Accounts, PartyInvite(id, key)
        PROVE  Ordered
    BY <2>5, PartyInviteKeeps, QuietInOrder
  <2>6. ASSUME NEW key \in Accounts, NEW accept \in BOOLEAN, AnswerInvite(id, key, accept)
        PROVE  Ordered
    BY <2>6, AnswerInviteKeeps, QuietInOrder
  <2>7. ASSUME NEW key \in Accounts, PartyKick(id, key)
        PROVE  Ordered
    BY <2>7, PartyKickKeeps, QuietInOrder
  <2>8. ASSUME NEW key \in Accounts, PartyPromote(id, key)
        PROVE  Ordered
    BY <2>8, PartyPromoteKeeps, QuietInOrder
  <2> QED
    BY <1>3, <2>1, <2>2, <2>3, <2>4, <2>5, <2>6, <2>7, <2>8 DEF Message
<1>4. ASSUME NEW id \in DOMAIN clients, FillTimePasses(id)
      PROVE  Ordered
  BY <1>4, FillTimePassesKeeps, QuietInOrder
<1>5. ASSUME NEW over \in SUBSET DOMAIN rooms, NEW late \in SUBSET DOMAIN checks,
             NEW lapsed \in SUBSET Invites, Tick(over, late, lapsed)
      PROVE  Ordered
  BY <1>5, TickKeeps
<1> QED
  BY <1>1, <1>2, <1>3, <1>4, <1>5 DEF Next, AnyTick

\* Every call of the hub's handlers keeps its tables in agreement with each other, for any number of
\* connections, accounts, seats and matches (QueueServer.cpp, all handlers).
THEOREM QueueKept == Spec => []QueueInv
<1> QED
  BY InitKeeps, NextKeeps, PTL DEF Spec

\* The players of a check that a step opens, as FirstComeFirstServed has them.
OpensInOrder ==
  \A k \in DOMAIN checks' \ DOMAIN checks, id \in Searching' :
    LET players == checks'[k].players
        later == {p \in players : /\ clients'[p].mode = clients'[id].mode
                                  /\ clients'[p].order > clients'[id].order}
    IN later # {} => Cardinality(players \ later) + Cardinality(WaitsWith(id)') > Seats

LEMMA OpenedInOrder ==
  ASSUME InOrder(Hub', DOMAIN checks)
  PROVE  OpensInOrder
<1>1. PICK h : h = Hub'
  OBVIOUS
<1>2. h.clients = clients' /\ h.checks = checks'
  BY <1>1 DEF Hub
<1> SUFFICES ASSUME NEW k \in DOMAIN checks' \ DOMAIN checks, NEW id \in Searching',
                    NEW later, later = {p \in checks'[k].players : /\ clients'[p].mode = clients'[id].mode
                                                                   /\ clients'[p].order > clients'[id].order},
                    later # {}
             PROVE  Cardinality(checks'[k].players \ later) + Cardinality(WaitsWith(id)') > Seats
  BY DEF OpensInOrder
<1>3. id \in DOMAIN clients' /\ clients'[id].searching
  BY DEF Searching
<1>4. Served(h, checks'[k].players, id)
  BY <1>1, <1>2, <1>3 DEF InOrder
<1>5. later = LaterThan(h, checks'[k].players, id)
  BY <1>2 DEF LaterThan
<1>6. WaitsWith(id)' = Together(h, id)
  BY <1>2, <1>3 DEF WaitsWith, Together, Searching
<1> QED
  BY <1>4, <1>5, <1>6 DEF Served

\* Nobody is passed over: where a later player is in a new ready check and somebody of the same
\* mode goes on searching, that one's party did not fit beside the others (QueueServer::matchmake).
THEOREM FirstComeFirstServedKept == Spec => FirstComeFirstServed
<1>1. ASSUME QueueInv, [Next]_vars PROVE [OpensInOrder]_vars
  BY <1>1, NextKeeps, OpenedInOrder
<1> QED
  BY <1>1, QueueKept, PTL DEF Spec, FirstComeFirstServed, OpensInOrder

\* Who pays for the ready checks that end with a step, as PlaceKept has it.
PaidFairly ==
  \A k \in DOMAIN checks \ DOMAIN checks' :
    LET players == checks[k].players \cap DOMAIN clients'
        idle == {id \in players : ~ clients'[id].searching /\ TheMatchOf(id)' = {}}
    IN /\ \A id \in players : clients'[id].order \in {0, clients[id].order}
       /\ (\A id \in DOMAIN clients \cap DOMAIN clients' : clients'[id].account = clients[id].account) =>
            /\ \A d \in checks[k].players : idle \subseteq MatesOf(k, d) \/ ~ Declines(d)
            /\ \/ \A id \in idle : InCheckWith(k, id) \ checks[k].accepted # {}
               \/ \E d \in checks[k].players : Declines(d)

LEMMA ForgivenIsPaid ==
  ASSUME QueueInv, QueueInv', Forgiving(Hub', Hub) \/ \E d : Declines(d) /\ Pays(Hub', Hub, d)
  PROVE  PaidFairly
<1>1. PICK h, n : h = Hub /\ n = Hub'
  OBVIOUS
<1>2. h.clients = clients /\ h.checks = checks /\ n.clients = clients' /\ n.checks = checks' /\ n.rooms = rooms'
  BY <1>1 DEF Hub
<1> SUFFICES ASSUME NEW k \in DOMAIN checks \ DOMAIN checks'
             PROVE  LET players == checks[k].players \cap DOMAIN clients'
                        idle == {id \in players : ~ clients'[id].searching /\ TheMatchOf(id)' = {}}
                    IN /\ \A id \in players : clients'[id].order \in {0, clients[id].order}
                       /\ (\A id \in DOMAIN clients \cap DOMAIN clients' : clients'[id].account = clients[id].account) =>
                            /\ \A d \in checks[k].players : idle \subseteq MatesOf(k, d) \/ ~ Declines(d)
                            /\ \/ \A id \in idle : InCheckWith(k, id) \ checks[k].accepted # {}
                               \/ \E d \in checks[k].players : Declines(d)
  BY DEF PaidFairly
<1> DEFINE players == checks[k].players \cap DOMAIN clients'
           idle == {id \in players : ~ clients'[id].searching /\ TheMatchOf(id)' = {}}
           Same == \A id \in DOMAIN clients \cap DOMAIN clients' : clients'[id].account = clients[id].account
<1>3. Fair(n, h, k) \/ \E d : Declines(d) /\ PaysFor(n, h, k, d)
  BY <1>1, <1>2 DEF Forgiving, Pays
<1>4. checks[k].players \subseteq DOMAIN clients
  BY <1>2, HubIs DEF PlayInv, CheckInv
<1>5. idle \subseteq Idle(n, h, k)
  <2> SUFFICES ASSUME NEW x \in idle PROVE ~ Engaged(n, x)
    BY <1>2 DEF Idle
  <2>1. x \in DOMAIN n.clients /\ TheMatchOf(x)' = {}
    BY <1>2
  <2>2. n.clients[x].check = 0
    <3> SUFFICES ASSUME n.clients[x].check # 0 PROVE FALSE
      OBVIOUS
    <3>1. HubInv(n)
      BY <1>1 DEF QueueInv
    <3>2. x \in n.checks[n.clients[x].check].players
      BY <2>1, <3>1 DEF HubInv, PlayInv, CheckInv, OneActivity
    <3>3. TheMatchOf(x)' = n.checks[n.clients[x].check].players
      BY <1>2 DEF TheMatchOf
    <3> QED
      BY <2>1, <3>2, <3>3
  <2>3. n.clients[x].room = 0 \/ DOMAIN n.rooms[n.clients[x].room] = {}
    BY <1>2, <2>1, <2>2 DEF TheMatchOf
  <2> QED
    BY <2>2, <2>3 DEF Engaged
<1>6. \A id \in players : clients'[id].order \in {0, clients[id].order}
  BY <1>2, <1>3 DEF Fair, PaysFor, OldPlaces
<1>7. ASSUME Same PROVE ~ Changed(n, h)
  BY <1>2, <1>7 DEF Changed
<1>8. ASSUME Same, Unanswered(n, h, k), NEW x \in idle
      PROVE  InCheckWith(k, x) \ checks[k].accepted # {}
  <2>1. PICK w \in checks[k].players \ checks[k].accepted : w = x \/ Grouped(h, x, w)
    BY <1>2, <1>5, <1>8 DEF Unanswered
  <2>2. w \in InCheckWith(k, x)
    BY <1>2, <2>1 DEF InCheckWith, Grouped
  <2> QED
    BY <2>1, <2>2
<1>9. ASSUME Same, NEW d \in checks[k].players, Declines(d)
      PROVE  idle \subseteq MatesOf(k, d)
  <2>1. PaysFor(n, h, k, d)
    BY <1>1, <1>2, <1>4, <1>9, DecliningPays DEF Pays
  <2>2. \A x \in Idle(n, h, k) : Mate(h, d, x)
    BY <1>7, <1>9, <2>1 DEF PaysFor
  <2> SUFFICES ASSUME NEW x \in idle PROVE x \in MatesOf(k, d)
    OBVIOUS
  <2>3. Mate(h, d, x) /\ x \in checks[k].players
    BY <1>5, <2>2
  <2>4. PICK g : g = PartyOf(h, clients[d].account)
    OBVIOUS
  <2>5. PICK w \in DOMAIN clients : /\ w = d \/ (g # 0 /\ PartyOf(h, clients[w].account) = g)
                                    /\ x = w \/ Grouped(h, w, x)
    BY <1>2, <2>3, <2>4 DEF Mate
  <2>6. x = w \/ (clients[w].group # 0 /\ clients[x].group = clients[w].group)
    BY <1>2, <2>5 DEF Grouped
  <2> QED
    BY <1>1, <2>3, <2>4, <2>5, <2>6 DEF MatesOf
<1>10. ASSUME Same
       PROVE  \/ \A id \in idle : InCheckWith(k, id) \ checks[k].accepted # {}
              \/ \E d \in checks[k].players : Declines(d)
  <2>1. CASE Fair(n, h, k)
    BY <1>7, <1>8, <1>10, <2>1 DEF Fair
  <2>2. ASSUME NEW d, Declines(d), PaysFor(n, h, k, d)
        PROVE  d \in checks[k].players
    BY <1>2, <1>7, <1>10, <2>2 DEF PaysFor
  <2> QED
    BY <1>3, <2>1, <2>2
<1> QED
  BY <1>6, <1>9, <1>10

\* A ready check that fails costs only those their place who declined or did not accept in time,
\* and their party mates; whoever keeps a place keeps the old one (QueueServer::FailProposal).
THEOREM PlaceKeptAlways == Spec => PlaceKept
<1>1. ASSUME QueueInv, QueueInv', [Next]_vars PROVE [PaidFairly]_vars
  BY <1>1, NextForgives, ForgivenIsPaid
<1> QED
  BY <1>1, QueueKept, PTL DEF Spec, PlaceKept, PaidFairly

\* Every variable of the hub has its type.
THEOREM QueueTypes == Spec => []TypeOK
<1>1. ASSUME QueueInv PROVE TypeOK
  <2>1. /\ PlayTypes(Hub) /\ OneActivity(Hub, {}) /\ PartyInv(Hub, {}, {})
        /\ Hub.clients = clients /\ Hub.checks = checks /\ Hub.rooms = rooms /\ Hub.parties = parties
    BY <1>1, HubIs DEF PlayInv
  <2>2. /\ clients \in [DOMAIN clients -> Client] /\ DOMAIN clients \subseteq Conns
        /\ checks \in [DOMAIN checks -> Check] /\ DOMAIN checks \subseteq CheckIds
        /\ DOMAIN rooms \subseteq RoomIds
        /\ \A r \in DOMAIN rooms : rooms[r] \in [DOMAIN rooms[r] -> {0} \cup Conns] /\ DOMAIN rooms[r] \subseteq Conns
    BY <2>1 DEF PlayTypes
  <2>3. \A id \in DOMAIN clients : /\ clients[id] \in Client
                                   /\ clients[id].room \in {0} \cup DOMAIN rooms
                                   /\ clients[id].check \in {0} \cup DOMAIN checks
    BY <2>1, <2>2 DEF OneActivity
  <2>4. \A r \in DOMAIN rooms : rooms[r] \in UNION {[S -> {0} \cup Conns] : S \in SUBSET Conns}
    <3> SUFFICES ASSUME NEW r \in DOMAIN rooms
                 PROVE  \E S \in SUBSET Conns : rooms[r] \in [S -> {0} \cup Conns]
      OBVIOUS
    <3> QED
      BY <2>2
  <2>5. /\ DOMAIN parties \subseteq PartyIds
        /\ \A g \in DOMAIN parties : /\ parties[g].invited \subseteq Accounts
                                     /\ parties[g].members \in Seq(Accounts)
    BY <2>1 DEF PartyInv, Party
  <2> QED
    BY <2>2, <2>3, <2>4, <2>5 DEF TypeOK, Check
<1> QED
  BY QueueKept, <1>1, PTL

\* Whatever players, timers and lost connections do, a ready check and the players in it know of each
\* other: nobody waits for a check that is gone, no check for a player who is
\* (FailProposal, AcceptProposal: QueueServer.cpp).
THEOREM ReadyChecksAgreeKept == Spec => []ReadyChecksAgree
<1>1. ASSUME QueueInv PROVE ReadyChecksAgree
  <2>1. /\ CheckInv(Hub) /\ OneActivity(Hub, {}) /\ Hub.clients = clients /\ Hub.checks = checks
    BY <1>1, HubIs DEF PlayInv
  <2>2. \A k \in DOMAIN checks : /\ checks[k].players = {id \in DOMAIN clients : clients[id].check = k}
                                 /\ checks[k].accepted \subseteq checks[k].players
                                 /\ checks[k].accepted # checks[k].players
    BY <2>1 DEF CheckInv
  <2>3. \A id \in DOMAIN clients :
          /\ clients[id].check # 0 => ~ clients[id].searching /\ clients[id].room = 0
          /\ clients[id].closing => clients[id].check = 0
    BY <2>1 DEF OneActivity
  <2>4. ASSUME NEW k \in DOMAIN checks PROVE checks[k].players \ checks[k].accepted # {}
    <3>1. \A P, A : A \subseteq P /\ A # P => P \ A # {}
      OBVIOUS
    <3>2. checks[k].accepted \subseteq checks[k].players /\ checks[k].accepted # checks[k].players
      BY <2>2
    <3> QED
      BY ONLY <3>1, <3>2
  <2>5. \A k \in DOMAIN checks :
          /\ checks[k].players = {id \in DOMAIN clients : clients[id].check = k}
          /\ checks[k].players \ checks[k].accepted # {}
    BY ONLY <2>2, <2>4
  <2>6. \A id \in DOMAIN clients : clients[id].check # 0 =>
          ~ clients[id].searching /\ ~ clients[id].closing /\ clients[id].room = 0
    BY ONLY <2>3
  <2> QED
    BY ONLY <2>5, <2>6 DEF ReadyChecksAgree
<1> QED
  BY QueueKept, <1>1, PTL

\* An account is logged in on one connection at most, however logins, logouts and disconnects
\* interleave (the older connection is logged out: QueueServer.cpp).
THEOREM OneConnectionKept == Spec => []OneConnectionPerAccount
<1>1. ASSUME QueueInv PROVE OneConnectionPerAccount
  BY <1>1, HubIs DEF AccountInv, OneConnectionPerAccount
<1> QED
  BY QueueKept, <1>1, PTL

\* No two members of a party are the same.
LEMMA DistinctSize ==
  ASSUME NEW s \in Seq(Accounts), Distinct(s)
  PROVE  Cardinality(Range(s)) = Len(s)
<1> DEFINE S == 1 .. Len(s)
           T == Range(s)
           f == [i \in S |-> s[i]]
<1>1. Len(s) \in Nat /\ DOMAIN s = S /\ T = {s[i] : i \in S}
  BY SeqIs
<1>2. f \in [S -> T] /\ \A a, b \in S : f[a] = f[b] => a = b
  BY <1>1 DEF Distinct
<1>3. \A t \in T : \E i \in S : f[i] = t
  BY <1>1
<1> HIDE DEF f, T
<1>4. f \in Bijection(S, T)
  BY <1>2, <1>3, Fun_IsBij
<1>5. ExistsBijection(1 .. Len(s), T)
  BY <1>4 DEF ExistsBijection
<1> QED
  BY <1>1, <1>5, FS_CountingElements DEF T

\* A party is of accounts that are logged in, each in no other party; nobody is a member and invited;
\* no party outgrows a match or is left with one member and no invite (LeaveParty, TidyParty:
\* QueueServer.cpp).
THEOREM PartiesAgreeKept == Spec => []PartiesAgree
<1>1. ASSUME QueueInv PROVE PartiesAgree
  <2>1. PartyInv(Hub, {}, {}) /\ Hub.parties = parties /\ Hub.clients = clients
    BY <1>1, HubIs
  <2>2. ASSUME NEW g \in DOMAIN parties
        PROVE  LET p == parties[g] IN
               /\ \A k \in Range(p.members) : \E id \in DOMAIN clients : clients[id].account = k
               /\ \A other \in DOMAIN parties \ {g} : Range(p.members) \cap Range(parties[other].members) = {}
               /\ p.invited \cap Range(p.members) = {}
               /\ Len(p.members) = Cardinality(Range(p.members)) /\ Len(p.members) <= Seats
               /\ Len(p.members) > 1 \/ (Len(p.members) = 1 /\ p.invited # {})
    <3>1. PICK p : p = parties[g]
      OBVIOUS
    <3>2. PICK b : b = Hub
      OBVIOUS
    <3>3. PartyInv(b, {}, {}) /\ b.parties = parties /\ b.clients = clients /\ g \in DOMAIN b.parties
      BY <2>1, <3>2
    <3>4. /\ ~ Lingers(p) /\ p.members \in Seq(Accounts) /\ Distinct(p.members)
          /\ Len(p.members) <= Seats /\ Len(p.members) \in Nat
          /\ p.invited \cap Range(p.members) = {}
          /\ \A k \in Range(p.members) : k \in {} \/ Online(b, k)
          /\ \A o \in DOMAIN parties \ {g} : Range(p.members) \cap Range(parties[o].members) = {}
      BY ONLY <3>1, <3>3, OnePartyIs
    <3>5. Len(p.members) = Cardinality(Range(p.members)) /\ (Len(p.members) = 0 <=> p.members = << >>)
      BY ONLY <3>4, DistinctSize, SeqIs
    <3>6. Len(p.members) > 1 \/ (Len(p.members) = 1 /\ p.invited # {})
      BY ONLY <3>4, <3>5 DEF Lingers
    <3>7. \A k \in Range(p.members) : \E id \in DOMAIN clients : clients[id].account = k
      BY ONLY <3>3, <3>4 DEF Online
    <3> QED
      BY ONLY <3>1, <3>4, <3>5, <3>6, <3>7
  <2> QED
    BY <2>2 DEF PartiesAgree
<1> QED
  BY QueueKept, <1>1, PTL

\* There are never more matches and ready checks together than the server is told to run, and every
\* seat that is taken is the seat of a connection that knows its match (AtMatchLimit, OnDisconnect:
\* QueueServer.cpp).
THEOREM RoomsAgreeKept ==
  Spec => [](/\ Cardinality(DOMAIN rooms) + Cardinality(DOMAIN checks) <= MaxMatches
             /\ \A r \in DOMAIN rooms : \A s \in DOMAIN rooms[r] :
                  rooms[r][s] # 0 => rooms[r][s] \in DOMAIN clients /\ clients[rooms[r][s]].room = r)
<1> DEFINE RoomsAgree == /\ Cardinality(DOMAIN rooms) + Cardinality(DOMAIN checks) <= MaxMatches
                         /\ \A r \in DOMAIN rooms : \A s \in DOMAIN rooms[r] :
                              rooms[r][s] # 0 => rooms[r][s] \in DOMAIN clients /\ clients[rooms[r][s]].room = r
<1>1. ASSUME QueueInv PROVE RoomsAgree
  <2>1. /\ SeatsInv(Hub) /\ WithinLimit(DOMAIN rooms, DOMAIN checks)
        /\ Hub.clients = clients /\ Hub.rooms = rooms
    BY <1>1, HubIs DEF PlayInv
  <2> QED
    BY <2>1 DEF SeatsInv, WithinLimit
<1>2. QueueInv => RoomsAgree
  BY <1>1
<1> HIDE DEF RoomsAgree
<1>3. Spec => []RoomsAgree
  BY QueueKept, <1>2, PTL
<1> QED
  BY <1>3 DEF RoomsAgree

=============================================================================
