--------------------------- MODULE TransportProofs ---------------------------
(***************************************************************************)
(* Theorems about Transport, for any number of peers, any limits and any   *)
(* handler.  The state is a row for each peer (its connection, what it has *)
(* sent, what arrived and what the handler heard), and a step of the loop  *)
(* is made of functions on one connection; so the invariant is one of      *)
(* rows, and Later says what such a function may do to a connection.       *)
(***************************************************************************)
EXTENDS Transport, TLAPS, SequenceTheorems

-----------------------------------------------------------------------------
(* The invariant.                                                          *)

Words == {"frame", "close"}
Items == [kind : Kinds, n : Nat]
Calling == {"OnConnect", "OnMessage", "OnDisconnect"} \X Nat

Blank(state) == [NoConnection EXCEPT !.state = state]

Shut(c) == c.dead \/ c.state \in {"Closing", "Gone"}

\* One close frame, the last thing, if the connection is closing and has not written it; otherwise none.
Ends(c) ==
  IF c.state # "Closing" THEN (\A i \in 1 .. Len(c.out) : c.out[i] = "frame") /\ ~ c.halfClosed
  ELSE c.dead \/ IF c.halfClosed THEN c.out = << >>
                 ELSE c.out # << >> /\ \A i \in 1 .. Len(c.out) : c.out[i] = "close" <=> i = Len(c.out)

ConnOK(c) ==
  /\ c \in Connection /\ Ends(c)
  /\ c.state \in {"Away", "Gone"} => c = Blank(c.state)
  /\ c.state = "Handshake" => ~ c.announced /\ c.message = 0
  /\ c.state = "Open" => c.announced

Starts(item) == IF item.kind \in {"text", "first"} THEN 1 ELSE 0

\* The messages that begin in q are numbered on from n, up to m.
InOrder(q, n, m) ==
  /\ \A i \in 1 .. Len(q) : q[i].n = (IF i = 1 THEN n ELSE q[i - 1].n) + Starts(q[i])
  /\ m = IF q = << >> THEN n ELSE q[Len(q)].n

\* The messages of a peer whose beginning has been read.
Begun(c, h) == IF c.state # "Open" THEN 0 ELSE IF c.message # 0 THEN c.message ELSE Len(h) - 1

Told(h) == h # << >> /\ h[Len(h)][1] # "OnDisconnect"

\* c, q, m, h: the connection, what has arrived, the messages begun and what the handler heard.
RowOK(c, q, m, h) ==
  /\ ConnOK(c) /\ q \in Seq(Items) /\ m \in Nat /\ h \in Seq(Calling)
  /\ c.state \in {"Away", "Handshake"} => h = << >>
  /\ c.announced => Told(h)
  /\ c.state = "Open" /\ c.message # 0 => c.message = Len(h)
  /\ c.state \in {"Away", "Handshake", "Open"} => InOrder(q, Begun(c, h), m)

Limit(c) ==
  CASE c.state = "Handshake" -> HandshakeTimeout
    [] c.state = "Open"      -> IdleTimeout
    [] OTHER                 -> CloseGrace

Rows(cs, qs, ps, hs) ==
  /\ cs \in [Peers -> Connection] /\ qs \in [Peers -> Seq(Items)]
  /\ ps \in [Peers -> [asked : BOOLEAN, begun : Nat, sent : Nat]] /\ hs \in [Peers -> Seq(Calling)]
  /\ \A p \in Peers : RowOK(cs[p], qs[p], ps[p].begun, hs[p])

InTime(cs, slack) == \A p \in Peers : cs[p].age <= slack + Limit(cs[p])

LoopInv ==
  /\ step \in {"Idle", "Reading", "Stopped"} /\ elapsed \in {0, 1}
  /\ ready \subseteq Peers /\ turn \in ready \cup {Nobody}
  /\ step # "Reading" => ready = {}
  /\ \A p \in ready : p \in Live(conn) /\ inbox[p] # << >>

TransportInv ==
  /\ Rows(conn, inbox, peer, heard) /\ LoopInv
  /\ InTime(conn, IF step = "Reading" THEN 1 ELSE 0)

-----------------------------------------------------------------------------
(* What is done to one connection.                                         *)

\* What the loop and the handler may make of a connection before it is reaped.
Later(c, d) ==
  /\ ConnOK(d) /\ d.announced = c.announced
  /\ Shut(c) => Shut(d)
  /\ d.state = c.state \/ (c.state = "Open" /\ d.state = "Closing")
  /\ d.state = "Open" => d.message = c.message
  /\ d.age <= c.age /\ (d.state # c.state => d.age = 0)

Timeouts == HandshakeTimeout \in Nat /\ IdleTimeout \in Nat /\ CloseGrace \in Nat

LEMMA Parameters == Timeouts /\ MaxOutbound \in Nat \ {0}
BY TransportAssumption DEF TransportAssumption, Timeouts

LEMMA LaterSelf ==
  ASSUME NEW c, ConnOK(c)
  PROVE  Later(c, c)
<1>1. c.age \in Nat
  BY DEF ConnOK, Connection
<1> QED
  BY <1>1 DEF Later

LEMMA LaterTwice ==
  ASSUME NEW c, NEW d, NEW e, ConnOK(c), Later(c, d), Later(d, e)
  PROVE  Later(c, e)
<1>1. c.age \in Nat /\ d.age \in Nat /\ e.age \in Nat
  BY DEF ConnOK, Connection, Later
<1> QED
  BY <1>1 DEF Later

LEMMA FieldsAre ==
  ASSUME NEW c, c \in Connection
  PROVE  /\ c.out \in Seq(Words) /\ c.half \in BOOLEAN /\ c.message \in Nat /\ c.announced \in BOOLEAN
         /\ c.halfClosed \in BOOLEAN /\ c.dead \in BOOLEAN /\ c.age \in Nat
         /\ c.state \in {"Away", "Handshake", "Open", "Closing", "Gone"}
BY DEF Connection, Words

\* A close frame put behind the frames that wait.
LEMMA BeginCloseIs ==
  ASSUME NEW c, c \in Connection, \A i \in 1 .. Len(c.out) : c.out[i] = "frame", ~ c.halfClosed,
         NEW d, d = BeginClose(c)
  PROVE  /\ ConnOK(d) /\ d.state = "Closing" /\ d.age = 0 /\ d.message = 0
         /\ d.announced = c.announced /\ d.dead = c.dead
<1>1. PICK out : out = Append(c.out, "close")
  OBVIOUS
<1>2. /\ d \in Connection /\ d.out = out /\ d.state = "Closing" /\ d.age = 0 /\ d.message = 0
      /\ d.announced = c.announced /\ d.halfClosed = c.halfClosed /\ d.dead = c.dead
  <2>1. out \in Seq(Words)
    BY <1>1, FieldsAre DEF Words
  <2>2. d = [c EXCEPT !.out = out, !.state = "Closing", !.age = 0, !.message = 0]
    BY <1>1 DEF BeginClose
  <2>3. d = [state |-> "Closing", out |-> out, half |-> c.half, message |-> 0, announced |-> c.announced,
             halfClosed |-> c.halfClosed, dead |-> c.dead, age |-> 0]
    BY <2>2 DEF Connection
  <2>4. d \in Connection
    BY <2>1, <2>3, FieldsAre DEF Connection, Words
  <2> QED
    BY <2>3, <2>4
<1>3. /\ Len(out) = Len(c.out) + 1 /\ out # << >> /\ Len(c.out) \in Nat
      /\ \A i \in 1 .. Len(out) : out[i] = IF i = Len(out) THEN "close" ELSE c.out[i]
  BY <1>1, FieldsAre
<1>4. Ends(d)
  BY <1>2, <1>3 DEF Ends
<1> QED
  BY <1>2, <1>4 DEF ConnOK

\* One more frame for an open connection.
LEMMA FrameIs ==
  ASSUME NEW c, ConnOK(c), c.state = "Open", NEW d, d = [c EXCEPT !.out = Append(@, "frame")]
  PROVE  Later(c, d) /\ d.dead = c.dead /\ d.message = c.message /\ d.state = "Open"
<1>1. PICK out : out = Append(c.out, "frame")
  OBVIOUS
<1>2. c \in Connection
  BY DEF ConnOK
<1>3. out \in Seq(Words)
  BY <1>1, <1>2, FieldsAre DEF Words
<1>4. d = [c EXCEPT !.out = out]
  BY <1>1
<1>5. /\ d \in Connection /\ d.out = out /\ d.state = c.state /\ d.age = c.age /\ d.message = c.message
      /\ d.announced = c.announced /\ d.halfClosed = c.halfClosed /\ d.dead = c.dead
  BY <1>2, <1>3, <1>4 DEF Connection, Words
<1>6. \A i \in 1 .. Len(out) : out[i] = "frame"
  <2>1. Len(out) = Len(c.out) + 1 /\ Len(c.out) \in Nat /\ \A i \in 1 .. Len(out) : out[i] = IF i = Len(out) THEN "frame" ELSE c.out[i]
    BY <1>1, <1>2, FieldsAre
  <2> QED
    BY <2>1 DEF ConnOK, Ends
<1>7. ConnOK(d)
  BY <1>5, <1>6 DEF ConnOK, Ends
<1>8. c.age \in Nat
  BY <1>2, FieldsAre
<1> QED
  BY <1>5, <1>7, <1>8 DEF Later, Shut

LEMMA OpenHolds ==
  ASSUME NEW c, ConnOK(c), c.state \in {"Open", "Handshake"}
  PROVE  c \in Connection /\ (\A i \in 1 .. Len(c.out) : c.out[i] = "frame") /\ ~ c.halfClosed
BY DEF ConnOK, Ends

\* An open connection is closed.
LEMMA BeginCloseLater ==
  ASSUME NEW c, ConnOK(c), c.state = "Open", NEW d, d = BeginClose(c)
  PROVE  Later(c, d) /\ d.state = "Closing"
<1>1. /\ ConnOK(d) /\ d.state = "Closing" /\ d.age = 0 /\ d.announced = c.announced /\ d.dead = c.dead
  BY OpenHolds, BeginCloseIs
<1>2. c.age \in Nat
  BY FieldsAre DEF ConnOK
<1> QED
  BY <1>1, <1>2 DEF Later, Shut

\* A broken connection keeps what it was.
LEMMA DeadLater ==
  ASSUME NEW c, ConnOK(c), c.state \in {"Handshake", "Open", "Closing"}, NEW v \in BOOLEAN, c.dead => v,
         NEW d, d = [c EXCEPT !.dead = v]
  PROVE  Later(c, d) /\ d.dead = v /\ d.state = c.state /\ d.age = c.age
<1>1. c \in Connection /\ c.age \in Nat
  BY FieldsAre DEF ConnOK
<1>2. /\ d \in Connection /\ d.out = c.out /\ d.state = c.state /\ d.age = c.age /\ d.message = c.message
      /\ d.announced = c.announced /\ d.halfClosed = c.halfClosed /\ d.dead = v
  BY <1>1 DEF Connection
<1>3. ConnOK(d)
  BY <1>2 DEF ConnOK, Ends
<1> QED
  BY <1>1, <1>2, <1>3 DEF Later, Shut

\* The handler sends to a connection.
LEMMA SentLater ==
  ASSUME NEW c, ConnOK(c), NEW d, d = Sent(c)
  PROVE  Later(c, d)
<1>1. CASE c.state # "Open" \/ c.dead
  BY <1>1, LaterSelf DEF Sent
<1>2. CASE c.state = "Open" /\ ~ c.dead /\ Len(c.out) >= MaxOutbound
  <2>1. PICK e : e = [c EXCEPT !.out = << >>, !.half = FALSE]
    OBVIOUS
  <2>2. c \in Connection /\ c.age \in Nat /\ ~ c.halfClosed
    BY <1>2, OpenHolds, FieldsAre
  <2>3. PICK no, none : no = FALSE /\ none = << >>
    OBVIOUS
  <2>4. /\ e \in Connection /\ Len(e.out) = 0 /\ e.halfClosed = c.halfClosed /\ e.announced = c.announced /\ e.dead = c.dead
    <3>1. e = [c EXCEPT !.out = none, !.half = no]
      BY <2>1, <2>3
    <3>2. no \in BOOLEAN /\ none \in Seq(Words)
      BY <2>3, EmptySeq
    <3>3. e \in Connection /\ e.out = none /\ e.halfClosed = c.halfClosed /\ e.announced = c.announced /\ e.dead = c.dead
      BY ONLY <2>2, <3>1, <3>2 DEF Connection, Words
    <3> QED
      BY <2>3, <3>3
  <2>5. d = BeginClose(e)
    BY <1>2, <2>1 DEF Sent
  <2>6. /\ ConnOK(d) /\ d.state = "Closing" /\ d.age = 0 /\ d.announced = c.announced /\ d.dead = c.dead
    BY <2>2, <2>4, <2>5, BeginCloseIs
  <2> QED
    BY <1>2, <2>2, <2>6 DEF Later, Shut
<1>3. CASE c.state = "Open" /\ ~ c.dead /\ ~ Len(c.out) >= MaxOutbound
  BY <1>3, FrameIs DEF Sent
<1> QED
  BY <1>1, <1>2, <1>3

\* The handler closes a connection.
LEMMA ClosedLater ==
  ASSUME NEW c, ConnOK(c), NEW d, d = Closed(c)
  PROVE  Later(c, d)
<1>1. CASE c.state = "Open"
  BY <1>1, BeginCloseLater DEF Closed
<1>2. CASE c.state = "Handshake"
  <2>1. PICK yes : yes = TRUE
    OBVIOUS
  <2>2. d = [c EXCEPT !.dead = yes]
    BY <1>2, <2>1 DEF Closed
  <2> QED
    BY <1>2, <2>1, <2>2, DeadLater
<1>3. CASE c.state \notin {"Open", "Handshake"}
  BY <1>3, LaterSelf DEF Closed
<1> QED
  BY <1>1, <1>2, <1>3

\* A call of the handler only makes connections later.
LEMMA ReactionsLater ==
  ASSUME NEW cs, \A p \in Peers : ConnOK(cs[p]), NEW ds, ds \in Reactions(cs)
  PROVE  /\ ds = [p \in Peers |-> ds[p]]
         /\ \A p \in Peers : Later(cs[p], ds[p])
<1>1. PICK S \in SUBSET Live(cs), C \in SUBSET Live(cs) :
        ds = [p \in Peers |-> IF p \in C THEN Closed(IF p \in S THEN Sent(cs[p]) ELSE cs[p])
                              ELSE IF p \in S THEN Sent(cs[p]) ELSE cs[p]]
  BY DEF Reactions
<1>2. ASSUME NEW p \in Peers PROVE Later(cs[p], ds[p])
  <2>1. PICK c : c = cs[p]
    OBVIOUS
  <2>2. PICK e : e = IF p \in S THEN Sent(c) ELSE c
    OBVIOUS
  <2>3. ds[p] = IF p \in C THEN Closed(e) ELSE e
    BY <1>1, <2>1, <2>2
  <2>4. ConnOK(c)
    BY <2>1
  <2>5. Later(c, e)
    BY ONLY <2>2, <2>4, SentLater, LaterSelf
  <2>6. ConnOK(e)
    BY <2>5 DEF Later
  <2>7. Later(e, ds[p])
    BY ONLY <2>3, <2>6, ClosedLater, LaterSelf
  <2> QED
    BY ONLY <2>1, <2>4, <2>5, <2>7, LaterTwice
<1> QED
  BY <1>1, <1>2

\* t is what waits behind k frames of s.
IsRest(t, s, k) ==
  /\ t \in Seq(Words) /\ Len(t) = Len(s) - k
  /\ \A i \in 1 .. Len(t) : t[i] = s[i + k] /\ i + k \in 1 .. Len(s)
  /\ t = << >> <=> k = Len(s)

LEMMA RestIs ==
  ASSUME NEW s \in Seq(Words), NEW k \in 0 .. Len(s), NEW t, t = SubSeq(s, k + 1, Len(s))
  PROVE  IsRest(t, s, k)
<1>1. Len(s) \in Nat
  OBVIOUS
<1>2. /\ t \in Seq(Words) /\ Len(t) = Len(s) - k
      /\ \A i \in 1 .. Len(t) : t[i] = s[i + k]
  BY <1>1
<1>3. \A i \in 1 .. Len(t) : i + k \in 1 .. Len(s)
  BY ONLY <1>1, <1>2, k \in 0 .. Len(s)
<1>4. Len(t) = 0 <=> k = Len(s)
  BY ONLY <1>1, <1>2, k \in 0 .. Len(s)
<1>5. Len(t) = 0 <=> t = << >>
  BY ONLY <1>2, EmptySeq
<1> QED
  BY ONLY <1>2, <1>3, <1>4, <1>5 DEF IsRest

\* Writing stops anywhere, or fails.
LEMMA FlushedLater ==
  ASSUME NEW c, ConnOK(c), NEW d, d \in Flushed(c)
  PROVE  Later(c, d) /\ d.age = c.age /\ d.state = c.state
<1>1. c \in Connection /\ c.age \in Nat /\ c.out \in Seq(Words) /\ Len(c.out) \in Nat
  BY FieldsAre DEF ConnOK
<1>2. CASE c.dead
  BY <1>2, LaterSelf DEF Flushed
<1>3. CASE ~ c.dead /\ c.out # << >> /\ d = [c EXCEPT !.dead = TRUE]
  <2>1. PICK yes : yes = TRUE
    OBVIOUS
  <2>2. d = [c EXCEPT !.dead = yes] /\ yes \in BOOLEAN
    BY <1>3, <2>1
  <2>3. c.state \notin {"Away", "Gone"}
    BY <1>3 DEF ConnOK, Blank, NoConnection
  <2>4. c.state \in {"Handshake", "Open", "Closing"}
    BY <1>1, <2>3, FieldsAre
  <2> QED
    BY <2>1, <2>2, <2>4, DeadLater
<1>4. ASSUME ~ c.dead, NEW w \in Written(c),
             d = HalfClosed([c EXCEPT !.out = SubSeq(@, w[1] + 1, Len(@)), !.half = w[2]])
      PROVE  Later(c, d) /\ d.age = c.age /\ d.state = c.state
  <2>1. PICK k, h : k = w[1] /\ h = w[2]
    OBVIOUS
  <2>2. k \in 0 .. Len(c.out) /\ h \in BOOLEAN /\ (h => k < Len(c.out))
    BY <2>1 DEF Written
  <2>3. PICK out : out = SubSeq(c.out, k + 1, Len(c.out))
    OBVIOUS
  <2>4. /\ out \in Seq(Words) /\ Len(out) = Len(c.out) - k
        /\ \A i \in 1 .. Len(out) : out[i] = c.out[i + k] /\ i + k \in 1 .. Len(c.out)
        /\ out = << >> <=> k = Len(c.out)
    <3>1. PICK s : s = c.out
      OBVIOUS
    <3>2. s \in Seq(Words) /\ k \in 0 .. Len(s) /\ out = SubSeq(s, k + 1, Len(s))
      BY ONLY <1>1, <2>2, <2>3, <3>1
    <3>3. IsRest(out, s, k)
      BY ONLY <3>2, RestIs
    <3> QED
      BY ONLY <3>1, <3>3 DEF IsRest
  <2>5. PICK e : e = [c EXCEPT !.out = out, !.half = h]
    OBVIOUS
  <2>6. /\ e \in Connection /\ e.out = out /\ e.half = h /\ e.state = c.state /\ e.message = c.message
        /\ e.announced = c.announced /\ e.halfClosed = c.halfClosed /\ e.dead = c.dead /\ e.age = c.age
    BY ONLY <1>1, <2>2, <2>4, <2>5 DEF Connection, Words
  <2>7. d = HalfClosed(e)
    BY <1>4, <2>1, <2>3, <2>5
  <2>8. CASE c.state \in {"Away", "Gone"}
    <3>1. c = Blank(c.state) /\ c.out = << >> /\ c.half = FALSE
      BY <2>8 DEF ConnOK, Blank, NoConnection
    <3>2. Len(c.out) = 0
      BY <3>1
    <3>3. k = 0 /\ h = FALSE
      BY ONLY <2>2, <3>2
    <3>4. out = << >>
      BY ONLY <2>4, <3>2, <3>3
    <3>5. e = c
      BY ONLY <1>1, <2>5, <3>1, <3>3, <3>4 DEF Connection
    <3>6. d = c
      BY <2>7, <2>8, <3>5 DEF HalfClosed
    <3> QED
      BY <3>6, LaterSelf
  <2>9. CASE c.state \in {"Handshake", "Open"}
    <3>1. d = e
      BY <2>6, <2>7, <2>9 DEF HalfClosed
    <3>2. Ends(e)
      BY <2>4, <2>6, <2>9, OpenHolds DEF Ends
    <3>3. ConnOK(e)
      BY <2>6, <2>9, <3>2 DEF ConnOK
    <3> QED
      BY <1>1, <2>6, <3>1, <3>3 DEF Later, Shut
  <2>10. CASE c.state = "Closing" /\ out = << >>
    <3>1. d = [e EXCEPT !.halfClosed = TRUE]
      BY <2>6, <2>7, <2>10 DEF HalfClosed
    <3>2. PICK yes : yes = TRUE
      OBVIOUS
    <3>3. yes \in BOOLEAN /\ d = [e EXCEPT !.halfClosed = yes]
      BY <3>1, <3>2
    <3>4. /\ d \in Connection /\ d.out = out /\ d.state = c.state /\ d.announced = c.announced
          /\ d.halfClosed = yes /\ d.dead = c.dead /\ d.age = c.age
      BY ONLY <2>6, <3>3 DEF Connection
    <3>5. ConnOK(d)
      BY <2>10, <3>2, <3>4 DEF ConnOK, Ends
    <3> QED
      BY <1>1, <2>10, <3>4, <3>5 DEF Later, Shut
  <2>11. CASE c.state = "Closing" /\ out # << >>
    <3>1. d = e
      BY <2>6, <2>7, <2>11 DEF HalfClosed
    <3>2. ~ c.halfClosed /\ \A i \in 1 .. Len(c.out) : c.out[i] = "close" <=> i = Len(c.out)
      <4>1. c.out # << >>
        BY <1>1, <2>2, <2>4, <2>11
      <4> QED
        BY <1>4, <2>11, <4>1 DEF ConnOK, Ends
    <3>3. \A i \in 1 .. Len(out) : out[i] = "close" <=> i = Len(out)
      BY <1>1, <2>2, <2>4, <3>2
    <3>4. Ends(e)
      BY <2>6, <2>11, <3>2, <3>3 DEF Ends
    <3>5. ConnOK(e)
      BY <2>6, <2>11, <3>4 DEF ConnOK
    <3> QED
      BY <1>1, <2>6, <2>11, <3>1, <3>5 DEF Later, Shut
  <2> QED
    BY <1>1, <2>8, <2>9, <2>10, <2>11, FieldsAre
<1> QED
  BY <1>2, <1>3, <1>4 DEF Flushed

\* A connection whose time is up is closed or broken; one that is left has time.
HasTime(c) == c.dead \/ c.age <= Limit(c)

LEMMA TimedLater ==
  ASSUME NEW c, ConnOK(c), NEW ping, NEW d, d = Timed(c, ping)
  PROVE  Later(c, d) /\ HasTime(d)
<1>1. c \in Connection /\ c.age \in Nat /\ Timeouts
  BY FieldsAre, Parameters DEF ConnOK
<1>2. CASE c.dead
  BY <1>2, LaterSelf DEF Timed, HasTime
<1>3. CASE ~ c.dead /\ c.state = "Handshake"
  <2>1. PICK v : v = (c.age > HandshakeTimeout)
    OBVIOUS
  <2>2. v \in BOOLEAN /\ d = [c EXCEPT !.dead = v]
    BY <1>1, <1>3, <2>1 DEF Timed
  <2>3. Later(c, d) /\ d.dead = v /\ d.state = "Handshake" /\ d.age = c.age
    BY ONLY <1>3, <2>2, DeadLater, ConnOK(c)
  <2>4. v \/ ~ c.age > HandshakeTimeout
    BY ONLY <2>1
  <2>5. v \/ c.age <= HandshakeTimeout
    BY ONLY <1>1, <2>4 DEF Timeouts
  <2> QED
    BY ONLY <2>3, <2>5 DEF HasTime, Limit
<1>4. CASE ~ c.dead /\ c.state = "Open"
  <2>1. CASE c.age > IdleTimeout
    <3>1. d = BeginClose(c)
      BY <1>4, <2>1 DEF Timed
    <3>2. Later(c, d) /\ d.state = "Closing"
      BY <1>4, <3>1, BeginCloseLater
    <3>3. d.age = 0
      BY <1>4, <3>2 DEF Later
    <3> QED
      BY <1>1, <3>2, <3>3 DEF HasTime, Limit, Timeouts
  <2>2. CASE ~ c.age > IdleTimeout
    <3>1. Later(c, d) /\ d.state = "Open"
      BY <1>4, <2>2, FrameIs, LaterSelf DEF Timed
    <3>2. d.age <= c.age /\ d.age \in Nat
      BY <3>1, FieldsAre DEF Later, ConnOK
    <3> QED
      BY <1>1, <2>2, <3>1, <3>2 DEF HasTime, Limit, Timeouts
  <2> QED
    BY <2>1, <2>2
<1>5. CASE ~ c.dead /\ c.state = "Closing"
  <2>1. PICK v : v = (c.age >= CloseGrace)
    OBVIOUS
  <2>2. v \in BOOLEAN /\ d = [c EXCEPT !.dead = v]
    BY <1>1, <1>5, <2>1 DEF Timed
  <2>3. Later(c, d) /\ d.dead = v /\ d.state = "Closing" /\ d.age = c.age
    BY ONLY <1>5, <2>2, DeadLater, ConnOK(c)
  <2>4. v \/ ~ c.age >= CloseGrace
    BY ONLY <2>1
  <2>5. v \/ c.age <= CloseGrace
    BY ONLY <1>1, <2>4 DEF Timeouts
  <2> QED
    BY ONLY <2>3, <2>5 DEF HasTime, Limit
<1>6. CASE ~ c.dead /\ c.state \in {"Away", "Gone"}
  <2>1. d = c
    BY <1>6 DEF Timed
  <2>2. c.age = 0
    BY <1>6 DEF ConnOK, Blank, NoConnection
  <2> QED
    BY <1>1, <1>6, <2>1, <2>2, LaterSelf DEF HasTime, Limit, Timeouts
<1> QED
  BY <1>1, <1>2, <1>3, <1>4, <1>5, <1>6, FieldsAre

\* The writing and the timers that end a pass.
LEMMA ServedLater ==
  ASSUME NEW c, ConnOK(c), NEW d, d \in Served(c)
  PROVE  Later(c, d) /\ HasTime(d)
<1>1. PICK w \in Flushed(c) : d \in UNION {Flushed(Timed(w, p)) : p \in {FALSE, Len(w.out) < MaxQueue}}
  BY DEF Served
<1>2. PICK ping \in {FALSE, Len(w.out) < MaxQueue} : d \in Flushed(Timed(w, ping))
  BY <1>1
<1>3. Later(c, w) /\ ConnOK(w)
  BY <1>1, FlushedLater DEF Later
<1>4. PICK t : t = Timed(w, ping)
  OBVIOUS
<1>5. Later(w, t) /\ HasTime(t) /\ ConnOK(t)
  BY <1>3, <1>4, TimedLater DEF Later
<1>6. Later(t, d) /\ d.age = t.age /\ d.state = t.state
  BY <1>2, <1>4, <1>5, FlushedLater
<1>7. t.dead => d.dead
  <2>1. CASE t.dead
    <3>1. d = t
      BY <1>2, <1>4, <2>1 DEF Flushed
    <3> QED
      BY <3>1
  <2> QED
    BY <2>1
<1>8. HasTime(d)
  BY ONLY <1>5, <1>6, <1>7 DEF HasTime, Limit
<1>9. Later(c, t)
  BY ONLY <1>3, <1>5, LaterTwice, ConnOK(c)
<1> QED
  BY ONLY <1>6, <1>8, <1>9, LaterTwice, ConnOK(c)

\* One outcome of each peer's.
LEMMA OneOfEachIs ==
  ASSUME NEW S, NEW cs, cs \in OneOfEach(S)
  PROVE  cs = [p \in Peers |-> cs[p]] /\ \A p \in Peers : cs[p] \in S[p]
<1> DEFINE pairs == UNION {{p} \X S[p] : p \in Peers}
<1>1. cs \in [Peers -> {t[2] : t \in pairs}] /\ \A p \in Peers : <<p, cs[p]>> \in pairs
  BY DEF OneOfEach
<1>2. ASSUME NEW p \in Peers PROVE cs[p] \in S[p]
  <2>1. PICK o \in Peers : <<p, cs[p]>> \in {o} \X S[o]
    BY <1>1
  <2>2. p = o /\ cs[p] \in S[o]
    BY <2>1
  <2> QED
    BY <2>2
<1>3. cs = [p \in Peers |-> cs[p]]
  BY <1>1
<1> QED
  BY <1>2, <1>3

-----------------------------------------------------------------------------
(* What has arrived.                                                       *)

LEMMA AppendedInOrder ==
  ASSUME NEW q \in Seq(Items), NEW n \in Nat, NEW m \in Nat, InOrder(q, n, m),
         NEW item \in Items, item.n = m + Starts(item), NEW r, r = Append(q, item)
  PROVE  r \in Seq(Items) /\ InOrder(r, n, item.n)
<1>1. /\ r \in Seq(Items) /\ Len(q) \in Nat /\ Len(r) = Len(q) + 1 /\ r # << >>
      /\ \A i \in 1 .. Len(r) : r[i] = IF i = Len(r) THEN item ELSE q[i]
  OBVIOUS
<1>2. q = << >> <=> Len(q) = 0
  BY EmptySeq
<1>3. m = IF Len(r) = 1 THEN n ELSE r[Len(r) - 1].n
  BY <1>1, <1>2 DEF InOrder
<1>4. ASSUME NEW i \in 1 .. Len(r)
      PROVE  r[i].n = (IF i = 1 THEN n ELSE r[i - 1].n) + Starts(r[i])
  <2>1. CASE i = Len(r)
    BY <1>1, <1>3, <2>1
  <2>2. CASE i # Len(r)
    <3>1. i \in 1 .. Len(q) /\ r[i] = q[i] /\ (i # 1 => r[i - 1] = q[i - 1])
      BY <1>1, <2>2
    <3> QED
      BY <3>1 DEF InOrder
  <2> QED
    BY <2>1, <2>2
<1> QED
  BY <1>1, <1>4 DEF InOrder

LEMMA TailInOrder ==
  ASSUME NEW q \in Seq(Items), q # << >>, NEW n \in Nat, NEW m \in Nat, InOrder(q, n, m)
  PROVE  /\ Head(q) \in Items /\ Tail(q) \in Seq(Items)
         /\ Head(q).n = n + Starts(Head(q)) /\ InOrder(Tail(q), Head(q).n, m)
<1>1. PICK r : r = Tail(q)
  OBVIOUS
<1>2. /\ Len(q) \in Nat /\ Len(q) > 0 /\ Head(q) = q[1] /\ q[1] \in Items /\ r \in Seq(Items) /\ Len(r) = Len(q) - 1
      /\ \A i \in 1 .. Len(r) : r[i] = q[i + 1]
  <2>1. Len(q) \in Nat \ {0}
    BY EmptySeq
  <2> QED
    BY <1>1, <2>1
<1>3. r = << >> <=> Len(r) = 0
  BY <1>2, EmptySeq
<1>4. q[1].n = n + Starts(q[1])
  BY <1>2 DEF InOrder
<1>5. ASSUME NEW i \in 1 .. Len(r)
      PROVE  r[i].n = (IF i = 1 THEN q[1].n ELSE r[i - 1].n) + Starts(r[i])
  <2>1. q[i + 1].n = q[i].n + Starts(q[i + 1])
    <3>1. PICK j : j = i + 1
      OBVIOUS
    <3>2. j \in 1 .. Len(q) /\ j # 1 /\ j - 1 = i
      BY <1>2, <3>1
    <3>3. q[j].n = q[j - 1].n + Starts(q[j])
      BY <3>2 DEF InOrder
    <3> QED
      BY <3>1, <3>2, <3>3
  <2>2. i # 1 => r[i - 1] = q[i]
    BY <1>2
  <2> QED
    BY <1>2, <2>1, <2>2
<1>6. m = IF r = << >> THEN q[1].n ELSE r[Len(r)].n
  BY <1>2, <1>3 DEF InOrder
<1>7. InOrder(r, q[1].n, m)
  BY <1>5, <1>6 DEF InOrder
<1> QED
  BY <1>1, <1>2, <1>4, <1>7

-----------------------------------------------------------------------------
(* A row of the state.                                                     *)

\* What the handler does to a connection, the writing and the timers keep its row.
LEMMA RowLater ==
  ASSUME NEW c, NEW q, NEW m, NEW h, RowOK(c, q, m, h), NEW d, Later(c, d)
  PROVE  RowOK(d, q, m, h)
<1>1. d.state \in {"Away", "Handshake", "Open"} => d.state = c.state /\ Begun(d, h) = Begun(c, h)
  BY DEF Later, Begun
<1> QED
  BY <1>1 DEF RowOK, Later

LEMMA LimitLater ==
  ASSUME NEW c, ConnOK(c), NEW d, Later(c, d), NEW slack \in Nat, c.age <= slack + Limit(c)
  PROVE  d.age <= slack + Limit(d)
<1>1. c.age \in Nat /\ d.age \in Nat /\ Timeouts
  BY FieldsAre, Parameters DEF ConnOK, Later
<1>2. CASE d.state = c.state
  <2>1. Limit(d) = Limit(c) /\ d.age <= c.age
    BY <1>2 DEF Later, Limit
  <2>2. Limit(c) \in Nat
    BY <1>1 DEF Limit, Timeouts
  <2> QED
    BY <1>1, <2>1, <2>2
<1>3. CASE d.state # c.state
  <2>1. d.age = 0 /\ Limit(d) = CloseGrace
    BY <1>3 DEF Later, Limit
  <2> QED
    BY <1>1, <2>1 DEF Timeouts
<1> QED
  BY <1>2, <1>3

\* The same for all of them.
LEMMA RowsLater ==
  ASSUME NEW cs, NEW qs, NEW ps, NEW hs, Rows(cs, qs, ps, hs), NEW slack \in Nat, InTime(cs, slack),
         NEW ds, ds = [p \in Peers |-> ds[p]], \A p \in Peers : Later(cs[p], ds[p])
  PROVE  /\ Rows(ds, qs, ps, hs) /\ InTime(ds, slack) /\ Live(ds) = Live(cs)
         /\ \A p \in Peers : Shut(cs[p]) => Shut(ds[p])
<1>1. ASSUME NEW p \in Peers
      PROVE  /\ RowOK(ds[p], qs[p], ps[p].begun, hs[p]) /\ ds[p] \in Connection
             /\ ds[p].age <= slack + Limit(ds[p])
  <2>1. RowOK(cs[p], qs[p], ps[p].begun, hs[p]) /\ Later(cs[p], ds[p]) /\ cs[p].age <= slack + Limit(cs[p])
    BY DEF Rows, InTime
  <2>2. RowOK(ds[p], qs[p], ps[p].begun, hs[p])
    BY ONLY <2>1, RowLater
  <2>3. ConnOK(cs[p]) /\ ConnOK(ds[p])
    BY ONLY <2>1, <2>2 DEF RowOK
  <2>4. ds[p].age <= slack + Limit(ds[p])
    BY ONLY <2>1, <2>3, slack \in Nat, LimitLater
  <2> QED
    BY ONLY <2>2, <2>3, <2>4 DEF ConnOK
<1>2. Rows(ds, qs, ps, hs) /\ InTime(ds, slack)
  BY <1>1 DEF Rows, InTime
<1>3. Live(ds) = Live(cs)
  BY DEF Later, Live
<1> QED
  BY <1>2, <1>3 DEF Later

-----------------------------------------------------------------------------
(* Reading.                                                                *)

\* What one piece of input may make of a connection that is read.
Read(c, d) ==
  /\ ConnOK(d) /\ d.state \in {"Handshake", "Open", "Closing"}
  /\ Shut(c) => Shut(d)
  /\ IF d.state = c.state THEN d.age <= c.age ELSE d.age = 0

\* The call that comes of it, if any: none, or one that follows what was heard (h) before.
NextCall(h, c, name, n) ==
  \/ name = "OnConnect" /\ n = 0 /\ h = << >>
  \/ name = "OnMessage" /\ n = Len(h) /\ Told(h) /\ ~ Shut(c)

LEMMA NextCallIs ==
  ASSUME NEW h \in Seq(Calling), NEW c, NEW name, NEW n, NextCall(h, c, name, n), NEW g, g = Append(h, <<name, n>>)
  PROVE  g \in Seq(Calling) /\ Told(g) /\ Len(g) = Len(h) + 1
<1>1. PICK e : e = <<name, n>>
  OBVIOUS
<1>2. Len(h) \in Nat /\ (h = << >> => Len(h) = 0)
  BY EmptySeq
<1>3. e \in Calling /\ e[1] # "OnDisconnect"
  BY <1>1, <1>2 DEF NextCall, Calling
<1>4. g = Append(h, e)
  BY <1>1
<1>5. g \in Seq(Calling) /\ Len(g) = Len(h) + 1 /\ g # << >> /\ g[Len(g)] = e
  BY ONLY <1>2, <1>3, <1>4, h \in Seq(Calling)
<1> QED
  BY <1>3, <1>5 DEF Told

WithMessage(c, n) == [c EXCEPT !.message = n]

\* An open connection with another message begun or ended.
LEMMA MessageIs ==
  ASSUME NEW c, ConnOK(c), c.state = "Open", NEW n \in Nat, NEW d, d = WithMessage(c, n)
  PROVE  Read(c, d) /\ d.message = n /\ d.state = "Open" /\ d.announced /\ d.dead = c.dead
<1>1. c \in Connection /\ c.age \in Nat /\ c.announced
  BY FieldsAre DEF ConnOK
<1>2. /\ d \in Connection /\ d.out = c.out /\ d.state = c.state /\ d.age = c.age /\ d.message = n
      /\ d.announced = c.announced /\ d.halfClosed = c.halfClosed /\ d.dead = c.dead
  BY <1>1 DEF WithMessage, Connection
<1>3. ConnOK(d)
  BY <1>2 DEF ConnOK, Ends
<1> QED
  BY <1>1, <1>2, <1>3 DEF Read, Shut

\* A connection after the request.
LEMMA OpenedIs ==
  ASSUME NEW c, ConnOK(c), c.state = "Handshake",
         NEW d, d = [c EXCEPT !.state = "Open", !.out = Append(@, "frame"), !.announced = TRUE, !.age = 0]
  PROVE  Read(c, d) /\ d.message = 0 /\ d.state = "Open" /\ d.announced
<1>1. PICK out : out = Append(c.out, "frame")
  OBVIOUS
<1>2. PICK yes : yes = TRUE
  OBVIOUS
<1>3. c \in Connection /\ c.age \in Nat /\ c.message = 0 /\ c.out \in Seq(Words)
  BY FieldsAre DEF ConnOK
<1>4. /\ out \in Seq(Words) /\ Len(out) = Len(c.out) + 1
      /\ \A i \in 1 .. Len(out) : out[i] = IF i = Len(out) THEN "frame" ELSE c.out[i]
  BY <1>1, <1>3 DEF Words
<1>5. d = [state |-> "Open", out |-> out, half |-> c.half, message |-> c.message, announced |-> yes,
           halfClosed |-> c.halfClosed, dead |-> c.dead, age |-> 0]
  BY <1>1, <1>2, <1>3 DEF Connection
<1>6. d \in Connection
  BY <1>2, <1>3, <1>4, <1>5, FieldsAre DEF Connection, Words
<1>7. /\ d.out = out /\ d.state = "Open" /\ d.age = 0 /\ d.message = 0 /\ d.announced = yes
      /\ d.halfClosed = c.halfClosed /\ d.dead = c.dead
  <2>1. /\ d.out = out /\ d.state = "Open" /\ d.age = 0 /\ d.message = c.message /\ d.announced = yes
        /\ d.halfClosed = c.halfClosed /\ d.dead = c.dead
    BY ONLY <1>5
  <2> QED
    BY ONLY <1>3, <2>1
<1>8. \A i \in 1 .. Len(out) : out[i] = "frame"
  BY <1>3, <1>4, OpenHolds
<1>9. ConnOK(d)
  BY <1>2, <1>6, <1>7, <1>8, OpenHolds DEF ConnOK, Ends
<1> QED
  BY <1>2, <1>3, <1>7, <1>9 DEF Read, Shut

\* The next item of a connection that is not closing, and what is left behind it.
LEMMA NextItem ==
  ASSUME NEW c, NEW q, NEW m, NEW h, RowOK(c, q, m, h), q # << >>, c.state \in {"Handshake", "Open"},
         NEW b, b = Begun(c, h)
  PROVE  /\ b \in Nat /\ Head(q).n = b + Starts(Head(q)) /\ Head(q).n \in Nat
         /\ InOrder(Tail(q), Head(q).n, m)
<1>1. /\ q \in Seq(Items) /\ m \in Nat /\ h \in Seq(Calling) /\ InOrder(q, b, m) /\ c.message \in Nat
      /\ c.state = "Open" => h # << >>
  BY FieldsAre DEF RowOK, ConnOK, Told
<1>2. Len(h) \in Nat /\ (h # << >> => Len(h) \in Nat \ {0})
  BY <1>1, EmptySeq
<1>3. b \in Nat
  BY <1>1, <1>2 DEF Begun
<1>4. Head(q) \in Items /\ Head(q).n = b + Starts(Head(q)) /\ InOrder(Tail(q), Head(q).n, m)
  BY ONLY <1>1, <1>3, q # << >>, TailInOrder
<1> QED
  BY <1>3, <1>4 DEF Items

LEMMA TailOf ==
  ASSUME NEW c, NEW q, NEW m, NEW h, RowOK(c, q, m, h), q # << >>
  PROVE  Head(q) \in Items /\ Tail(q) \in Seq(Items)
<1>1. q \in Seq(Items)
  BY DEF RowOK
<1>2. Len(q) \in Nat \ {0}
  BY <1>1, EmptySeq
<1> QED
  BY <1>1, <1>2

\* Of a connection that closes it does not matter what was left.
LEMMA ClosesRow ==
  ASSUME NEW c, NEW q, NEW m, NEW h, RowOK(c, q, m, h), q # << >>,
         NEW d, ConnOK(d), d.state = "Closing", d.announced = c.announced
  PROVE  RowOK(d, Tail(q), m, h)
BY TailOf DEF RowOK

\* An item without a message leaves the numbers alone.
LEMMA PlainRow ==
  ASSUME NEW c, NEW q, NEW m, NEW h, RowOK(c, q, m, h), q # << >>, Starts(Head(q)) = 0,
         NEW d, Later(c, d)
  PROVE  RowOK(d, Tail(q), m, h)
<1>1. RowOK(d, q, m, h) /\ d.state \in {"Away", "Handshake", "Open", "Closing", "Gone"}
  <2>1. RowOK(d, q, m, h)
    BY RowLater
  <2>2. d \in Connection
    BY ONLY <2>1 DEF RowOK, ConnOK
  <2> QED
    BY ONLY <2>1, <2>2, FieldsAre
<1>2. PICK b : b = Begun(d, h)
  OBVIOUS
<1>3. CASE d.state \in {"Handshake", "Open"}
  <2>1. /\ b \in Nat /\ Head(q).n = b + Starts(Head(q)) /\ Head(q).n \in Nat
        /\ InOrder(Tail(q), Head(q).n, m)
    BY ONLY <1>1, <1>2, <1>3, q # << >>, NextItem
  <2>2. Head(q).n = b
    BY ONLY <2>1, Starts(Head(q)) = 0
  <2> QED
    BY <1>1, <1>2, <2>1, <2>2, TailOf DEF RowOK
<1>4. CASE d.state \in {"Closing", "Gone"}
  BY <1>1, <1>4, TailOf DEF RowOK
<1>5. CASE d.state = "Away"
  <2>1. q \in Seq(Items) /\ m \in Nat /\ InOrder(q, 0, m)
    BY <1>1, <1>5 DEF RowOK, Begun
  <2>2. Head(q).n = 0 + Starts(Head(q)) /\ InOrder(Tail(q), Head(q).n, m)
    BY ONLY <2>1, q # << >>, TailInOrder
  <2>3. InOrder(Tail(q), Begun(d, h), m)
    <3>1. Head(q).n = 0
      BY ONLY <2>2, Starts(Head(q)) = 0
    <3> QED
      BY <1>5, <2>2, <3>1 DEF Begun
  <2> QED
    BY <1>1, <1>5, <2>3, TailOf DEF RowOK
<1> QED
  BY <1>1, <1>3, <1>4, <1>5

LEMMA LaterIsRead ==
  ASSUME NEW c, c.state \in {"Handshake", "Open", "Closing"}, NEW d, Later(c, d)
  PROVE  Read(c, d)
BY DEF Later, Read

\* The outcomes of one piece of input.
Outcome(p, c, q, m, h, d) ==
  /\ Read(c, d)
  /\ \/ Quiet(p, d) /\ RowOK(d, Tail(q), m, h)
     \/ \E name, n : /\ Calls(p, d, name, n) /\ NextCall(h, c, name, n)
                     /\ RowOK(d, Tail(q), m, Append(h, <<name, n>>))

\* In the handshake only the request makes the handler be called.
LEMMA HandshakeRead ==
  ASSUME NEW p, NEW c, NEW q, NEW m, NEW h, RowOK(c, q, m, h), q # << >>, c.state = "Handshake",
         OnHandshake(p, c, Head(q).kind)
  PROVE  \E d : Outcome(p, c, q, m, h, d)
<1>1. ConnOK(c) /\ h \in Seq(Calling) /\ h = << >> /\ ~ c.announced
  BY DEF RowOK, ConnOK
<1>2. CASE Head(q).kind = "part" /\ Quiet(p, c)
  <2>1. Later(c, c) /\ Starts(Head(q)) = 0
    BY <1>1, <1>2, LaterSelf DEF Starts
  <2>2. RowOK(c, Tail(q), m, h) /\ Read(c, c)
    BY <2>1, PlainRow, LaterIsRead
  <2> QED
    BY <1>2, <2>2 DEF Outcome
<1>3. CASE Head(q).kind = "stop" /\ Quiet(p, BeginClose(c))
  <2>1. PICK d : d = BeginClose(c)
    OBVIOUS
  <2>2. ConnOK(d) /\ d.state = "Closing" /\ d.age = 0 /\ d.announced = c.announced /\ d.dead = c.dead
    BY <1>1, <2>1, OpenHolds, BeginCloseIs
  <2>3. RowOK(d, Tail(q), m, h)
    BY <2>2, ClosesRow
  <2>4. Read(c, d)
    BY <2>2 DEF Read, Shut
  <2> QED
    BY <1>3, <2>1, <2>3, <2>4 DEF Outcome
<1>4. ASSUME NEW d, Head(q).kind = "request",
             d = [c EXCEPT !.state = "Open", !.out = Append(@, "frame"), !.announced = TRUE, !.age = 0],
             Calls(p, d, "OnConnect", 0)
      PROVE  Outcome(p, c, q, m, h, d)
  <2>1. Read(c, d) /\ d.message = 0 /\ d.state = "Open" /\ d.announced
    BY <1>1, <1>4, OpenedIs
  <2>2. NextCall(h, c, "OnConnect", 0)
    BY <1>1 DEF NextCall
  <2>3. PICK g : g = Append(h, <<"OnConnect", 0>>)
    OBVIOUS
  <2>4. g \in Seq(Calling) /\ Told(g) /\ Len(g) = Len(h) + 1
    <3>1. PICK name, n : name = "OnConnect" /\ n = 0
      OBVIOUS
    <3>2. NextCall(h, c, name, n) /\ g = Append(h, <<name, n>>) /\ h \in Seq(Calling)
      BY ONLY <1>1, <2>2, <2>3, <3>1
    <3> QED
      BY ONLY <3>2, NextCallIs
  <2>5. Len(g) = 1
    BY <1>1, <2>4, EmptySeq
  <2>6. Head(q).n = 0 /\ InOrder(Tail(q), 0, m)
    <3>1. PICK b : b = Begun(c, h)
      OBVIOUS
    <3>2. b = 0 /\ Starts(Head(q)) = 0
      BY <1>4, <3>1 DEF Begun, Starts
    <3>3. Head(q).n = b + Starts(Head(q)) /\ InOrder(Tail(q), Head(q).n, m)
      BY <3>1, NextItem
    <3>4. Head(q).n = 0
      BY ONLY <3>2, <3>3
    <3> QED
      BY <3>3, <3>4
  <2>7. Begun(d, g) = 0
    BY <2>1, <2>5 DEF Begun
  <2>8. RowOK(d, Tail(q), m, g)
    <3>1. ConnOK(d) /\ Tail(q) \in Seq(Items) /\ m \in Nat
      BY <2>1, TailOf DEF Read, RowOK
    <3> QED
      BY ONLY <2>1, <2>4, <2>6, <2>7, <3>1 DEF RowOK
  <2> QED
    BY <1>4, <2>1, <2>2, <2>3, <2>8 DEF Outcome
<1> QED
  BY <1>2, <1>3, <1>4 DEF OnHandshake

\* A message is complete: the handler hears the one that follows.
LEMMA MessageRead ==
  ASSUME NEW p, NEW c, NEW q, NEW m, NEW h, RowOK(c, q, m, h), q # << >>, c.state = "Open", ~ c.dead,
         NEW n, n = Len(h), Head(q).n = n,
         NEW d, Read(c, d), d.state = "Open", d.message = 0, d.announced, Calls(p, d, "OnMessage", n)
  PROVE  Outcome(p, c, q, m, h, d)
<1>1. PICK name : name = "OnMessage"
  OBVIOUS
<1>2. PICK g : g = Append(h, <<name, n>>)
  OBVIOUS
<1>3. h \in Seq(Calling) /\ Told(h)
  BY DEF RowOK, ConnOK
<1>4. NextCall(h, c, name, n)
  BY <1>1, <1>3 DEF NextCall, Shut
<1>5. g \in Seq(Calling) /\ Told(g) /\ Len(g) = Len(h) + 1
  BY ONLY <1>2, <1>3, <1>4, NextCallIs
<1>6. InOrder(Tail(q), n, m)
  <2>1. PICK b : b = Begun(c, h)
    OBVIOUS
  <2> QED
    BY <2>1, NextItem
<1>7. Begun(d, g) = n
  <2>1. Len(h) \in Nat
    BY <1>3
  <2> QED
    BY <1>5, <2>1 DEF Begun
<1>8. ConnOK(d) /\ Tail(q) \in Seq(Items) /\ m \in Nat
  BY TailOf DEF Read, RowOK
<1>9. RowOK(d, Tail(q), m, g)
  BY ONLY <1>5, <1>6, <1>7, <1>8, d.state = "Open", d.message = 0 DEF RowOK
<1> QED
  BY <1>1, <1>2, <1>4, <1>9 DEF Outcome

\* WebSocketParser::Feed and what its event leads to.
LEMMA FrameRead ==
  ASSUME NEW p, NEW c, NEW q, NEW m, NEW h, RowOK(c, q, m, h), q # << >>, c.state = "Open", ~ c.dead,
         OnFrame(p, c, Head(q))
  PROVE  \E d : Outcome(p, c, q, m, h, d)
<1>1. /\ ConnOK(c) /\ h \in Seq(Calling) /\ h # << >> /\ c.message \in Nat /\ Len(h) \in Nat
      /\ c.message # 0 => c.message = Len(h)
  <2>1. ConnOK(c) /\ h \in Seq(Calling) /\ h # << >> /\ (c.message # 0 => c.message = Len(h))
    BY DEF RowOK, ConnOK, Told
  <2>2. c.message \in Nat
    BY ONLY <2>1, FieldsAre DEF ConnOK
  <2>3. Len(h) \in Nat
    BY ONLY <2>1
  <2> QED
    BY ONLY <2>1, <2>2, <2>3
<1>2. Head(q).n = Begun(c, h) + Starts(Head(q)) /\ InOrder(Tail(q), Head(q).n, m)
  BY NextItem
<1>3. CASE Quiet(p, BeginClose(c))
  <2>1. PICK d : d = BeginClose(c)
    OBVIOUS
  <2>2. Later(c, d) /\ d.state = "Closing"
    BY <1>1, <2>1, BeginCloseLater
  <2>3. RowOK(d, Tail(q), m, h) /\ Read(c, d)
    BY <2>2, ClosesRow, LaterIsRead DEF Later
  <2> QED
    BY <1>3, <2>1, <2>3 DEF Outcome
<1>4. CASE Head(q).kind = "part" /\ Quiet(p, c)
  <2>1. Later(c, c) /\ Starts(Head(q)) = 0
    BY <1>1, <1>4, LaterSelf DEF Starts
  <2>2. RowOK(c, Tail(q), m, h) /\ Read(c, c)
    BY <2>1, PlainRow, LaterIsRead
  <2> QED
    BY <1>4, <2>2 DEF Outcome
<1>5. CASE Head(q).kind = "ping" /\ Quiet(p, [c EXCEPT !.out = Append(@, "frame")])
  <2>1. PICK d : d = [c EXCEPT !.out = Append(@, "frame")]
    OBVIOUS
  <2>2. Later(c, d) /\ Starts(Head(q)) = 0
    BY <1>1, <1>5, <2>1, FrameIs DEF Starts
  <2>3. RowOK(d, Tail(q), m, h) /\ Read(c, d)
    BY <2>2, PlainRow, LaterIsRead
  <2> QED
    BY <1>5, <2>1, <2>3 DEF Outcome
<1>6. CASE Head(q).kind = "text" /\ c.message = 0 /\ Calls(p, c, "OnMessage", Head(q).n)
  <2>1. PICK n : n = Head(q).n
    OBVIOUS
  <2>2. n = Len(h)
    <3>1. Begun(c, h) = Len(h) - 1 /\ Starts(Head(q)) = 1
      BY <1>6 DEF Begun, Starts
    <3> QED
      BY ONLY <1>1, <1>2, <2>1, <3>1
  <2>3. Read(c, c) /\ c.announced
    BY <1>1, LaterSelf, LaterIsRead DEF ConnOK
  <2>4. Calls(p, c, "OnMessage", n) /\ Head(q).n = n /\ c.message = 0
    BY <1>6, <2>1
  <2>5. Outcome(p, c, q, m, h, c)
    BY <2>2, <2>3, <2>4, MessageRead
  <2> QED
    BY <2>5
<1>7. CASE Head(q).kind = "first" /\ c.message = 0 /\ Quiet(p, [c EXCEPT !.message = Head(q).n])
  <2>1. PICK n : n = Head(q).n
    OBVIOUS
  <2>2. PICK d : d = WithMessage(c, n)
    OBVIOUS
  <2>3. n = Len(h) /\ n \in Nat /\ n # 0
    <3>1. Begun(c, h) = Len(h) - 1 /\ Starts(Head(q)) = 1
      BY <1>7 DEF Begun, Starts
    <3>2. n = Len(h)
      BY ONLY <1>1, <1>2, <2>1, <3>1
    <3> QED
      BY ONLY <1>1, <3>2, EmptySeq
  <2>4. Read(c, d) /\ d.message = n /\ d.state = "Open" /\ d.announced
    BY ONLY <1>1, <2>2, <2>3, c.state = "Open", MessageIs
  <2>5. Begun(d, h) = n
    BY <2>3, <2>4 DEF Begun
  <2>6. ConnOK(d) /\ Tail(q) \in Seq(Items) /\ m \in Nat /\ Told(h)
    BY <2>4, TailOf DEF Read, RowOK, ConnOK
  <2>7. RowOK(d, Tail(q), m, h)
    BY ONLY <1>1, <1>2, <2>1, <2>3, <2>4, <2>5, <2>6 DEF RowOK
  <2> QED
    BY <1>7, <2>1, <2>2, <2>4, <2>7 DEF Outcome, WithMessage
<1>8. CASE Head(q).kind = "last" /\ c.message # 0 /\ Calls(p, [c EXCEPT !.message = 0], "OnMessage", c.message)
  <2>1. PICK z : z = 0
    OBVIOUS
  <2>2. PICK d : d = WithMessage(c, z)
    OBVIOUS
  <2>3. PICK n : n = c.message
    OBVIOUS
  <2>4. z \in Nat
    BY <2>1
  <2>5. Read(c, d) /\ d.message = z /\ d.state = "Open" /\ d.announced
    BY ONLY <1>1, <2>2, <2>4, c.state = "Open", MessageIs
  <2>6. n = Len(h) /\ Head(q).n = n
    <3>1. Begun(c, h) = c.message /\ Starts(Head(q)) = 0
      BY <1>8 DEF Begun, Starts
    <3> QED
      BY ONLY <1>1, <1>2, <1>8, <2>3, <3>1
  <2>7. Calls(p, d, "OnMessage", n)
    BY <1>8, <2>1, <2>2, <2>3 DEF WithMessage
  <2>8. Outcome(p, c, q, m, h, d)
    BY <2>1, <2>5, <2>6, <2>7, MessageRead
  <2> QED
    BY <2>8
<1> QED
  BY <1>3, <1>4, <1>5, <1>6, <1>7, <1>8 DEF OnFrame

LEMMA ConsumeRead ==
  ASSUME NEW p, NEW c, NEW q, NEW m, NEW h, RowOK(c, q, m, h), q # << >>, c.state \in {"Handshake", "Open", "Closing"},
         ~ c.dead, Consume(p, c, Head(q))
  PROVE  \E d : Outcome(p, c, q, m, h, d)
<1>1. ConnOK(c)
  BY DEF RowOK
<1>2. CASE Head(q).kind = "gone" /\ Quiet(p, [c EXCEPT !.dead = TRUE])
  <2>1. PICK yes : yes = TRUE
    OBVIOUS
  <2>2. PICK d : d = [c EXCEPT !.dead = yes]
    OBVIOUS
  <2>3. Later(c, d) /\ Starts(Head(q)) = 0
    <3>1. yes \in BOOLEAN /\ (c.dead => yes)
      BY <2>1
    <3>2. Later(c, d)
      BY <1>1, <2>2, <3>1, DeadLater
    <3> QED
      BY <1>2, <3>2 DEF Starts
  <2>4. RowOK(d, Tail(q), m, h) /\ Read(c, d)
    BY <2>3, PlainRow, LaterIsRead
  <2> QED
    BY <1>2, <2>1, <2>2, <2>4 DEF Outcome
<1>3. CASE c.state = "Closing" /\ Quiet(p, c)
  <2>1. Later(c, c)
    BY <1>1, LaterSelf
  <2>2. RowOK(c, Tail(q), m, h) /\ Read(c, c)
    BY <1>1, <1>3, <2>1, ClosesRow, LaterIsRead
  <2> QED
    BY <1>3, <2>2 DEF Outcome
<1>4. CASE c.state = "Handshake" /\ OnHandshake(p, c, Head(q).kind)
  BY <1>4, HandshakeRead
<1>5. CASE c.state = "Open" /\ OnFrame(p, c, Head(q))
  BY <1>5, FrameRead
<1> QED
  BY <1>2, <1>3, <1>4, <1>5 DEF Consume

LEMMA ReceivedLater ==
  ASSUME NEW c, ConnOK(c), NEW d, d = Received(c)
  PROVE  Later(c, d) /\ d.state = c.state /\ d.dead = c.dead
<1>1. CASE c.state = "Open"
  <2>1. PICK z : z = 0
    OBVIOUS
  <2>2. d = [c EXCEPT !.age = z] /\ z \in Nat
    BY <1>1, <2>1 DEF Received
  <2>3. c \in Connection /\ c.age \in Nat
    BY FieldsAre DEF ConnOK
  <2>4. /\ d \in Connection /\ d.out = c.out /\ d.state = c.state /\ d.age = z /\ d.message = c.message
        /\ d.announced = c.announced /\ d.halfClosed = c.halfClosed /\ d.dead = c.dead
    BY ONLY <2>2, <2>3 DEF Connection
  <2>5. ConnOK(d)
    BY <1>1, <2>4 DEF ConnOK, Ends
  <2> QED
    BY <1>1, <2>1, <2>3, <2>4, <2>5 DEF Later, Shut
<1>2. CASE c.state # "Open"
  BY <1>2, LaterSelf DEF Received
<1> QED
  BY <1>1, <1>2

-----------------------------------------------------------------------------
(* The actions.                                                            *)

\* What the handler hears in a step is what HandlerLife allows.
HeardOn ==
  \A p \in Peers : /\ heard'[p] = heard[p] \/ Life!OnConnect(p) \/ Life!OnMessage(p) \/ Life!OnDisconnect(p)
                   /\ Shut(conn[p]) => Shut(conn'[p])

Put(f, p, v) == [f EXCEPT ![p] = v]

\* One row is another.
LEMMA OneRow ==
  ASSUME NEW cs, NEW qs, NEW ps, NEW hs, Rows(cs, qs, ps, hs), NEW slack, InTime(cs, slack),
         NEW p \in Peers, NEW d, NEW t, NEW g, RowOK(d, t, ps[p].begun, g), d.age <= slack + Limit(d)
  PROVE  Rows(Put(cs, p, d), Put(qs, p, t), ps, Put(hs, p, g)) /\ InTime(Put(cs, p, d), slack)
<1>1. /\ d \in Connection /\ t \in Seq(Items) /\ g \in Seq(Calling)
  BY DEF RowOK, ConnOK
<1>2. /\ cs \in [Peers -> Connection] /\ qs \in [Peers -> Seq(Items)] /\ hs \in [Peers -> Seq(Calling)]
  BY DEF Rows
<1>3. /\ Put(cs, p, d) \in [Peers -> Connection] /\ Put(qs, p, t) \in [Peers -> Seq(Items)]
      /\ Put(hs, p, g) \in [Peers -> Seq(Calling)]
      /\ \A o \in Peers : /\ Put(cs, p, d)[o] = IF o = p THEN d ELSE cs[o]
                          /\ Put(qs, p, t)[o] = IF o = p THEN t ELSE qs[o]
                          /\ Put(hs, p, g)[o] = IF o = p THEN g ELSE hs[o]
  BY <1>1, <1>2 DEF Put
<1>4. Rows(Put(cs, p, d), Put(qs, p, t), ps, Put(hs, p, g))
  BY <1>3 DEF Rows
<1>5. InTime(Put(cs, p, d), slack)
  BY <1>3 DEF InTime
<1> QED
  BY <1>4, <1>5

\* The state of one of several functions over the peers.
LEMMA RowIs ==
  ASSUME NEW cs, NEW qs, NEW ps, NEW hs, Rows(cs, qs, ps, hs), NEW p \in Peers
  PROVE  /\ RowOK(cs[p], qs[p], ps[p].begun, hs[p]) /\ ConnOK(cs[p]) /\ cs[p] \in Connection
         /\ qs[p] \in Seq(Items) /\ hs[p] \in Seq(Calling) /\ ps[p].begun \in Nat /\ ps[p].sent \in Nat
         /\ ps[p].asked \in BOOLEAN
BY DEF Rows, RowOK, ConnOK

\* Something is done to the connections only, by the handler or by a pass.
LEMMA TickKeeps ==
  ASSUME TransportInv, Tick
  PROVE  TransportInv' /\ HeardOn
<1>1. PICK cs, ds : cs = conn /\ ds = conn'
  OBVIOUS
<1>2. Rows(cs, inbox, peer, heard) /\ InTime(cs, 0) /\ LoopInv /\ step = "Idle"
  BY <1>1 DEF TransportInv, Tick
<1>3. ds \in Reactions(cs)
  BY <1>1 DEF Tick
<1>4. \A p \in Peers : ConnOK(cs[p])
  BY <1>2, RowIs
<1>5. ds = [p \in Peers |-> ds[p]] /\ \A p \in Peers : Later(cs[p], ds[p])
  BY ONLY <1>3, <1>4, ReactionsLater
<1>6. /\ Rows(ds, inbox, peer, heard) /\ InTime(ds, 0) /\ Live(ds) = Live(cs)
      /\ \A p \in Peers : Shut(cs[p]) => Shut(ds[p])
  BY <1>2, <1>5, RowsLater
<1>7. LoopInv'
  BY <1>2 DEF LoopInv, Tick
<1> QED
  BY <1>1, <1>6, <1>7 DEF TransportInv, HeardOn, Tick

LEMMA PeerSendsKeeps ==
  ASSUME TransportInv, NEW p \in Peers, PeerSends(p)
  PROVE  TransportInv' /\ HeardOn
<1>1. PICK kind, n, sent :
        /\ kind \in Kinds
        /\ n = peer[p].begun + (IF kind \in {"text", "first"} THEN 1 ELSE 0)
        /\ sent = (IF kind = "gone" THEN MaxItems[p] ELSE peer[p].sent + 1)
        /\ peer' = [peer EXCEPT ![p] = [asked |-> peer[p].asked \/ kind = "request", begun |-> n, sent |-> sent]]
        /\ inbox' = [inbox EXCEPT ![p] = Append(inbox[p], Item(kind, n))]
  BY DEF PeerSends
<1>2. PICK q, item, m, h, c, t : /\ q = inbox[p] /\ item = Item(kind, n) /\ m = peer[p].begun /\ h = heard[p]
                                 /\ c = conn[p] /\ t = Append(q, item)
  OBVIOUS
<1>3. Rows(conn, inbox, peer, heard) /\ InTime(conn, 0) /\ LoopInv /\ step = "Idle"
  BY DEF TransportInv, PeerSends
<1>4. RowOK(c, q, m, h) /\ q \in Seq(Items) /\ m \in Nat /\ h \in Seq(Calling) /\ c \in Connection /\ ConnOK(c)
  BY <1>2, <1>3, RowIs
<1>5. item \in Items /\ item.n = m + Starts(item) /\ n = item.n /\ n \in Nat
  BY <1>1, <1>2, <1>4 DEF Item, Items, Starts
<1>6. t \in Seq(Items)
  BY <1>2, <1>4, <1>5
<1>7. c.state \in {"Away", "Handshake", "Open"} => InOrder(t, Begun(c, h), n)
  <2>1. PICK b : b = Begun(c, h)
    OBVIOUS
  <2>2. ASSUME c.state \in {"Away", "Handshake", "Open"} PROVE InOrder(q, b, m) /\ b \in Nat
    <3>1. Len(h) \in Nat /\ (h # << >> => Len(h) # 0)
      BY <1>4, EmptySeq
    <3>2. c.message \in Nat /\ (c.state = "Open" => h # << >>)
      BY <1>4, FieldsAre DEF RowOK, ConnOK, Told
    <3>3. b \in Nat
      BY <2>1, <3>1, <3>2 DEF Begun
    <3> QED
      BY <2>1, <2>2, <3>3, <1>4 DEF RowOK
  <2> QED
    BY ONLY <1>2, <1>4, <1>5, <2>1, <2>2, AppendedInOrder
<1>8. RowOK(c, t, n, h)
  BY <1>4, <1>5, <1>6, <1>7 DEF RowOK
<1>9. sent \in Nat /\ peer[p].asked \in BOOLEAN
  BY <1>1, <1>3, RowIs, TransportAssumption DEF TransportAssumption
<1>10. inbox' \in [Peers -> Seq(Items)] /\ peer' \in [Peers -> [asked : BOOLEAN, begun : Nat, sent : Nat]]
  <2>1. inbox' = [inbox EXCEPT ![p] = t]
    BY <1>1, <1>2
  <2>2. PICK asked \in BOOLEAN : asked = (peer[p].asked \/ kind = "request")
    BY <1>9
  <2>3. peer' = [peer EXCEPT ![p] = [asked |-> asked, begun |-> n, sent |-> sent]]
    BY <1>1, <2>2
  <2> QED
    BY <1>3, <1>5, <1>6, <1>9, <2>1, <2>3 DEF Rows
<1>11. \A o \in Peers : RowOK(conn[o], inbox'[o], peer'[o].begun, heard[o])
  <2>1. RowOK(conn[p], inbox'[p], peer'[p].begun, heard[p])
    BY <1>1, <1>2, <1>3, <1>8 DEF Rows
  <2>2. \A o \in Peers \ {p} : inbox'[o] = inbox[o] /\ peer'[o] = peer[o]
    BY <1>1, <1>3 DEF Rows
  <2> QED
    BY <1>3, <2>1, <2>2 DEF Rows
<1>12. conn' = conn /\ heard' = heard /\ step' = step /\ elapsed' = elapsed /\ ready' = ready /\ turn' = turn
  BY DEF PeerSends
<1>13. Rows(conn', inbox', peer', heard')
  BY <1>3, <1>10, <1>11, <1>12 DEF Rows
<1>14. LoopInv'
  BY <1>3, <1>12 DEF LoopInv
<1> QED
  BY <1>3, <1>12, <1>13, <1>14 DEF TransportInv, HeardOn

-----------------------------------------------------------------------------
(* The beginning of a pass.                                                *)

LEMMA AgedRow ==
  ASSUME NEW c, NEW q, NEW m, NEW h, RowOK(c, q, m, h), c.state \in {"Handshake", "Open", "Closing"},
         NEW ms \in {0, 1}, c.age <= Limit(c), NEW d, d = Aged(c, ms)
  PROVE  RowOK(d, q, m, h) /\ d.age <= 1 + Limit(d) /\ d.state = c.state /\ d.dead = c.dead
<1>1. ConnOK(c) /\ c \in Connection /\ c.age \in Nat
  BY FieldsAre DEF RowOK, ConnOK
<1>2. PICK a \in Nat : a = c.age + ms
  BY <1>1
<1>3. d = [c EXCEPT !.age = a]
  BY <1>2 DEF Aged
<1>4. /\ d \in Connection /\ d.out = c.out /\ d.state = c.state /\ d.age = a /\ d.message = c.message
      /\ d.announced = c.announced /\ d.halfClosed = c.halfClosed /\ d.dead = c.dead
  BY ONLY <1>1, <1>3, a \in Nat DEF Connection
<1>5. ConnOK(d)
  BY <1>1, <1>4 DEF ConnOK, Ends
<1>6. Begun(d, h) = Begun(c, h) /\ Limit(d) = Limit(c)
  BY ONLY <1>4 DEF Begun, Limit
<1>7. RowOK(d, q, m, h)
  BY <1>4, <1>5, <1>6 DEF RowOK
<1>8. Limit(c) \in Nat
  BY Parameters DEF Limit, Timeouts
<1>9. d.age <= 1 + Limit(d)
  BY ONLY <1>1, <1>2, <1>4, <1>6, <1>8, ms \in {0, 1}, c.age <= Limit(c)
<1> QED
  BY <1>4, <1>7, <1>9

LEMMA BlankOK ==
  ASSUME NEW state \in {"Away", "Handshake", "Gone"}, NEW c, c = Blank(state)
  PROVE  ConnOK(c) /\ c.age = 0 /\ c.state = state /\ ~ c.announced /\ ~ c.dead
<1>1. PICK no, none : no = FALSE /\ none = << >>
  OBVIOUS
<1>2. c = [state |-> state, out |-> none, half |-> no, message |-> 0, announced |-> no,
           halfClosed |-> no, dead |-> no, age |-> 0]
  BY <1>1 DEF Blank, NoConnection
<1>3. no \in BOOLEAN /\ none \in Seq(Words) /\ Len(none) = 0
  BY <1>1, EmptySeq
<1>4. c \in Connection
  BY ONLY <1>2, <1>3 DEF Connection, Words
<1>5. /\ c.out = none /\ c.state = state /\ c.age = 0 /\ c.message = 0
      /\ c.announced = no /\ c.halfClosed = no /\ c.dead = no
  BY ONLY <1>2
<1>6. Ends(c)
  BY <1>1, <1>3, <1>5 DEF Ends
<1> QED
  BY <1>1, <1>4, <1>5, <1>6 DEF ConnOK

LEMMA AcceptedRow ==
  ASSUME NEW c, NEW q, NEW m, NEW h, RowOK(c, q, m, h), c.state = "Away", NEW d, d = Blank("Handshake")
  PROVE  RowOK(d, q, m, h) /\ d.age = 0 /\ d.state = "Handshake"
<1>1. ConnOK(d) /\ d.age = 0 /\ d.state = "Handshake" /\ ~ d.announced
  BY BlankOK
<1>2. Begun(d, h) = Begun(c, h)
  BY <1>1 DEF Begun
<1> QED
  BY <1>1, <1>2 DEF RowOK

LEMMA BeginPassKeeps ==
  ASSUME TransportInv, NEW ms \in {0, 1}, BeginPass(ms)
  PROVE  TransportInv' /\ HeardOn
<1> DEFINE as == [p \in Peers |-> IF p \in Live(conn) THEN Aged(conn[p], ms) ELSE conn[p]]
<1>1. PICK cs \in OneOfEach([p \in Peers |-> Flushed(IF p \in Live(conn) THEN Aged(conn[p], ms) ELSE conn[p])]),
           new \in SUBSET {p \in Peers : conn[p].state = "Away"} :
        /\ conn' = Accepted(cs, new)
        /\ ready' = {p \in Live(cs) : inbox[p] # << >> /\ ~ cs[p].dead}
  BY DEF BeginPass
<1>2. Rows(conn, inbox, peer, heard) /\ InTime(conn, 0) /\ LoopInv /\ step = "Idle"
  BY DEF TransportInv, BeginPass
<1>3. ASSUME NEW p \in Peers
      PROVE  /\ RowOK(as[p], inbox[p], peer[p].begun, heard[p]) /\ as[p].age <= 1 + Limit(as[p])
             /\ as[p].state = conn[p].state /\ as[p].dead = conn[p].dead
  <2>1. PICK c, d : c = conn[p] /\ d = as[p]
    OBVIOUS
  <2>2. RowOK(c, inbox[p], peer[p].begun, heard[p]) /\ c \in Connection /\ c.age \in Nat
    BY <1>2, <2>1, RowIs, FieldsAre
  <2>3. c.age <= 0 + Limit(c) /\ Limit(c) \in Nat
    BY <1>2, <2>1, Parameters DEF InTime, Limit, Timeouts
  <2>4. CASE p \in Live(conn)
    <3>1. d = Aged(c, ms) /\ c.state \in {"Handshake", "Open", "Closing"} /\ c.age <= Limit(c)
      BY <2>1, <2>2, <2>3, <2>4 DEF Live
    <3>2. RowOK(d, inbox[p], peer[p].begun, heard[p]) /\ d.age <= 1 + Limit(d) /\ d.state = c.state /\ d.dead = c.dead
      BY ONLY <2>2, <3>1, ms \in {0, 1}, AgedRow
    <3> QED
      BY <2>1, <3>2
  <2>5. CASE p \notin Live(conn)
    <3>1. d = c
      BY <2>1, <2>5
    <3>2. d.age <= 1 + Limit(d)
      BY <2>2, <2>3, <3>1
    <3> QED
      BY <2>1, <2>2, <3>1, <3>2
  <2> QED
    BY <2>4, <2>5
<1>4. PICK bs : bs = as
  OBVIOUS
<1>5. Rows(bs, inbox, peer, heard) /\ InTime(bs, 1)
  <2>1. \A p \in Peers : as[p] \in Connection
    BY <1>3 DEF RowOK, ConnOK
  <2>2. as \in [Peers -> Connection]
    BY <2>1
  <2> QED
    BY <1>2, <1>3, <1>4, <2>2 DEF Rows, InTime
<1>6. cs = [p \in Peers |-> cs[p]] /\ \A p \in Peers : Later(bs[p], cs[p])
  <2>1. cs = [p \in Peers |-> cs[p]] /\ \A p \in Peers : cs[p] \in Flushed(bs[p])
    <3>1. PICK S : S = [p \in Peers |-> Flushed(IF p \in Live(conn) THEN Aged(conn[p], ms) ELSE conn[p])]
      OBVIOUS
    <3>2. cs \in OneOfEach(S)
      BY <3>1
    <3>3. cs = [p \in Peers |-> cs[p]] /\ \A p \in Peers : cs[p] \in S[p]
      BY ONLY <3>2, OneOfEachIs
    <3>4. \A p \in Peers : S[p] = Flushed(bs[p])
      BY <1>4, <3>1
    <3> QED
      BY <3>3, <3>4
  <2>2. ASSUME NEW p \in Peers PROVE Later(bs[p], cs[p])
    <3>1. PICK b, c : b = bs[p] /\ c = cs[p]
      OBVIOUS
    <3>2. ConnOK(b) /\ c \in Flushed(b)
      BY <1>5, <2>1, <3>1, RowIs
    <3>3. Later(b, c)
      BY ONLY <3>2, FlushedLater
    <3> QED
      BY <3>1, <3>3
  <2> QED
    BY <2>1, <2>2
<1>7. /\ Rows(cs, inbox, peer, heard) /\ InTime(cs, 1) /\ Live(cs) = Live(bs)
      /\ \A p \in Peers : Shut(bs[p]) => Shut(cs[p])
  <2>1. PICK slack : slack = 1
    OBVIOUS
  <2>2. slack \in Nat /\ InTime(bs, slack)
    BY <1>5, <2>1
  <2>3. /\ Rows(cs, inbox, peer, heard) /\ InTime(cs, slack) /\ Live(cs) = Live(bs)
        /\ \A p \in Peers : Shut(bs[p]) => Shut(cs[p])
    BY ONLY <1>5, <1>6, <2>2, RowsLater
  <2> QED
    BY <2>1, <2>3
<1>8. \A p \in Peers : conn'[p] = IF p \in new THEN Blank("Handshake") ELSE cs[p]
  BY <1>1 DEF Accepted, Blank
<1>9. ASSUME NEW p \in Peers
      PROVE  /\ RowOK(conn'[p], inbox[p], peer[p].begun, heard[p]) /\ conn'[p].age <= 1 + Limit(conn'[p])
             /\ conn'[p].state = IF p \in new THEN "Handshake" ELSE cs[p].state
  <2>1. PICK c, d : c = cs[p] /\ d = conn'[p]
    OBVIOUS
  <2>2. RowOK(c, inbox[p], peer[p].begun, heard[p]) /\ c.age <= 1 + Limit(c)
    BY <1>7, <2>1, RowIs DEF InTime
  <2>3. CASE p \in new
    <3>1. c.state = "Away"
      BY <1>1, <1>3, <1>4, <1>6, <2>1, <2>3 DEF Later
    <3>2. d = Blank("Handshake")
      BY <1>8, <2>1, <2>3
    <3>3. RowOK(d, inbox[p], peer[p].begun, heard[p]) /\ d.age = 0 /\ d.state = "Handshake"
      BY ONLY <2>2, <3>1, <3>2, AcceptedRow
    <3>4. Limit(d) \in Nat
      BY Parameters DEF Limit, Timeouts
    <3>5. d.age <= 1 + Limit(d)
      BY ONLY <3>3, <3>4
    <3> QED
      BY <2>1, <2>3, <3>3, <3>5
  <2>4. CASE p \notin new
    <3>1. d = c
      BY <1>8, <2>1, <2>4
    <3> QED
      BY <2>1, <2>2, <2>4, <3>1
  <2> QED
    BY <2>3, <2>4
<1>10. inbox' = inbox /\ peer' = peer /\ turn' = turn /\ heard' = heard /\ step' = "Reading" /\ elapsed' = ms
  BY DEF BeginPass
<1>11. Rows(conn', inbox', peer', heard') /\ InTime(conn', 1)
  <2>1. \A p \in Peers : conn'[p] \in Connection
    BY <1>9 DEF RowOK, ConnOK
  <2>2. conn' \in [Peers -> Connection]
    BY <1>1, <2>1 DEF Accepted
  <2> QED
    BY <1>2, <1>9, <1>10, <2>2 DEF Rows, InTime
<1>12. LoopInv'
  <2>1. turn' = Nobody
    BY <1>2, <1>10 DEF LoopInv
  <2>2. ASSUME NEW p \in ready' PROVE p \in Peers /\ p \in Live(conn') /\ inbox'[p] # << >>
    <3>1. p \in Peers /\ cs[p].state \in {"Handshake", "Open", "Closing"} /\ inbox[p] # << >>
      BY <1>1, <2>2 DEF Live
    <3>2. conn'[p].state \in {"Handshake", "Open", "Closing"}
      BY <1>9, <3>1
    <3> QED
      BY <1>10, <3>1, <3>2 DEF Live
  <2> QED
    BY <1>10, <2>1, <2>2 DEF LoopInv
<1>13. ASSUME NEW p \in Peers, Shut(conn[p]) PROVE Shut(conn'[p])
  <2>1. Shut(cs[p])
    BY <1>3, <1>4, <1>7, <1>13 DEF Shut
  <2>2. p \notin new
    <3>1. CASE p \in new
      <4>1. conn[p].state = "Away" /\ ConnOK(conn[p])
        BY <1>1, <1>2, <3>1, RowIs
      <4>2. ~ conn[p].dead
        BY <4>1, BlankOK DEF ConnOK
      <4> QED
        BY <1>13, <4>1, <4>2 DEF Shut
    <3> QED
      BY <3>1
  <2> QED
    BY <1>8, <2>1, <2>2
<1> QED
  BY <1>10, <1>11, <1>12, <1>13 DEF TransportInv, HeardOn

-----------------------------------------------------------------------------
(* The reading.                                                            *)

\* A call of the handler is one of HandlerLife's.
LEMMA HeardAfterCall ==
  ASSUME NEW p \in Peers, NEW h, h = heard[p], NEW c, NEW name, NEW n, NextCall(h, c, name, n),
         Shut(conn[p]) => Shut(c), heard'[p] = Append(h, <<name, n>>)
  PROVE  Life!OnConnect(p) \/ Life!OnMessage(p)
<1>1. CASE name = "OnConnect" /\ n = 0 /\ h = << >>
  <2>1. heard'[p] = << <<"OnConnect", 0>> >> /\ heard[p] = << >>
    <3>1. PICK e : e = <<"OnConnect", 0>>
      OBVIOUS
    <3>2. Append(<< >>, e) = << e >>
      OBVIOUS
    <3> QED
      BY <1>1, <3>1, <3>2
  <2> QED
    BY <2>1 DEF Life!OnConnect, Life!Call
<1>2. CASE name = "OnMessage" /\ n = Len(h) /\ Told(h) /\ ~ Shut(c)
  <2>1. ~ (conn[p].dead \/ conn[p].state \in {"Closing", "Gone"})
    BY <1>2 DEF Shut
  <2>2. heard[p] # << >> /\ heard[p][Len(heard[p])][1] # "OnDisconnect"
    BY <1>2 DEF Told
  <2>3. heard'[p] = Append(heard[p], <<"OnMessage", Len(heard[p])>>)
    BY <1>2
  <2> QED
    BY <2>1, <2>2, <2>3 DEF Life!OnMessage, Life!Connected, Life!Call
<1> QED
  BY <1>1, <1>2 DEF NextCall

\* One piece of input is read.
LEMMA ConsumeKeeps ==
  ASSUME Rows(conn, inbox, peer, heard), InTime(conn, 1), NEW p \in Peers, ~ conn[p].dead,
         p \in Live(conn), inbox[p] # << >>, Consume(p, Received(conn[p]), Head(inbox[p])),
         inbox' = [inbox EXCEPT ![p] = Tail(@)], peer' = peer
  PROVE  Rows(conn', inbox', peer', heard') /\ InTime(conn', 1) /\ Live(conn') = Live(conn) /\ HeardOn
<1>1. PICK c, q, m, h, b : /\ c = Received(b) /\ b = conn[p] /\ q = inbox[p] /\ m = peer[p].begun /\ h = heard[p]
  OBVIOUS
<1>2. RowOK(b, q, m, h) /\ ConnOK(b) /\ b \in Connection /\ q # << >> /\ b.state \in {"Handshake", "Open", "Closing"}
  BY <1>1, RowIs DEF Live
<1>3. Later(b, c) /\ c.state = b.state /\ c.dead = b.dead /\ ConnOK(c) /\ RowOK(c, q, m, h)
  <2>1. Later(b, c) /\ c.state = b.state /\ c.dead = b.dead
    BY ONLY <1>1, <1>2, ReceivedLater
  <2>2. RowOK(c, q, m, h)
    BY ONLY <1>2, <2>1, RowLater
  <2> QED
    BY <2>1, <2>2 DEF RowOK
<1>4. PICK d : Outcome(p, c, q, m, h, d)
  <2>1. Consume(p, c, Head(q)) /\ ~ c.dead /\ c.state \in {"Handshake", "Open", "Closing"}
    BY <1>1, <1>2, <1>3
  <2> QED
    BY ONLY <1>2, <1>3, <2>1, ConsumeRead
<1>5. Read(c, d)
  BY <1>4 DEF Outcome
<1>6. /\ d.age <= 1 + Limit(d) /\ d.state \in {"Handshake", "Open", "Closing"} /\ (Shut(b) => Shut(d))
  <2>1. b.age \in Nat /\ c.age \in Nat /\ d.age \in Nat /\ b.age <= 1 + Limit(b)
    BY <1>1, <1>2, <1>3, <1>5, FieldsAre DEF InTime, ConnOK, Read
  <2>2. c.age <= b.age /\ Limit(c) = Limit(b)
    BY <1>3 DEF Later, Limit
  <2>3. Limit(b) \in Nat /\ Limit(d) \in Nat
    BY Parameters DEF Limit, Timeouts
  <2>4. d.age <= 1 + Limit(d)
    <3>1. CASE d.state = c.state
      <4>1. Limit(d) = Limit(c) /\ d.age <= c.age
        BY <1>5, <3>1 DEF Limit, Read
      <4> QED
        BY ONLY <2>1, <2>2, <2>3, <4>1
    <3>2. CASE d.state # c.state
      <4>1. d.age = 0
        BY <1>5, <3>2 DEF Read
      <4> QED
        BY ONLY <2>3, <4>1
    <3> QED
      BY <3>1, <3>2
  <2> QED
    BY <1>3, <1>5, <2>4 DEF Read, Later
<1>7. PICK t, cs : t = Tail(q) /\ cs = Put(conn, p, d)
  OBVIOUS
<1>8. inbox' = Put(inbox, p, t) /\ peer' = peer
  BY <1>1, <1>7 DEF Put
<1>9. ASSUME NEW g, RowOK(d, t, m, g), heard' = Put(heard, p, g)
      PROVE  /\ Rows(cs, inbox', peer', heard') /\ InTime(cs, 1)
             /\ \A o \in Peers : /\ cs[o] = IF o = p THEN d ELSE conn[o]
                                 /\ heard'[o] = IF o = p THEN g ELSE heard[o]
  <2>1. PICK bs, qs, ps, hs, slack : bs = conn /\ qs = inbox /\ ps = peer /\ hs = heard /\ slack = 1
    OBVIOUS
  <2>2. /\ Rows(bs, qs, ps, hs) /\ InTime(bs, slack)
        /\ RowOK(d, t, ps[p].begun, g) /\ d.age <= slack + Limit(d)
    BY <1>1, <1>6, <1>9, <2>1
  <2>3. Rows(Put(bs, p, d), Put(qs, p, t), ps, Put(hs, p, g)) /\ InTime(Put(bs, p, d), slack)
    BY ONLY <2>2, p \in Peers, OneRow
  <2>4. \A o \in Peers : /\ cs[o] = IF o = p THEN d ELSE conn[o]
                         /\ heard'[o] = IF o = p THEN g ELSE heard[o]
    <3>1. conn \in [Peers -> Connection] /\ heard \in [Peers -> Seq(Calling)]
      BY DEF Rows
    <3> QED
      BY <1>7, <1>9, <3>1 DEF Put
  <2> QED
    BY <1>7, <1>8, <1>9, <2>1, <2>3, <2>4
<1>10. ASSUME \A o \in Peers : cs[o] = IF o = p THEN d ELSE conn[o]
       PROVE  Live(cs) = Live(conn) /\ \A o \in Peers : Shut(conn[o]) => Shut(cs[o])
  BY <1>1, <1>2, <1>6, <1>10 DEF Live
<1>11. CASE Quiet(p, d) /\ RowOK(d, Tail(q), m, h)
  <2>1. conn' = cs /\ heard' = heard
    BY <1>7, <1>11 DEF Quiet, Put
  <2>2. heard' = Put(heard, p, h)
    <3>1. heard \in [Peers -> Seq(Calling)]
      BY DEF Rows
    <3> QED
      BY <1>1, <2>1, <3>1 DEF Put
  <2>3. RowOK(d, t, m, h)
    BY <1>7, <1>11
  <2> QED
    BY <1>9, <1>10, <2>1, <2>2, <2>3 DEF HeardOn
<1>12. ASSUME NEW name, NEW n, Calls(p, d, name, n), NextCall(h, c, name, n), RowOK(d, Tail(q), m, Append(h, <<name, n>>))
       PROVE  Rows(conn', inbox', peer', heard') /\ InTime(conn', 1) /\ Live(conn') = Live(conn) /\ HeardOn
  <2>1. PICK g : g = Append(h, <<name, n>>)
    OBVIOUS
  <2>2. heard' = Put(heard, p, g) /\ RowOK(d, t, m, g)
    BY <1>1, <1>7, <1>12, <2>1 DEF Calls, Put
  <2>3. /\ Rows(cs, inbox', peer', heard') /\ InTime(cs, 1)
        /\ \A o \in Peers : /\ cs[o] = IF o = p THEN d ELSE conn[o]
                            /\ heard'[o] = IF o = p THEN g ELSE heard[o]
    BY <1>9, <2>2
  <2>4. PICK ds, qs, ps, hs, slack : ds = conn' /\ qs = inbox' /\ ps = peer' /\ hs = heard' /\ slack = 1
    OBVIOUS
  <2>5. ds \in Reactions(cs)
    BY <1>7, <1>12, <2>4 DEF Calls, Put
  <2>6. Rows(cs, qs, ps, hs) /\ InTime(cs, slack) /\ slack \in Nat
    BY <2>3, <2>4
  <2>7. \A o \in Peers : ConnOK(cs[o])
    BY ONLY <2>6, RowIs
  <2>8. ds = [o \in Peers |-> ds[o]] /\ \A o \in Peers : Later(cs[o], ds[o])
    BY ONLY <2>5, <2>7, ReactionsLater
  <2>9. /\ Rows(ds, qs, ps, hs) /\ InTime(ds, slack) /\ Live(ds) = Live(cs)
        /\ \A o \in Peers : Shut(cs[o]) => Shut(ds[o])
    BY ONLY <2>6, <2>8, RowsLater
  <2>10. Live(cs) = Live(conn) /\ \A o \in Peers : Shut(conn[o]) => Shut(cs[o])
    BY <1>10, <2>3
  <2>11. Life!OnConnect(p) \/ Life!OnMessage(p)
    <3>1. Shut(conn[p]) => Shut(c)
      BY <1>1, <1>3 DEF Shut
    <3>2. heard'[p] = Append(h, <<name, n>>)
      BY <2>1, <2>3
    <3> QED
      BY <1>1, <1>12, <3>1, <3>2, HeardAfterCall
  <2>12. HeardOn
    BY <2>3, <2>4, <2>9, <2>10, <2>11 DEF HeardOn
  <2> QED
    BY <2>4, <2>9, <2>10, <2>12
<1> QED
  BY <1>4, <1>11, <1>12 DEF Outcome

LEMMA ReadFromKeeps ==
  ASSUME TransportInv, NEW p \in Peers, ReadFrom(p)
  PROVE  TransportInv' /\ HeardOn
<1>1. Rows(conn, inbox, peer, heard) /\ InTime(conn, 1) /\ LoopInv /\ step = "Reading" /\ p \in ready
  BY DEF TransportInv, ReadFrom
<1>2. peer' = peer /\ step' = "Reading" /\ elapsed' = elapsed
  BY <1>1 DEF ReadFrom
<1>3. CASE conn[p].dead /\ ready' = ready \ {p} /\ turn' = Nobody /\ UNCHANGED <<conn, inbox, heard>>
  <2>1. LoopInv'
    BY <1>1, <1>2, <1>3 DEF LoopInv
  <2> QED
    BY <1>1, <1>2, <1>3, <2>1 DEF TransportInv, HeardOn
<1>4. CASE /\ ~ conn[p].dead
           /\ Consume(p, Received(conn[p]), Head(inbox[p]))
           /\ inbox' = [inbox EXCEPT ![p] = Tail(@)]
           /\ \/ ready' = ready \ {p} /\ turn' = Nobody
              \/ inbox'[p] # << >> /\ ~ conn'[p].dead /\ turn' = p /\ UNCHANGED ready
  <2>1. p \in Live(conn) /\ inbox[p] # << >>
    BY <1>1 DEF LoopInv
  <2>2. Rows(conn', inbox', peer', heard') /\ InTime(conn', 1) /\ Live(conn') = Live(conn) /\ HeardOn
    BY <1>1, <1>2, <1>4, <2>1, ConsumeKeeps
  <2>3. \A o \in Peers \ {p} : inbox'[o] = inbox[o]
    BY <1>1, <1>4 DEF Rows
  <2>4. LoopInv'
    BY <1>1, <1>2, <1>4, <2>2, <2>3 DEF LoopInv
  <2> QED
    BY <1>2, <2>2, <2>4 DEF TransportInv
<1> QED
  BY <1>3, <1>4 DEF ReadFrom

-----------------------------------------------------------------------------
(* The end of a pass, and of the loop.                                     *)

\* A connection that is reaped.
Bye(c, h) == IF c.announced THEN Append(h, <<"OnDisconnect", 0>>) ELSE h

LEMMA GoneRow ==
  ASSUME NEW c, NEW q, NEW m, NEW h, RowOK(c, q, m, h),
         NEW d, d = Blank("Gone"), NEW none, none = << >>, NEW zero, zero = 0, NEW g, g = Bye(c, h)
  PROVE  RowOK(d, none, zero, g) /\ d.age = 0
<1>1. ConnOK(d) /\ d.age = 0 /\ d.state = "Gone" /\ ~ d.announced
  BY BlankOK
<1>2. none \in Seq(Items)
  BY EmptySeq
<1>3. g \in Seq(Calling)
  <2>1. h \in Seq(Calling) /\ <<"OnDisconnect", 0>> \in Calling
    BY DEF RowOK, Calling
  <2> QED
    BY <2>1 DEF Bye
<1> QED
  BY <1>1, <1>2, <1>3 DEF RowOK

LEMMA ReapKeeps ==
  ASSUME Rows(conn, inbox, peer, heard), NEW cs, Rows(cs, inbox, peer, heard), \A p \in Peers : HasTime(cs[p]),
         \A p \in Peers : Shut(conn[p]) => Shut(cs[p]), Reap(cs)
  PROVE  Rows(conn', inbox', peer', heard') /\ InTime(conn', 0) /\ HeardOn
<1> DEFINE gone == {p \in Live(cs) : cs[p].dead}
           told == {p \in gone : cs[p].announced}
           left == [p \in Peers |-> IF p \in gone THEN [NoConnection EXCEPT !.state = "Gone"] ELSE cs[p]]
<1>1. /\ heard' = [p \in Peers |-> IF p \in told THEN Append(heard[p], <<"OnDisconnect", 0>>) ELSE heard[p]]
      /\ inbox' = [p \in Peers |-> IF p \in gone THEN << >> ELSE inbox[p]]
      /\ peer' = [p \in Peers |-> IF p \in gone THEN Silent ELSE peer[p]]
      /\ conn' \in IF told = {} THEN {left} ELSE Reactions(left)
  BY DEF Reap
<1>2. PICK ls, qs, ps, hs, ds, slack : /\ ls = left /\ qs = inbox' /\ ps = peer' /\ hs = heard' /\ ds = conn'
                                       /\ slack = 0
  OBVIOUS
<1>3. ASSUME NEW p \in Peers, p \in gone
      PROVE  /\ RowOK(ls[p], qs[p], ps[p].begun, hs[p]) /\ ls[p] = Blank("Gone") /\ ls[p].age <= Limit(ls[p])
             /\ hs[p] = IF cs[p].announced THEN Append(heard[p], <<"OnDisconnect", 0>>) ELSE heard[p]
             /\ ps[p] = Silent /\ qs[p] = << >>
  <2>1. /\ ls[p] = Blank("Gone") /\ qs[p] = << >> /\ ps[p] = Silent
        /\ hs[p] = IF cs[p].announced THEN Append(heard[p], <<"OnDisconnect", 0>>) ELSE heard[p]
    BY <1>1, <1>2, <1>3 DEF Blank
  <2>2. PICK c, q, m, h, d, g : c = cs[p] /\ q = inbox[p] /\ m = peer[p].begun /\ h = heard[p] /\ d = ls[p] /\ g = hs[p]
    OBVIOUS
  <2>3. RowOK(c, q, m, h)
    BY <2>2, RowIs
  <2>4. PICK none, zero : none = << >> /\ zero = 0
    OBVIOUS
  <2>5. d = Blank("Gone") /\ g = Bye(c, h) /\ ps[p].begun = zero
    BY <2>1, <2>2, <2>4 DEF Silent, Bye
  <2>6. RowOK(d, none, zero, g) /\ d.age = 0
    BY ONLY <2>3, <2>4, <2>5, GoneRow
  <2>7. Limit(d) \in Nat
    BY Parameters DEF Limit, Timeouts
  <2> QED
    BY <2>1, <2>2, <2>4, <2>5, <2>6, <2>7
<1>4. ASSUME NEW p \in Peers, p \notin gone
      PROVE  /\ RowOK(ls[p], qs[p], ps[p].begun, hs[p]) /\ ls[p] = cs[p] /\ ls[p].age <= Limit(ls[p])
             /\ hs[p] = heard[p] /\ ps[p] = peer[p] /\ qs[p] = inbox[p]
  <2>1. /\ ls[p] = cs[p] /\ qs[p] = inbox[p] /\ ps[p] = peer[p] /\ hs[p] = heard[p]
    BY <1>1, <1>2, <1>4
  <2>2. RowOK(cs[p], inbox[p], peer[p].begun, heard[p]) /\ ConnOK(cs[p]) /\ cs[p] \in Connection
    BY RowIs
  <2>3. cs[p].age <= Limit(cs[p])
    <3>1. CASE cs[p].dead
      <4>1. cs[p].state \in {"Away", "Gone"}
        BY <1>4, <2>2, <3>1, FieldsAre DEF Live
      <4>2. cs[p].age = 0
        BY <2>2, <4>1, BlankOK DEF ConnOK
      <4>3. Limit(cs[p]) \in Nat
        BY Parameters DEF Limit, Timeouts
      <4> QED
        BY <4>2, <4>3
    <3>2. CASE ~ cs[p].dead
      BY <3>2 DEF HasTime
    <3> QED
      BY <3>1, <3>2
  <2> QED
    BY <2>1, <2>2, <2>3
<1>5. Rows(ls, qs, ps, hs) /\ InTime(ls, slack)
  <2>1. \A p \in Peers : RowOK(ls[p], qs[p], ps[p].begun, hs[p])
    BY <1>3, <1>4
  <2>2. \A p \in Peers : ls[p] \in Connection /\ qs[p] \in Seq(Items) /\ hs[p] \in Seq(Calling)
    BY <2>1 DEF RowOK, ConnOK
  <2>3. \A p \in Peers : ps[p] \in [asked : BOOLEAN, begun : Nat, sent : Nat]
    <3>1. Silent \in [asked : BOOLEAN, begun : Nat, sent : Nat]
      BY DEF Silent
    <3>2. \A p \in Peers : peer[p] \in [asked : BOOLEAN, begun : Nat, sent : Nat]
      BY DEF Rows
    <3> QED
      BY <1>3, <1>4, <3>1, <3>2
  <2>4. /\ ls = [p \in Peers |-> ls[p]] /\ qs = [p \in Peers |-> qs[p]]
        /\ ps = [p \in Peers |-> ps[p]] /\ hs = [p \in Peers |-> hs[p]]
    BY <1>1, <1>2
  <2>5. /\ ls \in [Peers -> Connection] /\ qs \in [Peers -> Seq(Items)] /\ hs \in [Peers -> Seq(Calling)]
        /\ ps \in [Peers -> [asked : BOOLEAN, begun : Nat, sent : Nat]]
    BY ONLY <2>2, <2>3, <2>4
  <2>6. Rows(ls, qs, ps, hs)
    BY <2>1, <2>5 DEF Rows
  <2>7. ASSUME NEW p \in Peers PROVE ls[p].age <= slack + Limit(ls[p])
    <3>1. ls[p].age <= Limit(ls[p]) /\ Limit(ls[p]) \in Nat
      BY <1>3, <1>4, Parameters DEF Limit, Timeouts
    <3> QED
      BY <1>2, <3>1
  <2> QED
    BY <2>6, <2>7 DEF InTime
<1>6. ds = [p \in Peers |-> ds[p]] /\ \A p \in Peers : Later(ls[p], ds[p])
  <2>1. \A p \in Peers : ConnOK(ls[p])
    BY ONLY <1>5, RowIs
  <2>2. CASE told = {}
    <3>1. ds = ls
      BY <1>1, <1>2, <2>2
    <3>2. ls = [p \in Peers |-> ls[p]]
      BY <1>2
    <3> QED
      BY <2>1, <3>1, <3>2, LaterSelf
  <2>3. CASE told # {}
    <3>1. ds \in Reactions(ls)
      BY <1>1, <1>2, <2>3
    <3> QED
      BY ONLY <2>1, <3>1, ReactionsLater
  <2> QED
    BY <2>2, <2>3
<1>7. /\ Rows(ds, qs, ps, hs) /\ InTime(ds, slack) /\ \A p \in Peers : Shut(ls[p]) => Shut(ds[p])
  <2>1. slack \in Nat
    BY <1>2
  <2> QED
    BY ONLY <1>5, <1>6, <2>1, RowsLater
<1>8. \A p \in Peers : (Shut(conn[p]) => Shut(ds[p])) /\ (p \in gone => Shut(ds[p]))
  <2>1. ASSUME NEW p \in Peers, p \in gone PROVE Shut(ds[p])
    <3>1. Shut(ls[p])
      BY <1>3, <2>1, BlankOK DEF Shut
    <3> QED
      BY <1>7, <3>1
  <2>2. ASSUME NEW p \in Peers, p \notin gone, Shut(conn[p]) PROVE Shut(ds[p])
    BY <1>4, <1>7, <2>2
  <2> QED
    BY <2>1, <2>2
<1>9. ASSUME NEW p \in Peers PROVE heard'[p] = heard[p] \/ Life!OnDisconnect(p)
  <2>1. CASE p \in gone /\ cs[p].announced
    <3>1. Told(heard[p])
      BY <2>1, RowIs DEF RowOK
    <3>2. heard'[p] = Append(heard[p], <<"OnDisconnect", 0>>)
      BY <1>2, <1>3, <2>1
    <3>3. conn'[p].dead \/ conn'[p].state \in {"Closing", "Gone"}
      BY <1>2, <1>8, <2>1 DEF Shut
    <3> QED
      BY <3>1, <3>2, <3>3 DEF Life!OnDisconnect, Life!Connected, Life!Call, Told
  <2>2. CASE ~ (p \in gone /\ cs[p].announced)
    BY <1>2, <1>3, <1>4, <2>2
  <2> QED
    BY <2>1, <2>2
<1> QED
  BY <1>2, <1>7, <1>8, <1>9 DEF HeardOn

LEMMA EndPassKeeps ==
  ASSUME TransportInv, EndPass
  PROVE  TransportInv' /\ HeardOn
<1>1. PICK cs \in OneOfEach([p \in Peers |-> Served(conn[p])]) : Reap(cs)
  BY DEF EndPass
<1>2. Rows(conn, inbox, peer, heard) /\ InTime(conn, 1) /\ LoopInv /\ step = "Reading"
  BY DEF TransportInv, EndPass
<1>3. cs = [p \in Peers |-> cs[p]] /\ \A p \in Peers : cs[p] \in Served(conn[p])
  <2>1. PICK S : S = [p \in Peers |-> Served(conn[p])]
    OBVIOUS
  <2>2. cs \in OneOfEach(S)
    BY <2>1
  <2>3. cs = [p \in Peers |-> cs[p]] /\ \A p \in Peers : cs[p] \in S[p]
    BY ONLY <2>2, OneOfEachIs
  <2> QED
    BY <2>1, <2>3
<1>4. ASSUME NEW p \in Peers PROVE Later(conn[p], cs[p]) /\ HasTime(cs[p])
  <2>1. PICK c, d : c = conn[p] /\ d = cs[p]
    OBVIOUS
  <2>2. ConnOK(c) /\ d \in Served(c)
    BY <1>2, <1>3, <2>1, RowIs
  <2>3. Later(c, d) /\ HasTime(d)
    BY ONLY <2>2, ServedLater
  <2> QED
    BY <2>1, <2>3
<1>5. Rows(cs, inbox, peer, heard) /\ \A p \in Peers : Shut(conn[p]) => Shut(cs[p])
  <2>1. PICK bs, qs, ps, hs, slack : bs = conn /\ qs = inbox /\ ps = peer /\ hs = heard /\ slack = 1
    OBVIOUS
  <2>2. Rows(bs, qs, ps, hs) /\ InTime(bs, slack) /\ slack \in Nat /\ \A p \in Peers : Later(bs[p], cs[p])
    BY <1>2, <1>4, <2>1
  <2>3. Rows(cs, qs, ps, hs) /\ \A p \in Peers : Shut(bs[p]) => Shut(cs[p])
    BY ONLY <1>3, <2>2, RowsLater
  <2> QED
    BY <2>1, <2>3
<1>6. Rows(conn', inbox', peer', heard') /\ InTime(conn', 0) /\ HeardOn
  BY <1>1, <1>2, <1>4, <1>5, ReapKeeps
<1>7. step' = "Idle" /\ elapsed' = 0 /\ ready' = {} /\ turn' = turn /\ ready = {}
  BY DEF EndPass
<1>8. LoopInv'
  BY <1>2, <1>7 DEF LoopInv
<1> QED
  BY <1>6, <1>7, <1>8 DEF TransportInv

LEMMA ShutdownKeeps ==
  ASSUME TransportInv, Shutdown
  PROVE  TransportInv' /\ HeardOn
<1>1. PICK cs : cs = [p \in Peers |-> [conn[p] EXCEPT !.dead = p \in Live(conn)]]
  OBVIOUS
<1>2. Rows(conn, inbox, peer, heard) /\ InTime(conn, 0) /\ LoopInv /\ step = "Idle"
  BY DEF TransportInv, Shutdown
<1>3. ASSUME NEW p \in Peers PROVE Later(conn[p], cs[p]) /\ HasTime(cs[p])
  <2>1. PICK c, d, v : c = conn[p] /\ d = cs[p] /\ v = (p \in Live(conn))
    OBVIOUS
  <2>2. ConnOK(c) /\ c \in Connection /\ d = [c EXCEPT !.dead = v] /\ v \in BOOLEAN
    BY <1>1, <1>2, <2>1, RowIs
  <2>3. CASE p \in Live(conn)
    <3>1. c.state \in {"Handshake", "Open", "Closing"} /\ (c.dead => v) /\ v
      BY <2>1, <2>3 DEF Live
    <3>2. Later(c, d) /\ d.dead = v
      BY ONLY <2>2, <3>1, DeadLater
    <3> QED
      BY <2>1, <3>1, <3>2 DEF HasTime
  <2>4. CASE p \notin Live(conn)
    <3>1. c.state \in {"Away", "Gone"}
      BY <2>1, <2>2, <2>4, FieldsAre DEF Live
    <3>2. c.dead = v /\ c.age = 0
      <4>1. c = Blank(c.state)
        BY <2>2, <3>1 DEF ConnOK
      <4>2. ~ c.dead /\ c.age = 0
        BY <3>1, <4>1, BlankOK
      <4>3. c.dead \in BOOLEAN
        BY <2>2, FieldsAre
      <4> QED
        BY <2>1, <2>4, <4>2, <4>3
    <3>3. d = c
      BY <2>2, <3>2 DEF Connection
    <3>4. Limit(c) \in Nat
      BY Parameters DEF Limit, Timeouts
    <3> QED
      BY <2>1, <2>2, <3>2, <3>3, <3>4, LaterSelf DEF HasTime
  <2> QED
    BY <2>3, <2>4
<1>4. Rows(cs, inbox, peer, heard) /\ \A p \in Peers : Shut(conn[p]) => Shut(cs[p])
  <2>1. PICK bs, qs, ps, hs, slack : bs = conn /\ qs = inbox /\ ps = peer /\ hs = heard /\ slack = 0
    OBVIOUS
  <2>2. /\ Rows(bs, qs, ps, hs) /\ InTime(bs, slack) /\ slack \in Nat
        /\ cs = [p \in Peers |-> cs[p]] /\ \A p \in Peers : Later(bs[p], cs[p])
    BY <1>1, <1>2, <1>3, <2>1
  <2>3. Rows(cs, qs, ps, hs) /\ \A p \in Peers : Shut(bs[p]) => Shut(cs[p])
    BY ONLY <2>2, RowsLater
  <2> QED
    BY <2>1, <2>3
<1>5. Reap(cs)
  BY <1>1 DEF Shutdown
<1>6. Rows(conn', inbox', peer', heard') /\ InTime(conn', 0) /\ HeardOn
  BY <1>2, <1>3, <1>4, <1>5, ReapKeeps
<1>7. step' = "Stopped" /\ elapsed' = elapsed /\ ready' = ready /\ turn' = turn
  BY DEF Shutdown
<1>8. LoopInv'
  BY <1>2, <1>7 DEF LoopInv
<1> QED
  BY <1>6, <1>7, <1>8 DEF TransportInv

-----------------------------------------------------------------------------
(* The theorems.                                                           *)

LEMMA InitKeeps ==
  ASSUME Init
  PROVE  TransportInv
<1>1. PICK blank, none : blank = Blank("Away") /\ none = << >>
  OBVIOUS
<1>2. /\ conn = [p \in Peers |-> blank] /\ inbox = [p \in Peers |-> none] /\ peer = [p \in Peers |-> Silent]
      /\ heard = [p \in Peers |-> none] /\ step = "Idle" /\ elapsed = 0 /\ ready = {} /\ turn = Nobody
  <2>1. blank = NoConnection
    BY <1>1 DEF Blank, NoConnection
  <2> QED
    BY <1>1, <2>1 DEF Init
<1>3. /\ ConnOK(blank) /\ blank \in Connection /\ blank.age = 0 /\ blank.state = "Away" /\ ~ blank.announced
      /\ Limit(blank) \in Nat
  BY <1>1, BlankOK, Parameters DEF ConnOK, Limit, Timeouts
<1>4. none \in Seq(Items) /\ none \in Seq(Calling) /\ Len(none) = 0
  BY <1>1, EmptySeq
<1>5. RowOK(blank, none, 0, none)
  <2>1. Begun(blank, none) = 0
    BY <1>3 DEF Begun
  <2>2. InOrder(none, 0, 0)
    BY <1>1, <1>4 DEF InOrder
  <2> QED
    BY <1>1, <1>3, <1>4, <2>1, <2>2 DEF RowOK
<1>6. Silent.begun = 0 /\ Silent \in [asked : BOOLEAN, begun : Nat, sent : Nat]
  BY DEF Silent
<1>7. Rows(conn, inbox, peer, heard)
  BY <1>2, <1>3, <1>4, <1>5, <1>6 DEF Rows
<1>8. InTime(conn, 0)
  BY <1>2, <1>3 DEF InTime
<1>9. LoopInv
  BY <1>2 DEF LoopInv
<1> QED
  BY <1>2, <1>7, <1>8, <1>9 DEF TransportInv

LEMMA StepKeeps ==
  ASSUME TransportInv, [Next]_vars
  PROVE  TransportInv' /\ HeardOn
<1>1. CASE UNCHANGED vars
  BY <1>1 DEF vars, TransportInv, Rows, InTime, LoopInv, Live, HeardOn
<1>2. ASSUME NEW p \in Peers, PeerSends(p) PROVE TransportInv' /\ HeardOn
  BY <1>2, PeerSendsKeeps
<1>3. ASSUME NEW p \in Peers, ReadFrom(p) PROVE TransportInv' /\ HeardOn
  BY <1>3, ReadFromKeeps
<1>4. ASSUME NEW ms \in {0, 1}, BeginPass(ms) PROVE TransportInv' /\ HeardOn
  BY <1>4, BeginPassKeeps
<1>5. CASE EndPass
  BY <1>5, EndPassKeeps
<1>6. CASE Tick
  BY <1>6, TickKeeps
<1>7. CASE Shutdown
  BY <1>7, ShutdownKeeps
<1> QED
  BY <1>1, <1>2, <1>3, <1>4, <1>5, <1>6, <1>7 DEF Next

\* The invariant: every connection, with what its peer sent and what the handler heard, is in
\* order in every reachable state.
THEOREM TransportKept == Spec => []TransportInv
<1>1. Init => TransportInv
  BY InitKeeps
<1>2. TransportInv /\ [Next]_vars => TransportInv'
  BY StepKeeps
<1> QED
  BY <1>1, <1>2, PTL DEF Spec

\* Every variable keeps its type, and no connection grows older than its timeout and one pass.
THEOREM TransportTypes == Spec => []TypeOK
<1>1. TransportInv => TypeOK
  <2> SUFFICES ASSUME TransportInv PROVE TypeOK
    OBVIOUS
  <2>1. Rows(conn, inbox, peer, heard) /\ LoopInv
    BY DEF TransportInv
  <2>2. ASSUME NEW p \in Peers PROVE conn[p].age <= 1 + Limit(conn[p])
    <3>1. conn[p].age \in Nat /\ Limit(conn[p]) \in Nat
      BY <2>1, RowIs, FieldsAre, Parameters DEF Limit, Timeouts
    <3>2. conn[p].age <= (IF step = "Reading" THEN 1 ELSE 0) + Limit(conn[p])
      BY DEF TransportInv, InTime
    <3> QED
      BY <3>1, <3>2
  <2> QED
    BY <2>1, <2>2 DEF TypeOK, Rows, LoopInv, Items, Calling, Limit
<1> QED
  BY <1>1, TransportKept, PTL

\* A closing connection has one close frame to send, the last thing, and is half-closed when that
\* is written and not before (FlushWrites, BeginClose): whatever was queued, by the loop or
\* the handler, whatever part of it was written, and whenever it was dropped for a slow peer.
THEOREM CloseIsLastKept == Spec => []CloseIsLast
<1>1. TransportInv => CloseIsLast
  <2> SUFFICES ASSUME TransportInv, NEW p \in Live(conn)
               PROVE  LET c == conn[p] closes == {i \in 1 .. Len(c.out) : c.out[i] = "close"} IN
                      IF c.state # "Closing" THEN closes = {} /\ ~ c.halfClosed
                      ELSE ~ c.dead => IF c.halfClosed THEN c.out = << >> ELSE c.out # << >> /\ closes = {Len(c.out)}
    BY DEF CloseIsLast
  <2>1. PICK c : c = conn[p]
    OBVIOUS
  <2>2. p \in Peers
    BY DEF Live
  <2>3. Ends(c) /\ c.out \in Seq(Words)
    BY <2>1, <2>2, RowIs, FieldsAre DEF TransportInv, ConnOK
  <2>4. Len(c.out) \in Nat /\ (c.out # << >> => Len(c.out) \in 1 .. Len(c.out))
    BY <2>3, EmptySeq
  <2>5. CASE c.state # "Closing"
    BY <2>1, <2>3, <2>5 DEF Ends
  <2>6. CASE c.state = "Closing"
    BY <2>1, <2>3, <2>4, <2>6 DEF Ends
  <2> QED
    BY <2>5, <2>6
<1> QED
  BY <1>1, TransportKept, PTL

\* The loop and the parser keep what HandlerLife promises a handler of each connection: it is
\* announced once, its messages come as they were sent, each once, none after it is closed
\* or broken, and its end comes once and last.
THEOREM PromisesKept == Spec => KeepsPromises
<1> DEFINE shut == {p \in Peers : conn[p].dead \/ conn[p].state \in {"Closing", "Gone"}}
<1>1. Init => Life!Init
  <2> SUFFICES ASSUME Init PROVE Life!Init
    OBVIOUS
  <2>1. \A p \in Peers : ~ (conn[p].dead \/ conn[p].state \in {"Closing", "Gone"})
    BY DEF Init, NoConnection
  <2> QED
    BY <2>1 DEF Life!Init, Init
<1>2. TransportInv /\ [Next]_vars => [Life!Next]_Life!vars
  <2> SUFFICES ASSUME TransportInv, [Next]_vars PROVE Life!Next
    OBVIOUS
  <2>1. TransportInv' /\ HeardOn
    BY StepKeeps
  <2>2. shut \subseteq shut'
    BY <2>1 DEF HeardOn, Shut
  <2>3. heard' \in [Peers -> Seq({"OnConnect", "OnMessage", "OnDisconnect"} \X Nat)]
    BY <2>1 DEF TransportInv, Rows, Calling
  <2>4. \A p \in Peers : heard'[p] = heard[p] \/ Life!OnConnect(p) \/ Life!OnMessage(p) \/ Life!OnDisconnect(p)
    BY <2>1 DEF HeardOn
  <2> QED
    BY <2>2, <2>3, <2>4 DEF Life!Next
<1> QED
  BY <1>1, <1>2, TransportKept, PTL DEF Spec, KeepsPromises, Life!Spec
=============================================================================
