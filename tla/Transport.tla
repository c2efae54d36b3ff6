----------------------------- MODULE Transport -----------------------------
(***************************************************************************)
(* The socket side of the server (TcpServer.cpp, the frames of             *)
(* WebSocket.cpp): one event loop that accepts, reads, writes, times out   *)
(* and closes connections and calls a handler.                             *)
(*                                                                         *)
(* Peers are free: they connect at any time, send anything, stop reading,  *)
(* close or vanish.  The handler is free too: in any call, and in any tick *)
(* between two passes, it may send to and close any connections.  Bytes    *)
(* are counted in frames: a write may stop inside one (half).  Input that  *)
(* completes nothing, or a pong, is the item "part"; "stop" is a close     *)
(* frame, or a request or frame that is refused; a frame that arrives in   *)
(* pieces arrives with its last piece.                                     *)
(***************************************************************************)
EXTENDS Integers, Sequences, FiniteSets

CONSTANTS
  Peers,
  MaxConnections, HandshakeTimeout, IdleTimeout, CloseGrace,   \* TcpServerConfig
  MaxOutbound,      \* frames that may wait for a peer
  MaxItems,         \* of the exploration: what a peer may send
  MaxQueue          \* of the exploration: pings are left out when so much waits

ASSUME TransportAssumption ==
  /\ MaxConnections \in Nat \ {0} /\ MaxOutbound \in Nat \ {0} /\ MaxQueue \in Nat
  /\ {HandshakeTimeout, IdleTimeout, CloseGrace} \subseteq Nat
  /\ MaxItems \in [Peers -> Nat]

VARIABLES
  conn,      \* what TcpServer knows of a peer's connection
  inbox,     \* what has arrived and is not read
  peer,      \* what a peer has done: sent its request, begun so many messages, sent so much
  step,      \* "Idle" between two passes of RunOnce, "Reading" in one, "Stopped"
  elapsed,   \* how much later this pass began than the one before
  ready,     \* the readable connections of this pass that are still to be read
  turn,      \* the one that is being read
  heard      \* the calls to the handler, by connection

vars == <<conn, inbox, peer, step, elapsed, ready, turn, heard>>

Nobody == "nobody"
Kinds == {"part", "request", "text", "first", "last", "ping", "stop", "gone"}
Item(kind, n) == [kind |-> kind, n |-> n]

Connection ==
  [state : {"Away", "Handshake", "Open", "Closing", "Gone"},
   out : Seq({"frame", "close"}), half : BOOLEAN,
   message : Nat,                \* the fragmented message being assembled, 0 = none
   announced : BOOLEAN, halfClosed : BOOLEAN, dead : BOOLEAN,
   age : Nat]    \* since acceptedAt; if open since lastRecv, if closing since the close frame

TypeOK ==
  /\ conn \in [Peers -> Connection]
  /\ inbox \in [Peers -> Seq([kind : Kinds, n : Nat])]
  /\ peer \in [Peers -> [asked : BOOLEAN, begun : Nat, sent : Nat]]
  /\ step \in {"Idle", "Reading", "Stopped"}
  /\ elapsed \in {0, 1} /\ ready \subseteq Peers /\ turn \in ready \cup {Nobody}
  /\ heard \in [Peers -> Seq({"OnConnect", "OnMessage", "OnDisconnect"} \X Nat)]
  /\ \A p \in Peers : conn[p].age <= 1 +
       CASE conn[p].state = "Handshake" -> HandshakeTimeout
         [] conn[p].state = "Open"      -> IdleTimeout
         [] OTHER                       -> CloseGrace

NoConnection ==
  [state |-> "Away", out |-> << >>, half |-> FALSE, message |-> 0, announced |-> FALSE,
   halfClosed |-> FALSE, dead |-> FALSE, age |-> 0]

Silent == [asked |-> FALSE, begun |-> 0, sent |-> 0]

Init ==
  /\ conn = [p \in Peers |-> NoConnection]
  /\ inbox = [p \in Peers |-> << >>]
  /\ peer = [p \in Peers |-> Silent]
  /\ step = "Idle" /\ elapsed = 0 /\ ready = {} /\ turn = Nobody
  /\ heard = [p \in Peers |-> << >>]

\* conns_
Live(cs) == {p \in Peers : cs[p].state \in {"Handshake", "Open", "Closing"}}

-----------------------------------------------------------------------------
(* The peers (not under src/).                                             *)

\* Anything at all, but frames only after the request.  What is sent to a closing connection
\* is read and dropped, like what was sent before it closed: only its end matters.  At any
\* time: what comes while a pass is reading might as well have come before it, or comes for
\* the next one.
MaySend(p, kind) ==
  \/ kind = "gone"
  \/ /\ conn[p].state # "Closing"
     /\ \/ kind \in {"part", "stop"}
        \/ kind = "request" /\ ~ peer[p].asked
        \/ kind \in {"text", "first", "ping"} /\ peer[p].asked
        \/ kind = "last" /\ peer[p].begun > 0

PeerSends(p) ==
  /\ step = "Idle" /\ peer[p].sent < MaxItems[p]
  /\ conn[p].state # "Gone" /\ ~ conn[p].dead
  /\ \E kind \in Kinds :
       LET n == peer[p].begun + IF kind \in {"text", "first"} THEN 1 ELSE 0 IN
       /\ MaySend(p, kind)
       /\ peer' = [peer EXCEPT ![p] = [asked |-> @.asked \/ kind = "request", begun |-> n,
                                       sent |-> IF kind = "gone" THEN MaxItems[p] ELSE @.sent + 1]]
       /\ inbox' = [inbox EXCEPT ![p] = Append(@, Item(kind, n))]
  /\ UNCHANGED <<conn, step, elapsed, ready, turn, heard>>

-----------------------------------------------------------------------------
(* What the loop and the handler do to one connection.                     *)

\* Queues a close frame and takes no more application data.
BeginClose(c) == [c EXCEPT !.out = Append(@, "close"), !.state = "Closing", !.age = 0, !.message = 0]

\* A client that does not keep up loses what waits for it and is closed.
Sent(c) ==
  IF c.state # "Open" \/ c.dead THEN c
  ELSE IF Len(c.out) >= MaxOutbound
  THEN BeginClose([c EXCEPT !.out = << >>, !.half = FALSE])
  ELSE [c EXCEPT !.out = Append(@, "frame")]

Closed(c) ==
  CASE c.state = "Open"      -> BeginClose(c)
    [] c.state = "Handshake" -> [c EXCEPT !.dead = TRUE]
    [] OTHER                 -> c

\* What one call of the handler may do.
Reactions(cs) ==
  {[p \in Peers |-> IF p \in C THEN Closed(IF p \in S THEN Sent(cs[p]) ELSE cs[p])
                    ELSE IF p \in S THEN Sent(cs[p]) ELSE cs[p]] :
     S \in SUBSET Live(cs), C \in SUBSET Live(cs)}

HalfClosed_AtOnce(c) == [c EXCEPT !.halfClosed = c.state = "Closing"]

\* FIN follows the last byte.
HalfClosed(c) ==
  IF c.out = << >> /\ c.state = "Closing" THEN [c EXCEPT !.halfClosed = TRUE] ELSE c

\* What may get written: k frames, and the beginning of the next one if h.
Written(c) ==
  {w \in (0 .. Len(c.out)) \X BOOLEAN :
     (w[2] => w[1] < Len(c.out)) /\ (w[1] = 0 /\ c.half => w[2])}

\* FlushWrites, for one connection; an error breaks it.
Flushed(c) ==
  IF c.dead THEN {c}
  ELSE {HalfClosed([c EXCEPT !.out = SubSeq(@, w[1] + 1, Len(@)), !.half = w[2]]) : w \in Written(c)}
         \cup (IF c.out = << >> THEN {} ELSE {[c EXCEPT !.dead = TRUE]})

\* One outcome for each peer.
OneOfEach(S) ==
  LET pairs == UNION {{p} \X S[p] : p \in Peers}
  IN {f \in [Peers -> {t[2] : t \in pairs}] : \A p \in Peers : <<p, f[p]>> \in pairs}

\* Timers, for one connection; ping: its last ping is long enough ago.
Timed(c, ping) ==
  CASE c.dead -> c
    [] ~ c.dead /\ c.state = "Handshake" -> [c EXCEPT !.dead = c.age > HandshakeTimeout]
    [] ~ c.dead /\ c.state = "Open" -> IF c.age > IdleTimeout THEN BeginClose(c)
                                       ELSE IF ping THEN [c EXCEPT !.out = Append(@, "frame")] ELSE c
    [] ~ c.dead /\ c.state = "Closing" -> [c EXCEPT !.dead = c.age >= CloseGrace]
    [] OTHER -> c

\* What is left of a connection after the writing and the timers that end a pass.
Served(c) ==
  UNION {UNION {Flushed(Timed(w, ping)) : ping \in {FALSE, Len(w.out) < MaxQueue}} : w \in Flushed(c)}

-----------------------------------------------------------------------------
(* A pass of the loop: RunOnce.                                            *)

Aged_DeadlineMoves(c, ms) == IF c.state = "Closing" THEN c ELSE [c EXCEPT !.age = @ + ms]

Aged(c, ms) == [c EXCEPT !.age = @ + ms]

\* AcceptPending
Accepted(cs, new) == [p \in Peers |-> IF p \in new THEN [NoConnection EXCEPT !.state = "Handshake"] ELSE cs[p]]

\* Up to the first read: what is queued goes out, poll reports who is readable, waiting
\* connections are accepted (these are read in the next pass).
BeginPass(ms) ==
  /\ step = "Idle" /\ step' = "Reading" /\ elapsed' = ms
  /\ \E cs \in OneOfEach([p \in Peers |-> Flushed(IF p \in Live(conn) THEN Aged(conn[p], ms) ELSE conn[p])]),
        new \in SUBSET {p \in Peers : conn[p].state = "Away"} :
       /\ new # {} => Cardinality(Live(cs) \cup new) <= MaxConnections
       /\ conn' = Accepted(cs, new)
       /\ ready' = {p \in Live(cs) : inbox[p] # << >> /\ ~ cs[p].dead}
  /\ UNCHANGED <<inbox, peer, turn, heard>>

\* Nothing for the handler.
Quiet(p, c) == conn' = [conn EXCEPT ![p] = c] /\ UNCHANGED heard

\* A call to the handler, which may do anything to any connection.
Calls(p, c, name, n) ==
  /\ heard' = [heard EXCEPT ![p] = Append(@, <<name, n>>)]
  /\ conn' \in Reactions([conn EXCEPT ![p] = c])

OnHandshake(p, c, kind) ==
  \/ kind = "part" /\ Quiet(p, c)
  \/ kind = "stop" /\ Quiet(p, BeginClose(c))     \* an HTTP error, then the end
  \/ /\ kind = "request"
     /\ Calls(p, [c EXCEPT !.state = "Open", !.out = Append(@, "frame"), !.announced = TRUE, !.age = 0], "OnConnect", 0)

\* WebSocketParser::Feed and the dispatch of its event.
OnFrame(p, c, item) ==
  \/ item.kind = "part" /\ Quiet(p, c)
  \/ item.kind = "ping" /\ Quiet(p, [c EXCEPT !.out = Append(@, "frame")])
  \/ item.kind = "stop" /\ Quiet(p, BeginClose(c))
  \/ item.kind \in {"text", "first"} /\ c.message # 0 /\ Quiet(p, BeginClose(c))
  \/ item.kind = "text" /\ c.message = 0 /\ Calls(p, c, "OnMessage", item.n)
  \/ item.kind = "first" /\ c.message = 0 /\ Quiet(p, [c EXCEPT !.message = item.n])
  \/ item.kind = "last" /\ c.message # 0 /\ Calls(p, [c EXCEPT !.message = 0], "OnMessage", c.message)
  \/ item.kind = "last" /\ c.message = 0 /\ Quiet(p, BeginClose(c))

Consume_WhileClosing(p, c, item) ==
  \/ item.kind = "gone" /\ Quiet(p, [c EXCEPT !.dead = TRUE])
  \/ item.kind # "gone" /\ c.state = "Handshake" /\ OnHandshake(p, c, item.kind)
  \/ item.kind # "gone" /\ c.state # "Handshake" /\ OnFrame(p, c, item)

Received(c) == IF c.state = "Open" THEN [c EXCEPT !.age = 0] ELSE c

\* One piece of input: to a closing connection it is read and dropped.
Consume(p, c, item) ==
  \/ item.kind = "gone" /\ Quiet(p, [c EXCEPT !.dead = TRUE])
  \/ item.kind # "gone" /\ c.state = "Closing" /\ Quiet(p, c)
  \/ item.kind # "gone" /\ c.state = "Handshake" /\ OnHandshake(p, c, item.kind)
  \/ item.kind # "gone" /\ c.state = "Open" /\ OnFrame(p, c, item)

\* ReadFrom goes on until nothing is left, the budget of the pass is used up or the
\* connection is broken.
ReadFrom(p) ==
  /\ step = "Reading" /\ p \in ready /\ turn \in {p, Nobody}
  /\ \/ /\ conn[p].dead
        /\ ready' = ready \ {p} /\ turn' = Nobody
        /\ UNCHANGED <<conn, inbox, heard>>
     \/ /\ ~ conn[p].dead
        /\ Consume(p, Received(conn[p]), Head(inbox[p]))
        /\ inbox' = [inbox EXCEPT ![p] = Tail(@)]
        /\ \/ ready' = ready \ {p} /\ turn' = Nobody
           \/ inbox'[p] # << >> /\ ~ conn'[p].dead /\ turn' = p /\ UNCHANGED ready
  /\ UNCHANGED <<peer, step, elapsed>>

\* Reap: the sockets are closed, with what they still held, then the handler is told.
Reap(cs) ==
  LET gone == {p \in Live(cs) : cs[p].dead}
      told == {p \in gone : cs[p].announced}
      left == [p \in Peers |-> IF p \in gone THEN [NoConnection EXCEPT !.state = "Gone"] ELSE cs[p]]
  IN /\ heard' = [p \in Peers |-> IF p \in told THEN Append(heard[p], <<"OnDisconnect", 0>>) ELSE heard[p]]
     /\ inbox' = [p \in Peers |-> IF p \in gone THEN << >> ELSE inbox[p]]
     /\ peer' = [p \in Peers |-> IF p \in gone THEN Silent ELSE peer[p]]
     /\ conn' \in IF told = {} THEN {left} ELSE Reactions(left)

EndPass ==
  /\ step = "Reading" /\ ready = {} /\ step' = "Idle" /\ elapsed' = 0
  /\ \E cs \in OneOfEach([p \in Peers |-> Served(conn[p])]) : Reap(cs)
  /\ UNCHANGED <<ready, turn>>

\* The ticks between two passes (RunServerLoop).
Tick ==
  /\ step = "Idle"
  /\ conn' \in Reactions(conn)
  /\ UNCHANGED <<inbox, peer, step, elapsed, ready, turn, heard>>

\* Whatever a socket still takes of a close frame is not followed up.
Shutdown ==
  /\ step = "Idle" /\ step' = "Stopped" /\ UNCHANGED elapsed
  /\ Reap([p \in Peers |-> [conn[p] EXCEPT !.dead = p \in Live(conn)]])
  /\ UNCHANGED <<ready, turn>>

Next ==
  \/ \E p \in Peers : PeerSends(p) \/ ReadFrom(p)
  \/ \E ms \in {0, 1} : BeginPass(ms)
  \/ EndPass
  \/ Tick
  \/ Shutdown

Spec == Init /\ [][Next]_vars

\* The loop of a server that is not stopped goes on for ever, and time with it.
LiveSpec == Spec /\ []<>(step = "Idle") /\ []<>(elapsed > 0)

-----------------------------------------------------------------------------
(* Properties.                                                             *)

\* The handler hears of a connection what HandlerLife promises: OnConnect, the messages
\* as they were sent, also those sent in pieces, and at last one
\* OnDisconnect; and no message after it, or the loop, has closed the connection, though
\* more may have been read already.
Life == INSTANCE HandlerLife WITH
  shut <- {p \in Peers : conn[p].dead \/ conn[p].state \in {"Closing", "Gone"}}
KeepsPromises == Life!Spec

\* A closing connection has exactly one close frame (or HTTP error) to send, as the last
\* thing, and is half-closed when that is written and not before.
CloseIsLast ==
  \A p \in Live(conn) :
    LET c == conn[p] closes == {i \in 1 .. Len(c.out) : c.out[i] = "close"} IN
    IF c.state # "Closing" THEN closes = {} /\ ~ c.halfClosed
    ELSE ~ c.dead => IF c.halfClosed THEN c.out = << >> ELSE c.out # << >> /\ closes = {Len(c.out)}

\* Whatever its peer does: a connection that closes or is broken goes, and so does one
\* whose peer has fallen silent, in the handshake or later.
GoneInTime ==
  \A p \in Peers :
    p \in Live(conn) /\ (conn[p].state = "Closing" \/ conn[p].dead \/ peer[p].sent = MaxItems[p])
      ~> conn[p].state = "Gone"

=============================================================================
