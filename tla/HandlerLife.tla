---------------------------- MODULE HandlerLife ----------------------------
(***************************************************************************)
(* What a transport promises the handler of its connections                *)
(* (IServerHandler): one OnConnect, then the peer's messages, each once    *)
(* and in the order they were sent, then one OnDisconnect -- and no        *)
(* message of a connection that has been closed.                           *)
(***************************************************************************)
EXTENDS Naturals, Sequences

CONSTANT Peers

VARIABLES
  heard,   \* the calls about a connection, each with the number of its message
  shut     \* the connections that are closing, broken or gone

vars == <<heard, shut>>

Call(name, n) == <<name, n>>

Init == heard = [p \in Peers |-> << >>] /\ shut = {}

Connected(p) == heard[p] # << >> /\ heard[p][Len(heard[p])][1] # "OnDisconnect"

OnConnect(p)    == heard[p] = << >> /\ heard'[p] = <<Call("OnConnect", 0)>>
OnMessage(p)    == Connected(p) /\ p \notin shut /\ heard'[p] = Append(heard[p], Call("OnMessage", Len(heard[p])))
OnDisconnect(p) == Connected(p) /\ p \in shut' /\ heard'[p] = Append(heard[p], Call("OnDisconnect", 0))

Next ==
  /\ shut \subseteq shut'
  /\ heard' \in [Peers -> Seq({"OnConnect", "OnMessage", "OnDisconnect"} \X Nat)]
  /\ \A p \in Peers : heard'[p] = heard[p] \/ OnConnect(p) \/ OnMessage(p) \/ OnDisconnect(p)

Spec == Init /\ [][Next]_vars
=============================================================================
