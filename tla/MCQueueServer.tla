--------------------------- MODULE MCQueueServer ---------------------------
(***************************************************************************)
(* Three connections that log in to accounts of their own, of which the    *)
(* first two are friends; the first connection may log in to the second's  *)
(* account instead, while it is connected or not.                          *)
(***************************************************************************)
EXTENDS QueueServer

\* Model values for accounts.
CONSTANTS Ann, Bob, Cyd

OneFriendship == {<<Ann, Bob>>, <<Bob, Ann>>}

AccountOf == CHOOSE f \in [Conns -> Accounts] : \A a, b \in Conns : f[a] = f[b] => a = b

\* Everybody logs in to an account of their own; the first may log in to the second's instead.
OwnAccounts == [id \in Conns |-> {NoAccount, AccountOf[id]} \cup {AccountOf[k] : k \in Conns \cap {2 * id}}]
OwnSpec == Init /\ [][Next /\ (\A id \in DOMAIN clients : clients[id].account \in OwnAccounts[id])']_vars /\ Fairness
=============================================================================
