---------------------------- MODULE MCTransport ----------------------------
(***************************************************************************)
(* Two peers: one may send a whole conversation, the other little, so that *)
(* what the handler does to one in a call about the other is seen.         *)
(***************************************************************************)
EXTENDS Transport

CONSTANTS a, b

MCItems == [p \in {a, b} |-> IF p = a THEN 3 ELSE 1]
=============================================================================
