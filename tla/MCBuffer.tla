----------------------------- MODULE MCBuffer ------------------------------
(* Instances of Buffer for TLC.  c2 is a retry of c1; c3 reuses the key of *)
(* c1 for another batch, which shares an event with it; c4 has no ids.     *)
EXTENDS Buffer

CONSTANTS c1, c2, c3, c4, e1, e2, e3, k1, k2

MCBatch ==
  [c \in Call |-> CASE c \in {c1, c2} -> <<e1, e2>> [] c = c3 -> <<e2, e3>> [] c = c4 -> <<e3>>]
MCKey == [c \in Call |-> CASE c \in {c1, c2, c3} -> k1 [] c = c4 -> NoKey]
MCTwoKeys == [c \in Call |-> IF c = c3 THEN k2 ELSE k1]
MCSize == [e \in Event |-> IF e = e1 THEN 2 ELSE 1]
=============================================================================
