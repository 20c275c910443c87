--------------------------- MODULE MCErrorBuffer ---------------------------
(* Instances of ErrorBuffer: c1 and its retry c2 carry the identity i1, c3 *)
(* reuses i1 for another payload or has the identity i2, c4 has none.      *)
EXTENDS ErrorBuffer

CONSTANTS c1, c2, c3, c4, i1, i2, p1, p2

MCReuse == [c \in Call |-> IF c = c4 THEN NoId ELSE i1]
MCTwoIds == [c \in Call |-> CASE c \in {c1, c2} -> i1 [] c = c3 -> i2 [] OTHER -> NoId]
MCDigest == [c \in Call |-> IF c = c3 THEN p2 ELSE p1]
MCSize == [c \in Call |-> 1]
=============================================================================
