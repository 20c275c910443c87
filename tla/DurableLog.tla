----------------------------- MODULE DurableLog -----------------------------
(***************************************************************************)
(* What the write-ahead log promises to the ingest path: a FIFO of items   *)
(* in which an acknowledged item stays until it is stored.  A crash may    *)
(* lose items nobody was promised, and leaves the others in their order;   *)
(* items are stored in the order they were appended.                       *)
(***************************************************************************)
EXTENDS Naturals, TLAPS

CONSTANT Item

VARIABLES
  place,   \* position of an item in the log; 0 while it is not there
  acked,   \* items whose producer has been told they are safe
  stored   \* items the consumer has taken over

vars == <<place, acked, stored>>

Init ==
  /\ place = [i \in Item |-> 0]
  /\ acked = {}
  /\ stored = {}

Append(i) ==
  /\ place[i] = 0 /\ i \notin stored \cup acked
  /\ place'[i] \in Nat
  /\ \A j \in Item : place[j] < place'[i]
  /\ place' = [place EXCEPT ![i] = place'[i]]
  /\ UNCHANGED <<acked, stored>>

Ack(I) ==
  /\ \A i \in I : place[i] > 0 \/ i \in stored
  /\ acked' = acked \cup I
  /\ UNCHANGED <<place, stored>>

Store(cut) ==
  LET taken == {i \in Item : 0 < place[i] /\ place[i] =< cut}
  IN /\ stored' = stored \cup taken
     /\ place' = [i \in Item |-> IF i \in taken THEN 0 ELSE place[i]]
     /\ UNCHANGED acked

Crash ==
  /\ place' \in [Item -> Nat]
  /\ \A i \in Item : place'[i] > 0 => place[i] > 0
  /\ \A i \in acked : place[i] > 0 => place'[i] > 0
  /\ \A i, j \in Item : place'[i] > 0 /\ place'[i] < place'[j] => place[i] < place[j]
  /\ UNCHANGED <<acked, stored>>

Next ==
  \/ \E i \in Item : Append(i)
  \/ \E I \in SUBSET Item : Ack(I)
  \/ \E cut \in {0} \cup {place[i] : i \in Item} : Store(cut)
  \/ Crash

Spec == Init /\ [][Next]_vars

(* The promise: an acknowledged item is in the log or has been stored.     *)
NothingAckedIsLost == \A i \in acked : place[i] > 0 \/ i \in stored

-----------------------------------------------------------------------------
(* The promise follows from the steps.                                     *)

LogInv == place \in [Item -> Nat] /\ acked \subseteq Item /\ NothingAckedIsLost

(* Whatever implements DurableLog loses nothing it acknowledged: an item   *)
(* leaves the log only by being stored or, unacknowledged, in a crash.     *)
THEOREM AckedItemsKept == Spec => []NothingAckedIsLost
<1>1. Init => LogInv
  BY DEF Init, LogInv, NothingAckedIsLost
<1>2. LogInv /\ [Next]_vars => LogInv'
  <2> SUFFICES ASSUME LogInv, [Next]_vars PROVE LogInv'
    OBVIOUS
  <2> USE DEF LogInv, NothingAckedIsLost
  <2>1. ASSUME NEW i \in Item, Append(i) PROVE LogInv'
    BY <2>1 DEF Append
  <2>2. ASSUME NEW I \in SUBSET Item, Ack(I) PROVE LogInv'
    BY <2>2 DEF Ack
  <2>3. ASSUME NEW cut \in {0} \cup {place[i] : i \in Item}, Store(cut) PROVE LogInv'
    BY <2>3 DEF Store
  <2>4. CASE Crash
    BY <2>4 DEF Crash
  <2>5. CASE UNCHANGED vars
    BY <2>5 DEF vars
  <2> QED BY <2>1, <2>2, <2>3, <2>4, <2>5 DEF Next
<1>3. LogInv => NothingAckedIsLost
  BY DEF LogInv
<1> QED BY <1>1, <1>2, <1>3, PTL DEF Spec
=============================================================================
