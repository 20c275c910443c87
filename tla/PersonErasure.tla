--------------------------- MODULE PersonErasure ----------------------------
(***************************************************************************)
(* Persons that are merged, described and erased,                          *)
(* internal/persons/service_identity.go: alias edges from key to key, a    *)
(* document of properties per key, and tombstones.                         *)
(*                                                                         *)
(* One site.  The service's mutex is held through each request; an erasure *)
(* writes key by key, and any of its writes may fail, or the process die   *)
(* between two: the rest is then undone work for a retry.  A document is   *)
(* there or blank.  The limits on the number of aliases, tombstones and    *)
(* properties, and the event rows, which an erasure leaves, are left out.  *)
(***************************************************************************)
EXTENDS Integers, FiniteSets

CONSTANTS Person, NoPerson   \* person keys, and no key

ASSUME PersonAssumption == NoPerson \notin Person /\ IsFiniteSet(Person)

VARIABLES
  aliasOf,     \* the active alias edges
  tombs,       \* the tombstoned keys
  described,   \* the keys whose document is not blank
  erasing,     \* the erasure under way: what each of its phases has left to do
  sought,      \* the groups somebody has asked to erase
  erased       \* the groups among them whose erasure was answered

personVars == <<aliasOf, tombs, described, erasing, sought, erased>>

NoErasure == [tomb |-> {}, blank |-> {}, detach |-> {}, root |-> NoPerson]

PersonInit ==
  /\ aliasOf = [k \in Person |-> NoPerson]
  /\ tombs = {} /\ described = {} /\ erasing = NoErasure
  /\ sought = {} /\ erased = {}

-----------------------------------------------------------------------------
PersonsFree == erasing = NoErasure

\* Resolver.Canonical: the end of the chain of edges.
Canonical(k) ==
  LET root[n \in 0..Cardinality(Person)] ==
        IF n = 0 THEN k
        ELSE IF aliasOf[root[n - 1]] = NoPerson THEN root[n - 1] ELSE aliasOf[root[n - 1]]
  IN root[Cardinality(Person)]

KeysOf(root) == {k \in Person : Canonical(k) = root}

IsErased(k) == k \in tombs \/ Canonical(k) \in tombs

SetProperties(k) ==
  /\ PersonsFree /\ ~IsErased(k)
  /\ \/ described' = described \cup {k}
     \/ described' = described \ {k}    \* every key of it removed or replaced
  /\ UNCHANGED <<aliasOf, tombs, erasing, sought, erased>>

MergePersons(from, into) ==
  /\ PersonsFree /\ from # into
  /\ {from, into, Canonical(into)} \cap tombs = {}
  /\ aliasOf[from] = NoPerson /\ Canonical(into) # from
  /\ aliasOf' = [aliasOf EXCEPT ![from] = Canonical(into)]
  /\ UNCHANGED <<tombs, described, erasing, sought, erased>>

\* Mutant: the key that was named, and not its whole group.
EraseKeysNamed(k) == {k}

EraseKeys(k) == KeysOf(Canonical(k))

Erase(k) ==
  /\ PersonsFree
  /\ erasing' = [tomb |-> EraseKeys(k), blank |-> EraseKeys(k),
                 detach |-> EraseKeys(k) \ {Canonical(k)}, root |-> Canonical(k)]
  /\ sought' = sought \cup {KeysOf(Canonical(k))}
  /\ UNCHANGED <<aliasOf, tombs, described, erased>>

\* The canonical key comes first, the rest in some order.
PutTombstone(k) ==
  /\ k \in erasing.tomb /\ (k = erasing.root \/ erasing.root \notin erasing.tomb)
  /\ tombs' = tombs \cup {k}
  /\ erasing' = [erasing EXCEPT !.tomb = @ \ {k}]
  /\ UNCHANGED <<aliasOf, described, sought, erased>>

BlankProperties(k) ==
  /\ erasing.tomb = {} /\ k \in erasing.blank
  /\ described' = described \ {k}
  /\ erasing' = [erasing EXCEPT !.blank = @ \ {k}]
  /\ UNCHANGED <<aliasOf, tombs, sought, erased>>

\* Mutant: edges go as soon as the tombstones are there.
DetachAllowedEarly == erasing.tomb = {}

DetachAllowed == erasing.tomb = {} /\ erasing.blank = {}

Detach(k) ==
  /\ DetachAllowed /\ k \in erasing.detach
  /\ aliasOf' = [aliasOf EXCEPT ![k] = NoPerson]
  /\ erasing' = [erasing EXCEPT !.detach = @ \ {k}]
  /\ UNCHANGED <<tombs, described, sought, erased>>

\* The answer: whoever had asked for one of these keys is served.
EraseAnswered ==
  /\ ~PersonsFree /\ erasing.tomb = {} /\ erasing.blank = {} /\ erasing.detach = {}
  /\ erased' = erased \cup {g \in sought : erasing.root \in g}
  /\ erasing' = NoErasure
  /\ UNCHANGED <<aliasOf, tombs, described, sought>>

\* A write fails, or the process dies between two writes.  (A write that was
\* made without its answer is the write, followed by this.)
EraseFails ==
  /\ ~PersonsFree /\ erasing' = NoErasure
  /\ UNCHANGED <<aliasOf, tombs, described, sought, erased>>

PersonNext ==
  \/ \E k \in Person : \/ SetProperties(k) \/ Erase(k)
                       \/ PutTombstone(k) \/ BlankProperties(k) \/ Detach(k)
  \/ \E from, into \in Person : MergePersons(from, into)
  \/ EraseAnswered \/ EraseFails

PersonSpec == PersonInit /\ [][PersonNext]_personVars

-----------------------------------------------------------------------------
PersonTypeOK ==
  /\ aliasOf \in [Person -> Person \cup {NoPerson}]
  /\ tombs \subseteq Person /\ described \subseteq Person
  /\ erasing.tomb \subseteq Person /\ erasing.blank \subseteq Person
  /\ erasing.detach \subseteq Person /\ erasing.root \in Person \cup {NoPerson}
  /\ sought \subseteq SUBSET Person /\ erased \subseteq sought

(* An erasure that was answered has erased the person that somebody asked  *)
(* to erase, as it was then: every key of the group is tombstoned and has  *)
(* no properties, whichever of its keys the earlier, interrupted attempts  *)
(* and the retry were made with, and nothing is written for it again.      *)
ErasedForGood ==
  \A g \in erased : g \subseteq tombs /\ g \cap described = {}

(* "A merge would create a cycle": every key has a canonical one.          *)
AliasesEnd == \A k \in Person : aliasOf[Canonical(k)] = NoPerson

ErasureSound == ErasedForGood /\ AliasesEnd
=============================================================================
