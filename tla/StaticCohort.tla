---------------------------- MODULE StaticCohort ----------------------------
(***************************************************************************)
(* One static cohort, internal/cohorts/static.go and cohorts.go: its list  *)
(* is the newest row of every entity, its summary the newest row of the    *)
(* cohort, and an edit writes the first in chunks and then the second.     *)
(*                                                                         *)
(* A write may fail and may have been carried out when it does.  The clock *)
(* shows what it likes.  A rename and a refresh write the same row.        *)
(***************************************************************************)
EXTENDS Integers, FiniteSets

CONSTANTS
  Entity,
  ListLimit,   \* MaxStaticMembers
  Editor,
  MaxClock,    \* bound on what the clock shows
  MaxMemberVersion   \* bound on the versions edits reach

ASSUME CohortAssumption ==
  /\ IsFiniteSet(Entity)   \* those the site has seen
  /\ ListLimit \in Nat /\ MaxClock \in Nat /\ MaxMemberVersion \in Nat

VARIABLES
  members,    \* the rows of cohort_members, as <<entity, removed, version>>
  summaries,  \* the rows of cohorts: name, member_count, updated_at
  editor,     \* the edits under way
  list,       \* entities answered as being in ("in") or not in the list ("out"),
              \* until an edit of theirs fails
  exact       \* no edit failed since the last answered one

cohortVars == <<members, summaries, editor, list, exact>>

NoEdit == [at |-> "off", rows |-> {}, summary |-> {}, holds |-> "unknown", of |-> {}]

\* As CreateStatic leaves it.
CohortInit ==
  /\ \E ids \in SUBSET Entity :
       /\ Cardinality(ids) =< ListLimit
       /\ members = {<<x, 0, 0>> : x \in ids}
       /\ summaries = {[named |-> TRUE, count |-> Cardinality(ids), at |-> 0]}
       /\ list = [x \in Entity |-> IF x \in ids THEN "in" ELSE "out"]
  /\ editor = [e \in Editor |-> NoEdit] /\ exact = TRUE

-----------------------------------------------------------------------------
\* The highest version of an entity wins, on a tie the tombstone.
Beats(r, q) == r[3] > q[3] \/ (r[3] = q[3] /\ r[2] >= q[2])

CollapseMembers ==
  {r[1] : r \in {q \in members :
                   q[2] = 0 /\ \A o \in members : o[1] = q[1] => Beats(q, o)}}

Cohort == CHOOSE c \in summaries : \A o \in summaries : c.at >= o.at

Above(high, now) == IF now =< high THEN high + 1 ELSE now

\* Mutant: the next version looks at the summary only.
NextMemberVersionOfSummary(now) == Above(Cohort.at, now)

NextMemberVersion(now) ==
  LET versions == {Cohort.at} \cup {r[3] : r \in members}
  IN Above(CHOOSE high \in versions : \A v \in versions : high >= v, now)

\* Mutant: edits run beside each other.
MutationFreeAlways == TRUE

MutationFree == \A e \in Editor : editor[e].at = "off"

EditGoes(e, edit) == editor' = [editor EXCEPT ![e] = edit]

\* What an edit that has nothing to write answers.
Answered(of, holds, count) ==
  /\ list' = [x \in Entity |-> IF x \in of THEN holds ELSE list[x]]
  /\ exact' = (Cohort.count = count)

\* AddMembers and RemoveMembers, up to the first write; `removed` tells which.
EditMembers(e, ids, removed) ==
  LET live == CollapseMembers
      rows == IF removed = 0 THEN ids \ live ELSE ids \cap live
      after == IF removed = 0 THEN live \cup ids ELSE live \ ids
      holds == IF removed = 0 THEN "in" ELSE "out"
  IN /\ editor[e].at = "off" /\ MutationFree /\ Cohort.named
     /\ removed = 0 => Cardinality(after) =< ListLimit
     /\ \E now \in 0..MaxClock :
          LET version == NextMemberVersion(now)
              summary == [named |-> TRUE, count |-> Cardinality(after), at |-> version]
          IN /\ version =< MaxMemberVersion
             /\ IF rows = {} /\ Cohort.count = Cardinality(live)
                THEN Answered(ids, holds, Cardinality(live)) /\ UNCHANGED editor
                ELSE /\ EditGoes(e, [at |-> "write", rows |-> {<<x, removed, version>> : x \in rows},
                                     summary |-> {summary}, holds |-> holds, of |-> ids])
                     /\ UNCHANGED <<list, exact>>
     /\ UNCHANGED <<members, summaries>>

\* Update and Refresh, which count the list, and Delete.
EditCohort(e, named) ==
  /\ editor[e].at = "off" /\ MutationFree /\ Cohort.named
  /\ \E now \in 0..MaxClock :
       LET at == Above(Cohort.at, now)
           count == IF named THEN Cardinality(CollapseMembers) ELSE 0
       IN /\ at =< MaxMemberVersion
          /\ EditGoes(e, [NoEdit EXCEPT !.at = "write",
                          !.summary = {[named |-> named, count |-> count, at |-> at]}])
  /\ UNCHANGED <<members, summaries, list, exact>>

\* The edit is over; what it was about may hold or not, and the count too.
EditFails(e) ==
  /\ EditGoes(e, NoEdit)
  /\ list' = [x \in Entity |-> IF x \in editor[e].of THEN "unknown" ELSE list[x]]
  /\ exact' = (exact /\ editor[e].of = {})

InsertMembers(e) ==
  /\ editor[e].at = "write" /\ editor[e].rows # {}
  /\ \E chunk \in (SUBSET editor[e].rows) \ {{}} :
       \/ /\ members' = members \cup chunk
          /\ EditGoes(e, [editor[e] EXCEPT !.rows = @ \ chunk])
          /\ UNCHANGED <<list, exact>>
       \/ members' \in {members, members \cup chunk} /\ EditFails(e)
  /\ UNCHANGED summaries

PutCohortRow(e) ==
  LET put == summaries \cup editor[e].summary
  IN /\ editor[e].at = "write" /\ editor[e].rows = {}
     /\ \/ /\ summaries' = put /\ EditGoes(e, NoEdit)
           /\ list' = [x \in Entity |-> IF x \in editor[e].of THEN editor[e].holds ELSE list[x]]
           /\ exact' = TRUE
        \/ summaries' \in {summaries, put} /\ EditFails(e)
     /\ UNCHANGED members

\* The process dies and is started again.
CohortCrash ==
  /\ \E e \in Editor : editor[e].at # "off"
  /\ editor' = [e \in Editor |-> NoEdit] /\ exact' = FALSE
  /\ list' = [x \in Entity |->
               IF \E e \in Editor : x \in editor[e].of THEN "unknown" ELSE list[x]]
  /\ UNCHANGED <<members, summaries>>

CohortNext ==
  \/ \E e \in Editor :
       \/ \E ids \in (SUBSET Entity) \ {{}}, removed \in {0, 1} : EditMembers(e, ids, removed)
       \/ \E named \in BOOLEAN : EditCohort(e, named)
       \/ InsertMembers(e) \/ PutCohortRow(e)
  \/ CohortCrash

CohortSpec == CohortInit /\ [][CohortNext]_cohortVars

-----------------------------------------------------------------------------
CohortTypeOK ==
  /\ members \subseteq Entity \X {0, 1} \X (0..MaxMemberVersion)
  /\ \A c \in summaries : /\ c.named \in BOOLEAN /\ c.at \in 0..MaxMemberVersion
                          /\ c.count \in 0..ListLimit
  /\ \A e \in Editor : editor[e].at \in {"off", "write"} /\ editor[e].of \subseteq Entity
  /\ list \in [Entity -> {"in", "out", "unknown"}] /\ exact \in BOOLEAN

(* "Summary failure and process restart cannot cause a subsequent opposite *)
(* edit to reuse a member version": an edit that was answered holds, until *)
(* the next of the same entity, whatever failed before it and however the  *)
(* clock goes.                                                             *)
AnsweredEditHolds ==
  \A x \in Entity :
    (\A e \in Editor : x \notin editor[e].of) =>
      /\ list[x] = "in" => x \in CollapseMembers
      /\ list[x] = "out" => x \notin CollapseMembers

(* The count an answered edit leaves is that of the list, the list stays   *)
(* within its limit also through edits that failed half way, and of a      *)
(* cohort there is one newest row: a deleted one stays deleted.            *)
CountExact ==
  /\ exact /\ MutationFree /\ Cohort.named => Cohort.count = Cardinality(CollapseMembers)
  /\ Cardinality(CollapseMembers) =< ListLimit
  /\ \A c, d \in summaries : c.at = d.at => c = d
  /\ \A c, d \in summaries : ~c.named => d.at =< c.at

CohortSound == AnsweredEditHolds /\ CountExact
=============================================================================
