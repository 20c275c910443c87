---------------------------- MODULE ServiceToken ----------------------------
(***************************************************************************)
(* One service token, internal/svctoken/svctoken.go.  Its table only takes *)
(* appends, a read collapses the rows, and requests that verify it write   *)
(* rows of their own and prune those theirs supersede while an admin       *)
(* revokes it.  No lock is held across a statement.                        *)
(*                                                                         *)
(* A write may fail and may have been carried out when it does.  The clock *)
(* shows what it likes, so whether last-used is due is a choice.           *)
(***************************************************************************)
EXTENDS Integers

CONSTANTS
  TokenVerifier,    \* requests carrying the token
  TokenRevoker,     \* Revoke calls
  TokenClock,       \* bound on what the clock shows
  MaxTokenVersion   \* bound on the versions writes reach

ASSUME TokenAssumption == TokenClock \in Nat /\ MaxTokenVersion \in Nat

VARIABLES
  tokenRows,   \* the rows, as [version, revoked]
  verifier,    \* requests past the answer of match
  revoker,     \* Revoke calls past their first read
  answered,    \* a Revoke was answered without an error
  tidy         \* the last row a request wrote was pruned behind, undisturbed

tokenVars == <<tokenRows, verifier, revoker, answered, tidy>>

TokenRow == [version : Nat, revoked : BOOLEAN]

NotVerifying == [at |-> "off", version |-> 0, alone |-> FALSE]
NotRevoking == [at |-> "off", version |-> 0]

\* As Create leaves it.
TokenInit ==
  /\ \E now \in 0..TokenClock : tokenRows = {[version |-> now, revoked |-> FALSE]}
  /\ verifier = [v \in TokenVerifier |-> NotVerifying]
  /\ revoker = [r \in TokenRevoker |-> NotRevoking]
  /\ answered = FALSE /\ tidy = TRUE

-----------------------------------------------------------------------------
Newest(version) ==
  /\ \E r \in tokenRows : r.version = version
  /\ \A r \in tokenRows : r.version =< version

\* Mutant: all of a token's columns are those of its newest row.
ReadRevokedOfNewest == \E r \in tokenRows : Newest(r.version) /\ r.revoked

\* MAX(revoked_at).
ReadRevoked == \E r \in tokenRows : r.revoked

\* Mutant: the version is what the clock shows.
NextUpdatedAtOfClock(prior, now) == now

NextUpdatedAt(prior, now) == IF prior + 1 > now THEN prior + 1 ELSE now

\* Mutant: whatever is older goes.
PrunedWhole(version) == {r \in tokenRows : r.version < version}

Pruned(version) == {r \in tokenRows : ~r.revoked /\ r.version < version}

NewRow(version, revoked) == [version |-> version, revoked |-> revoked]

\* Verify accepts the token and its last use is to be written.
Verify(v) ==
  /\ verifier[v].at = "off" /\ tokenRows # {} /\ ~ReadRevoked
  /\ \E row \in tokenRows, now \in 0..TokenClock :
       LET version == NextUpdatedAt(row.version, now)
           alone == \A w \in TokenVerifier : verifier[w].at = "off"
       IN /\ Newest(row.version) /\ version =< MaxTokenVersion
          /\ verifier' = [w \in TokenVerifier |->
                           IF w = v THEN [at |-> "write", version |-> version, alone |-> alone]
                           ELSE [verifier[w] EXCEPT !.alone = FALSE]]
  /\ UNCHANGED <<tokenRows, revoker, answered, tidy>>

\* noteUsed's append.
WriteUsed(v) ==
  /\ verifier[v].at = "write"
  /\ LET put == tokenRows \cup {NewRow(verifier[v].version, FALSE)}
     IN \/ /\ tokenRows' = put
           /\ verifier' = [verifier EXCEPT ![v].at = "prune"]
        \/ tokenRows' \in {tokenRows, put} /\ verifier' = [verifier EXCEPT ![v] = NotVerifying]
  /\ tidy' = FALSE
  /\ UNCHANGED <<revoker, answered>>

\* noteUsed's delete.
PruneUsed(v) ==
  /\ verifier[v].at = "prune"
  /\ LET kept == tokenRows \ Pruned(verifier[v].version)
     IN \/ tokenRows' = kept /\ tidy' = (tidy \/ verifier[v].alone)
        \/ tokenRows' \in {tokenRows, kept} /\ UNCHANGED tidy
  /\ verifier' = [verifier EXCEPT ![v] = NotVerifying]
  /\ UNCHANGED <<revoker, answered>>

\* Revoke's first read, of Revoke or of RevokeAll.
BeginRevoke(r) ==
  /\ revoker[r].at = "off" /\ tokenRows # {}
  /\ \/ ReadRevoked /\ answered' = TRUE /\ UNCHANGED revoker
     \/ /\ ~ReadRevoked /\ UNCHANGED answered
        /\ \E row \in tokenRows, now \in 0..TokenClock :
             LET version == NextUpdatedAt(row.version, now)
             IN /\ Newest(row.version) /\ version =< MaxTokenVersion
                /\ revoker' = [revoker EXCEPT ![r] = [at |-> "write", version |-> version]]
  /\ UNCHANGED <<tokenRows, verifier, tidy>>

WriteRevoked(r) ==
  /\ revoker[r].at = "write"
  /\ LET put == tokenRows \cup {NewRow(revoker[r].version, TRUE)}
     IN \/ tokenRows' = put /\ revoker' = [revoker EXCEPT ![r].at = "confirm"]
        \/ tokenRows' \in {tokenRows, put} /\ revoker' = [revoker EXCEPT ![r] = NotRevoking]
  /\ UNCHANGED <<verifier, answered, tidy>>

ConfirmRevoked(r) ==
  /\ revoker[r].at = "confirm"
  /\ revoker' = [revoker EXCEPT ![r] = NotRevoking]
  /\ answered' \in {answered, answered \/ ReadRevoked}
  /\ UNCHANGED <<tokenRows, verifier, tidy>>

\* The process dies and is started again.
TokenCrash ==
  /\ \E v \in TokenVerifier : verifier[v].at # "off"
  /\ verifier' = [v \in TokenVerifier |-> NotVerifying]
  /\ revoker' = [r \in TokenRevoker |-> NotRevoking]
  /\ UNCHANGED <<tokenRows, answered, tidy>>

TokenNext ==
  \/ \E v \in TokenVerifier : Verify(v) \/ WriteUsed(v) \/ PruneUsed(v)
  \/ \E r \in TokenRevoker : BeginRevoke(r) \/ WriteRevoked(r) \/ ConfirmRevoked(r)
  \/ TokenCrash

TokenSpec == TokenInit /\ [][TokenNext]_tokenVars

-----------------------------------------------------------------------------
TokenTypeOK ==
  /\ tokenRows \subseteq TokenRow
  /\ verifier \in [TokenVerifier ->
       [at : {"off", "write", "prune"}, version : Nat, alone : BOOLEAN]]
  /\ revoker \in [TokenRevoker -> [at : {"off", "write", "confirm"}, version : Nat]]
  /\ answered \in BOOLEAN /\ tidy \in BOOLEAN

(* "A success return means a read of the store sees the revocation", and   *)
(* every later read sees it, whatever requests that read the token before  *)
(* it append and prune after it.                                           *)
RevocationStays == answered => ReadRevoked

(* No request's prune takes the row that answers for the token: a token    *)
(* that was minted is found until it is revoked, and named after.          *)
TokenKept == tokenRows # {}

(* The newest row wins by its version whatever the clock showed: a request *)
(* that wrote its use and pruned undisturbed leaves one row that is not a  *)
(* revocation, until the next writes.                                      *)
TokenTidy ==
  tidy => \A r, q \in tokenRows : r.revoked \/ q.revoked \/ r = q

TokenSound == RevocationStays /\ TokenKept /\ TokenTidy
=============================================================================
