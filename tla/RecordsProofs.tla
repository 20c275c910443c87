--------------------------- MODULE RecordsProofs ----------------------------
(***************************************************************************)
(* Proofs about the parts beside the pipelines, for any number of          *)
(* requests, runs and updaters at work: a service token, the upgrade of    *)
(* the binary, the ledger of exports, that of a replay, the accounts with  *)
(* their sessions, the sites with their managers, the list of a cohort,    *)
(* backup and restore, the roll-ups of events, the audit chain and the     *)
(* erasure of persons; and of what MCRecords says of all of them.          *)
(***************************************************************************)
EXTENDS MCRecords, FiniteSetTheorems, SequenceTheorems, WellFoundedInduction, TLAPS

-----------------------------------------------------------------------------
(* A version of NextUpdatedAt is above the row it was taken from.          *)
LEMMA NextUpdatedAtAbove ==
  ASSUME NEW prior \in Nat, NEW now \in 0..TokenClock
  PROVE  /\ NextUpdatedAt(prior, now) \in Nat
         /\ NextUpdatedAt(prior, now) > prior
BY TokenAssumption DEF NextUpdatedAt

(* Every variable keeps its type: the rows of service_tokens, the requests *)
(* and the Revoke calls.                                                   *)
LEMMA TokenTyped == TokenSpec => []TokenTypeOK
<1>1. TokenInit => TokenTypeOK
  <2> SUFFICES ASSUME TokenInit PROVE TokenTypeOK
    OBVIOUS
  <2>1. PICK now \in 0..TokenClock : tokenRows = {[version |-> now, revoked |-> FALSE]}
    BY DEF TokenInit
  <2>2. now \in Nat
    BY TokenAssumption
  <2>3. tokenRows \subseteq TokenRow
    BY <2>1, <2>2 DEF TokenRow
  <2> QED
    BY <2>3 DEF TokenInit, TokenTypeOK, NotVerifying, NotRevoking
<1>2. TokenTypeOK /\ [TokenNext]_tokenVars => TokenTypeOK'
  <2> SUFFICES ASSUME TokenTypeOK, [TokenNext]_tokenVars PROVE TokenTypeOK'
    OBVIOUS
  <2> USE DEF TokenTypeOK, TokenRow, NotVerifying, NotRevoking
  <2>1. CASE UNCHANGED tokenVars
    BY <2>1 DEF tokenVars
  <2>2. ASSUME NEW v \in TokenVerifier, Verify(v) PROVE TokenTypeOK'
    <3>1. PICK row \in tokenRows, now \in 0..TokenClock :
            verifier' = [w \in TokenVerifier |->
              IF w = v THEN [at |-> "write", version |-> NextUpdatedAt(row.version, now),
                             alone |-> \A x \in TokenVerifier : verifier[x].at = "off"]
              ELSE [verifier[w] EXCEPT !.alone = FALSE]]
      BY <2>2 DEF Verify
    <3>2. NextUpdatedAt(row.version, now) \in Nat
      BY NextUpdatedAtAbove
    <3>3. (\A x \in TokenVerifier : verifier[x].at = "off") \in BOOLEAN
      OBVIOUS
    <3>4. \A w \in TokenVerifier :
            /\ verifier[w] \in [at : {"off", "write", "prune"}, version : Nat, alone : BOOLEAN]
            /\ [verifier[w] EXCEPT !.alone = FALSE]
                 \in [at : {"off", "write", "prune"}, version : Nat, alone : BOOLEAN]
      OBVIOUS
    <3>5. [at |-> "write", version |-> NextUpdatedAt(row.version, now),
           alone |-> \A x \in TokenVerifier : verifier[x].at = "off"]
            \in [at : {"off", "write", "prune"}, version : Nat, alone : BOOLEAN]
      BY <3>2, <3>3
    <3>6. verifier' \in [TokenVerifier ->
             [at : {"off", "write", "prune"}, version : Nat, alone : BOOLEAN]]
      BY <3>1, <3>4, <3>5
    <3> QED
      BY <2>2, <3>6 DEF Verify
  <2>3. ASSUME NEW v \in TokenVerifier, WriteUsed(v) PROVE TokenTypeOK'
    <3>1. NewRow(verifier[v].version, FALSE) \in TokenRow
      BY DEF NewRow
    <3>2. tokenRows' \subseteq TokenRow
      BY <2>3, <3>1 DEF WriteUsed
    <3>3. verifier[v] \in [at : {"off", "write", "prune"}, version : Nat, alone : BOOLEAN]
      OBVIOUS
    <3>4. [verifier[v] EXCEPT !.at = "prune"]
            \in [at : {"off", "write", "prune"}, version : Nat, alone : BOOLEAN]
      BY <3>3
    <3>5. \/ verifier' = [verifier EXCEPT ![v] = [verifier[v] EXCEPT !.at = "prune"]]
          \/ verifier' = [verifier EXCEPT ![v] = NotVerifying]
      BY <2>3 DEF WriteUsed
    <3>6. verifier' \in [TokenVerifier ->
             [at : {"off", "write", "prune"}, version : Nat, alone : BOOLEAN]]
      <4>1. NotVerifying \in [at : {"off", "write", "prune"}, version : Nat, alone : BOOLEAN]
        OBVIOUS
      <4>2. PICK new \in [at : {"off", "write", "prune"}, version : Nat, alone : BOOLEAN] :
              verifier' = [verifier EXCEPT ![v] = new]
        BY <3>4, <3>5, <4>1, Zenon
      <4> QED
        BY <4>2
    <3> QED
      BY <2>3, <3>2, <3>6 DEF WriteUsed
  <2>4. ASSUME NEW v \in TokenVerifier, PruneUsed(v) PROVE TokenTypeOK'
    BY <2>4 DEF PruneUsed
  <2>5. ASSUME NEW r \in TokenRevoker, BeginRevoke(r) PROVE TokenTypeOK'
    <3>1. CASE ReadRevoked
      BY <2>5, <3>1 DEF BeginRevoke
    <3>2. CASE ~ReadRevoked
      <4>1. PICK row \in tokenRows, now \in 0..TokenClock :
              revoker' = [revoker EXCEPT ![r] =
                [at |-> "write", version |-> NextUpdatedAt(row.version, now)]]
        BY <2>5, <3>2 DEF BeginRevoke
      <4>2. NextUpdatedAt(row.version, now) \in Nat
        BY NextUpdatedAtAbove
      <4> QED
        BY <2>5, <3>2, <4>1, <4>2 DEF BeginRevoke
    <3> QED
      BY <3>1, <3>2
  <2>6. ASSUME NEW r \in TokenRevoker, WriteRevoked(r) PROVE TokenTypeOK'
    <3>1. NewRow(revoker[r].version, TRUE) \in TokenRow
      BY DEF NewRow
    <3>2. tokenRows' \subseteq TokenRow
      BY <2>6, <3>1 DEF WriteRevoked
    <3>3. [revoker[r] EXCEPT !.at = "confirm"]
            \in [at : {"off", "write", "confirm"}, version : Nat]
      OBVIOUS
    <3>4. \/ revoker' = [revoker EXCEPT ![r] = [revoker[r] EXCEPT !.at = "confirm"]]
          \/ revoker' = [revoker EXCEPT ![r] = NotRevoking]
      BY <2>6 DEF WriteRevoked
    <3>5. revoker' \in [TokenRevoker -> [at : {"off", "write", "confirm"}, version : Nat]]
      BY <3>3, <3>4
    <3> QED
      BY <2>6, <3>2, <3>5 DEF WriteRevoked
  <2>7. ASSUME NEW r \in TokenRevoker, ConfirmRevoked(r) PROVE TokenTypeOK'
    BY <2>7 DEF ConfirmRevoked, ReadRevoked
  <2>8. CASE TokenCrash
    BY <2>8 DEF TokenCrash
  <2> QED
    BY <2>1, <2>2, <2>3, <2>4, <2>5, <2>6, <2>7, <2>8 DEF TokenNext
<1> QED
  BY <1>1, <1>2, PTL DEF TokenSpec

-----------------------------------------------------------------------------
(* No step takes a revocation from the table.                              *)
LEMMA RevocationKept ==
  ASSUME ReadRevoked, [TokenNext]_tokenVars
  PROVE  ReadRevoked'
<1>1. PICK r \in tokenRows : r.revoked
  BY DEF ReadRevoked
<1>2. r \in tokenRows'
  <2>1. CASE UNCHANGED tokenVars
    BY <1>1, <2>1 DEF tokenVars
  <2>2. ASSUME NEW v \in TokenVerifier, Verify(v) \/ WriteUsed(v) PROVE r \in tokenRows'
    BY <1>1, <2>2 DEF Verify, WriteUsed
  <2>3. ASSUME NEW v \in TokenVerifier, PruneUsed(v) PROVE r \in tokenRows'
    BY <1>1, <2>3 DEF PruneUsed, Pruned
  <2>4. ASSUME NEW q \in TokenRevoker, BeginRevoke(q) \/ WriteRevoked(q) \/ ConfirmRevoked(q)
        PROVE  r \in tokenRows'
    BY <1>1, <2>4 DEF BeginRevoke, WriteRevoked, ConfirmRevoked
  <2>5. CASE TokenCrash
    BY <1>1, <2>5 DEF TokenCrash
  <2> QED
    BY <2>1, <2>2, <2>3, <2>4, <2>5 DEF TokenNext
<1> QED
  BY <1>1, <1>2 DEF ReadRevoked

(* Once Revoke was answered every read of the store sees the revocation,   *)
(* whatever Verify's appends and prunes do after it.                       *)
LEMMA TokenRevokedStays == TokenSpec => []RevocationStays
<1>1. TokenInit => RevocationStays
  BY DEF TokenInit, RevocationStays
<1>2. RevocationStays /\ TokenTypeOK /\ [TokenNext]_tokenVars => RevocationStays'
  <2> SUFFICES ASSUME RevocationStays, TokenTypeOK, [TokenNext]_tokenVars, answered'
               PROVE  ReadRevoked'
    BY DEF RevocationStays
  <2>1. CASE answered
    BY <2>1, RevocationKept DEF RevocationStays
  <2>2. CASE ~answered
    <3>1. ReadRevoked
      BY <2>2 DEF TokenNext, tokenVars, Verify, WriteUsed, PruneUsed, BeginRevoke,
                  WriteRevoked, ConfirmRevoked, TokenCrash, TokenTypeOK
    <3> QED
      BY <3>1, RevocationKept
  <2> QED
    BY <2>1, <2>2
<1> QED
  BY <1>1, <1>2, TokenTyped, PTL DEF TokenSpec

-----------------------------------------------------------------------------
(* Where a request is about to prune, a row as new as its own is left: its *)
(* own, or the one of the request whose prune took its own.                *)
Covered ==
  \A v \in TokenVerifier :
    verifier[v].at = "prune" => \E r \in tokenRows : r.version >= verifier[v].version

(* The table of a token is never emptied by the prunes of noteUsed.        *)
LEMMA TokenAlwaysKept == TokenSpec => []TokenKept
<1> DEFINE IInv == TokenKept /\ Covered
<1>1. TokenInit => IInv
  BY DEF TokenInit, TokenKept, Covered, NotVerifying
<1>2. IInv /\ TokenTypeOK /\ [TokenNext]_tokenVars => IInv'
  <2> SUFFICES ASSUME TokenKept, Covered, TokenTypeOK, [TokenNext]_tokenVars
               PROVE  IInv'
    OBVIOUS
  <2> USE DEF TokenKept, Covered, NotVerifying, TokenTypeOK, TokenRow
  <2>1. CASE UNCHANGED tokenVars
    BY <2>1 DEF tokenVars
  <2>2. ASSUME NEW v \in TokenVerifier, Verify(v) PROVE IInv'
    <3>1. tokenRows' = tokenRows
      BY <2>2 DEF Verify
    <3>2. ASSUME NEW w \in TokenVerifier, verifier'[w].at = "prune"
          PROVE  verifier[w].at = "prune" /\ verifier'[w].version = verifier[w].version
      BY <2>2, <3>2 DEF Verify
    <3> QED
      BY <3>1, <3>2
  <2>3. ASSUME NEW v \in TokenVerifier, WriteUsed(v) PROVE IInv'
    <3>1. tokenRows \subseteq tokenRows'
      BY <2>3 DEF WriteUsed
    <3>2. ASSUME NEW w \in TokenVerifier, verifier'[w].at = "prune"
          PROVE  \E r \in tokenRows' : r.version >= verifier'[w].version
      <4>1. CASE w = v
        <5>1. verifier' # [verifier EXCEPT ![v] = NotVerifying]
          BY <3>2, <4>1
        <5>2. /\ tokenRows' = tokenRows \cup {NewRow(verifier[v].version, FALSE)}
              /\ verifier' = [verifier EXCEPT ![v].at = "prune"]
          BY <2>3, <5>1 DEF WriteUsed
        <5>3. verifier'[w].version = verifier[v].version /\ verifier[v].version \in Nat
          <6>1. verifier[v] \in [at : {"off", "write", "prune"}, version : Nat, alone : BOOLEAN]
            OBVIOUS
          <6>2. verifier'[v] = [verifier[v] EXCEPT !.at = "prune"]
            BY <5>2
          <6> QED
            BY <4>1, <6>1, <6>2
        <5>4. NewRow(verifier[v].version, FALSE).version = verifier[v].version
          BY DEF NewRow
        <5>5. NewRow(verifier[v].version, FALSE) \in tokenRows'
          BY <5>2
        <5>6. verifier[v].version >= verifier[v].version
          BY <5>3
        <5> QED
          BY <5>3, <5>4, <5>5, <5>6, Zenon
      <4>2. CASE w # v
        <5>1. verifier'[w] = verifier[w]
          BY <2>3, <4>2 DEF WriteUsed
        <5> QED
          BY <3>1, <3>2, <5>1
      <4> QED
        BY <4>1, <4>2
    <3> QED
      BY <3>1, <3>2
  <2>4. ASSUME NEW v \in TokenVerifier, PruneUsed(v) PROVE IInv'
    <3>1. PICK top \in tokenRows : top.version >= verifier[v].version
      BY <2>4 DEF PruneUsed
    <3>2. ASSUME NEW r \in tokenRows, r.version >= verifier[v].version PROVE r \in tokenRows'
      BY <2>4, <3>2 DEF PruneUsed, Pruned
    <3>3. ASSUME NEW w \in TokenVerifier, verifier'[w].at = "prune"
          PROVE  \E r \in tokenRows' : r.version >= verifier'[w].version
      <4>1. w # v /\ verifier'[w] = verifier[w]
        BY <2>4, <3>3 DEF PruneUsed
      <4>2. PICK r \in tokenRows : r.version >= verifier[w].version
        BY <3>3, <4>1
      <4>3. CASE r.version >= verifier[v].version
        BY <3>2, <4>1, <4>2, <4>3
      <4>4. CASE ~(r.version >= verifier[v].version)
        <5>1. top.version >= verifier[w].version
          BY <3>1, <4>2, <4>4
        <5> QED
          BY <3>1, <3>2, <4>1, <5>1
      <4> QED
        BY <4>3, <4>4
    <3> QED
      BY <3>1, <3>2, <3>3
  <2>5. ASSUME NEW r \in TokenRevoker, BeginRevoke(r) \/ WriteRevoked(r) \/ ConfirmRevoked(r)
        PROVE  IInv'
    <3>1. tokenRows \subseteq tokenRows' /\ verifier' = verifier
      BY <2>5 DEF BeginRevoke, WriteRevoked, ConfirmRevoked
    <3> QED
      BY <3>1
  <2>6. CASE TokenCrash
    BY <2>6 DEF TokenCrash
  <2> QED
    BY <2>1, <2>2, <2>3, <2>4, <2>5, <2>6 DEF TokenNext
<1>3. IInv => TokenKept
  OBVIOUS
<1> QED
  BY <1>1, <1>2, <1>3, TokenTyped, PTL DEF TokenSpec

-----------------------------------------------------------------------------
\* A request that nobody has disturbed writes above every row of a use, and
\* prunes all of them but its own.
AloneAbove ==
  \A v \in TokenVerifier :
    verifier[v].at # "off" /\ verifier[v].alone =>
      /\ \A w \in TokenVerifier \ {v} : verifier[w].at = "off"
      /\ \A r \in tokenRows :
           \/ r.revoked
           \/ r.version < verifier[v].version
           \/ verifier[v].at = "prune" /\ r.version = verifier[v].version

(* Whatever the clock showed, a request that wrote its use and pruned      *)
(* undisturbed leaves one row that is not a revocation.                    *)
LEMMA TokenTidied == TokenSpec => []TokenTidy
<1> DEFINE IInv == TokenTidy /\ AloneAbove
<1>1. TokenInit => IInv
  BY DEF TokenInit, TokenTidy, AloneAbove, NotVerifying
<1>2. IInv /\ TokenTypeOK /\ [TokenNext]_tokenVars => IInv'
  <2> SUFFICES ASSUME TokenTidy, AloneAbove, TokenTypeOK, [TokenNext]_tokenVars
               PROVE  TokenTidy' /\ AloneAbove'
    OBVIOUS
  <2>1. CASE UNCHANGED tokenVars
    BY <2>1 DEF tokenVars, TokenTidy, AloneAbove
  <2>2. ASSUME NEW v \in TokenVerifier, Verify(v) PROVE TokenTidy' /\ AloneAbove'
    <3>1. PICK row \in tokenRows, now \in 0..TokenClock :
            /\ Newest(row.version) /\ ~ReadRevoked
            /\ verifier' = [w \in TokenVerifier |->
                 IF w = v THEN [at |-> "write", version |-> NextUpdatedAt(row.version, now),
                                alone |-> \A u \in TokenVerifier : verifier[u].at = "off"]
                 ELSE [verifier[w] EXCEPT !.alone = FALSE]]
            /\ UNCHANGED <<tokenRows, tidy>>
      BY <2>2 DEF Verify
    <3>2. row.version \in Nat /\ \A r \in tokenRows : r.version \in Nat
      BY DEF TokenTypeOK, TokenRow
    <3>3. NextUpdatedAt(row.version, now) > row.version /\ NextUpdatedAt(row.version, now) \in Nat
      BY <3>2, NextUpdatedAtAbove
    <3>4. \A r \in tokenRows : r.version < NextUpdatedAt(row.version, now)
      BY <3>1, <3>2, <3>3 DEF Newest
    <3>5. /\ verifier'[v].version = NextUpdatedAt(row.version, now)
          /\ verifier'[v].alone = (\A u \in TokenVerifier : verifier[u].at = "off")
      BY <3>1
    <3>6. \A w \in TokenVerifier \ {v} : ~verifier'[w].alone /\ verifier'[w].at = verifier[w].at
      BY <3>1 DEF TokenTypeOK
    <3>7. AloneAbove'
      BY <3>1, <3>4, <3>5, <3>6, Zenon DEF AloneAbove
    <3> QED BY <3>1, <3>7 DEF TokenTidy
  <2>3. ASSUME NEW v \in TokenVerifier, WriteUsed(v) PROVE TokenTidy' /\ AloneAbove'
    <3>1. PICK new : new = NewRow(verifier[v].version, FALSE)
      OBVIOUS
    <3>2. /\ verifier[v].at = "write" /\ ~tidy' /\ tokenRows' \in {tokenRows, tokenRows \cup {new}}
          /\ \/ verifier' = [verifier EXCEPT ![v].at = "prune"]
             \/ verifier' = [verifier EXCEPT ![v] = NotVerifying]
      BY <2>3, <3>1 DEF WriteUsed
    <3>3. new.version = verifier[v].version
      BY <3>1 DEF NewRow
    <3>4. /\ \A w \in TokenVerifier \ {v} : verifier'[w] = verifier[w]
          /\ \/ verifier'[v].at = "off"
             \/ /\ verifier'[v].at = "prune" /\ verifier'[v].alone = verifier[v].alone
                /\ verifier'[v].version = verifier[v].version
      BY <3>2 DEF TokenTypeOK, NotVerifying
    <3>5. \A w \in TokenVerifier \ {v} : verifier[w].at # "off" => ~verifier[w].alone
      BY <3>2 DEF AloneAbove
    <3>6. AloneAbove'
      BY <3>2, <3>3, <3>4, <3>5 DEF AloneAbove
    <3> QED BY <3>2, <3>6 DEF TokenTidy
  <2>4. ASSUME NEW v \in TokenVerifier, PruneUsed(v) PROVE TokenTidy' /\ AloneAbove'
    <3>1. /\ verifier[v].at = "prune" /\ verifier' = [verifier EXCEPT ![v] = NotVerifying]
          /\ tokenRows' \subseteq tokenRows
      BY <2>4 DEF PruneUsed
    <3>2. /\ verifier'[v].at = "off"
          /\ \A w \in TokenVerifier \ {v} : verifier'[w] = verifier[w]
      BY <3>1 DEF TokenTypeOK, NotVerifying
    <3>3. AloneAbove'
      BY <3>1, <3>2 DEF AloneAbove
    <3>4. CASE tidy' => tidy
      BY <3>1, <3>3, <3>4 DEF TokenTidy
    <3>5. CASE ~tidy /\ tidy'
      <4>1. tokenRows' = tokenRows \ Pruned(verifier[v].version) /\ verifier[v].alone
        BY <2>4, <3>5 DEF PruneUsed
      <4>2. \A r \in tokenRows' : r.revoked \/ r.version = verifier[v].version
        BY <3>1, <4>1 DEF AloneAbove, Pruned
      <4>3. \A r, q \in tokenRows' : r.revoked \/ q.revoked \/ r = q
        BY <3>1, <4>2 DEF TokenTypeOK, TokenRow
      <4> QED BY <3>3, <4>3 DEF TokenTidy
    <3> QED BY <3>3, <3>4, <3>5
  <2>5. ASSUME NEW r \in TokenRevoker, BeginRevoke(r) \/ WriteRevoked(r) \/ ConfirmRevoked(r)
        PROVE  TokenTidy' /\ AloneAbove'
    <3>1. \A q \in tokenRows' : q \in tokenRows \/ q.revoked
      BY <2>5 DEF BeginRevoke, WriteRevoked, ConfirmRevoked, NewRow
    <3>2. UNCHANGED <<verifier, tidy>>
      BY <2>5 DEF BeginRevoke, WriteRevoked, ConfirmRevoked
    <3> QED BY <3>1, <3>2 DEF TokenTidy, AloneAbove
  <2>6. CASE TokenCrash
    <3>1. UNCHANGED <<tokenRows, tidy>> /\ \A v \in TokenVerifier : verifier'[v] = NotVerifying
      BY <2>6 DEF TokenCrash
    <3>2. \A v \in TokenVerifier : verifier'[v].at = "off"
      BY <3>1 DEF NotVerifying
    <3> QED BY <3>1, <3>2 DEF TokenTidy, AloneAbove
  <2> QED
    BY <2>1, <2>2, <2>3, <2>4, <2>5, <2>6 DEF TokenNext
<1> QED
  BY <1>1, <1>2, TokenTyped, PTL DEF TokenSpec

(* Under every interleaving of requests that verify the token with those   *)
(* that revoke it, every write that fails and every crash, a revocation    *)
(* stays, the token is kept and its table stays tidy.                      *)
THEOREM TokenTheorem == TokenSpec => [](TokenTypeOK /\ TokenSound)
BY TokenTyped, TokenRevokedStays, TokenAlwaysKept, TokenTidied, PTL DEF TokenSound

-----------------------------------------------------------------------------
(* The upgrade.                                                            *)

UpgradeSteps == {"stop", "link", "rename", "sync", "restart", "start", "health", "rollback",
                 "restore", "again", "healthAgain"}

UpgradeTyped ==
  /\ live \in Release /\ prev \in Release \cup {NoBinary} /\ proven \in Release
  /\ running \in Release \cup {NoBinary}
  /\ updater \in [Updater -> [at : UpgradeSteps \cup {"away", "prepared"},
                              known : Release \cup {NoBinary}, from : Release \cup {NoBinary},
                              to : Release \cup {NoBinary}]]
  /\ report \in [said : {"nothing", "refused", "failed", "unchanged", "upgraded", "restored"},
                 of : Release \cup {NoBinary}]

\* The lock file.
OneApplies == \A u, v \in Updater : Applying(u) /\ Applying(v) => u = v

\* Where the version that was found and the one to install are at each step.
Located(step) ==
  LET old == live = step.from
      new == live = step.to /\ prev = step.from
  IN /\ step.from \in Release /\ step.to \in Release /\ step.to > step.from
     /\ proven =< step.from
     /\ step.at \in {"stop", "link", "again", "healthAgain"} => old
     /\ step.at = "rename" => old /\ prev = step.from
     /\ step.at = "restart" => old \/ new
     /\ step.at \in {"sync", "start", "health", "rollback", "restore"} => new

\* An upgrade has reported nothing until it is over.
WhereBinaries ==
  \A u \in Updater : Applying(u) => Located(updater[u]) /\ report = NoReport

PreparedReleases == \A u \in Updater : updater[u].at = "prepared" => updater[u].to \in Release

UpgradeInv ==
  UpgradeTyped /\ OneApplies /\ WhereBinaries /\ PreparedReleases /\ ReportIsTrue /\ NoDowngrade

\* A step of the updater at work, to another of its steps.
LEMMA GoesKeeps ==
  ASSUME UpgradeInv, NEW u \in Updater, Applying(u), NEW where \in UpgradeSteps, Goes(u, where),
         UNCHANGED <<report, proven>>,
         live' \in Release, prev' \in Release \cup {NoBinary}, running' \in Release \cup {NoBinary},
         NEW step, step = [updater[u] EXCEPT !.at = where], Located(step)'
  PROVE  UpgradeInv'
<1> USE DEF UpgradeInv
<1>1. updater' = [updater EXCEPT ![u] = step]
  BY DEF Goes, UpgradeTyped
<1>2. updater'[u] = step /\ \A v \in Updater \ {u} : updater'[v] = updater[v]
  BY <1>1 DEF UpgradeTyped
<1>3. step.at = where /\ step.from = updater[u].from /\ step.to = updater[u].to
  BY DEF UpgradeTyped
<1>4. UpgradeTyped'
  BY <1>1 DEF UpgradeTyped
<1>5. \A v \in Updater : Applying(v)' => v = u
  BY <1>2 DEF OneApplies, Applying
<1>6. OneApplies'
  BY <1>5 DEF OneApplies
<1>7. report' = NoReport
  BY DEF WhereBinaries
<1>8. Located(updater[u])'
  BY <1>2 DEF Located
<1>9. WhereBinaries'
  BY <1>5, <1>7, <1>8 DEF WhereBinaries
<1>10. PreparedReleases'
  BY <1>2, <1>3 DEF PreparedReleases, UpgradeSteps
<1>11. NoDowngrade'
  BY <1>3, UpgradeAssumption DEF NoDowngrade, Located, UpgradeSteps, Release, UpgradeTyped
<1> QED BY <1>4, <1>6, <1>7, <1>9, <1>10, <1>11 DEF ReportIsTrue, NoReport

\* The end of an Apply, or its refusal before it has begun.
LEMMA OverKeeps ==
  ASSUME UpgradeInv, NEW u \in Updater, Applying(u) \/ Unlocked,
         NEW said \in {"refused", "failed", "unchanged", "upgraded", "restored"},
         NEW of \in Release, Over(u, said, of),
         live' \in Release, prev' \in Release \cup {NoBinary}, running' \in Release \cup {NoBinary},
         said \in {"upgraded", "restored", "unchanged"} => live' = of /\ running' = of,
         live' >= proven
  PROVE  UpgradeInv'
<1> USE DEF UpgradeInv
<1>1. /\ updater' = [updater EXCEPT ![u] = Away]
      /\ report' = [said |-> said, of |-> of]
      /\ proven' = IF said = "upgraded" THEN of ELSE proven
  BY DEF Over
<1>2. updater'[u] = Away /\ \A v \in Updater \ {u} : updater'[v] = updater[v]
  BY <1>1 DEF UpgradeTyped
<1>3. UpgradeTyped'
  BY <1>1 DEF UpgradeTyped, Away, NoBinary
<1>4. \A v \in Updater : ~Applying(v)'
  BY <1>2 DEF OneApplies, Applying, Away, Unlocked
<1>5. OneApplies' /\ WhereBinaries'
  BY <1>4 DEF OneApplies, WhereBinaries
<1>6. PreparedReleases'
  BY <1>2 DEF PreparedReleases, Away
<1>7. ReportIsTrue'
  BY <1>1 DEF ReportIsTrue
<1>8. NoDowngrade'
  BY <1>1, UpgradeAssumption DEF NoDowngrade, Release
<1> QED BY <1>3, <1>5, <1>6, <1>7, <1>8

\* What a step may rely on of the updater that takes it.
LEMMA AtWork ==
  ASSUME UpgradeInv, NEW u \in Updater, Applying(u)
  PROVE  /\ Located(updater[u]) /\ report = NoReport /\ proven =< updater[u].from
         /\ updater[u].from \in Release /\ updater[u].to \in Release
         /\ updater[u].to > updater[u].from
         /\ live \in Release /\ prev \in Release \cup {NoBinary}
         /\ running \in Release \cup {NoBinary} /\ live >= proven
  BY DEF UpgradeInv, WhereBinaries, Located, UpgradeTyped, NoDowngrade

LEMMA BeginApplyKeeps ==
  ASSUME UpgradeInv, NEW u \in Updater, BeginApply(u)
  PROVE  UpgradeInv'
<1> USE DEF UpgradeInv
<1>1. /\ updater[u].at = "prepared" /\ Unlocked /\ UNCHANGED <<live, prev, running>>
      /\ updater[u].to \in Release
  BY DEF BeginApply, PreparedReleases
<1>2. CASE updater[u].to > live /\ running # NoBinary
  <2>1. /\ updater' = [updater EXCEPT ![u].at = "stop", ![u].from = live]
        /\ report' = NoReport /\ proven' = proven
    BY <1>2 DEF BeginApply, Installed
  <2>2. /\ updater'[u] = [updater[u] EXCEPT !.at = "stop", !.from = live]
        /\ \A v \in Updater \ {u} : updater'[v] = updater[v]
    BY <2>1 DEF UpgradeTyped
  <2>3. updater'[u].at = "stop" /\ updater'[u].from = live /\ updater'[u].to = updater[u].to
    BY <2>2 DEF UpgradeTyped
  <2>4. [updater[u] EXCEPT !.at = "stop", !.from = live]
          \in [at : UpgradeSteps \cup {"away", "prepared"}, known : Release \cup {NoBinary},
               from : Release \cup {NoBinary}, to : Release \cup {NoBinary}]
    BY DEF UpgradeTyped, UpgradeSteps
  <2>5. UpgradeTyped'
    BY <1>1, <2>1, <2>2, <2>4 DEF UpgradeTyped, NoReport, NoBinary
  <2>6. \A v \in Updater : Applying(v)' => v = u
    BY <1>1, <2>2 DEF Unlocked, Applying
  <2>7. Located(updater[u])'
    BY <1>1, <1>2, <2>1, <2>3 DEF Located, NoDowngrade, UpgradeTyped, Release
  <2>8. WhereBinaries'
    BY <2>1, <2>6, <2>7 DEF WhereBinaries
  <2>9. PreparedReleases'
    BY <2>2, <2>3 DEF PreparedReleases
  <2> QED BY <1>1, <2>1, <2>5, <2>6, <2>8, <2>9 DEF OneApplies, ReportIsTrue, NoReport, NoDowngrade
<1>3. CASE ~(updater[u].to > live /\ running # NoBinary)
  <2>1. Over(u, "refused", live)
    BY <1>3 DEF BeginApply, Installed
  <2> QED BY <1>1, <2>1, OverKeeps DEF UpgradeTyped, NoDowngrade
<1> QED BY <1>2, <1>3

LEMMA StopServiceKeeps ==
  ASSUME UpgradeInv, NEW u \in Updater, StopService(u)
  PROVE  UpgradeInv'
<1>1. Applying(u) /\ updater[u].at = "stop" /\ UNCHANGED <<live, prev>>
  BY DEF StopService, Applying
<1>2. CASE running' = NoBinary /\ Goes(u, "link") /\ UNCHANGED <<report, proven>>
  <2>1. PICK step : step = [updater[u] EXCEPT !.at = "link"]
    OBVIOUS
  <2>2. step.at = "link" /\ step.from = updater[u].from /\ step.to = updater[u].to
    BY <2>1 DEF UpgradeInv, UpgradeTyped
  <2>3. Located(step)'
    BY <1>1, <1>2, <2>2, AtWork DEF Located
  <2> QED BY <1>1, <1>2, <2>1, <2>3, AtWork, GoesKeeps DEF UpgradeSteps
<1>3. CASE running' \in {running, NoBinary} /\ Over(u, "failed", live)
  BY <1>1, <1>3, AtWork, OverKeeps
<1> QED BY <1>2, <1>3 DEF StopService

LEMMA SwapKeeps ==
  ASSUME UpgradeInv, NEW u \in Updater,
         LinkBackup(u) \/ InstallCandidate(u) \/ SyncInstalled(u)
  PROVE  UpgradeInv'
<1>1. Applying(u) /\ UNCHANGED <<running, report, proven>>
  BY DEF LinkBackup, InstallCandidate, SyncInstalled, Applying
<1>2. updater[u].from # NoBinary
  BY <1>1, AtWork DEF Release, NoBinary
<1>3. PICK where \in {"rename", "sync", "start", "restart"} : Goes(u, where)
        /\ \/ LinkBackup(u) /\ prev' = live /\ live' = live /\ where = "rename"
           \/ LinkBackup(u) /\ prev' = NoBinary /\ live' = live /\ where = "restart"
           \/ InstallCandidate(u) /\ live' = updater[u].to /\ prev' = prev /\ where = "sync"
           \/ InstallCandidate(u) /\ live' = live /\ prev' = NoBinary /\ where = "restart"
           \/ SyncInstalled(u) /\ live' = live /\ prev' = prev /\ where = "start"
           \/ SyncInstalled(u) /\ live' = prev /\ prev' = NoBinary /\ where = "restart"
           \/ SyncInstalled(u) /\ live' = live /\ prev' = prev /\ where = "restart"
  BY DEF LinkBackup, InstallCandidate, SyncInstalled, LiveLinked
<1>4. PICK step : step = [updater[u] EXCEPT !.at = where]
  OBVIOUS
<1>5. step.at = where /\ step.from = updater[u].from /\ step.to = updater[u].to
  BY <1>4 DEF UpgradeInv, UpgradeTyped
<1>6. Located(step)' /\ live' \in Release /\ prev' \in Release \cup {NoBinary}
  <2>1. CASE LinkBackup(u)
    <3>1. updater[u].at = "link" /\ live = updater[u].from
      BY <1>1, <2>1, AtWork DEF LinkBackup, Located
    <3>2. \/ live' = live /\ prev' = live /\ where = "rename"
          \/ live' = live /\ prev' = NoBinary /\ where = "restart"
      BY <1>3, <3>1 DEF InstallCandidate, SyncInstalled
    <3> QED BY <1>1, <1>5, <3>1, <3>2, AtWork DEF Located
  <2>2. CASE InstallCandidate(u)
    <3>1. updater[u].at = "rename" /\ live = updater[u].from /\ prev = updater[u].from
      BY <1>1, <2>2, AtWork DEF InstallCandidate, Located
    <3>2. \/ live' = updater[u].to /\ prev' = prev /\ where = "sync"
          \/ live' = live /\ prev' = NoBinary /\ where = "restart"
      BY <1>3, <3>1 DEF LinkBackup, SyncInstalled
    <3> QED BY <1>1, <1>5, <3>1, <3>2, AtWork DEF Located
  <2>3. CASE SyncInstalled(u)
    <3>1. updater[u].at = "sync" /\ live = updater[u].to /\ prev = updater[u].from
      BY <1>1, <2>3, AtWork DEF SyncInstalled, Located
    <3>2. \/ live' = live /\ prev' = prev /\ where = "start"
          \/ live' = prev /\ prev' = NoBinary /\ where = "restart"
          \/ live' = live /\ prev' = prev /\ where = "restart"
      BY <1>3, <3>1 DEF LinkBackup, InstallCandidate
    <3> QED BY <1>1, <1>5, <3>1, <3>2, AtWork DEF Located
  <2> QED BY <2>1, <2>2, <2>3
<1> QED BY <1>1, <1>3, <1>4, <1>6, AtWork, GoesKeeps DEF UpgradeSteps

LEMMA RestartUnswappedKeeps ==
  ASSUME UpgradeInv, NEW u \in Updater, RestartUnswapped(u)
  PROVE  UpgradeInv'
<1>1. Applying(u) /\ UNCHANGED <<live, prev>>
  BY DEF RestartUnswapped, Applying
<1>2. PICK said \in {"unchanged", "failed"} :
        /\ Over(u, said, live) /\ running' \in {live, NoBinary}
        /\ said = "unchanged" => running' = live
  BY DEF RestartUnswapped
<1> QED BY <1>1, <1>2, AtWork, OverKeeps

LEMMA StartCandidateKeeps ==
  ASSUME UpgradeInv, NEW u \in Updater, StartCandidate(u)
  PROVE  UpgradeInv'
<1>1. /\ Applying(u) /\ updater[u].at = "start" /\ UNCHANGED <<live, prev, report, proven>>
      /\ running' \in {live, NoBinary}
  BY DEF StartCandidate, Applying
<1>2. PICK where \in {"health", "rollback"} : Goes(u, where)
  BY DEF StartCandidate
<1>3. PICK step : step = [updater[u] EXCEPT !.at = where]
  OBVIOUS
<1>4. step.at = where /\ step.from = updater[u].from /\ step.to = updater[u].to
  BY <1>3 DEF UpgradeInv, UpgradeTyped
<1>5. Located(step)'
  BY <1>1, <1>4, AtWork DEF Located
<1> QED BY <1>1, <1>2, <1>3, <1>5, AtWork, GoesKeeps DEF UpgradeSteps

LEMMA CandidateHealthKeeps ==
  ASSUME UpgradeInv, NEW u \in Updater, CandidateHealth(u)
  PROVE  UpgradeInv'
<1>1. Applying(u) /\ updater[u].at = "health" /\ UNCHANGED <<live, prev, running>>
  BY DEF CandidateHealth, Applying
<1>2. live = updater[u].to /\ prev = updater[u].from
  BY <1>1, AtWork DEF Located
<1>3. CASE running = updater[u].to /\ Over(u, "upgraded", updater[u].to)
  BY <1>1, <1>2, <1>3, AtWork, OverKeeps
<1>4. CASE Goes(u, "rollback") /\ UNCHANGED <<report, proven>>
  <2>1. PICK step : step = [updater[u] EXCEPT !.at = "rollback"]
    OBVIOUS
  <2>2. step.at = "rollback" /\ step.from = updater[u].from /\ step.to = updater[u].to
    BY <2>1 DEF UpgradeInv, UpgradeTyped
  <2>3. Located(step)'
    BY <1>1, <1>2, <1>4, <2>2, AtWork DEF Located
  <2> QED BY <1>1, <1>4, <2>1, <2>3, AtWork, GoesKeeps DEF UpgradeSteps
<1> QED BY <1>3, <1>4 DEF CandidateHealth

LEMMA RollbackKeeps ==
  ASSUME UpgradeInv, NEW u \in Updater, RollbackStop(u) \/ RestoreBinary(u)
  PROVE  UpgradeInv'
<1>1. Applying(u) /\ live = updater[u].to /\ prev = updater[u].from
  BY AtWork DEF RollbackStop, RestoreBinary, Applying, Located
<1>2. PICK restored \in BOOLEAN :
        /\ IF restored THEN live' = prev /\ prev' = NoBinary ELSE UNCHANGED <<live, prev>>
        /\ running' \in {running, NoBinary}
        /\ \/ /\ Goes(u, IF restored THEN "again" ELSE "restore") /\ UNCHANGED <<report, proven>>
           \/ Over(u, "failed", IF restored THEN prev ELSE live)
  <2>1. CASE RollbackStop(u)
    BY <2>1 DEF RollbackStop
  <2>2. CASE RestoreBinary(u)
    BY <2>2 DEF RestoreBinary
  <2> QED BY <2>1, <2>2
<1>3. live' \in {updater[u].from, updater[u].to}
  BY <1>1, <1>2
<1>4. /\ live' \in Release /\ prev' \in Release \cup {NoBinary}
      /\ running' \in Release \cup {NoBinary} /\ live' >= proven
  BY <1>1, <1>2, AtWork, UpgradeAssumption DEF Release, NoBinary
<1>5. CASE Goes(u, IF restored THEN "again" ELSE "restore") /\ UNCHANGED <<report, proven>>
  <2>1. PICK where \in {"again", "restore"} : where = IF restored THEN "again" ELSE "restore"
    OBVIOUS
  <2>2. PICK step : step = [updater[u] EXCEPT !.at = where]
    OBVIOUS
  <2>3. step.at = where /\ step.from = updater[u].from /\ step.to = updater[u].to
    BY <2>2 DEF UpgradeInv, UpgradeTyped
  <2>4. Located(step)'
    BY <1>1, <1>2, <1>5, <2>1, <2>3, AtWork DEF Located
  <2> QED BY <1>1, <1>4, <1>5, <2>1, <2>2, <2>4, GoesKeeps DEF UpgradeSteps
<1>6. CASE Over(u, "failed", IF restored THEN prev ELSE live)
  <2>1. (IF restored THEN prev ELSE live) \in Release
    BY <1>1, AtWork
  <2> QED BY <1>1, <1>4, <1>6, <2>1, OverKeeps
<1> QED BY <1>2, <1>5, <1>6

LEMMA RestoredKeeps ==
  ASSUME UpgradeInv, NEW u \in Updater, StartRestored(u) \/ RestoredHealth(u)
  PROVE  UpgradeInv'
<1>1. Applying(u) /\ live = updater[u].from /\ UNCHANGED <<live, prev>>
  BY AtWork DEF StartRestored, RestoredHealth, Applying, Located
<1>2. CASE running' = live /\ Goes(u, "healthAgain") /\ UNCHANGED <<report, proven>>
  <2>1. PICK step : step = [updater[u] EXCEPT !.at = "healthAgain"]
    OBVIOUS
  <2>2. step.at = "healthAgain" /\ step.from = updater[u].from /\ step.to = updater[u].to
    BY <2>1 DEF UpgradeInv, UpgradeTyped
  <2>3. Located(step)'
    BY <1>1, <1>2, <2>2, AtWork DEF Located
  <2> QED BY <1>1, <1>2, <2>1, <2>3, AtWork, GoesKeeps DEF UpgradeSteps
<1>3. CASE /\ running' \in Release \cup {NoBinary}
           /\ \/ Over(u, "failed", live)
              \/ running' = updater[u].from /\ Over(u, "restored", updater[u].from)
  BY <1>1, <1>3, AtWork, OverKeeps
<1> QED
  BY <1>1, <1>2, <1>3, AtWork DEF StartRestored, RestoredHealth

\* What a step may rely on when no updater is at work in the next state.
LEMMA IdleKeeps ==
  ASSUME UpgradeInv, UNCHANGED <<live, prev, report, proven>>,
         UpgradeTyped', PreparedReleases',
         \A v \in Updater : Applying(v)' => Applying(v) /\ updater'[v] = updater[v],
         ReportIsTrue'
  PROVE  UpgradeInv'
<1>1. OneApplies'
  BY DEF UpgradeInv, OneApplies
<1>2. WhereBinaries'
  BY DEF UpgradeInv, WhereBinaries, Located
<1> QED BY <1>1, <1>2 DEF UpgradeInv, NoDowngrade

(* Two upgrades at once, a kill between any two steps and a system call    *)
(* that fails at any of them leave a binary in place, a true report and no *)
(* older version than the last that was announced: UpgradeSound, for any   *)
(* number of updaters and releases.                                        *)
THEOREM UpgradeTheorem == UpgradeSpec => [](UpgradeTypeOK /\ UpgradeSound)
<1>1. UpgradeInit => UpgradeInv
  BY UpgradeAssumption
  DEF UpgradeInit, UpgradeInv, UpgradeTyped, OneApplies, WhereBinaries, PreparedReleases,
      ReportIsTrue, NoDowngrade, Applying, Away, NoReport, NoBinary, Release
<1>2. UpgradeInv /\ [UpgradeNext]_upgradeVars => UpgradeInv'
  <2> SUFFICES ASSUME UpgradeInv, [UpgradeNext]_upgradeVars PROVE UpgradeInv'
    OBVIOUS
  <2>1. ASSUME NEW u \in Updater, NEW v \in Release, PrepareRelease(u, v)
        PROVE  UpgradeInv'
    <3>1. PICK step : step = [Away EXCEPT !.at = "prepared", !.known = live, !.to = v]
      OBVIOUS
    <3>2. /\ updater' = [updater EXCEPT ![u] = step]
          /\ ~Applying(u) /\ UNCHANGED <<live, prev, running, report, proven>>
      BY <2>1, <3>1 DEF PrepareRelease, Applying
    <3>3. /\ step.at = "prepared" /\ step.to = v
          /\ step \in [at : UpgradeSteps \cup {"away", "prepared"}, known : Release \cup {NoBinary},
                      from : Release \cup {NoBinary}, to : Release \cup {NoBinary}]
      BY <3>1 DEF Away, UpgradeInv, UpgradeTyped
    <3>4. updater'[u] = step /\ \A w \in Updater \ {u} : updater'[w] = updater[w]
      BY <3>2 DEF UpgradeInv, UpgradeTyped
    <3>5. UpgradeTyped'
      BY <3>2, <3>3 DEF UpgradeInv, UpgradeTyped
    <3>6. \A w \in Updater : Applying(w)' => Applying(w) /\ updater'[w] = updater[w]
      BY <3>3, <3>4 DEF Applying
    <3>7. PreparedReleases'
      BY <3>3, <3>4 DEF UpgradeInv, PreparedReleases
    <3> QED BY <3>2, <3>5, <3>6, <3>7, IdleKeeps DEF UpgradeInv, ReportIsTrue
  <2>2. ASSUME NEW u \in Updater, UpdaterKilled(u)
        PROVE  UpgradeInv'
    <3>1. /\ updater' = [updater EXCEPT ![u] = Away]
          /\ UNCHANGED <<live, prev, running, report, proven>>
      BY <2>2 DEF UpdaterKilled
    <3>2. updater'[u] = Away /\ \A w \in Updater \ {u} : updater'[w] = updater[w]
      BY <3>1 DEF UpgradeInv, UpgradeTyped
    <3>3. UpgradeTyped'
      BY <3>1, <3>2 DEF UpgradeInv, UpgradeTyped, Away
    <3>4. \A w \in Updater : Applying(w)' => Applying(w) /\ updater'[w] = updater[w]
      BY <3>2 DEF Applying, Away
    <3>5. PreparedReleases'
      BY <3>2 DEF UpgradeInv, PreparedReleases, Away
    <3> QED BY <3>1, <3>3, <3>4, <3>5, IdleKeeps DEF UpgradeInv, ReportIsTrue
  <2>3. CASE ServiceStarts
    <3>1. /\ running = NoBinary /\ running' = live
          /\ UNCHANGED <<live, prev, updater, report, proven>>
      BY <2>3 DEF ServiceStarts
    <3>2. UpgradeTyped' /\ PreparedReleases'
      BY <3>1 DEF UpgradeInv, UpgradeTyped, PreparedReleases
    <3>3. ReportIsTrue'
      BY <3>1 DEF UpgradeInv, ReportIsTrue
    <3> QED BY <3>1, <3>2, <3>3, IdleKeeps DEF Applying
  <2>4. CASE UNCHANGED upgradeVars
    BY <2>4 DEF upgradeVars, UpgradeInv, UpgradeTyped, OneApplies, WhereBinaries, Located,
                PreparedReleases, ReportIsTrue, NoDowngrade, Applying
  <2> QED
    BY <2>1, <2>2, <2>3, <2>4, BeginApplyKeeps, StopServiceKeeps, SwapKeeps,
       RestartUnswappedKeeps, StartCandidateKeeps, CandidateHealthKeeps, RollbackKeeps,
       RestoredKeeps
    DEF UpgradeNext
<1>3. UpgradeInv => UpgradeTypeOK /\ UpgradeSound
  <2> SUFFICES ASSUME UpgradeInv PROVE UpgradeTypeOK /\ UpgradeSound
    OBVIOUS
  <2>1. UpgradeTypeOK
    BY DEF UpgradeInv, UpgradeTyped, UpgradeTypeOK, UpgradeSteps
  <2>2. NothingLost
    <3>1. live # NoBinary
      BY DEF UpgradeInv, UpgradeTyped, Release, NoBinary
    <3>2. ASSUME NEW u \in Updater, Applying(u)
          PROVE  updater[u].from \in {live, prev}
      <4>1. Located(updater[u])
        BY <3>2 DEF UpgradeInv, WhereBinaries
      <4>2. updater[u].at \in UpgradeSteps
        BY <3>2 DEF UpgradeInv, UpgradeTyped, Applying
      <4> QED BY <4>1, <4>2 DEF Located, UpgradeSteps
    <3> QED BY <3>1, <3>2 DEF NothingLost
  <2> QED BY <2>1, <2>2 DEF UpgradeInv, UpgradeSound
<1> QED
  BY <1>1, <1>2, <1>3, PTL DEF UpgradeSpec
-----------------------------------------------------------------------------
(* Scheduled exports.                                                      *)

LedgerRow == [is : {"absent", "waiting", "finished", "dead"}, tries : 0..ExportTries,
              sum : Body \cup {Nothing}]

ExportTyped ==
  /\ ledger \in [Run -> LedgerRow]
  /\ bucket \in [Run -> [data : Body \cup {Nothing}, manifest : Body \cup {Nothing}]]
  /\ drain \in [Drainer -> [at : {"rest", "read", "data", "manifest", "done", "failed"},
                            run : Run \cup {Nothing}, row : LedgerRow,
                            body : Body \cup {Nothing}]]
  /\ due \subseteq Run /\ overlapped \subseteq Run

Executes(d) == drain[d].at \notin {"rest", "read"}

\* A run that waits has an attempt left, and an attempt is one of those.
AttemptsLeft ==
  /\ \A r \in Run : ~Terminal(ledger[r]) => ledger[r].tries < ExportTries
  /\ \A d \in Drainer : drain[d].at # "rest" => drain[d].run \in Run
  /\ \A d \in Drainer : Executes(d) => drain[d].row.tries < ExportTries

DrainedAlone ==
  \A d, e \in Drainer :
    Executes(d) /\ Executes(e) /\ drain[d].run = drain[e].run /\ drain[d].run \notin overlapped =>
      d = e

\* What an attempt has uploaded is in the bucket.
UploadsStand ==
  \A d \in Drainer :
    drain[d].at \in {"manifest", "done"} /\ drain[d].run \notin overlapped =>
      /\ bucket[drain[d].run].data = drain[d].body
      /\ drain[d].at = "done" => bucket[drain[d].run].manifest = drain[d].body

ExportInv ==
  ExportTyped /\ AttemptsLeft /\ DrainedAlone /\ UploadsStand /\ ArchiveVerifies /\ TerminalRests

\* A drain that comes to rest, or has a run to read next.
LEMMA AtRestKeeps ==
  ASSUME ExportInv, NEW d \in Drainer, NEW step,
         step \in [at : {"rest", "read"}, run : Run \cup {Nothing}, row : LedgerRow,
                  body : Body \cup {Nothing}],
         step.at = "read" => step.run \in Run,
         drain' = [drain EXCEPT ![d] = step], due' \subseteq Run,
         NEW r \in Run, NEW row \in LedgerRow, ledger' \in {ledger, [ledger EXCEPT ![r] = row]},
         ~Terminal(row) => row.tries < ExportTries,
         Terminal(row) => Executes(d) /\ drain[d].run = r,
         row.is = "finished" =>
           drain[d].at = "done" /\ row.sum = drain[d].body,
         UNCHANGED <<bucket, overlapped>>
  PROVE  ExportInv'
<1> USE DEF ExportInv
<1>1. drain'[d] = step /\ \A e \in Drainer \ {d} : drain'[e] = drain[e]
  BY DEF ExportTyped
<1>2. \A q \in Run : ledger'[q] = ledger[q] \/ (q = r /\ ledger'[q] = row)
  BY DEF ExportTyped
<1>3. ExportTyped'
  BY DEF ExportTyped
<1>4. \A e \in Drainer : Executes(e)' => e # d /\ Executes(e) /\ drain'[e] = drain[e]
  BY <1>1 DEF Executes
<1>5. AttemptsLeft'
  BY <1>1, <1>2, <1>4 DEF AttemptsLeft
<1>6. DrainedAlone'
  BY <1>4 DEF DrainedAlone
<1>7. UploadsStand'
  BY <1>1 DEF UploadsStand
<1>8. ArchiveVerifies'
  BY <1>2 DEF ArchiveVerifies, UploadsStand, Terminal
<1>9. TerminalRests'
  <2> SUFFICES ASSUME NEW q \in Run \ overlapped, NEW e \in Drainer, Executes(e)',
                      Terminal(ledger'[q]), drain'[e].run = q
               PROVE  FALSE
    BY DEF TerminalRests, Executes, Terminal
  <2>1. e # d /\ Executes(e) /\ drain[e].run = q
    BY <1>4
  <2>2. CASE ledger'[q] = ledger[q]
    BY <2>1, <2>2 DEF TerminalRests, Executes
  <2>3. CASE q = r /\ ledger'[q] = row
    <3>1. Executes(d) /\ drain[d].run = r
      BY <2>3 DEF Terminal
    <3> QED BY <2>1, <2>3, <3>1 DEF DrainedAlone
  <2> QED BY <1>2, <2>2, <2>3
<1> QED BY <1>3, <1>5, <1>6, <1>7, <1>8, <1>9

\* A drain that uploads, or fails to.
LEMMA UploadKeeps ==
  ASSUME ExportInv, NEW d \in Drainer, PutData(d) \/ PutManifest(d)
  PROVE  ExportInv'
<1> USE DEF ExportInv
<1> DEFINE q == drain[d].run
<1>1. /\ Executes(d) /\ q \in Run /\ drain[d].body \in Body \cup {Nothing}
      /\ UNCHANGED <<ledger, due, overlapped>>
  <2>1. drain[d].at \in {"data", "manifest"} /\ UNCHANGED <<ledger, due, overlapped>>
    BY DEF PutData, PutManifest
  <2> QED BY <2>1 DEF Executes, AttemptsLeft, ExportTyped
<1>2. PICK where \in {"manifest", "done", "failed"} : DrainAt(d, where)
        /\ \/ drain[d].at = "data" /\ bucket' = [bucket EXCEPT ![q].data = drain[d].body]
              /\ where # "done"
           \/ drain[d].at = "manifest" /\ bucket' = [bucket EXCEPT ![q].manifest = drain[d].body]
              /\ where # "manifest"
           \/ bucket' = bucket /\ where = "failed"
  BY DEF PutData, PutManifest, UploadFailed
<1>3. /\ drain'[d].at = where /\ drain'[d].run = q /\ drain'[d].row = drain[d].row
      /\ drain'[d].body = drain[d].body /\ \A e \in Drainer \ {d} : drain'[e] = drain[e]
  BY <1>2 DEF DrainAt, ExportTyped
<1>4. \A p \in Run : p # q => bucket'[p] = bucket[p]
  BY <1>2 DEF ExportTyped
<1>5. ExportTyped'
  <2>1. bucket' \in [Run -> [data : Body \cup {Nothing}, manifest : Body \cup {Nothing}]]
    BY <1>1, <1>2 DEF ExportTyped
  <2>2. drain' \in [Drainer -> [at : {"rest", "read", "data", "manifest", "done", "failed"},
                               run : Run \cup {Nothing}, row : LedgerRow,
                               body : Body \cup {Nothing}]]
    BY <1>2 DEF DrainAt, ExportTyped
  <2> QED BY <1>1, <2>1, <2>2 DEF ExportTyped
<1>6. \A e \in Drainer : (Executes(e)' <=> Executes(e)) /\ drain'[e].run = drain[e].run
                        /\ drain'[e].row = drain[e].row
  BY <1>1, <1>3 DEF Executes
<1>7. AttemptsLeft'
  <2>1. \A e \in Drainer : drain'[e].at # "rest" => drain[e].at # "rest"
    BY <1>1, <1>3 DEF Executes
  <2> QED BY <1>1, <1>6, <2>1 DEF AttemptsLeft
<1>8. DrainedAlone'
  BY <1>1, <1>6 DEF DrainedAlone
<1>9. UploadsStand'
  <2> SUFFICES ASSUME NEW e \in Drainer, drain'[e].at \in {"manifest", "done"},
                      drain'[e].run \notin overlapped
               PROVE  /\ bucket'[drain'[e].run].data = drain'[e].body
                      /\ drain'[e].at = "done" => bucket'[drain'[e].run].manifest = drain'[e].body
    BY <1>1 DEF UploadsStand
  <2>1. CASE e = d
    BY <1>1, <1>2, <1>3, <2>1 DEF UploadsStand, ExportTyped
  <2>2. CASE e # d
    <3>1. drain'[e] = drain[e] /\ Executes(e) /\ drain[e].run \in Run
      BY <1>3, <2>2 DEF Executes, AttemptsLeft
    <3>2. drain[e].run # q
      BY <1>1, <2>2, <3>1 DEF DrainedAlone
    <3> QED BY <1>4, <3>1, <3>2 DEF UploadsStand
  <2> QED BY <2>1, <2>2
<1>10. ArchiveVerifies'
  <2> SUFFICES ASSUME NEW p \in Run \ overlapped, ledger[p].is = "finished"
               PROVE  bucket'[p].data = ledger[p].sum /\ bucket'[p].manifest = ledger[p].sum
    BY <1>1 DEF ArchiveVerifies
  <2>1. p # q
    BY <1>1 DEF TerminalRests, Terminal, Executes
  <2> QED BY <1>4, <2>1 DEF ArchiveVerifies
<1>11. TerminalRests'
  BY <1>1, <1>6 DEF TerminalRests, Executes
<1> QED BY <1>5, <1>7, <1>8, <1>9, <1>10, <1>11

\* A run that is open when it is read is executed, and marked if another
\* drain has it.
LEMMA ExecuteKeeps ==
  ASSUME ExportInv, NEW d \in Drainer, DrainRun(d), StillOpen(ledger[drain[d].run])
  PROVE  ExportInv'
<1> USE DEF ExportInv
<1> DEFINE q == drain[d].run
<1>1. /\ q \in Run /\ ~Executes(d) /\ UNCHANGED <<ledger, bucket, due>>
      /\ ~Terminal(ledger[q]) /\ ledger[q].tries < ExportTries
  BY DEF DrainRun, Executes, AttemptsLeft, StillOpen
<1>2. PICK b \in Body :
        drain' = [drain EXCEPT ![d].at = "data", ![d].row = ledger[q], ![d].body = b]
  BY DEF DrainRun
<1>3. /\ overlapped \subseteq overlapped' /\ overlapped' \subseteq Run
      /\ \A e \in Drainer \ {d} : drain[e].run = q /\ Executes(e) => q \in overlapped'
  BY <1>1 DEF DrainRun, Executes, ExportTyped
<1>4. /\ drain'[d].at = "data" /\ drain'[d].run = q /\ drain'[d].row = ledger[q]
      /\ \A e \in Drainer \ {d} : drain'[e] = drain[e]
  BY <1>2 DEF ExportTyped
<1>5. ExportTyped'
  <2>1. ledger[q] \in LedgerRow
    BY <1>1 DEF ExportTyped
  <2>2. drain' \in [Drainer -> [at : {"rest", "read", "data", "manifest", "done", "failed"},
                               run : Run \cup {Nothing}, row : LedgerRow,
                               body : Body \cup {Nothing}]]
    <3>1. PICK made \in Body : drain' = [drain EXCEPT
             ![d] = [drain[d] EXCEPT !.at = "data", !.row = ledger[q], !.body = made]]
      BY <1>2
    <3>2. drain[d] \in [at : {"rest", "read", "data", "manifest", "done", "failed"},
                        run : Run \cup {Nothing}, row : LedgerRow,
                        body : Body \cup {Nothing}]
      BY DEF ExportTyped
    <3>3. [drain[d] EXCEPT !.at = "data", !.row = ledger[q], !.body = made]
            \in [at : {"rest", "read", "data", "manifest", "done", "failed"},
                 run : Run \cup {Nothing}, row : LedgerRow, body : Body \cup {Nothing}]
      BY <2>1, <3>2
    <3> QED BY <3>1, <3>3 DEF ExportTyped
  <2> QED BY <1>1, <1>3, <2>2 DEF ExportTyped
<1>6. \A e \in Drainer : Executes(e)' => e = d \/ (Executes(e) /\ drain'[e] = drain[e])
  BY <1>4 DEF Executes
<1>7. AttemptsLeft'
  BY <1>1, <1>4, <1>6 DEF AttemptsLeft
<1>8. DrainedAlone'
  BY <1>3, <1>4, <1>6 DEF DrainedAlone
<1>9. UploadsStand'
  BY <1>1, <1>3, <1>4 DEF UploadsStand
<1>10. ArchiveVerifies'
  BY <1>1, <1>3 DEF ArchiveVerifies
<1>11. TerminalRests'
  <2> SUFFICES ASSUME NEW p \in Run \ overlapped, NEW e \in Drainer, Executes(e)',
                      Terminal(ledger[p]), drain'[e].run = p
               PROVE  FALSE
    BY <1>1, <1>3 DEF TerminalRests, Executes, Terminal
  <2> QED BY <1>1, <1>4, <1>6 DEF TerminalRests, Executes
<1> QED BY <1>5, <1>7, <1>8, <1>9, <1>10, <1>11

(* However the minute pass and a request to run an export now interleave,  *)
(* whichever upload or write fails, and at whatever step the process dies: *)
(* what is archived verifies against the ledger, and a run that has come   *)
(* to its end rests, unless two drains had it at once.                     *)
THEOREM ExportTheorem == ExportSpec => [](ExportTypeOK /\ ExportSound)
<1>1. ExportInit => ExportInv
  <2> SUFFICES ASSUME ExportInit PROVE ExportInv
    OBVIOUS
  <2>1. Absent \in LedgerRow /\ Fresh \in LedgerRow
    BY ExportAssumption DEF Absent, Fresh, LedgerRow
  <2>2. ExportTyped
    BY <2>1 DEF ExportInit, ExportTyped, Resting
  <2>3. AttemptsLeft
    BY ExportAssumption DEF ExportInit, AttemptsLeft, Absent, Executes, Resting
  <2> QED
    BY <2>2, <2>3
    DEF ExportInit, ExportInv, DrainedAlone, UploadsStand, ArchiveVerifies, TerminalRests,
        Executes, Resting, Terminal, Absent
<1>2. ExportInv /\ [ExportNext]_exportVars => ExportInv'
  <2> SUFFICES ASSUME ExportInv, [ExportNext]_exportVars PROVE ExportInv'
    OBVIOUS
  <2> USE DEF ExportInv
  <2>1. /\ Absent \in LedgerRow /\ Fresh \in LedgerRow
        /\ ~Terminal(Fresh) /\ Fresh.tries < ExportTries
    BY ExportAssumption DEF Absent, Fresh, LedgerRow, Terminal
  <2>2. ASSUME NEW d \in Drainer, NEW r \in Run, EnqueueRun(d, r)
        PROVE  ExportInv'
    <3>1. PICK step : step = [Resting EXCEPT !.at = "read", !.run = r]
      OBVIOUS
    <3>2. /\ step.at = "read" /\ step.run = r
          /\ step \in [at : {"rest", "read"}, run : Run \cup {Nothing}, row : LedgerRow,
                       body : Body \cup {Nothing}]
      BY <2>1, <3>1 DEF Resting
    <3>3. /\ drain' = [drain EXCEPT ![d] = step] /\ ledger' = [ledger EXCEPT ![r] = Fresh]
          /\ UNCHANGED <<bucket, due, overlapped>>
      BY <2>2, <3>1 DEF EnqueueRun, Reads
    <3>4. due' \subseteq Run
      BY <3>3 DEF ExportTyped
    <3>5. Fresh.is # "finished"
      BY DEF Fresh
    <3> QED BY <2>1, <3>2, <3>3, <3>4, <3>5, AtRestKeeps
  <2>3. ASSUME NEW r \in Run, NextDue(r)
        PROVE  ExportInv'
    <3>1. PICK step : step = [Resting EXCEPT !.at = "read", !.run = r]
      OBVIOUS
    <3>2. /\ step.at = "read" /\ step.run = r
          /\ step \in [at : {"rest", "read"}, run : Run \cup {Nothing}, row : LedgerRow,
                       body : Body \cup {Nothing}]
      BY <2>1, <3>1 DEF Resting
    <3>3. /\ drain' = [drain EXCEPT ![Pass] = step] /\ ledger' = ledger
          /\ UNCHANGED <<bucket, overlapped>> /\ due' \subseteq Run /\ Pass \in Drainer
      BY <2>3, <3>1 DEF NextDue, Reads, ExportTyped, Drainer
    <3>4. Fresh.is # "finished"
      BY DEF Fresh
    <3> QED BY <2>1, <3>2, <3>3, <3>4, AtRestKeeps
  <2>4. ASSUME NEW d \in Drainer, DrainRun(d)
        PROVE  ExportInv'
    <3>1. CASE StillOpen(ledger[drain[d].run])
      BY <2>4, <3>1, ExecuteKeeps
    <3>2. CASE ~StillOpen(ledger[drain[d].run])
      <4>1. PICK r : r = drain[d].run
        OBVIOUS
      <4>2. /\ r \in Run /\ drain' = [drain EXCEPT ![d] = Resting]
            /\ UNCHANGED <<ledger, bucket, due, overlapped>>
        BY <2>4, <3>2, <4>1 DEF DrainRun, Rests, AttemptsLeft
      <4>3. due' \subseteq Run
        BY <4>2 DEF ExportTyped
      <4> QED BY <2>1, <4>2, <4>3, AtRestKeeps DEF Resting, Fresh
    <3> QED BY <3>1, <3>2
  <2>5. ASSUME NEW d \in Drainer, MarkRunFinished(d)
        PROVE  ExportInv'
    <3>1. PICK row : row = [is |-> "finished", tries |-> drain[d].row.tries, sum |-> drain[d].body]
      OBVIOUS
    <3>2. PICK r : r = drain[d].run
      OBVIOUS
    <3>3. /\ drain[d].at = "done" /\ drain' = [drain EXCEPT ![d] = Resting]
          /\ ledger' \in {ledger, [ledger EXCEPT ![r] = row]}
          /\ UNCHANGED <<bucket, due, overlapped>>
      BY <2>5, <3>1, <3>2 DEF MarkRunFinished, Rests
    <3>4. Executes(d) /\ r \in Run /\ row \in LedgerRow /\ due' \subseteq Run
      BY <3>1, <3>2, <3>3 DEF Executes, AttemptsLeft, ExportTyped, LedgerRow
    <3>5. row.is = "finished" /\ row.sum = drain[d].body
      BY <3>1
    <3> QED BY <2>1, <3>2, <3>3, <3>4, <3>5, AtRestKeeps DEF Resting, Terminal
  <2>6. ASSUME NEW d \in Drainer, RecordRunFailure(d)
        PROVE  ExportInv'
    <3>1. PICK row : row = [is |-> IF drain[d].row.tries + 1 >= ExportTries THEN "dead" ELSE "waiting",
                            tries |-> drain[d].row.tries + 1, sum |-> Nothing]
      OBVIOUS
    <3>2. PICK r : r = drain[d].run
      OBVIOUS
    <3>3. /\ drain[d].at = "failed" /\ drain' = [drain EXCEPT ![d] = Resting]
          /\ ledger' \in {ledger, [ledger EXCEPT ![r] = row]}
          /\ UNCHANGED <<bucket, due, overlapped>>
      BY <2>6, <3>1, <3>2 DEF RecordRunFailure, Rests
    <3>4. Executes(d) /\ r \in Run /\ due' \subseteq Run
      BY <3>2, <3>3 DEF Executes, AttemptsLeft, ExportTyped
    <3>5. drain[d].row.tries + 1 \in 0..ExportTries
      BY <3>4, ExportAssumption DEF AttemptsLeft, ExportTyped, LedgerRow
    <3>6. row \in LedgerRow
      BY <3>1, <3>5 DEF LedgerRow
    <3>7. row.is # "finished" /\ (~Terminal(row) => row.tries < ExportTries)
      BY <3>1, <3>5, ExportAssumption DEF Terminal
    <3> QED BY <2>1, <3>2, <3>3, <3>4, <3>6, <3>7, AtRestKeeps DEF Resting
  <2>7. CASE ScanDue
    <3>1. due' \subseteq Run /\ UNCHANGED <<ledger, bucket, drain, overlapped>>
      BY <2>7 DEF ScanDue
    <3> QED
      BY <3>1
      DEF ExportTyped, AttemptsLeft, DrainedAlone, UploadsStand, ArchiveVerifies, TerminalRests,
          Executes, Terminal
  <2>8. CASE ExportCrash
    <3>1. /\ drain' = [e \in Drainer |-> Resting] /\ due' \subseteq Run
          /\ UNCHANGED <<ledger, bucket, overlapped>>
      BY <2>8 DEF ExportCrash
    <3>2. ExportTyped'
      BY <2>1, <3>1 DEF ExportTyped, Resting
    <3> QED
      BY <3>1, <3>2
      DEF AttemptsLeft, DrainedAlone, UploadsStand, ArchiveVerifies, TerminalRests, Executes,
          Terminal, Resting
  <2>9. CASE UNCHANGED exportVars
    BY <2>9
    DEF exportVars, ExportTyped, AttemptsLeft, DrainedAlone, UploadsStand, ArchiveVerifies,
        TerminalRests, Executes, Terminal
  <2> QED
    BY <2>2, <2>3, <2>4, <2>5, <2>6, <2>7, <2>8, <2>9, UploadKeeps DEF ExportNext, DrainSteps
<1>3. ExportInv => ExportTypeOK /\ ExportSound
  BY DEF ExportInv, ExportTyped, ExportTypeOK, ExportSound, LedgerRow
<1> QED
  BY <1>1, <1>2, <1>3, PTL DEF ExportSpec
-----------------------------------------------------------------------------
(* The batches of a replay.                                                *)

SessionRow == [start : Digest, pages : Nat]

IngestStep == [at : {"idle", "owner", "ledger", "session", "commit", "heat"},
               site : ReplaySite \cup {NoSite}, batch : SUBSET Batch,
               sha : Digest \cup {NoDigest}, row : [start : Digest \cup {NoDigest}, pages : Nat]]

ReplayTyped ==
  /\ sessions \in [ReplaySite -> SUBSET SessionRow]
  /\ batches \in [Key -> Digest \cup {NoDigest}]
  /\ children \in [Key -> Nat] /\ heat \in [Key -> Nat]
  /\ ingest \in [Ingester -> IngestStep]
  /\ stored \subseteq Key \X Digest

KeyIn(step) == <<step.site, CHOOSE b \in step.batch : TRUE>>

\* The row to write follows the one there is.
Extends(step) ==
  /\ step.row \in SessionRow
  /\ IF sessions[step.site] = {} THEN step.row.pages = 2
     ELSE \E row \in sessions[step.site] :
            step.row.start = row.start /\ step.row.pages = row.pages + 1

\* What a request has found holds until it ends: it has the lock.
Ingests(step) ==
  step.at # "idle" =>
    /\ step.site \in ReplaySite /\ step.sha \in Digest
    /\ \E b \in Batch : step.batch = {b}
    /\ step.at # "owner" => \A s \in ReplaySite \ {step.site} : sessions[s] = {}
    /\ step.at \in {"session", "commit"} => batches[KeyIn(step)] = NoDigest
    /\ step.at = "commit" => Extends(step)
    /\ step.at = "heat" => batches[KeyIn(step)] = step.sha /\ heat[KeyIn(step)] = 0

Requests ==
  /\ \A i \in Ingester : Ingests(ingest[i])
  /\ \A i, j \in Ingester : ingest[i].at # "idle" /\ ingest[j].at # "idle" => i = j

Taken(s) == {b \in Batch : children[<<s, b>>] > 0}

TakenFinite == \A s \in ReplaySite : IsFiniteSet(Taken(s))

ReplayInv ==
  ReplayTyped /\ Requests /\ TakenFinite /\ BatchesCountOnce /\ AnsweredIsStored /\ OneOwner

LEMMA KeyInKey ==
  ASSUME NEW step, step.site \in ReplaySite, \E b \in Batch : step.batch = {b}
  PROVE  KeyIn(step) \in Key /\ KeyIn(step)[1] = step.site /\ step.batch = {KeyIn(step)[2]}
<1>1. PICK b \in Batch : step.batch = {b}
  OBVIOUS
<1>2. (CHOOSE c \in step.batch : TRUE) = b
  BY <1>1
<1> QED BY <1>1, <1>2 DEF KeyIn, Key

\* A request goes on, or ends, and may have an answer.
LEMMA RequestGoes ==
  ASSUME ReplayInv, NEW i \in Ingester, NEW step \in IngestStep, Ingests(step),
         ingest' = [ingest EXCEPT ![i] = step],
         \/ ingest[i].at # "idle"
         \/ \A j \in Ingester : ingest[j].at = "idle",
         UNCHANGED <<sessions, batches, children, heat>>,
         \A answer \in stored' :
           answer \in stored \/ (answer \in Key \X Digest /\ batches[answer[1]] = answer[2])
  PROVE  ReplayInv'
<1> USE DEF ReplayInv
<1>1. ingest'[i] = step /\ \A j \in Ingester \ {i} : ingest'[j] = ingest[j]
  BY DEF ReplayTyped
<1>2. ReplayTyped'
  <2>1. ingest' \in [Ingester -> IngestStep] /\ stored' \subseteq Key \X Digest
    BY DEF ReplayTyped
  <2> QED BY <2>1 DEF ReplayTyped
<1>3. Requests'
  <2>1. \A j \in Ingester : Ingests(ingest'[j])
    BY <1>1 DEF Requests
  <2>2. \A j \in Ingester : Ingests(ingest[j])'
    BY <2>1 DEF Ingests, Extends
  <2>3. \A j \in Ingester : ingest'[j].at # "idle" => ingest[j].at # "idle" \/ j = i
    BY <1>1
  <2> QED BY <1>1, <2>2, <2>3 DEF Requests
<1>4. TakenFinite' /\ BatchesCountOnce' /\ OneOwner'
  BY DEF TakenFinite, Taken, BatchesCountOnce, Pages, OneOwner
<1>5. AnsweredIsStored'
  BY DEF AnsweredIsStored
<1> QED BY <1>2, <1>3, <1>4, <1>5

LEMMA CommitKeeps ==
  ASSUME ReplayInv, NEW i \in Ingester, CommitIngest(i)
  PROVE  ReplayInv'
<1> USE DEF ReplayInv
<1>0. PICK s : s = ingest[i].site
  OBVIOUS
<1> USE <1>0
<1> DEFINE k == KeyIn(ingest[i])
           new == ingest[i].row
<1>1. /\ ingest[i].at = "commit"
      /\ sessions' = [sessions EXCEPT ![s] = {row \in @ : row.start # new.start} \cup {new}]
      /\ children' = [children EXCEPT ![k] = @ + 1]
      /\ batches' = [batches EXCEPT ![k] = ingest[i].sha]
      /\ UNCHANGED <<heat, stored>>
  BY DEF CommitIngest, KeyOf, KeyIn
<1>2. /\ Ingests(ingest[i]) /\ s \in ReplaySite /\ ingest[i].sha \in Digest
      /\ k \in Key /\ k[1] = s /\ k[2] \in Batch /\ k = <<s, k[2]>>
      /\ batches[k] = NoDigest /\ children[k] = 0 /\ heat[k] = 0
      /\ \A q \in ReplaySite \ {s} : sessions[q] = {}
      /\ Extends(ingest[i])
  <2>1. Ingests(ingest[i])
    BY DEF Requests
  <2>2. /\ s \in ReplaySite /\ ingest[i].sha \in Digest /\ batches[k] = NoDigest
        /\ \A q \in ReplaySite \ {s} : sessions[q] = {}
        /\ Extends(ingest[i]) /\ \E b \in Batch : ingest[i].batch = {b}
    BY <1>1, <2>1 DEF Ingests
  <2>3. k \in Key /\ k[1] = s
    BY <2>2, KeyInKey
  <2>4. k[2] \in Batch /\ k = <<s, k[2]>>
    BY <2>3 DEF Key
  <2>5. children[k] = 0 /\ heat[k] = 0
    BY <2>2, <2>3 DEF BatchesCountOnce, ReplayTyped
  <2> QED BY <2>1, <2>2, <2>3, <2>4, <2>5
<1>3. \A j \in Ingester \ {i} : ingest[j].at = "idle"
  BY <1>1 DEF Requests
<1>4. PICK step \in IngestStep : /\ ingest' = [ingest EXCEPT ![i] = step]
                                 /\ \/ step.at = "idle"
                                    \/ /\ step.at = "heat" /\ step.site = s
                                       /\ step.batch = ingest[i].batch /\ step.sha = ingest[i].sha
  <2>1. CASE IngestEnds(i)
    <3>1. NoIngest \in IngestStep /\ NoIngest.at = "idle"
      BY DEF NoIngest, NoSession, IngestStep
    <3> QED BY <2>1, <3>1 DEF IngestEnds
  <2>2. CASE IngestGoes(i, "heat")
    <3>1. PICK step : step = [ingest[i] EXCEPT !.at = "heat"]
      OBVIOUS
    <3>2. /\ step \in IngestStep /\ step.at = "heat" /\ step.site = s
          /\ step.batch = ingest[i].batch /\ step.sha = ingest[i].sha
      BY <3>1 DEF ReplayTyped, IngestStep
    <3>3. ingest' = [ingest EXCEPT ![i] = step]
      BY <2>2, <3>1 DEF IngestGoes
    <3> QED BY <3>2, <3>3
  <2> QED BY <2>1, <2>2 DEF CommitIngest
<1>5. ingest'[i] = step /\ \A j \in Ingester \ {i} : ingest'[j] = ingest[j]
  BY <1>4 DEF ReplayTyped
<1>6. /\ children'[k] = 1 /\ batches'[k] = ingest[i].sha
      /\ \A j \in Key \ {k} : children'[j] = children[j] /\ batches'[j] = batches[j]
  BY <1>1, <1>2 DEF ReplayTyped
<1>7. new \in SessionRow
  BY <1>2 DEF Extends
<1>8. ReplayTyped'
  <2>1. sessions' \in [ReplaySite -> SUBSET SessionRow]
    BY <1>1, <1>7 DEF ReplayTyped
  <2>2. batches' \in [Key -> Digest \cup {NoDigest}] /\ children' \in [Key -> Nat]
    BY <1>1, <1>2 DEF ReplayTyped
  <2>3. ingest' \in [Ingester -> IngestStep]
    BY <1>4 DEF ReplayTyped
  <2> QED BY <1>1, <2>1, <2>2, <2>3 DEF ReplayTyped
<1>9. \A q \in ReplaySite \ {s} : sessions'[q] = {}
  BY <1>1, <1>2 DEF ReplayTyped
<1>10. Requests'
  <2>1. Ingests(ingest[i])'
    <3>1. CASE step.at = "idle"
      BY <1>5, <3>1 DEF Ingests
    <3>2. CASE step.at # "idle"
      <4>1. KeyIn(step) = k
        BY <1>4, <3>2 DEF KeyIn
      <4>2. KeyIn(ingest'[i]) = k
        BY <1>5, <4>1
      <4>3. \E b \in Batch : step.batch = {b}
        BY <1>1, <1>2, <1>4, <3>2 DEF Ingests
      <4>4. /\ step.at = "heat" /\ step.site \in ReplaySite /\ step.sha \in Digest
            /\ \A q \in ReplaySite \ {step.site} : sessions'[q] = {}
            /\ batches'[k] = step.sha /\ heat'[k] = 0
        BY <1>1, <1>2, <1>4, <1>6, <1>9, <3>2
      <4> QED BY <1>5, <4>2, <4>3, <4>4 DEF Ingests, KeyIn
    <3> QED BY <3>1, <3>2
  <2>2. \A j \in Ingester \ {i} : ingest'[j].at = "idle"
    BY <1>3, <1>5
  <2>3. \A j \in Ingester \ {i} : Ingests(ingest[j])'
    BY <2>2 DEF Ingests
  <2> QED BY <2>1, <2>2, <2>3 DEF Requests
<1>11. \A q \in ReplaySite \ {s} : \A b \in Batch :
         <<q, b>> \in Key /\ <<q, b>> # k /\ children'[<<q, b>>] = children[<<q, b>>]
  BY <1>2, <1>6 DEF Key
<1>12. \A q \in ReplaySite \ {s} : Taken(q)' = Taken(q) /\ Pages(q)' = Pages(q)
  BY <1>11 DEF Taken, Pages
<1>13. k[2] \notin Taken(s) /\ Taken(s)' = Taken(s) \cup {k[2]}
  <2>1. \A b \in Batch : <<s, b>> \in Key /\ (<<s, b>> = k <=> b = k[2])
    BY <1>2 DEF Key
  <2>2. \A b \in Batch : children'[<<s, b>>] > 0 <=> children[<<s, b>>] > 0 \/ b = k[2]
    BY <1>2, <1>6, <2>1
  <2>3. k[2] \notin Taken(s)
    BY <1>2, <2>1 DEF Taken
  <2> QED BY <1>2, <2>2, <2>3 DEF Taken
<1>14. TakenFinite' /\ Pages(s)' = Pages(s) + 1 /\ Pages(s) \in Nat
  <2>1. IsFiniteSet(Taken(s))
    BY <1>2 DEF TakenFinite
  <2>2. IsFiniteSet(Taken(s) \cup {k[2]})
        /\ Cardinality(Taken(s) \cup {k[2]}) = Cardinality(Taken(s)) + 1
        /\ Cardinality(Taken(s)) \in Nat
    BY <1>13, <2>1, FS_AddElement, FS_CardinalityType
  <2>3. Pages(s) = Cardinality(Taken(s)) /\ Pages(s)' = Cardinality(Taken(s)')
    BY DEF Pages, Taken
  <2> QED BY <1>12, <1>13, <2>2, <2>3 DEF TakenFinite
<1>15. sessions'[s] = {new} /\ new.pages = 2 + Pages(s)
  <2>1. sessions'[s] = {row \in sessions[s] : row.start # new.start} \cup {new}
    BY <1>1, <1>2 DEF ReplayTyped
  <2>2. CASE sessions[s] = {}
    <3>1. Pages(s) = 0
      BY <1>2, <2>2 DEF BatchesCountOnce
    <3> QED BY <1>2, <2>1, <2>2, <3>1 DEF Extends
  <2>3. CASE sessions[s] # {}
    <3>1. PICK row \in sessions[s] : sessions[s] = {row} /\ row.pages = 1 + Pages(s)
      BY <1>2, <2>3 DEF BatchesCountOnce
    <3>2. new.start = row.start /\ new.pages = row.pages + 1
      BY <1>2, <2>3, <3>1 DEF Extends
    <3> QED BY <1>14, <2>1, <3>1, <3>2
  <2> QED BY <2>2, <2>3
<1>16. BatchesCountOnce'
  <2>1. \A j \in Key : /\ children'[j] = (IF batches'[j] = NoDigest THEN 0 ELSE 1)
                       /\ heat'[j] =< children'[j]
    BY <1>1, <1>2, <1>6, ReplayAssumption DEF BatchesCountOnce
  <2>2. ASSUME NEW q \in ReplaySite, q # s
        PROVE  IF Pages(q)' = 0 THEN sessions'[q] = {}
               ELSE \E row \in sessions'[q] : sessions'[q] = {row} /\ row.pages = 1 + Pages(q)'
    BY <1>2, <1>9, <1>12, <2>2 DEF BatchesCountOnce
  <2>3. Pages(s)' # 0 /\ new.pages = 1 + Pages(s)'
    BY <1>14, <1>15
  <2>4. \A q \in ReplaySite :
          IF Pages(q)' = 0 THEN sessions'[q] = {}
          ELSE \E row \in sessions'[q] : sessions'[q] = {row} /\ row.pages = 1 + Pages(q)'
    BY <1>15, <2>2, <2>3
  <2> QED BY <2>1, <2>4 DEF BatchesCountOnce
<1>17. AnsweredIsStored'
  <2> SUFFICES ASSUME NEW answer \in stored PROVE batches'[answer[1]] = answer[2]
    BY <1>1 DEF AnsweredIsStored
  <2>1. answer[1] \in Key /\ answer[2] \in Digest /\ batches[answer[1]] = answer[2]
    BY DEF ReplayTyped, AnsweredIsStored
  <2>2. answer[1] # k
    BY <1>2, <2>1, ReplayAssumption
  <2> QED BY <1>6, <2>1, <2>2
<1>18. OneOwner'
  <2> SUFFICES ASSUME NEW j \in Key, children'[j] > 0
               PROVE  j[1] = s
    BY DEF OneOwner
  <2>1. CASE j[1] # s
    <3>1. j[1] \in ReplaySite /\ j[2] \in Batch /\ j = <<j[1], j[2]>>
      BY DEF Key
    <3>2. children[j] > 0
      BY <1>2, <1>6, <2>1
    <3>3. j[2] \in Taken(j[1])
      BY <3>1, <3>2 DEF Taken
    <3>4. Cardinality(Taken(j[1])) # 0
      BY <3>1, <3>3, FS_EmptySet DEF TakenFinite
    <3>5. Pages(j[1]) # 0
      BY <3>4 DEF Pages, Taken
    <3>6. sessions[j[1]] # {}
      BY <3>1, <3>5 DEF BatchesCountOnce
    <3> QED BY <1>2, <2>1, <3>1, <3>6
  <2> QED BY <2>1
<1> QED BY <1>8, <1>10, <1>14, <1>16, <1>17, <1>18
LEMMA AggregateHeatKeeps ==
  ASSUME ReplayInv, NEW i \in Ingester, AggregateHeat(i)
  PROVE  ReplayInv'
<1> USE DEF ReplayInv
<1>0. PICK k : k = KeyIn(ingest[i])
  OBVIOUS
<1>1. /\ ingest[i].at = "heat" /\ heat' \in {heat, [heat EXCEPT ![k] = @ + 1]}
      /\ stored' = stored \cup {<<k, ingest[i].sha>>}
      /\ ingest' = [ingest EXCEPT ![i] = NoIngest]
      /\ UNCHANGED <<sessions, batches, children>>
  BY <1>0 DEF AggregateHeat, KeyOf, KeyIn, IngestEnds
<1>2. k \in Key /\ ingest[i].sha \in Digest /\ batches[k] = ingest[i].sha /\ heat[k] = 0
  <2>1. Ingests(ingest[i])
    BY DEF Requests
  <2> QED BY <1>0, <1>1, <2>1, KeyInKey DEF Ingests
<1>3. NoIngest \in IngestStep /\ NoIngest.at = "idle"
  BY DEF NoIngest, NoSession, IngestStep
<1>4. \A j \in Ingester : ingest'[j].at = "idle"
  BY <1>1, <1>3 DEF Requests, ReplayTyped
<1>5. Requests'
  BY <1>4 DEF Requests, Ingests
<1>6. ReplayTyped'
  BY <1>1, <1>2, <1>3 DEF ReplayTyped
<1>7. \A j \in Key : heat'[j] =< children[j]
  <2>1. children[k] = 1
    BY <1>2, ReplayAssumption DEF BatchesCountOnce
  <2> QED BY <1>1, <1>2, <2>1 DEF BatchesCountOnce, ReplayTyped
<1>8. BatchesCountOnce'
  BY <1>1, <1>7 DEF BatchesCountOnce, Pages
<1>9. TakenFinite' /\ OneOwner'
  BY <1>1 DEF TakenFinite, Taken, OneOwner
<1>10. AnsweredIsStored'
  BY <1>1, <1>2 DEF AnsweredIsStored
<1> QED BY <1>5, <1>6, <1>8, <1>9, <1>10

LEMMA ReadSessionKeeps ==
  ASSUME ReplayInv, NEW i \in Ingester, ReadSession(i)
  PROVE  ReplayInv'
<1> USE DEF ReplayInv
<1>1. ingest[i].at = "session" /\ UNCHANGED <<sessions, batches, children, heat, stored>>
  BY DEF ReadSession
<1>2. /\ ingest[i] \in IngestStep /\ ingest[i].site \in ReplaySite /\ ingest[i].sha \in Digest
      /\ \E b \in Batch : ingest[i].batch = {b}
      /\ batches[KeyIn(ingest[i])] = NoDigest
      /\ \A s \in ReplaySite \ {ingest[i].site} : sessions[s] = {}
  BY <1>1 DEF Requests, Ingests, ReplayTyped
<1>3. PICK row \in IF sessions[ingest[i].site] = {} THEN {NoSession}
                   ELSE sessions[ingest[i].site] :
        ingest' = [ingest EXCEPT ![i].at = "commit",
                     ![i].row = [start |-> StartOf(row, ingest[i].sha),
                                 pages |-> IF row = NoSession THEN 2 ELSE row.pages + 1]]
  BY DEF ReadSession
<1>4. PICK new : new = [start |-> StartOf(row, ingest[i].sha),
                        pages |-> IF row = NoSession THEN 2 ELSE row.pages + 1]
  OBVIOUS
<1>5. PICK step : step = [ingest[i] EXCEPT !.at = "commit", !.row = new]
  OBVIOUS
<1>6. /\ new \in SessionRow
      /\ IF sessions[ingest[i].site] = {} THEN new.pages = 2
         ELSE /\ row \in sessions[ingest[i].site]
              /\ new.start = row.start /\ new.pages = row.pages + 1
  <2>1. CASE sessions[ingest[i].site] = {}
    <3>1. row = NoSession
      BY <1>3, <2>1
    <3> QED BY <1>2, <1>4, <2>1, <3>1 DEF StartOf, SessionRow
  <2>2. CASE sessions[ingest[i].site] # {}
    <3>1. row \in sessions[ingest[i].site] /\ row \in SessionRow
      BY <1>2, <1>3, <2>2 DEF ReplayTyped
    <3>2. row # NoSession
      BY <3>1, ReplayAssumption DEF SessionRow, NoSession
    <3> QED BY <1>4, <2>2, <3>1, <3>2 DEF StartOf, SessionRow
  <2> QED BY <2>1, <2>2
<1>7. /\ step.at = "commit" /\ step.site = ingest[i].site /\ step.batch = ingest[i].batch
      /\ step.sha = ingest[i].sha /\ step.row = new
  BY <1>2, <1>5 DEF IngestStep
<1>8. step \in IngestStep
  BY <1>2, <1>5, <1>6 DEF IngestStep, SessionRow
<1>9. Ingests(step)
  <2>1. Extends(step)
    BY <1>6, <1>7 DEF Extends
  <2>2. KeyIn(step) = KeyIn(ingest[i])
    BY <1>7 DEF KeyIn
  <2> QED BY <1>2, <1>7, <2>1, <2>2 DEF Ingests
<1>10. ingest' = [ingest EXCEPT ![i] = step]
  BY <1>3, <1>4, <1>5 DEF ReplayTyped
<1> QED BY <1>1, <1>8, <1>9, <1>10, RequestGoes

(* Whatever requests carry a batch, however often it is sent, whoever      *)
(* claims the replay and at whatever statement they fail or the process    *)
(* dies: a batch counts once, an answer is what is stored, and a replay is *)
(* one site's.                                                             *)
THEOREM ReplayTheorem == ReplaySpec => [](ReplayTypeOK /\ ReplaySound)
<1>1. ReplayInit => ReplayInv
  <2> SUFFICES ASSUME ReplayInit PROVE ReplayInv
    OBVIOUS
  <2>1. NoIngest \in IngestStep /\ NoIngest.at = "idle"
    BY DEF NoIngest, NoSession, IngestStep
  <2>2. ReplayTyped
    BY <2>1 DEF ReplayInit, ReplayTyped
  <2>3. Requests
    BY <2>1 DEF ReplayInit, Requests, Ingests
  <2>4. \A s \in ReplaySite : Taken(s) = {}
    BY DEF ReplayInit, Taken, Key
  <2>5. TakenFinite /\ \A s \in ReplaySite : Pages(s) = 0
    BY <2>4, FS_EmptySet DEF TakenFinite, Pages, Taken
  <2>6. BatchesCountOnce
    BY <2>5 DEF ReplayInit, BatchesCountOnce
  <2>7. AnsweredIsStored /\ OneOwner
    BY DEF ReplayInit, AnsweredIsStored, OneOwner
  <2> QED BY <2>2, <2>3, <2>5, <2>6, <2>7 DEF ReplayInv
<1>2. ReplayInv /\ [ReplayNext]_replayVars => ReplayInv'
  <2> SUFFICES ASSUME ReplayInv, [ReplayNext]_replayVars PROVE ReplayInv'
    OBVIOUS
  <2> USE DEF ReplayInv
  <2>1. NoIngest \in IngestStep /\ NoIngest.at = "idle" /\ Ingests(NoIngest)
    BY DEF NoIngest, NoSession, IngestStep, Ingests
  <2>2. ASSUME NEW i \in Ingester, ingest[i].at # "idle", IngestEnds(i),
               UNCHANGED <<sessions, batches, children, heat, stored>>
        PROVE  ReplayInv'
    BY <2>1, <2>2, RequestGoes DEF IngestEnds
  <2>3. ASSUME NEW i \in Ingester, NEW s \in ReplaySite, NEW b \in Batch, NEW sha \in Digest,
               BeginIngest(i, s, b, sha)
        PROVE  ReplayInv'
    <3>1. PICK step : step = [NoIngest EXCEPT !.at = "owner", !.site = s, !.batch = {b}, !.sha = sha]
      OBVIOUS
    <3>2. /\ step \in IngestStep /\ step.at = "owner" /\ step.site = s /\ step.batch = {b}
          /\ step.sha = sha
      BY <3>1 DEF NoIngest, NoSession, IngestStep
    <3>3. /\ ingest' = [ingest EXCEPT ![i] = step] /\ \A j \in Ingester : ingest[j].at = "idle"
          /\ UNCHANGED <<sessions, batches, children, heat, stored>>
      BY <2>3, <3>1 DEF BeginIngest, ReplayFree
    <3>4. Ingests(step)
      BY <3>2 DEF Ingests
    <3> QED BY <3>2, <3>3, <3>4, RequestGoes
  <2>4. ASSUME NEW i \in Ingester, NEW from \in {"owner", "ledger"}, ingest[i].at = from,
               NEW where \in {"ledger", "session"}, IngestGoes(i, where),
               \A s \in ReplaySite \ {ingest[i].site} : sessions[s] = {},
               where = "session" => batches[KeyIn(ingest[i])] = NoDigest,
               UNCHANGED <<sessions, batches, children, heat, stored>>
        PROVE  ReplayInv'
    <3>1. PICK step : step = [ingest[i] EXCEPT !.at = where]
      OBVIOUS
    <3>2. /\ step \in IngestStep /\ step.at = where /\ step.site = ingest[i].site
          /\ step.batch = ingest[i].batch /\ step.sha = ingest[i].sha
      BY <3>1 DEF ReplayTyped, IngestStep
    <3>3. ingest' = [ingest EXCEPT ![i] = step]
      BY <2>4, <3>1 DEF IngestGoes
    <3>4. Ingests(step)
      <4>1. Ingests(ingest[i]) /\ KeyIn(step) = KeyIn(ingest[i])
        BY <3>2 DEF Requests, KeyIn
      <4> QED BY <2>4, <3>2, <4>1 DEF Ingests
    <3> QED BY <2>4, <3>2, <3>3, <3>4, RequestGoes
  <2>5. ASSUME NEW i \in Ingester, ReplayOwner(i)
        PROVE  ReplayInv'
    BY <2>2, <2>4, <2>5 DEF ReplayOwner
  <2>6. ASSUME NEW i \in Ingester, LedgerLookup(i)
        PROVE  ReplayInv'
    <3>1. /\ ingest[i].at = "ledger" /\ KeyOf(i) = KeyIn(ingest[i])
          /\ UNCHANGED <<sessions, batches, children, heat>>
      BY <2>6 DEF LedgerLookup, KeyOf, KeyIn
    <3>2. /\ ingest[i].sha \in Digest /\ KeyIn(ingest[i]) \in Key
          /\ \A s \in ReplaySite \ {ingest[i].site} : sessions[s] = {}
      <4>1. Ingests(ingest[i])
        BY DEF Requests
      <4> QED BY <3>1, <4>1, KeyInKey DEF Ingests
    <3>3. CASE batches[KeyIn(ingest[i])] = NoDigest
      <4>1. IngestGoes(i, "session") /\ UNCHANGED stored
        BY <2>6, <3>1, <3>3 DEF LedgerLookup
      <4> QED BY <2>4, <3>1, <3>2, <3>3, <4>1
    <3>4. CASE batches[KeyIn(ingest[i])] # NoDigest
      <4>1. /\ ingest' = [ingest EXCEPT ![i] = NoIngest]
            /\ \/ stored' = stored
               \/ /\ batches[KeyIn(ingest[i])] = ingest[i].sha
                  /\ stored' = stored \cup {<<KeyIn(ingest[i]), ingest[i].sha>>}
        BY <2>6, <3>1, <3>4 DEF LedgerLookup, IngestEnds, SameBatch
      <4>2. \A answer \in stored' :
              answer \in stored \/ (answer \in Key \X Digest /\ batches[answer[1]] = answer[2])
        BY <3>2, <4>1
      <4> QED BY <2>1, <3>1, <4>1, <4>2, RequestGoes
    <3> QED BY <3>3, <3>4
  <2>7. ASSUME NEW i \in Ingester, IngestFails(i)
        PROVE  ReplayInv'
    BY <2>2, <2>7 DEF IngestFails
  <2>8. CASE ReplayCrash
    <3>1. /\ ingest' = [i \in Ingester |-> NoIngest]
          /\ UNCHANGED <<sessions, batches, children, heat, stored>>
      BY <2>8 DEF ReplayCrash
    <3>2. ReplayTyped'
      BY <2>1, <3>1 DEF ReplayTyped
    <3>3. Requests'
      BY <2>1, <3>1 DEF Requests, Ingests
    <3> QED
      BY <3>1, <3>2, <3>3 DEF TakenFinite, Taken, BatchesCountOnce, Pages, AnsweredIsStored, OneOwner
  <2>9. CASE UNCHANGED replayVars
    <3>1. ReplayTyped' /\ Requests'
      BY <2>9 DEF replayVars, ReplayTyped, Requests, Ingests, Extends
    <3> QED
      BY <2>9, <3>1
      DEF replayVars, TakenFinite, Taken, BatchesCountOnce, Pages, AnsweredIsStored, OneOwner
  <2> QED
    BY <2>3, <2>5, <2>6, <2>7, <2>8, <2>9, ReadSessionKeeps, CommitKeeps, AggregateHeatKeeps
    DEF ReplayNext
<1>3. ReplayInv => ReplayTypeOK /\ ReplaySound
  BY DEF ReplayInv, ReplayTyped, ReplayTypeOK, ReplaySound, SessionRow, IngestStep
<1> QED
  BY <1>1, <1>2, <1>3, PTL DEF ReplaySpec

-----------------------------------------------------------------------------
(* Accounts and sessions.                                                  *)

PrincipalRow ==
  [id : LocalId \cup SsoId, username : Username \cup SsoId, role : Role, origin : Origin,
   password : Nat, tv : Nat, version : 0..MaxRowVersion]

(* What a token says of the newest row of its account.                     *)
Dated(token) ==
  \A p \in LatestOf(token.id) :
    /\ token.tv =< p.tv
    /\ token.tv = p.tv => token.role = p.role /\ token.password = p.password

OneOfAVersion ==
  \A p, q \in principals : p.id = q.id /\ p.version = q.version => p = q

HeldByAnAccount == \A token \in minted : \E p \in principals : p.id = token.id

(* EnsureAdmin makes its account while there is none that it made.         *)
SetupFirst ==
  /\ \A s, r \in Setup : setup[s] # "off" /\ setup[r] # "off" => s = r
  /\ \A s \in Setup : setup[s] \in {"claim", "insert"} =>
       \A p \in LatestLocal : p.origin # "admin"
  /\ \A p, q \in LatestLocal : p.origin = "admin" /\ q.origin = "admin" => p = q

NamedOnce == \A p, q \in LatestLocal : p.username = q.username => p = q

PrincipalInv ==
  /\ PrincipalTypeOK
  /\ OneOfAVersion /\ HeldByAnAccount
  /\ \A token \in minted : Dated(token)
  /\ SetupFirst /\ NamedOnce
  /\ established => Admins # {}

(* A bounded set of versions has a highest one.                            *)
LEMMA GreatestOf ==
  ASSUME NEW n \in Nat, NEW S, S \subseteq 0..n, S # {}
  PROVE  \E x \in S : \A y \in S : y =< x
<1> DEFINE below == {n - y : y \in S}
<1>1. below \subseteq Nat
  OBVIOUS
<1>2. below # {}
  OBVIOUS
<1>3. PICK least \in below : \A other \in below : ~(<<other, least>> \in OpToRel(<, Nat))
  BY <1>1, <1>2, WFMin, NatLessThanWellFounded
<1>4. PICK x \in S : least = n - x
  OBVIOUS
<1> SUFFICES ASSUME NEW y \in S PROVE y =< x
  BY <1>4
<1>5. n - y \in below /\ n - y \in Nat /\ n - x \in Nat
  BY <1>1, <1>4
<1>6. ~(n - y < n - x)
  BY <1>3, <1>4, <1>5 DEF OpToRel
<1> QED BY <1>5, <1>6

(* An account that has a row has a newest one.                             *)
LEMMA NewestExists ==
  ASSUME PrincipalTypeOK, NEW q \in principals
  PROVE  LatestOf(q.id) # {}
<1> DEFINE versions == {p.version : p \in {p \in principals : p.id = q.id}}
<1>1. versions \subseteq 0..MaxRowVersion /\ versions # {}
  BY DEF PrincipalTypeOK
<1>2. MaxRowVersion \in Nat
  BY PrincipalAssumption
<1>3. PICK top \in versions : \A other \in versions : other =< top
  BY <1>1, <1>2, GreatestOf
<1>4. PICK p \in principals : p.id = q.id /\ p.version = top
  OBVIOUS
<1>5. p \in LatestOf(q.id)
  BY <1>3, <1>4 DEF LatestOf
<1> QED BY <1>5

LEMMA NewestIsOne ==
  ASSUME PrincipalInv, NEW id, NEW p \in LatestOf(id), NEW q \in LatestOf(id)
  PROVE  p = q
<1>1. /\ p \in principals /\ q \in principals /\ p.id = id /\ q.id = id
      /\ q.version =< p.version /\ p.version =< q.version
  BY DEF LatestOf
<1>2. p.version \in Int /\ q.version \in Int
  BY <1>1 DEF PrincipalInv, PrincipalTypeOK
<1>3. p.version = q.version
  BY <1>1, <1>2
<1> QED BY <1>1, <1>3 DEF PrincipalInv, OneOfAVersion

(* The version a rewrite takes is above the one it replaces.               *)
LEMMA NextPrincipalVersionAbove ==
  ASSUME NEW now \in 0..PrincipalClock, NEW prior \in Nat
  PROVE  /\ NextPrincipalVersion(now, prior) \in Nat
         /\ NextPrincipalVersion(now, prior) > prior
BY PrincipalAssumption DEF NextPrincipalVersion

(* A row has become the newest of its account, and no other account has    *)
(* changed.                                                                *)
Renews(n) ==
  /\ n \in principals' /\ n \in PrincipalRow
  /\ principals' \subseteq PrincipalRow
  /\ \A q \in principals' : q.id = n.id => q = n \/ q.version < n.version
  /\ \A q : q.id # n.id => (q \in principals' <=> q \in principals)
  /\ \A p, q \in principals' : p.id = q.id /\ p.version = q.version => p = q

LEMMA NewestAfter ==
  ASSUME NEW n, Renews(n)
  PROVE  /\ LatestOf(n.id)' = {n}
         /\ \A id : id # n.id => LatestOf(id)' = LatestOf(id)
<1>1. \A q \in principals' : q.version \in Int
  BY DEF Renews, PrincipalRow
<1>2. n.version \in Int
  BY DEF Renews, PrincipalRow
<1>3. LatestOf(n.id)' = {n}
  <2>1. n \in LatestOf(n.id)'
    BY <1>1, <1>2 DEF Renews, LatestOf
  <2>2. ASSUME NEW q \in LatestOf(n.id)' PROVE q = n
    <3>1. q \in principals' /\ q.id = n.id /\ n.version =< q.version
      BY <2>2 DEF LatestOf, Renews
    <3> QED BY <1>1, <1>2, <3>1 DEF Renews
  <2> QED BY <2>1, <2>2
<1>4. ASSUME NEW id, id # n.id PROVE LatestOf(id)' = LatestOf(id)
  <2>1. \A q : q.id = id => (q \in principals' <=> q \in principals)
    BY <1>4 DEF Renews
  <2> QED BY <2>1 DEF LatestOf
<1> QED BY <1>3, <1>4

LEMMA LocalAfter ==
  ASSUME NEW n, Renews(n), NEW r
  PROVE  r \in LatestLocal' <=> \/ r = n /\ n.id \in LocalId
                                \/ r \in LatestLocal /\ r.id # n.id
<1>1. /\ LatestOf(n.id)' = {n}
      /\ \A id : id # n.id => LatestOf(id)' = LatestOf(id)
  BY NewestAfter
<1>2. r \in LatestLocal' <=> \E id \in LocalId : r \in LatestOf(id)'
  BY DEF LatestLocal
<1>3. r \in LatestLocal <=> \E id \in LocalId : r \in LatestOf(id)
  BY DEF LatestLocal
<1>4. \A id : r \in LatestOf(id) => r.id = id
  BY DEF LatestOf
<1> QED BY <1>1, <1>2, <1>3, <1>4

(* Store.replace, under the lock, of the row that is the newest.           *)
LEMMA ReplaceRenews ==
  ASSUME PrincipalInv, NEW e \in Latest, NEW changed \in PrincipalRow,
         changed.id = e.id, Replace(e, changed)
  PROVE  \E n : /\ n = [changed EXCEPT !.version = n.version]
                /\ Renews(n)
<1>1. PICK now \in 0..PrincipalClock :
        /\ NextPrincipalVersion(now, e.version) =< MaxRowVersion
        /\ principals' = {q \in principals : q.id # e.id}
             \cup {[changed EXCEPT !.version = NextPrincipalVersion(now, e.version)]}
  BY DEF Replace
<1> DEFINE version == NextPrincipalVersion(now, e.version)
           n == [changed EXCEPT !.version = version]
<1>2. e \in principals
  BY DEF Latest, LatestOf
<1>3. principals \subseteq PrincipalRow
  BY DEF PrincipalInv, PrincipalTypeOK, PrincipalRow
<1>4. e.version \in Nat
  BY <1>2, <1>3, PrincipalAssumption DEF PrincipalRow
<1>5. version \in 0..MaxRowVersion
  BY <1>1, <1>4, NextPrincipalVersionAbove, PrincipalAssumption
<1>6. n \in PrincipalRow /\ n.id = e.id /\ n.version = version
  BY <1>5 DEF PrincipalRow
<1>7. principals' = {q \in principals : q.id # e.id} \cup {n}
  BY <1>1
<1>8. n = [changed EXCEPT !.version = n.version]
  BY <1>6
<1> HIDE DEF n, version
<1>9. Renews(n)
  <2>1. n \in principals' /\ principals' \subseteq PrincipalRow
    BY <1>3, <1>6, <1>7
  <2>2. \A q \in principals' : q.id = n.id => q = n
    BY <1>6, <1>7
  <2>3. \A q : q.id # n.id => (q \in principals' <=> q \in principals)
    BY <1>6, <1>7
  <2>4. \A p, q \in principals' : p.id = q.id /\ p.version = q.version => p = q
    BY <1>6, <1>7 DEF PrincipalInv, OneOfAVersion
  <2> QED BY <1>6, <2>1, <2>2, <2>3, <2>4 DEF Renews
<1> QED BY <1>8, <1>9

(* The first row of an account.                                            *)
LEMMA FirstRowRenews ==
  ASSUME PrincipalInv, NEW n \in PrincipalRow, LatestOf(n.id) = {},
         principals' = principals \cup {n}
  PROVE  Renews(n)
<1>1. \A q \in principals : q.id # n.id
  BY NewestExists DEF PrincipalInv
<1>2. principals \subseteq PrincipalRow
  BY DEF PrincipalInv, PrincipalTypeOK, PrincipalRow
<1>3. \A p, q \in principals' : p.id = q.id /\ p.version = q.version => p = q
  BY <1>1 DEF PrincipalInv, OneOfAVersion
<1> QED BY <1>1, <1>2, <1>3 DEF Renews

(* A row that UpsertOIDC appends beside the one it was made from.          *)
LEMMA AppendedRenews ==
  ASSUME PrincipalInv, NEW n \in PrincipalRow, NEW e \in LatestOf(n.id),
         n.version > e.version, principals' = principals \cup {n}
  PROVE  Renews(n)
<1>1. principals \subseteq PrincipalRow
  BY DEF PrincipalInv, PrincipalTypeOK, PrincipalRow
<1>2. \A q \in principals : q.version \in Int
  BY <1>1 DEF PrincipalRow
<1>3. e.version \in Int /\ n.version \in Int
  BY <1>2 DEF LatestOf, PrincipalRow
<1>4. \A q \in principals : q.id = n.id => q.version =< e.version
  BY DEF LatestOf
<1>5. \A q \in principals : q.id = n.id => q.version < n.version
  BY <1>2, <1>3, <1>4
<1>6. \A p, q \in principals' : p.id = q.id /\ p.version = q.version => p = q
  BY <1>3, <1>5 DEF PrincipalInv, OneOfAVersion
<1> QED BY <1>1, <1>5, <1>6 DEF Renews

(* The tokens minted before stay dated when the newest row of an account   *)
(* is replaced by one that retires them or that grants what it did.        *)
LEMMA TokensKept ==
  ASSUME PrincipalInv, NEW n, Renews(n),
         \A e \in LatestOf(n.id) :
            \/ n.tv > e.tv
            \/ n.tv = e.tv /\ n.role = e.role /\ n.password = e.password
  PROVE  \A token \in minted :
            /\ Dated(token)'
            /\ \E p \in principals' : p.id = token.id
<1> TAKE token \in minted
<1>1. /\ LatestOf(n.id)' = {n}
      /\ \A id : id # n.id => LatestOf(id)' = LatestOf(id)
  BY NewestAfter
<1>2. PICK p \in principals : p.id = token.id
  BY DEF PrincipalInv, HeldByAnAccount
<1>3. Dated(token)
  BY DEF PrincipalInv
<1>4. CASE token.id # n.id
  <2>1. p \in principals'
    BY <1>2, <1>4 DEF Renews
  <2>2. Dated(token)'
    BY <1>1, <1>3, <1>4 DEF Dated
  <2> QED BY <1>2, <2>1, <2>2
<1>5. CASE token.id = n.id
  <2>1. PICK e \in LatestOf(n.id) : TRUE
    BY <1>2, <1>5, NewestExists DEF PrincipalInv
  <2>2. e \in principals
    BY DEF LatestOf
  <2>3. e.tv \in Nat /\ token.tv \in Nat /\ n.tv \in Nat
    BY <2>2 DEF PrincipalInv, PrincipalTypeOK, Renews, PrincipalRow
  <2>4. /\ token.tv =< e.tv
        /\ token.tv = e.tv => token.role = e.role /\ token.password = e.password
    BY <1>3, <1>5 DEF Dated
  <2>5. /\ token.tv =< n.tv
        /\ token.tv = n.tv => token.role = n.role /\ token.password = n.password
    BY <2>3, <2>4
  <2>6. Dated(token)'
    BY <1>1, <1>5, <2>5 DEF Dated
  <2> QED BY <1>5, <2>6 DEF Renews
<1> QED BY <1>4, <1>5

(* A token minted from the newest row says what it says.                   *)
LEMMA MintDated ==
  ASSUME NEW p, p \in PrincipalRow, p \in principals', LatestOf(p.id)' = {p}, Mint(p),
         minted \subseteq [id : LocalId \cup SsoId, role : Role, password : Nat, tv : Nat],
         \A token \in minted : Dated(token)' /\ \E q \in principals' : q.id = token.id
  PROVE  /\ minted' \subseteq [id : LocalId \cup SsoId, role : Role, password : Nat, tv : Nat]
         /\ \A token \in minted' : Dated(token)'
         /\ HeldByAnAccount'
<1> DEFINE fresh == [id |-> p.id, role |-> p.role, password |-> p.password, tv |-> p.tv]
<1>1. minted' = minted \cup {fresh}
  BY DEF Mint
<1>2. fresh \in [id : LocalId \cup SsoId, role : Role, password : Nat, tv : Nat]
  BY DEF PrincipalRow
<1>3. /\ fresh.id = p.id /\ fresh.role = p.role
      /\ fresh.password = p.password /\ fresh.tv = p.tv /\ fresh.tv =< p.tv
  BY DEF PrincipalRow
<1> HIDE DEF fresh
<1>4. Dated(fresh)'
  BY <1>3 DEF Dated
<1> QED BY <1>1, <1>2, <1>3, <1>4 DEF HeldByAnAccount

(* What a step does to the accounts: nothing, or it renews one.            *)
LEMMA AccountsUnmoved ==
  ASSUME UNCHANGED principals
  PROVE  /\ \A id : LatestOf(id)' = LatestOf(id)
         /\ LatestLocal' = LatestLocal /\ Admins' = Admins
BY DEF LatestOf, LatestLocal, Admins

(* A rewrite keeps the name and the origin of an account, and takes the    *)
(* role of an administrator only while another is left.                    *)
LEMMA RewriteKeeps ==
  ASSUME PrincipalInv, NEW e \in Latest, NEW n, Renews(n),
         n.id = e.id, n.username = e.username, n.origin = e.origin,
         e.id \in LocalId /\ e.role = "admin" =>
           n.role = "admin" \/ RemainingAdmins(e) # {},
         Establish, UNCHANGED setup
  PROVE  /\ SetupFirst' /\ NamedOnce'
         /\ established' => Admins' # {}
<1>1. \A r : r \in LatestLocal' <=> \/ r = n /\ n.id \in LocalId
                                    \/ r \in LatestLocal /\ r.id # n.id
  BY LocalAfter
<1>2. n.id \in LocalId => e \in LatestLocal
  <2>1. e.id \in LocalId => e \in LatestOf(e.id)
    BY DEF Latest, LatestOf
  <2> QED BY <2>1 DEF LatestLocal
<1>3. SetupFirst'
  BY <1>1, <1>2 DEF PrincipalInv, SetupFirst
<1>4. NamedOnce'
  BY <1>1, <1>2 DEF PrincipalInv, NamedOnce
<1>5. established => Admins' # {}
  <2> SUFFICES ASSUME established PROVE Admins' # {}
    OBVIOUS
  <2>1. PICK a \in Admins : TRUE
    BY DEF PrincipalInv
  <2>2. a \in LatestLocal /\ a.role = "admin"
    BY DEF Admins
  <2>3. CASE a.id # n.id
    BY <1>1, <2>2, <2>3 DEF Admins
  <2>4. CASE a.id = n.id
    <3>1. n.id \in LocalId /\ a \in LatestOf(n.id) /\ e \in LatestOf(n.id)
      BY <2>2, <2>4 DEF LatestLocal, Latest, LatestOf
    <3>2. a = e
      BY <3>1, NewestIsOne
    <3>3. n.role = "admin" \/ RemainingAdmins(e) # {}
      BY <2>2, <2>4, <3>2, <3>1
    <3>4. CASE n.role = "admin"
      BY <1>1, <3>1, <3>4 DEF Admins
    <3>5. CASE RemainingAdmins(e) # {}
      BY <1>1, <3>5 DEF RemainingAdmins, Admins
    <3> QED BY <3>3, <3>4, <3>5
  <2> QED BY <2>3, <2>4
<1> QED BY <1>3, <1>4, <1>5 DEF Establish

(* Insert makes one account, of a name nobody has.                         *)
LEMMA InsertRenews ==
  ASSUME PrincipalInv, NEW username \in Username, NEW role \in Role, NEW origin \in Origin,
         Insert(username, role, origin)
  PROVE  \E n : /\ Renews(n) /\ n.id \in LocalId /\ LatestOf(n.id) = {}
                /\ n.username = username /\ n.role = role /\ n.origin = origin
                /\ \A q \in LatestLocal : q.username # username
<1> DEFINE id == CHOOSE id \in LocalId : LatestOf(id) = {}
<1>1. id \in LocalId /\ LatestOf(id) = {}
  BY DEF Insert
<1>2. PICK now \in 0..PrincipalClock :
        principals' = principals \cup
          {[id |-> id, username |-> username, role |-> role, origin |-> origin,
            password |-> 0, tv |-> 0, version |-> now]}
  BY DEF Insert
<1> HIDE DEF id
<1> DEFINE n == [id |-> id, username |-> username, role |-> role, origin |-> origin,
                 password |-> 0, tv |-> 0, version |-> now]
<1>3. now \in 0..MaxRowVersion
  BY PrincipalAssumption
<1>4. n \in PrincipalRow /\ n.id = id
  BY <1>1, <1>3 DEF PrincipalRow
<1>5. n.username = username /\ n.role = role /\ n.origin = origin
  OBVIOUS
<1>6. principals' = principals \cup {n}
  BY <1>2
<1> HIDE DEF n
<1>7. Renews(n)
  BY <1>1, <1>4, <1>6, FirstRowRenews
<1>8. \A q \in LatestLocal : q.username # username
  BY DEF Insert
<1> QED BY <1>1, <1>4, <1>5, <1>7, <1>8

(* A new account under a new name leaves the others as they are.           *)
LEMMA NewAccountKeeps ==
  ASSUME PrincipalInv, NEW n, Renews(n), LatestOf(n.id) = {},
         \A q \in LatestLocal : q.username # n.username, Establish
  PROVE  /\ NamedOnce'
         /\ established' => Admins' # {}
         /\ \A token \in minted : Dated(token)' /\ \E p \in principals' : p.id = token.id
<1>1. \A r : r \in LatestLocal' <=> \/ r = n /\ n.id \in LocalId
                                    \/ r \in LatestLocal /\ r.id # n.id
  BY LocalAfter
<1>2. \A r \in LatestLocal : r.id # n.id
  BY DEF LatestLocal, LatestOf
<1>3. NamedOnce'
  BY <1>1 DEF PrincipalInv, NamedOnce
<1>4. Admins \subseteq Admins'
  BY <1>1, <1>2 DEF Admins
<1>5. established' => Admins' # {}
  BY <1>4 DEF Establish, PrincipalInv
<1> QED BY <1>3, <1>5, TokensKept

(* SetRole, ChangePassword, ForceResetAdminPassword and RevokeSessions.    *)
LEMMA RewriteStep ==
  ASSUME PrincipalInv, NEW e \in Latest, NEW changed \in PrincipalRow,
         changed.id = e.id, changed.username = e.username, changed.origin = e.origin,
         changed.tv = e.tv + 1,
         e.id \in LocalId /\ e.role = "admin" =>
           changed.role = "admin" \/ RemainingAdmins(e) # {},
         Replace(e, changed)
  PROVE  PrincipalInv'
<1>1. PICK n : n = [changed EXCEPT !.version = n.version] /\ Renews(n)
  BY ReplaceRenews
<1>2. /\ n.id = e.id /\ n.username = e.username /\ n.origin = e.origin
      /\ n.tv = e.tv + 1 /\ n.role = changed.role
  BY <1>1 DEF PrincipalRow
<1>3. Establish /\ UNCHANGED <<minted, renewing, setup, claim>>
  BY DEF Replace
<1>4. SetupFirst' /\ NamedOnce' /\ (established' => Admins' # {})
  BY <1>1, <1>2, <1>3, RewriteKeeps
<1>5. \A r \in LatestOf(n.id) : n.tv > r.tv
  <2>1. e \in LatestOf(n.id)
    BY <1>2 DEF Latest, LatestOf
  <2>2. e \in principals
    BY DEF Latest, LatestOf
  <2>3. e.tv \in Nat
    BY <2>2 DEF PrincipalInv, PrincipalTypeOK
  <2>4. \A r \in LatestOf(n.id) : r = e
    BY <2>1, NewestIsOne
  <2> QED BY <1>2, <2>3, <2>4
<1>6. \A token \in minted : Dated(token)' /\ \E p \in principals' : p.id = token.id
  BY <1>1, <1>5, TokensKept
<1>7. PrincipalTypeOK'
  BY <1>1, <1>3 DEF PrincipalInv, PrincipalTypeOK, Renews, PrincipalRow, Establish
<1>8. OneOfAVersion'
  BY <1>1 DEF Renews, OneOfAVersion
<1> QED BY <1>3, <1>4, <1>6, <1>7, <1>8 DEF PrincipalInv, HeldByAnAccount

LEMMA SetRoleKeeps == ASSUME PrincipalInv, SetRole PROVE PrincipalInv'
<1>1. PICK p \in Latest, role \in Role :
        /\ p.id \in LocalId /\ p.role = "admin" /\ role # "admin" => RemainingAdmins(p) # {}
        /\ Replace(p, [p EXCEPT !.role = role, !.tv = @ + 1])
  BY DEF SetRole
<1> DEFINE changed == [p EXCEPT !.role = role, !.tv = @ + 1]
<1>2. p \in PrincipalRow
  BY DEF Latest, LatestOf, PrincipalInv, PrincipalTypeOK, PrincipalRow
<1>3. changed \in PrincipalRow
  <2>1. p.tv + 1 \in Nat /\ p.password + 1 \in Nat
    BY <1>2 DEF PrincipalRow
  <2> QED BY <1>2, <2>1 DEF PrincipalRow
<1>4. /\ changed.id = p.id /\ changed.username = p.username /\ changed.origin = p.origin
      /\ changed.tv = p.tv + 1 /\ changed.role = role
  BY <1>2 DEF PrincipalRow
<1>5. Replace(p, changed)
  BY <1>1
<1> HIDE DEF changed
<1> QED BY <1>1, <1>3, <1>4, <1>5, RewriteStep

LEMMA ReplacePasswordKeeps == ASSUME PrincipalInv, ReplacePassword PROVE PrincipalInv'
<1>1. PICK p \in LatestLocal : Replace(p, [p EXCEPT !.password = @ + 1, !.tv = @ + 1])
  BY DEF ReplacePassword
<1> DEFINE changed == [p EXCEPT !.password = @ + 1, !.tv = @ + 1]
<1>2. p \in Latest /\ p \in PrincipalRow
  BY DEF LatestLocal, Latest, LatestOf, PrincipalInv, PrincipalTypeOK, PrincipalRow
<1>3. changed \in PrincipalRow
  <2>1. p.tv + 1 \in Nat /\ p.password + 1 \in Nat
    BY <1>2 DEF PrincipalRow
  <2> QED BY <1>2, <2>1 DEF PrincipalRow
<1>4. /\ changed.id = p.id /\ changed.username = p.username /\ changed.origin = p.origin
      /\ changed.tv = p.tv + 1 /\ changed.role = p.role
  BY <1>2 DEF PrincipalRow
<1>5. Replace(p, changed)
  BY <1>1
<1> HIDE DEF changed
<1> QED BY <1>2, <1>3, <1>4, <1>5, RewriteStep

LEMMA RevokeSessionsKeeps == ASSUME PrincipalInv, RevokeSessions PROVE PrincipalInv'
<1>1. PICK p \in Latest : Replace(p, [p EXCEPT !.tv = @ + 1])
  BY DEF RevokeSessions
<1> DEFINE changed == [p EXCEPT !.tv = @ + 1]
<1>2. p \in PrincipalRow
  BY DEF Latest, LatestOf, PrincipalInv, PrincipalTypeOK, PrincipalRow
<1>3. changed \in PrincipalRow
  <2>1. p.tv + 1 \in Nat /\ p.password + 1 \in Nat
    BY <1>2 DEF PrincipalRow
  <2> QED BY <1>2, <2>1 DEF PrincipalRow
<1>4. /\ changed.id = p.id /\ changed.username = p.username /\ changed.origin = p.origin
      /\ changed.tv = p.tv + 1 /\ changed.role = p.role
  BY <1>2 DEF PrincipalRow
<1>5. Replace(p, changed)
  BY <1>1
<1> HIDE DEF changed
<1> QED BY <1>3, <1>4, <1>5, RewriteStep

(* The account EnsureAdmin makes is the only one that it made.             *)
LEMMA CreateLocalKeeps == ASSUME PrincipalInv, CreateLocal PROVE PrincipalInv'
<1>1. PICK username \in Username, role \in Role : Insert(username, role, "created")
  BY DEF CreateLocal
<1>2. PICK n : /\ Renews(n) /\ n.id \in LocalId /\ LatestOf(n.id) = {}
               /\ n.username = username /\ n.origin = "created"
               /\ \A q \in LatestLocal : q.username # username
  BY <1>1, InsertRenews DEF Origin
<1>3. Establish /\ UNCHANGED <<minted, renewing, setup, claim>>
  BY <1>1 DEF CreateLocal, Insert
<1>4. /\ NamedOnce' /\ (established' => Admins' # {})
      /\ \A token \in minted : Dated(token)' /\ \E p \in principals' : p.id = token.id
  BY <1>2, <1>3, NewAccountKeeps
<1>5. SetupFirst'
  BY <1>2, <1>3, LocalAfter DEF PrincipalInv, SetupFirst
<1>6. PrincipalTypeOK'
  BY <1>2, <1>3 DEF PrincipalInv, PrincipalTypeOK, Renews, PrincipalRow, Establish
<1>7. OneOfAVersion'
  BY <1>2 DEF Renews, OneOfAVersion
<1> QED BY <1>3, <1>4, <1>5, <1>6, <1>7 DEF PrincipalInv, HeldByAnAccount

LEMMA InsertAdminKeeps ==
  ASSUME PrincipalInv, NEW s \in Setup, InsertAdmin(s) PROVE PrincipalInv'
<1>1. setup[s] = "insert" /\ UNCHANGED <<minted, renewing, claim>>
  BY DEF InsertAdmin
<1>2. setup \in [Setup -> {"off", "claim", "insert", "release"}]
  BY DEF PrincipalInv, PrincipalTypeOK
<1>3. PICK username \in Username, at \in {"off", "release"} :
        /\ setup' = [setup EXCEPT ![s] = at]
        /\ \/ Insert(username, "admin", "admin")
           \/ UNCHANGED <<principals, established>>
  BY DEF InsertAdmin, SetupGoes
<1>4. /\ setup' \in [Setup -> {"off", "claim", "insert", "release"}]
      /\ \A r \in Setup : setup'[r] = "off" \/ (r = s /\ setup'[r] = "release")
  BY <1>1, <1>2, <1>3 DEF PrincipalInv, SetupFirst
<1>5. CASE Insert(username, "admin", "admin")
  <2>1. PICK n : /\ Renews(n) /\ n.id \in LocalId /\ LatestOf(n.id) = {}
                 /\ n.username = username
                 /\ \A q \in LatestLocal : q.username # username
    BY <1>5, InsertRenews DEF Origin, Role
  <2>2. Establish
    BY <1>5 DEF Insert
  <2>3. /\ NamedOnce' /\ (established' => Admins' # {})
        /\ \A token \in minted : Dated(token)' /\ \E p \in principals' : p.id = token.id
    BY <2>1, <2>2, NewAccountKeeps
  <2>4. \A p \in LatestLocal : p.origin # "admin"
    BY <1>1 DEF PrincipalInv, SetupFirst
  <2>5. \A p, q \in LatestLocal' : p.origin = "admin" /\ q.origin = "admin" => p = q
    BY <2>1, <2>4, LocalAfter
  <2>6. SetupFirst'
    BY <1>4, <2>5 DEF SetupFirst
  <2>7. PrincipalTypeOK'
    BY <1>1, <1>4, <2>1, <2>2 DEF PrincipalInv, PrincipalTypeOK, Renews, PrincipalRow, Establish
  <2>8. OneOfAVersion'
    BY <2>1 DEF Renews, OneOfAVersion
  <2> QED BY <1>1, <2>3, <2>6, <2>7, <2>8 DEF PrincipalInv, HeldByAnAccount
<1>6. CASE UNCHANGED <<principals, established>>
  <2>1. /\ \A id : LatestOf(id)' = LatestOf(id)
        /\ LatestLocal' = LatestLocal /\ Admins' = Admins
    BY <1>6, AccountsUnmoved
  <2>2. SetupFirst'
    BY <1>4, <2>1 DEF PrincipalInv, SetupFirst
  <2>3. PrincipalTypeOK'
    BY <1>1, <1>4, <1>6 DEF PrincipalInv, PrincipalTypeOK
  <2> QED BY <1>1, <1>6, <2>1, <2>2, <2>3
          DEF PrincipalInv, HeldByAnAccount, Dated, NamedOnce, OneOfAVersion
<1> QED BY <1>3, <1>5, <1>6

(* A token minted with no change of the accounts.                          *)
LEMMA MintKeeps ==
  ASSUME PrincipalInv, UNCHANGED <<principals, setup, claim, established>>,
         renewing' \subseteq renewing,
         NEW id \in LocalId \cup SsoId, NEW p \in LatestOf(id), Mint(p)
  PROVE  PrincipalInv'
<1>1. /\ \A i : LatestOf(i)' = LatestOf(i)
      /\ LatestLocal' = LatestLocal /\ Admins' = Admins
  BY AccountsUnmoved
<1>2. p \in principals /\ p.id = id
  BY DEF LatestOf
<1>3. p \in PrincipalRow
  BY <1>2 DEF PrincipalInv, PrincipalTypeOK, PrincipalRow
<1>4. LatestOf(p.id)' = {p}
  BY <1>1, <1>2, NewestIsOne
<1>5. \A token \in minted : Dated(token)' /\ \E q \in principals' : q.id = token.id
  BY <1>1 DEF PrincipalInv, HeldByAnAccount, Dated
<1>6. minted \subseteq [id : LocalId \cup SsoId, role : Role, password : Nat, tv : Nat]
  BY DEF PrincipalInv, PrincipalTypeOK
<1>7. /\ minted' \subseteq [id : LocalId \cup SsoId, role : Role, password : Nat, tv : Nat]
      /\ \A token \in minted' : Dated(token)'
      /\ HeldByAnAccount'
  BY <1>2, <1>3, <1>4, <1>5, <1>6, MintDated
<1>8. PrincipalTypeOK'
  BY <1>7 DEF PrincipalInv, PrincipalTypeOK
<1> QED BY <1>1, <1>7, <1>8 DEF PrincipalInv, OneOfAVersion, SetupFirst, NamedOnce

(* A sign-in of the IdP: the row, and the token if it was told of the row. *)
LEMMA UpsertOIDCKeeps == ASSUME PrincipalInv, UpsertOIDC PROVE PrincipalInv'
<1> DEFINE fresh(id, role, now) ==
             [id |-> id, username |-> id, role |-> role, origin |-> "oidc",
              password |-> 0, tv |-> 0, version |-> now]
           next(e, role, now) ==
             [e EXCEPT !.role = role, !.tv = TvOfSignIn(e, role),
                       !.version = NextPrincipalVersion(now, e.version)]
<1>1. PICK id \in SsoId, role \in Role, now \in 0..PrincipalClock :
        \E p : /\ \/ LatestOf(id) = {} /\ p = fresh(id, role, now)
                  \/ \E e \in LatestOf(id) : p = next(e, role, now)
               /\ p.version =< MaxRowVersion /\ principals' = principals \cup {p}
               /\ Mint(p) \/ UNCHANGED minted
  BY DEF UpsertOIDC
<1>2. PICK p : /\ \/ LatestOf(id) = {} /\ p = fresh(id, role, now)
                  \/ \E e \in LatestOf(id) : p = next(e, role, now)
               /\ p.version =< MaxRowVersion /\ principals' = principals \cup {p}
               /\ Mint(p) \/ UNCHANGED minted
  BY <1>1
<1>3. UNCHANGED <<renewing, setup, claim, established>>
  BY DEF UpsertOIDC
<1>4. /\ p \in PrincipalRow /\ p.id = id /\ Renews(p)
      /\ \A e \in LatestOf(id) : \/ p.tv > e.tv
                                 \/ p.tv = e.tv /\ p.role = e.role /\ p.password = e.password
  <2>1. CASE LatestOf(id) = {} /\ p = fresh(id, role, now)
    <3>1. now \in 0..MaxRowVersion
      BY PrincipalAssumption
    <3>2. p \in PrincipalRow /\ p.id = id
      BY <2>1, <3>1 DEF PrincipalRow, Origin
    <3> QED BY <1>2, <2>1, <3>2, FirstRowRenews
  <2>2. ASSUME NEW e \in LatestOf(id), p = next(e, role, now)
        PROVE  /\ p \in PrincipalRow /\ p.id = id /\ Renews(p)
               /\ \A r \in LatestOf(id) : \/ p.tv > r.tv
                                          \/ p.tv = r.tv /\ p.role = r.role /\ p.password = r.password
    <3>1. e \in principals /\ e.id = id
      BY DEF LatestOf
    <3>2. e \in PrincipalRow
      BY <3>1 DEF PrincipalInv, PrincipalTypeOK, PrincipalRow
    <3>3. e.version \in Nat /\ e.tv \in Nat
      BY <3>2, PrincipalAssumption DEF PrincipalRow
    <3>4. /\ NextPrincipalVersion(now, e.version) \in Nat
          /\ NextPrincipalVersion(now, e.version) > e.version
      BY <3>3, NextPrincipalVersionAbove
    <3>5. /\ p.id = id /\ p.version = NextPrincipalVersion(now, e.version)
          /\ p.role = role /\ p.tv = TvOfSignIn(e, role) /\ p.password = e.password
      BY <2>2, <3>1, <3>2 DEF PrincipalRow
    <3>6. /\ TvOfSignIn(e, role) \in Nat
          /\ e.role # role => TvOfSignIn(e, role) > e.tv
          /\ e.role = role => TvOfSignIn(e, role) = e.tv
      BY <3>3 DEF TvOfSignIn
    <3>7. p \in PrincipalRow
      <4>1. NextPrincipalVersion(now, e.version) \in 0..MaxRowVersion
        <5>1. p.version =< MaxRowVersion
          BY <1>2
        <5> QED BY <3>4, <3>5, <5>1, PrincipalAssumption
      <4> QED BY <2>2, <3>2, <3>6, <4>1 DEF PrincipalRow
    <3>8. Renews(p)
      BY <1>2, <3>4, <3>5, <3>7, AppendedRenews
    <3>9. \A r \in LatestOf(id) : r = e
      BY NewestIsOne
    <3>10. \/ p.tv > e.tv
           \/ p.tv = e.tv /\ p.role = e.role /\ p.password = e.password
      BY <3>5, <3>6
    <3> QED BY <3>5, <3>7, <3>8, <3>9, <3>10
  <2> QED BY <1>2, <2>1, <2>2
<1>5. \A token \in minted : Dated(token)' /\ \E q \in principals' : q.id = token.id
  BY <1>4, TokensKept
<1>6. LatestOf(p.id)' = {p}
  BY <1>4, NewestAfter
<1>7. minted \subseteq [id : LocalId \cup SsoId, role : Role, password : Nat, tv : Nat]
  BY DEF PrincipalInv, PrincipalTypeOK
<1>8. /\ minted' \subseteq [id : LocalId \cup SsoId, role : Role, password : Nat, tv : Nat]
      /\ \A token \in minted' : Dated(token)'
      /\ HeldByAnAccount'
  <2>1. CASE Mint(p)
    BY <1>4, <1>5, <1>6, <1>7, <2>1, MintDated DEF Renews
  <2>2. CASE UNCHANGED minted
    BY <1>5, <1>7, <2>2 DEF HeldByAnAccount
  <2> QED BY <1>2, <2>1, <2>2
<1>9. LatestLocal' = LatestLocal
  <2>1. p.id \notin LocalId
    BY <1>4, PrincipalAssumption
  <2>2. \A i \in LocalId : LatestOf(i)' = LatestOf(i)
    BY <1>4, <2>1, NewestAfter
  <2> QED BY <2>2 DEF LatestLocal
<1>10. PrincipalTypeOK'
  BY <1>3, <1>4, <1>8 DEF PrincipalInv, PrincipalTypeOK, Renews, PrincipalRow
<1>11. OneOfAVersion'
  BY <1>4 DEF Renews, OneOfAVersion
<1>12. SetupFirst' /\ NamedOnce' /\ (established' => Admins' # {})
  BY <1>3, <1>9 DEF PrincipalInv, SetupFirst, NamedOnce, Admins
<1> QED BY <1>8, <1>10, <1>11, <1>12 DEF PrincipalInv

(* A step of a sign-in that makes no token, or of EnsureAdmin but the      *)
(* insert.                                                                 *)
LEMMA SetupKeeps ==
  ASSUME PrincipalInv, UNCHANGED <<principals, minted, established>>,
         renewing' \subseteq LocalId \cup SsoId, claim' \in BOOLEAN,
         setup' \in [Setup -> {"off", "claim", "insert", "release"}],
         \A s, r \in Setup : setup'[s] # "off" /\ setup'[r] # "off" => s = r,
         \A s \in Setup : setup'[s] \in {"claim", "insert"} =>
           setup[s] \in {"claim", "insert"} \/ LatestLocal = {}
  PROVE  PrincipalInv'
<1>1. /\ \A id : LatestOf(id)' = LatestOf(id)
      /\ LatestLocal' = LatestLocal /\ Admins' = Admins
  BY AccountsUnmoved
<1>2. PrincipalTypeOK'
  BY DEF PrincipalInv, PrincipalTypeOK
<1>3. SetupFirst'
  BY <1>1 DEF PrincipalInv, SetupFirst
<1> QED BY <1>1, <1>2, <1>3
        DEF PrincipalInv, HeldByAnAccount, Dated, NamedOnce, OneOfAVersion

(* Of one account there is one newest row, and EnsureAdmin made one.       *)
LEMMA PrincipalInvSound == PrincipalInv => PrincipalsSound
<1> SUFFICES ASSUME PrincipalInv PROVE PrincipalsSound
  OBVIOUS
<1>1. ASSUME NEW S, \A x, y \in S : x = y PROVE Cardinality(S) =< 1
  <2>1. CASE S = {}
    BY <2>1, FS_EmptySet
  <2>2. CASE S # {}
    <3>1. PICK x \in S : TRUE
      BY <2>2
    <3>2. S = {x}
      BY <1>1
    <3>3. Cardinality(S) = 1
      BY <3>2, FS_Singleton, Zenon
    <3> QED BY <3>3
  <2> QED BY <2>1, <2>2
<1>2. \A id \in LocalId \cup SsoId : Cardinality(LatestOf(id)) =< 1
  BY <1>1, NewestIsOne
<1>3. Cardinality({p \in LatestLocal : p.origin = "admin"}) =< 1
  BY <1>1 DEF PrincipalInv, SetupFirst
<1> QED BY <1>2, <1>3
        DEF PrincipalInv, Dated, NamedOnce,
            PrincipalsSound, SessionAuthority, RetiredForGood, AdministratorStays

(* The tokens an account has been given say no more than the newest row    *)
(* grants, whichever rewrite, sign-in or renewal ran beside which, a row   *)
(* that a version has retired never comes back, and there is a local       *)
(* administrator from the first one on (principals.go, sessions.go).       *)
THEOREM PrincipalTheorem == PrincipalSpec => [](PrincipalTypeOK /\ PrincipalsSound)
<1>1. PrincipalInit => PrincipalInv
  BY DEF PrincipalInit, PrincipalInv, PrincipalTypeOK, OneOfAVersion, HeldByAnAccount,
         SetupFirst, NamedOnce, LatestLocal, LatestOf
<1>2. PrincipalInv /\ [PrincipalNext]_principalVars => PrincipalInv'
  <2> SUFFICES ASSUME PrincipalInv, [PrincipalNext]_principalVars PROVE PrincipalInv'
    OBVIOUS
  <2>1. /\ setup \in [Setup -> {"off", "claim", "insert", "release"}]
        /\ renewing \subseteq LocalId \cup SsoId /\ claim \in BOOLEAN
        /\ \A s, r \in Setup : setup[s] # "off" /\ setup[r] # "off" => s = r
    BY DEF PrincipalInv, PrincipalTypeOK, SetupFirst
  <2>2. CASE Login
    BY <2>2, MintKeeps DEF Login, LatestLocal
  <2>3. CASE PassOld
    <3>1. \A token \in minted : token.id \in LocalId \cup SsoId
      BY DEF PrincipalInv, PrincipalTypeOK
    <3> QED BY <2>1, <2>3, <3>1, SetupKeeps DEF PassOld
  <2>4. CASE RenewToken
    <3>1. PICK id \in renewing :
            /\ renewing' = renewing \ {id}
            /\ (\E p \in LatestOf(id) : Mint(p)) \/ UNCHANGED minted
      BY <2>4 DEF RenewToken
    <3>2. CASE \E p \in LatestOf(id) : Mint(p)
      BY <2>1, <2>4, <3>1, <3>2, MintKeeps DEF RenewToken
    <3>3. CASE UNCHANGED minted
      BY <2>1, <2>4, <3>1, <3>3, SetupKeeps DEF RenewToken
    <3> QED BY <3>1, <3>2, <3>3
  <2>5. ASSUME NEW s \in Setup, CountLocal(s) PROVE PrincipalInv'
    BY <2>1, <2>5, SetupKeeps DEF CountLocal, CredentialFree, SetupGoes
  <2>6. ASSUME NEW s \in Setup, ClaimBootstrap(s) PROVE PrincipalInv'
    BY <2>1, <2>6, SetupKeeps DEF ClaimBootstrap, SetupGoes
  <2>7. ASSUME NEW s \in Setup, ReleaseBootstrapClaim(s) PROVE PrincipalInv'
    BY <2>1, <2>7, SetupKeeps DEF ReleaseBootstrapClaim, SetupGoes
  <2>8. CASE PrincipalRestart
    BY <2>1, <2>8, SetupKeeps DEF PrincipalRestart
  <2>9. CASE UNCHANGED principalVars
    BY <2>1, <2>9, SetupKeeps DEF principalVars
  <2> QED
    BY <2>2, <2>3, <2>4, <2>5, <2>6, <2>7, <2>8, <2>9,
       SetRoleKeeps, ReplacePasswordKeeps, RevokeSessionsKeeps,
       CreateLocalKeeps, InsertAdminKeeps, UpsertOIDCKeeps
    DEF PrincipalNext
<1>3. PrincipalInv => PrincipalTypeOK /\ PrincipalsSound
  BY PrincipalInvSound DEF PrincipalInv
<1> QED
  BY <1>1, <1>2, <1>3, PTL DEF PrincipalSpec

-----------------------------------------------------------------------------
(* Sites and their managers.                                               *)

SiteCall ==
  [at : {"off", "look", "insert", "current", "refs", "taken", "answer"},
   ref : Ref \cup {NoOne}, site : 0..ids, todo : SUBSET (1..ids)]

SiteTyped ==
  /\ SiteTypeOK
  /\ sites \in [DOMAIN sites -> BOOLEAN] /\ cache \in [DOMAIN cache -> BOOLEAN]
  /\ caller \in [Caller -> SiteCall]
  /\ deletion \in [site : 0..ids, at : {"off", "invalidate", "mapping"}]
  /\ flip.site \in Ingested \cup {NoOne}
  /\ fetch \in [site : SiteId \cup {NoOne}, raw : BOOLEAN]

OneManages == \A c, d \in Caller : caller[c].at # "off" /\ caller[d].at # "off" => c = d

(* What the call that has managedMu read still holds: deletions make sites *)
(* and mappings fewer beside it, and nobody else makes any.                *)
Holds(call) ==
  /\ call.at # "off" => call.ref \in Ref
  /\ call.at = "look" => \A s \in call.todo : Live(s) => <<s, call.ref>> \in mappings
  /\ call.at \in {"look", "taken"} =>
       \A m \in mappings : m[2] = call.ref /\ Live(m[1]) => m[1] \in call.todo
  /\ call.at \in {"current", "refs", "taken"} => call.site \in 1..ids
  /\ call.at \in {"refs", "taken"} => \A m \in mappings : m[1] # call.site
  /\ call.at = "insert" =>
       /\ <<call.site, call.ref>> \in mappings /\ ~Live(call.site) /\ call.site # deletion.site
       /\ \A m \in mappings : m[2] = call.ref => ~Live(m[1])
  /\ call.at = "answer" => (Live(call.site) => <<call.site, call.ref>> \in mappings)

(* What has been deleted is not live, and is not told.                     *)
Deleted ==
  /\ deletion.at # "off" => ~Live(deletion.site)
  /\ \A m \in told : Live(m[1])

(* A value of the privacy setting is the row's, or a write is known to be  *)
(* about to invalidate it, or to have failed.                              *)
SettingKnown(s, raw) ==
  \/ Live(s) /\ raw = sites[s]
  \/ s \in unsure \/ s = flip.site \/ (s = deletion.site /\ deletion.at = "invalidate")

Privacy ==
  /\ \A s \in DOMAIN cache : SettingKnown(s, cache[s])
  /\ fetch # NoFetch => fetch.site \in SiteId /\ SettingKnown(fetch.site, fetch.raw)

Managed == OneManages /\ (\A c \in Caller : Holds(caller[c])) /\ Deleted /\ OneSitePerRef /\ NoOrphanSites

SiteInv == SiteTyped /\ Managed /\ Privacy

LEMMA WithTyped ==
  ASSUME NEW S, NEW f, f \in [DOMAIN f -> S], NEW s, NEW v \in S
  PROVE  With(f, s, v) \in [DOMAIN f \cup {s} -> S]
BY DEF With

LEMMA WithoutIs ==
  ASSUME NEW S, NEW f, f \in [DOMAIN f -> S], NEW s
  PROVE  /\ Without(f, s) \in [DOMAIN f \ {s} -> S]
         /\ DOMAIN Without(f, s) = DOMAIN f \ {s}
         /\ \A t \in DOMAIN f : t # s => Without(f, s)[t] = f[t]
BY DEF Without

LEMMA IdsAre == ids \in SiteId => ids \in Nat /\ Default \in 1..ids /\ 1..ids \subseteq SiteId
BY SiteAssumption DEF SiteId, Default

(* While one call is at work the others hold nothing.                      *)
LEMMA CallMoves ==
  ASSUME SiteTyped, Managed, NEW c \in Caller, NEW call \in SiteCall',
         \/ caller[c].at # "off"
         \/ ManagedFree("ensure"),
         SiteCall \subseteq SiteCall',
         CallGoes(c, call), Holds(call)'
  PROVE  /\ caller' \in [Caller -> SiteCall'] /\ OneManages'
         /\ \A d \in Caller : Holds(caller[d])'
<1>1. caller' = [caller EXCEPT ![c] = call] /\ caller \in [Caller -> SiteCall]
  BY DEF CallGoes, SiteTyped
<1>2. \A d \in Caller : d # c => caller[d].at = "off"
  BY DEF Managed, OneManages, ManagedFree
<1>3. caller' \in [Caller -> SiteCall']
  BY <1>1
<1>4. /\ caller'[c] = call
      /\ \A d \in Caller : d # c => caller'[d].at = "off"
  BY <1>1, <1>2
<1>5. OneManages'
  BY <1>4 DEF OneManages
<1>6. ASSUME NEW d \in Caller, d # c PROVE Holds(caller[d])'
  <2>1. caller'[d].at = "off"
    BY <1>4, <1>6
  <2> QED BY <2>1 DEF Holds
<1> QED BY <1>3, <1>4, <1>5, <1>6

(* A step of a call that writes nothing.                                   *)
LEMMA CallOnly ==
  ASSUME SiteInv, NEW c \in Caller, NEW call \in SiteCall,
         \/ caller[c].at # "off"
         \/ ManagedFree("ensure"),
         CallGoes(c, call), Holds(call),
         UNCHANGED <<sites, mappings, ids, deletion, flip, fetch, cache, told, unsure, revived>>
  PROVE  SiteInv'
<1>1. SiteCall' = SiteCall
  BY DEF SiteCall
<1>2. Holds(call)'
  BY DEF Holds, Live
<1>3. /\ caller' \in [Caller -> SiteCall'] /\ OneManages'
      /\ \A d \in Caller : Holds(caller[d])'
  BY <1>1, <1>2, CallMoves DEF SiteInv
<1>4. SiteTyped'
  <2>1. \A d \in Caller : caller'[d].at \in {"off", "look", "insert", "current", "refs", "taken", "answer"}
    BY <1>3 DEF SiteCall
  <2> QED BY <1>3, <2>1 DEF SiteInv, SiteTyped, SiteTypeOK
<1>5. Deleted' /\ OneSitePerRef' /\ NoOrphanSites' /\ Privacy'
  BY DEF SiteInv, Managed, Deleted, OneSitePerRef, NoOrphanSites, Privacy, SettingKnown, Live
<1> QED BY <1>3, <1>4, <1>5 DEF SiteInv, Managed

LEMMA NoCallHolds ==
  /\ Holds(NoCall) /\ Holds(NoCall)'
  /\ ids \in Nat => NoCall \in SiteCall
BY DEF Holds, NoCall, SiteCall, NoOne

LEMMA ReadManagedKeeps ==
  ASSUME SiteInv, NEW c \in Caller, NEW f \in Ref, ReadManaged(c, f) PROVE SiteInv'
<1> DEFINE call == [at |-> "look", ref |-> f, site |-> NoOne, todo |-> NamedBy(f)]
<1>1. ids \in Nat /\ mappings \subseteq (1..ids) \X Ref
  BY IdsAre DEF SiteInv, SiteTyped, SiteTypeOK
<1>2. NamedBy(f) \subseteq 1..ids
  BY <1>1 DEF NamedBy
<1>3. call \in SiteCall
  BY <1>1, <1>2 DEF SiteCall, NoOne
<1>4. \A m \in mappings : m[2] = f <=> m[2] = f /\ m[1] \in NamedBy(f)
  BY DEF NamedBy
<1>5. \A s \in NamedBy(f) : <<s, f>> \in mappings
  BY <1>1 DEF NamedBy
<1>6. Holds(call)
  BY <1>4, <1>5 DEF Holds
<1> HIDE DEF call
<1> QED BY <1>3, <1>6, CallOnly DEF ReadManaged, call

LEMMA LookManagedKeeps ==
  ASSUME SiteInv, NEW c \in Caller, LookManaged(c) PROVE SiteInv'
<1>1. PICK s \in caller[c].todo :
        IF Live(s) THEN CallGoes(c, [caller[c] EXCEPT !.at = "answer", !.site = s])
                   ELSE CallGoes(c, [caller[c] EXCEPT !.todo = @ \ {s}])
  BY DEF LookManaged
<1>2. caller[c] \in SiteCall /\ caller[c].at = "look" /\ Holds(caller[c])
  BY DEF SiteInv, SiteTyped, Managed, LookManaged
<1>3. s \in 0..ids
  BY <1>2 DEF SiteCall
<1>4. CASE Live(s)
  <2> DEFINE call == [caller[c] EXCEPT !.at = "answer", !.site = s]
  <2>1. call \in SiteCall
    BY <1>2, <1>3 DEF SiteCall
  <2>2. Holds(call)
    BY <1>1, <1>2, <1>4 DEF SiteCall, Holds
  <2>3. CallGoes(c, call)
    BY <1>1, <1>4
  <2> HIDE DEF call
  <2> QED BY <1>2, <2>1, <2>2, <2>3, CallOnly DEF LookManaged
<1>5. CASE ~Live(s)
  <2> DEFINE call == [caller[c] EXCEPT !.todo = @ \ {s}]
  <2>1. call \in SiteCall
    BY <1>2 DEF SiteCall
  <2>2. Holds(call)
    BY <1>1, <1>2, <1>5 DEF SiteCall, Holds
  <2>3. CallGoes(c, call)
    BY <1>1, <1>5
  <2> HIDE DEF call
  <2> QED BY <1>2, <2>1, <2>2, <2>3, CallOnly DEF LookManaged
<1> QED BY <1>4, <1>5

LEMMA BeginAdoptKeeps ==
  ASSUME SiteInv, NEW c \in Caller, NEW s \in SiteId, NEW f \in Ref, BeginAdopt(c, s, f)
  PROVE  SiteInv'
<1> DEFINE call == [at |-> "current", ref |-> f, site |-> s, todo |-> {}]
<1>1. s \in 1..ids /\ ids \in Nat
  BY IdsAre DEF BeginAdopt, Live, SiteInv, SiteTyped, SiteTypeOK
<1>2. call \in SiteCall
  BY <1>1 DEF SiteCall
<1>3. Holds(call)
  BY <1>1 DEF Holds
<1>4. ManagedFree("ensure")
  BY DEF BeginAdopt, ManagedFree
<1> HIDE DEF call
<1> QED BY <1>2, <1>3, <1>4, CallOnly DEF BeginAdopt, call

LEMMA CallEndsKeeps ==
  ASSUME SiteInv, NEW c \in Caller, caller[c].at # "off", CallEnds(c),
         UNCHANGED <<sites, mappings, ids, deletion, flip, fetch, cache, told, unsure, revived>>
  PROVE  SiteInv'
<1>1. ids \in Nat
  BY IdsAre DEF SiteInv, SiteTyped, SiteTypeOK
<1> QED BY <1>1, NoCallHolds, CallOnly DEF CallEnds

LEMMA ReadManagerKeeps ==
  ASSUME SiteInv, NEW c \in Caller, ReadManager(c) PROVE SiteInv'
<1> DEFINE refs == {m[2] : m \in {n \in mappings : n[1] = caller[c].site}}
<1>1. caller[c] \in SiteCall /\ caller[c].at = "current" /\ Holds(caller[c])
  BY DEF SiteInv, SiteTyped, Managed, ReadManager
<1>2. /\ mappings \subseteq (1..ids) \X Ref
      /\ UNCHANGED <<sites, mappings, ids, deletion, flip, fetch, cache, told, unsure, revived>>
  BY DEF SiteInv, SiteTyped, SiteTypeOK, ReadManager
<1>3. CASE refs = {}
  <2> DEFINE call == [caller[c] EXCEPT !.at = "refs"]
  <2>1. call \in SiteCall
    BY <1>1 DEF SiteCall
  <2>2. \A m \in mappings : m[1] # caller[c].site
    BY <1>3
  <2>3. Holds(call)
    BY <1>1, <2>2 DEF SiteCall, Holds
  <2>4. CallGoes(c, call)
    BY <1>3 DEF ReadManager
  <2> HIDE DEF call
  <2> QED BY <1>1, <1>2, <2>1, <2>3, <2>4, CallOnly
<1>4. CASE refs # {} /\ refs = {caller[c].ref}
  <2> DEFINE call == [caller[c] EXCEPT !.at = "answer"]
  <2>1. call \in SiteCall
    BY <1>1 DEF SiteCall
  <2>2. <<caller[c].site, caller[c].ref>> \in mappings
    <3>1. PICK m \in mappings : m[1] = caller[c].site /\ m[2] = caller[c].ref
      BY <1>4
    <3>2. m = <<m[1], m[2]>>
      BY <1>2
    <3> QED BY <3>1, <3>2
  <2>3. Holds(call)
    BY <1>1, <2>2 DEF SiteCall, Holds
  <2>4. CallGoes(c, call)
    BY <1>4 DEF ReadManager
  <2> HIDE DEF call
  <2> QED BY <1>1, <1>2, <2>1, <2>3, <2>4, CallOnly
<1>5. CASE refs # {} /\ refs # {caller[c].ref}
  <2>1. CallEnds(c)
    BY <1>5 DEF ReadManager
  <2> QED BY <1>1, <1>2, <2>1, CallEndsKeeps
<1> QED BY <1>3, <1>4, <1>5

LEMMA ReadRefsKeeps ==
  ASSUME SiteInv, NEW c \in Caller, ReadRefs(c) PROVE SiteInv'
<1> DEFINE call == [caller[c] EXCEPT !.at = "taken", !.todo = NamedBy(caller[c].ref)]
<1>1. caller[c] \in SiteCall /\ caller[c].at = "refs" /\ Holds(caller[c])
  BY DEF SiteInv, SiteTyped, Managed, ReadRefs
<1>2. mappings \subseteq (1..ids) \X Ref
  BY DEF SiteInv, SiteTyped, SiteTypeOK
<1>3. NamedBy(caller[c].ref) \subseteq 1..ids
  BY <1>2 DEF NamedBy
<1>4. call \in SiteCall
  BY <1>1, <1>3 DEF SiteCall
<1>5. \A m \in mappings : m[2] = caller[c].ref => m[1] \in NamedBy(caller[c].ref)
  BY DEF NamedBy
<1>6. /\ call.at = "taken" /\ call.ref = caller[c].ref /\ call.site = caller[c].site
      /\ call.todo = NamedBy(caller[c].ref)
  BY <1>1 DEF SiteCall
<1>7. CallGoes(c, call)
  BY DEF ReadRefs
<1> HIDE DEF call
<1>8. Holds(call)
  BY <1>1, <1>5, <1>6 DEF Holds
<1> QED BY <1>1, <1>4, <1>7, <1>8, CallOnly DEF ReadRefs

LEMMA LookTakenKeeps ==
  ASSUME SiteInv, NEW c \in Caller, LookTaken(c) PROVE SiteInv'
<1>1. PICK s \in caller[c].todo :
        IF Live(s) THEN CallEnds(c) ELSE CallGoes(c, [caller[c] EXCEPT !.todo = @ \ {s}])
  BY DEF LookTaken
<1>2. caller[c] \in SiteCall /\ caller[c].at = "taken" /\ Holds(caller[c])
  BY DEF SiteInv, SiteTyped, Managed, LookTaken
<1>3. CASE Live(s)
  BY <1>1, <1>2, <1>3, CallEndsKeeps DEF LookTaken
<1>4. CASE ~Live(s)
  <2> DEFINE call == [caller[c] EXCEPT !.todo = @ \ {s}]
  <2>1. call \in SiteCall
    BY <1>2 DEF SiteCall
  <2>2. Holds(call)
    BY <1>1, <1>2, <1>4 DEF SiteCall, Holds
  <2>3. CallGoes(c, call)
    BY <1>1, <1>4
  <2> HIDE DEF call
  <2> QED BY <1>2, <2>1, <2>2, <2>3, CallOnly DEF LookTaken
<1> QED BY <1>3, <1>4

(* What stays true of the setting while no site and no write of it moves.  *)
LEMMA SettingsStay ==
  ASSUME Privacy, SiteTyped, UNCHANGED <<deletion, flip, fetch, cache, unsure>>,
         \A s \in SiteId : Live(s) => Live(s)' /\ sites'[s] = sites[s]
  PROVE  Privacy'
BY DEF Privacy, SettingKnown, SiteTyped, SiteTypeOK

(* The mapping of a new site, or the adoption of a live one.               *)
LEMMA MappingKept ==
  ASSUME SiteInv, NEW c \in Caller, NEW s \in 1..ids', NEW f \in Ref,
         caller[c].at # "off", ids' \in SiteId, ids =< ids',
         UNCHANGED <<sites, deletion, flip, fetch, cache, told, unsure, revived>>,
         \/ mappings' = mappings
         \/ /\ mappings' = mappings \cup {<<s, f>>}
            /\ \A m \in mappings : m[1] # s /\ (m[2] = f => ~Live(m[1])),
         NEW call \in SiteCall', CallGoes(c, call), Holds(call)'
  PROVE  SiteInv'
<1>1. /\ ids \in Nat /\ ids' \in Nat /\ 1..ids \subseteq 1..ids' /\ 0..ids \subseteq 0..ids'
  BY IdsAre, SiteAssumption DEF SiteInv, SiteTyped, SiteTypeOK, SiteId
<1>2. SiteCall \subseteq SiteCall'
  BY <1>1 DEF SiteCall
<1>3. /\ caller' \in [Caller -> SiteCall'] /\ OneManages'
      /\ \A d \in Caller : Holds(caller[d])'
  BY <1>2, CallMoves DEF SiteInv
<1>4. SiteTyped'
  <2>1. \A d \in Caller : caller'[d].at \in {"off", "look", "insert", "current", "refs", "taken", "answer"}
    BY <1>3 DEF SiteCall
  <2>2. mappings \subseteq mappings' /\ mappings' \subseteq (1..ids') \X Ref
    BY <1>1 DEF SiteInv, SiteTyped, SiteTypeOK
  <2>3. SiteTypeOK'
    BY <1>1, <2>1, <2>2 DEF SiteInv, SiteTyped, SiteTypeOK
  <2> QED BY <1>1, <1>3, <2>3 DEF SiteInv, SiteTyped
<1>5. Deleted' /\ NoOrphanSites'
  BY DEF SiteInv, Managed, Deleted, NoOrphanSites, Live
<1>6. OneSitePerRef'
  <2>1. OneSitePerRef
    BY DEF SiteInv, Managed
  <2> QED BY <2>1 DEF OneSitePerRef, Live
<1>7. Privacy'
  BY SettingsStay DEF SiteInv, Live
<1> QED BY <1>3, <1>4, <1>5, <1>6, <1>7 DEF SiteInv, Managed

LEMMA InsertMappingKeeps ==
  ASSUME SiteInv, NEW c \in Caller, InsertMapping(c) PROVE SiteInv'
<1>1. /\ caller[c] \in SiteCall /\ caller[c].at = "look" /\ Holds(caller[c])
      /\ caller[c].todo = {} /\ ids =< MaxSites /\ ids' = ids + 1
      /\ UNCHANGED <<sites, deletion, flip, fetch, cache, told, unsure, revived>>
  BY DEF SiteInv, SiteTyped, Managed, InsertMapping
<1>2. /\ ids \in Nat /\ mappings \subseteq (1..ids) \X Ref /\ DOMAIN sites \subseteq 1..ids
      /\ deletion.site \in 0..ids /\ caller[c].ref \in Ref
  BY <1>1, IdsAre DEF SiteInv, SiteTyped, SiteTypeOK, Holds
<1>3. ids' \in Nat /\ ids' \in SiteId /\ ids =< ids' /\ ids + 1 \in 1..ids'
  BY <1>1, <1>2, SiteAssumption DEF SiteId
<1>4. /\ ids + 1 \notin DOMAIN sites /\ ids + 1 # deletion.site
      /\ \A m \in mappings : m[1] # ids + 1
  BY <1>2
<1>5. \A m \in mappings : m[2] = caller[c].ref => ~Live(m[1])
  BY <1>1 DEF Holds
<1> DEFINE row == <<ids + 1, caller[c].ref>>
<1>6. CASE /\ mappings' = mappings \cup {row}
           /\ CallGoes(c, [caller[c] EXCEPT !.at = "insert", !.site = ids + 1])
  <2>0. PICK call : call = [caller[c] EXCEPT !.at = "insert", !.site = ids + 1]
    OBVIOUS
  <2>1. /\ call.at = "insert" /\ call.site = ids + 1 /\ call.ref = caller[c].ref
        /\ call.todo = {}
    BY <1>1, <2>0 DEF SiteCall
  <2>2. call \in SiteCall'
    <3>1. call \in [at : {"insert"}, ref : Ref, site : {ids + 1}, todo : {{}}]
      BY <1>1, <1>2, <2>0 DEF SiteCall
    <3>2. ids + 1 \in 0..ids'
      BY <1>2, <1>3
    <3> QED BY <3>1, <3>2 DEF SiteCall
  <2>3. CallGoes(c, call)
    BY <1>6, <2>0
  <2>4. Holds(call)'
    BY <1>1, <1>2, <1>4, <1>5, <1>6, <2>1 DEF Holds, Live
  <2> QED BY <1>1, <1>2, <1>3, <1>4, <1>5, <1>6, <2>2, <2>3, <2>4, MappingKept
<1>7. CASE mappings' \in {mappings, mappings \cup {row}} /\ CallEnds(c)
  <2>1. NoCall \in SiteCall'
    BY <1>3 DEF NoCall, SiteCall, NoOne
  <2> QED BY <1>1, <1>2, <1>3, <1>4, <1>5, <1>7, <2>1, NoCallHolds, MappingKept DEF CallEnds
<1> QED BY <1>6, <1>7 DEF InsertMapping

LEMMA RecordAdoptionKeeps ==
  ASSUME SiteInv, NEW c \in Caller, RecordAdoption(c) PROVE SiteInv'
<1>1. /\ caller[c] \in SiteCall /\ caller[c].at = "taken" /\ Holds(caller[c])
      /\ caller[c].todo = {} /\ ids' = ids
      /\ UNCHANGED <<sites, deletion, flip, fetch, cache, told, unsure, revived>>
  BY DEF SiteInv, SiteTyped, Managed, RecordAdoption
<1>2. /\ ids \in Nat /\ ids \in SiteId /\ caller[c].ref \in Ref /\ caller[c].site \in 1..ids
  BY <1>1, IdsAre DEF SiteInv, SiteTyped, SiteTypeOK, Holds
<1>3. \A m \in mappings : m[1] # caller[c].site /\ (m[2] = caller[c].ref => ~Live(m[1]))
  BY <1>1 DEF Holds
<1> DEFINE row == <<caller[c].site, caller[c].ref>>
<1>4. CASE /\ mappings' = mappings \cup {row}
           /\ CallGoes(c, [caller[c] EXCEPT !.at = "answer"])
  <2>0. PICK call : call = [caller[c] EXCEPT !.at = "answer"]
    OBVIOUS
  <2>1. call.at = "answer" /\ call.site = caller[c].site /\ call.ref = caller[c].ref
    BY <1>1, <2>0 DEF SiteCall
  <2>2. call \in SiteCall'
    BY <1>1, <2>0 DEF SiteCall
  <2>3. CallGoes(c, call)
    BY <1>4, <2>0
  <2>4. Holds(call)'
    BY <1>2, <1>4, <2>1 DEF Holds
  <2> QED BY <1>1, <1>2, <1>3, <1>4, <2>2, <2>3, <2>4, MappingKept
<1>5. CASE mappings' \in {mappings, mappings \cup {row}} /\ CallEnds(c)
  <2>1. NoCall \in SiteCall'
    BY <1>1, <1>2 DEF NoCall, SiteCall, NoOne
  <2> QED BY <1>1, <1>2, <1>3, <1>5, <2>1, NoCallHolds, MappingKept DEF CallEnds
<1> QED BY <1>4, <1>5 DEF RecordAdoption

LEMMA InsertSiteKeeps ==
  ASSUME SiteInv, NEW c \in Caller, InsertSite(c) PROVE SiteInv'
<1> DEFINE site == caller[c].site
           ref == caller[c].ref
<1>1. /\ caller[c] \in SiteCall /\ caller[c].at = "insert" /\ Holds(caller[c])
      /\ UNCHANGED <<mappings, ids, deletion, flip, fetch, cache, told, unsure, revived>>
  BY DEF SiteInv, SiteTyped, Managed, InsertSite
<1>2. /\ <<site, ref>> \in mappings /\ ~Live(site) /\ site # deletion.site /\ ref \in Ref
      /\ \A m \in mappings : m[2] = ref => ~Live(m[1])
  BY <1>1 DEF Holds
<1>3. /\ ids \in Nat /\ site \in 1..ids /\ 1..ids \subseteq SiteId
      /\ mappings \subseteq (1..ids) \X Ref /\ SiteCall' = SiteCall
      /\ OneSitePerRef /\ sites \in [DOMAIN sites -> BOOLEAN]
  BY <1>1, <1>2, IdsAre DEF SiteInv, SiteTyped, SiteTypeOK, Managed, SiteCall
<1> HIDE DEF site, ref
<1>4. PICK call \in {[caller[c] EXCEPT !.at = "answer"], NoCall} :
        CallGoes(c, call) /\ (sites' = With(sites, site, FALSE) \/ sites' = sites)
  BY DEF InsertSite, CallEnds, site
<1>5. call \in SiteCall
  BY <1>1, <1>3, <1>4, NoCallHolds DEF SiteCall
<1>6. Holds(call)'
  <2>1. CASE call = NoCall
    BY <2>1, NoCallHolds
  <2>2. CASE call = [caller[c] EXCEPT !.at = "answer"]
    <3>1. call.at = "answer" /\ call.site = site /\ call.ref = ref
      BY <1>1, <2>2 DEF SiteCall, site, ref
    <3> QED BY <1>1, <1>2, <3>1 DEF Holds
  <2> QED BY <1>4, <2>1, <2>2
<1>7. /\ caller' \in [Caller -> SiteCall'] /\ OneManages'
      /\ \A d \in Caller : Holds(caller[d])'
  BY <1>1, <1>3, <1>4, <1>5, <1>6, CallMoves DEF SiteInv
<1>8. /\ DOMAIN sites' \in {DOMAIN sites, DOMAIN sites \cup {site}}
      /\ sites' \in [DOMAIN sites' -> BOOLEAN]
      /\ \A s \in DOMAIN sites : sites'[s] = sites[s]
  <2>1. CASE sites' = sites
    BY <1>3, <2>1
  <2>2. CASE sites' = With(sites, site, FALSE)
    <3>1. /\ DOMAIN sites' = DOMAIN sites \cup {site} /\ sites'[site] = FALSE
          /\ \A s \in DOMAIN sites : s # site => sites'[s] = sites[s]
      BY <2>2 DEF With
    <3>2. sites' \in [DOMAIN sites \cup {site} -> BOOLEAN]
      BY <1>3, <2>2, WithTyped
    <3>3. sites' \in [DOMAIN sites' -> BOOLEAN]
      BY <3>1, <3>2
    <3>4. \A s \in DOMAIN sites : s # site
      BY <1>2 DEF Live
    <3> QED BY <3>1, <3>3, <3>4
  <2> QED BY <1>4, <2>1, <2>2
<1>9. SiteTyped'
  <2>1. \A d \in Caller : caller'[d].at \in {"off", "look", "insert", "current", "refs", "taken", "answer"}
    BY <1>7 DEF SiteCall
  <2>2. DOMAIN sites' \subseteq 1..ids /\ \A s \in DOMAIN sites' : sites'[s] \in BOOLEAN
    BY <1>3, <1>8 DEF SiteInv, SiteTyped, SiteTypeOK
  <2> QED BY <1>1, <1>3, <1>7, <1>8, <2>1, <2>2 DEF SiteInv, SiteTyped, SiteTypeOK
<1>10. Deleted'
  BY <1>1, <1>2, <1>8 DEF SiteInv, Managed, Deleted, Live
<1>11. NoOrphanSites'
  BY <1>1, <1>2, <1>8 DEF SiteInv, Managed, NoOrphanSites
<1>12. OneSitePerRef'
  <2>1. \A m, n \in mappings : m[1] = n[1] => m = n
    BY <1>3 DEF OneSitePerRef
  <2>2. \A m \in mappings : m[1] = site => m[2] = ref
    BY <1>2, <2>1
  <2>3. \A m \in mappings : Live(m[1])' => m[1] = site \/ Live(m[1])
    BY <1>8 DEF Live
  <2> QED BY <1>1, <1>2, <1>3, <2>1, <2>2, <2>3 DEF OneSitePerRef
<1>13. Privacy'
  BY <1>1, <1>8, SettingsStay DEF SiteInv, Live
<1> QED BY <1>7, <1>9, <1>10, <1>11, <1>12, <1>13 DEF SiteInv, Managed

LEMMA ManagedAnsweredKeeps ==
  ASSUME SiteInv, NEW c \in Caller, ManagedAnswered(c) PROVE SiteInv'
<1>1. /\ caller[c].at = "answer" /\ Holds(caller[c]) /\ CallGoes(c, NoCall)
      /\ told' = told \cup {<<s, caller[c].ref>> : s \in {caller[c].site} \cap DOMAIN sites}
      /\ UNCHANGED <<sites, mappings, ids, deletion, flip, fetch, cache, unsure, revived>>
  BY DEF SiteInv, Managed, ManagedAnswered, CallEnds
<1>2. ids \in Nat /\ SiteCall' = SiteCall /\ told \subseteq mappings
  BY <1>1, IdsAre DEF SiteInv, SiteTyped, SiteTypeOK, SiteCall
<1>3. /\ caller' \in [Caller -> SiteCall'] /\ OneManages'
      /\ \A d \in Caller : Holds(caller[d])'
  BY <1>1, <1>2, NoCallHolds, CallMoves DEF SiteInv
<1>4. told' \subseteq mappings /\ \A m \in told' : Live(m[1])
  BY <1>1, <1>2 DEF Holds, Live, SiteInv, Managed, Deleted
<1>5. SiteTyped'
  <2>1. \A d \in Caller : caller'[d].at \in {"off", "look", "insert", "current", "refs", "taken", "answer"}
    BY <1>3 DEF SiteCall
  <2> QED BY <1>1, <1>3, <1>4, <2>1 DEF SiteInv, SiteTyped, SiteTypeOK
<1>6. Deleted'
  BY <1>1, <1>4 DEF Deleted, Live, SiteInv, Managed
<1>7. OneSitePerRef' /\ NoOrphanSites' /\ Privacy'
  BY <1>1 DEF SiteInv, Managed, OneSitePerRef, NoOrphanSites, Privacy, SettingKnown, Live
<1> QED BY <1>3, <1>5, <1>6, <1>7 DEF SiteInv, Managed

LEMMA SiteStutter == ASSUME SiteInv, UNCHANGED siteVars PROVE SiteInv'
<1>1. SiteTyped'
  BY DEF siteVars, SiteInv, SiteTyped, SiteTypeOK, SiteCall
<1>2. (\A c \in Caller : Holds(caller[c])')
  BY DEF siteVars, SiteInv, Managed, Holds, Live
<1>3. OneManages' /\ Deleted' /\ OneSitePerRef' /\ NoOrphanSites'
  BY DEF siteVars, SiteInv, Managed, OneManages, Deleted, OneSitePerRef, NoOrphanSites, Live
<1>4. Privacy'
  BY DEF siteVars, SiteInv, Privacy, SettingKnown, Live
<1> QED BY <1>1, <1>2, <1>3, <1>4 DEF SiteInv, Managed

(* A call knows no less when sites and mappings become fewer beside it.    *)
LEMMA HoldsStays ==
  ASSUME NEW call, Holds(call), UNCHANGED ids,
         DOMAIN sites' \subseteq DOMAIN sites, mappings' \subseteq mappings,
         \A m \in mappings \ mappings' : ~Live(m[1])' /\ (call.at = "insert" => m[1] # call.site),
         call.at = "insert" => call.site # deletion'.site
  PROVE  Holds(call)'
<1>1. \A s : Live(s)' => Live(s)
  BY DEF Live
<1>2. call.at = "look" => \A s \in call.todo : Live(s)' => <<s, call.ref>> \in mappings'
  BY <1>1 DEF Holds
<1>3. call.at = "insert" => <<call.site, call.ref>> \in mappings'
  BY DEF Holds
<1>4. call.at = "answer" => (Live(call.site)' => <<call.site, call.ref>> \in mappings')
  BY <1>1 DEF Holds
<1>5. call.at \in {"look", "taken"} =>
         \A m \in mappings' : m[2] = call.ref /\ Live(m[1])' => m[1] \in call.todo
  BY <1>1 DEF Holds
<1>6. call.at = "insert" => /\ ~Live(call.site)'
                            /\ \A m \in mappings' : m[2] = call.ref => ~Live(m[1])'
  BY <1>1 DEF Holds
<1> QED BY <1>2, <1>3, <1>4, <1>5, <1>6 DEF Holds

LEMMA DeleteSiteKeeps ==
  ASSUME SiteInv, NEW s \in SiteId, DeleteSite(s) PROVE SiteInv'
<1>1. /\ deletion = NoStep /\ Live(s)
      /\ sites' \in {sites, Without(sites, s)}
      /\ told' = IF sites' = sites THEN told ELSE {m \in told : m[1] # s}
      /\ \/ sites' # sites /\ deletion' = [site |-> s, at |-> "invalidate"] /\ UNCHANGED unsure
         \/ /\ unsure' = IF sites' = sites THEN unsure ELSE unsure \cup {s}
            /\ UNCHANGED deletion
      /\ UNCHANGED <<mappings, ids, caller, flip, fetch, cache, revived>>
  BY DEF DeleteSite
<1>2. /\ ids \in Nat /\ sites \in [DOMAIN sites -> BOOLEAN] /\ s \in 1..ids
      /\ DOMAIN sites \subseteq 1..ids /\ 1..ids \subseteq SiteId
  BY <1>1, IdsAre DEF SiteInv, SiteTyped, SiteTypeOK, Live
<1>3. CASE sites' = sites
  <2> QED BY <1>1, <1>3, SiteStutter DEF siteVars
<1>4. CASE sites' = Without(sites, s) /\ sites' # sites
  <2>1. /\ DOMAIN sites' = DOMAIN sites \ {s} /\ sites' \in [DOMAIN sites' -> BOOLEAN]
        /\ \A t \in DOMAIN sites : t # s => sites'[t] = sites[t]
    <3>1. sites' \in [DOMAIN sites \ {s} -> BOOLEAN]
      BY <1>2, <1>4, WithoutIs
    <3> QED BY <1>2, <1>4, <3>1 DEF Without
  <2>2. told' = {m \in told : m[1] # s}
    BY <1>1, <1>4
  <2>3. \/ deletion' = [site |-> s, at |-> "invalidate"] /\ UNCHANGED unsure
        \/ UNCHANGED deletion /\ unsure' = unsure \cup {s}
    BY <1>1, <1>4
  <2>4. deletion' \in [site : 0..ids, at : {"off", "invalidate", "mapping"}]
    BY <1>2, <2>3 DEF SiteInv, SiteTyped
  <2>5. SiteTyped'
    <3>1. unsure' \subseteq SiteId
      BY <1>2, <2>3 DEF SiteInv, SiteTyped, SiteTypeOK
    <3>2. SiteTypeOK'
      BY <1>1, <1>2, <2>1, <2>2, <3>1 DEF SiteInv, SiteTyped, SiteTypeOK
    <3> QED BY <1>1, <2>1, <2>4, <3>2 DEF SiteInv, SiteTyped, SiteCall
  <2>6. Deleted'
    BY <1>1, <2>1, <2>2, <2>3 DEF SiteInv, Managed, Deleted, Live, NoStep
  <2>7. ASSUME NEW c \in Caller PROVE Holds(caller[c])'
    <3>1. Holds(caller[c])
      BY DEF SiteInv, Managed
    <3>2. caller[c].at = "insert" => caller[c].site # deletion'.site
      BY <1>1, <2>3, <3>1 DEF Holds
    <3> QED BY <1>1, <2>1, <3>1, <3>2, HoldsStays
  <2>8. OneManages' /\ OneSitePerRef' /\ NoOrphanSites'
    BY <1>1, <2>1 DEF SiteInv, Managed, OneManages, OneSitePerRef, NoOrphanSites, Live
  <2>9. \A t, raw : SettingKnown(t, raw) => SettingKnown(t, raw)'
    BY <1>1, <2>1, <2>3 DEF SettingKnown, Live, NoStep
  <2>10. Privacy'
    BY <1>1, <2>9 DEF SiteInv, Privacy
  <2> QED BY <1>1, <2>5, <2>6, <2>7, <2>8, <2>10 DEF SiteInv, Managed
<1> QED BY <1>1, <1>3, <1>4

LEMMA DeleteMappingKeeps == ASSUME SiteInv, DeleteMapping PROVE SiteInv'
<1>1. /\ deletion.at = "mapping" /\ deletion' = NoStep
      /\ mappings' \in {mappings, {m \in mappings : m[1] # deletion.site}}
      /\ UNCHANGED <<sites, ids, caller, flip, fetch, cache, told, unsure, revived>>
  BY DEF DeleteMapping
<1>2. ids \in Nat /\ ~Live(deletion.site) /\ \A m \in told : Live(m[1])
  BY <1>1, IdsAre DEF SiteInv, SiteTyped, SiteTypeOK, Managed, Deleted
<1>3. mappings' \subseteq mappings /\ \A m \in mappings \ mappings' : m[1] = deletion.site
  BY <1>1
<1>4. SiteTyped'
  <2>1. told' \subseteq mappings'
    BY <1>1, <1>2, <1>3 DEF SiteInv, SiteTyped, SiteTypeOK
  <2>2. SiteTypeOK'
    BY <1>1, <1>3, <2>1 DEF SiteInv, SiteTyped, SiteTypeOK
  <2> QED BY <1>1, <1>2, <2>2 DEF SiteInv, SiteTyped, SiteCall, NoStep, NoOne
<1>5. ASSUME NEW c \in Caller PROVE Holds(caller[c])'
  <2>1. Holds(caller[c]) /\ mappings \subseteq (1..ids) \X Ref
    BY DEF SiteInv, Managed, SiteTyped, SiteTypeOK
  <2>2. caller[c].at = "insert" => caller[c].site # deletion.site /\ caller[c].site # deletion'.site
    BY <1>1, <1>2, <2>1 DEF Holds, NoStep, NoOne
  <2>3. \A m \in mappings \ mappings' : ~Live(m[1])'
    BY <1>1, <1>2, <1>3 DEF Live
  <2> QED BY <1>1, <1>3, <2>1, <2>2, <2>3, HoldsStays
<1>6. OneManages' /\ OneSitePerRef' /\ Deleted'
  BY <1>1, <1>3 DEF SiteInv, Managed, OneManages, OneSitePerRef, Deleted, Live, NoStep
<1>7. NoOrphanSites'
  BY <1>1, <1>2, <1>3 DEF SiteInv, Managed, NoOrphanSites, Live
<1>8. Privacy'
  BY <1>1 DEF SiteInv, Privacy, SettingKnown, Live, NoStep
<1> QED BY <1>1, <1>4, <1>5, <1>6, <1>7, <1>8 DEF SiteInv, Managed

(* A step about the settings only.                                         *)
LEMMA SettingsOnly ==
  ASSUME SiteInv, UNCHANGED <<mappings, ids, caller, told, revived>>,
         DOMAIN sites' = DOMAIN sites, SiteTyped',
         deletion'.site = deletion.site,
         deletion'.at # "off" => deletion.at # "off"
  PROVE  Managed'
<1>1. \A s : Live(s)' <=> Live(s)
  BY DEF Live
<1>2. ASSUME NEW c \in Caller PROVE Holds(caller[c])'
  <2>1. Holds(caller[c])
    BY DEF SiteInv, Managed
  <2> QED BY <2>1, HoldsStays DEF Holds
<1> QED BY <1>1, <1>2 DEF SiteInv, Managed, OneManages, Deleted, OneSitePerRef, NoOrphanSites

LEMMA FetchPrivacyKeeps ==
  ASSUME SiteInv, NEW s \in Ingested, FetchPrivacy(s) PROVE SiteInv'
<1>1. /\ s \in SiteId /\ Live(s) /\ fetch' = [site |-> s, raw |-> sites[s]]
      /\ UNCHANGED <<sites, mappings, ids, caller, deletion, flip, cache, told, unsure, revived>>
  BY SiteAssumption DEF FetchPrivacy
<1>2. sites[s] \in BOOLEAN
  BY <1>1 DEF SiteInv, SiteTyped, Live
<1>3. SiteTyped'
  BY <1>1, <1>2 DEF SiteInv, SiteTyped, SiteTypeOK, SiteCall
<1>4. Privacy'
  BY <1>1 DEF SiteInv, Privacy, SettingKnown, Live
<1> QED BY <1>1, <1>3, <1>4, SettingsOnly DEF SiteInv

LEMMA InstallPrivacyKeeps == ASSUME SiteInv, InstallPrivacy PROVE SiteInv'
<1>1. /\ fetch # NoFetch /\ cache' = With(cache, fetch.site, fetch.raw) /\ fetch' = NoFetch
      /\ UNCHANGED <<sites, mappings, ids, caller, deletion, flip, told, unsure, revived>>
  BY DEF InstallPrivacy
<1>2. fetch.site \in SiteId /\ fetch.raw \in BOOLEAN /\ SettingKnown(fetch.site, fetch.raw)
  BY <1>1 DEF SiteInv, Privacy, SiteTyped
<1>3. /\ DOMAIN cache' = DOMAIN cache \cup {fetch.site} /\ cache'[fetch.site] = fetch.raw
      /\ \A t \in DOMAIN cache : t # fetch.site => cache'[t] = cache[t]
  BY <1>1 DEF With
<1>4. cache' \in [DOMAIN cache' -> BOOLEAN]
  BY <1>1, <1>2, <1>3, WithTyped DEF SiteInv, SiteTyped
<1>5. SiteTyped'
  BY <1>1, <1>2, <1>3, <1>4 DEF SiteInv, SiteTyped, SiteTypeOK, SiteCall, NoFetch
<1>6. \A t, raw : SettingKnown(t, raw) => SettingKnown(t, raw)'
  BY <1>1 DEF SettingKnown, Live
<1>7. Privacy'
  BY <1>1, <1>2, <1>3, <1>6 DEF SiteInv, Privacy
<1> QED BY <1>1, <1>5, <1>7, SettingsOnly DEF SiteInv

LEMMA SetRawKeeps ==
  ASSUME SiteInv, NEW s \in Ingested, NEW raw \in BOOLEAN, SetRawDistinctID(s, raw)
  PROVE  SiteInv'
<1>1. /\ s \in SiteId /\ flip = NoStep
      /\ sites' \in {sites, IF Live(s) THEN [sites EXCEPT ![s] = raw] ELSE sites}
      /\ \/ flip' = [site |-> s, at |-> "invalidate"] /\ UNCHANGED unsure
         \/ /\ unsure' = IF sites' = sites THEN unsure ELSE unsure \cup {s}
            /\ UNCHANGED flip
      /\ UNCHANGED <<mappings, ids, caller, deletion, fetch, cache, told, revived>>
  BY SiteAssumption DEF SetRawDistinctID
<1>2. sites \in [DOMAIN sites -> BOOLEAN]
  BY DEF SiteInv, SiteTyped
<1>3. /\ DOMAIN sites' = DOMAIN sites /\ sites' \in [DOMAIN sites' -> BOOLEAN]
      /\ \A t \in DOMAIN sites : t # s => sites'[t] = sites[t]
  <2>1. CASE sites' = sites
    BY <1>2, <2>1
  <2>2. CASE Live(s) /\ sites' = [sites EXCEPT ![s] = raw]
    BY <1>2, <2>2 DEF Live
  <2> QED BY <1>1, <2>1, <2>2
<1>4. SiteTyped'
  <2>1. unsure' \subseteq SiteId /\ flip'.site \in Ingested \cup {NoOne}
    BY <1>1 DEF SiteInv, SiteTyped, SiteTypeOK
  <2>2. SiteTypeOK'
    BY <1>1, <1>3, <2>1 DEF SiteInv, SiteTyped, SiteTypeOK
  <2> QED BY <1>1, <1>3, <2>1, <2>2 DEF SiteInv, SiteTyped, SiteCall
<1>5. ASSUME NEW t \in SiteId, NEW value, SettingKnown(t, value) PROVE SettingKnown(t, value)'
  <2>1. t # NoOne
    BY DEF SiteId, NoOne
  <2>2. CASE t # s
    <3>1. Live(t)' <=> Live(t)
      BY <1>3 DEF Live
    <3>2. Live(t) => sites'[t] = sites[t]
      BY <1>3, <2>2 DEF Live
    <3>3. t \in unsure => t \in unsure'
      BY <1>1
    <3> QED BY <1>1, <1>5, <2>1, <3>1, <3>2, <3>3 DEF SettingKnown, NoStep
  <2>3. CASE t = s /\ sites' = sites
    BY <1>1, <1>5, <2>1, <2>3 DEF SettingKnown, Live, NoStep
  <2>4. CASE t = s /\ sites' # sites
    BY <1>1, <2>4 DEF SettingKnown
  <2> QED BY <2>2, <2>3, <2>4
<1>6. Privacy'
  <2>1. DOMAIN cache \subseteq SiteId
    BY DEF SiteInv, SiteTyped, SiteTypeOK
  <2> QED BY <1>1, <1>5, <2>1 DEF SiteInv, Privacy
<1> QED BY <1>1, <1>3, <1>4, <1>6, SettingsOnly DEF SiteInv

(* What a write has invalidated it need not vouch for any longer.          *)
LEMMA InvalidatedKeeps ==
  ASSUME SiteInv, NEW s, InvalidatePrivacy(s), UNCHANGED <<sites, fetch, unsure>>,
         \A t \in SiteId, raw \in BOOLEAN : t # s /\ SettingKnown(t, raw) => SettingKnown(t, raw)'
  PROVE  /\ Privacy'
         /\ cache' \in [DOMAIN cache' -> BOOLEAN] /\ DOMAIN cache' \subseteq SiteId
<1>1. fetch = NoFetch /\ cache' = Without(cache, s)
  BY DEF InvalidatePrivacy, PrivacyFree
<1>2. cache \in [DOMAIN cache -> BOOLEAN] /\ DOMAIN cache \subseteq SiteId
  BY DEF SiteInv, SiteTyped, SiteTypeOK
<1>3. /\ DOMAIN cache' = DOMAIN cache \ {s} /\ cache' \in [DOMAIN cache' -> BOOLEAN]
      /\ \A t \in DOMAIN cache : t # s => cache'[t] = cache[t]
  <2>1. cache' \in [DOMAIN cache \ {s} -> BOOLEAN]
    BY <1>1, <1>2, WithoutIs
  <2> QED BY <1>1, <1>2, <2>1 DEF Without
<1>4. ASSUME NEW t \in DOMAIN cache' PROVE SettingKnown(t, cache[t])'
  <2>1. PICK raw : raw = cache[t]
    OBVIOUS
  <2>2. SettingKnown(t, raw) /\ t \in SiteId /\ raw \in BOOLEAN /\ t # s
    BY <1>2, <1>3, <2>1 DEF SiteInv, Privacy
  <2>3. cache'[t] = raw
    BY <1>3, <2>1
  <2> QED BY <2>2, <2>3
<1> QED BY <1>1, <1>2, <1>3, <1>4 DEF Privacy

LEMMA RawDistinctIDSetKeeps == ASSUME SiteInv, RawDistinctIDSet PROVE SiteInv'
<1>1. /\ InvalidatePrivacy(flip.site) /\ flip' = NoStep
      /\ UNCHANGED <<sites, mappings, ids, caller, deletion, fetch, told, unsure, revived>>
  BY DEF RawDistinctIDSet
<1>2. \A t \in SiteId, raw \in BOOLEAN :
         t # flip.site /\ SettingKnown(t, raw) => SettingKnown(t, raw)'
  BY <1>1 DEF SettingKnown, Live
<1>3. /\ Privacy'
      /\ cache' \in [DOMAIN cache' -> BOOLEAN] /\ DOMAIN cache' \subseteq SiteId
  BY <1>1, <1>2, InvalidatedKeeps
<1>4. SiteTyped'
  BY <1>1, <1>3 DEF SiteInv, SiteTyped, SiteTypeOK, SiteCall, NoStep
<1> QED BY <1>1, <1>3, <1>4, SettingsOnly DEF SiteInv

LEMMA DeleteInvalidatesKeeps == ASSUME SiteInv, DeleteInvalidates PROVE SiteInv'
<1>1. /\ deletion.at = "invalidate" /\ InvalidatePrivacy(deletion.site)
      /\ deletion' = [deletion EXCEPT !.at = "mapping"]
      /\ UNCHANGED <<sites, mappings, ids, caller, flip, fetch, told, unsure, revived>>
  BY DEF DeleteInvalidates
<1>2. /\ deletion' \in [site : 0..ids, at : {"off", "invalidate", "mapping"}]
      /\ deletion'.site = deletion.site
  BY <1>1 DEF SiteInv, SiteTyped
<1>3. \A t \in SiteId, raw \in BOOLEAN :
         t # deletion.site /\ SettingKnown(t, raw) => SettingKnown(t, raw)'
  BY <1>1 DEF SettingKnown, Live
<1>4. /\ Privacy'
      /\ cache' \in [DOMAIN cache' -> BOOLEAN] /\ DOMAIN cache' \subseteq SiteId
  BY <1>1, <1>3, InvalidatedKeeps
<1>5. SiteTyped'
  BY <1>1, <1>2, <1>4 DEF SiteInv, SiteTyped, SiteTypeOK, SiteCall
<1> QED BY <1>1, <1>2, <1>4, <1>5, SettingsOnly DEF SiteInv

LEMMA SiteRestartKeeps == ASSUME SiteInv, SiteRestart PROVE SiteInv'
<1>1. /\ caller' = [c \in Caller |-> NoCall] /\ deletion' = NoStep /\ flip' = NoStep
      /\ fetch' = NoFetch /\ cache' = [s \in {} |-> FALSE] /\ unsure' = {}
      /\ UNCHANGED <<mappings, ids, told>>
      /\ sites' = IF Live(Default) THEN sites ELSE With(sites, Default, FALSE)
      /\ revived' = (revived \/ (~Live(Default) /\ \E m \in mappings : m[1] = Default))
  BY DEF SiteRestart
<1>2. /\ ids \in Nat /\ Default \in 1..ids /\ sites \in [DOMAIN sites -> BOOLEAN]
      /\ DOMAIN sites \subseteq 1..ids
  BY IdsAre DEF SiteInv, SiteTyped, SiteTypeOK
<1>3. /\ DOMAIN sites' = DOMAIN sites \cup {Default} /\ sites' \in [DOMAIN sites' -> BOOLEAN]
  <2>1. CASE Live(Default)
    BY <1>1, <1>2, <2>1 DEF Live
  <2>2. CASE ~Live(Default)
    <3>1. sites' \in [DOMAIN sites \cup {Default} -> BOOLEAN]
      BY <1>1, <1>2, <2>2, WithTyped
    <3> QED BY <3>1
  <2> QED BY <2>1, <2>2
<1>4. SiteTyped'
  <2>1. caller' \in [Caller -> SiteCall]
    BY <1>1, <1>2, NoCallHolds
  <2>2. \A c \in Caller : caller'[c].at = "off"
    BY <1>1 DEF NoCall
  <2>3. cache' \in [DOMAIN cache' -> BOOLEAN] /\ DOMAIN cache' = {}
    BY <1>1
  <2>4. SiteTypeOK'
    BY <1>1, <1>2, <1>3, <2>2, <2>3 DEF SiteInv, SiteTyped, SiteTypeOK
  <2>5. deletion' \in [site : 0..ids', at : {"off", "invalidate", "mapping"}]
    BY <1>1, <1>2 DEF NoStep, NoOne
  <2>6. flip'.site \in Ingested \cup {NoOne} /\ fetch' \in [site : SiteId \cup {NoOne}, raw : BOOLEAN]
    BY <1>1 DEF NoStep, NoFetch
  <2>7. caller' \in [Caller -> SiteCall']
    BY <1>1, <2>1 DEF SiteCall
  <2> QED BY <1>3, <2>3, <2>4, <2>5, <2>6, <2>7 DEF SiteTyped
<1>5. OneManages' /\ \A c \in Caller : Holds(caller[c])'
  BY <1>1 DEF OneManages, Holds, NoCall
<1>6. Deleted'
  BY <1>1, <1>3 DEF SiteInv, Managed, Deleted, NoStep, Live
<1>7. OneSitePerRef'
  <2>1. \A m, n \in mappings : m[1] = n[1] => m = n
    BY DEF SiteInv, Managed, OneSitePerRef
  <2>2. CASE revived'
    BY <1>1, <2>1, <2>2 DEF OneSitePerRef
  <2>3. CASE ~revived'
    <3>1. \A m, n \in mappings : m[2] = n[2] /\ Live(m[1]) /\ Live(n[1]) => m = n
      BY <1>1, <2>3 DEF SiteInv, Managed, OneSitePerRef
    <3>2. \A m \in mappings : Live(m[1])' => Live(m[1])
      BY <1>1, <1>3, <2>3 DEF Live
    <3> QED BY <1>1, <2>1, <3>1, <3>2 DEF OneSitePerRef
  <2> QED BY <2>2, <2>3
<1>8. NoOrphanSites'
  BY <1>1, <1>3 DEF SiteInv, Managed, NoOrphanSites
<1>9. Privacy'
  BY <1>1 DEF Privacy
<1> QED BY <1>4, <1>5, <1>6, <1>7, <1>8, <1>9 DEF SiteInv, Managed

(* Of the live sites a ref names one and a site is one ref's, a site that  *)
(* was made for a manager has one, and a cached privacy setting is the     *)
(* row's once the call that changed or deleted it has returned: for any    *)
(* number of calls of EnsureManaged and Adopt beside deletions, flips and  *)
(* restarts, whatever statement fails (sites.go).                          *)
THEOREM SiteTheorem == SiteSpec => [](SiteTypeOK /\ SitesSound)
<1>1. SiteInit => SiteInv
  <2> SUFFICES ASSUME SiteInit PROVE SiteInv
    OBVIOUS
  <2>1. /\ DOMAIN sites = {Default} /\ sites \in [DOMAIN sites -> BOOLEAN]
        /\ cache \in [DOMAIN cache -> BOOLEAN] /\ DOMAIN cache = {}
    BY DEF SiteInit
  <2>2. ids = 1 /\ 1 \in SiteId /\ Default = 1
    BY SiteAssumption DEF SiteInit, SiteId, Default
  <2>3. caller \in [Caller -> SiteCall] /\ \A c \in Caller : caller[c] = NoCall
    BY <2>2, NoCallHolds DEF SiteInit
  <2>4. SiteTyped
    <3>1. deletion \in [site : 0..ids, at : {"off", "invalidate", "mapping"}]
      BY <2>2 DEF SiteInit, NoStep, NoOne
    <3>2. flip.site \in Ingested \cup {NoOne} /\ fetch \in [site : SiteId \cup {NoOne}, raw : BOOLEAN]
      BY DEF SiteInit, NoStep, NoFetch
    <3>3. SiteTypeOK
      BY <2>1, <2>2, <2>3 DEF SiteInit, SiteTypeOK, NoCall
    <3> QED BY <2>1, <2>3, <3>1, <3>2, <3>3 DEF SiteTyped
  <2>5. OneManages /\ \A c \in Caller : Holds(caller[c])
    <3>1. OneManages
      BY <2>3 DEF OneManages, NoCall
    <3>2. ASSUME NEW c \in Caller PROVE Holds(caller[c])
      BY <2>3 DEF Holds, NoCall
    <3> QED BY <3>1, <3>2
  <2>6. Deleted /\ OneSitePerRef /\ NoOrphanSites /\ Privacy
    BY <2>1 DEF SiteInit, Deleted, OneSitePerRef, NoOrphanSites, Privacy, NoStep
  <2> QED BY <2>4, <2>5, <2>6 DEF SiteInv, Managed
<1>2. SiteInv /\ [SiteNext]_siteVars => SiteInv'
  <2> SUFFICES ASSUME SiteInv, [SiteNext]_siteVars PROVE SiteInv'
    OBVIOUS
  <2>1. ASSUME NEW c \in Caller, CallFails(c) PROVE SiteInv'
    BY <2>1, CallEndsKeeps DEF CallFails
  <2>2. CASE UNCHANGED siteVars
    BY <2>2, SiteStutter
  <2> QED
    BY <2>1, <2>2, ReadManagedKeeps, BeginAdoptKeeps, LookManagedKeeps, InsertMappingKeeps,
       InsertSiteKeeps, ReadManagerKeeps, ReadRefsKeeps, LookTakenKeeps, RecordAdoptionKeeps,
       ManagedAnsweredKeeps, DeleteSiteKeeps, FetchPrivacyKeeps, SetRawKeeps,
       InstallPrivacyKeeps, RawDistinctIDSetKeeps, DeleteInvalidatesKeeps, DeleteMappingKeeps,
       SiteRestartKeeps
    DEF SiteNext
<1>3. SiteInv => SiteTypeOK /\ SitesSound
  BY DEF SiteInv, SiteTyped, Managed, Privacy, SettingKnown, SitesSound, PrivacyCurrent
<1> QED
  BY <1>1, <1>2, <1>3, PTL DEF SiteSpec

-----------------------------------------------------------------------------
(* The list of a cohort and its summary.                                   *)

MemberRow == Entity \X {0, 1} \X (0..MaxMemberVersion)
SummaryRow == [named : BOOLEAN, count : 0..ListLimit, at : 0..MaxMemberVersion]
CohortEdit ==
  [at : {"off", "write"}, rows : SUBSET MemberRow, summary : SUBSET SummaryRow,
   holds : {"in", "out", "unknown"}, of : SUBSET Entity]

CohortTyped ==
  /\ members \subseteq MemberRow
  /\ summaries \subseteq SummaryRow /\ summaries # {}
  /\ editor \in [Editor -> CohortEdit]
  /\ list \in [Entity -> {"in", "out", "unknown"}] /\ exact \in BOOLEAN

OneEdits ==
  /\ \A d, e \in Editor : editor[d].at # "off" /\ editor[e].at # "off" => d = e
  /\ \A e \in Editor : editor[e].at = "off" => editor[e] = NoEdit

Touched(batch) == {r[1] : r \in batch}

(* The list when the rest of an edit's rows is written.                    *)
Reached(removed, batch) ==
  IF removed = 0 THEN CollapseMembers \cup Touched(batch) ELSE CollapseMembers \ Touched(batch)

(* Every row of the edit is of one version, which no row passes and only   *)
(* its own have; what it was asked for is so or is about to be.            *)
EditsAbove(edit, removed, version) ==
  /\ \A r \in edit.rows : r[1] \in edit.of /\ r = <<r[1], removed, version>>
  /\ edit.of # {} =>
       /\ edit.holds = IF removed = 0 THEN "in" ELSE "out"
       /\ \A m \in members : m[3] < version \/ (m[3] = version /\ m[2] = removed)
       /\ \A x \in edit.of : x \in Reached(removed, edit.rows) <=> removed = 0
  /\ Cardinality(Reached(removed, edit.rows)) =< ListLimit
  /\ \A s \in edit.summary : s.named => s.count = Cardinality(Reached(removed, edit.rows))

Edits(edit) ==
  edit.at = "write" =>
    /\ \E removed \in {0, 1}, version \in 0..MaxMemberVersion : EditsAbove(edit, removed, version)
    /\ \E s : edit.summary = {s}
    /\ \A s \in edit.summary : \A c \in summaries : c.named /\ c.at < s.at

(* The newest summary is one, and a deleted cohort has no later one.       *)
SummariesSound ==
  /\ \A c, d \in summaries : c.at = d.at => c = d
  /\ \A c, d \in summaries : ~c.named => d.at =< c.at

ListSound ==
  /\ Cardinality(CollapseMembers) =< ListLimit
  /\ exact /\ Cohort.named /\ (\A e \in Editor : editor[e].of = {}) =>
       Cohort.count = Cardinality(CollapseMembers)

CohortInv ==
  /\ CohortTyped /\ OneEdits /\ (\A e \in Editor : Edits(editor[e]))
  /\ SummariesSound /\ ListSound /\ AnsweredEditHolds

(* The summary that is read is the newest of the rows.                     *)
LEMMA NewestSummary ==
  CohortTyped => Cohort \in summaries /\ \A c \in summaries : c.at =< Cohort.at
<1> SUFFICES ASSUME CohortTyped
             PROVE  Cohort \in summaries /\ \A c \in summaries : c.at =< Cohort.at
  OBVIOUS
<1> DEFINE versions == {c.at : c \in summaries}
<1>1. versions \subseteq 0..MaxMemberVersion /\ versions # {}
  BY DEF CohortTyped, SummaryRow
<1>2. MaxMemberVersion \in Nat
  BY CohortAssumption
<1>3. PICK top \in versions : \A other \in versions : other =< top
  BY <1>1, <1>2, GreatestOf
<1>4. PICK c \in summaries : c.at = top
  OBVIOUS
<1>5. \A d \in summaries : d.at \in Int
  BY DEF CohortTyped, SummaryRow
<1>6. \A d \in summaries : c.at >= d.at
  BY <1>3, <1>4, <1>5
<1>7. /\ Cohort \in summaries
      /\ \A d \in summaries : Cohort.at >= d.at
  BY <1>4, <1>6 DEF Cohort
<1> QED BY <1>5, <1>7

(* A version of NextMemberVersion is above every row and every summary.    *)
LEMMA NextMemberVersionAbove ==
  ASSUME CohortTyped, NEW now \in 0..MaxClock
  PROVE  /\ NextMemberVersion(now) \in Nat
         /\ \A m \in members : m[3] < NextMemberVersion(now)
         /\ \A c \in summaries : c.at < NextMemberVersion(now)
<1> DEFINE versions == {Cohort.at} \cup {r[3] : r \in members}
           high == CHOOSE h \in versions : \A v \in versions : h >= v
<1>1. Cohort \in summaries /\ \A c \in summaries : c.at =< Cohort.at
  BY NewestSummary
<1>2. versions \subseteq 0..MaxMemberVersion /\ versions # {}
  BY <1>1 DEF CohortTyped, SummaryRow, MemberRow
<1>3. MaxMemberVersion \in Nat /\ now \in Nat
  BY CohortAssumption
<1>4. PICK top \in versions : \A other \in versions : other =< top
  BY <1>2, <1>3, GreatestOf
<1>5. \A v \in versions : v \in Int
  BY <1>2
<1>6. \A v \in versions : top >= v
  BY <1>4, <1>5
<1>7. high \in versions /\ \A v \in versions : high >= v
  BY <1>6
<1>8. high \in Nat
  BY <1>2, <1>7
<1>9. NextMemberVersion(now) = IF now =< high THEN high + 1 ELSE now
  BY DEF NextMemberVersion, Above
<1>10. \A m \in members : m[3] \in versions
  OBVIOUS
<1> HIDE DEF versions, high
<1>11. NextMemberVersion(now) \in Nat /\ NextMemberVersion(now) > high
  BY <1>3, <1>8, <1>9
<1>12. \A v \in versions : v < NextMemberVersion(now)
  BY <1>5, <1>7, <1>8, <1>11
<1>13. \A c \in summaries : c.at \in Int
  BY DEF CohortTyped, SummaryRow
<1>14. Cohort.at \in versions
  BY DEF versions
<1> QED BY <1>1, <1>5, <1>10, <1>11, <1>12, <1>13, <1>14

(* Who is in the list, and who is after a step.                            *)
LEMMA InTheList ==
  ASSUME NEW x
  PROVE  x \in CollapseMembers <=>
           \E q \in members : /\ q[1] = x /\ q[2] = 0
                              /\ \A o \in members : o[1] = x => Beats(q, o)
BY DEF CollapseMembers

LEMMA InTheListNext ==
  ASSUME NEW x
  PROVE  x \in CollapseMembers' <=>
           \E q \in members' : /\ q[1] = x /\ q[2] = 0
                               /\ \A o \in members' : o[1] = x => Beats(q, o)
BY DEF CollapseMembers

(* The lists a site can have are finite.                                   *)
LEMMA ListIsFinite ==
  ASSUME NEW S, S \subseteq Entity PROVE IsFiniteSet(S) /\ Cardinality(S) \in Nat
BY CohortAssumption, FS_Subset, FS_CardinalityType

(* What a chunk of the rows of an edit does to the list.                   *)
LEMMA ChunkReaches ==
  ASSUME CohortTyped, NEW removed \in {0, 1}, NEW version \in 0..MaxMemberVersion, NEW chunk,
         \A r \in chunk : r[1] \in Entity /\ r = <<r[1], removed, version>>,
         \A m \in members : m[3] < version \/ (m[3] = version /\ m[2] = removed),
         members' = members \cup chunk
  PROVE  CollapseMembers' = Reached(removed, chunk)
<1>1. \A m \in members : m[3] \in Int /\ m[2] \in {0, 1}
  BY DEF CohortTyped, MemberRow
<1>2. version \in Int
  OBVIOUS
<1>3. \A r \in chunk : r[2] = removed /\ r[3] = version
  OBVIOUS
<1>4. ASSUME NEW x, x \notin Touched(chunk)
      PROVE  x \in CollapseMembers' <=> x \in CollapseMembers
  <2>1. \A m : m[1] = x => (m \in members' <=> m \in members)
    BY <1>4 DEF Touched
  <2> QED BY <2>1, InTheList, InTheListNext
<1>5. ASSUME NEW x \in Touched(chunk)
      PROVE  x \in CollapseMembers' <=> removed = 0
  <2>1. PICK r \in chunk : r[1] = x
    BY DEF Touched
  <2>2. r \in members' /\ r[2] = removed /\ r[3] = version
    BY <1>3, <2>1
  <2>3. \A m \in members' : m[3] \in Int /\ m[2] \in {0, 1}
    BY <1>1, <1>2, <1>3
  <2>4. \A m \in members' : m[3] < version \/ (m[3] = version /\ m[2] = removed)
    BY <1>3
  <2>5. CASE removed = 0
    <3>1. \A o \in members' : Beats(r, o)
      BY <1>2, <2>2, <2>3, <2>4, <2>5 DEF Beats
    <3> QED BY <2>1, <2>2, <2>5, <3>1, InTheListNext
  <2>6. CASE removed = 1
    <3>1. ASSUME NEW q \in members', q[2] = 0 PROVE ~Beats(q, r)
      BY <1>2, <2>2, <2>3, <2>4, <2>6, <3>1 DEF Beats
    <3> QED BY <2>1, <2>2, <2>6, <3>1, InTheListNext
  <2> QED BY <2>5, <2>6
<1>6. CASE removed = 0
  BY <1>4, <1>5, <1>6 DEF Reached
<1>7. CASE removed = 1
  BY <1>4, <1>5, <1>7 DEF Reached
<1> QED BY <1>6, <1>7

(* While one edit is at work the others are at rest.                       *)
LEMMA EditMoves ==
  ASSUME CohortTyped, OneEdits, NEW e \in Editor, NEW edit \in CohortEdit,
         editor[e].at # "off" \/ MutationFree, EditGoes(e, edit),
         edit.at = "off" => edit = NoEdit, Edits(edit)'
  PROVE  /\ editor' \in [Editor -> CohortEdit] /\ OneEdits'
         /\ editor'[e] = edit
         /\ \A d \in Editor : d # e => editor'[d] = NoEdit /\ editor[d] = NoEdit
         /\ \A d \in Editor : Edits(editor[d])'
<1>1. editor' = [editor EXCEPT ![e] = edit] /\ editor \in [Editor -> CohortEdit]
  BY DEF EditGoes, CohortTyped
<1>2. \A d \in Editor : d # e => editor[d] = NoEdit
  BY DEF OneEdits, MutationFree
<1>3. /\ editor' \in [Editor -> CohortEdit] /\ editor'[e] = edit
      /\ \A d \in Editor : d # e => editor'[d] = NoEdit
  BY <1>1, <1>2
<1>4. NoEdit.at = "off"
  BY DEF NoEdit
<1>5. OneEdits'
  BY <1>3, <1>4 DEF OneEdits
<1>6. ASSUME NEW d \in Editor, d # e PROVE Edits(editor[d])'
  <2>1. editor'[d].at = "off"
    BY <1>3, <1>4, <1>6
  <2> QED BY <2>1 DEF Edits
<1>7. Edits(editor[e])'
  BY <1>3
<1> QED BY <1>2, <1>3, <1>5, <1>6, <1>7

(* What an editor has under way is an edit.                                *)
LEMMA EditsTyped ==
  ASSUME CohortInv, NEW e \in Editor
  PROVE  editor[e] \in CohortEdit
BY DEF CohortInv, CohortTyped

(* The list when an edit begins.                                           *)
LEMMA EditMembersKeeps ==
  ASSUME CohortInv, NEW e \in Editor, NEW those \in SUBSET Entity, those # {},
         NEW removed \in {0, 1}, EditMembers(e, those, removed)
  PROVE  CohortInv'
<1> DEFINE listed == CollapseMembers
           touched == IF removed = 0 THEN those \ listed ELSE those \cap listed
           after == IF removed = 0 THEN listed \cup those ELSE listed \ those
           holds == IF removed = 0 THEN "in" ELSE "out"
<1>1. /\ editor[e].at = "off" /\ MutationFree /\ Cohort.named
      /\ removed = 0 => Cardinality(after) =< ListLimit
      /\ UNCHANGED <<members, summaries>>
  BY DEF EditMembers
<1>2. PICK now \in 0..MaxClock :
        /\ NextMemberVersion(now) =< MaxMemberVersion
        /\ IF touched = {} /\ Cohort.count = Cardinality(listed)
           THEN Answered(those, holds, Cardinality(listed)) /\ UNCHANGED editor
           ELSE /\ EditGoes(e, [at |-> "write",
                                rows |-> {<<x, removed, NextMemberVersion(now)>> : x \in touched},
                                summary |-> {[named |-> TRUE, count |-> Cardinality(after),
                                              at |-> NextMemberVersion(now)]},
                                holds |-> holds, of |-> those])
                /\ UNCHANGED <<list, exact>>
  BY DEF EditMembers
<1>3. CollapseMembers' = CollapseMembers /\ Cohort' = Cohort
  BY <1>1 DEF CollapseMembers, Beats, Cohort
<1>4. listed \subseteq Entity
  BY DEF CollapseMembers, CohortInv, CohortTyped, MemberRow
<1>5. Cardinality(listed) \in Nat /\ Cardinality(after) \in Nat /\ Cardinality(after) =< ListLimit
  <2>1. after \subseteq Entity /\ IsFiniteSet(listed)
    BY <1>4, ListIsFinite
  <2>2. removed = 1 => Cardinality(after) =< Cardinality(listed)
    BY <2>1, FS_Subset
  <2>3. Cardinality(listed) =< ListLimit /\ ListLimit \in Nat
    BY CohortAssumption DEF CohortInv, ListSound
  <2>4. Cardinality(listed) \in Nat /\ Cardinality(after) \in Nat
    BY <1>4, <2>1, ListIsFinite
  <2> HIDE DEF listed, after
  <2> QED BY <1>1, <2>2, <2>3, <2>4
<1>6. CASE touched = {} /\ Cohort.count = Cardinality(listed)
  <2>1. /\ list' = [x \in Entity |-> IF x \in those THEN holds ELSE list[x]]
        /\ exact' = (Cohort.count = Cardinality(listed)) /\ UNCHANGED editor
    BY <1>2, <1>6 DEF Answered
  <2>2. CohortTyped'
    BY <1>1, <2>1 DEF CohortInv, CohortTyped
  <2>3. OneEdits' /\ (\A d \in Editor : Edits(editor[d])')
    <3>1. \A batch, r : Reached(r, batch)' = Reached(r, batch)
      BY <1>3 DEF Reached, Touched
    <3>2. ASSUME NEW d \in Editor PROVE Edits(editor[d])'
      <4>1. editor'[d].at = "off"
        BY <1>1, <2>1 DEF MutationFree
      <4> QED BY <4>1 DEF Edits
    <3> QED BY <2>1, <3>2 DEF CohortInv, OneEdits
  <2>4. SummariesSound' /\ ListSound'
    BY <1>1, <1>3, <1>6, <2>1 DEF CohortInv, SummariesSound, ListSound
  <2>5. AnsweredEditHolds'
    <3>1. \A x \in those : IF removed = 0 THEN x \in listed ELSE x \notin listed
      BY <1>6
    <3>2. \A d \in Editor : editor[d].of = {}
      BY <1>1 DEF CohortInv, OneEdits, MutationFree, NoEdit
    <3>3. \A x \in Entity : /\ list[x] = "in" => x \in listed
                            /\ list[x] = "out" => x \notin listed
      BY <3>2 DEF CohortInv, AnsweredEditHolds
    <3>4. \A x \in Entity : list'[x] = IF x \in those THEN holds ELSE list[x]
      BY <2>1
    <3> HIDE DEF listed
    <3>5. \A x \in Entity : /\ list'[x] = "in" => x \in listed
                            /\ list'[x] = "out" => x \notin listed
      BY <3>1, <3>3, <3>4
    <3> QED BY <1>3, <3>5 DEF AnsweredEditHolds, listed
  <2> QED BY <2>2, <2>3, <2>4, <2>5 DEF CohortInv
<1>7. CASE ~(touched = {} /\ Cohort.count = Cardinality(listed))
  <2>1. PICK version : version = NextMemberVersion(now)
    OBVIOUS
  <2>2. PICK batch : batch = {<<x, removed, version>> : x \in touched}
    OBVIOUS
  <2>3. PICK header : header = [named |-> TRUE, count |-> Cardinality(after), at |-> version]
    OBVIOUS
  <2>4. PICK edit : edit = [at |-> "write", rows |-> batch, summary |-> {header},
                            holds |-> holds, of |-> those]
    OBVIOUS
  <2>5. EditGoes(e, edit) /\ UNCHANGED <<list, exact>>
    BY <1>2, <1>7, <2>1, <2>2, <2>3, <2>4
  <2>6. /\ version \in 0..MaxMemberVersion
        /\ \A m \in members : m[3] < version
        /\ \A c \in summaries : c.at < version
    <3>1. MaxMemberVersion \in Nat
      BY CohortAssumption
    <3> QED BY <1>2, <2>1, <3>1, NextMemberVersionAbove DEF CohortInv
  <2>7. touched \subseteq those /\ touched \subseteq Entity
    OBVIOUS
  <2>8. edit \in CohortEdit
    <3>1. batch \subseteq MemberRow
      BY <2>2, <2>6, <2>7 DEF MemberRow
    <3>2. header \in SummaryRow
      BY <1>5, <2>3, <2>6, CohortAssumption DEF SummaryRow
    <3> QED BY <2>4, <3>1, <3>2 DEF CohortEdit
  <2>9. Touched(batch) = touched
    <3> HIDE DEF touched
    <3>1. \A x \in touched : <<x, removed, version>> \in batch /\ <<x, removed, version>>[1] = x
      BY <2>2
    <3>2. \A r \in batch : r[1] \in touched
      BY <2>2
    <3> QED BY <3>1, <3>2 DEF Touched
  <2>10. Reached(removed, batch)' = after
    BY <1>3, <2>9 DEF Reached, Touched
  <2>11. EditsAbove(edit, removed, version)'
    <3>1. /\ edit.rows = batch /\ edit.of = those /\ edit.holds = holds /\ edit.summary = {header}
      BY <2>4
    <3>2. \A r \in batch : r[1] \in those /\ r = <<r[1], removed, version>>
      BY <2>2, <2>7
    <3>3. \A x \in those : x \in after <=> removed = 0
      OBVIOUS
    <3>4. header.count = Cardinality(after)
      BY <2>3
    <3> HIDE DEF after
    <3> QED BY <1>1, <1>5, <2>6, <2>10, <3>1, <3>2, <3>3, <3>4 DEF EditsAbove
  <2>12. \A c \in summaries : c.named
    <3>1. Cohort \in summaries /\ \A c \in summaries : c.at =< Cohort.at /\ c.at \in Int
      BY NewestSummary DEF CohortInv, CohortTyped, SummaryRow
    <3>2. \A c \in summaries : ~c.named => c = Cohort
      BY <3>1 DEF CohortInv, SummariesSound
    <3> QED BY <1>1, <3>2
  <2>13. Edits(edit)'
    <3>1. \A s \in edit.summary : \A c \in summaries' : c.named /\ c.at < s.at
      BY <1>1, <2>3, <2>4, <2>6, <2>12
    <3>2. edit.summary = {header}
      BY <2>4
    <3> QED BY <2>6, <2>11, <3>1, <3>2 DEF Edits
  <2>14. edit.at = "write" /\ edit.of = those
    BY <2>4
  <2>15. /\ editor' \in [Editor -> CohortEdit] /\ OneEdits' /\ editor'[e] = edit
         /\ \A d \in Editor : d # e => editor'[d] = NoEdit /\ editor[d] = NoEdit
         /\ \A d \in Editor : Edits(editor[d])'
    BY <1>1, <2>5, <2>8, <2>13, <2>14, EditMoves DEF CohortInv
  <2>16. CohortTyped'
    BY <1>1, <2>5, <2>15 DEF CohortInv, CohortTyped
  <2>17. SummariesSound' /\ ListSound'
    BY <1>1, <1>3, <2>14, <2>15 DEF CohortInv, SummariesSound, ListSound
  <2>18. AnsweredEditHolds'
    <3>1. \A d \in Editor : editor[d].of = {}
      BY <1>1 DEF CohortInv, OneEdits, MutationFree, NoEdit
    <3> QED BY <1>3, <2>5, <3>1 DEF CohortInv, AnsweredEditHolds
  <2> QED BY <2>15, <2>16, <2>17, <2>18 DEF CohortInv
<1> QED BY <1>6, <1>7

(* Update, Refresh and Delete.                                             *)
LEMMA EditCohortKeeps ==
  ASSUME CohortInv, NEW e \in Editor, NEW named \in BOOLEAN, EditCohort(e, named)
  PROVE  CohortInv'
<1>1. /\ editor[e].at = "off" /\ MutationFree /\ Cohort.named
      /\ UNCHANGED <<members, summaries, list, exact>>
  BY DEF EditCohort
<1>2. PICK now \in 0..MaxClock :
        /\ Above(Cohort.at, now) =< MaxMemberVersion
        /\ EditGoes(e, [NoEdit EXCEPT !.at = "write",
             !.summary = {[named |-> named,
                           count |-> IF named THEN Cardinality(CollapseMembers) ELSE 0,
                           at |-> Above(Cohort.at, now)]}])
  BY DEF EditCohort
<1>3. PICK header : header = [named |-> named,
                                count |-> IF named THEN Cardinality(CollapseMembers) ELSE 0,
                                at |-> Above(Cohort.at, now)]
  OBVIOUS
<1>4. PICK edit : edit = [NoEdit EXCEPT !.at = "write", !.summary = {header}]
  OBVIOUS
<1>5. EditGoes(e, edit)
  BY <1>2, <1>3, <1>4
<1>6. /\ edit.at = "write" /\ edit.of = {} /\ edit.rows = {} /\ edit.summary = {header}
      /\ edit.holds = "unknown"
  BY <1>4 DEF NoEdit
<1>7. Cohort \in summaries /\ \A c \in summaries : c.at =< Cohort.at /\ c.at \in Nat
  BY NewestSummary, CohortAssumption DEF CohortInv, CohortTyped, SummaryRow
<1>8. /\ header.at \in 0..MaxMemberVersion /\ \A c \in summaries : c.at < header.at
  <2>1. MaxMemberVersion \in Nat /\ now \in Nat
    BY CohortAssumption
  <2>2. header.at = Above(Cohort.at, now) /\ header.at =< MaxMemberVersion
    BY <1>2, <1>3
  <2>3. header.at \in Nat /\ Cohort.at < header.at
    BY <1>7, <2>1, <2>2 DEF Above
  <2> QED BY <1>7, <2>1, <2>2, <2>3
<1>9. CollapseMembers' = CollapseMembers /\ Cohort' = Cohort
  BY <1>1 DEF CollapseMembers, Beats, Cohort
<1>10. Cardinality(CollapseMembers) \in 0..ListLimit
  <2>1. CollapseMembers \subseteq Entity
    BY DEF CollapseMembers, CohortInv, CohortTyped, MemberRow
  <2>2. Cardinality(CollapseMembers) =< ListLimit /\ ListLimit \in Nat
    BY CohortAssumption DEF CohortInv, ListSound
  <2> QED BY <2>1, <2>2, ListIsFinite
<1>11. edit \in CohortEdit
  <2>1. header \in SummaryRow
    BY <1>3, <1>8, <1>10, CohortAssumption DEF SummaryRow
  <2> QED BY <1>4, <2>1 DEF CohortEdit, NoEdit
<1>12. \A c \in summaries : c.named
  <2>1. \A c \in summaries : ~c.named => c = Cohort
    BY <1>7 DEF CohortInv, SummariesSound
  <2> QED BY <1>1, <2>1
<1>13. EditsAbove(edit, 0, 0)'
  <2>1. Reached(0, {})' = CollapseMembers
    BY <1>9 DEF Reached, Touched
  <2>2. header.named => header.count = Cardinality(CollapseMembers)
    BY <1>3
  <2> QED BY <1>6, <1>10, <2>1, <2>2 DEF EditsAbove
<1>14. Edits(edit)'
  <2>1. 0 \in 0..MaxMemberVersion
    BY CohortAssumption
  <2>2. \A s \in edit.summary : \A c \in summaries' : c.named /\ c.at < s.at
    BY <1>1, <1>6, <1>8, <1>12
  <2> QED BY <1>6, <1>13, <2>1, <2>2 DEF Edits
<1>15. /\ editor' \in [Editor -> CohortEdit] /\ OneEdits' /\ editor'[e] = edit
       /\ \A d \in Editor : d # e => editor'[d] = NoEdit /\ editor[d] = NoEdit
       /\ \A d \in Editor : Edits(editor[d])'
  BY <1>1, <1>5, <1>6, <1>11, <1>14, EditMoves DEF CohortInv
<1>16. \A d \in Editor : editor[d].of = {} /\ editor'[d].of = {}
  BY <1>1, <1>6, <1>15 DEF CohortInv, OneEdits, MutationFree, NoEdit
<1>17. CohortTyped'
  BY <1>1, <1>15 DEF CohortInv, CohortTyped
<1>18. SummariesSound' /\ ListSound'
  BY <1>1, <1>9, <1>16 DEF CohortInv, SummariesSound, ListSound
<1>19. AnsweredEditHolds'
  BY <1>1, <1>9, <1>16 DEF CohortInv, AnsweredEditHolds
<1> QED BY <1>15, <1>17, <1>18, <1>19 DEF CohortInv

(* A chunk of the rows of the edit, whatever becomes of the edit.          *)
LEMMA ChunkKeeps ==
  ASSUME CohortInv, NEW edit \in CohortEdit,
         NEW chunk, chunk \subseteq edit.rows, members' = members \cup chunk,
         NEW removed \in {0, 1}, NEW version \in 0..MaxMemberVersion,
         EditsAbove(edit, removed, version), edit.of # {}
  PROVE  /\ members' \subseteq MemberRow
         /\ CollapseMembers' = Reached(removed, chunk)
         /\ \A m \in members' : m[3] < version \/ (m[3] = version /\ m[2] = removed)
         /\ Cardinality(CollapseMembers') =< ListLimit
         /\ \A x \in Entity \ edit.of : x \in CollapseMembers' <=> x \in CollapseMembers
<1>1. edit.rows \subseteq MemberRow /\ members \subseteq MemberRow
  BY DEF CohortInv, CohortTyped, CohortEdit
<1>2. \A r \in chunk : r[1] \in Entity /\ r[1] \in edit.of /\ r = <<r[1], removed, version>>
  BY <1>1 DEF EditsAbove, MemberRow
<1>3. \A m \in members : m[3] < version \/ (m[3] = version /\ m[2] = removed)
  BY DEF EditsAbove
<1>4. CollapseMembers' = Reached(removed, chunk)
  BY <1>2, <1>3, ChunkReaches DEF CohortInv
<1>5. Touched(chunk) \cup Touched(edit.rows \ chunk) = Touched(edit.rows)
  BY DEF Touched
<1>8. Cardinality(CollapseMembers') =< ListLimit
  <2>1. Touched(edit.rows) \subseteq Entity /\ CollapseMembers \subseteq Entity
    BY <1>1 DEF Touched, MemberRow, CollapseMembers
  <2>2. /\ IsFiniteSet(CollapseMembers) /\ IsFiniteSet(Reached(removed, edit.rows))
        /\ Cardinality(CollapseMembers) \in Nat /\ Cardinality(Reached(removed, edit.rows)) \in Nat
    BY <2>1, ListIsFinite DEF Reached
  <2>3. /\ Cardinality(CollapseMembers) =< ListLimit /\ ListLimit \in Nat
        /\ Cardinality(Reached(removed, edit.rows)) =< ListLimit
    BY CohortAssumption DEF CohortInv, ListSound, EditsAbove
  <2>4. CASE removed = 0
    <3>1. CollapseMembers' \subseteq Reached(removed, edit.rows)
      BY <1>4, <1>5, <2>4 DEF Reached
    <3>2. /\ Cardinality(CollapseMembers') =< Cardinality(Reached(removed, edit.rows))
          /\ IsFiniteSet(CollapseMembers')
      BY <2>2, <3>1, FS_Subset
    <3>3. Cardinality(CollapseMembers') \in Nat
      BY <3>2, FS_CardinalityType
    <3> QED BY <2>2, <2>3, <3>2, <3>3
  <2>5. CASE removed = 1
    <3>1. CollapseMembers' \subseteq CollapseMembers
      BY <1>4, <2>5 DEF Reached
    <3>2. /\ Cardinality(CollapseMembers') =< Cardinality(CollapseMembers)
          /\ IsFiniteSet(CollapseMembers')
      BY <2>2, <3>1, FS_Subset
    <3>3. Cardinality(CollapseMembers') \in Nat
      BY <3>2, FS_CardinalityType
    <3> QED BY <2>2, <2>3, <3>2, <3>3
  <2> QED BY <2>4, <2>5
<1>9. \A m \in members' : m[3] < version \/ (m[3] = version /\ m[2] = removed)
  <2>1. \A m \in chunk : m[3] = version /\ m[2] = removed
    BY <1>2
  <2> QED BY <1>3, <2>1
<1>10. \A x \in Entity \ edit.of : x \in CollapseMembers' <=> x \in CollapseMembers
  <2>1. Touched(chunk) \subseteq edit.of
    BY <1>2 DEF Touched
  <2> QED BY <1>4, <2>1 DEF Reached
<1> QED BY <1>1, <1>4, <1>8, <1>9, <1>10

(* An edit that has ended, as it should or not, has left a list within its *)
(* limit, in which nothing has moved but what it was about.                *)
LEMMA EditEnds ==
  ASSUME CohortInv, NEW e \in Editor, editor[e].at = "write", EditGoes(e, NoEdit),
         members' \subseteq MemberRow, summaries' \subseteq SummaryRow, summaries \subseteq summaries',
         SummariesSound', Cardinality(CollapseMembers') =< ListLimit,
         \A x \in Entity \ editor[e].of : x \in CollapseMembers' <=> x \in CollapseMembers,
         NEW holds \in {"in", "out", "unknown"},
         list' = [x \in Entity |-> IF x \in editor[e].of THEN holds ELSE list[x]],
         \A x \in editor[e].of : /\ holds = "in" => x \in CollapseMembers'
                                 /\ holds = "out" => x \notin CollapseMembers',
         exact' \in BOOLEAN,
         exact' /\ Cohort'.named => Cohort'.count = Cardinality(CollapseMembers')
  PROVE  CohortInv'
<1>1. NoEdit \in CohortEdit /\ NoEdit.at = "off" /\ NoEdit.of = {} /\ Edits(NoEdit)'
  BY DEF NoEdit, CohortEdit, Edits
<1>2. /\ editor' \in [Editor -> CohortEdit] /\ OneEdits'
      /\ editor'[e] = NoEdit
      /\ \A d \in Editor : d # e => editor'[d] = NoEdit /\ editor[d] = NoEdit
      /\ \A d \in Editor : Edits(editor[d])'
  BY <1>1, EditMoves DEF CohortInv
<1>3. CohortTyped'
  <2>1. list' \in [Entity -> {"in", "out", "unknown"}]
    BY DEF CohortInv, CohortTyped
  <2> QED BY <1>2, <2>1 DEF CohortInv, CohortTyped
<1>4. ListSound'
  BY DEF ListSound
<1>5. AnsweredEditHolds'
  <2>1. ASSUME NEW x \in Entity PROVE /\ list'[x] = "in" => x \in CollapseMembers'
                                      /\ list'[x] = "out" => x \notin CollapseMembers'
    <3>1. CASE x \in editor[e].of
      BY <3>1
    <3>2. CASE x \notin editor[e].of
      <4>1. \A d \in Editor : x \notin editor[d].of
        BY <1>1, <1>2, <3>2
      <4> QED BY <3>2, <4>1 DEF CohortInv, AnsweredEditHolds
    <3> QED BY <3>1, <3>2
  <2> QED BY <2>1 DEF AnsweredEditHolds
<1> QED BY <1>2, <1>3, <1>4, <1>5 DEF CohortInv

(* A chunk of the rows, written or not.                                    *)
LEMMA InsertMembersKeeps ==
  ASSUME CohortInv, NEW e \in Editor, InsertMembers(e) PROVE CohortInv'
<1>1. PICK chunk \in (SUBSET editor[e].rows) \ {{}} :
        \/ /\ members' = members \cup chunk
           /\ EditGoes(e, [editor[e] EXCEPT !.rows = @ \ chunk])
           /\ UNCHANGED <<list, exact>>
        \/ members' \in {members, members \cup chunk} /\ EditFails(e)
  BY DEF InsertMembers
<1>2. /\ editor[e].at = "write" /\ editor[e].rows # {} /\ UNCHANGED summaries
      /\ editor[e] \in CohortEdit
  BY EditsTyped DEF InsertMembers
<1>3. PICK removed \in {0, 1}, version \in 0..MaxMemberVersion : EditsAbove(editor[e], removed, version)
  BY <1>2 DEF CohortInv, Edits
<1>4. editor[e].of # {}
  BY <1>2, <1>3 DEF EditsAbove
<1> PICK old : old = editor[e]
  OBVIOUS
<1>9. old \in CohortEdit /\ EditsAbove(old, removed, version) /\ old.of # {}
  BY <1>2, <1>3, <1>4
<1>5. ASSUME NEW written \in SUBSET editor[e].rows, members' = members \cup written
      PROVE  /\ members' \subseteq MemberRow
             /\ Cardinality(CollapseMembers') =< ListLimit
             /\ \A x \in Entity \ editor[e].of : x \in CollapseMembers' <=> x \in CollapseMembers
  <2>1. written \subseteq old.rows
    OBVIOUS
  <2>2. /\ old \in CohortEdit /\ written \subseteq old.rows /\ members' = members \cup written
        /\ EditsAbove(old, removed, version) /\ old.of # {}
    BY <1>5, <1>9, <2>1
  <2>3. old.of = editor[e].of
    OBVIOUS
  <2>4. /\ members' \subseteq MemberRow
        /\ Cardinality(CollapseMembers') =< ListLimit
        /\ \A x \in Entity \ old.of : x \in CollapseMembers' <=> x \in CollapseMembers
    BY <2>2, ChunkKeeps, ZenonT(60)
  <2> QED BY <2>3, <2>4
<1>6. Cohort' = Cohort /\ SummariesSound'
  BY <1>2 DEF Cohort, CohortInv, SummariesSound
<1>7. CASE /\ members' = members \cup chunk
           /\ EditGoes(e, [editor[e] EXCEPT !.rows = @ \ chunk])
           /\ UNCHANGED <<list, exact>>
  <2>1. old = editor[e] /\ chunk \subseteq old.rows
    OBVIOUS
  <2>2. PICK edit : edit = [old EXCEPT !.rows = @ \ chunk]
    OBVIOUS
  <2>3. /\ edit.rows = old.rows \ chunk /\ edit.of = old.of /\ edit.at = "write"
        /\ edit.summary = old.summary /\ edit.holds = old.holds /\ edit \in CohortEdit
    BY <1>2, <2>1, <2>2 DEF CohortEdit
  <2>4. /\ members' \subseteq MemberRow
        /\ \A m \in members' : m[3] < version \/ (m[3] = version /\ m[2] = removed)
        /\ Reached(removed, edit.rows)' = Reached(removed, old.rows)
    <3>1. /\ old \in CohortEdit /\ chunk \subseteq old.rows /\ members' = members \cup chunk
          /\ EditsAbove(old, removed, version) /\ old.of # {}
      BY <1>7, <1>9, <2>1
    <3>2. members' \subseteq MemberRow /\ CollapseMembers' = Reached(removed, chunk)
      BY <3>1, ChunkKeeps
    <3>5. \A m \in members' : m[3] < version \/ (m[3] = version /\ m[2] = removed)
      BY <3>1, ChunkKeeps
    <3>3. Touched(chunk) \cup Touched(edit.rows) = Touched(old.rows)
      BY <2>3, <3>1 DEF Touched
    <3>4. Touched(edit.rows)' = Touched(edit.rows)
      BY DEF Touched
    <3> QED BY <3>2, <3>3, <3>4, <3>5 DEF Reached
  <2>5. EditsAbove(edit, removed, version)'
    <3>1. EditsAbove(old, removed, version)
      BY <1>3, <2>1
    <3>2. Reached(removed, edit.rows)' = Reached(removed, old.rows)
      BY <2>4
    <3>3. \A r \in edit.rows : r[1] \in edit.of /\ r = <<r[1], removed, version>>
      BY <2>3, <3>1 DEF EditsAbove
    <3> QED BY <2>3, <2>4, <3>1, <3>2, <3>3 DEF EditsAbove
  <2>6. Edits(edit)'
    <3>1. Edits(old)
      BY <2>1 DEF CohortInv
    <3>2. old.at = "write"
      BY <1>2, <2>1
    <3> QED BY <1>2, <2>3, <2>5, <3>1, <3>2 DEF Edits
  <2>7. EditGoes(e, edit)
    BY <1>7, <2>1, <2>2
  <2>8. /\ editor' \in [Editor -> CohortEdit] /\ OneEdits' /\ editor'[e] = edit
        /\ \A d \in Editor : d # e => editor'[d] = NoEdit /\ editor[d] = NoEdit
        /\ \A d \in Editor : Edits(editor[d])'
    BY <1>2, <2>3, <2>6, <2>7, EditMoves DEF CohortInv
  <2>9. CohortTyped'
    BY <1>2, <1>7, <2>4, <2>8 DEF CohortInv, CohortTyped
  <2>10. ListSound'
    BY <1>4, <1>5, <1>7, <2>1, <2>3, <2>8 DEF ListSound
  <2>11. AnsweredEditHolds'
    <3>1. \A d \in Editor : editor'[d].of = editor[d].of
      BY <2>1, <2>3, <2>8
    <3>2. ASSUME NEW x \in Entity, \A d \in Editor : x \notin editor[d].of
          PROVE  /\ list[x] = "in" => x \in CollapseMembers'
                 /\ list[x] = "out" => x \notin CollapseMembers'
      BY <1>5, <1>7, <3>2 DEF CohortInv, AnsweredEditHolds
    <3> QED BY <1>7, <3>1, <3>2 DEF AnsweredEditHolds
  <2> QED BY <1>6, <2>8, <2>9, <2>10, <2>11 DEF CohortInv
<1>8. CASE members' \in {members, members \cup chunk} /\ EditFails(e)
  <2>1. PICK written \in SUBSET editor[e].rows : members' = members \cup written
    <3>1. CASE members' = members
      <4>1. {} \in SUBSET editor[e].rows /\ members' = members \cup {}
        BY <3>1
      <4> QED BY <4>1
    <3>2. CASE members' = members \cup chunk
      <4>1. chunk \in SUBSET editor[e].rows
        OBVIOUS
      <4> QED BY <3>2, <4>1
    <3> QED BY <1>8, <3>1, <3>2
  <2>2. /\ EditGoes(e, NoEdit)
        /\ list' = [x \in Entity |-> IF x \in editor[e].of THEN "unknown" ELSE list[x]]
        /\ exact' = FALSE
    BY <1>4, <1>8 DEF EditFails
  <2>3. summaries' \subseteq SummaryRow
    BY <1>2 DEF CohortInv, CohortTyped
  <2> QED BY <1>2, <1>5, <1>6, <2>1, <2>2, <2>3, EditEnds
<1> QED BY <1>1, <1>7, <1>8

(* The summary, written last.                                              *)
LEMMA PutCohortRowKeeps ==
  ASSUME CohortInv, NEW e \in Editor, PutCohortRow(e) PROVE CohortInv'
<1>1. /\ editor[e].at = "write" /\ editor[e].rows = {} /\ UNCHANGED members
      /\ editor[e] \in CohortEdit
  BY EditsTyped DEF PutCohortRow
<1>2. PICK removed \in {0, 1}, version \in 0..MaxMemberVersion : EditsAbove(editor[e], removed, version)
  BY <1>1 DEF CohortInv, Edits
<1>3. PICK s : editor[e].summary = {s}
  BY <1>1 DEF CohortInv, Edits
<1>4. \A c \in summaries : c.named /\ c.at < s.at
  BY <1>1, <1>3 DEF CohortInv, Edits
<1>5. s \in SummaryRow /\ summaries \subseteq SummaryRow
  BY <1>1, <1>3 DEF CohortEdit, CohortInv, CohortTyped
<1>6. Reached(removed, {}) = CollapseMembers
  BY DEF Reached, Touched
<1>7. CollapseMembers' = CollapseMembers /\ Cardinality(CollapseMembers) =< ListLimit
  BY <1>1 DEF CollapseMembers, Beats, CohortInv, ListSound
<1>8. s.named => s.count = Cardinality(CollapseMembers)
  BY <1>1, <1>2, <1>3, <1>6 DEF EditsAbove
<1>9. members' \subseteq MemberRow
  BY <1>1 DEF CohortInv, CohortTyped
<1>10. CASE summaries' = summaries \cup {s}
  <2>1. summaries' \subseteq SummaryRow /\ summaries \subseteq summaries'
    BY <1>5, <1>10
  <2>2. SummariesSound'
    <3>1. \A c \in summaries' : c.at \in Int
      BY <2>1 DEF SummaryRow
    <3>2. \A c, d \in summaries : c.at = d.at => c = d
      BY DEF CohortInv, SummariesSound
    <3>3. \A c, d \in summaries' : ~c.named => d.at =< c.at
      BY <1>4, <1>10, <3>1
    <3>4. \A c, d \in summaries' : c.at = d.at => c = d
      BY <1>4, <1>10, <3>1, <3>2
    <3> QED BY <3>3, <3>4 DEF SummariesSound
  <2>3. Cohort' = s
    <3>1. Cohort' \in summaries' /\ \A c \in summaries' : c.at =< Cohort'.at
      <4>1. \A c \in summaries' : c.at \in Int /\ c.at =< s.at
        BY <1>4, <1>10, <2>1 DEF SummaryRow
      <4>2. s \in summaries' /\ \A c \in summaries' : s.at >= c.at
        BY <1>10, <4>1
      <4>3. Cohort' \in summaries' /\ \A c \in summaries' : Cohort'.at >= c.at
        BY <4>2 DEF Cohort
      <4> QED BY <4>1, <4>3
    <3>2. s \in summaries' /\ \A c \in summaries : c.at < s.at
      BY <1>4, <1>10
    <3>3. \A c \in summaries' : c.at \in Int
      BY <2>1 DEF SummaryRow
    <3> QED BY <1>10, <3>1, <3>2, <3>3
  <2>4. CASE /\ EditGoes(e, NoEdit) /\ exact' = TRUE
             /\ list' = [x \in Entity |-> IF x \in editor[e].of THEN editor[e].holds ELSE list[x]]
    <3>1. editor[e].holds \in {"in", "out", "unknown"}
      BY <1>1 DEF CohortEdit
    <3>2. \A x \in editor[e].of : /\ editor[e].holds = "in" => x \in CollapseMembers
                                  /\ editor[e].holds = "out" => x \notin CollapseMembers
      <4>1. \A x \in editor[e].of :
              /\ editor[e].holds = IF removed = 0 THEN "in" ELSE "out"
              /\ x \in CollapseMembers <=> removed = 0
        BY <1>1, <1>2, <1>6 DEF EditsAbove
      <4> QED BY <4>1
    <3> QED BY <1>1, <1>7, <1>8, <1>9, <2>1, <2>2, <2>3, <2>4, <3>1, <3>2, EditEnds
  <2>5. CASE EditFails(e)
    BY <1>1, <1>7, <1>8, <1>9, <2>1, <2>2, <2>3, <2>5, EditEnds DEF EditFails, CohortInv, CohortTyped
  <2> QED BY <1>3, <1>10, <2>4, <2>5 DEF PutCohortRow
<1>11. CASE summaries' = summaries /\ EditFails(e)
  <2>1. /\ EditGoes(e, NoEdit)
        /\ list' = [x \in Entity |-> IF x \in editor[e].of THEN "unknown" ELSE list[x]]
        /\ exact' = (exact /\ editor[e].of = {})
    BY <1>11 DEF EditFails
  <2>2. SummariesSound' /\ Cohort' = Cohort
    BY <1>11 DEF CohortInv, SummariesSound, Cohort
  <2>3. exact' => \A d \in Editor : editor[d].of = {}
    <3>1. ASSUME NEW d \in Editor, d # e PROVE editor[d].of = {}
      BY <1>1, <3>1 DEF CohortInv, OneEdits, NoEdit
    <3> QED BY <2>1, <3>1
  <2>4. exact' /\ Cohort.named => Cohort.count = Cardinality(CollapseMembers)
    BY <2>1, <2>3 DEF CohortInv, ListSound
  <2>5. exact' \in BOOLEAN
    BY <2>1
  <2> QED BY <1>1, <1>5, <1>7, <1>9, <1>11, <2>1, <2>2, <2>4, <2>5, EditEnds
<1> QED BY <1>3, <1>10, <1>11 DEF PutCohortRow

(* A restart, after which nothing is known of what was under way.          *)
LEMMA CohortCrashKeeps == ASSUME CohortInv, CohortCrash PROVE CohortInv'
<1>1. /\ editor' = [e \in Editor |-> NoEdit] /\ exact' = FALSE
      /\ list' = [x \in Entity |->
                   IF \E e \in Editor : x \in editor[e].of THEN "unknown" ELSE list[x]]
      /\ UNCHANGED <<members, summaries>>
  BY DEF CohortCrash
<1>2. CollapseMembers' = CollapseMembers
  BY <1>1 DEF CollapseMembers, Beats
<1>3. NoEdit \in CohortEdit /\ NoEdit.at = "off"
  BY DEF NoEdit, CohortEdit
<1>4. CohortTyped'
  <2>1. list' \in [Entity -> {"in", "out", "unknown"}] /\ editor' \in [Editor -> CohortEdit]
    BY <1>1, <1>3 DEF CohortInv, CohortTyped
  <2> QED BY <1>1, <2>1 DEF CohortInv, CohortTyped
<1>5. OneEdits' /\ (\A e \in Editor : Edits(editor[e])')
  BY <1>1, <1>3 DEF OneEdits, Edits
<1>6. SummariesSound' /\ ListSound'
  BY <1>1, <1>2 DEF CohortInv, SummariesSound, ListSound
<1>7. AnsweredEditHolds'
  <2>1. ASSUME NEW x \in Entity PROVE /\ list'[x] = "in" => x \in CollapseMembers
                                      /\ list'[x] = "out" => x \notin CollapseMembers
    <3>1. CASE \E e \in Editor : x \in editor[e].of
      BY <1>1, <3>1
    <3>2. CASE \A e \in Editor : x \notin editor[e].of
      BY <1>1, <3>2 DEF CohortInv, AnsweredEditHolds
    <3> QED BY <3>1, <3>2
  <2> QED BY <1>2, <2>1 DEF AnsweredEditHolds
<1> QED BY <1>4, <1>5, <1>6, <1>7 DEF CohortInv

(* An edit of a static cohort that was answered holds until the next one   *)
(* of the same entity, the count an edit leaves is that of the list, the   *)
(* list stays within its limit and a deleted cohort stays deleted: for any *)
(* number of edits, whatever write fails and however the clock goes        *)
(* (static.go, cohorts.go).                                                *)
THEOREM CohortTheorem == CohortSpec => [](CohortTypeOK /\ CohortSound)
<1>1. CohortInit => CohortInv
  <2> SUFFICES ASSUME CohortInit PROVE CohortInv
    OBVIOUS
  <2>1. PICK those \in SUBSET Entity :
          /\ Cardinality(those) =< ListLimit
          /\ members = {<<x, 0, 0>> : x \in those}
          /\ summaries = {[named |-> TRUE, count |-> Cardinality(those), at |-> 0]}
          /\ list = [x \in Entity |-> IF x \in those THEN "in" ELSE "out"]
    BY DEF CohortInit
  <2>2. editor = [e \in Editor |-> NoEdit] /\ exact = TRUE
    BY DEF CohortInit
  <2>3. NoEdit \in CohortEdit /\ NoEdit.at = "off"
    BY DEF NoEdit, CohortEdit
  <2>4. CollapseMembers = those
    <3>1. \A q \in members : q[2] = 0 /\ q[3] = 0 /\ q[1] \in those
      BY <2>1
    <3>2. \A q, o \in members : Beats(q, o)
      BY <3>1 DEF Beats
    <3>3. \A x \in those : <<x, 0, 0>> \in members /\ <<x, 0, 0>>[1] = x
      BY <2>1
    <3> QED BY <3>1, <3>2, <3>3 DEF CollapseMembers
  <2>5. Cardinality(those) \in 0..ListLimit /\ 0 \in 0..MaxMemberVersion
    BY <2>1, ListIsFinite, CohortAssumption
  <2>6. CohortTyped
    <3>1. members \subseteq MemberRow
      BY <2>1, <2>5 DEF MemberRow
    <3>2. summaries \subseteq SummaryRow /\ summaries # {}
      BY <2>1, <2>5 DEF SummaryRow
    <3>3. list \in [Entity -> {"in", "out", "unknown"}] /\ editor \in [Editor -> CohortEdit]
      BY <2>1, <2>2, <2>3
    <3> QED BY <2>2, <3>1, <3>2, <3>3 DEF CohortTyped
  <2>7. Cohort = [named |-> TRUE, count |-> Cardinality(those), at |-> 0]
    BY <2>1, <2>6, NewestSummary
  <2>8. OneEdits /\ \A e \in Editor : Edits(editor[e])
    BY <2>2, <2>3 DEF OneEdits, Edits
  <2>9. SummariesSound /\ ListSound
    BY <2>1, <2>4, <2>7 DEF SummariesSound, ListSound
  <2>10. AnsweredEditHolds
    BY <2>1, <2>4 DEF AnsweredEditHolds
  <2> QED BY <2>6, <2>8, <2>9, <2>10 DEF CohortInv
<1>2. CohortInv /\ [CohortNext]_cohortVars => CohortInv'
  <2> SUFFICES ASSUME CohortInv, [CohortNext]_cohortVars PROVE CohortInv'
    OBVIOUS
  <2>1. ASSUME NEW e \in Editor, NEW those \in (SUBSET Entity) \ {{}}, NEW removed \in {0, 1},
               EditMembers(e, those, removed)
        PROVE  CohortInv'
    <3>1. those \in SUBSET Entity /\ those # {}
      OBVIOUS
    <3> QED BY <2>1, <3>1, EditMembersKeeps
  <2>2. CASE UNCHANGED cohortVars
    <3>1. CollapseMembers' = CollapseMembers /\ Cohort' = Cohort
      BY <2>2 DEF cohortVars, CollapseMembers, Beats, Cohort
    <3>2. ASSUME NEW e \in Editor PROVE Edits(editor[e])'
      <4>1. PICK edit : edit = editor[e]
        OBVIOUS
      <4>2. \A removed, batch : Reached(removed, batch)' = Reached(removed, batch)
        BY <3>1 DEF Reached, Touched
      <4>3. \A removed, version : EditsAbove(edit, removed, version)' <=> EditsAbove(edit, removed, version)
        BY <2>2, <4>2 DEF cohortVars, EditsAbove
      <4>4. Edits(edit)
        BY <4>1 DEF CohortInv
      <4>5. Edits(edit)'
        BY <2>2, <4>3, <4>4 DEF cohortVars, Edits
      <4> QED BY <2>2, <4>1, <4>5 DEF cohortVars
    <3>3. CohortTyped' /\ OneEdits' /\ SummariesSound'
      BY <2>2 DEF cohortVars, CohortInv, CohortTyped, OneEdits, SummariesSound
    <3>4. ListSound' /\ AnsweredEditHolds'
      BY <2>2, <3>1 DEF cohortVars, CohortInv, ListSound, AnsweredEditHolds
    <3> QED BY <3>2, <3>3, <3>4 DEF CohortInv
  <2> QED
    BY <2>1, <2>2, EditCohortKeeps, InsertMembersKeeps, PutCohortRowKeeps, CohortCrashKeeps
    DEF CohortNext
<1>3. CohortInv => CohortTypeOK /\ CohortSound
  <2> SUFFICES ASSUME CohortInv PROVE CohortTypeOK /\ CohortSound
    OBVIOUS
  <2>1. CohortTypeOK
    BY DEF CohortInv, CohortTyped, CohortTypeOK, MemberRow, SummaryRow, CohortEdit
  <2>2. MutationFree => \A e \in Editor : editor[e].of = {}
    BY DEF CohortInv, OneEdits, MutationFree, NoEdit
  <2> QED BY <2>1, <2>2 DEF CohortInv, SummariesSound, ListSound, CohortSound, CountExact
<1> QED
  BY <1>1, <1>2, <1>3, PTL DEF CohortSpec

-----------------------------------------------------------------------------
(* Backup and restore.                                                     *)

DumpState ==
  [at : {"off", "tables", "kv", "keys", "relist", "check"}, next : 1..KvSection, tries : 0..KvTries,
   prev : [BlobKey -> NotThere..MaxUploads], read : [BlobKey -> 0..MaxUploads], left : SUBSET BlobKey,
   listed : [BlobKey -> 0..MaxUploads]]
ArchiveState ==
  [held : BOOLEAN, results : BOOLEAN, tables : [Table -> {Failed, NotThere} \cup 0..MaxMoment],
   kv : {"absent", "moment", "failed"}]
RestoreState ==
  [at : {"off", "inspect", "apply"}, next : 1..(KvSection + 1),
   said : {"nothing", "refused", "failed", "restored"}]

BackupTyped ==
  /\ moment \in 0..MaxMoment /\ uploads \in 0..MaxUploads /\ kv \in [BlobKey -> 0..MaxUploads]
  /\ lease \in BOOLEAN /\ window \in {"in", "over"}
  /\ dump \in DumpState /\ archive \in ArchiveState /\ restore \in RestoreState
  /\ target \in [Section -> {0, 1}]

(* No upload has a number that is still to come.                           *)
UploadsPast ==
  \A k \in BlobKey : kv[k] =< uploads /\ dump.prev[k] =< uploads /\ dump.read[k] =< uploads

(* A value the last read saw, and this listing did not, has gone for good. *)
GoneForGood ==
  dump.at = "keys" =>
    \A k \in BlobKey : dump.prev[k] > 0 /\ dump.listed[k] # dump.prev[k] => kv[k] # dump.prev[k]

(* A key that was listed is left to read or has been read, no other has;   *)
(* and one that was read twice the same is as it was listed in between.    *)
KeysRead ==
  dump.at = "keys" =>
    \A k \in BlobKey :
      /\ dump.read[k] # 0 <=> dump.listed[k] # 0 /\ k \notin dump.left
      /\ k \in dump.left => dump.listed[k] # 0
      /\ dump.read[k] # 0 /\ dump.read[k] = dump.prev[k] => dump.read[k] = dump.listed[k]

ReadAsListed == dump.at = "relist" => dump.read = dump.listed

KeyValuesSound == UploadsPast /\ GoneForGood /\ KeysRead /\ ReadAsListed

(* While the window is open the lease holds, and every table is as it was  *)
(* dumped.                                                                 *)
TablesHeld ==
  archive.held /\ dump.at # "off" /\ window = "in" =>
    lease /\ \A t \in Table : archive.tables[t] >= 0 => archive.tables[t] = moment

TablesTried ==
  /\ dump.at = "tables" => \A t \in Table : t < dump.next => archive.tables[t] # NotThere
  /\ dump.at \in {"kv", "keys", "relist", "check"} \/ archive.results =>
       \A t \in Table : archive.tables[t] # NotThere

(* The completion record comes last.                                       *)
Completion ==
  /\ dump.at # "off" => ~archive.results /\ restore.at = "off" /\ restore.said = "nothing"
  /\ dump.at = "check" \/ archive.results => archive.kv \in {"moment", "failed"}

Restoring ==
  /\ restore.at # "off" \/ restore.said = "restored" => Complete(archive)
  /\ restore.at = "inspect" => restore.next = 1
  /\ restore.at = "apply" => \A x \in Section : target[x] = IF x < restore.next THEN 1 ELSE 0
  /\ restore.said = "restored" => \A x \in Section : target[x] = 1

BackupInv ==
  /\ BackupTyped /\ KeyValuesSound /\ TablesHeld /\ TablesTried /\ Completion
  /\ HeldIsOneMoment /\ Restoring

(* The invariant is what is promised, and more.                            *)
LEMMA BackupPromises == BackupInv => BackupTypeOK /\ BackupSound
<1> SUFFICES ASSUME BackupInv PROVE BackupTypeOK /\ BackupSound
  OBVIOUS
<1>1. BackupTypeOK
  BY DEF BackupInv, BackupTyped, DumpState, ArchiveState, RestoreState, BackupTypeOK
<1>2. KvIsOneMoment
  BY DEF BackupInv, BackupTyped, ArchiveState, KvIsOneMoment
<1>3. RestoredOnce
  <2>1. \A x \in Section : target[x] =< 1
    BY DEF BackupInv, BackupTyped
  <2>2. ASSUME restore.said = "restored"
        PROVE  archive.kv = "moment" /\ \A t \in Table : archive.tables[t] >= 0
    <3>1. /\ archive.results /\ archive.kv # "failed"
          /\ \A t \in Table : archive.tables[t] # Failed
      BY <2>2 DEF BackupInv, Restoring, Complete
    <3>2. archive.kv = "moment" /\ \A t \in Table : archive.tables[t] # NotThere
      BY <3>1 DEF BackupInv, Completion, TablesTried
    <3>3. \A t \in Table : archive.tables[t] \in {Failed, NotThere} \cup 0..MaxMoment
      BY DEF BackupInv, BackupTyped, ArchiveState
    <3> QED BY <3>1, <3>2, <3>3
  <2>3. restore.said = "restored" => \A x \in Section : target[x] = 1
    BY DEF BackupInv, Restoring
  <2> QED BY <2>1, <2>2, <2>3 DEF RestoredOnce
<1> QED BY <1>1, <1>2, <1>3 DEF BackupInv, BackupSound

(* The constants, and the sections in their order.                         *)
LEMMA BackupBounds ==
  /\ TableCount \in Nat /\ KvTries \in Nat /\ MaxMoment \in Nat /\ MaxUploads \in Nat /\ MaxUploads > 0
  /\ Table = 1..TableCount /\ KvSection = TableCount + 1 /\ Section = 1..KvSection
  /\ NotThere = -1 /\ Failed = -2
BY BackupAssumption DEF Table, KvSection, Section, NotThere, Failed

(* No dump, and an archive nothing is written of.                          *)
LEMMA NoDumpTyped ==
  /\ NoDump \in DumpState /\ NoDump.at = "off" /\ NoDump.tries = 0 /\ NoDump.next = 1
  /\ \A k \in BlobKey : NoDump.prev[k] = -1 /\ NoDump.read[k] = 0
  /\ NoArchive \in ArchiveState /\ ~NoArchive.results /\ ~NoArchive.held
  /\ \A t \in Table : NoArchive.tables[t] = -1
BY BackupBounds DEF NoDump, NoRead, NoKeys, DumpState, NoArchive, ArchiveState

(* A backup starts with nothing dumped.                                    *)
LEMMA BackupStarts == BackupInit => BackupInv
<1> SUFFICES ASSUME BackupInit PROVE BackupInv
  OBVIOUS
<1>1. /\ moment = 0 /\ kv \in [BlobKey -> {0, 1}] /\ uploads = 1 /\ lease = FALSE /\ window = "in"
      /\ dump = NoDump /\ archive = NoArchive
      /\ restore = [at |-> "off", next |-> 1, said |-> "nothing"]
      /\ target = [x \in Section |-> 0]
  BY DEF BackupInit
<1>2. BackupTyped
  <2>1. restore \in RestoreState
    BY <1>1, BackupBounds DEF RestoreState
  <2>2. kv \in [BlobKey -> 0..MaxUploads] /\ uploads \in 0..MaxUploads /\ moment \in 0..MaxMoment
    BY <1>1, BackupBounds
  <2> QED BY <1>1, <2>1, <2>2, NoDumpTyped DEF BackupTyped
<1>3. KeyValuesSound
  <2>1. UploadsPast
    <3>1. \A k \in BlobKey : kv[k] =< 1 /\ NoDump.prev[k] =< 1 /\ NoDump.read[k] =< 1
      BY <1>1, NoDumpTyped
    <3> QED BY <1>1, <3>1 DEF UploadsPast
  <2> QED BY <1>1, <2>1, NoDumpTyped DEF KeyValuesSound, GoneForGood, KeysRead, ReadAsListed
<1>4. TablesHeld /\ HeldIsOneMoment /\ TablesTried /\ Completion
  BY <1>1, NoDumpTyped DEF TablesHeld, HeldIsOneMoment, TablesTried, Completion
<1>5. Restoring
  BY <1>1 DEF Restoring
<1> QED BY <1>2, <1>3, <1>4, <1>5 DEF BackupInv

(* What the steps of the dump leave of the key-value section alone.        *)
LEMMA KeyValuesKept ==
  ASSUME KeyValuesSound, UNCHANGED <<kv, uploads, dump>> PROVE KeyValuesSound'
BY DEF KeyValuesSound, UploadsPast, GoneForGood, KeysRead, ReadAsListed

(* Outside a reading of the keys nothing is claimed of what was read.      *)
LEMMA NoKeysSound ==
  ASSUME BackupTyped, KeyValuesSound, UNCHANGED <<kv, uploads>>, dump'.at \notin {"keys", "relist"},
         \A k \in BlobKey : dump'.prev[k] =< uploads /\ dump'.read[k] =< uploads
  PROVE  KeyValuesSound'
BY DEF KeyValuesSound, UploadsPast, GoneForGood, KeysRead, ReadAsListed

(* A dump begins and ends without keys.                                    *)
LEMMA NoDumpSound ==
  ASSUME BackupTyped, KeyValuesSound, UNCHANGED <<kv, uploads>>, dump'.at \notin {"keys", "relist"},
         dump'.prev = NoDump.prev, dump'.read = NoDump.read
  PROVE  KeyValuesSound'
<1>1. \A k \in BlobKey : dump'.prev[k] =< uploads /\ dump'.read[k] =< uploads
  <2>1. uploads \in Nat
    BY DEF BackupTyped
  <2> QED BY <2>1, NoDumpTyped
<1> QED BY <1>1, NoKeysSound

(* The engine's writers, and the clock.                                    *)
LEMMA WritersKeep ==
  ASSUME BackupInv, WriteTables \/ WindowCloses \/ LeaseExpires PROVE BackupInv'
<1>1. /\ UNCHANGED <<kv, uploads, dump, archive, restore, target>>
      /\ lease' \in BOOLEAN /\ window' \in {"in", "over"} /\ moment' \in 0..MaxMoment
      /\ window' = "in" => window = "in" /\ lease' = lease /\ (lease => moment' = moment)
  <2>1. moment \in 0..MaxMoment /\ lease \in BOOLEAN /\ window \in {"in", "over"}
    BY DEF BackupInv, BackupTyped
  <2>2. CASE WriteTables
    <3>1. moment + 1 \in 0..MaxMoment
      BY <2>1, <2>2, BackupBounds DEF WriteTables
    <3> QED BY <2>1, <2>2, <3>1 DEF WriteTables
  <2>3. CASE WindowCloses
    BY <2>1, <2>3 DEF WindowCloses
  <2>4. CASE LeaseExpires
    BY <2>1, <2>4 DEF LeaseExpires
  <2> QED BY <2>2, <2>3, <2>4
<1>2. BackupTyped'
  BY <1>1 DEF BackupInv, BackupTyped
<1>3. KeyValuesSound'
  BY <1>1, KeyValuesKept DEF BackupInv
<1>4. TablesHeld'
  BY <1>1 DEF BackupInv, TablesHeld
<1>5. TablesTried' /\ Completion' /\ HeldIsOneMoment' /\ Restoring'
  BY <1>1 DEF BackupInv, TablesTried, Completion, HeldIsOneMoment, Restoring, Complete
<1> QED BY <1>2, <1>3, <1>4, <1>5 DEF BackupInv

(* An upload has a number of its own, so it brings back no value that a    *)
(* listing or a read has seen go.                                          *)
LEMMA WriteBlobKeeps == ASSUME BackupInv, NEW j \in BlobKey, WriteBlob(j) PROVE BackupInv'
<1>1. UNCHANGED <<moment, lease, window, dump, archive, restore, target>>
  BY DEF WriteBlob
<1>2. PICK value \in 0..MaxUploads :
        /\ kv' = [kv EXCEPT ![j] = value]
        /\ uploads' \in 0..MaxUploads /\ uploads =< uploads' /\ value =< uploads'
        /\ value > uploads \/ value = 0
  <2>1. CASE uploads < MaxUploads /\ uploads' = uploads + 1 /\ kv' = [kv EXCEPT ![j] = uploads + 1]
    <3>1. uploads + 1 \in 0..MaxUploads
      BY <2>1, BackupBounds DEF BackupInv, BackupTyped
    <3> WITNESS uploads + 1 \in 0..MaxUploads
    <3> QED BY <2>1, <3>1, BackupBounds DEF BackupInv, BackupTyped
  <2>2. CASE kv' = [kv EXCEPT ![j] = 0] /\ UNCHANGED uploads
    <3>1. 0 \in 0..MaxUploads /\ uploads \in 0..MaxUploads
      BY BackupBounds DEF BackupInv, BackupTyped
    <3>2. uploads' = uploads /\ uploads \in Int /\ 0 =< uploads
      BY <2>2, <3>1
    <3>3. uploads' \in 0..MaxUploads /\ uploads =< uploads' /\ 0 =< uploads'
      BY <3>1, <3>2
    <3>4. kv' = [kv EXCEPT ![j] = 0]
      BY <2>2
    <3> QED BY <3>1, <3>3, <3>4
  <2> QED BY <2>1, <2>2 DEF WriteBlob
<1>3. /\ kv \in [BlobKey -> 0..MaxUploads] /\ uploads \in Nat /\ uploads' \in Nat
      /\ \A k \in BlobKey : /\ dump.prev[k] \in Int /\ dump.read[k] \in Int
                            /\ kv'[k] = IF k = j THEN value ELSE kv[k]
  BY <1>2, BackupBounds DEF BackupInv, BackupTyped, DumpState
<1>4. BackupTyped'
  BY <1>1, <1>2, <1>3 DEF BackupInv, BackupTyped
<1>5. UploadsPast'
  BY <1>1, <1>2, <1>3, BackupBounds DEF BackupInv, KeyValuesSound, UploadsPast
<1>6. GoneForGood'
  <2>1. \A k \in BlobKey : dump.prev[k] =< uploads
    BY DEF BackupInv, KeyValuesSound, UploadsPast
  <2> QED BY <1>1, <1>2, <1>3, <2>1, BackupBounds DEF BackupInv, KeyValuesSound, GoneForGood
<1>7. KeysRead' /\ ReadAsListed'
  BY <1>1 DEF BackupInv, KeyValuesSound, KeysRead, ReadAsListed
<1>8. TablesHeld' /\ TablesTried' /\ Completion' /\ HeldIsOneMoment' /\ Restoring'
  BY <1>1 DEF BackupInv, TablesHeld, TablesTried, Completion, HeldIsOneMoment, Restoring, Complete
<1> QED BY <1>4, <1>5, <1>6, <1>7, <1>8 DEF BackupInv, KeyValuesSound

(* A dump begins, under a lease or not.                                    *)
LEMMA BeginDumpKeeps == ASSUME BackupInv, BeginDump PROVE BackupInv'
<1>1. /\ dump.at = "off" /\ restore.at = "off"
      /\ dump' = [NoDump EXCEPT !.at = "tables"] /\ restore' = [restore EXCEPT !.said = "nothing"]
      /\ UNCHANGED <<moment, kv, uploads, target>>
  BY DEF BeginDump
<1>2. PICK known \in BOOLEAN :
        /\ known => lease' = TRUE /\ window' = "in"
        /\ ~known => UNCHANGED <<lease, window>>
        /\ archive' = [NoArchive EXCEPT !.held = known]
  BY BackupAssumption DEF BeginDump
<1>3. /\ dump' \in DumpState /\ dump'.at = "tables" /\ dump'.next = 1
      /\ dump'.prev = NoDump.prev /\ dump'.read = NoDump.read
  BY <1>1, NoDumpTyped DEF DumpState, NoDump
<1>4. /\ archive' \in ArchiveState /\ ~archive'.results /\ archive'.held = known
      /\ \A t \in Table : archive'.tables[t] = -1
  BY <1>2, NoDumpTyped DEF ArchiveState, NoArchive
<1>5. /\ restore' \in RestoreState /\ restore'.at = "off" /\ restore'.said = "nothing"
  BY <1>1 DEF BackupInv, BackupTyped, RestoreState
<1>6. BackupTyped'
  BY <1>1, <1>2, <1>3, <1>4, <1>5 DEF BackupInv, BackupTyped
<1>7. KeyValuesSound'
  BY <1>1, <1>3, NoDumpSound DEF BackupInv
<1>8. TablesHeld' /\ HeldIsOneMoment' /\ Completion' /\ Restoring'
  BY <1>2, <1>3, <1>4, <1>5 DEF TablesHeld, HeldIsOneMoment, Completion, Restoring
<1>9. TablesTried'
  BY <1>3, <1>4, BackupBounds DEF TablesTried
<1> QED BY <1>6, <1>7, <1>8, <1>9 DEF BackupInv

(* A table is dumped, or cannot be read.                                   *)
LEMMA DumpTableKeeps == ASSUME BackupInv, DumpTable PROVE BackupInv'
<1>1. /\ dump.at = "tables" /\ dump.next \in Table
      /\ dump' = [dump EXCEPT !.next = @ + 1]
      /\ UNCHANGED <<moment, kv, uploads, lease, window, restore, target>>
  BY DEF DumpTable
<1>2. PICK got \in {moment, Failed} : archive' = [archive EXCEPT !.tables[dump.next] = got]
  BY DEF DumpTable
<1>3. /\ dump' \in DumpState /\ dump'.at = "tables" /\ dump'.next = dump.next + 1
      /\ dump'.prev = dump.prev /\ dump'.read = dump.read
  <2>1. dump.next + 1 \in 1..KvSection
    BY <1>1, BackupBounds
  <2> QED BY <1>1, <2>1 DEF BackupInv, BackupTyped, DumpState
<1>4. /\ archive' \in ArchiveState /\ archive'.held = archive.held /\ archive'.results = archive.results
      /\ archive'.kv = archive.kv
      /\ \A t \in Table : archive'.tables[t] = IF t = dump.next THEN got ELSE archive.tables[t]
  <2>1. got \in {Failed, NotThere} \cup 0..MaxMoment
    BY DEF BackupInv, BackupTyped
  <2> QED BY <1>1, <1>2, <2>1 DEF BackupInv, BackupTyped, ArchiveState
<1>5. BackupTyped'
  BY <1>1, <1>3, <1>4 DEF BackupInv, BackupTyped
<1>6. KeyValuesSound'
  BY <1>1, <1>3, NoKeysSound DEF BackupInv, KeyValuesSound, UploadsPast
<1>7. TablesHeld'
  BY <1>1, <1>2, <1>3, <1>4, BackupBounds DEF BackupInv, TablesHeld
<1>8. TablesTried'
  <2>1. ~archive.results
    BY <1>1 DEF BackupInv, Completion
  <2>2. got # NotThere
    BY BackupBounds DEF BackupInv, BackupTyped
  <2> QED BY <1>1, <1>3, <1>4, <2>1, <2>2, BackupBounds DEF BackupInv, TablesTried
<1>9. Completion' /\ HeldIsOneMoment' /\ Restoring'
  BY <1>1, <1>3, <1>4 DEF BackupInv, Completion, HeldIsOneMoment, Restoring
<1> QED BY <1>5, <1>6, <1>7, <1>8, <1>9 DEF BackupInv

(* The keys are listed.                                                    *)
LEMMA KvListKeeps == ASSUME BackupInv, KvList PROVE BackupInv'
<1>1. /\ dump.at \in {"tables", "kv"}
      /\ dump.at = "tables" => dump.next = KvSection
      /\ dump.tries < KvTries
      /\ dump' = [dump EXCEPT !.at = "keys", !.tries = @ + 1, !.listed = kv,
                              !.read = NoKeys, !.left = {k \in BlobKey : kv[k] # 0}]
      /\ UNCHANGED <<moment, kv, uploads, lease, window, archive, restore, target>>
  BY DEF KvList
<1>2. /\ dump'.at = "keys" /\ dump'.listed = kv /\ dump'.prev = dump.prev
      /\ dump'.left = {k \in BlobKey : kv[k] # 0} /\ \A k \in BlobKey : dump'.read[k] = 0
  BY <1>1 DEF NoKeys, BackupInv, BackupTyped, DumpState
<1>3. BackupTyped'
  <2>1. dump.tries + 1 \in 0..KvTries
    BY <1>1, BackupBounds DEF BackupInv, BackupTyped, DumpState
  <2>2. NoKeys \in [BlobKey -> 0..MaxUploads]
    BY BackupBounds DEF NoKeys
  <2>3. dump' \in DumpState
    BY <1>1, <2>1, <2>2 DEF BackupInv, BackupTyped, DumpState
  <2> QED BY <1>1, <2>3 DEF BackupInv, BackupTyped
<1>4. KeyValuesSound'
  <2>1. UploadsPast'
    <3>1. uploads \in Nat
      BY DEF BackupInv, BackupTyped
    <3> QED BY <1>1, <1>2, <3>1 DEF BackupInv, KeyValuesSound, UploadsPast
  <2>2. GoneForGood'
    BY <1>1, <1>2 DEF GoneForGood
  <2>3. KeysRead' /\ ReadAsListed'
    BY <1>1, <1>2 DEF KeysRead, ReadAsListed
  <2> QED BY <2>1, <2>2, <2>3 DEF KeyValuesSound
<1>5. TablesTried'
  <2>1. dump.at = "tables" => \A t \in Table : t < dump.next
    BY <1>1, BackupBounds
  <2>2. \A t \in Table : archive.tables[t] # NotThere
    BY <1>1, <2>1 DEF BackupInv, TablesTried
  <2> QED BY <1>1, <1>2, <2>2 DEF TablesTried
<1>6. TablesHeld' /\ Completion' /\ HeldIsOneMoment' /\ Restoring'
  <2>1. dump.at # "off" /\ dump'.at = "keys"
    BY <1>1, <1>2
  <2> QED BY <1>1, <2>1 DEF BackupInv, TablesHeld, Completion, HeldIsOneMoment, Restoring, Complete
<1> QED BY <1>3, <1>4, <1>5, <1>6 DEF BackupInv

(* A key that was read twice the same had this value at the listing in     *)
(* between.                                                                *)
LEMMA KvReadKeeps == ASSUME BackupInv, NEW j \in BlobKey, KvRead(j) PROVE BackupInv'
<1>1. /\ dump.at = "keys" /\ j \in dump.left
      /\ UNCHANGED <<moment, kv, uploads, lease, window, archive, restore, target>>
  BY DEF KvRead
<1>2. dump'.at \in {"kv", "keys"} /\ dump' \in DumpState /\ KeyValuesSound'
  <2>1. CASE kv[j] = 0
    <3>1. dump' = [dump EXCEPT !.at = "kv", !.prev = NoRead, !.left = {}]
      BY <2>1 DEF KvRead
    <3>2. /\ dump' \in DumpState /\ dump'.at = "kv" /\ dump'.read = dump.read
          /\ \A k \in BlobKey : dump'.prev[k] = -1
      BY <3>1, NoDumpTyped, BackupBounds DEF BackupInv, BackupTyped, DumpState, NoRead
    <3>3. \A k \in BlobKey : dump'.prev[k] =< uploads /\ dump'.read[k] =< uploads
      BY <3>2, BackupBounds DEF BackupInv, BackupTyped, KeyValuesSound, UploadsPast
    <3> QED BY <1>1, <3>2, <3>3, NoKeysSound DEF BackupInv
  <2>2. CASE kv[j] # 0
    <3>1. dump' = [dump EXCEPT !.left = @ \ {j}, !.read[j] = kv[j]]
      BY <2>2 DEF KvRead
    <3>2. /\ dump' \in DumpState /\ dump'.at = "keys" /\ dump'.prev = dump.prev
          /\ dump'.listed = dump.listed /\ dump'.left = dump.left \ {j}
          /\ \A k \in BlobKey : dump'.read[k] = IF k = j THEN kv[j] ELSE dump.read[k]
      BY <1>1, <3>1 DEF BackupInv, BackupTyped, DumpState
    <3>3. UploadsPast'
      BY <1>1, <3>2 DEF BackupInv, KeyValuesSound, UploadsPast
    <3>4. GoneForGood'
      BY <1>1, <3>2 DEF BackupInv, KeyValuesSound, GoneForGood
    <3>5. KeysRead'
      <4>1. dump.listed[j] # 0
        BY <1>1 DEF BackupInv, KeyValuesSound, KeysRead
      <4>2. kv[j] = dump.prev[j] => dump.listed[j] = dump.prev[j]
        <5>1. kv[j] \in Nat
          BY DEF BackupInv, BackupTyped
        <5> QED BY <1>1, <2>2, <5>1 DEF BackupInv, KeyValuesSound, GoneForGood
      <4> QED BY <1>1, <2>2, <3>2, <4>1, <4>2 DEF BackupInv, KeyValuesSound, KeysRead
    <3>6. ReadAsListed'
      BY <3>2 DEF ReadAsListed
    <3> QED BY <3>2, <3>3, <3>4, <3>5, <3>6 DEF KeyValuesSound
  <2> QED BY <2>1, <2>2
<1>3. BackupTyped'
  BY <1>1, <1>2 DEF BackupInv, BackupTyped
<1>4. TablesTried'
  BY <1>1, <1>2 DEF BackupInv, TablesTried
<1>5. TablesHeld' /\ Completion' /\ HeldIsOneMoment' /\ Restoring'
  BY <1>1, <1>2 DEF BackupInv, TablesHeld, Completion, HeldIsOneMoment, Restoring, Complete
<1> QED BY <1>2, <1>3, <1>4, <1>5 DEF BackupInv

(* What was read is compared with what was read before.                    *)
LEMMA KvCompareKeeps == ASSUME BackupInv, KvCompare PROVE BackupInv'
<1>1. /\ dump.at = "keys" /\ dump.left = {}
      /\ UNCHANGED <<moment, kv, uploads, lease, window, archive, restore, target>>
  BY DEF KvCompare
<1>2. dump'.at \in {"kv", "relist"} /\ dump' \in DumpState /\ KeyValuesSound'
  <2>1. CASE Agrees
    <3>1. dump' = [dump EXCEPT !.at = "relist"] /\ dump.prev = dump.read
      BY <2>1 DEF KvCompare, Agrees
    <3>2. /\ dump' \in DumpState /\ dump'.at = "relist" /\ dump'.prev = dump.prev
          /\ dump'.read = dump.read /\ dump'.listed = dump.listed
      BY <3>1 DEF BackupInv, BackupTyped, DumpState
    <3>3. \A k \in BlobKey : dump.read[k] = dump.listed[k]
      BY <1>1, <3>1 DEF BackupInv, KeyValuesSound, KeysRead
    <3>4. dump.read = dump.listed
      BY <3>3 DEF BackupInv, BackupTyped, DumpState
    <3> QED
      BY <1>1, <3>2, <3>4
      DEF BackupInv, KeyValuesSound, UploadsPast, GoneForGood, KeysRead, ReadAsListed
  <2>2. CASE ~Agrees
    <3>1. dump' = [dump EXCEPT !.at = "kv", !.prev = dump.read]
      BY <2>2 DEF KvCompare
    <3>2. /\ dump' \in DumpState /\ dump'.at = "kv" /\ dump'.prev = dump.read
          /\ dump'.read = dump.read
      <4>1. dump.read \in [BlobKey -> NotThere..MaxUploads]
        BY BackupBounds DEF BackupInv, BackupTyped, DumpState
      <4> QED BY <3>1, <4>1 DEF BackupInv, BackupTyped, DumpState
    <3> QED BY <1>1, <3>2, NoKeysSound DEF BackupInv, KeyValuesSound, UploadsPast
  <2> QED BY <2>1, <2>2
<1>3. BackupTyped'
  BY <1>1, <1>2 DEF BackupInv, BackupTyped
<1>4. TablesTried'
  BY <1>1, <1>2 DEF BackupInv, TablesTried
<1>5. TablesHeld' /\ Completion' /\ HeldIsOneMoment' /\ Restoring'
  BY <1>1, <1>2 DEF BackupInv, TablesHeld, Completion, HeldIsOneMoment, Restoring, Complete
<1> QED BY <1>2, <1>3, <1>4, <1>5 DEF BackupInv

(* The section is written, or left out, and the dump goes on to its check. *)
LEMMA SectionEnds ==
  ASSUME BackupInv, dump.at \in {"kv", "keys", "relist"},
         dump' = [NoDump EXCEPT !.at = "check"],
         NEW got \in {"moment", "failed"}, archive' = [archive EXCEPT !.kv = got],
         UNCHANGED <<moment, kv, uploads, lease, window, restore, target>>
  PROVE  BackupInv'
<1>1. /\ dump' \in DumpState /\ dump'.at = "check" /\ dump'.prev = NoDump.prev /\ dump'.read = NoDump.read
  BY NoDumpTyped DEF DumpState, NoDump
<1>2. /\ archive' \in ArchiveState /\ archive'.kv = got /\ archive'.held = archive.held
      /\ archive'.results = archive.results /\ archive'.tables = archive.tables
  BY DEF BackupInv, BackupTyped, ArchiveState
<1>3. BackupTyped'
  BY <1>1, <1>2 DEF BackupInv, BackupTyped
<1>4. KeyValuesSound'
  BY <1>1, NoDumpSound DEF BackupInv
<1>5. TablesHeld' /\ TablesTried' /\ Completion' /\ HeldIsOneMoment'
  BY <1>1, <1>2 DEF BackupInv, TablesHeld, TablesTried, Completion, HeldIsOneMoment
<1>6. Restoring'
  BY <1>1, <1>2 DEF BackupInv, Completion, Restoring
<1> QED BY <1>3, <1>4, <1>5, <1>6 DEF BackupInv

(* The section is settled by a third listing, or given up.                 *)
LEMMA KvEndsKeeps == ASSUME BackupInv, KvRelist \/ KvFails PROVE BackupInv'
<1>1. CASE KvFails
  BY <1>1, SectionEnds DEF KvFails
<1>2. CASE KvRelist /\ \A k \in BlobKey : kv[k] = 0 <=> dump.read[k] = 0
  <2>1. dump.read = dump.listed
    BY <1>2 DEF KvRelist, BackupInv, KeyValuesSound, ReadAsListed
  <2> QED BY <1>2, <2>1, SectionEnds DEF KvRelist
<1>3. CASE KvRelist /\ ~(\A k \in BlobKey : kv[k] = 0 <=> dump.read[k] = 0)
  <2>1. /\ dump.at = "relist" /\ dump' = [dump EXCEPT !.at = "kv", !.prev = dump.read]
        /\ UNCHANGED <<moment, kv, uploads, lease, window, archive, restore, target>>
    BY <1>3 DEF KvRelist
  <2>2. /\ dump' \in DumpState /\ dump'.at = "kv" /\ dump'.prev = dump.read
        /\ dump'.read = dump.read
    <3>1. dump.read \in [BlobKey -> NotThere..MaxUploads]
      BY BackupBounds DEF BackupInv, BackupTyped, DumpState
    <3> QED BY <2>1, <3>1 DEF BackupInv, BackupTyped, DumpState
  <2>3. BackupTyped'
    BY <2>1, <2>2 DEF BackupInv, BackupTyped
  <2>4. KeyValuesSound'
    BY <2>1, <2>2, NoKeysSound DEF BackupInv, KeyValuesSound, UploadsPast
  <2>5. TablesTried'
    BY <2>1, <2>2 DEF BackupInv, TablesTried
  <2>6. TablesHeld' /\ Completion' /\ HeldIsOneMoment' /\ Restoring'
    BY <2>1, <2>2 DEF BackupInv, TablesHeld, Completion, HeldIsOneMoment, Restoring, Complete
  <2> QED BY <2>3, <2>4, <2>5, <2>6 DEF BackupInv
<1> QED BY <1>1, <1>2, <1>3

(* A dump ends, with its completion record or without.                     *)
LEMMA DumpEndsKeeps == ASSUME BackupInv, FinishDump \/ DumpCut PROVE BackupInv'
<1>1. /\ dump.at # "off" /\ dump' = NoDump /\ UNCHANGED <<moment, kv, uploads, window, restore, target>>
      /\ lease' \in BOOLEAN
  BY DEF BackupInv, BackupTyped, FinishDump, DumpCut, Releases
<1>2. PICK done \in BOOLEAN :
        /\ archive' = [archive EXCEPT !.results = done]
        /\ done => WindowHolds /\ dump.at = "check"
  <2>1. CASE FinishDump
    BY <2>1 DEF FinishDump, WindowHolds
  <2>2. CASE DumpCut
    <3>1. archive.results = FALSE
      BY <1>1 DEF BackupInv, BackupTyped, ArchiveState, Completion
    <3>2. archive' = [archive EXCEPT !.results = FALSE]
      BY <2>2, <3>1 DEF DumpCut, BackupInv, BackupTyped, ArchiveState
    <3> QED BY <3>2
  <2> QED BY <2>1, <2>2
<1>3. /\ archive' \in ArchiveState /\ archive'.results = done /\ archive'.held = archive.held
      /\ archive'.tables = archive.tables /\ archive'.kv = archive.kv
  BY <1>2 DEF BackupInv, BackupTyped, ArchiveState
<1>4. BackupTyped'
  BY <1>1, <1>3, NoDumpTyped DEF BackupInv, BackupTyped
<1>5. KeyValuesSound'
  BY <1>1, NoDumpTyped, NoDumpSound DEF BackupInv
<1>6. TablesHeld' /\ Completion'
  BY <1>1, <1>2, <1>3, NoDumpTyped DEF BackupInv, TablesHeld, Completion
<1>7. TablesTried'
  BY <1>1, <1>2, <1>3, NoDumpTyped DEF BackupInv, TablesTried
<1>8. HeldIsOneMoment'
  <2>1. done /\ archive.held => \A t \in Table : archive.tables[t] >= 0 => archive.tables[t] = moment
    BY <1>1, <1>2 DEF BackupInv, TablesHeld, WindowHolds
  <2> QED BY <1>3, <2>1 DEF HeldIsOneMoment
<1>9. Restoring'
  <2>1. restore.at = "off" /\ restore.said = "nothing"
    BY <1>1 DEF BackupInv, Completion
  <2> QED BY <1>1, <2>1 DEF Restoring
<1> QED BY <1>4, <1>5, <1>6, <1>7, <1>8, <1>9 DEF BackupInv

(* A restore leaves the dump and its archive alone.                        *)
LEMMA RestoreMoves ==
  ASSUME BackupInv, UNCHANGED <<moment, kv, uploads, lease, window, dump, archive>>, dump.at = "off",
         restore' \in RestoreState, target' \in [Section -> {0, 1}], Restoring'
  PROVE  BackupInv'
<1>1. BackupTyped' /\ KeyValuesSound'
  BY KeyValuesKept DEF BackupInv, BackupTyped
<1>2. TablesHeld' /\ TablesTried' /\ Completion' /\ HeldIsOneMoment'
  BY DEF BackupInv, TablesHeld, TablesTried, Completion, HeldIsOneMoment
<1> QED BY <1>1, <1>2 DEF BackupInv

(* The steps of a restore.                                                 *)
LEMMA RestoreKeeps ==
  ASSUME BackupInv,
         ValidateArchive \/ RequireEmptyTarget \/ ApplySection \/ ApplyFails \/ RestoreReturns
  PROVE  BackupInv'
<1>1. /\ restore \in RestoreState /\ target \in [Section -> {0, 1}]
      /\ restore.at # "off" => dump.at = "off" /\ Complete(archive)
  BY DEF BackupInv, BackupTyped, Completion, Restoring
<1>2. 1 \in 1..(KvSection + 1)
  BY BackupBounds
<1>3. CASE ValidateArchive
  <2>1. /\ dump.at = "off" /\ restore'.next = 1
        /\ UNCHANGED <<moment, kv, uploads, lease, window, dump, archive, target>>
        /\ \/ Complete(archive) /\ restore'.at = "inspect" /\ restore'.said = "nothing"
           \/ restore'.at = "off" /\ restore'.said = "refused"
        /\ restore' \in RestoreState
    BY <1>2, <1>3 DEF ValidateArchive, RestoreEnds, RestoreState
  <2>2. Restoring'
    BY <2>1 DEF Restoring, Complete
  <2> QED BY <1>1, <2>1, <2>2, RestoreMoves
<1>4. CASE RequireEmptyTarget
  <2>1. UNCHANGED <<moment, kv, uploads, lease, window, dump, archive, target>>
    BY <1>4 DEF RequireEmptyTarget
  <2>2. restore.at = "inspect" /\ restore.next = 1
    BY <1>4 DEF RequireEmptyTarget, BackupInv, Restoring
  <2>3. CASE EmptyTarget /\ restore' = [restore EXCEPT !.at = "apply"]
    <3>1. /\ restore' \in RestoreState /\ restore'.at = "apply" /\ restore'.next = 1
          /\ restore'.said = restore.said
      BY <1>1, <2>2, <2>3 DEF RestoreState
    <3>2. \A x \in Section : target[x] = 0 /\ ~(x < 1)
      BY <2>3, BackupBounds DEF EmptyTarget
    <3>3. Restoring'
      BY <1>1, <2>1, <2>2, <3>1, <3>2 DEF BackupInv, Restoring, Complete
    <3> QED BY <1>1, <2>1, <2>2, <3>1, <3>3, RestoreMoves
  <2>4. CASE RestoreEnds("refused")
    <3>1. restore' \in RestoreState /\ restore'.at = "off" /\ restore'.said = "refused"
      BY <1>2, <2>4 DEF RestoreEnds, RestoreState
    <3>2. Restoring'
      BY <3>1 DEF Restoring
    <3> QED BY <1>1, <2>1, <2>2, <3>1, <3>2, RestoreMoves
  <2> QED BY <1>4, <2>3, <2>4 DEF RequireEmptyTarget
<1>5. CASE ApplySection
  <2>1. /\ restore.at = "apply" /\ restore.next \in Section
        /\ target' = [target EXCEPT ![restore.next] = @ + 1]
        /\ restore' = [restore EXCEPT !.next = @ + 1]
        /\ UNCHANGED <<moment, kv, uploads, lease, window, dump, archive>>
    BY <1>5 DEF ApplySection
  <2>2. restore.next + 1 \in 1..(KvSection + 1)
    BY <2>1, BackupBounds
  <2>3. /\ restore' \in RestoreState /\ restore'.at = "apply" /\ restore'.next = restore.next + 1
        /\ restore'.said = restore.said
    BY <1>1, <2>1, <2>2 DEF RestoreState
  <2>4. \A x \in Section : target[x] = IF x < restore.next THEN 1 ELSE 0
    BY <2>1 DEF BackupInv, Restoring
  <2>5. target[restore.next] = 0
    BY <2>1, <2>4, BackupBounds
  <2>6. /\ target' \in [Section -> {0, 1}]
        /\ \A x \in Section : target'[x] = IF x < restore.next + 1 THEN 1 ELSE 0
    <3>1. target' = [target EXCEPT ![restore.next] = 1]
      BY <2>1, <2>5
    <3> QED BY <1>1, <2>1, <2>4, <3>1, BackupBounds
  <2>7. restore.said # "restored"
    BY <2>1, <2>5 DEF BackupInv, Restoring
  <2>8. Restoring'
    BY <1>1, <2>1, <2>3, <2>6, <2>7 DEF Restoring, Complete
  <2> QED BY <1>1, <2>1, <2>3, <2>6, <2>8, RestoreMoves
<1>6. CASE ApplyFails
  <2>1. /\ restore.at = "apply" /\ restore.next \in Section /\ RestoreEnds("failed")
        /\ target' \in {target, [target EXCEPT ![restore.next] = @ + 1]}
        /\ UNCHANGED <<moment, kv, uploads, lease, window, dump, archive>>
    BY <1>6 DEF ApplyFails
  <2>2. target[restore.next] = 0
    BY <2>1, BackupBounds DEF BackupInv, Restoring
  <2>3. target' \in [Section -> {0, 1}]
    BY <1>1, <2>1, <2>2
  <2>4. restore' \in RestoreState /\ restore'.at = "off" /\ restore'.said = "failed"
    BY <1>2, <2>1 DEF RestoreEnds, RestoreState
  <2>5. Restoring'
    BY <2>4 DEF Restoring
  <2> QED BY <1>1, <2>1, <2>3, <2>4, <2>5, RestoreMoves
<1>7. CASE RestoreReturns
  <2>1. /\ restore.at = "apply" /\ restore.next \notin Section /\ RestoreEnds("restored")
        /\ UNCHANGED <<moment, kv, uploads, lease, window, dump, archive, target>>
    BY <1>7 DEF RestoreReturns
  <2>2. \A x \in Section : x < restore.next
    BY <1>1, <2>1, BackupBounds DEF RestoreState
  <2>3. \A x \in Section : target[x] = 1
    BY <2>1, <2>2 DEF BackupInv, Restoring
  <2>4. restore' \in RestoreState /\ restore'.at = "off" /\ restore'.said = "restored"
    BY <1>2, <2>1 DEF RestoreEnds, RestoreState
  <2>5. Restoring'
    BY <1>1, <2>1, <2>3, <2>4 DEF Restoring, Complete
  <2> QED BY <1>1, <2>1, <2>4, <2>5, RestoreMoves
<1> QED BY <1>3, <1>4, <1>5, <1>6, <1>7

(* The tables of an archive that says it was read under a lease are of one *)
(* moment, its key-value section is the namespace at one listing, and a    *)
(* restore that says so has applied every section of a complete archive    *)
(* once: for any number of tables, keys and writers beside the dump,       *)
(* wherever a dump or a restore ends (internal/backup).                    *)
THEOREM BackupTheorem == BackupSpec => [](BackupTypeOK /\ BackupSound)
<1>1. BackupInv /\ [BackupNext]_backupVars => BackupInv'
  <2> SUFFICES ASSUME BackupInv, [BackupNext]_backupVars PROVE BackupInv'
    OBVIOUS
  <2>1. CASE UNCHANGED backupVars
    <3>1. KeyValuesSound'
      BY <2>1, KeyValuesKept DEF BackupInv, backupVars
    <3> QED
      BY <2>1, <3>1
      DEF BackupInv, backupVars, BackupTyped, TablesHeld, TablesTried, Completion, HeldIsOneMoment,
          Restoring, Complete
  <2> QED
    BY <2>1, WritersKeep, WriteBlobKeeps, BeginDumpKeeps, DumpTableKeeps, KvListKeeps, KvReadKeeps,
       KvCompareKeeps, KvEndsKeeps, DumpEndsKeeps, RestoreKeeps
    DEF BackupNext
<1> QED
  BY <1>1, BackupStarts, BackupPromises, PTL DEF BackupSpec

-----------------------------------------------------------------------------
(* The roll-ups of events.                                                 *)

At(events, h) == {e \in events : e.at = h}

RollTyped ==
  /\ RollTypeOK
  /\ IsFiniteSet(rollEver) /\ Cardinality(rollEver) =< MaxRollEvents
  /\ \A e \in rollEver : e.no =< Cardinality(rollEver) /\ e.at =< rollHour

(* What is cleared for a roll-up stays at nothing until it is filled.      *)
ClearedStays ==
  hourlyAt # -1 =>
    /\ \A h \in HourWindow(hourlyAt) : hourly[h] = 0
    /\ \A e \in rollSettled : e.at \notin HourWindow(hourlyAt)

(* Retention takes the oldest, and a late event is younger than those.     *)
RawIsLast ==
  \A e \in rollEver \ rollRaw : e.at < rollHour - RetainHours /\ \A d \in rollRaw : e.at < d.at

(* What was counted and is not among what was read is older than all of it.*)
ReadIsLast ==
  \A c \in rollCounted : c \in sessionRead \/ \A d \in sessionRead : c.at < d.at

SummaryBounds ==
  /\ summary = NoSummary => rollCounted = {}
  /\ summary # NoSummary => summary.first # -1
  /\ \A c \in rollCounted : summary.first =< c.at /\ c.at =< summary.last

RollInv ==
  /\ RollTyped /\ HourlyExact /\ ClearedStays
  /\ RawIsLast /\ ReadIsLast /\ SummaryBounds /\ SummaryExact

(* The constants of the roll-ups.                                          *)
LEMMA RollBounds ==
  /\ MaxHour \in Nat /\ MaxRollEvents \in Nat /\ MaxLate \in Nat /\ RetainHours \in Nat
  /\ MaxLate < RetainHours /\ RollHours = 0..MaxHour
BY RollAssumption DEF RollHours

(* An event has an hour and a number.                                      *)
LEMMA RollEventsTyped ==
  ASSUME RollTypeOK, NEW e \in rollEver PROVE e.at \in 0..MaxHour /\ e.no \in 1..MaxRollEvents
BY DEF RollTypeOK, RollEvent, RollHours

(* Fewer events count for less.                                            *)
LEMMA FewerEvents ==
  ASSUME NEW S, NEW T, IsFiniteSet(T), S \subseteq T
  PROVE  /\ IsFiniteSet(S) /\ Cardinality(S) \in Nat /\ Cardinality(T) \in Nat
         /\ Cardinality(S) =< Cardinality(T)
BY FS_Subset, FS_CardinalityType

(* The earliest and the latest of some events.                             *)
LEMMA FirstAndLast ==
  ASSUME RollTypeOK, NEW events, events \subseteq rollEver, events # {}
  PROVE  /\ FirstAt(events) \in {e.at : e \in events} /\ \A e \in events : FirstAt(events) =< e.at
         /\ LastAt(events) \in {e.at : e \in events} /\ \A e \in events : LastAt(events) >= e.at
<1> DEFINE ats == {e.at : e \in events}
           left == {MaxHour - a : a \in ats}
<1>1. ats \subseteq 0..MaxHour /\ ats # {}
  BY RollEventsTyped
<1>2. PICK last \in ats : \A a \in ats : a =< last
  BY <1>1, RollBounds, GreatestOf
<1>3. left \subseteq 0..MaxHour /\ left # {}
  <2>1. ASSUME NEW a \in ats PROVE MaxHour - a \in 0..MaxHour
    <3>1. a \in 0..MaxHour
      BY <1>1
    <3> QED BY <3>1, RollBounds
  <2>2. PICK a : a \in ats
    BY <1>1
  <2> HIDE DEF ats
  <2>3. MaxHour - a \in left
    BY <2>2
  <2> QED BY <2>1, <2>3
<1>4. PICK most \in left : \A l \in left : l =< most
  BY <1>3, RollBounds, GreatestOf
<1>5. PICK first \in ats : most = MaxHour - first
  OBVIOUS
<1>6. \A a \in ats : first =< a
  <2> SUFFICES ASSUME NEW a \in ats PROVE first =< a
    OBVIOUS
  <2>1. MaxHour - a =< MaxHour - first
    BY <1>4, <1>5
  <2>2. a \in Int /\ first \in Int
    BY <1>1
  <2> QED BY <2>1, <2>2, RollBounds
<1>7. \A e \in events : e.at \in ats
  OBVIOUS
<1>8. \A e \in events : first =< e.at
  BY <1>6, <1>7
<1>9. \A e \in events : last >= e.at
  <2>1. \A a \in ats : a \in Int
    BY <1>1
  <2> QED BY <1>2, <1>7, <2>1
<1>10. FirstAt(events) \in ats /\ \A e \in events : FirstAt(events) =< e.at
  BY <1>8 DEF FirstAt
<1>11. LastAt(events) \in ats /\ \A e \in events : LastAt(events) >= e.at
  BY <1>9 DEF LastAt
<1> QED BY <1>10, <1>11

(* Nothing is rolled up at first.                                          *)
LEMMA RollStarts == RollInit => RollInv
<1> SUFFICES ASSUME RollInit PROVE RollInv
  OBVIOUS
<1> USE RollBounds DEF RollInit
<1>1. RollTyped
  <2>1. RollTypeOK
    BY DEF RollTypeOK, NoSummary, NotReading
  <2> QED BY <2>1, FS_EmptySet DEF RollTyped
<1>2. HourlyExact
  <2>1. \A h \in RollHours : {e \in {} : e.at = h} = {}
    OBVIOUS
  <2> QED BY <2>1, FS_EmptySet DEF HourlyExact
<1>3. SummaryExact
  BY FS_EmptySet DEF SummaryExact, NoSummary
<1>4. ClearedStays /\ RawIsLast /\ ReadIsLast /\ SummaryBounds
  BY DEF ClearedStays, RawIsLast, ReadIsLast, SummaryBounds
<1> QED BY <1>1, <1>2, <1>3, <1>4 DEF RollInv

(* The clock goes on.                                                      *)
LEMMA NextHourKeeps == ASSUME RollInv, NextHour PROVE RollInv'
<1>1. /\ rollHour < MaxHour /\ rollHour' = rollHour + 1
      /\ UNCHANGED <<rollEver, rollRaw, hourly, hourlyAt, rollSettled, summary, sessionRead, rollCounted>>
  BY DEF NextHour
<1>2. rollHour \in Nat /\ rollHour' \in RollHours
  BY <1>1, RollBounds DEF RollInv, RollTyped, RollTypeOK
<1>3. RollTyped'
  <2>1. RollTypeOK'
    BY <1>1, <1>2 DEF RollInv, RollTyped, RollTypeOK
  <2>2. \A e \in rollEver : e.at =< rollHour'
    BY <1>1, <1>2, RollEventsTyped DEF RollInv, RollTyped
  <2> QED BY <1>1, <2>1, <2>2 DEF RollInv, RollTyped
<1>4. RawIsLast'
  <2>1. \A e \in rollEver : e.at < rollHour - RetainHours => e.at < rollHour' - RetainHours
    BY <1>1, <1>2, RollBounds, RollEventsTyped DEF RollInv, RollTyped
  <2> QED BY <1>1, <2>1 DEF RollInv, RawIsLast
<1>5. HourlyExact' /\ ClearedStays' /\ ReadIsLast' /\ SummaryBounds' /\ SummaryExact'
  BY <1>1 DEF RollInv, HourlyExact, ClearedStays, HourWindow, ReadIsLast, SummaryBounds, SummaryExact
<1> QED BY <1>3, <1>4, <1>5 DEF RollInv

(* An event is stored, maybe late.                                         *)
LEMMA StoreLateKeeps == ASSUME RollInv, StoreLate PROVE RollInv'
<1>1. /\ Cardinality(rollEver) < MaxRollEvents
      /\ UNCHANGED <<rollHour, hourly, hourlyAt, rollSettled, summary, sessionRead, rollCounted>>
  BY DEF StoreLate
<1>2. PICK event :
        /\ event.at \in RollHours /\ event.at =< rollHour /\ rollHour - event.at =< MaxLate
        /\ event = [no |-> Cardinality(rollEver) + 1, at |-> event.at]
        /\ rollEver' = rollEver \cup {event} /\ rollRaw' = rollRaw \cup {event}
  BY DEF StoreLate
<1>3. /\ IsFiniteSet(rollEver) /\ Cardinality(rollEver) \in Nat
      /\ \A e \in rollEver : e.no =< Cardinality(rollEver)
  BY FS_CardinalityType DEF RollInv, RollTyped
<1>4. event \notin rollEver /\ event.no = Cardinality(rollEver) + 1
  BY <1>2, <1>3
<1>5. IsFiniteSet(rollEver') /\ Cardinality(rollEver') = Cardinality(rollEver) + 1
  BY <1>2, <1>3, <1>4, FS_AddElement
<1>6. event \in RollEvent
  <2>1. event.no \in 1..MaxRollEvents
    BY <1>1, <1>3, <1>4, RollBounds
  <2> QED BY <1>2, <1>4, <2>1 DEF RollEvent
<1>7. RollTyped'
  <2>1. RollTypeOK'
    BY <1>1, <1>2, <1>6 DEF RollInv, RollTyped, RollTypeOK
  <2>2. \A e \in rollEver' : e.no =< Cardinality(rollEver') /\ e.at =< rollHour
    <3>1. ASSUME NEW e \in rollEver PROVE e.no =< Cardinality(rollEver') /\ e.at =< rollHour
      BY <1>3, <1>5, RollEventsTyped DEF RollInv, RollTyped
    <3>2. event.no =< Cardinality(rollEver')
      BY <1>3, <1>4, <1>5
    <3> QED BY <1>2, <3>1, <3>2
  <2>3. Cardinality(rollEver') =< MaxRollEvents
    BY <1>1, <1>3, <1>5, RollBounds
  <2> QED BY <1>1, <1>5, <2>1, <2>2, <2>3 DEF RollTyped
<1>8. HourlyExact'
  <2> SUFFICES ASSUME NEW h \in RollHours
               PROVE  /\ hourly[h] =< Cardinality({e \in rollEver' : e.at = h})
                      /\ hourly[h] >= Cardinality({e \in rollSettled : e.at = h})
    BY <1>1 DEF HourlyExact
  <2>1. /\ hourly[h] =< Cardinality({e \in rollEver : e.at = h})
        /\ hourly[h] >= Cardinality({e \in rollSettled : e.at = h})
    BY DEF RollInv, HourlyExact
  <2>2. {e \in rollEver : e.at = h} \subseteq {e \in rollEver' : e.at = h}
    BY <1>2
  <2>3. IsFiniteSet({e \in rollEver' : e.at = h})
    BY <1>5, FewerEvents
  <2>4. /\ Cardinality({e \in rollEver : e.at = h}) =< Cardinality({e \in rollEver' : e.at = h})
        /\ Cardinality({e \in rollEver : e.at = h}) \in Nat
        /\ Cardinality({e \in rollEver' : e.at = h}) \in Nat
    BY <2>2, <2>3, FewerEvents
  <2>5. hourly[h] \in Nat
    BY RollBounds DEF RollInv, RollTyped, RollTypeOK
  <2> QED BY <2>1, <2>4, <2>5
<1>9. RawIsLast'
  <2>1. rollHour \in Int /\ event.at \in Int
    BY <1>2, RollBounds DEF RollInv, RollTyped, RollTypeOK
  <2>2. \A e \in rollEver' \ rollRaw' : e \in rollEver \ rollRaw
    BY <1>2
  <2>3. \A e \in rollEver \ rollRaw : e.at < event.at
    BY <1>2, <2>1, RollBounds, RollEventsTyped DEF RollInv, RollTyped, RawIsLast
  <2> QED BY <1>1, <1>2, <2>2, <2>3 DEF RollInv, RawIsLast
<1>10. ClearedStays' /\ ReadIsLast' /\ SummaryBounds' /\ SummaryExact'
  BY <1>1 DEF RollInv, ClearedStays, HourWindow, ReadIsLast, SummaryBounds, SummaryExact
<1> QED BY <1>7, <1>8, <1>9, <1>10 DEF RollInv

(* Retention.                                                              *)
LEMMA RollCleanupKeeps == ASSUME RollInv, RollCleanup PROVE RollInv'
<1>1. /\ rollRaw' = {e \in rollRaw : rollHour - e.at =< RetainHours}
      /\ UNCHANGED <<rollHour, rollEver, hourly, hourlyAt, rollSettled, summary, sessionRead, rollCounted>>
  BY DEF RollCleanup
<1>2. RollTyped'
  BY <1>1 DEF RollInv, RollTyped, RollTypeOK
<1>3. RawIsLast'
  <2> SUFFICES ASSUME NEW e \in rollEver \ rollRaw'
               PROVE  e.at < rollHour - RetainHours /\ \A d \in rollRaw' : e.at < d.at
    BY <1>1 DEF RawIsLast
  <2>1. \A d \in rollEver : d.at \in Int
    BY RollBounds, RollEventsTyped DEF RollInv, RollTyped
  <2>2. rollHour \in Int /\ rollRaw \subseteq rollEver
    BY RollBounds DEF RollInv, RollTyped, RollTypeOK
  <2>3. e.at < rollHour - RetainHours
    BY <1>1, <2>1, <2>2, RollBounds DEF RollInv, RawIsLast
  <2>4. \A d \in rollRaw' : d.at \in Int /\ rollHour - d.at =< RetainHours
    BY <1>1, <2>1, <2>2
  <2> QED BY <2>1, <2>2, <2>3, <2>4, RollBounds
<1>4. HourlyExact' /\ ClearedStays' /\ ReadIsLast' /\ SummaryBounds' /\ SummaryExact'
  BY <1>1 DEF RollInv, HourlyExact, ClearedStays, HourWindow, ReadIsLast, SummaryBounds, SummaryExact
<1> QED BY <1>2, <1>3, <1>4 DEF RollInv

(* The DELETE of the hourly roll-up.                                       *)
LEMMA ClearWindowKeeps == ASSUME RollInv, ClearWindow PROVE RollInv'
<1>1. /\ hourlyAt = -1 /\ hourlyAt' = rollHour
      /\ hourly' = [h \in RollHours |-> IF h \in HourWindow(rollHour) THEN 0 ELSE hourly[h]]
      /\ rollSettled' = {e \in rollSettled : e.at < rollHour - 2}
      /\ UNCHANGED <<rollHour, rollEver, rollRaw, summary, sessionRead, rollCounted>>
  BY DEF ClearWindow, Cleared
<1>2. /\ rollHour \in 0..MaxHour /\ rollSettled \subseteq rollEver /\ IsFiniteSet(rollEver)
      /\ \A h \in RollHours : hourly[h] \in 0..MaxRollEvents
  BY RollBounds DEF RollInv, RollTyped, RollTypeOK
<1>3. RollTyped'
  <2>1. hourly' \in [RollHours -> 0..MaxRollEvents]
    BY <1>1, <1>2, RollBounds
  <2> QED BY <1>1, <1>2, <2>1, RollBounds DEF RollInv, RollTyped, RollTypeOK
<1>4. \A e \in rollSettled' : e.at \notin HourWindow(rollHour)
  BY <1>1, <1>2, RollEventsTyped DEF HourWindow, RollInv, RollTyped
<1>5. ClearedStays'
  <2>1. \A h \in HourWindow(rollHour) : hourly'[h] = 0
    BY <1>1 DEF HourWindow
  <2> QED BY <1>1, <1>4, <2>1 DEF ClearedStays, HourWindow
<1>6. HourlyExact'
  <2> SUFFICES ASSUME NEW h \in RollHours
               PROVE  /\ hourly'[h] =< Cardinality(At(rollEver, h))
                      /\ hourly'[h] >= Cardinality(At(rollSettled', h))
    BY <1>1 DEF HourlyExact, At
  <2>1. /\ hourly[h] =< Cardinality(At(rollEver, h))
        /\ hourly[h] >= Cardinality(At(rollSettled, h))
    BY DEF RollInv, HourlyExact, At
  <2>2. /\ At(rollEver, h) \subseteq rollEver /\ At(rollSettled, h) \subseteq rollEver
        /\ At(rollSettled', h) \subseteq At(rollSettled, h)
    BY <1>1, <1>2 DEF At
  <2>3. /\ Cardinality(At(rollEver, h)) \in Nat /\ IsFiniteSet(At(rollSettled, h))
    BY <1>2, <2>2, FewerEvents
  <2>4. /\ Cardinality(At(rollSettled, h)) \in Nat /\ Cardinality(At(rollSettled', h)) \in Nat
        /\ Cardinality(At(rollSettled', h)) =< Cardinality(At(rollSettled, h))
    BY <2>2, <2>3, FewerEvents
  <2>5. CASE h \in HourWindow(rollHour)
    <3>1. At(rollSettled', h) = {}
      BY <1>4, <2>5 DEF At
    <3>2. hourly'[h] = 0 /\ Cardinality(At(rollSettled', h)) = 0
      BY <1>1, <2>5, <3>1, FS_EmptySet
    <3> QED BY <2>3, <3>2
  <2>6. CASE h \notin HourWindow(rollHour)
    <3>1. hourly'[h] = hourly[h]
      BY <1>1, <2>6
    <3> QED BY <1>2, <2>1, <2>3, <2>4, <3>1
  <2> QED BY <2>5, <2>6
<1>7. RawIsLast' /\ ReadIsLast' /\ SummaryBounds' /\ SummaryExact'
  BY <1>1 DEF RollInv, RawIsLast, ReadIsLast, SummaryBounds, SummaryExact
<1> QED BY <1>3, <1>5, <1>6, <1>7 DEF RollInv

(* The window holds nothing when it is filled, so it holds what there is.  *)
LEMMA FillWindowKeeps == ASSUME RollInv, FillWindow PROVE RollInv'
<1>1. /\ hourlyAt # -1 /\ hourlyAt' = -1
      /\ hourly' = [h \in RollHours |-> IF h \in HourWindow(hourlyAt)
                                        THEN hourly[h] + Cardinality(At(rollRaw, h)) ELSE hourly[h]]
      /\ rollSettled' = rollSettled \cup {e \in rollRaw : e.at >= hourlyAt - 2 /\ e.at =< hourlyAt}
      /\ UNCHANGED <<rollHour, rollEver, rollRaw, summary, sessionRead, rollCounted>>
  BY DEF FillWindow, Filled, At
<1>2. /\ rollSettled \subseteq rollEver /\ rollRaw \subseteq rollEver /\ IsFiniteSet(rollEver)
      /\ Cardinality(rollEver) =< MaxRollEvents /\ hourlyAt \in RollHours
      /\ \A h \in RollHours : hourly[h] \in 0..MaxRollEvents
  BY <1>1 DEF RollInv, RollTyped, RollTypeOK
<1>3. /\ \A h \in HourWindow(hourlyAt) : hourly[h] = 0
      /\ \A e \in rollSettled : e.at \notin HourWindow(hourlyAt)
  BY <1>1 DEF RollInv, ClearedStays
<1>4. \A h \in RollHours :
        /\ Cardinality(At(rollRaw, h)) \in Nat
        /\ Cardinality(At(rollRaw, h)) =< Cardinality(At(rollEver, h))
        /\ Cardinality(At(rollEver, h)) =< Cardinality(rollEver)
        /\ Cardinality(At(rollEver, h)) \in Nat /\ Cardinality(rollEver) \in Nat
  <2> SUFFICES ASSUME NEW h \in RollHours
               PROVE  /\ Cardinality(At(rollRaw, h)) \in Nat
                      /\ Cardinality(At(rollRaw, h)) =< Cardinality(At(rollEver, h))
                      /\ Cardinality(At(rollEver, h)) =< Cardinality(rollEver)
                      /\ Cardinality(At(rollEver, h)) \in Nat /\ Cardinality(rollEver) \in Nat
    OBVIOUS
  <2>1. At(rollRaw, h) \subseteq At(rollEver, h) /\ At(rollEver, h) \subseteq rollEver
    BY <1>2 DEF At
  <2>2. IsFiniteSet(At(rollEver, h))
    BY <1>2, <2>1, FewerEvents
  <2> QED BY <1>2, <2>1, <2>2, FewerEvents
<1>5. \A h \in RollHours : hourly'[h] = IF h \in HourWindow(hourlyAt)
                                        THEN Cardinality(At(rollRaw, h)) ELSE hourly[h]
  BY <1>1, <1>3, <1>4
<1>6. RollTyped'
  <2>1. \A h \in RollHours : hourly'[h] \in 0..MaxRollEvents
    <3> SUFFICES ASSUME NEW h \in RollHours PROVE hourly'[h] \in 0..MaxRollEvents
      OBVIOUS
    <3>1. CASE h \in HourWindow(hourlyAt)
      <4>1. hourly'[h] = Cardinality(At(rollRaw, h))
        BY <3>1, <1>5
      <4>2. /\ Cardinality(At(rollRaw, h)) \in Nat
            /\ Cardinality(At(rollRaw, h)) =< Cardinality(rollEver)
        BY <1>4
      <4>3. MaxRollEvents \in Nat /\ Cardinality(rollEver) =< MaxRollEvents
        BY <1>2, RollBounds
      <4>4. Cardinality(rollEver) \in Nat
        BY <1>4
      <4> HIDE DEF At
      <4> QED BY <4>1, <4>2, <4>3, <4>4
    <3>2. CASE h \notin HourWindow(hourlyAt)
      BY <3>2, <1>5, <1>2
    <3> QED BY <3>1, <3>2
  <2>2. hourly' \in [RollHours -> 0..MaxRollEvents]
    BY <1>1, <2>1
  <2> QED BY <1>1, <1>2, <2>2 DEF RollInv, RollTyped, RollTypeOK
<1>7. HourlyExact'
  <2> SUFFICES ASSUME NEW h \in RollHours
               PROVE  /\ hourly'[h] =< Cardinality(At(rollEver, h))
                      /\ hourly'[h] >= Cardinality(At(rollSettled', h))
    BY <1>1 DEF HourlyExact, At
  <2>1. CASE h \in HourWindow(hourlyAt)
    <3>1. At(rollSettled', h) \subseteq At(rollRaw, h)
      BY <1>1, <1>3, <2>1 DEF At
    <3>2. At(rollRaw, h) \subseteq rollEver
      BY <1>2 DEF At
    <3>3. IsFiniteSet(At(rollRaw, h))
      BY <1>2, <3>2, FewerEvents
    <3>4. /\ Cardinality(At(rollSettled', h)) \in Nat
          /\ Cardinality(At(rollSettled', h)) =< Cardinality(At(rollRaw, h))
      BY <3>1, <3>3, FewerEvents
    <3> QED BY <1>4, <1>5, <2>1, <3>4
  <2>2. CASE h \notin HourWindow(hourlyAt)
    <3>1. \A e \in rollRaw : e.at = h => ~(e.at >= hourlyAt - 2 /\ e.at =< hourlyAt)
      BY <1>2, <2>2, RollBounds DEF HourWindow
    <3>2. At(rollSettled', h) = At(rollSettled, h)
      BY <1>1, <3>1 DEF At
    <3> QED BY <1>5, <2>2, <3>2 DEF RollInv, HourlyExact, At
  <2> QED BY <2>1, <2>2
<1>8. ClearedStays'
  BY <1>1 DEF ClearedStays
<1>9. RawIsLast' /\ ReadIsLast' /\ SummaryBounds' /\ SummaryExact'
  BY <1>1 DEF RollInv, RawIsLast, ReadIsLast, SummaryBounds, SummaryExact
<1> QED BY <1>6, <1>7, <1>8, <1>9 DEF RollInv

(* A roll-up that fails, and the read of a session.                        *)
LEMMA SmallStepsKeep == ASSUME RollInv, FailWindow \/ ReadRawSession PROVE RollInv'
<1>1. CASE FailWindow
  <2>1. /\ hourlyAt' = -1
        /\ UNCHANGED <<rollHour, rollEver, rollRaw, hourly, rollSettled, summary, sessionRead, rollCounted>>
    BY <1>1 DEF FailWindow
  <2> QED
    BY <2>1 DEF RollInv, RollTyped, RollTypeOK, HourlyExact, ClearedStays, RawIsLast, ReadIsLast,
                SummaryBounds, SummaryExact
<1>2. CASE ReadRawSession
  <2>1. /\ sessionRead' = rollRaw
        /\ UNCHANGED <<rollHour, rollEver, rollRaw, hourly, hourlyAt, rollSettled, summary, rollCounted>>
    BY <1>2 DEF ReadRawSession
  <2>2. RollTyped'
    BY <2>1 DEF RollInv, RollTyped, RollTypeOK
  <2>3. ReadIsLast'
    BY <2>1 DEF RollInv, RollTyped, RollTypeOK, RawIsLast, ReadIsLast
  <2>4. HourlyExact' /\ ClearedStays' /\ RawIsLast' /\ SummaryBounds' /\ SummaryExact'
    BY <2>1 DEF RollInv, HourlyExact, ClearedStays, HourWindow, RawIsLast, SummaryBounds, SummaryExact
  <2> QED BY <2>2, <2>3, <2>4 DEF RollInv
<1> QED BY <1>1, <1>2

(* What was counted before is among what was read, or the row is kept and  *)
(* only what is newer than all of that is added.                           *)
LEMMA WriteSessionKeeps == ASSUME RollInv, WriteSession PROVE RollInv'
<1>1. /\ sessionRead # {} /\ sessionRead' = {}
      /\ UNCHANGED <<rollHour, rollEver, rollRaw, hourly, hourlyAt, rollSettled>>
  BY DEF WriteSession, NotReading
<1>2. /\ RollTypeOK /\ IsFiniteSet(rollEver) /\ sessionRead \subseteq rollEver
      /\ rollCounted \subseteq rollEver
  BY DEF RollInv, RollTyped, RollTypeOK
<1>3. \A e \in rollEver : e.at \in 0..MaxHour
  BY <1>2, RollEventsTyped
<1>4. /\ summary.first \in -1..MaxHour /\ summary.last \in -1..MaxHour
      /\ summary.events = Cardinality(rollCounted)
  BY <1>2 DEF RollTypeOK, RollInv, SummaryExact
<1>5. PICK first : first = FirstAt(sessionRead)
  OBVIOUS
<1>6. PICK last : last = LastAt(sessionRead)
  OBVIOUS
<1>7. /\ first \in 0..MaxHour /\ last \in 0..MaxHour
      /\ \A e \in sessionRead : first =< e.at /\ e.at =< last
      /\ \E e \in sessionRead : e.at = first
  BY <1>1, <1>2, <1>3, <1>5, <1>6, FirstAndLast
<1>8. ASSUME NEW counted \in SUBSET rollEver, rollCounted' = counted,
             NEW from \in -1..MaxHour, NEW to \in -1..MaxHour,
             from # -1,
             \A c \in counted : from =< c.at /\ c.at =< to,
             summary' = [first |-> from, last |-> to, events |-> Cardinality(counted)]
      PROVE  RollInv'
  <2>1. /\ Cardinality(counted) \in Nat /\ Cardinality(counted) =< Cardinality(rollEver)
        /\ Cardinality(rollEver) \in Nat
    BY <1>2, FewerEvents
  <2>2. Cardinality(counted) \in 0..MaxRollEvents
    BY <2>1, RollBounds DEF RollInv, RollTyped
  <2>3. RollTypeOK'
    BY <1>1, <1>2, <1>8, <2>2 DEF RollTypeOK
  <2>4. RollTyped'
    BY <1>1, <2>3 DEF RollInv, RollTyped
  <2>5. ReadIsLast'
    BY <1>1 DEF ReadIsLast
  <2>6. SummaryBounds' /\ SummaryExact'
    BY <1>8 DEF SummaryBounds, SummaryExact, NoSummary
  <2>7. HourlyExact' /\ ClearedStays' /\ RawIsLast'
    BY <1>1 DEF RollInv, HourlyExact, ClearedStays, HourWindow, RawIsLast
  <2> QED BY <2>4, <2>5, <2>6, <2>7 DEF RollInv
<1>9. CASE UNCHANGED <<summary, rollCounted>>
  <2>1. RollTyped'
    BY <1>1, <1>9 DEF RollInv, RollTyped, RollTypeOK
  <2>2. ReadIsLast'
    BY <1>1 DEF ReadIsLast
  <2>3. HourlyExact' /\ ClearedStays' /\ RawIsLast' /\ SummaryBounds' /\ SummaryExact'
    BY <1>1, <1>9 DEF RollInv, HourlyExact, ClearedStays, HourWindow, RawIsLast, SummaryBounds, SummaryExact
  <2> QED BY <2>1, <2>2, <2>3 DEF RollInv
<1>10. CASE /\ ~EntryExpired
            /\ summary' = [first |-> FirstAt(sessionRead), last |-> LastAt(sessionRead), events |-> Cardinality(sessionRead)]
            /\ rollCounted' = rollCounted \cup sessionRead
  <2>1. rollCounted \subseteq sessionRead
    <3>1. CASE summary = NoSummary
      BY <3>1 DEF RollInv, SummaryBounds
    <3>2. CASE summary # NoSummary
      <4>1. ~(summary.first < first)
        BY <1>5, <1>10, <3>2 DEF EntryExpired
      <4>2. ASSUME NEW c \in rollCounted PROVE c \in sessionRead
        <5>1. c.at \in Int /\ summary.first =< c.at
          BY <1>2, <1>3 DEF RollInv, SummaryBounds
        <5>2. first =< c.at
          BY <1>4, <1>7, <4>1, <5>1
        <5> QED BY <1>7, <5>1, <5>2 DEF RollInv, ReadIsLast
      <4> QED BY <4>2
    <3> QED BY <3>1, <3>2
  <2>2. rollCounted' = sessionRead
    BY <1>10, <2>1
  <2>3. summary' = [first |-> first, last |-> last, events |-> Cardinality(sessionRead)]
    BY <1>5, <1>6, <1>10
  <2>4. first \in -1..MaxHour /\ last \in -1..MaxHour /\ first # -1
    BY <1>7, RollBounds
  <2> QED BY <1>2, <1>7, <1>8, <2>2, <2>3, <2>4
<1>11. CASE /\ EntryExpired /\ Newer # {}
            /\ summary' = [first |-> summary.first, last |-> LastAt(sessionRead), events |-> summary.events + Cardinality(Newer)]
            /\ rollCounted' = rollCounted \cup Newer
  <2>1. summary # NoSummary /\ summary.first < first
    BY <1>5, <1>11 DEF EntryExpired
  <2>2. PICK newer \in SUBSET sessionRead : newer = Newer
    BY DEF Newer
  <2>3. newer # {} /\ \A e \in newer : e.at > summary.last
    BY <1>11, <2>2 DEF Newer
  <2>4. PICK counted : counted = rollCounted \cup newer
    OBVIOUS
  <2>5. rollCounted \cap newer = {}
    <3>1. \A c \in rollCounted : c.at =< summary.last /\ c.at \in Int
      BY <1>2, <1>3 DEF RollInv, SummaryBounds
    <3> QED BY <1>4, <2>3, <3>1
  <2>6. Cardinality(counted) = Cardinality(rollCounted) + Cardinality(newer)
    <3>1. IsFiniteSet(rollCounted) /\ IsFiniteSet(newer)
      BY <1>2, FewerEvents
    <3>2. Cardinality(rollCounted) \in Nat /\ Cardinality(newer) \in Nat
      BY <3>1, FS_CardinalityType
    <3>3. Cardinality(counted) =
            Cardinality(rollCounted) + Cardinality(newer) - Cardinality(rollCounted \cap newer)
      BY <2>4, <3>1, FS_Union
    <3>4. Cardinality(rollCounted \cap newer) = 0
      BY <2>5, FS_EmptySet
    <3> QED BY <3>2, <3>3, <3>4
  <2>7. summary' = [first |-> summary.first, last |-> last, events |-> Cardinality(counted)]
    BY <1>4, <1>6, <1>11, <2>2, <2>6
  <2>8. summary.first # -1
    BY <2>1 DEF RollInv, SummaryBounds
  <2>9. ASSUME NEW c \in counted PROVE summary.first =< c.at /\ c.at =< last
    <3>1. c.at \in Int
      BY <1>2, <1>3, <2>4
    <3>2. CASE c \in newer
      BY <1>4, <1>7, <2>1, <3>1, <3>2
    <3>3. CASE c \in rollCounted
      <4>1. PICK e \in newer : e.at > summary.last /\ e.at =< last /\ e.at \in Int
        BY <1>2, <1>3, <1>7, <2>3
      <4>2. summary.first =< c.at /\ c.at =< summary.last
        BY <3>3 DEF RollInv, SummaryBounds
      <4> QED BY <1>4, <1>7, <3>1, <4>1, <4>2
    <3> QED BY <2>4, <3>2, <3>3
  <2>10. counted \in SUBSET rollEver /\ rollCounted' = counted /\ last \in -1..MaxHour
    BY <1>2, <1>7, <1>11, <2>2, <2>4
  <2> QED BY <1>4, <1>8, <2>7, <2>8, <2>9, <2>10
<1> QED BY <1>9, <1>10, <1>11 DEF WriteSession

(* An hour's row counts no event twice and keeps what a successful roll-up *)
(* has counted, a session's row counts each event once and what retention  *)
(* has deleted too: for any number of hours and events and any retention   *)
(* that is longer than events are late (rollups.go).                       *)
THEOREM RollupTheorem == RollSpec => [](RollTypeOK /\ RollupsSound)
<1>1. RollInv /\ [RollNext]_rollVars => RollInv'
  <2> SUFFICES ASSUME RollInv, [RollNext]_rollVars PROVE RollInv'
    OBVIOUS
  <2>1. CASE UNCHANGED rollVars
    BY <2>1
    DEF rollVars, RollInv, RollTyped, RollTypeOK, HourlyExact, ClearedStays, HourWindow, RawIsLast,
        ReadIsLast, SummaryBounds, SummaryExact
  <2> QED
    BY <2>1, NextHourKeeps, StoreLateKeeps, RollCleanupKeeps, ClearWindowKeeps, FillWindowKeeps,
       SmallStepsKeep, WriteSessionKeeps
    DEF RollNext
<1>2. RollInv => RollTypeOK /\ RollupsSound
  BY DEF RollInv, RollTyped, RollupsSound
<1> QED
  BY <1>1, <1>2, RollStarts, PTL DEF RollSpec

-----------------------------------------------------------------------------
(* The audit chain.  A chain begins with another.                          *)
BeginsWith(long, short) ==
  Len(short) =< Len(long) /\ \A i \in 1..Len(short) : short[i] = long[i]

AuditChains == Seq(1..MaxRecords)

(* The chain an append has to go on from: that of the last row.            *)
IsTop(chain) ==
  \/ rows = {} /\ chain = <<>>
  \/ \E r \in rows : r.chain = chain /\ \A q \in rows : q.seq =< r.seq

HasRow(chain) == chain = <<>> \/ \E r \in rows : r.chain = chain

AuditTyped ==
  /\ IsFiniteSet(rows)
  /\ \A r \in rows : r = Row(r.chain) /\ r.chain \in AuditChains /\ r.chain # <<>>
  /\ head \in [loaded : BOOLEAN, chain : AuditChains]
  /\ inserting \in AuditChains /\ anchor \in AuditChains
  /\ adrift \in [chain : AuditChains, passed : BOOLEAN]
  /\ adrift.passed => adrift.chain # NoRow
  /\ verify \in [at : {"idle", "watermark", "walking", "intact", "broken"}, through : Nat,
                 chain : AuditChains, anchor : AuditChains, forked : BOOLEAN]
  /\ recorded \in 0..MaxRecords /\ landedLate \in BOOLEAN
  /\ \A r \in rows : Len(r.chain) =< recorded
  /\ \A chain \in {head.chain, inserting, adrift.chain} : Len(chain) =< recorded

(* Every row is in the chain of every later one, and no row is missing.    *)
OneChain ==
  /\ \A r, q \in rows : r.seq =< q.seq => BeginsWith(q.chain, r.chain)
  /\ \A r \in rows : \A i \in 1..r.seq : \E q \in rows : q.seq = i

(* A head in memory is that of the table, and so was the one an insert     *)
(* that is adrift goes on from while nobody has read the head since.       *)
HeadIsTop ==
  /\ head.loaded => IsTop(head.chain)
  /\ inserting # NoRow =>
       head.loaded /\ \E n \in 1..MaxRecords : inserting = Append(head.chain, n)
  /\ adrift # NothingAdrift /\ ~adrift.passed =>
       /\ ~head.loaded /\ inserting = NoRow
       /\ \E chain \in AuditChains, n \in 1..MaxRecords :
            IsTop(chain) /\ adrift.chain = Append(chain, n)

(* A verification walks rows up to one that is there, and its checkpoint   *)
(* lies before that.                                                       *)
WalksRows ==
  /\ verify.at # "broken"
  /\ verify.at \in {"watermark", "walking"} =>
       HasRow(verify.chain) /\ (verify.through = 0 \/ \E r \in rows : r.seq = verify.through)
  /\ verify.at = "watermark" => inserting = NoRow /\ Len(anchor) =< verify.through
  /\ verify.at = "walking" => HasRow(verify.anchor) /\ Len(verify.anchor) =< verify.through

(* What was forked when it began has not been walked past unseen: one of   *)
(* the two rows is yet to come, or is not in the chain walked.             *)
ToWalk(r) ==
  r.seq =< verify.through /\ (r.seq > Len(verify.chain) \/ BeginsWith(verify.chain, r.chain))

ForkIsAhead ==
  /\ verify.at \in {"watermark", "walking"} /\ verify.forked =>
       \E r, q \in rows :
         r.seq =< q.seq /\ ~BeginsWith(q.chain, r.chain) /\ ToWalk(r) /\ ToWalk(q)
  /\ verify.at = "intact" => ~verify.forked

AuditInv ==
  /\ AuditTyped
  /\ rows = {} => head.chain = <<>>
  /\ ~landedLate => OneChain /\ HeadIsTop /\ HasRow(anchor) /\ WalksRows
  /\ ForkIsAhead

(* The beginning of a chain is what SubSeq cuts off it.                    *)
LEMMA BeginIsSubSeq ==
  ASSUME NEW s \in AuditChains, NEW t \in AuditChains, Len(s) =< Len(t)
  PROVE  s = SubSeq(t, 1, Len(s)) <=> BeginsWith(t, s)
<1>1. /\ Len(s) \in Nat /\ Len(t) \in Nat
      /\ \A i \in 1..Len(t) : t[i] \in 1..MaxRecords
  BY LenProperties DEF AuditChains
<1>2. /\ SubSeq(t, 1, Len(s)) \in AuditChains
      /\ Len(SubSeq(t, 1, Len(s))) = IF 1 =< Len(s) THEN Len(s) - 1 + 1 ELSE 0
      /\ \A i \in 1..Len(s) - 1 + 1 : SubSeq(t, 1, Len(s))[i] = t[1 + i - 1]
  <2>1. \A i \in 1..Len(s) : t[i] \in 1..MaxRecords
    BY <1>1
  <2> HIDE DEF AuditChains
  <2> QED BY <1>1, <2>1, SubSeqProperties DEF AuditChains
<1>3. /\ Len(SubSeq(t, 1, Len(s))) = Len(s)
      /\ \A i \in 1..Len(s) : SubSeq(t, 1, Len(s))[i] = t[i]
  <2> DEFINE cut == SubSeq(t, 1, Len(s))
  <2> HIDE DEF cut
  <2>1. /\ Len(cut) = IF 1 =< Len(s) THEN Len(s) - 1 + 1 ELSE 0
        /\ \A i \in 1..Len(s) - 1 + 1 : cut[i] = t[1 + i - 1]
    BY <1>2 DEF cut
  <2>2. Len(cut) = Len(s) /\ \A i \in 1..Len(s) : cut[i] = t[i]
    BY <1>1, <2>1
  <2> QED BY <2>2 DEF cut
<1>4. ASSUME s = SubSeq(t, 1, Len(s)) PROVE BeginsWith(t, s)
  BY <1>3, <1>4 DEF BeginsWith
<1>5. ASSUME BeginsWith(t, s) PROVE s = SubSeq(t, 1, Len(s))
  <2> DEFINE cut == SubSeq(t, 1, Len(s))
  <2>1. cut \in AuditChains /\ Len(cut) = Len(s) /\ \A i \in 1..Len(s) : cut[i] = s[i]
    BY <1>2, <1>3, <1>5 DEF BeginsWith
  <2> HIDE DEF cut
  <2>2. s = cut
    BY <2>1, SeqEqual DEF AuditChains
  <2> QED BY <2>2 DEF cut
<1> QED BY <1>4, <1>5

(* Two chains of one length that begin with each other are the same.       *)
LEMMA BeginOfOneLength ==
  ASSUME NEW s \in AuditChains, NEW t \in AuditChains, Len(s) = Len(t), BeginsWith(t, s)
  PROVE  s = t
BY SeqEqual DEF AuditChains, BeginsWith

LEMMA ChainLength ==
  ASSUME NEW s \in AuditChains
  PROVE  Len(s) \in Nat /\ (s # <<>> => Len(s) > 0) /\ Len(<<>>) = 0 /\ <<>> \in AuditChains
BY EmptySeq, LenProperties DEF AuditChains

(* A chain with one record more.                                           *)
LEMMA AppendBegins ==
  ASSUME NEW s \in AuditChains, NEW n \in 1..MaxRecords
  PROVE  /\ Append(s, n) \in AuditChains /\ Append(s, n) # <<>>
         /\ Len(Append(s, n)) = Len(s) + 1 /\ BeginsWith(Append(s, n), s)
<1>1. /\ Append(s, n) \in AuditChains /\ Append(s, n) # <<>>
      /\ Len(Append(s, n)) = Len(s) + 1
      /\ \A i \in 1..Len(s) : Append(s, n)[i] = s[i]
  BY AppendProperties DEF AuditChains
<1>2. Len(s) \in Nat
  BY ChainLength
<1> QED BY <1>1, <1>2 DEF BeginsWith

LEMMA BeginTwice ==
  ASSUME NEW s \in AuditChains, NEW t \in AuditChains, NEW u \in AuditChains,
         BeginsWith(t, s), BeginsWith(u, t)
  PROVE  BeginsWith(u, s)
BY ChainLength DEF BeginsWith

LEMMA BeginItself ==
  ASSUME NEW s \in AuditChains PROVE BeginsWith(s, s) /\ BeginsWith(s, <<>>)
BY ChainLength DEF BeginsWith

(* Two beginnings of one chain: the shorter begins the other.              *)
LEMMA BeginsOfOne ==
  ASSUME NEW s \in AuditChains, NEW t \in AuditChains, NEW u \in AuditChains,
         BeginsWith(u, s), BeginsWith(u, t), Len(s) =< Len(t)
  PROVE  BeginsWith(t, s)
BY ChainLength DEF BeginsWith

LEMMA AuditInitially == AuditInit => AuditInv
<1> SUFFICES ASSUME AuditInit PROVE AuditInv
  OBVIOUS
<1>1. <<>> \in AuditChains /\ Len(<<>>) = 0
  BY EmptySeq DEF AuditChains
<1>2. IsFiniteSet({})
  BY FS_EmptySet
<1>3. AuditTyped
  <2> USE DEF AuditInit, NotLoaded, NoRow, NothingAdrift, NoVerify
  <2>1. /\ IsFiniteSet(rows) /\ rows = {}
        /\ head \in [loaded : BOOLEAN, chain : AuditChains]
        /\ inserting \in AuditChains /\ anchor \in AuditChains
        /\ recorded \in 0..MaxRecords /\ landedLate \in BOOLEAN
    <3>1. 0 \in 0..MaxRecords
      BY AuditAssumption
    <3>2. head \in [loaded : BOOLEAN, chain : AuditChains]
      BY <1>1
    <3> QED BY <1>1, <1>2, <3>1, <3>2
  <2>2. adrift \in [chain : AuditChains, passed : BOOLEAN] /\ ~adrift.passed
    BY <1>1
  <2>3. verify \in [at : {"idle", "watermark", "walking", "intact", "broken"}, through : Nat,
                   chain : AuditChains, anchor : AuditChains, forked : BOOLEAN]
    BY <1>1
  <2>4. recorded = 0 /\ head.chain = <<>> /\ inserting = <<>> /\ adrift.chain = <<>>
    OBVIOUS
  <2>5. \A chain \in {head.chain, inserting, adrift.chain} : Len(chain) =< recorded
    BY <1>1, <2>4
  <2> QED BY <2>1, <2>2, <2>3, <2>5 DEF AuditTyped
<1> QED
  BY <1>1, <1>3 DEF AuditInit, AuditInv, NotLoaded, NoRow, NothingAdrift, NoVerify, OneChain,
     HeadIsTop, HasRow, WalksRows, ForkIsAhead, IsTop

(* The highest sequence number is that of a row, if there is a row.        *)
LEMMA WatermarkIsHighest ==
  ASSUME AuditTyped
  PROVE  /\ Watermark \in Nat
         /\ Watermark \in {r.seq : r \in rows} \cup {0}
         /\ \A r \in rows : r.seq =< Watermark
<1> DEFINE marks == {r.seq : r \in rows} \cup {0}
<1>1. \A r \in rows : r.seq = Len(r.chain) /\ r.seq \in Nat
  BY ChainLength DEF AuditTyped, Row
<1>2. marks \subseteq Nat
  BY <1>1
<1>3. MaxRecords \in Nat /\ \A r \in rows : r.seq =< MaxRecords
  BY <1>1, AuditAssumption DEF AuditTyped
<1>4. marks \subseteq 0..MaxRecords /\ 0 \in marks
  BY <1>1, <1>3
<1>5. PICK mark \in marks : \A other \in marks : other =< mark
  <2> HIDE DEF marks
  <2> QED BY <1>3, <1>4, GreatestOf
<1>6. \A r \in rows : mark >= r.seq
  BY <1>2, <1>5
<1> QED BY <1>2, <1>6, <1>1 DEF Watermark

(* What any step does keeps its type.                                      *)
LEMMA AuditTypedStep == AuditTyped /\ [AuditNext]_auditVars => AuditTyped'
<1> SUFFICES ASSUME AuditTyped, [AuditNext]_auditVars PROVE AuditTyped'
  OBVIOUS
<1>1. recorded \in Nat /\ MaxRecords \in Nat /\ recorded =< MaxRecords
  BY AuditAssumption DEF AuditTyped
<1>2. /\ <<>> \in AuditChains /\ Len(<<>>) = 0
      /\ NotLoaded \in [loaded : BOOLEAN, chain : AuditChains]
      /\ NothingAdrift \in [chain : AuditChains, passed : BOOLEAN]
      /\ NothingAdrift.chain = <<>> /\ ~NothingAdrift.passed /\ NotLoaded.chain = <<>>
      /\ NoVerify \in [at : {"idle", "watermark", "walking", "intact", "broken"}, through : Nat,
                       chain : AuditChains, anchor : AuditChains, forked : BOOLEAN]
  BY EmptySeq DEF AuditChains, NotLoaded, NothingAdrift, NoRow, NoVerify
<1>3. ASSUME NEW chain \in AuditChains, chain # <<>>, Len(chain) =< recorded,
             rows' = rows \cup {Row(chain)}, recorded' = recorded
      PROVE  /\ IsFiniteSet(rows')
             /\ \A r \in rows' : r = Row(r.chain) /\ r.chain \in AuditChains /\ r.chain # <<>>
             /\ \A r \in rows' : Len(r.chain) =< recorded'
  <2>1. IsFiniteSet(rows')
    BY <1>3, FS_AddElement DEF AuditTyped
  <2>2. Row(chain).chain = chain
    BY DEF Row
  <2> QED BY <1>3, <2>1, <2>2 DEF AuditTyped
<1>4. ASSUME NEW chain \in Chains PROVE chain \in AuditChains /\ Len(chain) =< recorded
  BY DEF Chains, AuditTyped
<1>5. ASSUME InsertUnknown, recorded' = recorded
      PROVE  /\ IsFiniteSet(rows')
             /\ \A r \in rows' : r = Row(r.chain) /\ r.chain \in AuditChains /\ r.chain # <<>>
             /\ \A r \in rows' : Len(r.chain) =< recorded'
             /\ adrift' \in [chain : AuditChains, passed : BOOLEAN]
             /\ Len(adrift'.chain) =< recorded' /\ (adrift'.passed => adrift'.chain # NoRow)
  <2>1. inserting \in AuditChains /\ inserting # <<>> /\ Len(inserting) =< recorded
    BY <1>5 DEF InsertUnknown, NoRow, AuditTyped
  <2>2. CASE rows' = rows \cup {Row(inserting)} /\ UNCHANGED adrift
    BY <1>3, <1>5, <2>1, <2>2 DEF AuditTyped
  <2>3. CASE UNCHANGED <<rows, adrift>>
    BY <1>5, <2>3 DEF AuditTyped
  <2>4. CASE UNCHANGED rows /\ adrift' = [chain |-> inserting, passed |-> FALSE]
    BY <1>5, <2>1, <2>4 DEF AuditTyped
  <2> QED BY <1>5, <2>2, <2>3, <2>4 DEF InsertUnknown
<1>6. ASSUME NEW chain \in Chains, HeadIs(chain)
      PROVE  /\ head' \in [loaded : BOOLEAN, chain : AuditChains] /\ head'.chain = chain
             /\ adrift' \in [chain : AuditChains, passed : BOOLEAN]
             /\ adrift'.chain = adrift.chain /\ (adrift'.passed => adrift'.chain # NoRow)
  BY <1>4, <1>6 DEF HeadIs, AuditTyped
<1>10. CASE BeginRecord
  <2>1. PICK chain \in Chains : HeadIs(chain) /\ inserting' = Append(chain, recorded + 1)
    BY <1>10 DEF BeginRecord
  <2>2. recorded + 1 \in 1..MaxRecords /\ recorded' = recorded + 1
        /\ UNCHANGED <<rows, anchor, verify, landedLate>>
    BY <1>1, <1>10 DEF BeginRecord, AuditTyped
  <2>3. inserting' \in AuditChains /\ Len(inserting') = Len(chain) + 1 /\ Len(chain) \in Nat
    BY <2>1, <2>2, <1>4, AppendBegins, ChainLength
  <2>4. \A x \in AuditChains : Len(x) \in Nat
    BY ChainLength
  <2>5. Len(chain) =< recorded /\ chain \in AuditChains
    BY <1>4
  <2>6. /\ \A r \in rows : Len(r.chain) =< recorded'
        /\ Len(head'.chain) =< recorded' /\ Len(inserting') =< recorded' /\ Len(adrift'.chain) =< recorded'
    BY <1>1, <1>6, <2>1, <2>2, <2>3, <2>4, <2>5 DEF AuditTyped
  <2> QED BY <1>1, <1>6, <2>1, <2>2, <2>3, <2>6 DEF AuditTyped
<1>11. CASE RecordAnswered
  <2>1. inserting \in AuditChains /\ inserting # <<>> /\ Len(inserting) =< recorded
    BY <1>11 DEF RecordAnswered, NoRow, AuditTyped
  <2>2. rows' = rows \cup {Row(inserting)} /\ recorded' = recorded
    BY <1>11 DEF RecordAnswered
  <2>3. anchor' \in AuditChains
    BY <1>11, <2>1 DEF RecordAnswered, AuditTyped
  <2>4. head' = [loaded |-> TRUE, chain |-> inserting] /\ inserting' = <<>>
        /\ UNCHANGED <<adrift, verify, recorded, landedLate>>
    BY <1>11 DEF RecordAnswered, NoRow
  <2>5. head' \in [loaded : BOOLEAN, chain : AuditChains] /\ head'.chain = inserting
    BY <2>1, <2>4
  <2>6. \A chain \in {head'.chain, inserting', adrift'.chain} : Len(chain) =< recorded'
    BY <1>1, <1>2, <2>1, <2>2, <2>4, <2>5 DEF AuditTyped
  <2> QED BY <1>2, <1>3, <2>1, <2>2, <2>3, <2>4, <2>5, <2>6 DEF AuditTyped
<1>12. CASE RecordFails
  <2>1. /\ head' = [head EXCEPT !.loaded = FALSE] /\ inserting' = <<>> /\ InsertUnknown
        /\ recorded' = recorded /\ UNCHANGED <<anchor, verify, landedLate>>
    BY <1>12 DEF RecordFails, HeadAfterError, NoRow
  <2>2. head' \in [loaded : BOOLEAN, chain : AuditChains] /\ head'.chain = head.chain
    BY <2>1 DEF AuditTyped
  <2> QED BY <1>1, <1>2, <1>5, <2>1, <2>2 DEF AuditTyped
<1>13. CASE InsertLands
  <2>1. rows' = rows \cup {Row(adrift.chain)} /\ recorded' = recorded
    BY <1>13 DEF InsertLands
  <2>2. adrift.chain # <<>>
    <3>1. adrift \in [chain : AuditChains, passed : BOOLEAN] /\ adrift # NothingAdrift
          /\ (adrift.passed => adrift.chain # NoRow)
      BY <1>13 DEF InsertLands, AuditTyped
    <3>2. adrift = [chain |-> adrift.chain, passed |-> adrift.passed]
      BY <3>1
    <3> QED BY <3>1, <3>2 DEF NothingAdrift, NoRow
  <2>3. adrift' = NothingAdrift /\ UNCHANGED <<head, inserting, anchor, verify>>
    BY <1>13 DEF InsertLands
  <2>4. \A chain \in {head'.chain, inserting', adrift'.chain} : Len(chain) =< recorded'
    BY <1>1, <1>2, <2>1, <2>3 DEF AuditTyped
  <2>5. adrift.chain \in AuditChains /\ Len(adrift.chain) =< recorded
    BY DEF AuditTyped
  <2>6. landedLate' \in BOOLEAN
    BY <1>13 DEF InsertLands, AuditTyped
  <2> QED BY <1>2, <1>3, <2>1, <2>2, <2>3, <2>4, <2>5, <2>6 DEF AuditTyped
<1>14. CASE InsertIsLost
  BY <1>1, <1>2, <1>14 DEF InsertIsLost, AuditTyped
<1>15. CASE Checkpoint
  <2>1. PICK chain \in Chains : HeadIs(chain) /\ anchor' \in {chain, anchor}
    BY <1>15 DEF Checkpoint
  <2>2. chain \in AuditChains /\ Len(chain) =< recorded
    BY <1>4
  <2> QED BY <1>6, <1>15, <2>1, <2>2 DEF Checkpoint, AuditTyped
<1>16. CASE AuditCrash
  <2>1. recorded' = recorded /\ head' = NotLoaded /\ inserting' = <<>> /\ verify' = NoVerify
        /\ UNCHANGED <<anchor, landedLate>>
    BY <1>16 DEF AuditCrash, NoRow
  <2>2. CASE InsertUnknown
    BY <1>1, <1>2, <1>5, <2>1, <2>2 DEF AuditTyped
  <2>3. CASE UNCHANGED <<rows, adrift>>
    BY <1>1, <1>2, <2>1, <2>3 DEF AuditTyped
  <2> QED BY <1>16, <2>2, <2>3 DEF AuditCrash
<1>17. ASSUME UNCHANGED <<rows, head, inserting, adrift, anchor, recorded, landedLate>>,
              verify' \in [at : {"idle", "watermark", "walking", "intact", "broken"}, through : Nat,
                           chain : AuditChains, anchor : AuditChains, forked : BOOLEAN]
       PROVE  AuditTyped'
  BY <1>17 DEF AuditTyped
<1>18. CASE BeginVerify
  <2>1. Forked \in BOOLEAN
    BY DEF Forked
  <2>2. Watermark \in Nat
    BY WatermarkIsHighest
  <2> QED BY <1>2, <1>17, <1>18, <2>1, <2>2 DEF BeginVerify
<1>19. CASE ReadAnchor
  BY <1>17, <1>19 DEF ReadAnchor, AuditTyped
<1>20. CASE WalkPage
  <2>1. \/ verify' = [verify EXCEPT !.at = "broken"]
        \/ \E top \in rows : verify' = [verify EXCEPT !.chain = top.chain]
    BY <1>20 DEF WalkPage, Beyond, Walked
  <2> QED BY <1>17, <1>20, <2>1 DEF WalkPage, AuditTyped
<1>21. CASE VerifyEnds
  BY <1>17, <1>21 DEF VerifyEnds, AuditTyped
<1>22. CASE UNCHANGED auditVars
  BY <1>22 DEF auditVars, AuditTyped
<1> QED BY <1>10, <1>11, <1>12, <1>13, <1>14, <1>15, <1>16, <1>18, <1>19, <1>20, <1>21, <1>22
        DEF AuditNext

(* A row's number is the length of its chain.                              *)
LEMMA RowOfLength ==
  ASSUME AuditTyped, NEW r \in rows
  PROVE  r.seq = Len(r.chain) /\ r.seq \in Nat \ {0} /\ r.chain \in AuditChains
BY ChainLength DEF AuditTyped, Row

(* The table with the row that follows its last.                           *)
LEMMA RowFollows ==
  ASSUME AuditTyped, OneChain, NEW chain \in AuditChains, NEW n \in 1..MaxRecords,
         IsTop(chain), rows' = rows \cup {Row(Append(chain, n))}
  PROVE  OneChain' /\ IsTop(Append(chain, n))'
<1> DEFINE next == Append(chain, n)
           new == Row(Append(chain, n))
<1>1. /\ next \in AuditChains /\ Len(next) = Len(chain) + 1 /\ BeginsWith(next, chain)
      /\ Len(chain) \in Nat
  BY AppendBegins, ChainLength
<1>2. new.chain = next /\ new.seq = Len(chain) + 1
  BY <1>1 DEF Row
<1> HIDE DEF next, new
<1>3. \A r \in rows : r.seq =< Len(chain) /\ BeginsWith(chain, r.chain)
  BY RowOfLength DEF IsTop, OneChain
<1>4. \A r \in rows : r.seq \in Nat \ {0} /\ r.chain \in AuditChains
  BY RowOfLength
<1>5. rows' = rows \cup {new}
  BY DEF new
<1>6. IsTop(next)'
  <2>1. new \in rows' /\ new.chain = next /\ \A q \in rows' : q.seq =< new.seq
    BY <1>1, <1>2, <1>3, <1>4, <1>5
  <2> QED BY <2>1 DEF IsTop
<1>7. \A r, q \in rows' : r.seq =< q.seq => BeginsWith(q.chain, r.chain)
  <2> SUFFICES ASSUME NEW r \in rows', NEW q \in rows', r.seq =< q.seq
               PROVE  BeginsWith(q.chain, r.chain)
    OBVIOUS
  <2>1. CASE r \in rows /\ q \in rows
    BY <2>1 DEF OneChain
  <2>2. CASE r \in rows /\ q = new
    BY <1>1, <1>2, <1>3, <1>4, <2>2, BeginTwice
  <2>3. CASE r = new /\ q \in rows
    BY <1>1, <1>2, <1>3, <1>4, <2>3
  <2>4. CASE r = new /\ q = new
    BY <1>1, <1>2, <2>4, BeginItself
  <2> QED BY <1>5, <2>1, <2>2, <2>3, <2>4
<1>8. \A r \in rows' : \A i \in 1..r.seq : \E q \in rows' : q.seq = i
  <2> SUFFICES ASSUME NEW r \in rows', NEW i \in 1..r.seq PROVE \E q \in rows' : q.seq = i
    OBVIOUS
  <2>1. CASE r \in rows
    BY <2>1, <1>5 DEF OneChain
  <2>2. CASE r = new /\ i = Len(chain) + 1
    BY <1>2, <1>5, <2>2
  <2>3. CASE r = new /\ i # Len(chain) + 1
    <3>1. i \in 1..Len(chain)
      BY <1>1, <1>2, <2>3
    <3>2. PICK last \in rows : last.chain = chain
      BY <3>1, ChainLength DEF IsTop
    <3>3. last.seq = Len(chain)
      BY <3>2, RowOfLength
    <3> QED BY <1>5, <3>1, <3>3 DEF OneChain
  <2> QED BY <1>5, <2>1, <2>2, <2>3
<1> QED BY <1>6, <1>7, <1>8 DEF next, OneChain

(* With the rows as they are, or more, what was walked is there.           *)
LEMMA MoreRows ==
  ASSUME rows \subseteq rows'
  PROVE  /\ \A chain : HasRow(chain) => HasRow(chain)'
         /\ (\E r \in rows : r.seq = verify.through) => \E r \in rows' : r.seq = verify.through
BY DEF HasRow

LEMMA ForkStaysAhead ==
  ASSUME ForkIsAhead, rows \subseteq rows', UNCHANGED verify PROVE ForkIsAhead'
<1>1. CASE verify.at \in {"watermark", "walking"} /\ verify.forked
  <2>1. PICK r, q \in rows :
          r.seq =< q.seq /\ ~BeginsWith(q.chain, r.chain) /\ ToWalk(r) /\ ToWalk(q)
    BY <1>1 DEF ForkIsAhead
  <2>2. r \in rows' /\ q \in rows' /\ ToWalk(r)' /\ ToWalk(q)'
    BY <2>1 DEF ToWalk, BeginsWith
  <2> QED BY <1>1, <2>1, <2>2 DEF ForkIsAhead, BeginsWith
<1>2. CASE ~(verify.at \in {"watermark", "walking"} /\ verify.forked)
  BY <1>2 DEF ForkIsAhead
<1> QED BY <1>1, <1>2

(* What a verification knows while none is under way.                      *)
LEMMA NoWalk ==
  ASSUME verify' = NoVerify PROVE ForkIsAhead' /\ WalksRows'
BY DEF NoVerify, ForkIsAhead, WalksRows

LEMMA WalkStays ==
  ASSUME WalksRows, rows \subseteq rows', UNCHANGED verify,
         verify.at = "watermark" => inserting' = NoRow /\ anchor' = anchor
  PROVE  WalksRows'
BY MoreRows DEF WalksRows

(* What is read as the head is the top, and an insert adrift is now late.  *)
LEMMA HeadRead ==
  ASSUME AuditTyped, HeadIsTop, rows = {} => head.chain = <<>>,
         NEW chain, HeadOf(chain), HeadIs(chain)
  PROVE  /\ IsTop(chain) /\ head' = [loaded |-> TRUE, chain |-> chain]
         /\ adrift' # NothingAdrift => adrift'.passed
<1>1. IsTop(chain)
  BY DEF HeadOf, HeadIsTop, InTable, IsTop
<1>2. head' = [loaded |-> TRUE, chain |-> chain]
      /\ adrift' = [adrift EXCEPT !.passed = @ \/ (~head.loaded /\ adrift.chain # NoRow)]
  BY DEF HeadIs
<1>3. adrift \in [chain : AuditChains, passed : BOOLEAN] /\ (adrift.passed => adrift.chain # NoRow)
  BY DEF AuditTyped
<1>4. CASE adrift.chain = NoRow
  <2>1. adrift' = NothingAdrift
    BY <1>2, <1>3, <1>4 DEF NothingAdrift
  <2> QED BY <1>1, <1>2, <2>1
<1>5. CASE adrift.chain # NoRow
  <2>1. adrift # NothingAdrift
    BY <1>5 DEF NothingAdrift
  <2>2. adrift.passed \/ ~head.loaded
    BY <2>1 DEF HeadIsTop
  <2>3. adrift'.passed
    BY <1>2, <1>3, <1>5, <2>2
  <2> QED BY <1>1, <1>2, <2>3
<1> QED BY <1>4, <1>5

(* An insert whose end is not known leaves one chain, with the row, without*)
(* it, or adrift.                                                          *)
LEMMA InsertOfUnknownEnd ==
  ASSUME AuditTyped, OneChain, HeadIsTop, InsertUnknown, ~head'.loaded, inserting' = NoRow
  PROVE  OneChain' /\ HeadIsTop' /\ rows \subseteq rows'
<1>1. PICK n \in 1..MaxRecords : inserting = Append(head.chain, n)
  BY DEF InsertUnknown, HeadIsTop
<1>2. head.chain \in AuditChains /\ IsTop(head.chain)
  BY DEF InsertUnknown, HeadIsTop, AuditTyped
<1>3. ~(adrift # NothingAdrift /\ ~adrift.passed)
  BY DEF InsertUnknown, HeadIsTop
<1>4. CASE rows' = rows \cup {Row(inserting)} /\ UNCHANGED adrift
  <2>1. OneChain'
    BY <1>1, <1>2, <1>4, RowFollows
  <2>2. HeadIsTop'
    BY <1>3, <1>4 DEF HeadIsTop, NothingAdrift
  <2> QED BY <1>4, <2>1, <2>2
<1>5. CASE UNCHANGED <<rows, adrift>>
  <2>1. HeadIsTop'
    BY <1>3, <1>5 DEF HeadIsTop, NothingAdrift
  <2> QED BY <1>5, <2>1 DEF OneChain
<1>6. CASE UNCHANGED rows /\ adrift' = [chain |-> inserting, passed |-> FALSE]
  <2>1. PICK chain \in AuditChains : chain = head.chain
    BY <1>2
  <2>2. IsTop(chain)' /\ adrift'.chain = Append(chain, n)
    BY <1>1, <1>2, <1>6, <2>1 DEF IsTop
  <2>3. HeadIsTop'
    BY <2>2 DEF HeadIsTop
  <2> QED BY <1>6, <2>3 DEF OneChain
<1> QED BY <1>4, <1>5, <1>6 DEF InsertUnknown

(* A page of one chain goes on where the walk is.                          *)
LEMMA PageGoesOn ==
  ASSUME AuditTyped, OneChain, WalksRows, verify.at = "walking",
         Len(verify.chain) < verify.through,
         NEW page \in SUBSET Beyond, IsPage(page)
  PROVE  /\ page # {} /\ ~Straddles(page)
         /\ \A last, top \in page :
              /\ \A x \in page : x.seq =< last.seq
              /\ top \in Walked(page, last)
              /\ \A x \in Walked(page, last) : x.seq =< top.seq
              => Follows(Walked(page, last), top.chain)
<1>1. /\ verify.chain \in AuditChains /\ Len(verify.chain) \in Nat /\ verify.through \in Nat
      /\ HasRow(verify.chain)
  BY ChainLength DEF AuditTyped, WalksRows
<1>2. \A r, q \in rows : r.seq = q.seq => r = q
  <2> SUFFICES ASSUME NEW r \in rows, NEW q \in rows, r.seq = q.seq PROVE r = q
    OBVIOUS
  <2>1. /\ r.seq = Len(r.chain) /\ q.seq = Len(q.chain)
        /\ r.chain \in AuditChains /\ q.chain \in AuditChains /\ r.seq \in Nat
    BY RowOfLength
  <2>2. BeginsWith(q.chain, r.chain)
    <3>1. r.seq =< q.seq
      BY <2>1
    <3> QED BY <3>1 DEF OneChain
  <2>3. r.chain = q.chain
    BY <2>1, <2>2, BeginOfOneLength
  <2> QED BY <2>3 DEF AuditTyped
<1>3. \A r \in Beyond : /\ r \in rows /\ r.seq \in Nat /\ r.seq = Len(r.chain)
                        /\ r.seq > Len(verify.chain) /\ r.seq =< verify.through
  BY RowOfLength DEF Beyond
<1>4. \A i \in Len(verify.chain) + 1 .. verify.through : \E r \in Beyond : r.seq = i
  <2> SUFFICES ASSUME NEW i \in Len(verify.chain) + 1 .. verify.through
               PROVE  \E r \in Beyond : r.seq = i
    OBVIOUS
  <2>1. PICK last \in rows : last.seq = verify.through
    BY <1>1 DEF WalksRows
  <2>2. i \in 1..last.seq
    BY <1>1, <2>1
  <2>3. PICK r \in rows : r.seq = i
    BY <2>2 DEF OneChain
  <2> QED BY <1>1, <2>3 DEF Beyond
<1>5. page # {}
  <2>1. PICK r \in Beyond : r.seq = verify.through
    BY <1>1, <1>4
  <2>2. IsFiniteSet(Beyond)
    BY FS_Subset DEF Beyond, AuditTyped
  <2>3. Cardinality(Beyond) \in Nat /\ Cardinality(Beyond) # 0
    BY <2>1, <2>2, FS_EmptySet, FS_CardinalityType
  <2>4. PageLimit \in Nat /\ PageLimit # 0
    BY AuditAssumption DEF PageLimit
  <2>5. Cardinality(page) # 0
    BY <2>3, <2>4 DEF IsPage
  <2> QED BY <2>5, FS_EmptySet
<1>6. ~Straddles(page)
  BY <1>2, <1>3 DEF Straddles
<1>7. ASSUME NEW last \in page, NEW top \in page, \A x \in page : x.seq =< last.seq,
             top \in Walked(page, last), \A x \in Walked(page, last) : x.seq =< top.seq
      PROVE  Follows(Walked(page, last), top.chain)
  <2> DEFINE walked == Walked(page, last)
             steps == Len(verify.chain) + 1 .. Len(top.chain)
  <2>1. /\ top \in Beyond /\ top.seq = Len(top.chain) /\ Len(top.chain) \in Nat
        /\ Len(verify.chain) < Len(top.chain) /\ Len(top.chain) =< verify.through
        /\ top.chain \in AuditChains /\ top \in rows
    BY <1>3, RowOfLength
  <2>2. walked \subseteq page /\ page \subseteq Beyond
    BY DEF Walked
  <2>3. \A r \in walked : r.seq \in steps
    BY <1>1, <1>3, <1>7, <2>1, <2>2
  <2>4. \A i \in steps : \E r \in walked : r.seq = i
    <3> SUFFICES ASSUME NEW i \in steps PROVE \E r \in walked : r.seq = i
      OBVIOUS
    <3>1. PICK r \in Beyond : r.seq = i
      BY <1>1, <1>4, <2>1
    <3>2. i =< top.seq /\ i \in Nat
      BY <1>1, <2>1
    <3>3. r \in page
      <4> SUFFICES ASSUME r \notin page PROVE FALSE
        OBVIOUS
      <4>1. top.seq =< r.seq
        BY DEF IsPage
      <4>2. top.seq = r.seq
        BY <1>3, <3>1, <3>2, <4>1
      <4> QED BY <1>2, <1>3, <4>2
    <3>4. r \in walked
      <4> SUFFICES ASSUME r \notin walked PROVE FALSE
        OBVIOUS
      <4>1. r = last /\ walked = page \ {last}
        BY <3>3 DEF Walked
      <4>2. top.seq = last.seq
        BY <1>3, <1>7, <3>1, <3>2, <4>1
      <4>3. top = last
        BY <1>2, <1>3, <4>2
      <4> QED BY <1>7, <4>1, <4>3
    <3> QED BY <3>1, <3>4
  <2>5. {r.seq : r \in walked} = steps
    BY <2>3, <2>4
  <2>6. Cardinality(walked) = Len(top.chain) - Len(verify.chain)
    <3> DEFINE number == [r \in walked |-> r.seq]
    <3> HIDE DEF walked, steps
    <3>1. number \in Bijection(walked, steps)
      <4>1. number \in [walked -> steps]
        BY <2>3
      <4>2. \A r, q \in walked : number[r] = number[q] => r = q
        BY <1>2, <1>3, <2>2
      <4>3. \A i \in steps : \E r \in walked : number[r] = i
        BY <2>4
      <4>4. number \in Injection(walked, steps)
        BY <4>1, <4>2 DEF Injection, IsInjective
      <4>5. number \in Surjection(walked, steps)
        BY <4>1, <4>3 DEF Surjection
      <4> QED BY <4>4, <4>5 DEF Bijection
    <3>2. ExistsBijection(walked, steps)
      BY <3>1 DEF ExistsBijection
    <3>3. IsFiniteSet(walked)
      <4>1. IsFiniteSet(rows) /\ walked \subseteq rows
        BY <1>3, <2>2 DEF AuditTyped
      <4> QED BY <4>1, FS_Subset
    <3>4. Cardinality(steps) = Cardinality(walked)
      BY <3>2, <3>3, FS_Bijection
    <3>5. Cardinality(steps) = Len(top.chain) - (Len(verify.chain) + 1) + 1
      <4> DEFINE first == Len(verify.chain) + 1
                 final == Len(top.chain)
      <4>1. first \in Int /\ final \in Int /\ ~(first > final)
        BY <1>1, <2>1
      <4> HIDE DEF first, final
      <4>2. Cardinality(first..final) = final - first + 1
        BY <4>1, FS_Interval
      <4> QED BY <4>2 DEF first, final, steps
    <3> QED BY <1>1, <2>1, <3>4, <3>5
  <2>7. \A r \in walked : r.chain = SubSeq(top.chain, 1, r.seq)
    <3> SUFFICES ASSUME NEW r \in walked PROVE r.chain = SubSeq(top.chain, 1, r.seq)
      OBVIOUS
    <3>1. r \in rows /\ r.seq = Len(r.chain) /\ r.chain \in AuditChains /\ r.seq =< top.seq
      BY <1>3, <1>7, <2>2, RowOfLength
    <3>2. BeginsWith(top.chain, r.chain)
      BY <2>1, <3>1 DEF OneChain
    <3> QED BY <2>1, <3>1, <3>2, BeginIsSubSeq
  <2>8. verify.chain = SubSeq(top.chain, 1, Len(verify.chain))
    <3>1. BeginsWith(top.chain, verify.chain)
      <4>1. CASE verify.chain = <<>>
        BY <2>1, <4>1, BeginItself
      <4>2. CASE verify.chain # <<>>
        <5>1. PICK r \in rows : r.chain = verify.chain
          BY <1>1, <4>2 DEF HasRow
        <5>2. r.seq =< top.seq
          BY <1>1, <2>1, <5>1, RowOfLength
        <5> QED BY <2>1, <5>1, <5>2 DEF OneChain
      <4> QED BY <4>1, <4>2
    <3> QED BY <1>1, <2>1, <3>1, BeginIsSubSeq
  <2> QED BY <2>5, <2>6, <2>7, <2>8 DEF Follows
<1> QED BY <1>5, <1>6, <1>7

(* A row that was yet to come or in the chain is so after a page of which  *)
(* no two rows share the last number.                                      *)
LEMMA RowStaysToWalk ==
  ASSUME AuditTyped, NEW page \in SUBSET Beyond, IsPage(page), ~Straddles(page),
         NEW last \in page, NEW top \in page, \A x \in page : x.seq =< last.seq,
         top \in Walked(page, last), \A x \in Walked(page, last) : x.seq =< top.seq,
         Follows(Walked(page, last), top.chain),
         verify'.through = verify.through, verify'.chain = top.chain,
         NEW r \in rows, ToWalk(r)
  PROVE  ToWalk(r)'
<1>1. \A x \in rows : x.seq = Len(x.chain) /\ x.seq \in Nat /\ x.chain \in AuditChains
  BY RowOfLength
<1>2. verify.chain \in AuditChains /\ Len(verify.chain) \in Nat
  BY ChainLength DEF AuditTyped
<1>3. page \subseteq rows /\ top \in rows /\ last \in rows /\ top.seq > Len(verify.chain)
  BY DEF Beyond
<1>4. CASE r.seq > top.seq
  BY <1>1, <1>3, <1>4 DEF ToWalk
<1>5. CASE r.seq =< Len(verify.chain)
  <2>1. BeginsWith(verify.chain, r.chain)
    BY <1>1, <1>2, <1>5 DEF ToWalk
  <2>2. BeginsWith(top.chain, verify.chain)
    <3>1. Len(verify.chain) =< Len(top.chain) /\ top.chain \in AuditChains
      BY <1>1, <1>2, <1>3
    <3>2. verify.chain = SubSeq(top.chain, 1, Len(verify.chain))
      BY DEF Follows
    <3> QED BY <1>2, <3>1, <3>2, BeginIsSubSeq
  <2>3. BeginsWith(top.chain, r.chain)
    BY <1>1, <1>2, <1>3, <2>1, <2>2, BeginTwice
  <2> QED BY <2>3 DEF ToWalk, BeginsWith
<1>6. CASE r.seq > Len(verify.chain) /\ r.seq =< top.seq
  <2>1. r \in Beyond
    BY <1>6 DEF Beyond, ToWalk
  <2>2. r \in page
    <3> SUFFICES ASSUME r \notin page PROVE FALSE
      OBVIOUS
    <3>1. \A x \in page : x.seq =< r.seq
      BY <2>1 DEF IsPage
    <3>2. top.seq = r.seq /\ last.seq = r.seq
      BY <1>1, <1>3, <1>6, <3>1
    <3>3. CASE Cardinality(page) > PageSize
      <4>1. top # last
        BY <3>3 DEF Walked
      <4>2. \A x \in page : x.seq =< top.seq
        BY <3>1, <3>2
      <4> QED BY <3>2, <3>3, <4>1, <4>2 DEF Straddles
    <3>4. CASE ~(Cardinality(page) > PageSize)
      <4>1. IsFiniteSet(Beyond)
        BY FS_Subset DEF Beyond, AuditTyped
      <4>2. Cardinality(page) \in Nat /\ Cardinality(Beyond) \in Nat
        BY <4>1, FS_Subset, FS_CardinalityType
      <4>3. Cardinality(Beyond) = Cardinality(page)
        BY <3>4, <4>2, AuditAssumption DEF IsPage, PageLimit
      <4>4. Beyond = page
        BY <4>1, <4>3, FS_Subset
      <4> QED BY <2>1, <4>4
    <3> QED BY <3>3, <3>4
  <2>3. r \in Walked(page, last)
    <3> SUFFICES ASSUME r \notin Walked(page, last) PROVE FALSE
      OBVIOUS
    <3>1. Cardinality(page) > PageSize /\ r = last /\ top # last
      BY <2>2 DEF Walked
    <3>2. top.seq = last.seq
      BY <1>1, <1>3, <1>6, <3>1
    <3> QED BY <3>1, <3>2 DEF Straddles
  <2>4. r.chain = SubSeq(top.chain, 1, r.seq)
    BY <2>3 DEF Follows
  <2>5. BeginsWith(top.chain, r.chain)
    BY <1>1, <1>3, <1>6, <2>4, BeginIsSubSeq
  <2> QED BY <2>5 DEF ToWalk, BeginsWith
<1> QED BY <1>1, <1>2, <1>3, <1>4, <1>5, <1>6

(* Unless an insert lands late there is one chain, the head in memory is   *)
(* its top, and no verification finds it broken.                           *)
LEMMA OneChainStep ==
  ASSUME AuditInv, AuditNext, ~landedLate'
  PROVE  OneChain' /\ HeadIsTop' /\ HasRow(anchor)' /\ WalksRows'
<1>1. ~landedLate
  BY DEF AuditNext, BeginRecord, RecordAnswered, RecordFails, InsertLands, InsertIsLost, Checkpoint,
         AuditCrash, BeginVerify, ReadAnchor, WalkPage, VerifyEnds
<1>2. /\ AuditTyped /\ OneChain /\ HeadIsTop /\ HasRow(anchor) /\ WalksRows
      /\ rows = {} => head.chain = <<>>
  BY <1>1 DEF AuditInv
<1>3. inserting # NoRow => verify.at # "watermark"
  BY <1>2 DEF WalksRows
<1>4. ASSUME UNCHANGED <<rows, head, inserting, adrift, anchor>>
      PROVE  OneChain' /\ HeadIsTop' /\ HasRow(anchor)'
  BY <1>2, <1>4 DEF OneChain, HeadIsTop, HasRow, IsTop
<1>5. ASSUME NEW chain, IsTop(chain), UNCHANGED rows PROVE IsTop(chain)'
  BY <1>5 DEF IsTop
<1>10. CASE BeginRecord
  <2>1. PICK chain \in Chains :
          HeadOf(chain) /\ HeadIs(chain) /\ inserting' = Append(chain, recorded + 1)
    BY <1>10 DEF BeginRecord
  <2>2. UNCHANGED <<rows, anchor, verify>> /\ verify.at # "watermark"
    BY <1>10 DEF BeginRecord, MutexFree
  <2>3. recorded + 1 \in 1..MaxRecords
    BY <1>2, <1>10, AuditAssumption DEF BeginRecord, AuditTyped
  <2>4. /\ IsTop(chain) /\ head' = [loaded |-> TRUE, chain |-> chain]
        /\ adrift' # NothingAdrift => adrift'.passed
    BY <1>2, <2>1, HeadRead
  <2>5. HeadIsTop'
    BY <1>5, <2>1, <2>2, <2>3, <2>4 DEF HeadIsTop
  <2>6. OneChain' /\ HasRow(anchor)'
    BY <1>2, <2>2 DEF OneChain, HasRow
  <2>7. WalksRows'
    BY <1>2, <2>2, WalkStays
  <2> QED BY <2>5, <2>6, <2>7
<1>11. CASE RecordAnswered
  <2>1. /\ inserting # NoRow /\ rows' = rows \cup {Row(inserting)} /\ inserting' = NoRow
        /\ head' = [loaded |-> TRUE, chain |-> inserting] /\ anchor' \in {inserting, anchor}
        /\ UNCHANGED <<adrift, verify>>
    BY <1>11 DEF RecordAnswered
  <2>2. PICK n \in 1..MaxRecords : inserting = Append(head.chain, n)
    BY <1>2, <2>1 DEF HeadIsTop
  <2>3. head.chain \in AuditChains /\ IsTop(head.chain)
    BY <1>2, <2>1 DEF HeadIsTop, AuditTyped
  <2>4. PICK chain \in AuditChains : chain = head.chain
    BY <2>3
  <2>5. OneChain' /\ IsTop(Append(chain, n))'
    BY <1>2, <2>1, <2>2, <2>3, <2>4, RowFollows
  <2>6. HeadIsTop'
    <3>1. adrift' # NothingAdrift => adrift'.passed
      BY <1>2, <2>1 DEF HeadIsTop
    <3> QED BY <2>1, <2>2, <2>4, <2>5, <3>1 DEF HeadIsTop
  <2>7. HasRow(anchor)'
    <3>1. Row(inserting).chain = inserting /\ Row(inserting) \in rows'
      BY <2>1 DEF Row
    <3> QED BY <1>2, <2>1, <3>1 DEF HasRow
  <2>8. WalksRows'
    BY <1>2, <1>3, <2>1, WalkStays
  <2> QED BY <2>5, <2>6, <2>7, <2>8
<1>12. CASE RecordFails
  <2>1. /\ InsertUnknown /\ ~head'.loaded /\ inserting' = NoRow /\ UNCHANGED <<anchor, verify>>
        /\ inserting # NoRow
    BY <1>2, <1>12 DEF RecordFails, HeadAfterError, InsertUnknown, AuditTyped
  <2>2. OneChain' /\ HeadIsTop' /\ rows \subseteq rows'
    BY <1>2, <2>1, InsertOfUnknownEnd
  <2>3. WalksRows'
    BY <1>2, <1>3, <2>1, <2>2, WalkStays
  <2> QED BY <1>2, <2>1, <2>2, <2>3 DEF HasRow
<1>13. CASE InsertLands
  <2>1. /\ adrift # NothingAdrift /\ adrift' = NothingAdrift /\ rows' = rows \cup {Row(adrift.chain)}
        /\ ~adrift.passed /\ UNCHANGED <<head, inserting, anchor, verify>>
    BY <1>2, <1>13 DEF InsertLands, AuditTyped
  <2>2. PICK chain \in AuditChains, n \in 1..MaxRecords :
          IsTop(chain) /\ adrift.chain = Append(chain, n)
    BY <1>2, <2>1 DEF HeadIsTop
  <2>3. OneChain'
    BY <1>2, <2>1, <2>2, RowFollows
  <2>4. HeadIsTop'
    BY <1>2, <2>1 DEF HeadIsTop
  <2>5. WalksRows'
    BY <1>2, <1>3, <2>1, WalkStays
  <2> QED BY <1>2, <2>1, <2>3, <2>4, <2>5 DEF HasRow
<1>14. CASE InsertIsLost
  <2>1. adrift' = NothingAdrift /\ UNCHANGED <<rows, head, inserting, anchor, verify>>
    BY <1>14 DEF InsertIsLost
  <2>2. HeadIsTop'
    BY <1>2, <2>1 DEF HeadIsTop, IsTop
  <2>3. WalksRows'
    BY <1>2, <1>3, <2>1, WalkStays
  <2> QED BY <1>2, <2>1, <2>2, <2>3 DEF OneChain, HasRow
<1>15. CASE Checkpoint
  <2>1. PICK chain \in Chains : HeadOf(chain) /\ HeadIs(chain) /\ anchor' \in {chain, anchor}
    BY <1>15 DEF Checkpoint
  <2>2. UNCHANGED <<rows, inserting, verify>> /\ verify.at # "watermark" /\ inserting = NoRow
    BY <1>15 DEF Checkpoint, MutexFree
  <2>3. /\ IsTop(chain) /\ head' = [loaded |-> TRUE, chain |-> chain]
        /\ adrift' # NothingAdrift => adrift'.passed
    BY <1>2, <2>1, HeadRead
  <2>4. HeadIsTop'
    BY <1>5, <2>2, <2>3 DEF HeadIsTop
  <2>5. HasRow(chain)
    BY <2>3 DEF IsTop, HasRow
  <2>6. WalksRows'
    BY <1>2, <2>2, WalkStays
  <2> QED BY <1>2, <2>1, <2>2, <2>4, <2>5, <2>6 DEF OneChain, HasRow
<1>16. CASE AuditCrash
  <2>1. head' = NotLoaded /\ ~head'.loaded /\ inserting' = NoRow /\ verify' = NoVerify /\ anchor' = anchor
    BY <1>16 DEF AuditCrash, NotLoaded
  <2>2. OneChain' /\ HeadIsTop' /\ rows \subseteq rows'
    <3>1. CASE InsertUnknown
      BY <1>2, <2>1, <3>1, InsertOfUnknownEnd
    <3>2. CASE inserting = NoRow /\ UNCHANGED <<rows, adrift>>
      BY <1>2, <2>1, <3>2 DEF OneChain, HeadIsTop, IsTop
    <3> QED BY <1>16, <3>1, <3>2 DEF AuditCrash
  <2>3. HasRow(anchor)'
    BY <1>2, <2>1, <2>2 DEF HasRow
  <2> QED BY <2>1, <2>2, <2>3, NoWalk
<1>17. CASE BeginVerify
  <2>1. UNCHANGED <<rows, head, inserting, adrift, anchor>> /\ inserting = NoRow
    BY <1>17 DEF BeginVerify, MutexFree
  <2>2. /\ verify'.at = "watermark" /\ verify'.chain = <<>> /\ verify'.through = Watermark
    BY <1>17 DEF BeginVerify, NoVerify
  <2>3. Watermark = 0 \/ \E r \in rows : r.seq = Watermark
    BY <1>2, WatermarkIsHighest
  <2>4. Len(anchor) =< Watermark
    <3>1. CASE anchor = <<>>
      BY <1>2, <3>1, WatermarkIsHighest, ChainLength DEF AuditTyped
    <3>2. CASE anchor # <<>>
      <4>1. PICK r \in rows : r.chain = anchor
        BY <1>2, <3>2 DEF HasRow
      <4> QED BY <1>2, <4>1, RowOfLength, WatermarkIsHighest
    <3> QED BY <3>1, <3>2
  <2>5. WalksRows'
    BY <2>1, <2>2, <2>3, <2>4 DEF WalksRows, HasRow
  <2> QED BY <1>4, <2>1, <2>5
<1>18. CASE ReadAnchor
  <2>1. /\ verify.at = "watermark" /\ verify' = [verify EXCEPT !.at = "walking", !.anchor = anchor]
        /\ UNCHANGED <<rows, head, inserting, adrift, anchor>>
    BY <1>18 DEF ReadAnchor
  <2>2. /\ verify'.at = "walking" /\ verify'.anchor = anchor
        /\ verify'.chain = verify.chain /\ verify'.through = verify.through
    BY <1>2, <2>1 DEF AuditTyped
  <2>3. WalksRows'
    BY <1>2, <2>1, <2>2 DEF WalksRows, HasRow
  <2> QED BY <1>4, <2>1, <2>3
<1>19. CASE WalkPage
  <2>1. /\ verify.at = "walking" /\ Len(verify.chain) < verify.through
        /\ UNCHANGED <<rows, head, inserting, adrift, anchor>>
    BY <1>19 DEF WalkPage
  <2>2. PICK page \in SUBSET Beyond :
          /\ IsPage(page)
          /\ IF page = {} \/ Straddles(page) THEN verify' = [verify EXCEPT !.at = "broken"]
             ELSE \E last, top \in page :
                    /\ \A x \in page : x.seq =< last.seq
                    /\ top \in Walked(page, last)
                    /\ \A x \in Walked(page, last) : x.seq =< top.seq
                    /\ verify' = IF Follows(Walked(page, last), top.chain)
                                 THEN [verify EXCEPT !.chain = top.chain]
                                 ELSE [verify EXCEPT !.at = "broken"]
    BY <1>19 DEF WalkPage
  <2>3. PICK top \in page : verify' = [verify EXCEPT !.chain = top.chain]
    BY <1>2, <2>1, <2>2, PageGoesOn
  <2>4. /\ verify'.at = "walking" /\ verify'.anchor = verify.anchor
        /\ verify'.chain = top.chain /\ verify'.through = verify.through
    BY <1>2, <2>1, <2>3 DEF AuditTyped
  <2>5. top \in rows
    BY DEF Beyond
  <2>6. WalksRows'
    BY <1>2, <2>1, <2>4, <2>5 DEF WalksRows, HasRow
  <2> QED BY <1>4, <2>1, <2>6
<1>20. CASE VerifyEnds
  <2>1. /\ verify.at = "walking" /\ Len(verify.chain) = verify.through
        /\ UNCHANGED <<rows, head, inserting, adrift, anchor>>
    BY <1>20 DEF VerifyEnds
  <2>2. /\ verify.chain \in AuditChains /\ verify.anchor \in AuditChains
        /\ HasRow(verify.chain) /\ HasRow(verify.anchor) /\ Len(verify.anchor) =< Len(verify.chain)
    BY <1>2, <2>1 DEF AuditTyped, WalksRows
  <2>3. BeginsWith(verify.chain, verify.anchor)
    <3>1. CASE verify.anchor = <<>>
      BY <2>2, <3>1, BeginItself
    <3>2. CASE verify.anchor # <<>>
      <4>1. verify.chain # <<>>
        BY <2>2, <3>2, ChainLength
      <4>2. PICK r \in rows, q \in rows : r.chain = verify.anchor /\ q.chain = verify.chain
        BY <2>2, <3>2, <4>1 DEF HasRow
      <4>3. r.seq =< q.seq
        BY <1>2, <2>2, <4>2, RowOfLength
      <4> QED BY <1>2, <4>2, <4>3 DEF OneChain
    <3> QED BY <3>1, <3>2
  <2>4. verify.anchor = SubSeq(verify.chain, 1, Len(verify.anchor))
    BY <2>2, <2>3, BeginIsSubSeq
  <2>5. verify'.at = "intact"
    BY <1>2, <1>20, <2>1, <2>2, <2>4 DEF VerifyEnds, AuditTyped
  <2>6. WalksRows'
    BY <2>5 DEF WalksRows
  <2> QED BY <1>4, <2>1, <2>6
<1> QED BY <1>10, <1>11, <1>12, <1>13, <1>14, <1>15, <1>16, <1>17, <1>18, <1>19, <1>20
        DEF AuditNext

(* A verification that began on a fork does not get past it.               *)
LEMMA ForkStep ==
  ASSUME AuditInv, AuditNext PROVE ForkIsAhead'
<1>1. AuditTyped /\ ForkIsAhead
  BY DEF AuditInv
<1>2. CASE UNCHANGED verify
  <2>1. rows \subseteq rows'
    BY <1>2 DEF AuditNext, BeginRecord, RecordAnswered, RecordFails, InsertUnknown, InsertLands,
       InsertIsLost, Checkpoint, AuditCrash, BeginVerify, ReadAnchor, WalkPage, VerifyEnds
  <2> QED BY <1>1, <1>2, <2>1, ForkStaysAhead
<1>3. CASE AuditCrash
  BY <1>3, NoWalk DEF AuditCrash
<1>4. CASE BeginVerify
  <2>1. /\ verify'.at = "watermark" /\ verify'.chain = <<>> /\ verify'.through = Watermark
        /\ verify'.forked = Forked /\ rows' = rows
    BY <1>4 DEF BeginVerify, NoVerify
  <2>2. ASSUME Forked
        PROVE  \E r, q \in rows : /\ r.seq =< q.seq /\ ~BeginsWith(q.chain, r.chain)
                                  /\ ToWalk(r)' /\ ToWalk(q)'
    <3>1. PICK r \in rows, q \in rows : r.seq =< q.seq /\ r.chain # SubSeq(q.chain, 1, r.seq)
      BY <2>2 DEF Forked
    <3>2. /\ r.seq = Len(r.chain) /\ q.seq = Len(q.chain) /\ r.seq > 0 /\ q.seq > 0
          /\ r.chain \in AuditChains /\ q.chain \in AuditChains
      BY <1>1, RowOfLength
    <3>3. ~BeginsWith(q.chain, r.chain)
      BY <3>1, <3>2, BeginIsSubSeq
    <3>4. ToWalk(r)' /\ ToWalk(q)'
      BY <1>1, <2>1, <3>2, WatermarkIsHighest, ChainLength DEF ToWalk
    <3> QED BY <3>1, <3>3, <3>4
  <2> QED BY <2>1, <2>2 DEF ForkIsAhead, BeginsWith
<1>5. CASE ReadAnchor
  <2>1. /\ verify.at = "watermark" /\ verify'.at = "walking" /\ verify'.chain = verify.chain
        /\ verify'.through = verify.through /\ verify'.forked = verify.forked /\ rows' = rows
    BY <1>1, <1>5 DEF ReadAnchor, AuditTyped
  <2> QED BY <1>1, <2>1 DEF ForkIsAhead, ToWalk, BeginsWith
<1>6. CASE VerifyEnds
  <2>1. /\ verify.at = "walking" /\ Len(verify.chain) = verify.through
        /\ verify'.at \in {"intact", "broken"} /\ verify'.forked = verify.forked
    BY <1>1, <1>6 DEF VerifyEnds, AuditTyped
  <2>2. ASSUME verify.forked PROVE FALSE
    <3>1. PICK r \in rows, q \in rows :
            r.seq =< q.seq /\ ~BeginsWith(q.chain, r.chain) /\ ToWalk(r) /\ ToWalk(q)
      BY <1>1, <2>1, <2>2 DEF ForkIsAhead
    <3>2. /\ r.seq = Len(r.chain) /\ q.seq = Len(q.chain) /\ r.seq \in Nat /\ q.seq \in Nat
          /\ r.chain \in AuditChains /\ q.chain \in AuditChains
          /\ verify.chain \in AuditChains /\ Len(verify.chain) \in Nat
      BY <1>1, RowOfLength, ChainLength DEF AuditTyped
    <3>3. BeginsWith(verify.chain, r.chain) /\ BeginsWith(verify.chain, q.chain)
      BY <2>1, <3>1, <3>2 DEF ToWalk
    <3> QED BY <3>1, <3>2, <3>3, BeginsOfOne
  <2> QED BY <2>1, <2>2 DEF ForkIsAhead
<1>7. CASE WalkPage
  <2>1. verify.at = "walking" /\ Len(verify.chain) < verify.through /\ rows' = rows
    BY <1>7 DEF WalkPage
  <2>2. PICK page \in SUBSET Beyond :
          /\ IsPage(page)
          /\ IF page = {} \/ Straddles(page) THEN verify' = [verify EXCEPT !.at = "broken"]
             ELSE \E last, top \in page :
                    /\ \A x \in page : x.seq =< last.seq
                    /\ top \in Walked(page, last)
                    /\ \A x \in Walked(page, last) : x.seq =< top.seq
                    /\ verify' = IF Follows(Walked(page, last), top.chain)
                                 THEN [verify EXCEPT !.chain = top.chain]
                                 ELSE [verify EXCEPT !.at = "broken"]
    BY <1>7 DEF WalkPage
  <2>3. CASE verify' = [verify EXCEPT !.at = "broken"]
    <3>1. verify'.at = "broken"
      BY <1>1, <2>3 DEF AuditTyped
    <3> QED BY <3>1 DEF ForkIsAhead
  <2>4. CASE verify' # [verify EXCEPT !.at = "broken"]
    <3>1. /\ ~Straddles(page)
          /\ \E last, top \in page :
               /\ \A x \in page : x.seq =< last.seq
               /\ top \in Walked(page, last)
               /\ \A x \in Walked(page, last) : x.seq =< top.seq
               /\ Follows(Walked(page, last), top.chain)
               /\ verify' = [verify EXCEPT !.chain = top.chain]
      BY <2>2, <2>4
    <3>2. PICK last \in page, top \in page :
            /\ \A x \in page : x.seq =< last.seq
            /\ top \in Walked(page, last)
            /\ \A x \in Walked(page, last) : x.seq =< top.seq
            /\ Follows(Walked(page, last), top.chain)
            /\ verify' = [verify EXCEPT !.chain = top.chain]
      BY <3>1
    <3>3. /\ verify'.at = "walking" /\ verify'.through = verify.through
          /\ verify'.chain = top.chain /\ verify'.forked = verify.forked
      BY <1>1, <2>1, <3>2 DEF AuditTyped
    <3>4. ASSUME NEW r \in rows, ToWalk(r) PROVE ToWalk(r)'
      BY <1>1, <2>1, <2>2, <3>1, <3>2, <3>3, <3>4, RowStaysToWalk
    <3> QED BY <1>1, <2>1, <3>3, <3>4 DEF ForkIsAhead, BeginsWith
  <2> QED BY <2>3, <2>4
<1> QED
  BY <1>2, <1>3, <1>4, <1>5, <1>6, <1>7
     DEF AuditNext, BeginRecord, RecordAnswered, RecordFails, InsertLands, InsertIsLost, Checkpoint

LEMMA AuditInvStep == AuditInv /\ [AuditNext]_auditVars => AuditInv'
<1> SUFFICES ASSUME AuditInv, [AuditNext]_auditVars PROVE AuditInv'
  OBVIOUS
<1>1. AuditTyped'
  BY AuditTypedStep DEF AuditInv
<1>2. CASE UNCHANGED auditVars
  <2>1. (~landedLate => OneChain /\ HeadIsTop /\ HasRow(anchor) /\ WalksRows)'
    BY <1>2 DEF AuditInv, auditVars, OneChain, HeadIsTop, HasRow, WalksRows, IsTop, BeginsWith
  <2>2. ForkIsAhead'
    BY <1>2, ForkStaysAhead DEF AuditInv, auditVars
  <2> QED BY <1>1, <1>2, <2>1, <2>2 DEF AuditInv, auditVars
<1>3. CASE AuditNext
  <2>1. (rows = {} => head.chain = <<>>)'
    <3>1. ASSUME NEW chain, HeadOf(chain), rows = {} PROVE chain = <<>>
      BY <3>1 DEF HeadOf, InTable, AuditInv
    <3>2. CASE BeginRecord
      BY <3>1, <3>2 DEF BeginRecord, HeadIs
    <3>3. CASE Checkpoint
      BY <3>1, <3>3 DEF Checkpoint, HeadIs
    <3>4. CASE RecordAnswered
      BY <3>4 DEF RecordAnswered
    <3>5. CASE RecordFails
      BY <3>5 DEF RecordFails, InsertUnknown, HeadAfterError, AuditInv, AuditTyped
    <3>6. CASE AuditCrash
      BY <3>6 DEF AuditCrash, NotLoaded
    <3>7. CASE InsertLands
      BY <3>7 DEF InsertLands
    <3>8. CASE UNCHANGED <<rows, head>>
      BY <3>8 DEF AuditInv
    <3> QED BY <1>3, <3>2, <3>3, <3>4, <3>5, <3>6, <3>7, <3>8
            DEF AuditNext, InsertIsLost, BeginVerify, ReadAnchor, WalkPage, VerifyEnds
  <2>2. (~landedLate => OneChain /\ HeadIsTop /\ HasRow(anchor) /\ WalksRows)'
    BY <1>3, OneChainStep
  <2>3. ForkIsAhead'
    BY <1>3, ForkStep
  <2> QED BY <1>1, <2>1, <2>2, <2>3 DEF AuditInv
<1> QED BY <1>2, <1>3

LEMMA AuditInvSound == AuditInv => AuditTypeOK /\ AuditSound
<1> SUFFICES ASSUME AuditInv PROVE AuditTypeOK /\ AuditSound
  OBVIOUS
<1>1. AuditTypeOK
  BY DEF AuditInv, AuditTyped, AuditTypeOK, AuditChains
<1>2. ASSUME ~landedLate PROVE ~Forked
  <2> SUFFICES ASSUME NEW r \in rows, NEW q \in rows, r.seq =< q.seq
               PROVE  r.chain = SubSeq(q.chain, 1, r.seq)
    BY DEF Forked
  <2>1. /\ r.seq = Len(r.chain) /\ q.seq = Len(q.chain)
        /\ r.chain \in AuditChains /\ q.chain \in AuditChains
    BY RowOfLength DEF AuditInv
  <2>2. BeginsWith(q.chain, r.chain)
    BY <1>2 DEF AuditInv, OneChain
  <2> QED BY <2>1, <2>2, BeginIsSubSeq
<1>3. VerifyIsRight
  BY DEF AuditInv, WalksRows, ForkIsAhead, VerifyIsRight
<1> QED BY <1>1, <1>2, <1>3 DEF AuditSound, ForksOnlyLate

(* The chain of the audit trail never forks unless an insert lands after   *)
(* the head was read again, and a verification, whatever goes on beside it,*)
(* finds no sound chain broken and none that was forked intact.            *)
THEOREM AuditTheorem == AuditSpec => [](AuditTypeOK /\ AuditSound)
<1>1. AuditInit => AuditInv
  BY AuditInitially
<1>2. AuditInv /\ [AuditNext]_auditVars => AuditInv'
  BY AuditInvStep
<1>3. AuditInv => AuditTypeOK /\ AuditSound
  BY AuditInvSound
<1> QED BY <1>1, <1>2, <1>3, PTL DEF AuditSpec

-----------------------------------------------------------------------------
(* Persons.  The edges from key to key, and the keys on the way from one:  *)
(* the least set that has it and is closed under the edges.                *)
Aliases == [Person -> Person \cup {NoPerson}]

ClosedUnder(alias, keys) == \A k \in keys : alias[k] # NoPerson => alias[k] \in keys

WayOf(alias, k) ==
  {x \in Person : \A keys \in SUBSET Person : k \in keys /\ ClosedUnder(alias, keys) => x \in keys}

(* No key is on the way from its own alias.                                *)
NoCycle(alias) == \A k \in Person : alias[k] # NoPerson => k \notin WayOf(alias, alias[k])

(* Canonical, for any edges.                                               *)
EndOf(alias, k) ==
  LET root[n \in 0..Cardinality(Person)] ==
        IF n = 0 THEN k
        ELSE IF alias[root[n - 1]] = NoPerson THEN root[n - 1] ELSE alias[root[n - 1]]
  IN root[Cardinality(Person)]

LEMMA CanonicalIsEnd == \A k : Canonical(k) = EndOf(aliasOf, k) /\ Canonical(k)' = EndOf(aliasOf', k)
BY DEF Canonical, EndOf

LEMMA WayIsClosed ==
  ASSUME NEW alias \in Aliases, NEW k \in Person
  PROVE  /\ WayOf(alias, k) \subseteq Person /\ k \in WayOf(alias, k)
         /\ ClosedUnder(alias, WayOf(alias, k))
<1>1. WayOf(alias, k) \subseteq Person /\ k \in WayOf(alias, k)
  BY DEF WayOf
<1>2. ASSUME NEW x \in WayOf(alias, k), alias[x] # NoPerson PROVE alias[x] \in WayOf(alias, k)
  <2>1. alias[x] \in Person
    BY <1>2 DEF Aliases, WayOf
  <2>2. ASSUME NEW keys \in SUBSET Person, k \in keys, ClosedUnder(alias, keys)
        PROVE  alias[x] \in keys
    BY <1>2, <2>2 DEF WayOf, ClosedUnder
  <2> QED BY <2>1, <2>2 DEF WayOf
<1> QED BY <1>1, <1>2 DEF ClosedUnder

LEMMA WayIsLeast ==
  ASSUME NEW alias, NEW k, NEW keys \in SUBSET Person, k \in keys, ClosedUnder(alias, keys)
  PROVE  WayOf(alias, k) \subseteq keys
BY DEF WayOf

(* The way from a key on the way is part of it; a key is followed by the   *)
(* way from its alias.                                                     *)
LEMMA WayGoesOn ==
  ASSUME NEW alias \in Aliases, NEW k \in Person
  PROVE  /\ \A x \in WayOf(alias, k) : WayOf(alias, x) \subseteq WayOf(alias, k)
         /\ alias[k] = NoPerson => WayOf(alias, k) = {k}
         /\ alias[k] # NoPerson =>
              alias[k] \in Person /\ WayOf(alias, k) = {k} \cup WayOf(alias, alias[k])
<1>1. \A x \in WayOf(alias, k) : WayOf(alias, x) \subseteq WayOf(alias, k)
  BY WayIsClosed, WayIsLeast
<1>2. ASSUME alias[k] = NoPerson PROVE WayOf(alias, k) = {k}
  <2>1. ClosedUnder(alias, {k})
    BY <1>2 DEF ClosedUnder
  <2>2. WayOf(alias, k) \subseteq {k}
    BY <2>1, WayIsLeast
  <2> QED BY <2>2, WayIsClosed
<1>3. ASSUME alias[k] # NoPerson
      PROVE  alias[k] \in Person /\ WayOf(alias, k) = {k} \cup WayOf(alias, alias[k])
  <2>1. alias[k] \in Person
    BY <1>3 DEF Aliases
  <2>2. ClosedUnder(alias, {k} \cup WayOf(alias, alias[k]))
    BY <2>1, WayIsClosed DEF ClosedUnder
  <2>3. {k} \cup WayOf(alias, alias[k]) \in SUBSET Person
    BY <2>1, WayIsClosed
  <2>4. WayOf(alias, k) \subseteq {k} \cup WayOf(alias, alias[k])
    BY <2>2, <2>3, WayIsLeast
  <2>5. k \in WayOf(alias, k) /\ alias[k] \in WayOf(alias, k)
    BY <1>3, WayIsClosed DEF ClosedUnder
  <2> QED BY <1>1, <2>1, <2>4, <2>5
<1> QED BY <1>1, <1>2, <1>3

(* Of two keys on the way from one, one is on the way from the other.      *)
LEMMA WayIsALine ==
  ASSUME NEW alias \in Aliases, NEW k \in Person, NEW x \in WayOf(alias, k)
  PROVE  \A y \in WayOf(alias, k) : x \in WayOf(alias, y) \/ y \in WayOf(alias, x)
<1> DEFINE line == {y \in WayOf(alias, k) : x \in WayOf(alias, y) \/ y \in WayOf(alias, x)}
<1>1. line \in SUBSET Person /\ x \in Person
  BY WayIsClosed
<1>2. k \in line
  BY WayIsClosed
<1>3. ASSUME NEW y \in line, alias[y] # NoPerson PROVE alias[y] \in line
  <2>1. y \in Person /\ alias[y] \in WayOf(alias, k)
    BY <1>1, <1>3, WayIsClosed DEF ClosedUnder
  <2>2. CASE y \in WayOf(alias, x)
    BY <1>1, <1>3, <2>1, <2>2, WayIsClosed DEF ClosedUnder
  <2>3. CASE x \in WayOf(alias, y) /\ y \notin WayOf(alias, x)
    <3>1. x # y
      BY <1>1, <2>3, WayIsClosed
    <3>2. x \in WayOf(alias, alias[y])
      BY <1>3, <2>1, <2>3, <3>1, WayGoesOn
    <3> QED BY <2>1, <3>2
  <2> QED BY <2>2, <2>3
<1>4. WayOf(alias, k) \subseteq line
  <2>1. ClosedUnder(alias, line)
    BY <1>3 DEF ClosedUnder
  <2> HIDE DEF line
  <2> QED BY <1>1, <1>2, <2>1, WayIsLeast
<1> QED BY <1>4

(* The walk along the edges from a key is a function on so many steps.     *)
IsWalk(alias, k, n, walk) ==
  walk = [m \in 0..n |->
            IF m = 0 THEN k
            ELSE IF alias[walk[m - 1]] = NoPerson THEN walk[m - 1] ELSE alias[walk[m - 1]]]

LEMMA WalkExists ==
  ASSUME NEW alias, NEW k, NEW n \in Nat
  PROVE  \E walk : IsWalk(alias, k, n, walk)
<1> USE DEF IsWalk
<1> DEFINE Walks(m) == \E walk : IsWalk(alias, k, m, walk)
           short == {m \in Nat : ~Walks(m)}
<1> SUFFICES ASSUME short # {} PROVE FALSE
  OBVIOUS
<1>1. PICK m \in short : \A other \in short : ~(<<other, m>> \in OpToRel(<, Nat))
  BY WFMin, NatLessThanWellFounded
<1>2. m # 0
  <2>1. Walks(0)
    <3> DEFINE walk == [i \in 0..0 |-> k]
    <3>1. walk = [i \in 0..0 |->
               IF i = 0 THEN k
               ELSE IF alias[walk[i - 1]] = NoPerson THEN walk[i - 1] ELSE alias[walk[i - 1]]]
      OBVIOUS
    <3> HIDE DEF walk
    <3> QED BY <3>1
  <2> QED BY <2>1
<1>3. m \in Nat /\ m - 1 \in Nat /\ m - 1 < m
  BY <1>2
<1>4. Walks(m - 1)
  <2>1. ~(m - 1 \in short)
    BY <1>1, <1>3 DEF OpToRel
  <2> QED BY <1>3, <2>1
<1>5. PICK walk : walk = [i \in 0..m - 1 |->
               IF i = 0 THEN k
               ELSE IF alias[walk[i - 1]] = NoPerson THEN walk[i - 1] ELSE alias[walk[i - 1]]]
  BY <1>4
<1> DEFINE last == walk[m - 1]
           longer == [i \in 0..m |-> IF i < m THEN walk[i]
                                     ELSE IF alias[last] = NoPerson THEN last ELSE alias[last]]
<1>6. ASSUME NEW i \in 0..m
      PROVE  longer[i] = IF i = 0 THEN k
                         ELSE IF alias[longer[i - 1]] = NoPerson THEN longer[i - 1]
                              ELSE alias[longer[i - 1]]
  <2>1. CASE i = m
    <3>1. m - 1 \in 0..m /\ longer[m - 1] = last /\ i # 0
      BY <1>2, <1>3, <2>1
    <3>2. longer[i] = IF alias[last] = NoPerson THEN last ELSE alias[last]
      BY <1>3, <2>1
    <3> QED BY <2>1, <3>1, <3>2
  <2>2. CASE i # m /\ i # 0
    <3>1. i \in 0..m - 1 /\ i - 1 \in 0..m /\ i - 1 < m
      BY <1>3, <2>2
    <3>2. longer[i] = walk[i] /\ longer[i - 1] = walk[i - 1]
      BY <1>3, <2>2, <3>1
    <3>3. walk[i] = IF alias[walk[i - 1]] = NoPerson THEN walk[i - 1] ELSE alias[walk[i - 1]]
      BY <1>5, <2>2, <3>1
    <3> QED BY <2>2, <3>2, <3>3
  <2>3. CASE i # m /\ i = 0
    <3>1. longer[0] = walk[0] /\ walk[0] = k
      BY <1>2, <1>3, <1>5
    <3> QED BY <2>3, <3>1
  <2> QED BY <2>1, <2>2, <2>3
<1>7. longer = [i \in 0..m |-> IF i = 0 THEN k
                               ELSE IF alias[longer[i - 1]] = NoPerson THEN longer[i - 1]
                                    ELSE alias[longer[i - 1]]]
  <2> HIDE DEF last
  <2>1. longer = [i \in 0..m |-> longer[i]]
    OBVIOUS
  <2> HIDE DEF longer
  <2> QED BY <1>6, <2>1
<1> HIDE DEF longer
<1>8. Walks(m)
  BY <1>7
<1> QED BY <1>1, <1>8

LEMMA PersonsCounted == Cardinality(Person) \in Nat /\ IsFiniteSet(Person)
BY PersonAssumption, FS_CardinalityType

LEMMA EndIsOfWalk ==
  ASSUME NEW alias, NEW k
  PROVE  \E walk : /\ EndOf(alias, k) = walk[Cardinality(Person)] /\ walk[0] = k
                   /\ \A m \in 1..Cardinality(Person) :
                        walk[m] = IF alias[walk[m - 1]] = NoPerson THEN walk[m - 1]
                                  ELSE alias[walk[m - 1]]
<1> DEFINE root[n \in 0..Cardinality(Person)] ==
             IF n = 0 THEN k
             ELSE IF alias[root[n - 1]] = NoPerson THEN root[n - 1] ELSE alias[root[n - 1]]
<1>1. Cardinality(Person) \in Nat
  BY PersonsCounted
<1>2. root = [n \in 0..Cardinality(Person) |->
                IF n = 0 THEN k
                ELSE IF alias[root[n - 1]] = NoPerson THEN root[n - 1] ELSE alias[root[n - 1]]]
  <2>1. \E walk : walk = [n \in 0..Cardinality(Person) |->
                IF n = 0 THEN k
                ELSE IF alias[walk[n - 1]] = NoPerson THEN walk[n - 1] ELSE alias[walk[n - 1]]]
    <3> HIDE DEF root
    <3>1. \E walk : IsWalk(alias, k, Cardinality(Person), walk)
      BY <1>1, WalkExists
    <3> QED BY <3>1 DEF IsWalk
  <2> QED BY <2>1, Zenon DEF root
<1>3. EndOf(alias, k) = root[Cardinality(Person)]
  BY DEF EndOf, root
<1> HIDE DEF root
<1>4. root[0] = k
  BY <1>1, <1>2
<1>5. ASSUME NEW m \in 1..Cardinality(Person)
      PROVE  root[m] = IF alias[root[m - 1]] = NoPerson THEN root[m - 1] ELSE alias[root[m - 1]]
  BY <1>1, <1>2
<1> QED BY <1>3, <1>4, <1>5

(* Without a cycle the walk ends: each step leaves a key behind for good.  *)
LEMMA EndIsRoot ==
  ASSUME NEW alias \in Aliases, NoCycle(alias), NEW k \in Person
  PROVE  EndOf(alias, k) \in WayOf(alias, k) /\ alias[EndOf(alias, k)] = NoPerson
<1> DEFINE size == Cardinality(Person)
           Left(x) == Cardinality(WayOf(alias, x))
<1>1. size \in Nat /\ IsFiniteSet(Person)
  BY PersonsCounted
<1>2. PICK walk : /\ EndOf(alias, k) = walk[size] /\ walk[0] = k
                  /\ \A m \in 1..size : walk[m] = IF alias[walk[m - 1]] = NoPerson THEN walk[m - 1]
                                                  ELSE alias[walk[m - 1]]
  BY EndIsOfWalk
<1>3. \A x \in Person : IsFiniteSet(WayOf(alias, x)) /\ Left(x) \in Nat /\ Left(x) =< size /\ Left(x) # 0
  <2> SUFFICES ASSUME NEW x \in Person
               PROVE  IsFiniteSet(WayOf(alias, x)) /\ Left(x) \in Nat /\ Left(x) =< size /\ Left(x) # 0
    OBVIOUS
  <2>1. WayOf(alias, x) \in SUBSET Person /\ WayOf(alias, x) # {}
    BY WayIsClosed
  <2>2. IsFiniteSet(WayOf(alias, x)) /\ Left(x) =< size
    BY <1>1, <2>1, FS_Subset
  <2> QED BY <2>1, <2>2, FS_CardinalityType, FS_EmptySet
<1>4. ASSUME NEW x \in Person, alias[x] # NoPerson
      PROVE  alias[x] \in Person /\ Left(alias[x]) < Left(x)
  <2>1. alias[x] \in Person /\ WayOf(alias, x) = {x} \cup WayOf(alias, alias[x])
    BY <1>4, WayGoesOn
  <2>2. x \notin WayOf(alias, alias[x])
    BY <1>4 DEF NoCycle
  <2>3. IsFiniteSet(WayOf(alias, alias[x]))
    BY <1>3, <2>1
  <2>4. Cardinality(WayOf(alias, alias[x]) \cup {x}) = Cardinality(WayOf(alias, alias[x])) + 1
    BY <2>2, <2>3, FS_AddElement
  <2>5. WayOf(alias, x) = WayOf(alias, alias[x]) \cup {x}
    BY <2>1
  <2>6. Left(x) = Left(alias[x]) + 1
    BY <2>4, <2>5
  <2>7. Left(x) \in Nat /\ Left(alias[x]) \in Nat
    BY <1>3, <2>1
  <2> HIDE DEF Left
  <2> QED BY <2>1, <2>6, <2>7
<1> DEFINE OnCourse(m) ==
             walk[m] \in WayOf(alias, k) /\ (alias[walk[m]] = NoPerson \/ Left(walk[m]) + m =< size)
           wrong == {m \in 0..size : ~OnCourse(m)}
<1>5. wrong = {}
  <2> SUFFICES ASSUME wrong # {} PROVE FALSE
    OBVIOUS
  <2>1. wrong \subseteq Nat
    BY <1>1
  <2>2. PICK m \in wrong : \A other \in wrong : ~(<<other, m>> \in OpToRel(<, Nat))
    <3> HIDE DEF wrong
    <3> QED BY <2>1, WFMin, NatLessThanWellFounded
  <2>3. k \in WayOf(alias, k) /\ Left(k) =< size /\ Left(k) \in Nat
    BY <1>3, WayIsClosed
  <2> HIDE DEF Left
  <2>4. OnCourse(0)
    BY <1>1, <1>2, <2>3
  <2>5. m \in 1..size /\ m - 1 \in 0..size /\ m - 1 \in Nat /\ m - 1 < m /\ m \in Nat
    BY <1>1, <2>4
  <2>6. OnCourse(m - 1)
    <3>1. m - 1 \notin wrong
      BY <2>2, <2>5 DEF OpToRel
    <3> QED BY <2>5, <3>1
  <2>7. walk[m] = IF alias[walk[m - 1]] = NoPerson THEN walk[m - 1] ELSE alias[walk[m - 1]]
    BY <1>2, <2>5
  <2>8. walk[m - 1] \in Person /\ walk[m - 1] \in WayOf(alias, k)
    BY <2>6, WayIsClosed
  <2>9. CASE alias[walk[m - 1]] = NoPerson
    <3>1. OnCourse(m)
      BY <2>6, <2>7, <2>9
    <3> QED BY <3>1
  <2>10. CASE alias[walk[m - 1]] # NoPerson
    <3>1. walk[m] \in WayOf(alias, k) /\ walk[m] \in Person
      BY <2>7, <2>8, <2>10, WayIsClosed DEF ClosedUnder
    <3>2. Left(walk[m]) < Left(walk[m - 1])
      BY <1>4, <2>7, <2>8, <2>10
    <3>3. Left(walk[m]) \in Nat /\ Left(walk[m - 1]) \in Nat
      BY <1>3, <2>8, <3>1
    <3>4. Left(walk[m - 1]) + (m - 1) =< size
      BY <2>6, <2>10
    <3>5. Left(walk[m]) + m =< size
      BY <1>1, <2>5, <3>2, <3>3, <3>4
    <3> QED BY <3>1, <3>5
  <2> QED BY <2>9, <2>10
<1>6. OnCourse(size)
  BY <1>1, <1>5
<1>7. ~(Left(walk[size]) + size =< size)
  <2>1. walk[size] \in Person
    BY <1>6, WayIsClosed
  <2> HIDE DEF Left
  <2> QED BY <1>1, <1>3, <2>1
<1> QED BY <1>2, <1>6, <1>7

(* It is the one key on the way that is no alias of another.               *)
LEMMA EndIsOne ==
  ASSUME NEW alias \in Aliases, NoCycle(alias), NEW k \in Person,
         NEW end \in WayOf(alias, k), alias[end] = NoPerson
  PROVE  EndOf(alias, k) = end
<1> DEFINE root == EndOf(alias, k)
<1>1. root \in WayOf(alias, k) /\ alias[root] = NoPerson
  BY EndIsRoot
<1> HIDE DEF root
<1>2. root \in Person /\ end \in Person
  BY <1>1, WayIsClosed
<1>3. WayOf(alias, root) = {root} /\ WayOf(alias, end) = {end}
  BY <1>1, <1>2, WayGoesOn
<1>4. root \in WayOf(alias, end) \/ end \in WayOf(alias, root)
  BY <1>1, WayIsALine
<1>5. root = end
  BY <1>3, <1>4
<1> QED BY <1>5 DEF root

(* A merge: a key without alias gets the end of another as its own.        *)
LEMMA MergeMovesGroup ==
  ASSUME NEW alias \in Aliases, NoCycle(alias), NEW from \in Person, NEW into \in Person,
         alias[from] = NoPerson, alias[into] = NoPerson, from # into
  PROVE  LET merged == [alias EXCEPT ![from] = into] IN
         /\ merged \in Aliases /\ NoCycle(merged)
         /\ \A k \in Person :
              EndOf(merged, k) = IF EndOf(alias, k) = from THEN into ELSE EndOf(alias, k)
<1> DEFINE merged == [alias EXCEPT ![from] = into]
<1>1. /\ merged \in Aliases /\ merged[from] = into /\ merged[into] = NoPerson
      /\ \A k \in Person : k # from => merged[k] = alias[k]
  BY DEF Aliases
<1> HIDE DEF merged
<1>2. ASSUME NEW k \in Person PROVE WayOf(merged, k) \subseteq WayOf(alias, k) \cup {into}
  <2>1. WayOf(alias, k) \cup {into} \in SUBSET Person /\ k \in WayOf(alias, k)
    BY WayIsClosed
  <2>2. ASSUME NEW x \in WayOf(alias, k) \cup {into}, merged[x] # NoPerson
        PROVE  merged[x] \in WayOf(alias, k) \cup {into}
    <3>1. CASE x = from \/ x = into
      BY <1>1, <2>2, <3>1
    <3>2. CASE x # from /\ x # into
      BY <1>1, <2>1, <2>2, <3>2, WayIsClosed DEF ClosedUnder
    <3> QED BY <3>1, <3>2
  <2>3. ClosedUnder(merged, WayOf(alias, k) \cup {into})
    BY <2>2 DEF ClosedUnder
  <2> QED BY <2>1, <2>3, WayIsLeast
<1>3. NoCycle(merged)
  <2> SUFFICES ASSUME NEW k \in Person, merged[k] # NoPerson PROVE k \notin WayOf(merged, merged[k])
    BY DEF NoCycle
  <2>1. k # into
    BY <1>1
  <2>2. CASE k = from
    <3>1. WayOf(alias, into) = {into}
      BY WayGoesOn
    <3> QED BY <1>1, <1>2, <2>1, <2>2, <3>1
  <2>3. CASE k # from
    <3>1. alias[k] # NoPerson /\ merged[k] = alias[k] /\ alias[k] \in Person
      BY <1>1, <2>3 DEF Aliases
    <3> QED BY <1>2, <2>1, <3>1 DEF NoCycle
  <2> QED BY <2>2, <2>3
<1>4. ASSUME NEW k \in Person PROVE WayOf(alias, k) \subseteq WayOf(merged, k)
  <2>1. WayOf(merged, k) \in SUBSET Person /\ k \in WayOf(merged, k) /\ ClosedUnder(merged, WayOf(merged, k))
    BY <1>1, WayIsClosed
  <2>2. ClosedUnder(alias, WayOf(merged, k))
    BY <1>1, <2>1 DEF ClosedUnder
  <2> QED BY <2>1, <2>2, WayIsLeast
<1>5. ASSUME NEW k \in Person
      PROVE  EndOf(merged, k) = IF EndOf(alias, k) = from THEN into ELSE EndOf(alias, k)
  <2>1. EndOf(alias, k) \in WayOf(alias, k) /\ alias[EndOf(alias, k)] = NoPerson /\ EndOf(alias, k) \in Person
    BY EndIsRoot, WayIsClosed
  <2>2. CASE EndOf(alias, k) # from
    <3>1. EndOf(alias, k) \in WayOf(merged, k) /\ merged[EndOf(alias, k)] = NoPerson
      BY <1>1, <1>4, <2>1, <2>2
    <3>2. EndOf(merged, k) = EndOf(alias, k)
      BY <1>1, <1>3, <3>1, EndIsOne
    <3> QED BY <2>2, <3>2
  <2>3. CASE EndOf(alias, k) = from
    <3>1. from \in WayOf(merged, k)
      BY <1>4, <2>1, <2>3
    <3>2. into \in WayOf(merged, k)
      BY <1>1, <3>1, WayIsClosed, PersonAssumption DEF ClosedUnder
    <3>3. EndOf(merged, k) = into
      BY <1>1, <1>3, <3>2, EndIsOne
    <3> QED BY <2>3, <3>3
  <2> QED BY <2>2, <2>3
<1> QED BY <1>1, <1>3, <1>5 DEF merged

(* An edge that goes makes its key the end of those that led through it.   *)
LEMMA DetachSplitsGroup ==
  ASSUME NEW alias \in Aliases, NoCycle(alias), NEW gone \in Person
  PROVE  LET cut == [alias EXCEPT ![gone] = NoPerson] IN
         /\ cut \in Aliases /\ NoCycle(cut)
         /\ \A k \in Person :
              EndOf(cut, k) = IF gone \in WayOf(alias, k) THEN gone ELSE EndOf(alias, k)
<1> DEFINE cut == [alias EXCEPT ![gone] = NoPerson]
<1>1. /\ cut \in Aliases /\ cut[gone] = NoPerson
      /\ \A k \in Person : k # gone => cut[k] = alias[k]
  BY DEF Aliases
<1> HIDE DEF cut
<1>2. ASSUME NEW k \in Person PROVE WayOf(cut, k) \subseteq WayOf(alias, k)
  <2>1. WayOf(alias, k) \in SUBSET Person /\ k \in WayOf(alias, k) /\ ClosedUnder(alias, WayOf(alias, k))
    BY WayIsClosed
  <2>2. ClosedUnder(cut, WayOf(alias, k))
    BY <1>1, <2>1 DEF ClosedUnder
  <2> QED BY <2>1, <2>2, WayIsLeast
<1>3. NoCycle(cut)
  <2> SUFFICES ASSUME NEW k \in Person, cut[k] # NoPerson PROVE k \notin WayOf(cut, cut[k])
    BY DEF NoCycle
  <2>1. alias[k] # NoPerson /\ cut[k] = alias[k] /\ alias[k] \in Person
    BY <1>1 DEF Aliases
  <2> QED BY <1>2, <2>1 DEF NoCycle
<1>4. ASSUME NEW k \in Person, gone \notin WayOf(cut, k) PROVE WayOf(alias, k) \subseteq WayOf(cut, k)
  <2>1. WayOf(cut, k) \in SUBSET Person /\ k \in WayOf(cut, k) /\ ClosedUnder(cut, WayOf(cut, k))
    BY <1>1, WayIsClosed
  <2>2. ClosedUnder(alias, WayOf(cut, k))
    BY <1>1, <1>4, <2>1 DEF ClosedUnder
  <2> QED BY <2>1, <2>2, WayIsLeast
<1>5. ASSUME NEW k \in Person
      PROVE  EndOf(cut, k) = IF gone \in WayOf(alias, k) THEN gone ELSE EndOf(alias, k)
  <2>1. EndOf(alias, k) \in WayOf(alias, k) /\ alias[EndOf(alias, k)] = NoPerson /\ EndOf(alias, k) \in Person
    BY EndIsRoot, WayIsClosed
  <2>2. CASE gone \in WayOf(alias, k)
    <3>1. gone \in WayOf(cut, k)
      BY <1>4, <2>2
    <3>2. EndOf(cut, k) = gone
      BY <1>1, <1>3, <3>1, EndIsOne
    <3> QED BY <2>2, <3>2
  <2>3. CASE gone \notin WayOf(alias, k)
    <3>1. EndOf(alias, k) \in WayOf(cut, k)
      BY <1>2, <1>4, <2>1, <2>3
    <3>2. cut[EndOf(alias, k)] = NoPerson
      BY <1>1, <2>1
    <3>3. EndOf(cut, k) = EndOf(alias, k)
      BY <1>1, <1>3, <3>1, <3>2, EndIsOne
    <3> QED BY <2>3, <3>3
  <2> QED BY <2>2, <2>3
<1> QED BY <1>1, <1>3, <1>5 DEF cut

-----------------------------------------------------------------------------
PersonTyped ==
  /\ aliasOf \in Aliases
  /\ tombs \subseteq Person /\ described \subseteq Person
  /\ erasing \in [tomb : SUBSET Person, blank : SUBSET Person, detach : SUBSET Person,
                  root : Person \cup {NoPerson}]
  /\ sought \subseteq SUBSET Person /\ erased \subseteq sought

(* Nothing is left of a group and nothing will be.                         *)
Gone(keys) == keys \subseteq tombs /\ keys \cap described = {}

(* What somebody asked to erase is one group until it is gone.             *)
SoughtTogether ==
  \A g \in sought : Gone(g) \/ \A j, k \in g : Canonical(j) = Canonical(k)

(* Whatever is of one group with a key that is yet to be detached has been *)
(* tombstoned, or is about to be; and blanked.                             *)
ErasureCovers ==
  \A e \in (erasing.detach \cup {erasing.root}) \cap Person :
    \A k \in Person : Canonical(k) = Canonical(e) =>
      k \in tombs \cup erasing.tomb /\ (k \in described => k \in erasing.blank)

PersonInv ==
  PersonTyped /\ NoCycle(aliasOf) /\ SoughtTogether /\ ErasureCovers /\ ErasedForGood

LEMMA PersonsInitially == PersonInit => PersonInv
<1> SUFFICES ASSUME PersonInit PROVE PersonInv
  OBVIOUS
<1>1. aliasOf = [k \in Person |-> NoPerson] /\ erasing = NoErasure
  BY DEF PersonInit
<1>2. PersonTyped
  BY <1>1 DEF PersonInit, PersonTyped, Aliases, NoErasure
<1>3. NoCycle(aliasOf)
  BY <1>1 DEF NoCycle
<1>4. ErasureCovers
  BY <1>1, PersonAssumption DEF ErasureCovers, NoErasure
<1> QED BY <1>2, <1>3, <1>4 DEF PersonInit, PersonInv, SoughtTogether, ErasedForGood

(* With the edges as they are, so are the ends.                            *)
LEMMA EndsStay ==
  ASSUME UNCHANGED aliasOf PROVE \A k : Canonical(k)' = Canonical(k)
BY CanonicalIsEnd

LEMMA CanonicalRoot ==
  ASSUME aliasOf \in Aliases, NoCycle(aliasOf), NEW k \in Person
  PROVE  /\ Canonical(k) \in Person /\ aliasOf[Canonical(k)] = NoPerson
         /\ Canonical(Canonical(k)) = Canonical(k)
<1>1. EndOf(aliasOf, k) \in WayOf(aliasOf, k) /\ aliasOf[EndOf(aliasOf, k)] = NoPerson
  BY EndIsRoot
<1>2. EndOf(aliasOf, k) \in Person
  BY <1>1, WayIsClosed
<1>3. EndOf(aliasOf, k) \in WayOf(aliasOf, EndOf(aliasOf, k))
  BY <1>2, WayIsClosed
<1>4. EndOf(aliasOf, EndOf(aliasOf, k)) = EndOf(aliasOf, k)
  BY <1>1, <1>2, <1>3, EndIsOne
<1> QED BY <1>1, <1>2, <1>4, CanonicalIsEnd

LEMMA PersonInvStep == PersonInv /\ [PersonNext]_personVars => PersonInv'
<1> SUFFICES ASSUME PersonInv, [PersonNext]_personVars PROVE PersonInv'
  OBVIOUS
<1>1. PersonTyped /\ NoCycle(aliasOf) /\ SoughtTogether /\ ErasureCovers /\ ErasedForGood
  BY DEF PersonInv
<1>2. aliasOf \in Aliases
  BY <1>1 DEF PersonTyped
<1>3. ASSUME erasing' = NoErasure PROVE ErasureCovers'
  BY <1>3, PersonAssumption DEF ErasureCovers, NoErasure
<1>4. ASSUME tombs \subseteq tombs', \A k \in described' \ described : k \notin tombs
      PROVE  \A keys : Gone(keys) => Gone(keys)'
  BY <1>4 DEF Gone
<1>5. ASSUME UNCHANGED aliasOf, tombs \subseteq tombs', \A k \in described' \ described : k \notin tombs,
             UNCHANGED <<sought, erased>>
      PROVE  NoCycle(aliasOf)' /\ SoughtTogether' /\ ErasedForGood'
  <2>1. \A k : Canonical(k)' = Canonical(k)
    BY <1>5, EndsStay
  <2>2. \A keys : Gone(keys) => Gone(keys)'
    BY <1>4, <1>5
  <2>3. NoCycle(aliasOf)'
    BY <1>1, <1>5
  <2>4. SoughtTogether'
    BY <1>1, <1>5, <2>1, <2>2 DEF SoughtTogether
  <2>5. ErasedForGood'
    BY <1>1, <1>5 DEF ErasedForGood
  <2> QED BY <2>3, <2>4, <2>5
<1>6. NoErasure \in [tomb : SUBSET Person, blank : SUBSET Person, detach : SUBSET Person,
                     root : Person \cup {NoPerson}]
  BY DEF NoErasure
<1>10. ASSUME NEW k \in Person, SetProperties(k) PROVE PersonInv'
  <2>1. /\ erasing = NoErasure /\ k \notin tombs /\ described' \in {described \cup {k}, described \ {k}}
        /\ UNCHANGED <<aliasOf, tombs, erasing, sought, erased>>
    BY <1>10 DEF SetProperties, PersonsFree, IsErased
  <2>2. PersonTyped'
    BY <1>1, <2>1 DEF PersonTyped
  <2>3. NoCycle(aliasOf)' /\ SoughtTogether' /\ ErasedForGood'
    BY <1>5, <2>1
  <2> QED BY <1>3, <2>1, <2>2, <2>3 DEF PersonInv
<1>11. ASSUME NEW k \in Person, Erase(k) PROVE PersonInv'
  <2> DEFINE root == Canonical(k)
             keys == KeysOf(root)
  <2>1. /\ erasing' = [tomb |-> keys, blank |-> keys, detach |-> keys \ {root}, root |-> root]
        /\ sought' = sought \cup {keys}
        /\ UNCHANGED <<aliasOf, tombs, described, erased>>
    BY <1>11 DEF Erase, EraseKeys
  <2>2. keys \subseteq Person /\ \A x \in Person : x \in keys <=> Canonical(x) = root
    BY DEF KeysOf
  <2>3. root \in Person /\ Canonical(root) = root
    BY <1>1, <1>2, CanonicalRoot
  <2> HIDE DEF root, keys
  <2>4. /\ erasing'.tomb = keys /\ erasing'.blank = keys /\ erasing'.detach = keys \ {root}
        /\ erasing'.root = root
    BY <2>1
  <2>5. PersonTyped'
    BY <1>1, <2>1, <2>2, <2>3 DEF PersonTyped
  <2>6. \A x : Canonical(x)' = Canonical(x)
    BY <2>1, EndsStay
  <2>7. SoughtTogether'
    <3>1. \A g \in sought : Gone(g) => Gone(g)'
      BY <2>1 DEF Gone
    <3> QED BY <1>1, <2>1, <2>2, <2>6, <3>1 DEF SoughtTogether
  <2>8. ErasureCovers'
    <3> SUFFICES ASSUME NEW e \in (erasing'.detach \cup {erasing'.root}) \cap Person,
                        NEW x \in Person, Canonical(x) = Canonical(e)
                 PROVE  x \in tombs' \cup erasing'.tomb /\ (x \in described' => x \in erasing'.blank)
      BY <2>6 DEF ErasureCovers
    <3>1. Canonical(e) = root
      BY <2>2, <2>3, <2>4
    <3> QED BY <2>2, <2>4, <3>1
  <2>9. ErasedForGood' /\ NoCycle(aliasOf)'
    BY <1>1, <2>1 DEF ErasedForGood
  <2> QED BY <2>5, <2>7, <2>8, <2>9 DEF PersonInv
<1>12. ASSUME NEW k \in Person, PutTombstone(k) PROVE PersonInv'
  <2>1. /\ tombs' = tombs \cup {k} /\ erasing' = [erasing EXCEPT !.tomb = @ \ {k}]
        /\ UNCHANGED <<aliasOf, described, sought, erased>>
    BY <1>12 DEF PutTombstone
  <2>2. /\ erasing'.tomb = erasing.tomb \ {k} /\ erasing'.blank = erasing.blank
        /\ erasing'.detach = erasing.detach /\ erasing'.root = erasing.root
    BY <1>1, <2>1 DEF PersonTyped
  <2>3. PersonTyped'
    BY <1>1, <2>1 DEF PersonTyped
  <2>4. NoCycle(aliasOf)' /\ SoughtTogether' /\ ErasedForGood'
    BY <1>5, <2>1
  <2>5. ErasureCovers'
    <3>1. \A x : Canonical(x)' = Canonical(x)
      BY <2>1, EndsStay
    <3> QED BY <1>1, <2>1, <2>2, <3>1 DEF ErasureCovers
  <2> QED BY <2>3, <2>4, <2>5 DEF PersonInv
<1>13. ASSUME NEW k \in Person, BlankProperties(k) PROVE PersonInv'
  <2>1. /\ described' = described \ {k} /\ erasing' = [erasing EXCEPT !.blank = @ \ {k}]
        /\ UNCHANGED <<aliasOf, tombs, sought, erased>>
    BY <1>13 DEF BlankProperties
  <2>2. /\ erasing'.blank = erasing.blank \ {k} /\ erasing'.tomb = erasing.tomb
        /\ erasing'.detach = erasing.detach /\ erasing'.root = erasing.root
    BY <1>1, <2>1 DEF PersonTyped
  <2>3. PersonTyped'
    BY <1>1, <2>1 DEF PersonTyped
  <2>4. NoCycle(aliasOf)' /\ SoughtTogether' /\ ErasedForGood'
    BY <1>5, <2>1
  <2>5. ErasureCovers'
    <3>1. \A x : Canonical(x)' = Canonical(x)
      BY <2>1, EndsStay
    <3> QED BY <1>1, <2>1, <2>2, <3>1 DEF ErasureCovers
  <2> QED BY <2>3, <2>4, <2>5 DEF PersonInv
<1>14. ASSUME NEW k \in Person, Detach(k) PROVE PersonInv'
  <2>1. /\ erasing.tomb = {} /\ erasing.blank = {} /\ k \in erasing.detach
        /\ aliasOf' = [aliasOf EXCEPT ![k] = NoPerson]
        /\ erasing' = [erasing EXCEPT !.detach = @ \ {k}]
        /\ UNCHANGED <<tombs, described, sought, erased>>
    BY <1>14 DEF Detach, DetachAllowed
  <2>2. /\ erasing'.detach = erasing.detach \ {k} /\ erasing'.tomb = {}
        /\ erasing'.blank = {} /\ erasing'.root = erasing.root
    BY <1>1, <2>1 DEF PersonTyped
  <2>3. aliasOf' \in Aliases /\ NoCycle(aliasOf')
    BY <1>1, <1>2, <2>1, DetachSplitsGroup
  <2>4. \A x \in Person : /\ EndOf(aliasOf', x) = IF k \in WayOf(aliasOf, x) THEN k ELSE EndOf(aliasOf, x)
                          /\ Canonical(x) = EndOf(aliasOf, x) /\ Canonical(x)' = EndOf(aliasOf', x)
    BY <1>1, <1>2, <2>1, DetachSplitsGroup, CanonicalIsEnd
  <2>5. \A x \in Person : Canonical(x)' = IF k \in WayOf(aliasOf, x) THEN k ELSE Canonical(x)
    BY <2>4
  <2>6. ASSUME NEW x \in Person, k \in WayOf(aliasOf, x) PROVE Canonical(x) = Canonical(k)
    <3>1. EndOf(aliasOf, k) \in WayOf(aliasOf, k) /\ aliasOf[EndOf(aliasOf, k)] = NoPerson
      BY <1>1, <1>2, EndIsRoot
    <3>2. EndOf(aliasOf, k) \in WayOf(aliasOf, x)
      BY <1>2, <2>6, <3>1, WayGoesOn
    <3>3. EndOf(aliasOf, x) = EndOf(aliasOf, k)
      BY <1>1, <1>2, <3>1, <3>2, EndIsOne
    <3> QED BY <2>4, <3>3
  <2>7. ASSUME NEW x \in Person, k \notin WayOf(aliasOf, x) PROVE Canonical(x) # k
    <3>1. EndOf(aliasOf, x) \in WayOf(aliasOf, x)
      BY <1>1, <1>2, EndIsRoot
    <3> QED BY <2>4, <2>7, <3>1
  <2>8. ASSUME NEW x \in Person, NEW y \in Person, Canonical(x)' = Canonical(y)'
        PROVE  Canonical(x) = Canonical(y)
    BY <2>5, <2>6, <2>7, <2>8
  <2>9. PersonTyped'
    BY <1>1, <2>1, <2>3 DEF PersonTyped
  <2>10. \A x \in Person : Canonical(x) = Canonical(k) => x \in tombs /\ x \notin described
    <3>1. k \in (erasing.detach \cup {erasing.root}) \cap Person
      BY <2>1
    <3> QED BY <1>1, <2>1, <3>1 DEF ErasureCovers
  <2>11. SoughtTogether'
    <3> SUFFICES ASSUME NEW g \in sought, ~Gone(g) PROVE \A x, y \in g : Canonical(x)' = Canonical(y)'
      BY <2>1 DEF SoughtTogether, Gone
    <3>1. g \subseteq Person /\ \A x, y \in g : Canonical(x) = Canonical(y)
      BY <1>1 DEF SoughtTogether, PersonTyped
    <3>2. \A x \in g : k \notin WayOf(aliasOf, x)
      <4> SUFFICES ASSUME NEW x \in g, k \in WayOf(aliasOf, x) PROVE Gone(g)
        OBVIOUS
      <4>1. \A y \in g : Canonical(y) = Canonical(k)
        BY <2>6, <3>1
      <4> QED BY <2>10, <3>1, <4>1 DEF Gone
    <3> QED BY <2>5, <3>1, <3>2
  <2>12. ErasureCovers'
    <3> SUFFICES ASSUME NEW e \in (erasing'.detach \cup {erasing'.root}) \cap Person,
                        NEW x \in Person, Canonical(x)' = Canonical(e)'
                 PROVE  x \in tombs' \cup erasing'.tomb /\ (x \in described' => x \in erasing'.blank)
      BY DEF ErasureCovers
    <3>1. e \in (erasing.detach \cup {erasing.root}) \cap Person /\ Canonical(x) = Canonical(e)
      BY <2>2, <2>8
    <3> QED BY <1>1, <2>1, <2>2, <3>1 DEF ErasureCovers
  <2>13. ErasedForGood'
    BY <1>1, <2>1 DEF ErasedForGood
  <2> QED BY <2>3, <2>9, <2>11, <2>12, <2>13 DEF PersonInv
<1>15. ASSUME NEW from \in Person, NEW into \in Person, MergePersons(from, into) PROVE PersonInv'
  <2>1. /\ erasing = NoErasure /\ aliasOf[from] = NoPerson /\ Canonical(into) # from
        /\ aliasOf' = [aliasOf EXCEPT ![from] = Canonical(into)]
        /\ UNCHANGED <<tombs, described, erasing, sought, erased>>
    BY <1>15 DEF MergePersons, PersonsFree
  <2>2. Canonical(into) \in Person /\ aliasOf[Canonical(into)] = NoPerson
    BY <1>1, <1>2, CanonicalRoot
  <2>3. PICK end \in Person : end = Canonical(into)
    BY <2>2
  <2>4. /\ aliasOf' \in Aliases /\ NoCycle(aliasOf')
        /\ \A x \in Person : EndOf(aliasOf', x) = IF EndOf(aliasOf, x) = from THEN end ELSE EndOf(aliasOf, x)
    <3>1. aliasOf' = [aliasOf EXCEPT ![from] = end] /\ aliasOf[end] = NoPerson /\ end # from
      BY <2>1, <2>2, <2>3
    <3>2. /\ aliasOf \in Aliases /\ NoCycle(aliasOf) /\ from # end
          /\ aliasOf[from] = NoPerson /\ aliasOf[end] = NoPerson
      BY <1>1, <1>2, <2>1, <3>1
    <3>3. [aliasOf EXCEPT ![from] = end] \in Aliases /\ NoCycle([aliasOf EXCEPT ![from] = end])
      BY <3>2, MergeMovesGroup
    <3>4. \A x \in Person : EndOf([aliasOf EXCEPT ![from] = end], x)
                             = IF EndOf(aliasOf, x) = from THEN end ELSE EndOf(aliasOf, x)
      BY <3>2, MergeMovesGroup
    <3> QED BY <3>1, <3>3, <3>4
  <2>5. \A x \in Person : Canonical(x)' = IF Canonical(x) = from THEN end ELSE Canonical(x)
    BY <2>4, CanonicalIsEnd
  <2>6. PersonTyped'
    BY <1>1, <2>1, <2>4 DEF PersonTyped
  <2>7. SoughtTogether'
    <3> SUFFICES ASSUME NEW g \in sought, ~Gone(g) PROVE \A x, y \in g : Canonical(x)' = Canonical(y)'
      BY <2>1 DEF SoughtTogether, Gone
    <3>1. g \subseteq Person /\ \A x, y \in g : Canonical(x) = Canonical(y)
      BY <1>1 DEF SoughtTogether, PersonTyped
    <3> QED BY <2>5, <3>1
  <2>8. ErasedForGood'
    BY <1>1, <2>1 DEF ErasedForGood
  <2> QED BY <1>3, <2>1, <2>4, <2>6, <2>7, <2>8 DEF PersonInv
<1>16. CASE EraseAnswered
  <2>1. /\ erasing # NoErasure /\ erasing.tomb = {} /\ erasing.blank = {} /\ erasing' = NoErasure
        /\ erased' = erased \cup {g \in sought : erasing.root \in g}
        /\ UNCHANGED <<aliasOf, tombs, described, sought>>
    BY <1>16 DEF EraseAnswered, PersonsFree
  <2>2. ASSUME NEW g \in sought, erasing.root \in g PROVE Gone(g)
    <3>1. g \subseteq Person
      BY <1>1 DEF PersonTyped
    <3>2. CASE \A j, k \in g : Canonical(j) = Canonical(k)
      <4>1. erasing.root \in (erasing.detach \cup {erasing.root}) \cap Person
        BY <2>2, <3>1
      <4>2. \A k \in g : k \in tombs /\ k \notin described
        BY <1>1, <2>1, <2>2, <3>1, <3>2, <4>1 DEF ErasureCovers
      <4> QED BY <4>2 DEF Gone
    <3> QED BY <1>1, <3>2 DEF SoughtTogether
  <2>3. ErasedForGood'
    BY <1>1, <2>1, <2>2 DEF ErasedForGood, Gone
  <2>4. PersonTyped'
    BY <1>1, <1>6, <2>1 DEF PersonTyped
  <2>5. SoughtTogether'
    <3>1. \A k : Canonical(k)' = Canonical(k)
      BY <2>1, EndsStay
    <3> QED BY <1>1, <2>1, <3>1 DEF SoughtTogether, Gone
  <2> QED BY <1>1, <1>3, <2>1, <2>3, <2>4, <2>5 DEF PersonInv
<1>17. CASE EraseFails
  <2>1. erasing' = NoErasure /\ UNCHANGED <<aliasOf, tombs, described, sought, erased>>
    BY <1>17 DEF EraseFails
  <2>2. PersonTyped'
    BY <1>1, <1>6, <2>1 DEF PersonTyped
  <2> QED BY <1>3, <1>5, <2>1, <2>2 DEF PersonInv
<1>18. CASE UNCHANGED personVars
  <2>1. UNCHANGED <<aliasOf, tombs, described, erasing, sought, erased>>
    BY <1>18 DEF personVars
  <2>2. \A k : Canonical(k)' = Canonical(k)
    BY <2>1, EndsStay
  <2>3. ErasureCovers'
    BY <1>1, <2>1, <2>2 DEF ErasureCovers
  <2>4. PersonTyped'
    BY <1>1, <2>1 DEF PersonTyped
  <2> QED BY <1>5, <2>1, <2>3, <2>4 DEF PersonInv
<1> QED BY <1>10, <1>11, <1>12, <1>13, <1>14, <1>15, <1>16, <1>17, <1>18 DEF PersonNext

(* What was asked for and answered is erased for good, whichever of a      *)
(* person's keys the interrupted attempts and the retry were made with,    *)
(* and every key has a canonical one, for any finite number of keys.       *)
THEOREM PersonTheorem == PersonSpec => [](PersonTypeOK /\ ErasureSound)
<1>1. PersonInit => PersonInv
  BY PersonsInitially
<1>2. PersonInv /\ [PersonNext]_personVars => PersonInv'
  BY PersonInvStep
<1>3. PersonInv => PersonTypeOK /\ ErasureSound
  <2> SUFFICES ASSUME PersonInv PROVE PersonTypeOK /\ ErasureSound
    OBVIOUS
  <2>1. PersonTypeOK
    BY DEF PersonInv, PersonTyped, PersonTypeOK, Aliases
  <2>2. AliasesEnd
    BY CanonicalRoot DEF PersonInv, PersonTyped, AliasesEnd
  <2> QED BY <2>1, <2>2 DEF PersonInv, ErasureSound
<1> QED BY <1>1, <1>2, <1>3, PTL DEF PersonSpec

-----------------------------------------------------------------------------
(***************************************************************************)
(* The walks of a funnel and the processes a metric is reduced from: their *)
(* types.  What the walks and the reducers answer is left to TLC.          *)
(***************************************************************************)

\* A walk that is not done has a step to come.
FunnelInv ==
  /\ fwAsked \in [steps : Steps, excluded : FunnelExcluded, window : 0..MaxFunnelTime]
  /\ FunnelTypeOK
  /\ ~fwWalk.done => fwWalk.idx < Len(fwAsked.steps)

LEMMA StepsAre ==
  ASSUME NEW steps \in Steps
  PROVE  Len(steps) \in Nat /\ Len(steps) >= 1 /\ DOMAIN steps = 1..Len(steps)
         /\ \A i \in 1..Len(steps) : steps[i] \in FunnelType
<1>1. PICK n \in 1..MaxFunnelSteps : steps \in [1..n -> FunnelType]
  BY DEF Steps
<1>2. n \in Nat /\ n >= 1
  BY FunnelAssumption, <1>1
<1> QED BY <1>1, <1>2

LEMMA FunnelTheorem == FunnelSpec => []FunnelTypeOK
<1>1. FunnelInit => FunnelInv
  <2> SUFFICES ASSUME FunnelInit PROVE FunnelInv
    OBVIOUS
  <2>1. fwAsked.steps \in Steps
    BY DEF FunnelInit
  <2> QED BY <2>1, StepsAre, FunnelAssumption DEF FunnelInit, FunnelInv, FunnelTypeOK
<1>2. FunnelInv /\ [FunnelNext]_funnelVars => FunnelInv'
  <2> SUFFICES ASSUME FunnelInv, [FunnelNext]_funnelVars PROVE FunnelInv'
    OBVIOUS
  <2>1. fwAsked.steps \in Steps
    BY DEF FunnelInv
  <2>2. Len(fwAsked.steps) \in Nat
    BY <2>1, StepsAre
  <2>3. CASE UNCHANGED funnelVars
    BY <2>3 DEF FunnelInv, FunnelTypeOK, funnelVars
  <2>4. CASE FunnelNext
    <3>1. PICK type \in FunnelType, ts \in 0..MaxFunnelTime :
            /\ fwEvents' = Append(fwEvents, [type |-> type, ts |-> ts])
            /\ fwWalk' = Pushed([type |-> type, ts |-> ts])
            /\ spWalk' = Matched([type |-> type, ts |-> ts])
      BY <2>4 DEF FunnelNext
    <3>2. fwAsked' = fwAsked
      BY <2>4 DEF FunnelNext
    <3>3. fwEvents' \in Seq([type : FunnelType, ts : 0..MaxFunnelTime])
      BY <3>1 DEF FunnelInv, FunnelTypeOK
    <3>4. /\ fwWalk' \in [idx : 0..Len(fwAsked.steps), done : BOOLEAN, start : 0..MaxFunnelTime]
          /\ ~fwWalk'.done => fwWalk'.idx < Len(fwAsked.steps)
      <4> DEFINE n == Len(fwAsked.steps)
      <4>1. /\ fwWalk \in [idx : 0..n, done : BOOLEAN, start : 0..MaxFunnelTime]
            /\ ~fwWalk.done => fwWalk.idx < n
        BY DEF FunnelInv, FunnelTypeOK
      <4>2. \/ fwWalk' = fwWalk
            \/ fwWalk' = [fwWalk EXCEPT !.done = TRUE]
            \/ /\ ~fwWalk.done
               /\ \E start \in {ts, fwWalk.start} :
                    fwWalk' = [idx |-> fwWalk.idx + 1, done |-> fwWalk.idx + 1 = n, start |-> start]
        BY <3>1, Zenon DEF Pushed
      <4> HIDE DEF n
      <4>3. n \in Nat
        BY <2>2 DEF n
      <4>4. CASE fwWalk' = fwWalk \/ fwWalk' = [fwWalk EXCEPT !.done = TRUE]
        BY <4>1, <4>4 DEF n
      <4>5. ASSUME ~fwWalk.done, NEW start \in {ts, fwWalk.start},
                   fwWalk' = [idx |-> fwWalk.idx + 1, done |-> fwWalk.idx + 1 = n, start |-> start]
            PROVE  /\ fwWalk' \in [idx : 0..n, done : BOOLEAN, start : 0..MaxFunnelTime]
                   /\ ~fwWalk'.done => fwWalk'.idx < n
        <5>1. fwWalk.idx \in Nat /\ fwWalk.idx < n /\ start \in 0..MaxFunnelTime
          BY <4>1, <4>3, <4>5
        <5>2. fwWalk'.idx \in 0..n /\ (fwWalk'.idx # n => fwWalk'.idx < n) /\ fwWalk'.start = start /\ fwWalk'.idx = fwWalk.idx + 1
          BY <4>3, <4>5, <5>1
        <5>3. fwWalk'.done = (fwWalk'.idx = n)
          BY <4>5, <5>2
        <5> QED BY <4>5, <5>1, <5>2, <5>3
      <4> QED BY <4>1, <4>2, <4>4, <4>5 DEF n
    <3>5. spWalk' \in [idx : 0..Len(fwAsked.steps), last : 0..MaxFunnelTime]
      BY <2>2, <3>1 DEF FunnelInv, FunnelTypeOK, Matched
    <3> QED BY <3>2, <3>3, <3>4, <3>5 DEF FunnelInv, FunnelTypeOK
  <2> QED BY <2>3, <2>4
<1>3. FunnelInv => FunnelTypeOK
  BY DEF FunnelInv
<1> QED BY <1>1, <1>2, <1>3, PTL DEF FunnelSpec

\* Nothing was counted, and nobody started, more often than it was observed.
MrInv ==
  /\ mrSeen \in 0..MaxMrObservations /\ mrTime \in 0..MaxMrScrapes
  /\ mrNow \in [MrSeries -> [MrBucket -> 0..mrSeen]] /\ mrEver \in [MrSeries -> [MrBucket -> 0..mrSeen]]
  /\ mrEpoch \in [MrSeries -> 0..mrSeen] /\ \A s \in MrSeries : mrNow[s] # MrZero => mrEpoch[s] < mrSeen
  /\ MrTypeOK

LEMMA CountsRise ==
  ASSUME NEW n \in Nat, NEW f \in [MrSeries -> [MrBucket -> 0..n]], NEW s \in MrSeries, NEW b \in MrBucket
  PROVE  [f EXCEPT ![s][b] = @ + 1] \in [MrSeries -> [MrBucket -> 0..(n + 1)]]
<1> DEFINE g == [f EXCEPT ![s][b] = @ + 1]
<1>1. g = [p \in MrSeries |-> IF p = s THEN [f[s] EXCEPT ![b] = @ + 1] ELSE f[p]]
  OBVIOUS
<1>2. [f[s] EXCEPT ![b] = @ + 1] \in [MrBucket -> 0..(n + 1)]
  OBVIOUS
<1>3. \A p \in MrSeries : f[p] \in [MrBucket -> 0..(n + 1)]
  OBVIOUS
<1> HIDE DEF g
<1> QED BY <1>1, <1>2, <1>3 DEF g

LEMMA MrTheorem == MrSpec => []MrTypeOK
<1> DEFINE MrCounts == [MrBucket -> 0..MaxMrObservations]
           MrRow == [series : MrSeries, ts : 1..MaxMrScrapes, counts : MrCounts, ever : MrCounts, epoch : 0..MaxMrObservations]
<1>0. MaxMrObservations \in Nat /\ MaxMrScrapes \in Nat
  BY MrAssumption
<1>1. MrInit => MrInv
  BY <1>0 DEF MrInit, MrInv, MrTypeOK, MrZero
<1>2. MrInv /\ [MrNext]_mrVars => MrInv'
  <2> SUFFICES ASSUME MrInv, [MrNext]_mrVars PROVE MrInv'
    OBVIOUS
  <2>1. /\ mrSeen \in Nat /\ mrTime \in Nat /\ mrRows \in Seq(MrRow) /\ MrZero \in [MrBucket -> 0..mrSeen]
        /\ mrNow \in [MrSeries -> MrCounts] /\ mrEver \in [MrSeries -> MrCounts] /\ mrEpoch \in [MrSeries -> 0..MaxMrObservations]
    BY <1>0 DEF MrInv, MrTypeOK, MrZero
  <2>2. CASE UNCHANGED mrVars
    BY <2>2 DEF MrInv, MrTypeOK, mrVars
  <2>3. ASSUME NEW s \in MrSeries, MrRestart(s) PROVE MrInv'
    <3>1. /\ mrNow' \in [MrSeries -> [MrBucket -> 0..mrSeen]] /\ mrNow' \in [MrSeries -> MrCounts]
          /\ \A p \in MrSeries : mrNow'[p] # MrZero => p # s /\ mrNow'[p] = mrNow[p]
      BY <1>0, <2>1, <2>3 DEF MrRestart, MrInv, MrZero
    <3>2. /\ mrEpoch' \in [MrSeries -> 0..mrSeen] /\ mrEpoch' \in [MrSeries -> 0..MaxMrObservations]
          /\ \A p \in MrSeries : p # s => mrEpoch'[p] = mrEpoch[p]
      BY <1>0, <2>1, <2>3 DEF MrRestart, MrInv
    <3>3. UNCHANGED <<mrEver, mrSeen, mrTime, mrRows>>
      BY <2>3 DEF MrRestart
    <3> QED BY <2>1, <3>1, <3>2, <3>3 DEF MrInv, MrTypeOK
  <2>4. ASSUME NEW s \in MrSeries, MrScrape(s) PROVE MrInv'
    <3> DEFINE row == [series |-> s, ts |-> mrTime + 1, counts |-> mrNow[s], ever |-> mrEver[s], epoch |-> mrEpoch[s]]
    <3>1. /\ mrTime' \in 1..MaxMrScrapes /\ mrTime' = mrTime + 1
          /\ UNCHANGED <<mrNow, mrEver, mrEpoch, mrSeen>>
      BY <1>0, <2>1, <2>4 DEF MrScrape
    <3>2. row \in MrRow
      BY <2>1, <3>1
    <3>3. \/ mrRows' = mrRows \o <<row, row>>
          \/ mrRows' = mrRows \o <<row>>
      BY <2>4 DEF MrScrape
    <3> HIDE DEF row, MrRow
    <3>4. mrRows' \in Seq(MrRow)
      <4>1. <<row>> \in Seq(MrRow) /\ <<row, row>> \in Seq(MrRow)
        BY <3>2
      <4>2. mrRows \in Seq(MrRow)
        BY <2>1
      <4>3. \A more \in Seq(MrRow) : mrRows \o more \in Seq(MrRow)
        BY <4>2
      <4> QED BY ONLY <3>3, <4>1, <4>3, Zenon
    <3> QED BY <3>1, <3>4 DEF MrInv, MrTypeOK, MrRow
  <2>5. ASSUME NEW s \in MrSeries, NEW b \in MrBucket, MrObserve(s, b) PROVE MrInv'
    <3>1. mrSeen' \in 0..MaxMrObservations /\ mrSeen' = mrSeen + 1 /\ UNCHANGED <<mrEpoch, mrTime, mrRows>>
      BY <1>0, <2>1, <2>5 DEF MrObserve
    <3>2. mrNow' \in [MrSeries -> [MrBucket -> 0..mrSeen']] /\ mrEver' \in [MrSeries -> [MrBucket -> 0..mrSeen']]
      BY <2>1, <2>5, <3>1, CountsRise DEF MrObserve, MrInv
    <3>3. mrNow' \in [MrSeries -> MrCounts] /\ mrEver' \in [MrSeries -> MrCounts]
      BY <1>0, <3>1, <3>2
    <3>4. mrEpoch' \in [MrSeries -> 0..mrSeen'] /\ \A p \in MrSeries : mrEpoch'[p] < mrSeen'
      BY <2>1, <3>1 DEF MrInv
    <3> QED BY <2>1, <3>1, <3>2, <3>3, <3>4 DEF MrInv, MrTypeOK
  <2> QED BY <2>2, <2>3, <2>4, <2>5 DEF MrNext
<1>3. MrInv => MrTypeOK
  BY DEF MrInv
<1> QED BY <1>1, <1>2, <1>3, PTL DEF MrSpec

-----------------------------------------------------------------------------
(***************************************************************************)
(* The composed specification.  A behaviour of MCRecords is, for every     *)
(* part, a behaviour of that part: the one its first state names takes the *)
(* part's own steps, and every other part stays where it began.            *)
(***************************************************************************)

(* No step moves the focus, and a part that is not in focus stays: what a  *)
(* step does to one part is a step of that part or nothing.                *)
LEMMA PartsStepOrStay ==
  ASSUME [MCNext]_mcVars
  PROVE  /\ [ReplayNext]_replayVars
         /\ [PersonNext]_personVars
         /\ [AuditNext]_auditVars
         /\ [SiteNext]_siteVars
         /\ [CohortNext]_cohortVars
         /\ [TokenNext]_tokenVars
         /\ [PrincipalNext]_principalVars
         /\ [ExportNext]_exportVars
         /\ [BackupNext]_backupVars
         /\ [RollNext]_rollVars
         /\ [UpgradeNext]_upgradeVars
         /\ [FunnelNext]_funnelVars
         /\ [MrNext]_mrVars
<1>1. CASE MCNext
  <2>1. [ReplayNext]_replayVars
    <3>1. CASE focus = "replays"
      BY <1>1, <3>1 DEF MCNext, PartNext
    <3>2. CASE focus # "replays"
      BY <1>1, <3>2 DEF MCNext, Still
    <3> QED
      BY <3>1, <3>2
  <2>2. [PersonNext]_personVars
    <3>1. CASE focus = "persons"
      BY <1>1, <3>1 DEF MCNext, PartNext
    <3>2. CASE focus # "persons"
      BY <1>1, <3>2 DEF MCNext, Still
    <3> QED
      BY <3>1, <3>2
  <2>3. [AuditNext]_auditVars
    <3>1. CASE focus = "audit"
      BY <1>1, <3>1 DEF MCNext, PartNext
    <3>2. CASE focus # "audit"
      BY <1>1, <3>2 DEF MCNext, Still
    <3> QED
      BY <3>1, <3>2
  <2>4. [SiteNext]_siteVars
    <3>1. CASE focus = "sites"
      BY <1>1, <3>1 DEF MCNext, PartNext
    <3>2. CASE focus # "sites"
      BY <1>1, <3>2 DEF MCNext, Still
    <3> QED
      BY <3>1, <3>2
  <2>5. [CohortNext]_cohortVars
    <3>1. CASE focus = "cohorts"
      BY <1>1, <3>1 DEF MCNext, PartNext
    <3>2. CASE focus # "cohorts"
      BY <1>1, <3>2 DEF MCNext, Still
    <3> QED
      BY <3>1, <3>2
  <2>6. [TokenNext]_tokenVars
    <3>1. CASE focus = "token"
      BY <1>1, <3>1 DEF MCNext, PartNext
    <3>2. CASE focus # "token"
      BY <1>1, <3>2 DEF MCNext, Still
    <3> QED
      BY <3>1, <3>2
  <2>7. [PrincipalNext]_principalVars
    <3>1. CASE focus = "principals"
      BY <1>1, <3>1 DEF MCNext, PartNext
    <3>2. CASE focus # "principals"
      BY <1>1, <3>2 DEF MCNext, Still
    <3> QED
      BY <3>1, <3>2
  <2>8. [ExportNext]_exportVars
    <3>1. CASE focus = "exports"
      BY <1>1, <3>1 DEF MCNext, PartNext
    <3>2. CASE focus # "exports"
      BY <1>1, <3>2 DEF MCNext, Still
    <3> QED
      BY <3>1, <3>2
  <2>9. [BackupNext]_backupVars
    <3>1. CASE focus = "backup"
      BY <1>1, <3>1 DEF MCNext, PartNext
    <3>2. CASE focus # "backup"
      BY <1>1, <3>2 DEF MCNext, Still
    <3> QED
      BY <3>1, <3>2
  <2>10. [RollNext]_rollVars
    <3>1. CASE focus = "rollups"
      BY <1>1, <3>1 DEF MCNext, PartNext
    <3>2. CASE focus # "rollups"
      BY <1>1, <3>2 DEF MCNext, Still
    <3> QED
      BY <3>1, <3>2
  <2>11. [UpgradeNext]_upgradeVars
    <3>1. CASE focus = "upgrade"
      BY <1>1, <3>1 DEF MCNext, PartNext
    <3>2. CASE focus # "upgrade"
      BY <1>1, <3>2 DEF MCNext, Still
    <3> QED
      BY <3>1, <3>2
  <2>12. [FunnelNext]_funnelVars
    <3>1. CASE focus = "funnels"
      BY <1>1, <3>1 DEF MCNext, PartNext
    <3>2. CASE focus # "funnels"
      BY <1>1, <3>2 DEF MCNext, Still
    <3> QED
      BY <3>1, <3>2
  <2>13. [MrNext]_mrVars
    <3>1. CASE focus = "reduce"
      BY <1>1, <3>1 DEF MCNext, PartNext
    <3>2. CASE focus # "reduce"
      BY <1>1, <3>2 DEF MCNext, Still
    <3> QED
      BY <3>1, <3>2
  <2> QED
    BY <2>1, <2>2, <2>3, <2>4, <2>5, <2>6, <2>7, <2>8, <2>9, <2>10, <2>11, <2>12, <2>13
<1>2. CASE UNCHANGED mcVars
  BY <1>2 DEF mcVars
<1> QED
  BY <1>1, <1>2

(* So whatever a part keeps on its own it keeps in the composed run.       *)
LEMMA PartsAreImplemented ==
  MCSpec => /\ ReplaySpec
            /\ PersonSpec
            /\ AuditSpec
            /\ SiteSpec
            /\ CohortSpec
            /\ TokenSpec
            /\ PrincipalSpec
            /\ ExportSpec
            /\ BackupSpec
            /\ RollSpec
            /\ UpgradeSpec
            /\ FunnelSpec
            /\ MrSpec
<1>1. MCInit => /\ ReplayInit
                /\ PersonInit
                /\ AuditInit
                /\ SiteInit
                /\ CohortInit
                /\ TokenInit
                /\ PrincipalInit
                /\ ExportInit
                /\ BackupInit
                /\ RollInit
                /\ UpgradeInit
                /\ FunnelInit
                /\ MrInit
  BY DEF MCInit
<1> QED
  BY <1>1, PartsStepOrStay, PTL DEF MCSpec, ReplaySpec, PersonSpec, AuditSpec, SiteSpec, CohortSpec, TokenSpec, PrincipalSpec, ExportSpec, BackupSpec, RollSpec,
     UpgradeSpec, FunnelSpec, MrSpec

(* What MCRecords says of the records and the jobs beside the pipelines    *)
(* holds in every reachable state of every behaviour: a row of the audit   *)
(* chain, an erased person, a replay's batches, a site and its manager, a  *)
(* cohort's list, a token and its revocation, an account and its sessions, *)
(* an export, a backup and its restore, and the roll-ups are each as       *)
(* promised, whatever failed while they were made.                         *)
THEOREM RecordsTheorem == MCSpec => []RecordsSound
<1>1. /\ AuditSound /\ ErasureSound /\ ReplaySound /\ SitesSound
      /\ CohortSound /\ TokenSound /\ PrincipalsSound /\ ExportSound
      /\ BackupSound /\ RollupsSound
      => RecordsSound
  BY DEF RecordsSound
<1> QED
  BY <1>1, PartsAreImplemented, AuditTheorem, PersonTheorem, ReplayTheorem,
     SiteTheorem, CohortTheorem, TokenTheorem, PrincipalTheorem,
     ExportTheorem, BackupTheorem, RollupTheorem, PTL

(* Every part of MCRecords is well typed in every reachable state.         *)
THEOREM RecordsTyped == MCSpec => []RecordsTypeOK
<1>1. /\ ReplayTypeOK /\ PersonTypeOK /\ AuditTypeOK /\ SiteTypeOK /\ CohortTypeOK
      /\ TokenTypeOK /\ PrincipalTypeOK /\ ExportTypeOK /\ UpgradeTypeOK
      /\ BackupTypeOK /\ RollTypeOK /\ FunnelTypeOK /\ MrTypeOK
      => RecordsTypeOK
  BY DEF RecordsTypeOK
<1> QED
  BY <1>1, PartsAreImplemented, ReplayTheorem, PersonTheorem, AuditTheorem,
     SiteTheorem, CohortTheorem, TokenTheorem, PrincipalTheorem, ExportTheorem,
     UpgradeTheorem, BackupTheorem, RollupTheorem, FunnelTheorem, MrTheorem, PTL
=============================================================================
