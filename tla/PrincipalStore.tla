--------------------------- MODULE PrincipalStore ---------------------------
(***************************************************************************)
(* Accounts and the sessions minted for them: internal/principals,         *)
(* internal/auth/auth.go and the JWT middleware.  Store.mu makes every     *)
(* rewrite of a row one step; sign-ins and renewals read beside it, and a  *)
(* session is good while its tv is the row's.                              *)
(*                                                                         *)
(* A statement may fail and may have been carried out when it does, then,  *)
(* not later.  The clock shows what it likes.                              *)
(***************************************************************************)
EXTENDS Integers, FiniteSets

CONSTANTS
  LocalId,         \* ids drawn for accounts with a password
  SsoId,           \* ids of identities of the IdP
  Username,        \* of accounts with a password
  Setup,           \* EnsureAdmin calls
  PrincipalClock,  \* bound on what the clock shows
  MaxRowVersion,   \* bound on the versions rewrites reach
  MaxAccounts,     \* bound on the accounts made
  MaxSessions      \* bound on the sessions minted

ASSUME PrincipalAssumption ==
  /\ LocalId \cap SsoId = {}   \* hex digits, and "oidc:" before the issuer and the subject
  /\ PrincipalClock \in Nat /\ MaxRowVersion \in Nat /\ PrincipalClock =< MaxRowVersion
  /\ MaxAccounts \in Nat /\ MaxSessions \in Nat

VARIABLES
  principals,   \* the rows: id, username, role, origin, password, tv, version
  minted,       \* the tokens minted: id, role, password, tv
  renewing,     \* ids of requests whose token passed the tv check and is old
  setup,        \* the EnsureAdmin calls
  claim,        \* the KV key of the bootstrap claim
  established   \* a local administrator was once stored

principalVars == <<principals, minted, renewing, setup, claim, established>>

Role == {"admin", "viewer"}
Origin == {"admin", "created", "oidc"}

PrincipalInit ==
  /\ principals = {} /\ minted = {} /\ renewing = {}
  /\ setup = [s \in Setup |-> "off"] /\ claim = FALSE /\ established = FALSE

-----------------------------------------------------------------------------
\* argMax by version; of two rows that tie, either.
LatestOf(id) ==
  {p \in principals : p.id = id /\ \A q \in principals : q.id = id => q.version =< p.version}

Latest == UNION {LatestOf(id) : id \in LocalId \cup SsoId}
LatestLocal == UNION {LatestOf(id) : id \in LocalId}
Admins == {p \in LatestLocal : p.role = "admin"}

\* Mutant: the version is what the clock shows.
NextPrincipalVersionOfClock(now, prior) == now

NextPrincipalVersion(now, prior) == IF prior + 1 > now THEN prior + 1 ELSE now

Establish == established' = (established \/ Admins' # {})

\* replace: the rows of the id go, the next one comes, in a transaction.
Replace(p, mutated) ==
  /\ \E now \in 0..PrincipalClock :
       LET version == NextPrincipalVersion(now, p.version)
       IN /\ version =< MaxRowVersion
          /\ principals' = {q \in principals : q.id # p.id}
                             \cup {[mutated EXCEPT !.version = version]}
  /\ Establish
  /\ UNCHANGED <<minted, renewing, setup, claim>>

Room == Cardinality({p.id : p \in principals}) < MaxAccounts

\* CreateLocal's insert, which is told of or not.
Insert(username, role, origin) ==
  /\ \A q \in LatestLocal : q.username # username
  /\ Room /\ \E id \in LocalId : LatestOf(id) = {}
  /\ \E now \in 0..PrincipalClock :
       principals' = principals \cup
            {[id |-> CHOOSE id \in LocalId : LatestOf(id) = {}, username |-> username, role |-> role, origin |-> origin,
              password |-> 0, tv |-> 0, version |-> now]}
  /\ Establish

CreateLocal ==
  /\ \E username \in Username, role \in Role : Insert(username, role, "created")
  /\ UNCHANGED <<minted, renewing, setup, claim>>

\* Mutant: the count is of all administrators.
RemainingAdminsWithItself(p) == Admins

RemainingAdmins(p) == {q \in Admins : q.id # p.id}

SetRole ==
  \E p \in Latest, role \in Role :
    /\ p.id \in LocalId /\ p.role = "admin" /\ role # "admin" => RemainingAdmins(p) # {}
    /\ Replace(p, [p EXCEPT !.role = role, !.tv = @ + 1])

\* ChangePassword, which verified the row it replaces under its own lock, and
\* ForceResetAdminPassword.
ReplacePassword ==
  \E p \in LatestLocal : Replace(p, [p EXCEPT !.password = @ + 1, !.tv = @ + 1])

RevokeSessions ==
  \E p \in Latest : Replace(p, [p EXCEPT !.tv = @ + 1])

-----------------------------------------------------------------------------
Mint(p) ==
  /\ Cardinality(minted) < MaxSessions
  /\ minted' = minted \cup
       {[id |-> p.id, role |-> p.role, password |-> p.password, tv |-> p.tv]}

\* The password was checked against the row the token is minted from.
Login ==
  /\ \E p \in LatestLocal : Mint(p)
  /\ UNCHANGED <<principals, renewing, setup, claim, established>>

\* Mutant: a sign-in keeps the version whatever the IdP says of the role.
TvOfSignInKept(existing, role) == existing.tv

TvOfSignIn(existing, role) == existing.tv + IF existing.role # role THEN 1 ELSE 0

\* UpsertOIDC appends; the sign-in that was not told of the row mints nothing.
UpsertOIDC ==
  /\ \E id \in SsoId, role \in Role, now \in 0..PrincipalClock :
       LET fresh == [id |-> id, username |-> id, role |-> role, origin |-> "oidc",
                     password |-> 0, tv |-> 0, version |-> now]
           put == IF LatestOf(id) = {} THEN {fresh}
                  ELSE {[e EXCEPT !.role = role, !.tv = TvOfSignIn(e, role),
                                  !.version = NextPrincipalVersion(now, e.version)] : e \in LatestOf(id)}
       IN \E p \in put :
            /\ LatestOf(id) = {} => Room
            /\ p.version =< MaxRowVersion /\ principals' = principals \cup {p}
            /\ Mint(p) \/ UNCHANGED minted
  /\ UNCHANGED <<renewing, setup, claim, established>>

Good(token) == \E p \in LatestOf(token.id) : p.tv = token.tv

\* The middleware passes an old token, and reads the row again to renew it.
PassOld ==
  /\ renewing = {} /\ \E token \in minted : Good(token) /\ renewing' = {token.id}
  /\ UNCHANGED <<principals, minted, setup, claim, established>>

RenewToken ==
  /\ \E id \in renewing :
       /\ renewing' = renewing \ {id}
       /\ (\E p \in LatestOf(id) : Mint(p)) \/ UNCHANGED minted
  /\ UNCHANGED <<principals, setup, claim, established>>

-----------------------------------------------------------------------------
SetupGoes(s, at) == setup' = [setup EXCEPT ![s] = at]

\* credentialMu is held by one call at a time.
CredentialFree == \A s \in Setup : setup[s] = "off"

\* EnsureAdmin counts, and claims the bootstrap.
CountLocal(s) ==
  /\ setup[s] = "off" /\ CredentialFree /\ LatestLocal = {}
  /\ SetupGoes(s, "claim")
  /\ UNCHANGED <<principals, minted, renewing, claim, established>>

ClaimBootstrap(s) ==
  /\ setup[s] = "claim"
  /\ \/ ~claim /\ claim' = TRUE /\ SetupGoes(s, "insert")
     \/ claim' \in {claim, TRUE} /\ SetupGoes(s, "off")
  /\ UNCHANGED <<principals, minted, renewing, established>>

InsertAdmin(s) ==
  /\ setup[s] = "insert"
  /\ \E username \in Username :
       \/ Insert(username, "admin", "admin") /\ setup' \in {[setup EXCEPT ![s] = at] : at \in {"off", "release"}}
       \/ SetupGoes(s, "release") /\ UNCHANGED <<principals, established>>
  /\ UNCHANGED <<minted, renewing, claim>>

ReleaseBootstrapClaim(s) ==
  /\ setup[s] = "release"
  /\ SetupGoes(s, "off") /\ claim' \in {FALSE, claim}
  /\ UNCHANGED <<principals, minted, renewing, established>>

PrincipalRestart ==
  /\ ~CredentialFree \/ renewing # {}
  /\ setup' = [s \in Setup |-> "off"] /\ renewing' = {}
  /\ UNCHANGED <<principals, minted, claim, established>>

PrincipalNext ==
  \/ CreateLocal \/ SetRole \/ ReplacePassword \/ RevokeSessions
  \/ Login \/ UpsertOIDC \/ PassOld \/ RenewToken
  \/ \E s \in Setup : \/ CountLocal(s) \/ ClaimBootstrap(s) \/ InsertAdmin(s)
                      \/ ReleaseBootstrapClaim(s)
  \/ PrincipalRestart

PrincipalSpec == PrincipalInit /\ [][PrincipalNext]_principalVars

-----------------------------------------------------------------------------
PrincipalTypeOK ==
  /\ principals \subseteq
       [id : LocalId \cup SsoId, username : Username \cup SsoId, role : Role, origin : Origin,
        password : Nat, tv : Nat, version : 0..MaxRowVersion]
  /\ minted \subseteq [id : LocalId \cup SsoId, role : Role, password : Nat, tv : Nat]
  /\ renewing \subseteq LocalId \cup SsoId /\ claim \in BOOLEAN /\ established \in BOOLEAN
  /\ setup \in [Setup -> {"off", "claim", "insert", "release"}]

(* The role is in the token and is not looked up when it is used: while a  *)
(* token passes the tv check it has the role the account has, and the      *)
(* password it is minted after is the account's, whichever of an admin,    *)
(* the IdP or the account itself changed them.                             *)
SessionAuthority ==
  \A token \in minted : \A p \in LatestOf(token.id) :
    token.tv = p.tv => token.role = p.role /\ token.password = p.password

(* What was retired stays retired: no tv is handed out that a later row    *)
(* does not have or pass, and an account has one newest row.               *)
RetiredForGood ==
  /\ \A token \in minted : \A p \in LatestOf(token.id) : token.tv =< p.tv
  /\ \A id \in LocalId \cup SsoId : Cardinality(LatestOf(id)) =< 1

(* "Demoting the LAST local administrator is refused": once there was one, *)
(* setup being closed behind it, there is one.  Setup makes one account,   *)
(* and no two accounts with a password have one username.                  *)
AdministratorStays ==
  /\ established => Admins # {}
  /\ Cardinality({p \in LatestLocal : p.origin = "admin"}) =< 1
  /\ \A p, q \in LatestLocal : p.username = q.username => p = q

PrincipalsSound == SessionAuthority /\ RetiredForGood /\ AdministratorStays
=============================================================================
