---------------------------- MODULE AuthSessions ----------------------------
(***************************************************************************)
(* The sessions of the admin API: what AuthService issues (signin after    *)
(* its lockout gate, see SigninLockout, and signup), what JwtStrategy and  *)
(* verifyBearer accept, what signout revokes (TokenRevocationService, in   *)
(* memory), and scripts/ensure-admin-from-env.ts, a process of its own     *)
(* that writes the same users table while the server runs.                 *)
(***************************************************************************)
EXTENDS Integers, FiniteSets

CONSTANTS Callers,       \* requests in flight at a time
          Emails,        \* the accounts
          AdminEmail,    \* ADMIN_EMAIL of the script
          TokenLife,     \* JWT lifetime, in ticks of the clock
          MaxTime,       \* bound: the clock stops here
          MaxVersion     \* bound: sign-ins of an account

ASSUME AdminIsEmail == AdminEmail \in Emails
ASSUME LimitsNat == TokenLife \in Nat /\ MaxTime \in Nat /\ MaxVersion \in Nat

VARIABLES
  registered,     \* the users table: accounts that exist,
  isAdmin,        \*   their is_admin
  tokenVersion,   \*   and token_version columns
  tokens,         \* every token issued, wherever its bearer keeps it
  revoked,        \* TokenRevocationService.revokedJtiUntilExp
  now,            \* Date.now()
  pc,             \* where each request is
  bearing,        \* the claims a request signs, or the token it presents
  flaws,          \* history: what was wrong with the token before its check was over
  signedOut,      \* history: tokens signout has answered for, in this process
  lostSignouts,   \* history: the same, in processes before this one
  script          \* where ensure-admin-from-env is; "idle": not run, or it has failed

vars == <<registered, isAdmin, tokenVersion, tokens, revoked, now, pc, bearing,
          flaws, signedOut, lostSignouts, script>>

accounts == <<registered, isAdmin, tokenVersion>>

Token == [jti : Int, sub : Emails, isAdmin : BOOLEAN, tv : Nat, exp : Nat]

Unsigned == -1          \* the jti of claims that are not signed yet

Claims(u, admin, version) ==
  [jti |-> Unsigned, sub |-> u, isAdmin |-> admin, tv |-> version, exp |-> 0]

\* What an idle request bears.
Nothing == Claims(AdminEmail, FALSE, 0)

PCs == {"idle", "updating", "signing", "verified", "reading", "accepted", "revoking"}

Flaws == {"superseded", "otherRole", "signedOut", "signedOutBefore"}

TypeOK ==
  /\ registered \subseteq Emails
  /\ isAdmin \in [Emails -> BOOLEAN]
  /\ tokenVersion \in [Emails -> Nat]
  /\ tokens \subseteq Token
  /\ revoked \subseteq tokens /\ signedOut \subseteq tokens /\ lostSignouts \subseteq tokens
  /\ now \in Nat
  /\ pc \in [Callers -> PCs]
  /\ bearing \in [Callers -> Token]
  /\ flaws \in [Callers -> SUBSET Flaws]
  /\ script \in {"idle", "promoting", "creating", "ok"}

Init ==
  /\ registered = {}
  /\ isAdmin = [u \in Emails |-> FALSE]
  /\ tokenVersion = [u \in Emails |-> 0]
  /\ tokens = {} /\ revoked = {} /\ signedOut = {} /\ lostSignouts = {}
  /\ now = 0
  /\ pc = [c \in Callers |-> "idle"]
  /\ bearing = [c \in Callers |-> Nothing]
  /\ flaws = [c \in Callers |-> {}]
  /\ script = "idle"

At(c, where) == pc[c] = where

Goes(c, where) == pc' = [pc EXCEPT ![c] = where]

\* A request that is answered bears nothing any more.
Answered(c) == Goes(c, "idle") /\ bearing' = [bearing EXCEPT ![c] = Nothing]

Ends(c) == Answered(c) /\ flaws' = [flaws EXCEPT ![c] = {}]

-----------------------------------------------------------------------------
(* History: the checks under way. *)

\* How a token differs from its account, as the account's columns are to be.
Staleness(t, versions, admins) ==
  (IF t.tv # versions[t.sub] THEN {"superseded"} ELSE {})
  \union (IF t.isAdmin # admins[t.sub] THEN {"otherRole"} ELSE {})

\* A check whose account is not read yet has all it takes to notice the change.
Outdates(versions, admins) ==
  flaws' = [d \in Callers |->
              IF pc[d] \in {"verified", "reading"}
              THEN flaws[d] \union Staleness(bearing[d], versions, admins) ELSE flaws[d]]

\* So has one whose token is not looked up yet when that is signed out.
SignsOut(t) ==
  flaws' = [d \in Callers |-> IF At(d, "verified") /\ bearing[d] = t
                             THEN flaws[d] \union {"signedOut"} ELSE flaws[d]]

-----------------------------------------------------------------------------
(* signin, from the password comparison on, and signup *)

RoomFor(u) ==
  tokenVersion[u] + Cardinality({c \in Callers : At(c, "updating") /\ bearing[c].sub = u})
    < MaxVersion

\* The user was read and the password is right; the update is awaited.
SigninReads(c, u) ==
  /\ At(c, "idle") /\ u \in registered /\ RoomFor(u)
  /\ Goes(c, "updating")
  /\ bearing' = [bearing EXCEPT ![c] = Claims(u, isAdmin[u], tokenVersion[u])]
  /\ UNCHANGED <<accounts, tokens, revoked, now, flaws, signedOut, lostSignouts, script>>

\* Mutant: the column is decremented.
NextVersionDown(c) == tokenVersion[bearing[c].sub] - 1

\* Mutant: the version read with the user plus one, in place of an increment.
NextVersionStale(c) == bearing[c].tv + 1

NextVersion(c) == tokenVersion[bearing[c].sub] + 1

\* The update increments the version and reads the row back, in one transaction.
SigninUpdates(c) ==
  LET u == bearing[c].sub IN
  /\ At(c, "updating")
  /\ tokenVersion' = [tokenVersion EXCEPT ![u] = NextVersion(c)]
  /\ bearing' = [bearing EXCEPT ![c] = Claims(u, isAdmin[u], NextVersion(c))]
  /\ Goes(c, "signing")
  /\ Outdates(tokenVersion', isAdmin)
  /\ UNCHANGED <<registered, isAdmin, tokens, revoked, now, signedOut, lostSignouts, script>>

\* The update is committed and its acknowledgement lost: a 500, no token, and the
\* account's tokens are superseded all the same.
SigninUnconfirmed(c) ==
  LET u == bearing[c].sub IN
  /\ At(c, "updating")
  /\ tokenVersion' = [tokenVersion EXCEPT ![u] = NextVersion(c)]
  /\ Answered(c)
  /\ Outdates(tokenVersion', isAdmin)
  /\ UNCHANGED <<registered, isAdmin, tokens, revoked, now, signedOut, lostSignouts, script>>

\* The e-mail is free: the row is created and its claims are signed as no admin's.
SignupCreates(c, u) ==
  /\ At(c, "idle") /\ u \notin registered
  /\ registered' = registered \union {u}
  /\ bearing' = [bearing EXCEPT ![c] = Claims(u, FALSE, tokenVersion[u])]
  /\ Goes(c, "signing")
  /\ UNCHANGED <<isAdmin, tokenVersion, tokens, revoked, now, flaws, signedOut,
                 lostSignouts, script>>

\* The row is created, the acknowledgement is lost: an account, a 500 and no token.
SignupUnconfirmed(c, u) ==
  /\ At(c, "idle") /\ u \notin registered
  /\ registered' = registered \union {u}
  /\ UNCHANGED <<isAdmin, tokenVersion, tokens, revoked, now, pc, bearing, flaws, signedOut,
                 lostSignouts, script>>

\* Mutant: the role is told by ADMIN_EMAIL instead of the account's column.
SignedByEmail(c) ==
  [bearing[c] EXCEPT !.jti = Cardinality(tokens), !.exp = now + TokenLife,
                     !.isAdmin = (bearing[c].sub = AdminEmail)]

Signed(c) ==
  [bearing[c] EXCEPT !.jti = Cardinality(tokens), !.exp = now + TokenLife]

\* signAccessToken: randomUUID() is a jti no other token has.
SignToken(c) ==
  /\ At(c, "signing")
  /\ tokens' = tokens \union {Signed(c)}
  /\ Ends(c)
  /\ UNCHANGED <<accounts, revoked, now, signedOut, lostSignouts, script>>

-----------------------------------------------------------------------------
(* TokenRevocationService *)

\* Mutant: an entry is pruned one tick before its token expires.
UnexpiredLate(t) == now + 1 < t.exp

Unexpired(t) == now < t.exp

\* Mutant: a token is looked up under a key it was not stored under.
IsRevokedNever(t) == FALSE

\* isRevoked ...
IsRevoked(t) == t \in revoked /\ Unexpired(t)

\* ... drops the entry it finds expired.
AfterLookup(t) == IF Unexpired(t) THEN revoked ELSE revoked \ {t}

\* revokeUntil adds, then prunes what has expired.
RevokeUntil(t) == revoked' = {s \in revoked \union {t} : Unexpired(s)}

-----------------------------------------------------------------------------
(* JwtStrategy.validate, for the guards and for verifyBearer *)

\* Mutant: an older version passes.
SameVersionOrOlder(t) == t.tv <= tokenVersion[t.sub]

SameVersion(t) == t.tv = tokenVersion[t.sub]

SameRole(t) == t.isAdmin = isAdmin[t.sub]

FlawsOf(t) ==
  Staleness(t, tokenVersion, isAdmin)
  \union (IF t \in signedOut THEN {"signedOut"} ELSE {})
  \union (IF t \in lostSignouts THEN {"signedOutBefore"} ELSE {})

\* The signature and the expiry are verified.  verifyBearer then awaits; under the
\* guard the next action follows in the same turn, one of its interleavings here.
VerifyJwt(c, t) ==
  /\ At(c, "idle") /\ now < t.exp
  /\ Goes(c, "verified")
  /\ bearing' = [bearing EXCEPT ![c] = t]
  /\ flaws' = [flaws EXCEPT ![c] = FlawsOf(t)]
  /\ UNCHANGED <<accounts, tokens, revoked, now, signedOut, lostSignouts, script>>

\* The revocation is looked up before the user read is awaited.
CheckRevoked(c) ==
  /\ At(c, "verified")
  /\ IF IsRevoked(bearing[c]) THEN Ends(c)
     ELSE Goes(c, "reading") /\ UNCHANGED <<bearing, flaws>>
  /\ revoked' = AfterLookup(bearing[c])
  /\ UNCHANGED <<accounts, tokens, now, signedOut, lostSignouts, script>>

CheckUser(c) ==
  LET t == bearing[c] IN
  /\ At(c, "reading")
  /\ IF t.sub \in registered /\ SameRole(t) /\ SameVersion(t)
     THEN Goes(c, "accepted") /\ UNCHANGED <<bearing, flaws>>
     ELSE Ends(c)
  /\ UNCHANGED <<accounts, tokens, revoked, now, signedOut, lostSignouts, script>>

-----------------------------------------------------------------------------
(* signout, a @Public() route that only verifies the token *)

SignoutVerifies(c, t) ==
  /\ At(c, "idle") /\ now < t.exp
  /\ Goes(c, "revoking")
  /\ bearing' = [bearing EXCEPT ![c] = t]
  /\ UNCHANGED <<accounts, tokens, revoked, now, flaws, signedOut, lostSignouts, script>>

SignoutRevokes(c) ==
  /\ At(c, "revoking")
  /\ RevokeUntil(bearing[c])
  /\ signedOut' = signedOut \union {bearing[c]}
  /\ Answered(c)
  /\ SignsOut(bearing[c])
  /\ UNCHANGED <<accounts, tokens, now, lostSignouts, script>>

\* The answer of an accepted check is sent; until then it shows in the state.
Served(c) ==
  /\ At(c, "accepted")
  /\ Ends(c)
  /\ UNCHANGED <<accounts, tokens, revoked, now, signedOut, lostSignouts, script>>

\* The query that a request awaits fails: a 500, nothing has changed.
QueryFails(c) ==
  /\ pc[c] \in {"updating", "reading"}
  /\ Ends(c)
  /\ UNCHANGED <<accounts, tokens, revoked, now, signedOut, lostSignouts, script>>

-----------------------------------------------------------------------------
(* ensure-admin-from-env, with ADMIN_EMAIL and ADMIN_PASSWORD set *)

\* Mutant: whoever has the e-mail is taken to be the admin.
FoundAsAny == "ok"

\* What is done about an account that exists.
FoundAs == IF isAdmin[AdminEmail] THEN "ok" ELSE "promoting"

ScriptLooksUp ==
  /\ script \in {"idle", "ok"}
  /\ script' = IF AdminEmail \in registered THEN FoundAs ELSE "creating"
  /\ UNCHANGED <<accounts, tokens, revoked, now, pc, bearing, flaws, signedOut, lostSignouts>>

\* A query of the script fails: exit code 1.  (So may its look-up, with nothing begun.)
ScriptFails ==
  /\ script \in {"promoting", "creating"}
  /\ script' = "idle"
  /\ UNCHANGED <<accounts, tokens, revoked, now, pc, bearing, flaws, signedOut, lostSignouts>>

\* The update sets is_admin and nothing else: no token version is incremented.  It may
\* have been done although the script is told that it failed.
ScriptPromotes ==
  /\ script = "promoting"
  /\ isAdmin' = [isAdmin EXCEPT ![AdminEmail] = TRUE]
  /\ script' \in {"ok", "idle"}
  /\ Outdates(tokenVersion, isAdmin')
  /\ UNCHANGED <<registered, tokenVersion, tokens, revoked, now, pc, bearing, signedOut,
                 lostSignouts>>

\* A sign-up since the look-up has taken the e-mail: P2002, exit code 1.
ScriptConflicts ==
  /\ script = "creating" /\ AdminEmail \in registered
  /\ script' = "idle"
  /\ UNCHANGED <<accounts, tokens, revoked, now, pc, bearing, flaws, signedOut, lostSignouts>>

ScriptCreates ==
  /\ script = "creating" /\ AdminEmail \notin registered
  /\ registered' = registered \union {AdminEmail}
  /\ isAdmin' = [isAdmin EXCEPT ![AdminEmail] = TRUE]
  /\ script' \in {"ok", "idle"}
  /\ UNCHANGED <<tokenVersion, tokens, revoked, now, pc, bearing, flaws, signedOut,
                 lostSignouts>>

-----------------------------------------------------------------------------

Tick ==
  /\ now < MaxTime
  /\ now' = now + 1
  /\ UNCHANGED <<accounts, tokens, revoked, pc, bearing, flaws, signedOut, lostSignouts,
                 script>>

\* The server restarts: its requests and its revocations are gone, the tokens and
\* the database are not.
Restart ==
  /\ pc' = [c \in Callers |-> "idle"]
  /\ bearing' = [c \in Callers |-> Nothing]
  /\ flaws' = [c \in Callers |-> {}]
  /\ revoked' = {}
  /\ signedOut' = {}
  /\ lostSignouts' = lostSignouts \union signedOut
  /\ UNCHANGED <<accounts, tokens, now, script>>

Next ==
  \/ \E c \in Callers, u \in Emails : 
       SigninReads(c, u) \/ SignupCreates(c, u) \/ SignupUnconfirmed(c, u)
  \/ \E c \in Callers, t \in tokens : VerifyJwt(c, t) \/ SignoutVerifies(c, t)
  \/ \E c \in Callers :
       \/ SigninUpdates(c) \/ SigninUnconfirmed(c) \/ SignToken(c)
       \/ CheckRevoked(c) \/ CheckUser(c) \/ Served(c) \/ QueryFails(c)
       \/ SignoutRevokes(c)
  \/ ScriptLooksUp \/ ScriptFails \/ ScriptPromotes \/ ScriptConflicts \/ ScriptCreates
  \/ Tick
  \/ Restart

Spec == Init /\ [][Next]_vars

-----------------------------------------------------------------------------
(* Properties *)

SameSession(s, t) == s.sub = t.sub /\ s.tv = t.tv

\* No two tokens of an account carry the same version, whatever sign-ins run at a
\* time, counting the claims about to be signed: at most one token is ever live.
OneLiveSession ==
  /\ \A s, t \in tokens : SameSession(s, t) => s = t
  /\ \A c \in Callers :
       At(c, "signing") =>
         /\ \A t \in tokens : ~SameSession(t, bearing[c])
         /\ \A d \in Callers :
              At(d, "signing") /\ SameSession(bearing[d], bearing[c]) => d = c

\* A token that a sign-in or a change of role has made stale is never accepted, whether
\* it was stale when its check began or became so before the check read the account,
\* after its revocation had been looked up (jwt.strategy.ts:59, 73).
StaleRefused ==
  \A c \in Callers : At(c, "accepted") => flaws[c] \intersect {"superseded", "otherRole"} = {}

\* A token signed out before its revocation is looked up, also while verifyBearer waits
\* for the verification (auth.service.ts:209), is not accepted while it is valid: at most
\* in the instant it expires, between that verification and the look-up.
SignedOutRefused ==
  \A c \in Callers : At(c, "accepted") /\ "signedOut" \in flaws[c] => now >= bearing[c].exp

\* Pruning never forgets a revocation that is still needed.
RevocationKept == \A t \in signedOut : now < t.exp => t \in revoked

\* An admin's claim is only ever in tokens of accounts that are admin, also while
\* the script promotes an account whose sign-in is half done.
AdminClaimsTrue ==
  /\ \A t \in tokens : t.isAdmin => isAdmin[t.sub]
  /\ \A c \in Callers : bearing[c].isAdmin => isAdmin[bearing[c].sub]

\* When the script, given an e-mail and a password, has exited with 0 the account exists
\* and is admin.
BootstrapPostcondition ==
  script = "ok" => AdminEmail \in registered /\ isAdmin[AdminEmail]

\* auth.controller.ts:77, "Sign out (revoke token until expiry)": a token signed out
\* is refused from then on, by this process and by the next.
SignedOutForGood ==
  \A c \in Callers :
    At(c, "accepted") /\ flaws[c] \intersect {"signedOut", "signedOutBefore"} # {}
      => now >= bearing[c].exp
=============================================================================
