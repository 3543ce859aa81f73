------------------------ MODULE AuthSessions_proofs ------------------------
(***************************************************************************)
(* The sessions are sound for any accounts, callers, lifetime and clock.   *)
(***************************************************************************)
EXTENDS AuthSessions, TLAPS, FiniteSetTheorems

\* A request that checks or revokes a token holds one that was issued.
BearingInv ==
  \A c \in Callers :
    pc[c] \in {"verified", "reading", "accepted", "revoking"} => bearing[c] \in tokens

\* Tokens, claims and half-done sign-ins are of accounts that exist, and no version
\* is ahead of its account's.
VersionInv ==
  /\ \A t \in tokens : t.sub \in registered /\ t.tv <= tokenVersion[t.sub]
  /\ \A c \in Callers : At(c, "updating") => bearing[c].sub \in registered
  /\ \A c \in Callers :
       At(c, "signing") =>
         bearing[c].sub \in registered /\ bearing[c].tv <= tokenVersion[bearing[c].sub]

\* What is stale while a check is under way is stale until the check reads the account.
FlawInv ==
  \A c \in Callers :
    /\ pc[c] \in {"verified", "reading"} /\ "superseded" \in flaws[c]
         => bearing[c].tv # tokenVersion[bearing[c].sub]
    /\ pc[c] \in {"verified", "reading"} /\ "otherRole" \in flaws[c]
         => bearing[c].isAdmin # isAdmin[bearing[c].sub]

\* A token signed out before its look-up is on record until then, and has expired if it
\* passes.
SignoutInv ==
  \A c \in Callers :
    "signedOut" \in flaws[c] =>
      /\ At(c, "verified") => bearing[c] \in signedOut
      /\ pc[c] \in {"reading", "accepted"} => now >= bearing[c].exp

\* The script promotes an account it has found.
ScriptInv == script = "promoting" => AdminEmail \in registered

Typed == TypeOK /\ IsFiniteSet(tokens) /\ BearingInv

IInv ==
  /\ Typed /\ VersionInv /\ OneLiveSession /\ AdminClaimsTrue
  /\ FlawInv /\ StaleRefused /\ RevocationKept /\ SignoutInv
  /\ ScriptInv /\ BootstrapPostcondition

-----------------------------------------------------------------------------

LEMMA ClaimsTyped ==
  ASSUME NEW u \in Emails, NEW a \in BOOLEAN, NEW v \in Nat
  PROVE  Claims(u, a, v) \in Token
BY DEF Claims, Token, Unsigned

LEMMA SignedTyped ==
  ASSUME Typed, NEW c \in Callers
  PROVE  Signed(c) \in Token
<1>1. Cardinality(tokens) \in Int
  BY FS_CardinalityType DEF Typed
<1>2. bearing[c] \in Token /\ now + TokenLife \in Nat
  BY LimitsNat DEF Typed, TypeOK
<1>3. ASSUME NEW b \in Token, NEW n \in Int, NEW e \in Nat
      PROVE  [b EXCEPT !.jti = n, !.exp = e] \in Token
  BY <1>3 DEF Token
<1>4. [bearing[c] EXCEPT !.jti = Cardinality(tokens), !.exp = now + TokenLife] \in Token
  BY <1>1, <1>2, <1>3, Zenon
<1> QED  BY <1>4 DEF Signed

\* What a change of the columns or a sign-out adds to a check under way.
LEMMA OutdatesStep ==
  ASSUME NEW v, NEW a, Outdates(v, a), flaws \in [Callers -> SUBSET Flaws]
  PROVE  /\ flaws' \in [Callers -> SUBSET Flaws]
         /\ \A d \in Callers : "signedOut" \in flaws'[d] => "signedOut" \in flaws[d]
         /\ \A d \in Callers :
              flaws'[d] = IF pc[d] \in {"verified", "reading"}
                          THEN flaws[d] \union Staleness(bearing[d], v, a) ELSE flaws[d]
BY DEF Outdates, Staleness, Flaws

LEMMA SignsOutStep ==
  ASSUME NEW t, SignsOut(t), flaws \in [Callers -> SUBSET Flaws]
  PROVE  /\ flaws' \in [Callers -> SUBSET Flaws]
         /\ \A d \in Callers : flaws'[d] \in {flaws[d], flaws[d] \union {"signedOut"}}
         /\ \A d \in Callers :
              "signedOut" \in flaws'[d] => "signedOut" \in flaws[d] \/ (At(d, "verified") /\ bearing[d] = t)
BY DEF SignsOut, Flaws

LEMMA TypeStep == Typed /\ [Next]_vars => Typed'
<1> SUFFICES ASSUME Typed, [Next]_vars  PROVE Typed'
  OBVIOUS
<1>t. TypeOK /\ IsFiniteSet(tokens) /\ BearingInv
  BY DEF Typed
<1>n. Nothing \in Token /\ AdminEmail \in Emails
  BY AdminIsEmail, ClaimsTyped DEF Nothing
<1>b. \A c \in Callers :
        /\ bearing[c] \in Token /\ bearing[c].sub \in Emails
        /\ NextVersion(c) \in Nat /\ isAdmin[bearing[c].sub] \in BOOLEAN
        /\ Claims(bearing[c].sub, isAdmin[bearing[c].sub], NextVersion(c)) \in Token
  <2>1. ASSUME NEW c \in Callers
        PROVE  /\ bearing[c] \in Token /\ bearing[c].sub \in Emails
               /\ NextVersion(c) \in Nat /\ isAdmin[bearing[c].sub] \in BOOLEAN
    BY <1>t DEF TypeOK, Token, NextVersion
  <2> QED  BY <2>1, ClaimsTyped
<1>u. \A u \in Emails :
        /\ Claims(u, isAdmin[u], tokenVersion[u]) \in Token
        /\ Claims(u, FALSE, tokenVersion[u]) \in Token
  BY <1>t, ClaimsTyped DEF TypeOK
<1>f. \A t : FlawsOf(t) \subseteq Flaws
  BY DEF FlawsOf, Staleness, Flaws
<1> USE DEF Goes, Answered, Ends, At, accounts
\* What the requests do to their own state leaves the tables and the clock typed.
<1>1. ASSUME NEW c \in Callers, NEW u \in Emails, SigninReads(c, u)  PROVE Typed'
  BY <1>t, <1>u, <1>1 DEF SigninReads, Typed, TypeOK, BearingInv, PCs
<1>2. ASSUME NEW c \in Callers, NEW u \in Emails, SignupCreates(c, u) \/ SignupUnconfirmed(c, u)
      PROVE  Typed'
  BY <1>t, <1>u, <1>2 DEF SignupCreates, SignupUnconfirmed, Typed, TypeOK, BearingInv, PCs
<1>3. ASSUME NEW c \in Callers, SigninUpdates(c)  PROVE Typed'
  <2>1. /\ tokenVersion' \in [Emails -> Nat] /\ bearing' \in [Callers -> Token]
        /\ \A d \in Callers : pc'[d] # "signing" => bearing'[d] = bearing[d] /\ pc'[d] = pc[d]
    BY <1>t, <1>b, <1>3 DEF SigninUpdates, TypeOK
  <2>2. flaws' \in [Callers -> SUBSET Flaws]
    BY <1>t, <1>3, OutdatesStep DEF SigninUpdates, TypeOK
  <2> QED  BY <1>t, <1>3, <2>1, <2>2 DEF SigninUpdates, Typed, TypeOK, BearingInv, PCs
<1>4. ASSUME NEW c \in Callers, SigninUnconfirmed(c)  PROVE Typed'
  <2>1. flaws' \in [Callers -> SUBSET Flaws]
    BY <1>t, <1>4, OutdatesStep DEF SigninUnconfirmed, TypeOK
  <2> QED  BY <1>t, <1>n, <1>b, <1>4, <2>1 DEF SigninUnconfirmed, Typed, TypeOK, BearingInv, PCs
<1>5. ASSUME NEW c \in Callers, SignToken(c)  PROVE Typed'
  <2>1. tokens' = tokens \union {Signed(c)} /\ Signed(c) \in Token /\ IsFiniteSet(tokens')
    BY <1>t, <1>5, SignedTyped, FS_AddElement DEF SignToken
  <2> QED  BY <1>t, <1>n, <1>5, <2>1 DEF SignToken, Typed, TypeOK, BearingInv, PCs
<1>6. ASSUME NEW c \in Callers, NEW t \in tokens, VerifyJwt(c, t)  PROVE Typed'
  BY <1>t, <1>f, <1>6 DEF VerifyJwt, Typed, TypeOK, BearingInv, PCs
<1>7. ASSUME NEW c \in Callers, NEW t \in tokens, SignoutVerifies(c, t)  PROVE Typed'
  BY <1>t, <1>7 DEF SignoutVerifies, Typed, TypeOK, BearingInv, PCs
<1>8. ASSUME NEW c \in Callers, CheckRevoked(c)  PROVE Typed'
  <2>1. AfterLookup(bearing[c]) \subseteq revoked
    BY DEF AfterLookup
  <2> QED  BY <1>t, <1>n, <1>8, <2>1 DEF CheckRevoked, Typed, TypeOK, BearingInv, PCs
<1>9. ASSUME NEW c \in Callers, CheckUser(c)  PROVE Typed'
  BY <1>t, <1>n, <1>9 DEF CheckUser, Typed, TypeOK, BearingInv, PCs
<1>10. ASSUME NEW c \in Callers, Served(c)  PROVE Typed'
  BY <1>t, <1>n, <1>10 DEF Served, Typed, TypeOK, BearingInv, PCs
<1>11. ASSUME NEW c \in Callers, QueryFails(c)  PROVE Typed'
  BY <1>t, <1>n, <1>11 DEF QueryFails, Typed, TypeOK, BearingInv, PCs
<1>12. ASSUME NEW c \in Callers, SignoutRevokes(c)  PROVE Typed'
  <2>1. bearing[c] \in tokens
    BY <1>t, <1>12 DEF SignoutRevokes, BearingInv
  <2>2. revoked' \subseteq revoked \union {bearing[c]}
    BY <1>12 DEF SignoutRevokes, RevokeUntil
  <2>3. flaws' \in [Callers -> SUBSET Flaws]
    BY <1>t, <1>12, SignsOutStep DEF SignoutRevokes, TypeOK
  <2> QED
    BY <1>t, <1>n, <1>12, <2>1, <2>2, <2>3 DEF SignoutRevokes, Typed, TypeOK, BearingInv, PCs
<1>13. CASE ScriptLooksUp \/ ScriptFails \/ ScriptPromotes \/ ScriptConflicts \/ ScriptCreates
  <2>1. flaws' \in [Callers -> SUBSET Flaws]
    BY <1>t, <1>13, OutdatesStep
       DEF ScriptLooksUp, ScriptFails, ScriptPromotes, ScriptConflicts, ScriptCreates, TypeOK
  <2> QED
    BY <1>t, <1>n, <1>13, <2>1
       DEF ScriptLooksUp, ScriptFails, FoundAs, ScriptPromotes, ScriptConflicts, ScriptCreates,
           Typed, TypeOK, BearingInv
<1>14. CASE Tick
  BY <1>t, <1>14 DEF Tick, Typed, TypeOK, BearingInv
<1>15. CASE Restart
  BY <1>t, <1>n, <1>15 DEF Restart, Typed, TypeOK, BearingInv, PCs
<1>16. CASE UNCHANGED vars
  BY <1>t, <1>16 DEF vars, Typed, TypeOK, BearingInv
<1> QED  BY <1>1, <1>2, <1>3, <1>4, <1>5, <1>6, <1>7, <1>8, <1>9, <1>10, <1>11, <1>12,
            <1>13, <1>14, <1>15, <1>16 DEF Next

-----------------------------------------------------------------------------

\* The rows of the accounts and the tokens stay; whatever a request does about its
\* own token, the versions are as they were.
LEMMA VersionFrame ==
  ASSUME VersionInv, OneLiveSession,
         UNCHANGED <<registered, tokenVersion, tokens>>,
         \A c \in Callers : pc'[c] \in {"updating", "signing"} =>
                              pc'[c] = pc[c] /\ bearing'[c] = bearing[c]
  PROVE  VersionInv' /\ OneLiveSession'
<1>1. VersionInv'
  BY DEF VersionInv, At
<1>2. OneLiveSession'
  BY DEF OneLiveSession, SameSession, At
<1> QED  BY <1>1, <1>2

\* Versions only ever grow, and a sign-in's claims are of a version no token has.
LEMMA VersionStep ==
  Typed /\ VersionInv /\ OneLiveSession /\ [Next]_vars => VersionInv' /\ OneLiveSession'
<1> SUFFICES ASSUME Typed, VersionInv, OneLiveSession, [Next]_vars
             PROVE  VersionInv' /\ OneLiveSession'
  OBVIOUS
<1>t. /\ TypeOK /\ tokenVersion \in [Emails -> Nat] /\ tokens \subseteq Token
      /\ pc \in [Callers -> PCs] /\ bearing \in [Callers -> Token]
      /\ registered \subseteq Emails
  BY DEF Typed, TypeOK
<1>b. \A c \in Callers : bearing[c].sub \in Emails /\ bearing[c].tv \in Nat
  BY <1>t DEF Token
<1>k. \A s \in tokens : s.sub \in Emails /\ s.tv \in Nat
  BY <1>t DEF Token
<1>n. \A u, a, v : Claims(u, a, v).sub = u /\ Claims(u, a, v).tv = v
  BY DEF Claims
<1> USE DEF Goes, Answered, Ends, At, accounts
<1>1. ASSUME NEW c \in Callers, NEW u \in Emails, SigninReads(c, u)
      PROVE  VersionInv' /\ OneLiveSession'
  <2>1. /\ pc'[c] = "updating" /\ bearing'[c].sub = u /\ u \in registered
        /\ \A d \in Callers : d # c => pc'[d] = pc[d] /\ bearing'[d] = bearing[d]
        /\ UNCHANGED <<registered, tokenVersion, tokens>>
    BY <1>t, <1>n, <1>1 DEF SigninReads
  <2>2. VersionInv'
    BY <2>1 DEF VersionInv
  <2>3. OneLiveSession'
    BY <2>1 DEF OneLiveSession, SameSession
  <2> QED  BY <2>2, <2>3
<1>2. ASSUME NEW c \in Callers, NEW u \in Emails, SignupCreates(c, u)
      PROVE  VersionInv' /\ OneLiveSession'
  <2>1. /\ pc'[c] = "signing" /\ bearing'[c].sub = u /\ bearing'[c].tv = tokenVersion[u]
        /\ \A d \in Callers : d # c => pc'[d] = pc[d] /\ bearing'[d] = bearing[d]
        /\ UNCHANGED <<tokenVersion, tokens>>
        /\ u \notin registered /\ registered' = registered \union {u}
    BY <1>t, <1>2 DEF SignupCreates, Claims
  <2>2. VersionInv'
    BY <1>t, <2>1 DEF VersionInv
  <2>3. /\ \A t \in tokens : t.sub # u
        /\ \A d \in Callers : pc[d] = "signing" => bearing[d].sub # u
    BY <2>1 DEF VersionInv
  <2>4. OneLiveSession'
    BY <2>1, <2>3 DEF OneLiveSession, SameSession
  <2> QED  BY <2>2, <2>4
<1>3. ASSUME NEW c \in Callers, SigninUpdates(c)  PROVE VersionInv' /\ OneLiveSession'
  <2> DEFINE u == bearing[c].sub
  <2>1. /\ pc[c] = "updating" /\ pc'[c] = "signing"
        /\ bearing'[c].sub = u /\ bearing'[c].tv = tokenVersion[u] + 1
        /\ \A d \in Callers : d # c => pc'[d] = pc[d] /\ bearing'[d] = bearing[d]
        /\ UNCHANGED <<registered, tokens>>
        /\ tokenVersion'[u] = tokenVersion[u] + 1
        /\ \A v \in Emails : v # u => tokenVersion'[v] = tokenVersion[v]
    BY <1>t, <1>b, <1>n, <1>3 DEF SigninUpdates, NextVersion
  <2>2. u \in registered /\ u \in Emails /\ tokenVersion[u] \in Nat
    BY <1>t, <1>b, <2>1 DEF VersionInv
  <2>3. /\ \A t \in tokens : t.sub = u => t.tv < tokenVersion[u] + 1
        /\ \A d \in Callers : pc[d] = "signing" /\ bearing[d].sub = u
                                => bearing[d].tv < tokenVersion[u] + 1
    BY <1>t, <1>b, <1>k, <2>2 DEF VersionInv
  <2>v. \A v \in Emails : /\ tokenVersion[v] \in Nat /\ tokenVersion'[v] \in Nat
                          /\ tokenVersion[v] <= tokenVersion'[v]
    BY <1>t, <2>1, <2>2
  <2> HIDE DEF u
  <2>4. \A t \in tokens : t.sub \in registered /\ t.tv <= tokenVersion'[t.sub]
    BY <1>t, <1>k, <2>v DEF VersionInv
  <2>5. \A d \in Callers : pc'[d] = "updating" => bearing'[d].sub \in registered
    BY <2>1 DEF VersionInv
  <2>6. ASSUME NEW d \in Callers, pc'[d] = "signing"
        PROVE  bearing'[d].sub \in registered /\ bearing'[d].tv <= tokenVersion'[bearing'[d].sub]
    <3>1. CASE d = c
      BY <2>1, <2>2, <3>1
    <3>2. CASE d # c
      <4>1. pc[d] = "signing" /\ bearing'[d] = bearing[d]
        BY <2>1, <2>6, <3>2
      <4>2. bearing[d].sub \in registered /\ bearing[d].tv <= tokenVersion[bearing[d].sub]
        BY <4>1 DEF VersionInv
      <4> QED  BY <1>t, <1>b, <2>v, <4>1, <4>2
    <3> QED  BY <3>1, <3>2
  <2>7. VersionInv'
    BY <2>1, <2>4, <2>5, <2>6 DEF VersionInv
  <2>8. OneLiveSession'
    <3>1. \A t \in tokens : ~SameSession(t, bearing'[c])
      BY <1>k, <2>1, <2>2, <2>3 DEF SameSession
    <3>2. \A d \in Callers : d # c /\ pc[d] = "signing" =>
            ~SameSession(bearing'[d], bearing'[c]) /\ ~SameSession(bearing'[c], bearing'[d])
      BY <1>b, <2>1, <2>2, <2>3 DEF SameSession
    <3>3. \A s, t \in tokens' : SameSession(s, t) => s = t
      BY <2>1 DEF OneLiveSession
    <3>4. ASSUME NEW d \in Callers, pc'[d] = "signing"
          PROVE  /\ \A t \in tokens' : ~SameSession(t, bearing'[d])
                 /\ \A e \in Callers : pc'[e] = "signing" /\ SameSession(bearing'[e], bearing'[d])
                                         => e = d
      BY <2>1, <3>1, <3>2, <3>4 DEF OneLiveSession
    <3> QED  BY <3>3, <3>4 DEF OneLiveSession, SameSession
  <2> QED  BY <2>7, <2>8
<1>4. ASSUME NEW c \in Callers, SigninUnconfirmed(c)  PROVE VersionInv' /\ OneLiveSession'
  <2>1. /\ pc'[c] = "idle"
        /\ \A d \in Callers : d # c => pc'[d] = pc[d] /\ bearing'[d] = bearing[d]
        /\ UNCHANGED <<registered, tokens>>
        /\ \A v \in Emails : /\ tokenVersion[v] \in Nat /\ tokenVersion'[v] \in Nat
                            /\ tokenVersion[v] <= tokenVersion'[v]
    BY <1>t, <1>b, <1>4 DEF SigninUnconfirmed, NextVersion
  <2>2. \A t \in tokens : t.sub \in registered /\ t.tv <= tokenVersion'[t.sub]
    BY <1>t, <1>k, <2>1 DEF VersionInv
  <2>3. ASSUME NEW d \in Callers, pc'[d] = "signing"
        PROVE  bearing'[d].sub \in registered /\ bearing'[d].tv <= tokenVersion'[bearing'[d].sub]
    <3>1. pc[d] = "signing" /\ bearing'[d] = bearing[d]
      BY <2>1, <2>3
    <3>2. bearing[d].sub \in registered /\ bearing[d].tv <= tokenVersion[bearing[d].sub]
      BY <3>1 DEF VersionInv
    <3> QED  BY <1>t, <1>b, <2>1, <3>1, <3>2
  <2>4. VersionInv'
    BY <2>1, <2>2, <2>3 DEF VersionInv
  <2>5. OneLiveSession'
    BY <2>1 DEF OneLiveSession, SameSession
  <2> QED  BY <2>4, <2>5
<1>5. ASSUME NEW c \in Callers, SignToken(c)  PROVE VersionInv' /\ OneLiveSession'
  <2> DEFINE s == Signed(c)
  <2>1. s.sub = bearing[c].sub /\ s.tv = bearing[c].tv
    BY <1>t DEF Signed, Token
  <2>2. /\ pc[c] = "signing" /\ pc'[c] = "idle" /\ tokens' = tokens \union {s}
        /\ \A d \in Callers : d # c => pc'[d] = pc[d] /\ bearing'[d] = bearing[d]
        /\ UNCHANGED <<registered, tokenVersion>>
    BY <1>t, <1>5 DEF SignToken
  <2> HIDE DEF s
  <2>3. VersionInv'
    BY <2>1, <2>2 DEF VersionInv
  <2>4. \A t \in tokens : ~SameSession(s, t) /\ ~SameSession(t, s)
    BY <2>1, <2>2 DEF OneLiveSession, SameSession
  <2>5. \A d \in Callers : d # c /\ pc[d] = "signing" => ~SameSession(s, bearing[d])
    BY <2>1, <2>2 DEF OneLiveSession, SameSession
  <2>6. \A x, y \in tokens' : SameSession(x, y) => x = y
    BY <2>2, <2>4 DEF OneLiveSession
  <2>7. ASSUME NEW d \in Callers, pc'[d] = "signing"
        PROVE  /\ \A t \in tokens' : ~SameSession(t, bearing'[d])
               /\ \A e \in Callers : pc'[e] = "signing" /\ SameSession(bearing'[e], bearing'[d])
                                       => e = d
    <3>1. d # c /\ pc[d] = "signing" /\ bearing'[d] = bearing[d]
      BY <2>2, <2>7
    <3> QED  BY <2>2, <2>5, <3>1 DEF OneLiveSession
  <2>8. OneLiveSession'
    BY <2>6, <2>7 DEF OneLiveSession, SameSession
  <2> QED  BY <2>3, <2>8
\* Every other step leaves the versions alone.
<1>6. ASSUME NEW c \in Callers, NEW t \in tokens, VerifyJwt(c, t) \/ SignoutVerifies(c, t)
      PROVE  VersionInv' /\ OneLiveSession'
  BY <1>t, <1>6, VersionFrame DEF VerifyJwt, SignoutVerifies
<1>7. ASSUME NEW c \in Callers,
             CheckRevoked(c) \/ CheckUser(c) \/ Served(c) \/ QueryFails(c) \/ SignoutRevokes(c)
      PROVE  VersionInv' /\ OneLiveSession'
  BY <1>t, <1>7, VersionFrame DEF CheckRevoked, CheckUser, Served, QueryFails, SignoutRevokes
<1>8. CASE ScriptLooksUp \/ ScriptFails \/ ScriptPromotes \/ ScriptConflicts \/ Tick
  BY <1>8, VersionFrame DEF ScriptLooksUp, ScriptFails, ScriptPromotes, ScriptConflicts, Tick
<1>9. CASE ScriptCreates \/ \E c \in Callers, u \in Emails : SignupUnconfirmed(c, u)
  <2>1. registered \subseteq registered' /\ UNCHANGED <<tokenVersion, tokens, pc, bearing>>
    BY <1>9 DEF ScriptCreates, SignupUnconfirmed
  <2>2. VersionInv'
    BY <2>1 DEF VersionInv
  <2>3. OneLiveSession'
    BY <2>1 DEF OneLiveSession, SameSession
  <2> QED  BY <2>2, <2>3
<1>10. CASE Restart
  BY <1>10, VersionFrame DEF Restart
<1>11. CASE UNCHANGED vars
  BY <1>11, VersionFrame DEF vars
<1> QED  BY <1>1, <1>2, <1>3, <1>4, <1>5, <1>6, <1>7, <1>8, <1>9, <1>10, <1>11 DEF Next

-----------------------------------------------------------------------------

\* An account becomes admin and never ceases to be; claims are made of the account.
LEMMA AdminStep == Typed /\ AdminClaimsTrue /\ [Next]_vars => AdminClaimsTrue'
<1> SUFFICES ASSUME Typed, AdminClaimsTrue, [Next]_vars  PROVE AdminClaimsTrue'
  OBVIOUS
<1>t. /\ tokens \subseteq Token /\ bearing \in [Callers -> Token]
      /\ isAdmin \in [Emails -> BOOLEAN] /\ AdminEmail \in Emails
      /\ \A t \in tokens : t.sub \in Emails
      /\ \A c \in Callers : bearing[c].sub \in Emails
  BY AdminIsEmail DEF Typed, TypeOK, Token
<1>n. Nothing.isAdmin = FALSE
  BY DEF Nothing, Claims
<1> USE DEF Goes, Answered, Ends, At, accounts
<1>1. ASSUME NEW c \in Callers, NEW u \in Emails,
             SigninReads(c, u) \/ SignupCreates(c, u) \/ SignupUnconfirmed(c, u)
      PROVE  AdminClaimsTrue'
  BY <1>t, <1>1 DEF SigninReads, SignupCreates, SignupUnconfirmed, Claims, AdminClaimsTrue
<1>2. ASSUME NEW c \in Callers, SigninUpdates(c)  PROVE AdminClaimsTrue'
  BY <1>t, <1>2 DEF SigninUpdates, Claims, AdminClaimsTrue
<1>3. ASSUME NEW c \in Callers, SignToken(c)  PROVE AdminClaimsTrue'
  <2>1. Signed(c).sub = bearing[c].sub /\ Signed(c).isAdmin = bearing[c].isAdmin
    BY <1>t DEF Signed, Token
  <2>2. /\ tokens' = tokens \union {Signed(c)} /\ isAdmin' = isAdmin
        /\ bearing' = [bearing EXCEPT ![c] = Nothing]
    BY <1>3 DEF SignToken
  <2> QED  BY <1>t, <1>n, <2>1, <2>2 DEF AdminClaimsTrue
<1>4. ASSUME NEW c \in Callers, NEW t \in tokens, VerifyJwt(c, t) \/ SignoutVerifies(c, t)
      PROVE  AdminClaimsTrue'
  BY <1>t, <1>4 DEF VerifyJwt, SignoutVerifies, AdminClaimsTrue
<1>5. ASSUME NEW c \in Callers,
             CheckRevoked(c) \/ CheckUser(c) \/ Served(c) \/ QueryFails(c) \/ SignoutRevokes(c)
             \/ SigninUnconfirmed(c)
      PROVE  AdminClaimsTrue'
  <2>1. /\ UNCHANGED <<tokens, isAdmin>>
        /\ bearing' = bearing \/ bearing' = [bearing EXCEPT ![c] = Nothing]
    BY <1>5 DEF CheckRevoked, CheckUser, Served, QueryFails, SignoutRevokes, SigninUnconfirmed
  <2> QED  BY <1>t, <1>n, <2>1 DEF AdminClaimsTrue
<1>6. CASE ScriptLooksUp \/ ScriptFails \/ ScriptConflicts \/ Tick \/ UNCHANGED vars
  BY <1>6 DEF ScriptLooksUp, ScriptFails, ScriptConflicts, Tick, vars, AdminClaimsTrue
<1>7. CASE ScriptPromotes \/ ScriptCreates
  BY <1>t, <1>7 DEF ScriptPromotes, ScriptCreates, AdminClaimsTrue
<1>8. CASE Restart
  BY <1>n, <1>8 DEF Restart, AdminClaimsTrue
<1> QED  BY <1>1, <1>2, <1>3, <1>4, <1>5, <1>6, <1>7, <1>8 DEF Next

\* The script ends with success only about an account that is admin, and accounts
\* are neither deleted nor demoted.
LEMMA ScriptStep ==
  Typed /\ ScriptInv /\ BootstrapPostcondition /\ [Next]_vars
    => ScriptInv' /\ BootstrapPostcondition'
<1> SUFFICES ASSUME Typed, ScriptInv, BootstrapPostcondition, [Next]_vars
             PROVE  ScriptInv' /\ BootstrapPostcondition'
  OBVIOUS
<1>t. isAdmin \in [Emails -> BOOLEAN] /\ AdminEmail \in Emails
  BY AdminIsEmail DEF Typed, TypeOK
<1> USE DEF accounts, ScriptInv, BootstrapPostcondition
<1>1. CASE ScriptLooksUp \/ ScriptFails
  BY <1>1 DEF ScriptLooksUp, ScriptFails, FoundAs
<1>2. CASE ScriptPromotes
  BY <1>t, <1>2 DEF ScriptPromotes
<1>3. CASE ScriptConflicts
  BY <1>3 DEF ScriptConflicts
<1>4. CASE ScriptCreates
  BY <1>t, <1>4 DEF ScriptCreates
<1>5. ASSUME UNCHANGED <<script, isAdmin>>, registered \subseteq registered'
      PROVE  ScriptInv' /\ BootstrapPostcondition'
  BY <1>5
<1>6. ASSUME NEW c \in Callers, NEW u \in Emails,
             SigninReads(c, u) \/ SignupCreates(c, u) \/ SignupUnconfirmed(c, u)
      PROVE  ScriptInv' /\ BootstrapPostcondition'
  BY <1>5, <1>6 DEF SigninReads, SignupCreates, SignupUnconfirmed
<1>7. ASSUME NEW c \in Callers, NEW t \in tokens, VerifyJwt(c, t) \/ SignoutVerifies(c, t)
      PROVE  ScriptInv' /\ BootstrapPostcondition'
  BY <1>5, <1>7 DEF VerifyJwt, SignoutVerifies
<1>8. ASSUME NEW c \in Callers,
             SigninUpdates(c) \/ SigninUnconfirmed(c) \/ SignToken(c) \/ CheckRevoked(c)
             \/ CheckUser(c) \/ Served(c) \/ QueryFails(c) \/ SignoutRevokes(c)
      PROVE  ScriptInv' /\ BootstrapPostcondition'
  BY <1>5, <1>8 DEF SigninUpdates, SigninUnconfirmed, SignToken, CheckRevoked, CheckUser,
                    Served, QueryFails, SignoutRevokes
<1>9. CASE Tick \/ Restart \/ UNCHANGED vars
  BY <1>5, <1>9 DEF Tick, Restart, vars
<1> QED  BY <1>1, <1>2, <1>3, <1>4, <1>6, <1>7, <1>8, <1>9 DEF Next

\* A revocation is dropped only once its token has expired.
LEMMA RevocationStep ==
  Typed /\ RevocationKept /\ [Next]_vars => RevocationKept'
<1> SUFFICES ASSUME Typed, RevocationKept, [Next]_vars  PROVE RevocationKept'
  OBVIOUS
<1>t. /\ signedOut \subseteq tokens /\ now \in Nat
      /\ \A t \in signedOut : t.exp \in Nat
  BY DEF Typed, TypeOK, Token
<1> USE DEF accounts
<1>1. ASSUME UNCHANGED <<signedOut, now>>, revoked \subseteq revoked'  PROVE RevocationKept'
  BY <1>1 DEF RevocationKept
<1>2. ASSUME NEW c \in Callers, CheckRevoked(c)  PROVE RevocationKept'
  <2>1. revoked' = AfterLookup(bearing[c]) /\ UNCHANGED <<signedOut, now>>
    BY <1>2 DEF CheckRevoked
  <2> QED  BY <2>1 DEF RevocationKept, AfterLookup, Unexpired
<1>3. ASSUME NEW c \in Callers, SignoutRevokes(c)  PROVE RevocationKept'
  <2>1. /\ RevokeUntil(bearing[c]) /\ signedOut' = signedOut \union {bearing[c]}
        /\ now' = now
    BY <1>3 DEF SignoutRevokes
  <2> QED  BY <2>1 DEF RevocationKept, RevokeUntil, Unexpired
<1>4. CASE Tick
  BY <1>t, <1>4 DEF Tick, RevocationKept
<1>5. CASE Restart
  BY <1>5 DEF Restart, RevocationKept
<1>6. ASSUME NEW c \in Callers, NEW u \in Emails,
             SigninReads(c, u) \/ SignupCreates(c, u) \/ SignupUnconfirmed(c, u)
      PROVE  RevocationKept'
  BY <1>1, <1>6 DEF SigninReads, SignupCreates, SignupUnconfirmed
<1>7. ASSUME NEW c \in Callers, NEW t \in tokens, VerifyJwt(c, t) \/ SignoutVerifies(c, t)
      PROVE  RevocationKept'
  BY <1>1, <1>7 DEF VerifyJwt, SignoutVerifies
<1>8. ASSUME NEW c \in Callers,
             SigninUpdates(c) \/ SigninUnconfirmed(c) \/ SignToken(c) \/ CheckUser(c)
             \/ Served(c) \/ QueryFails(c)
      PROVE  RevocationKept'
  BY <1>1, <1>8 DEF SigninUpdates, SigninUnconfirmed, SignToken, CheckUser, Served, QueryFails
<1>9. CASE ScriptLooksUp \/ ScriptFails \/ ScriptPromotes \/ ScriptConflicts \/ ScriptCreates
           \/ UNCHANGED vars
  BY <1>1, <1>9 DEF ScriptLooksUp, ScriptFails, ScriptPromotes, ScriptConflicts, ScriptCreates, vars
<1> QED  BY <1>2, <1>3, <1>4, <1>5, <1>6, <1>7, <1>8, <1>9 DEF Next

-----------------------------------------------------------------------------

\* What FlawInv and StaleRefused say of one request.
FlawOf(d) ==
  /\ pc[d] \in {"verified", "reading"} /\ "superseded" \in flaws[d]
       => bearing[d].tv # tokenVersion[bearing[d].sub]
  /\ pc[d] \in {"verified", "reading"} /\ "otherRole" \in flaws[d]
       => bearing[d].isAdmin # isAdmin[bearing[d].sub]
  /\ pc[d] = "accepted" => "superseded" \notin flaws[d] /\ "otherRole" \notin flaws[d]

LEMMA FlawSplit == FlawInv /\ StaleRefused <=> \A d \in Callers : FlawOf(d)
BY DEF FlawInv, StaleRefused, FlawOf, At

\* Versions and roles only grow, and a token is never ahead of its account, so a
\* token that differs from its account goes on differing.
LEMMA FlawFrame ==
  ASSUME Typed, VersionInv, AdminClaimsTrue, NEW d \in Callers, FlawOf(d),
         pc'[d] = pc[d], bearing'[d] = bearing[d],
         flaws'[d] = IF pc[d] \in {"verified", "reading"}
                     THEN flaws[d] \union Staleness(bearing[d], tokenVersion', isAdmin')
                     ELSE flaws[d],
         \A u \in Emails : /\ tokenVersion'[u] \in Nat /\ tokenVersion[u] <= tokenVersion'[u]
                           /\ isAdmin[u] => isAdmin'[u]
  PROVE  FlawOf(d)'
<1> DEFINE t == bearing[d]
<1>t. /\ t.sub \in Emails /\ t.tv \in Nat /\ t.isAdmin \in BOOLEAN
      /\ tokenVersion[t.sub] \in Nat /\ isAdmin[t.sub] \in BOOLEAN
  BY DEF Typed, TypeOK, Token
<1>1. ASSUME pc[d] \in {"verified", "reading"}, "superseded" \in flaws'[d]
      PROVE  t.tv # tokenVersion'[t.sub]
  <2>0. CASE "superseded" \notin flaws[d]
    BY <1>1, <2>0 DEF Staleness
  <2> SUFFICES ASSUME "superseded" \in flaws[d]  PROVE t.tv # tokenVersion'[t.sub]
    BY <2>0
  <2>1. t.tv # tokenVersion[t.sub]
    BY <1>1 DEF FlawOf
  <2>2. t.tv <= tokenVersion[t.sub]
    BY <1>1 DEF Typed, BearingInv, VersionInv
  <2> QED  BY <1>t, <2>1, <2>2
<1>2. ASSUME pc[d] \in {"verified", "reading"}, "otherRole" \in flaws'[d]
      PROVE  t.isAdmin # isAdmin'[t.sub]
  <2>0. CASE "otherRole" \notin flaws[d]
    BY <1>2, <2>0 DEF Staleness
  <2> SUFFICES ASSUME "otherRole" \in flaws[d]  PROVE t.isAdmin # isAdmin'[t.sub]
    BY <2>0
  <2>1. t.isAdmin # isAdmin[t.sub]
    BY <1>2 DEF FlawOf
  <2>2. t.isAdmin => isAdmin[t.sub]
    BY DEF AdminClaimsTrue
  <2>3. t.isAdmin = FALSE /\ isAdmin[t.sub] = TRUE
    BY <1>t, <2>1, <2>2
  <2> QED  BY <1>t, <2>3
<1>3. pc'[d] = "accepted" => flaws'[d] = flaws[d]
  OBVIOUS
<1> QED  BY <1>1, <1>2, <1>3 DEF FlawOf

LEMMA FlawStep ==
  Typed /\ VersionInv /\ AdminClaimsTrue /\ FlawInv /\ StaleRefused /\ [Next]_vars
    => FlawInv' /\ StaleRefused'
<1> SUFFICES ASSUME Typed, VersionInv, AdminClaimsTrue, FlawInv, StaleRefused, [Next]_vars,
                    NEW d \in Callers
             PROVE  FlawOf(d)'
  BY DEF FlawInv, StaleRefused, FlawOf, At
<1>d. FlawOf(d)
  BY FlawSplit
<1>t. /\ pc \in [Callers -> PCs] /\ bearing \in [Callers -> Token]
      /\ flaws \in [Callers -> SUBSET Flaws]
      /\ tokenVersion \in [Emails -> Nat] /\ isAdmin \in [Emails -> BOOLEAN]
      /\ AdminEmail \in Emails
  BY AdminIsEmail DEF Typed, TypeOK
\* The request's own state is untouched, or it is not being checked.
<1>f. ASSUME tokenVersion' = tokenVersion, isAdmin' = isAdmin,
             pc'[d] = pc[d], bearing'[d] = bearing[d], flaws'[d] = flaws[d]
      PROVE  FlawOf(d)'
  BY <1>d, <1>f DEF FlawOf
<1>o. ASSUME pc'[d] \notin {"verified", "reading", "accepted"}  PROVE FlawOf(d)'
  BY <1>o DEF FlawOf
<1> USE DEF Goes, Answered, Ends, At, accounts
<1>1. ASSUME NEW c \in Callers, NEW u \in Emails,
             
             SigninReads(c, u) \/ SignupCreates(c, u) \/ SignupUnconfirmed(c, u)
      PROVE  FlawOf(d)'
  BY <1>t, <1>1, <1>f, <1>o DEF SigninReads, SignupCreates, SignupUnconfirmed
<1>2. ASSUME NEW c \in Callers, SigninUpdates(c) \/ SigninUnconfirmed(c)
      PROVE  FlawOf(d)'
  <2>1. CASE d = c
    BY <1>t, <1>2, <1>o, <2>1 DEF SigninUpdates, SigninUnconfirmed
  <2>2. CASE d # c
    <3>1. bearing[c].sub \in Emails
      BY <1>t DEF Token
    <3>2. /\ tokenVersion' \in [Emails -> Nat]
          /\ \A u \in Emails : tokenVersion[u] <= tokenVersion'[u]
      BY <1>t, <1>2, <3>1 DEF SigninUpdates, SigninUnconfirmed, NextVersion
    <3>3. /\ isAdmin' = isAdmin
          /\ pc'[d] = pc[d] /\ bearing'[d] = bearing[d]
      BY <1>t, <1>2, <2>2 DEF SigninUpdates, SigninUnconfirmed
    <3>4. flaws'[d] = IF pc[d] \in {"verified", "reading"}
                      THEN flaws[d] \union Staleness(bearing[d], tokenVersion', isAdmin')
                      ELSE flaws[d]
      BY <1>t, <1>2, <3>3, OutdatesStep DEF SigninUpdates, SigninUnconfirmed
    <3> QED  BY <1>t, <1>d, <3>2, <3>3, <3>4, FlawFrame
  <2> QED  BY <2>1, <2>2
<1>3. ASSUME NEW c \in Callers, SignToken(c) \/ Served(c) \/ QueryFails(c)  PROVE FlawOf(d)'
  BY <1>t, <1>3, <1>f, <1>o DEF SignToken, Served, QueryFails
<1>11. ASSUME NEW c \in Callers, SignoutRevokes(c)  PROVE FlawOf(d)'
  <2>1. CASE d = c
    BY <1>t, <1>11, <1>o, <2>1 DEF SignoutRevokes
  <2>2. CASE d # c
    <3>1. /\ pc'[d] = pc[d] /\ bearing'[d] = bearing[d]
          /\ UNCHANGED <<tokenVersion, isAdmin>>
      BY <1>t, <1>11, <2>2 DEF SignoutRevokes
    <3>2. flaws'[d] \in {flaws[d], flaws[d] \union {"signedOut"}}
      BY <1>t, <1>11, SignsOutStep DEF SignoutRevokes
    <3> QED  BY <1>d, <3>1, <3>2 DEF FlawOf
  <2> QED  BY <2>1, <2>2
<1>4. ASSUME NEW c \in Callers, NEW t \in tokens, SignoutVerifies(c, t)  PROVE FlawOf(d)'
  BY <1>t, <1>4, <1>f, <1>o DEF SignoutVerifies
<1>5. ASSUME NEW c \in Callers, NEW t \in tokens, VerifyJwt(c, t)  PROVE FlawOf(d)'
  <2>1. CASE d = c
    <3>1. /\ pc'[d] = "verified" /\ bearing'[d] = t /\ flaws'[d] = FlawsOf(t)
          /\ UNCHANGED <<tokenVersion, isAdmin>>
      BY <1>t, <1>5, <2>1 DEF VerifyJwt
    <3>2. /\ "superseded" \in FlawsOf(t) => t.tv # tokenVersion[t.sub]
          /\ "otherRole" \in FlawsOf(t) => t.isAdmin # isAdmin[t.sub]
      BY DEF FlawsOf, Staleness
    <3> QED  BY <3>1, <3>2 DEF FlawOf
  <2>2. CASE d # c
    BY <1>t, <1>5, <1>f, <2>2 DEF VerifyJwt
  <2> QED  BY <2>1, <2>2
<1>6. ASSUME NEW c \in Callers, CheckRevoked(c)  PROVE FlawOf(d)'
  <2>1. CASE d = c /\ pc'[d] = "reading"
    <3>1. /\ pc[d] = "verified" /\ bearing'[d] = bearing[d] /\ flaws'[d] = flaws[d]
          /\ UNCHANGED <<tokenVersion, isAdmin>>
      BY <1>t, <1>6, <2>1 DEF CheckRevoked
    <3> QED  BY <1>d, <2>1, <3>1 DEF FlawOf
  <2>2. CASE d = c /\ pc'[d] # "reading"
    BY <1>t, <1>6, <1>o, <2>2 DEF CheckRevoked
  <2>3. CASE d # c
    BY <1>t, <1>6, <1>f, <2>3 DEF CheckRevoked
  <2> QED  BY <2>1, <2>2, <2>3
<1>7. ASSUME NEW c \in Callers, CheckUser(c)  PROVE FlawOf(d)'
  <2>1. CASE d = c /\ pc'[d] = "accepted"
    <3>1. /\ pc[d] = "reading" /\ flaws'[d] = flaws[d]
          /\ SameRole(bearing[d]) /\ SameVersion(bearing[d])
      BY <1>t, <1>7, <2>1 DEF CheckUser
    <3>2. "superseded" \notin flaws[d] /\ "otherRole" \notin flaws[d]
      BY <1>d, <3>1 DEF FlawOf, SameRole, SameVersion
    <3> QED  BY <2>1, <3>1, <3>2 DEF FlawOf
  <2>2. CASE d = c /\ pc'[d] # "accepted"
    BY <1>t, <1>7, <1>o, <2>2 DEF CheckUser
  <2>3. CASE d # c
    BY <1>t, <1>7, <1>f, <2>3 DEF CheckUser
  <2> QED  BY <2>1, <2>2, <2>3
<1>8. CASE ScriptLooksUp \/ ScriptFails \/ ScriptConflicts \/ Tick \/ UNCHANGED vars
  BY <1>8, <1>f DEF ScriptLooksUp, ScriptFails, ScriptConflicts, Tick, vars
<1>9. CASE ScriptPromotes \/ ScriptCreates
  <2>1. /\ UNCHANGED <<tokenVersion, pc, bearing>>
        /\ \A u \in Emails : isAdmin[u] => isAdmin'[u]
    BY <1>t, <1>9 DEF ScriptPromotes, ScriptCreates
  <2>2. CASE ScriptPromotes
    <3>1. flaws'[d] = IF pc[d] \in {"verified", "reading"}
                      THEN flaws[d] \union Staleness(bearing[d], tokenVersion', isAdmin')
                      ELSE flaws[d]
      BY <1>t, <2>1, <2>2, OutdatesStep DEF ScriptPromotes
    <3> QED  BY <1>t, <1>d, <2>1, <3>1, FlawFrame
  \* Nobody has a token of an account that is created only now.
  <2>3. CASE ScriptCreates
    <3>1. flaws' = flaws /\ isAdmin' = [isAdmin EXCEPT ![AdminEmail] = TRUE]
      BY <2>3 DEF ScriptCreates
    <3>2. pc[d] \in {"verified", "reading"} => bearing[d].sub # AdminEmail
      BY <2>3 DEF ScriptCreates, Typed, BearingInv, VersionInv
    <3>3. bearing[d].sub \in Emails
      BY <1>t DEF Token
    <3> QED  BY <1>t, <1>d, <2>1, <3>1, <3>2, <3>3 DEF FlawOf
  <2> QED  BY <1>9, <2>2, <2>3
<1>10. CASE Restart
  BY <1>10, <1>o DEF Restart
<1> QED  BY <1>1, <1>2, <1>3, <1>4, <1>5, <1>6, <1>7, <1>8, <1>9, <1>10, <1>11 DEF Next

\* A token signed out before its look-up is on record when it is looked up.
LEMMA SignoutStep ==
  Typed /\ RevocationKept /\ SignoutInv /\ [Next]_vars => SignoutInv'
<1> SUFFICES ASSUME Typed, RevocationKept, SignoutInv, [Next]_vars,
                    NEW d \in Callers, "signedOut" \in flaws'[d]
             PROVE  /\ pc'[d] = "verified" => bearing'[d] \in signedOut'
                    /\ pc'[d] \in {"reading", "accepted"} => now' >= bearing'[d].exp
  BY DEF SignoutInv, At
<1> DEFINE Goal == /\ pc'[d] = "verified" => bearing'[d] \in signedOut'
                   /\ pc'[d] \in {"reading", "accepted"} => now' >= bearing'[d].exp
<1>t. /\ pc \in [Callers -> PCs] /\ bearing \in [Callers -> Token]
      /\ flaws \in [Callers -> SUBSET Flaws] /\ now \in Nat
      /\ bearing[d].exp \in Nat
  BY DEF Typed, TypeOK, Token
<1>d. "signedOut" \in flaws[d] =>
        /\ pc[d] = "verified" => bearing[d] \in signedOut
        /\ pc[d] \in {"reading", "accepted"} => now >= bearing[d].exp
  BY DEF SignoutInv, At
\* The request's own state is untouched, or it is not being checked.
<1>f. ASSUME pc'[d] = pc[d], bearing'[d] = bearing[d],
             "signedOut" \in flaws'[d] => "signedOut" \in flaws[d],
             signedOut \subseteq signedOut', now' = now \/ now' = now + 1
      PROVE  Goal
  BY <1>t, <1>d, <1>f
<1>o. ASSUME pc'[d] \notin {"verified", "reading", "accepted"}  PROVE Goal
  BY <1>o
<1> HIDE DEF Goal
<1> USE DEF Goes, Answered, Ends, At, accounts
<1>1. ASSUME NEW c \in Callers, NEW u \in Emails,
             SigninReads(c, u) \/ SignupCreates(c, u) \/ SignupUnconfirmed(c, u)
      PROVE  Goal
  BY <1>t, <1>1, <1>f, <1>o DEF SigninReads, SignupCreates, SignupUnconfirmed
<1>2. ASSUME NEW c \in Callers, SigninUpdates(c) \/ SigninUnconfirmed(c)  PROVE Goal
  <2>1. "signedOut" \in flaws'[d] => "signedOut" \in flaws[d]
    BY <1>t, <1>2, OutdatesStep DEF SigninUpdates, SigninUnconfirmed
  <2> QED  BY <1>t, <1>2, <1>f, <1>o, <2>1 DEF SigninUpdates, SigninUnconfirmed
<1>3. ASSUME NEW c \in Callers, SignToken(c) \/ Served(c) \/ QueryFails(c)  PROVE Goal
  BY <1>t, <1>3, <1>f, <1>o DEF SignToken, Served, QueryFails
<1>11. ASSUME NEW c \in Callers, SignoutRevokes(c)  PROVE Goal
  <2>1. CASE d = c
    BY <1>t, <1>11, <1>o, <2>1 DEF SignoutRevokes
  <2>2. CASE d # c
    <3>1. /\ pc'[d] = pc[d] /\ bearing'[d] = bearing[d] /\ now' = now
          /\ signedOut' = signedOut \union {bearing[c]}
      BY <1>t, <1>11, <2>2 DEF SignoutRevokes
    <3>2. "signedOut" \in flaws[d] \/ (pc[d] = "verified" /\ bearing[d] = bearing[c])
      BY <1>t, <1>11, SignsOutStep DEF SignoutRevokes
    <3> QED  BY <1>t, <1>d, <3>1, <3>2 DEF Goal
  <2> QED  BY <2>1, <2>2
<1>4. ASSUME NEW c \in Callers, NEW t \in tokens, SignoutVerifies(c, t)  PROVE Goal
  BY <1>t, <1>4, <1>f, <1>o DEF SignoutVerifies
<1>5. ASSUME NEW c \in Callers, NEW t \in tokens, VerifyJwt(c, t)  PROVE Goal
  <2>1. CASE d = c
    <3>1. /\ pc'[d] = "verified" /\ bearing'[d] = t /\ flaws'[d] = FlawsOf(t)
          /\ signedOut' = signedOut
      BY <1>t, <1>5, <2>1 DEF VerifyJwt
    <3>2. "signedOut" \in FlawsOf(t) => t \in signedOut
      BY DEF FlawsOf, Staleness
    <3> QED  BY <3>1, <3>2 DEF Goal
  <2>2. CASE d # c
    BY <1>t, <1>5, <1>f, <2>2 DEF VerifyJwt
  <2> QED  BY <2>1, <2>2
<1>6. ASSUME NEW c \in Callers, CheckRevoked(c)  PROVE Goal
  <2>1. CASE d = c /\ pc'[d] = "reading"
    <3>1. /\ pc[d] = "verified" /\ bearing'[d] = bearing[d] /\ flaws'[d] = flaws[d]
          /\ now' = now /\ ~IsRevoked(bearing[d])
      BY <1>t, <1>6, <2>1 DEF CheckRevoked
    <3>2. bearing[d] \in signedOut
      BY <1>d, <3>1
    <3>3. ~(now < bearing[d].exp)
      BY <3>1, <3>2 DEF RevocationKept, IsRevoked, Unexpired
    <3> QED  BY <1>t, <2>1, <3>1, <3>3 DEF Goal
  <2>2. CASE d = c /\ pc'[d] # "reading"
    BY <1>t, <1>6, <1>o, <2>2 DEF CheckRevoked
  <2>3. CASE d # c
    BY <1>t, <1>6, <1>f, <2>3 DEF CheckRevoked
  <2> QED  BY <2>1, <2>2, <2>3
<1>7. ASSUME NEW c \in Callers, CheckUser(c)  PROVE Goal
  <2>1. CASE d = c /\ pc'[d] = "accepted"
    <3>1. /\ pc[d] = "reading" /\ flaws'[d] = flaws[d] /\ bearing'[d] = bearing[d]
          /\ now' = now
      BY <1>t, <1>7, <2>1 DEF CheckUser
    <3> QED  BY <1>d, <2>1, <3>1 DEF Goal
  <2>2. CASE d = c /\ pc'[d] # "accepted"
    BY <1>t, <1>7, <1>o, <2>2 DEF CheckUser
  <2>3. CASE d # c
    BY <1>t, <1>7, <1>f, <2>3 DEF CheckUser
  <2> QED  BY <2>1, <2>2, <2>3
<1>8. ASSUME ScriptLooksUp \/ ScriptFails \/ ScriptPromotes \/ ScriptConflicts \/ ScriptCreates \/ Tick
             \/ UNCHANGED vars
      PROVE  Goal
  <2>1. UNCHANGED <<pc, bearing, signedOut>> /\ (now' = now \/ now' = now + 1)
    BY <1>8 DEF ScriptLooksUp, ScriptFails, ScriptPromotes, ScriptConflicts, ScriptCreates, Tick, vars
  <2>2. "signedOut" \in flaws'[d] => "signedOut" \in flaws[d]
    BY <1>t, <1>8, OutdatesStep
       DEF ScriptLooksUp, ScriptFails, ScriptPromotes, ScriptConflicts, ScriptCreates, Tick, vars
  <2> QED  BY <1>f, <2>1, <2>2
<1>9. ASSUME Restart  PROVE Goal
  BY <1>9, <1>o DEF Restart
<1> HIDE DEF Goes, Answered, Ends, At, accounts
<1>10. Goal
  BY <1>1, <1>2, <1>3, <1>4, <1>5, <1>6, <1>7, <1>8, <1>9, <1>11 DEF Next
<1> QED  BY <1>10 DEF Goal

-----------------------------------------------------------------------------
(* The inductive invariant, and what it implies                            *)

LEMMA InitInv == Init => IInv
<1> SUFFICES ASSUME Init  PROVE IInv
  OBVIOUS
<1>1. Nothing \in Token /\ Nothing.isAdmin = FALSE
  BY AdminIsEmail, ClaimsTyped DEF Nothing, Claims
<1>2. Typed
  BY <1>1, FS_EmptySet DEF Init, Typed, TypeOK, BearingInv, PCs
<1>3. VersionInv /\ OneLiveSession
  BY DEF Init, VersionInv, OneLiveSession, At
<1>4. AdminClaimsTrue
  BY <1>1 DEF Init, AdminClaimsTrue
<1>5. FlawInv /\ StaleRefused
  BY DEF Init, FlawInv, StaleRefused, At
<1>6. RevocationKept /\ SignoutInv /\ ScriptInv /\ BootstrapPostcondition
  BY DEF Init, RevocationKept, SignoutInv, ScriptInv, BootstrapPostcondition
<1> QED  BY <1>2, <1>3, <1>4, <1>5, <1>6 DEF IInv

LEMMA NextInv == IInv /\ [Next]_vars => IInv'
BY TypeStep, VersionStep, AdminStep, FlawStep, RevocationStep, SignoutStep, ScriptStep
   DEF IInv

LEMMA Inductive == Spec => []IInv
BY InitInv, NextInv, PTL DEF Spec

\* The columns, tokens and requests have their types, whatever the constants are.
THEOREM TypeCorrect == Spec => []TypeOK
BY Inductive, PTL DEF IInv, Typed

\* No two tokens of an account carry the same version: signing in anywhere ends
\* every earlier session of the account, however sign-ins overlap.
THEOREM OneSession == Spec => []OneLiveSession
BY Inductive, PTL DEF IInv

\* A token that is superseded, or whose account's role has changed, before its check has
\* read the account is never accepted.
THEOREM StaleNeverAccepted == Spec => []StaleRefused
BY Inductive, PTL DEF IInv

\* No revocation is pruned before its token expires.
THEOREM RevocationsKept == Spec => []RevocationKept
BY Inductive, PTL DEF IInv

\* A token signed out before its revocation is looked up is not accepted while it is
\* valid.
THEOREM SignedOutNeverAccepted == Spec => []SignedOutRefused
<1>1. IInv => SignedOutRefused
  BY DEF IInv, SignoutInv, SignedOutRefused, At
<1> QED  BY <1>1, Inductive, PTL

\* Only tokens and claims of admin accounts say that they are an admin's.
THEOREM AdminClaims == Spec => []AdminClaimsTrue
BY Inductive, PTL DEF IInv

\* The bootstrap script succeeds only with the account there and admin.
THEOREM BootstrapDone == Spec => []BootstrapPostcondition
BY Inductive, PTL DEF IInv
=============================================================================
