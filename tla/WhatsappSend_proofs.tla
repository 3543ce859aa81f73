------------------------- MODULE WhatsappSend_proofs -------------------------
(***************************************************************************)
(* TokenAlive for any number of senders, any time-out, any buffer of two   *)
(* time-outs at least and any lifetimes.  The invariant follows a token    *)
(* from Meta's clock to the server's: the cache overrates a token by one   *)
(* time-out at most, the time the answer took, and a post lasts one more.  *)
(*                                                                         *)
(* MessagesAgree and TextsTaken for any bookings, forms and environments:  *)
(* a message is always what the server makes of the data it is about, and  *)
(* sanitizeTemplateParameter makes a text Meta takes of any that shows     *)
(* something (SanitizedTaken).                                             *)
(***************************************************************************)
EXTENDS WhatsappSend, SequenceTheorems, WellFoundedInduction, TLAPS

\* No call of the server outlives its time-out.
CallsEnd == \A a \in Senders : pc[a] # "idle" => since[a] <= now /\ now <= since[a] + Timeout

\* A token whose answer is awaited was issued after the question.
IssuedInv == \A a \in Senders :
  pc[a] = "issued" => /\ token[a].kind = "long"
                      /\ since[a] + token[a].life <= token[a].until
                      /\ token[a].life = 0 \/ token[a].life > 2 * Timeout

CacheInv == cached.kind = "long" => cached.expiresAt <= cached.until + Timeout

\* A token that is posted outlives the post.
PostInv == Generous => \A a \in Senders :
  pc[a] = "posting" /\ token[a].kind = "long" => since[a] + Timeout < token[a].until

\* The script never has a token that was exchanged.
ScriptInv == pc[Script] \in {"idle", "posting"} /\ (pc[Script] = "posting" => token[Script].kind = "env")

IInv == TypeOK /\ CallsEnd /\ IssuedInv /\ CacheInv /\ PostInv /\ ScriptInv

-----------------------------------------------------------------------------
\* What the actions on requests have in common.
LEMMA RequestsKeepDomain ==
  ASSUME TypeOK, NEW a \in Actors, NEW fields, NEW data, Composes(a, fields, data)
  PROVE  DOMAIN request' = Actors /\ DOMAIN about' = Actors
BY DEF TypeOK, Composes

LEMMA BufferIsInt == ASSUME NEW e \in Envs PROVE RefreshBuffer(e) \in Nat
BY ClockAssumption DEF RefreshBuffer

\* Fetching a token, whatever it is for: from the cache, from the environment
\* or by an exchange that begins now.
LEMMA GetAccessTokenStep ==
  ASSUME IInv, NEW s \in Senders, GetAccessToken(s), pc[s] = "idle",
         UNCHANGED <<env, envUntil, now, cached>>,
         DOMAIN request' = Actors, DOMAIN about' = Actors
  PROVE  IInv'
<1> USE ClockAssumption, SendersAssumption
<1>1. s \in Actors /\ s # Script
  BY DEF Actors
<1>2. RefreshBuffer(env) \in Nat
  BY BufferIsInt DEF IInv, TypeOK
<1>3. CASE ~RefreshEnabled(env) /\ Posts(s, EnvToken)
  BY <1>1, <1>3 DEF IInv, TypeOK, Posts, EnvToken, CallsEnd, IssuedInv, CacheInv, PostInv, ScriptInv, Generous
<1>4. CASE UsableCache(env, cached, now) /\ Posts(s, [kind |-> "long", until |-> cached.until, life |-> 0])
  <2>1. TypeOK'
    BY <1>1, <1>4 DEF IInv, TypeOK, Posts
  <2>2. Generous => now + Timeout < cached.until
    BY <1>2, <1>4 DEF IInv, TypeOK, UsableCache, CacheInv, Generous
  <2>3. CallsEnd' /\ IssuedInv' /\ CacheInv' /\ ScriptInv'
    BY <1>1, <1>4 DEF IInv, TypeOK, Posts, CallsEnd, IssuedInv, CacheInv, ScriptInv
  <2>4. PostInv'
    BY <1>1, <1>4, <2>2 DEF IInv, TypeOK, Posts, PostInv, Generous
  <2> QED
    BY <2>1, <2>3, <2>4 DEF IInv
<1>5. CASE AwaitsExchange(s)
  BY <1>1, <1>5 DEF IInv, TypeOK, AwaitsExchange, CallsEnd, IssuedInv, CacheInv, PostInv, ScriptInv, Generous
<1> QED
  BY <1>3, <1>4, <1>5 DEF GetAccessToken

-----------------------------------------------------------------------------
\* The invariant holds at first.
LEMMA InvInit == Init => IInv
BY ClockAssumption, SendersAssumption
   DEF Init, IInv, TypeOK, CallsEnd, IssuedInv, CacheInv, PostInv, ScriptInv, Actors,
       NoToken, NoCache, Generous

\* Every step keeps it.
LEMMA InvNext == IInv /\ [Next]_vars => IInv'
<1> SUFFICES ASSUME IInv, [Next]_vars PROVE IInv'
  OBVIOUS
<1> USE ClockAssumption, SendersAssumption
<1>1. ASSUME NEW s \in Senders, SendBookingConfirmation(s) PROVE IInv'
  <2>1. PICK b \in Rows : Composes(s, ServiceFields(b), [of |-> "booking", data |-> b])
    BY <1>1 DEF SendBookingConfirmation
  <2>2. DOMAIN request' = Actors /\ DOMAIN about' = Actors
    BY <2>1, RequestsKeepDomain DEF IInv, Actors
  <2> QED
    BY <1>1, <2>1, <2>2, GetAccessTokenStep DEF SendBookingConfirmation, MaySend, Composes
<1>2. ASSUME NEW s \in Senders, SendBookingConfirmationById(s) PROVE IInv'
  <2>1. PICK b \in Rows, t \in Instants :
          LET shown == [b EXCEPT !.preferredPickupAt = t]
          IN  Composes(s, ServiceFields(shown), [of |-> "booking", data |-> shown])
    BY <1>2 DEF SendBookingConfirmationById
  <2>2. DOMAIN request' = Actors /\ DOMAIN about' = Actors
    BY <2>1, RequestsKeepDomain DEF IInv, Actors
  <2> QED
    BY <1>2, <2>1, <2>2, GetAccessTokenStep DEF SendBookingConfirmationById, MaySend, Composes
<1>3. ASSUME NEW s \in Senders, NEW dto, SendTemplate(s, dto) PROVE IInv'
  <2>1. Composes(s, ControllerFields(dto), [of |-> "form", data |-> dto])
    BY <1>3 DEF SendTemplate
  <2>2. DOMAIN request' = Actors /\ DOMAIN about' = Actors
    BY <2>1, RequestsKeepDomain DEF IInv, Actors
  <2> QED
    BY <1>3, <2>1, <2>2, GetAccessTokenStep DEF SendTemplate, MaySend, Composes
<1>4. ASSUME NEW s \in Senders, MetaIssues(s) PROVE IInv'
  <2>1. s \in Actors /\ s # Script
    BY DEF Actors
  <2>2. PICK l \in Lifetimes :
          token' = [token EXCEPT ![s] = [kind |-> "long", until |-> now + l, life |-> l]]
    BY <1>4 DEF MetaIssues
  <2>3. l \in Nat /\ (l = 0 \/ l > 2 * Timeout)
    BY LifetimesAssumption
  <2> QED
    BY <1>4, <2>1, <2>2, <2>3
       DEF IInv, TypeOK, MetaIssues, CallsEnd, IssuedInv, CacheInv, PostInv, ScriptInv, Generous
<1>5. ASSUME NEW s \in Senders, ExchangeAnswered(s) PROVE IInv'
  <2>1. s \in Actors /\ s # Script /\ pc[s] = "issued"
    BY <1>5 DEF Actors, ExchangeAnswered
  <2>2. CASE token[s].life = 0
    <3>1. UNCHANGED <<env, envUntil, now, cached, request, about>> /\ Posts(s, EnvToken)
      BY <1>5, <2>2 DEF ExchangeAnswered
    <3>2. TypeOK' /\ CallsEnd' /\ ScriptInv'
      BY <2>1, <3>1 DEF IInv, TypeOK, Posts, EnvToken, CallsEnd, ScriptInv
    <3>3. IssuedInv' /\ CacheInv' /\ PostInv'
      BY <2>1, <3>1 DEF IInv, TypeOK, Posts, EnvToken, IssuedInv, CacheInv, PostInv, Generous
    <3> QED
      BY <3>2, <3>3 DEF IInv
  <2>3. CASE token[s].life # 0
    <3>1. /\ cached' = [kind |-> "long", until |-> token[s].until, expiresAt |-> now + token[s].life]
          /\ Posts(s, token[s])
          /\ UNCHANGED <<env, envUntil, now, request, about>>
      BY <1>5, <2>3 DEF ExchangeAnswered
    <3>2. /\ token[s] \in [kind : {"none", "env", "long"}, until : Nat, life : Nat]
          /\ since[s] \in Nat /\ now \in Nat /\ Timeout \in Nat
      BY <2>1 DEF IInv, TypeOK
    <3>3. /\ now + token[s].life <= token[s].until + Timeout
          /\ now + Timeout < token[s].until
      BY <2>1, <2>3, <3>2 DEF IInv, CallsEnd, IssuedInv
    <3>4. TypeOK'
      BY <2>1, <3>1, <3>2 DEF IInv, TypeOK, Posts
    <3>5. CacheInv'
      BY <3>1, <3>3 DEF CacheInv
    <3>6. CallsEnd' /\ IssuedInv' /\ ScriptInv'
      BY <2>1, <3>1 DEF IInv, TypeOK, Posts, CallsEnd, IssuedInv, ScriptInv
    <3>7. PostInv'
      BY <2>1, <3>1, <3>3 DEF IInv, TypeOK, Posts, PostInv, Generous
    <3> QED
      BY <3>4, <3>5, <3>6, <3>7 DEF IInv
  <2> QED
    BY <2>2, <2>3
<1>6. ASSUME NEW s \in Senders, ExchangeFails(s) PROVE IInv'
  BY <1>6 DEF IInv, TypeOK, Actors, ExchangeFails, Posts, EnvToken, CallsEnd, IssuedInv, CacheInv,
              PostInv, ScriptInv, Generous
<1>7. ASSUME NEW fields, NEW data, ScriptPosts(fields, data) PROVE IInv'
  <2>1. Script \in Actors
    BY DEF Actors
  <2>2. DOMAIN request' = Actors /\ DOMAIN about' = Actors
    BY <1>7, <2>1, RequestsKeepDomain DEF IInv, ScriptPosts
  <2> QED
    BY <1>7, <2>1, <2>2 DEF IInv, TypeOK, ScriptPosts, MaySend, Composes, Posts, EnvToken, CallsEnd,
                            IssuedInv, CacheInv, PostInv, ScriptInv, Generous
<1>8. ASSUME NEW a \in Actors, PostEnds(a) PROVE IInv'
  BY <1>8 DEF IInv, TypeOK, Actors, PostEnds, NoToken, CallsEnd, IssuedInv, CacheInv, PostInv, ScriptInv, Generous
<1>9. CASE Tick
  BY <1>9 DEF IInv, TypeOK, Actors, Tick, CallsEnd, IssuedInv, CacheInv, PostInv, ScriptInv, Generous
<1>10. CASE Restart
  BY <1>10 DEF IInv, TypeOK, Actors, Restart, NoToken, NoCache, CallsEnd, IssuedInv, CacheInv, PostInv,
               ScriptInv, Generous
<1>11. CASE UNCHANGED vars
  BY <1>11 DEF IInv, TypeOK, vars, Actors, CallsEnd, IssuedInv, CacheInv, PostInv, ScriptInv, Generous
<1>12. ScriptSend => IInv'
  BY <1>7 DEF ScriptSend
<1>13. ScriptBooking => IInv'
  BY <1>7 DEF ScriptBooking
<1>14. ScriptApi => IInv'
  BY <1>3 DEF ScriptApi
<1> QED
  BY <1>1, <1>2, <1>3, <1>4, <1>5, <1>6, <1>8, <1>9, <1>10, <1>11, <1>12, <1>13, <1>14 DEF Next

\* The invariant gives the property.
LEMMA InvAlive == IInv => TokenAlive
BY ClockAssumption, SendersAssumption DEF IInv, TypeOK, Actors, CallsEnd, PostInv, ScriptInv, TokenAlive


-----------------------------------------------------------------------------
(* Texts.  The conversions are folds, and what they do is shown position by  *)
(* position; induction is on a set of numbers, by the least that is missing. *)

\* Of whatever characters.
IsText(s) == \E C : s \in Seq(C)
Blank == " "
HasPrinting(s) == \E i \in DOMAIN s : s[i] \notin Spaces
NoBreaks(s) == \A i \in DOMAIN s : s[i] \notin Breaks
NoLongRuns(s) == \A i \in 1 .. Len(s) - 4 : \E j \in i .. i + 4 : s[j] # Blank

LEMMA SetInduction ==
  ASSUME NEW S, 0 \in S, \A n \in Nat : n \in S => n + 1 \in S
  PROVE  Nat \subseteq S
<1> DEFINE T == Nat \ S
<1> DEFINE R == {ss \in Nat \X Nat : ss[1] < ss[2]}
<1> SUFFICES ASSUME T # {} PROVE FALSE
  OBVIOUS
<1>1. IsWellFoundedOn(R, Nat)
  BY NatLessThanWellFounded DEF OpToRel
<1>2. \E x \in T : \A y \in T : ~(<<y, x>> \in R)
  <2> HIDE DEF R
  <2> QED BY <1>1, WFMin
<1>3. PICK x \in T : \A y \in T : ~(<<y, x>> \in R)
  BY <1>2
<1>4. x - 1 \in T
  OBVIOUS
<1>5. <<x - 1, x>> \in R
  BY <1>4
<1> QED BY <1>3, <1>4, <1>5

LEMMA MaxOfPrefix ==
  ASSUME NEW n \in Nat, NEW t \in SUBSET (1 .. n + 1), n + 1 \in t
  PROVE  Max(t) = n + 1
<1>1. \A y \in t : n + 1 >= y
  OBVIOUS
<1>2. \A x \in t : (\A y \in t : x >= y) => x = n + 1
  OBVIOUS
<1>3. Max(t) \in t /\ \A y \in t : Max(t) >= y
  BY <1>1 DEF Max
<1> QED
  BY <1>2, <1>3

\* A set of positions that is not empty has a least and a greatest one.
LEMMA LeastAndGreatest ==
  ASSUME NEW n \in Nat, NEW P \in SUBSET (1 .. n), P # {}
  PROVE  /\ Min(P) \in P /\ \A i \in P : Min(P) <= i
         /\ Max(P) \in P /\ \A i \in P : i <= Max(P)
<1>1. \E x \in P : \A y \in P : x <= y
  <2> DEFINE K == {k \in Nat : (\E i \in P : i <= k) => \E x \in P : \A y \in P : x <= y}
  <2>1. 0 \in K
    OBVIOUS
  <2>2. ASSUME NEW k \in Nat, k \in K PROVE k + 1 \in K
    <3>1. CASE \E i \in P : i <= k
      BY <3>1, <2>2
    <3>2. CASE ~\E i \in P : i <= k
      <4>1. ASSUME NEW i \in P, i <= k + 1 PROVE \E x \in P : \A y \in P : x <= y
        <5>1. i = k + 1 /\ \A y \in P : i <= y
          BY <3>2, <4>1
        <5> QED BY <5>1
      <4> QED BY <4>1
    <3> QED BY <3>1, <3>2
  <2> HIDE DEF K
  <2>3. Nat \subseteq K
    BY <2>1, <2>2, SetInduction
  <2>4. PICK i \in P : i \in 1 .. n
    OBVIOUS
  <2>5. n \in K /\ i <= n
    BY <2>3, <2>4
  <2> QED BY <2>5 DEF K
<1>2. \E x \in P : \A y \in P : x >= y
  <2> DEFINE K == {k \in Nat : (\E i \in P : i >= n - k) => \E x \in P : \A y \in P : x >= y}
  <2>1. 0 \in K
    <3>1. ASSUME NEW i \in P, i >= n - 0 PROVE \E x \in P : \A y \in P : x >= y
      <4>1. \A y \in P : i >= y
        BY <3>1
      <4> QED BY <4>1
    <3> QED BY <3>1
  <2>2. ASSUME NEW k \in Nat, k \in K PROVE k + 1 \in K
    <3>1. CASE \E i \in P : i >= n - k
      BY <3>1, <2>2
    <3>2. CASE ~\E i \in P : i >= n - k
      <4>1. ASSUME NEW i \in P, i >= n - (k + 1) PROVE \E x \in P : \A y \in P : x >= y
        <5>1. i = n - (k + 1) /\ \A y \in P : i >= y
          BY <3>2, <4>1
        <5> QED BY <5>1
      <4> QED BY <4>1
    <3> QED BY <3>1, <3>2
  <2> HIDE DEF K
  <2>3. Nat \subseteq K
    BY <2>1, <2>2, SetInduction
  <2>4. PICK i \in P : i \in 1 .. n
    OBVIOUS
  <2>5. n \in K /\ i >= n - n
    BY <2>3, <2>4
  <2> QED BY <2>5 DEF K
<1>3. Min(P) \in P /\ \A i \in P : Min(P) <= i
  BY <1>1 DEF Min
<1>4. Max(P) \in P /\ \A i \in P : Max(P) >= i
  BY <1>2 DEF Max
<1> QED
  BY <1>3, <1>4

LEMMA TextFacts ==
  ASSUME NEW s, IsText(s)
  PROVE  /\ Len(s) \in Nat /\ DOMAIN s = 1 .. Len(s)
         /\ \E C : s \in Seq(C) /\ \A i \in 1 .. Len(s) : s[i] \in C
BY LenProperties, ElementOfSeq DEF IsText

LEMMA EmptyText == IsText(<<>>)
BY EmptySeq DEF IsText

\* A stretch of a text.
LEMMA Stretch ==
  ASSUME NEW s, IsText(s), NEW a \in 1 .. Len(s), NEW b \in 1 .. Len(s), a <= b
  PROVE  /\ IsText(SubSeq(s, a, b)) /\ Len(SubSeq(s, a, b)) = b - a + 1
         /\ \A i \in 1 .. b - a + 1 : SubSeq(s, a, b)[i] = s[a + i - 1]
<1>1. PICK C : Len(s) \in Nat /\ \A i \in 1 .. Len(s) : s[i] \in C
  BY TextFacts
<1>2. a \in Int /\ b \in Int /\ \A i \in a .. b : s[i] \in C
  BY <1>1
<1> DEFINE t == SubSeq(s, a, b)
<1>3. t \in Seq(C) /\ Len(t) = b - a + 1 /\ \A i \in 1 .. b - a + 1 : t[i] = s[a + i - 1]
  BY <1>2, SubSeqProperties
<1> QED
  BY <1>3 DEF IsText

\* Trimming leaves nothing of a blank text, and otherwise a stretch of it that
\* begins and ends with a printing character.
LEMMA TrimText ==
  ASSUME NEW s, IsText(s)
  PROVE  /\ IsText(Trim(s))
         /\ Trim(s) # <<>> <=> HasPrinting(s)
         /\ HasPrinting(s) => \E a, b \in 1 .. Len(s) :
              a <= b /\ s[a] \notin Spaces /\ s[b] \notin Spaces /\ Trim(s) = SubSeq(s, a, b)
<1> DEFINE printing == {i \in DOMAIN s : s[i] \notin Spaces}
<1>1. CASE printing = {}
  <2>1. Trim(s) = <<>> /\ ~HasPrinting(s)
    BY <1>1 DEF Trim, HasPrinting
  <2> QED BY <2>1, EmptyText
<1>2. CASE printing # {}
  <2>1. Len(s) \in Nat /\ printing \in SUBSET (1 .. Len(s))
    BY TextFacts
  <2> DEFINE a == Min(printing)
             b == Max(printing)
  <2>2. a \in printing /\ b \in printing /\ a <= b
    <3> HIDE DEF printing
    <3> QED BY <1>2, <2>1, LeastAndGreatest
  <2>3. Trim(s) = SubSeq(s, a, b)
    BY <1>2 DEF Trim
  <2>4. a \in 1 .. Len(s) /\ b \in 1 .. Len(s) /\ s[a] \notin Spaces /\ s[b] \notin Spaces
    BY <2>1, <2>2
  <2> HIDE DEF a, b
  <2>5. IsText(SubSeq(s, a, b)) /\ SubSeq(s, a, b) # <<>>
    <3>1. IsText(SubSeq(s, a, b)) /\ Len(SubSeq(s, a, b)) = b - a + 1
      BY <2>2, <2>4, Stretch
    <3>2. b - a + 1 # 0 /\ Len(<<>>) = 0
      BY <2>1, <2>2, <2>4
    <3> QED BY <3>1, <3>2
  <2>6. HasPrinting(s)
    BY <1>2 DEF HasPrinting
  <2> QED BY <2>2, <2>3, <2>4, <2>5, <2>6
<1> QED
  BY <1>1, <1>2
LEMMA JoinChain ==
  ASSUME NEW s, NEW n \in Nat, DOMAIN s = 1 .. n
  PROVE  \E f : /\ f[0] = <<>>
                /\ \A i \in 1 .. n : f[i] = JoinBreak(f[i - 1], s[i])
                /\ FoldLeft(JoinBreak, <<>>, s) = f[n]
<1> DEFINE Is(g, k) == g = [t \in SUBSET (1 .. k) |->
                              IF t = {} THEN <<>> ELSE JoinBreak(g[t \ {Max(t)}], s[Max(t)])]
<1> DEFINE K == {k \in Nat : \E g : Is(g, k)}
<1>1. 0 \in K
  <2>1. Is([t \in {{}} |-> <<>>], 0)
    <3>1. SUBSET (1 .. 0) = {{}}
      OBVIOUS
    <3> QED BY <3>1
  <2> QED BY <2>1
<1>2. ASSUME NEW k \in Nat, k \in K PROVE k + 1 \in K
  <2>1. PICK g : Is(g, k)
    BY <1>2
  <2> DEFINE h == [t \in SUBSET (1 .. k + 1) |->
                    IF k + 1 \in t THEN JoinBreak(g[t \ {k + 1}], s[k + 1]) ELSE g[t]]
  <2>2. ASSUME NEW t \in SUBSET (1 .. k + 1)
        PROVE  h[t] = IF t = {} THEN <<>> ELSE JoinBreak(h[t \ {Max(t)}], s[Max(t)])
    <3>1. CASE k + 1 \in t
      <4>1. Max(t) = k + 1
        BY <3>1, MaxOfPrefix
      <4>2. t \ {k + 1} \in SUBSET (1 .. k + 1) /\ k + 1 \notin t \ {k + 1}
        OBVIOUS
      <4>3. h[t \ {k + 1}] = g[t \ {k + 1}]
        BY <4>2
      <4> QED BY <3>1, <4>1, <4>3
    <3>2. CASE k + 1 \notin t
      <4>0. \A e \in t : e \in 1 .. k
        BY <3>2
      <4>1. t \in SUBSET (1 .. k) /\ t \ {Max(t)} \in SUBSET (1 .. k + 1) /\ k + 1 \notin t \ {Max(t)}
        BY <3>2, <4>0
      <4>2. h[t] = g[t] /\ h[t \ {Max(t)}] = g[t \ {Max(t)}]
        BY <3>2, <4>1
      <4> QED BY <4>1, <4>2, <2>1
    <3> QED BY <3>1, <3>2
  <2>3. Is(h, k + 1)
    <3> DEFINE B(t) == IF t = {} THEN <<>> ELSE JoinBreak(h[t \ {Max(t)}], s[Max(t)])
    <3>1. \A t \in SUBSET (1 .. k + 1) : h[t] = B(t)
      BY <2>2
    <3>2. h = [t \in SUBSET (1 .. k + 1) |-> h[t]]
      OBVIOUS
    <3> HIDE DEF h, B
    <3>3. h = [t \in SUBSET (1 .. k + 1) |-> B(t)]
      BY <3>1, <3>2
    <3> QED BY <3>3 DEF B
  <2> HIDE DEF h, Is
  <2> QED BY <2>3
<1>3. PICK g0 : Is(g0, n)
  <2> HIDE DEF K
  <2>1. Nat \subseteq K
    BY <1>1, <1>2, SetInduction
  <2> QED BY <2>1 DEF K
<1> DEFINE iter == CHOOSE g : Is(g, n)
<1>4. iter = [t \in SUBSET (1 .. n) |->
          IF t = {} THEN <<>> ELSE JoinBreak(iter[t \ {Max(t)}], s[Max(t)])]
  BY <1>3
<1>5. FoldLeft(JoinBreak, <<>>, s) = iter[1 .. n]
  BY Zenon DEF FoldLeft, MapThenFoldSet
<1> HIDE DEF iter
<1> DEFINE f == [i \in 0 .. n |-> iter[1 .. i]]
<1>6. f[0] = <<>>
  BY <1>4
<1>7. ASSUME NEW i \in 1 .. n PROVE f[i] = JoinBreak(f[i - 1], s[i])
  <2>1. Max(1 .. i) = i /\ (1 .. i) \ {i} = 1 .. i - 1 /\ 1 .. i # {} /\ 1 .. i \in SUBSET (1 .. n)
    <3>0. i - 1 \in Nat /\ (i - 1) + 1 = i /\ i \in 1 .. i /\ i \in Nat
      OBVIOUS
    <3>1. Max(1 .. i) = i
      BY <3>0, MaxOfPrefix
    <3>2. (1 .. i) \ {i} = 1 .. i - 1
      BY <3>0
    <3> QED BY <3>0, <3>1, <3>2
  <2>2. iter[1 .. i] = JoinBreak(iter[(1 .. i) \ {Max(1 .. i)}], s[Max(1 .. i)])
    BY <1>4, <2>1
  <2>3. iter[1 .. i] = JoinBreak(iter[1 .. i - 1], s[i])
    BY <2>1, <2>2
  <2> QED BY <2>3
<1>8. FoldLeft(JoinBreak, <<>>, s) = f[n]
  BY <1>5
<1> QED BY <1>6, <1>7, <1>8

LEMMA ShortenChain ==
  ASSUME NEW s, NEW n \in Nat, DOMAIN s = 1 .. n
  PROVE  \E f : /\ f[0] = <<>>
                /\ \A i \in 1 .. n : f[i] = ShortenRun(f[i - 1], s[i])
                /\ FoldLeft(ShortenRun, <<>>, s) = f[n]
<1> DEFINE Is(g, k) == g = [t \in SUBSET (1 .. k) |->
                              IF t = {} THEN <<>> ELSE ShortenRun(g[t \ {Max(t)}], s[Max(t)])]
<1> DEFINE K == {k \in Nat : \E g : Is(g, k)}
<1>1. 0 \in K
  <2>1. Is([t \in {{}} |-> <<>>], 0)
    <3>1. SUBSET (1 .. 0) = {{}}
      OBVIOUS
    <3> QED BY <3>1
  <2> QED BY <2>1
<1>2. ASSUME NEW k \in Nat, k \in K PROVE k + 1 \in K
  <2>1. PICK g : Is(g, k)
    BY <1>2
  <2> DEFINE h == [t \in SUBSET (1 .. k + 1) |->
                    IF k + 1 \in t THEN ShortenRun(g[t \ {k + 1}], s[k + 1]) ELSE g[t]]
  <2>2. ASSUME NEW t \in SUBSET (1 .. k + 1)
        PROVE  h[t] = IF t = {} THEN <<>> ELSE ShortenRun(h[t \ {Max(t)}], s[Max(t)])
    <3>1. CASE k + 1 \in t
      <4>1. Max(t) = k + 1
        BY <3>1, MaxOfPrefix
      <4>2. t \ {k + 1} \in SUBSET (1 .. k + 1) /\ k + 1 \notin t \ {k + 1}
        OBVIOUS
      <4>3. h[t \ {k + 1}] = g[t \ {k + 1}]
        BY <4>2
      <4> QED BY <3>1, <4>1, <4>3
    <3>2. CASE k + 1 \notin t
      <4>0. \A e \in t : e \in 1 .. k
        BY <3>2
      <4>1. t \in SUBSET (1 .. k) /\ t \ {Max(t)} \in SUBSET (1 .. k + 1) /\ k + 1 \notin t \ {Max(t)}
        BY <3>2, <4>0
      <4>2. h[t] = g[t] /\ h[t \ {Max(t)}] = g[t \ {Max(t)}]
        BY <3>2, <4>1
      <4> QED BY <4>1, <4>2, <2>1
    <3> QED BY <3>1, <3>2
  <2>3. Is(h, k + 1)
    <3> DEFINE B(t) == IF t = {} THEN <<>> ELSE ShortenRun(h[t \ {Max(t)}], s[Max(t)])
    <3>1. \A t \in SUBSET (1 .. k + 1) : h[t] = B(t)
      BY <2>2
    <3>2. h = [t \in SUBSET (1 .. k + 1) |-> h[t]]
      OBVIOUS
    <3> HIDE DEF h, B
    <3>3. h = [t \in SUBSET (1 .. k + 1) |-> B(t)]
      BY <3>1, <3>2
    <3> QED BY <3>3 DEF B
  <2> HIDE DEF h, Is
  <2> QED BY <2>3
<1>3. PICK g0 : Is(g0, n)
  <2> HIDE DEF K
  <2>1. Nat \subseteq K
    BY <1>1, <1>2, SetInduction
  <2> QED BY <2>1 DEF K
<1> DEFINE iter == CHOOSE g : Is(g, n)
<1>4. iter = [t \in SUBSET (1 .. n) |->
          IF t = {} THEN <<>> ELSE ShortenRun(iter[t \ {Max(t)}], s[Max(t)])]
  BY <1>3
<1>5. FoldLeft(ShortenRun, <<>>, s) = iter[1 .. n]
  BY Zenon DEF FoldLeft, MapThenFoldSet
<1> HIDE DEF iter
<1> DEFINE f == [i \in 0 .. n |-> iter[1 .. i]]
<1>6. f[0] = <<>>
  BY <1>4
<1>7. ASSUME NEW i \in 1 .. n PROVE f[i] = ShortenRun(f[i - 1], s[i])
  <2>1. Max(1 .. i) = i /\ (1 .. i) \ {i} = 1 .. i - 1 /\ 1 .. i # {} /\ 1 .. i \in SUBSET (1 .. n)
    <3>0. i - 1 \in Nat /\ (i - 1) + 1 = i /\ i \in 1 .. i /\ i \in Nat
      OBVIOUS
    <3>1. Max(1 .. i) = i
      BY <3>0, MaxOfPrefix
    <3>2. (1 .. i) \ {i} = 1 .. i - 1
      BY <3>0
    <3> QED BY <3>0, <3>1, <3>2
  <2>2. iter[1 .. i] = ShortenRun(iter[(1 .. i) \ {Max(1 .. i)}], s[Max(1 .. i)])
    BY <1>4, <2>1
  <2>3. iter[1 .. i] = ShortenRun(iter[1 .. i - 1], s[i])
    BY <2>1, <2>2
  <2> QED BY <2>3
<1>8. FoldLeft(ShortenRun, <<>>, s) = f[n]
  BY <1>5
<1> QED BY <1>6, <1>7, <1>8

\* One more character.
LEMMA AppendText ==
  ASSUME NEW r, IsText(r), NEW c
  PROVE  /\ IsText(Append(r, c)) /\ Len(Append(r, c)) = Len(r) + 1
         /\ Append(r, c)[Len(r) + 1] = c /\ \A i \in 1 .. Len(r) : Append(r, c)[i] = r[i]
         /\ HasPrinting(r) \/ c \notin Spaces => HasPrinting(Append(r, c))
<1>1. /\ IsText(Append(r, c)) /\ Len(Append(r, c)) = Len(r) + 1
      /\ Append(r, c)[Len(r) + 1] = c /\ \A i \in 1 .. Len(r) : Append(r, c)[i] = r[i]
  <2>1. PICK C : r \in Seq(C)
    BY DEF IsText
  <2>2. r \in Seq(C \union {c}) /\ c \in C \union {c}
    BY <2>1, SeqMonotonic
  <2>3. /\ Append(r, c) \in Seq(C \union {c}) /\ Len(Append(r, c)) = Len(r) + 1
        /\ Append(r, c)[Len(r) + 1] = c /\ \A i \in 1 .. Len(r) : Append(r, c)[i] = r[i]
    BY <2>2, AppendProperties
  <2> QED BY <2>3 DEF IsText
<1>2. /\ Len(r) \in Nat /\ DOMAIN r = 1 .. Len(r) /\ DOMAIN Append(r, c) = 1 .. Len(r) + 1
  BY <1>1, TextFacts
<1>3. HasPrinting(r) => HasPrinting(Append(r, c))
  BY <1>1, <1>2 DEF HasPrinting
<1>4. c \notin Spaces => HasPrinting(Append(r, c))
  BY <1>1, <1>2 DEF HasPrinting
<1> QED
  BY <1>1, <1>3, <1>4

LEMMA FourBlanks ==
  FourSpaces \in Seq({Blank}) /\ Len(FourSpaces) = 4 /\ \A i \in 1 .. 4 : FourSpaces[i] = Blank
<1>1. FourSpaces = <<Blank, Blank, Blank, Blank>>
  BY DEF FourSpaces, Blank
<1> QED
  BY <1>1

LEMMA FiveBlanks ==
  ASSUME NEW e, NEW f \in Seq({e}), Len(f) = 4, \A i \in 1 .. 4 : f[i] = e
  PROVE  \A i \in 1 .. 5 : Append(f, e)[i] = e
<1>1. e \in {e}
  OBVIOUS
<1> DEFINE g == Append(f, e)
<1>2. g[Len(f) + 1] = e /\ \A i \in 1 .. Len(f) : g[i] = f[i]
  BY <1>1, AppendProperties
<1> HIDE DEF g
<1>3. g[5] = e /\ \A i \in 1 .. 4 : g[i] = e
  BY <1>2
<1>4. \A i \in 1 .. 5 : g[i] = e
  BY <1>3
<1> QED
  BY <1>4 DEF g

\* Four spaces at the end are a suffix.
LEMMA FourAtTheEnd ==
  ASSUME NEW r, IsText(r), Len(r) >= 4, \A j \in Len(r) - 3 .. Len(r) : r[j] = Blank
  PROVE  IsSuffix(FourSpaces, r)
<1>1. Len(r) \in Nat /\ Len(Reverse(r)) = Len(r) /\ \A i \in 1 .. Len(r) : Reverse(r)[i] = r[(Len(r) - i) + 1]
  BY TextFacts DEF Reverse
<1>2. \A i \in 1 .. 4 : Reverse(r)[i] = Blank
  <2>1. \A i \in 1 .. 4 : i \in 1 .. Len(r) /\ (Len(r) - i) + 1 \in Len(r) - 3 .. Len(r)
    BY <1>1
  <2> QED BY <1>1, <2>1
<1>3. Len(FourSpaces) = 4 /\ \A i \in 1 .. 4 : FourSpaces[i] = Blank
  BY FourBlanks
<1>4. /\ SubSeq(Reverse(r), 1, 4) \in Seq({Blank}) /\ Len(SubSeq(Reverse(r), 1, 4)) = 4
      /\ \A i \in 1 .. 4 : SubSeq(Reverse(r), 1, 4)[i] = Blank
  BY <1>2, SubSeqProperties
<1>5. Len(Reverse(FourSpaces)) = 4 /\ \A i \in 1 .. 4 : Reverse(FourSpaces)[i] = Blank
  BY <1>3 DEF Reverse
<1>6. /\ SubSeq(Reverse(FourSpaces), 1, 4) \in Seq({Blank})
      /\ Len(SubSeq(Reverse(FourSpaces), 1, 4)) = 4
      /\ \A i \in 1 .. 4 : SubSeq(Reverse(FourSpaces), 1, 4)[i] = Blank
  BY <1>5, SubSeqProperties
<1>7. SubSeq(Reverse(r), 1, 4) = SubSeq(Reverse(FourSpaces), 1, 4)
  BY <1>4, <1>6, SeqEqual
<1> QED
  BY <1>1, <1>5, <1>7 DEF IsSuffix, IsPrefix

\* A space is only added where it makes no run of five.
LEMMA AppendRuns ==
  ASSUME NEW r, IsText(r), NEW c, NoLongRuns(r), c = Blank => ~IsSuffix(FourSpaces, r)
  PROVE  NoLongRuns(Append(r, c))
<1>1. /\ Len(r) \in Nat /\ Len(Append(r, c)) = Len(r) + 1
      /\ Append(r, c)[Len(r) + 1] = c /\ \A i \in 1 .. Len(r) : Append(r, c)[i] = r[i]
  BY AppendText, TextFacts
<1> SUFFICES ASSUME NEW i \in 1 .. Len(r) + 1 - 4
             PROVE  \E j \in i .. i + 4 : Append(r, c)[j] # Blank
  BY <1>1 DEF NoLongRuns
<1>2. CASE i <= Len(r) - 4
  <2>1. PICK j \in i .. i + 4 : r[j] # Blank
    BY <1>1, <1>2 DEF NoLongRuns
  <2> QED BY <1>1, <1>2, <2>1
<1>3. CASE i = Len(r) - 3 /\ c # Blank
  BY <1>1, <1>3
<1>4. CASE i = Len(r) - 3 /\ c = Blank
  <2>1. PICK j \in Len(r) - 3 .. Len(r) : r[j] # Blank
    BY <1>1, <1>4, FourAtTheEnd
  <2>2. j \in 1 .. Len(r) /\ j \in i .. i + 4 /\ Append(r, c)[j] = r[j]
    BY <1>1, <1>4, <2>1
  <2> QED BY <2>1, <2>2
<1> QED
  BY <1>1, <1>2, <1>3, <1>4

\* JoinBreaks leaves no break, and blanks no text.
LEMMA JoinedText ==
  ASSUME NEW s, IsText(s)
  PROVE  /\ IsText(JoinBreaks(s)) /\ NoBreaks(JoinBreaks(s))
         /\ HasPrinting(s) => HasPrinting(JoinBreaks(s))
<1>1. PICK n \in Nat : n = Len(s) /\ DOMAIN s = 1 .. n
  BY TextFacts
<1>2. PICK f : /\ f[0] = <<>>
               /\ \A i \in 1 .. n : f[i] = JoinBreak(f[i - 1], s[i])
               /\ FoldLeft(JoinBreak, <<>>, s) = f[n]
  BY <1>1, JoinChain
<1> DEFINE Good(k) == /\ IsText(f[k])
                      /\ (\E i \in 1 .. k : s[i] \notin Spaces) => HasPrinting(f[k])
<1> DEFINE K == {k \in Nat : k <= n => Good(k)}
<1>3. 0 \in K
  <2>1. IsText(<<>>)
    BY EmptyText
  <2> QED BY <1>2, <2>1
<1>4. ASSUME NEW k \in Nat, k \in K PROVE k + 1 \in K
  <2> SUFFICES ASSUME k + 1 <= n PROVE Good(k + 1)
    OBVIOUS
  <2>1. /\ Good(k)
        /\ f[k + 1] = JoinBreak(f[k], s[k + 1])
    <3>1. k <= n /\ k + 1 \in 1 .. n /\ (k + 1) - 1 = k
      OBVIOUS
    <3>2. f[k + 1] = JoinBreak(f[k], s[k + 1])
      BY <1>2, <3>1
    <3>3. Good(k)
      BY <1>4, <3>1
    <3> QED BY <1>1, <3>1, <3>2, <3>3
  <2>2. CASE s[k + 1] \in Breaks /\ f[k + 1] = f[k]
    <3>1. \A i \in 1 .. k + 1 : s[i] \notin Spaces => i \in 1 .. k
      <4>1. s[k + 1] \in Spaces
        BY <2>2 DEF Spaces
      <4> QED BY <4>1
    <3> QED BY <2>1, <2>2, <3>1
  <2>3. CASE f[k + 1] = Append(f[k], s[k + 1])
    BY <2>1, <2>3, AppendText
  <2> QED BY <2>1, <2>2, <2>3 DEF JoinBreak
<1>5. n \in K
  <2> HIDE DEF K
  <2> QED BY <1>3, <1>4, SetInduction
<1>6. IsText(f[n]) /\ (HasPrinting(s) => HasPrinting(f[n]))
  <2>1. HasPrinting(s) => \E i \in 1 .. n : s[i] \notin Spaces
    BY <1>1 DEF HasPrinting
  <2>2. Good(n)
    BY <1>5
  <2> QED BY <2>1, <2>2
<1>7. JoinBreaks(s) = [i \in DOMAIN f[n] |-> IF f[n][i] \in Breaks THEN " " ELSE f[n][i]]
  BY <1>2 DEF JoinBreaks
<1> DEFINE j == JoinBreaks(s)
<1>8. /\ Len(f[n]) \in Nat /\ DOMAIN f[n] = 1 .. Len(f[n])
  BY <1>6, TextFacts
<1>9. " " \notin Breaks
  BY DEF Breaks
<1>10. NoBreaks(j)
  BY <1>7, <1>9 DEF NoBreaks
<1>11. IsText(j)
  <2> DEFINE C == {f[n][i] : i \in 1 .. Len(f[n])} \union {" "}
  <2>1. \A i \in 1 .. Len(f[n]) : (IF f[n][i] \in Breaks THEN " " ELSE f[n][i]) \in C
    OBVIOUS
  <2> HIDE DEF C
  <2>2. j \in [1 .. Len(f[n]) -> C]
    BY <1>7, <1>8, <2>1
  <2> QED BY <1>8, <2>2, SeqDef DEF IsText
<1>12. HasPrinting(f[n]) => HasPrinting(j)
  BY <1>7 DEF HasPrinting, Spaces
<1> QED
  BY <1>6, <1>10, <1>11, <1>12

\* ShortenRuns leaves no run of five spaces where there are no breaks, brings
\* in no break, and blanks no text.
LEMMA ShortenedText ==
  ASSUME NEW s, IsText(s), NoBreaks(s)
  PROVE  /\ IsText(ShortenRuns(s)) /\ NoBreaks(ShortenRuns(s)) /\ NoLongRuns(ShortenRuns(s))
         /\ HasPrinting(s) => HasPrinting(ShortenRuns(s))
<1>1. PICK n \in Nat : n = Len(s) /\ DOMAIN s = 1 .. n
  BY TextFacts
<1>2. PICK f : /\ f[0] = <<>>
               /\ \A i \in 1 .. n : f[i] = ShortenRun(f[i - 1], s[i])
               /\ FoldLeft(ShortenRun, <<>>, s) = f[n]
  BY <1>1, ShortenChain
<1> DEFINE Good(k) == /\ IsText(f[k]) /\ NoBreaks(f[k]) /\ NoLongRuns(f[k])
                      /\ (\E i \in 1 .. k : s[i] \notin Spaces) => HasPrinting(f[k])
<1> DEFINE K == {k \in Nat : k <= n => Good(k)}
<1>3. 0 \in K
  <2>1. IsText(<<>>) /\ Len(<<>>) = 0 /\ DOMAIN <<>> = {}
    BY EmptyText
  <2>2. NoBreaks(<<>>) /\ NoLongRuns(<<>>)
    BY <2>1 DEF NoBreaks, NoLongRuns
  <2> QED BY <1>2, <2>1, <2>2
<1>4. ASSUME NEW k \in Nat, k \in K PROVE k + 1 \in K
  <2> SUFFICES ASSUME k + 1 <= n PROVE Good(k + 1)
    OBVIOUS
  <2>1. /\ Good(k)
        /\ f[k + 1] = ShortenRun(f[k], s[k + 1]) /\ s[k + 1] \notin Breaks
    BY <1>1, <1>2, <1>4 DEF NoBreaks
  <2>2. CASE s[k + 1] = Blank /\ f[k + 1] = f[k]
    <3>1. \A i \in 1 .. k + 1 : s[i] \notin Spaces => i \in 1 .. k
      <4>1. s[k + 1] \in Spaces
        BY <2>2 DEF Spaces, Blank
      <4> QED BY <4>1
    <3> QED BY <2>1, <2>2, <3>1
  <2>3. CASE f[k + 1] = Append(f[k], s[k + 1]) /\ (s[k + 1] = Blank => ~IsSuffix(FourSpaces, f[k]))
    <3>1. /\ IsText(f[k + 1])
          /\ HasPrinting(f[k]) \/ s[k + 1] \notin Spaces => HasPrinting(f[k + 1])
      BY <2>1, <2>3, AppendText
    <3>2. NoBreaks(f[k + 1])
      BY <2>1, <2>3, AppendText, TextFacts DEF NoBreaks
    <3>3. NoLongRuns(f[k + 1])
      BY <2>1, <2>3, AppendRuns
    <3>4. (\E i \in 1 .. k + 1 : s[i] \notin Spaces) => HasPrinting(f[k + 1])
      BY <2>1, <3>1
    <3> QED BY <3>1, <3>2, <3>3, <3>4
  <2> QED BY <2>1, <2>2, <2>3 DEF ShortenRun, Blank
<1>5. n \in K
  <2> HIDE DEF K
  <2> QED BY <1>3, <1>4, SetInduction
<1>6. Good(n) /\ ShortenRuns(s) = f[n]
  BY <1>2, <1>5 DEF ShortenRuns
<1> QED
  BY <1>1, <1>6 DEF HasPrinting

\* A stretch of a text has neither breaks nor long runs if the text has none.
LEMMA TrimKeeps ==
  ASSUME NEW s, IsText(s), NoBreaks(s), NoLongRuns(s), HasPrinting(s)
  PROVE  IsText(Trim(s)) /\ NoBreaks(Trim(s)) /\ NoLongRuns(Trim(s)) /\ HasPrinting(Trim(s))
<1>1. PICK a \in 1 .. Len(s), b \in 1 .. Len(s) :
        a <= b /\ s[a] \notin Spaces /\ s[b] \notin Spaces /\ Trim(s) = SubSeq(s, a, b)
  BY TrimText
<1> DEFINE t == SubSeq(s, a, b)
<1>2. Len(s) \in Nat /\ DOMAIN s = 1 .. Len(s)
  BY TextFacts
<1>3. /\ IsText(t) /\ Len(t) = b - a + 1
      /\ \A i \in 1 .. b - a + 1 : t[i] = s[a + i - 1]
  BY <1>1, Stretch
<1>4. DOMAIN t = 1 .. b - a + 1
  BY <1>3, TextFacts
<1> HIDE DEF t
<1>5. NoBreaks(t)
  <2>1. \A i \in 1 .. b - a + 1 : a + i - 1 \in DOMAIN s
    BY <1>1, <1>2
  <2> QED BY <1>3, <1>4, <2>1 DEF NoBreaks
<1>6. NoLongRuns(t)
  <2> SUFFICES ASSUME NEW i \in 1 .. (b - a + 1) - 4 PROVE \E j \in i .. i + 4 : t[j] # Blank
    BY <1>3 DEF NoLongRuns
  <2>1. a + i - 1 \in 1 .. Len(s) - 4
    BY <1>1, <1>2
  <2>2. PICK j \in a + i - 1 .. a + i - 1 + 4 : s[j] # Blank
    BY <2>1 DEF NoLongRuns
  <2>3. j - a + 1 \in i .. i + 4 /\ j - a + 1 \in 1 .. b - a + 1 /\ a + (j - a + 1) - 1 = j
    BY <1>1, <1>2, <2>1
  <2>4. t[j - a + 1] = s[j]
    BY <1>3, <2>3
  <2> QED BY <2>2, <2>3, <2>4
<1>7. HasPrinting(t)
  <2>1. 1 \in DOMAIN t /\ t[1] = s[a]
    BY <1>1, <1>2, <1>3, <1>4
  <2> QED BY <1>1, <2>1 DEF HasPrinting
<1> QED
  BY <1>1, <1>3, <1>5, <1>6, <1>7 DEF t

\* What is cut to the limit fits, and has neither breaks nor long runs.
LEMMA ShortenKeeps ==
  ASSUME NEW s, IsText(s), s # <<>>, NoBreaks(s), NoLongRuns(s)
  PROVE  /\ IsText(Shorten(s)) /\ Shorten(s) # <<>> /\ Len(Shorten(s)) <= TextMax
         /\ NoBreaks(Shorten(s)) /\ NoLongRuns(Shorten(s))
<1> USE TextMaxAssumption
<1>1. CASE Len(s) <= TextMax
  BY <1>1 DEF Shorten
<1>2. CASE ~(Len(s) <= TextMax)
  <2> DEFINE h == SubSeq(s, 1, TextMax - 1)
             dots == "..."
  <2>1. Len(s) \in Nat /\ DOMAIN s = 1 .. Len(s)
    BY TextFacts
  <2>2. IsText(h) /\ Len(h) = TextMax - 1 /\ \A i \in 1 .. TextMax - 1 : h[i] = s[i]
    <3>1. 1 \in 1 .. Len(s) /\ TextMax - 1 \in 1 .. Len(s) /\ 1 <= TextMax - 1
      BY <1>2, <2>1
    <3>2. IsText(h) /\ Len(h) = (TextMax - 1) - 1 + 1
          /\ \A i \in 1 .. (TextMax - 1) - 1 + 1 : h[i] = s[1 + i - 1]
      BY <3>1, Stretch
    <3> QED BY <3>2
  <2>3. dots \notin Breaks /\ dots # Blank
    BY DEF Breaks, Blank
  <2>4. Shorten(s) = Append(h, dots)
    BY <1>2 DEF Shorten
  <2> HIDE DEF h, dots
  <2>5. /\ IsText(Append(h, dots)) /\ Len(Append(h, dots)) = TextMax
        /\ Append(h, dots)[TextMax] = dots
        /\ \A i \in 1 .. TextMax - 1 : Append(h, dots)[i] = h[i]
    BY <2>2, <2>3, AppendText
  <2>6. DOMAIN Append(h, dots) = 1 .. TextMax
    BY <2>5, TextFacts
  <2>7. NoBreaks(Append(h, dots))
    <3>1. \A i \in 1 .. TextMax - 1 : i \in DOMAIN s
      BY <1>2, <2>1
    <3> QED BY <2>2, <2>3, <2>5, <2>6, <3>1 DEF NoBreaks
  <2>8. NoLongRuns(Append(h, dots))
    <3> SUFFICES ASSUME NEW i \in 1 .. TextMax - 4 PROVE \E j \in i .. i + 4 : Append(h, dots)[j] # Blank
      BY <2>5 DEF NoLongRuns
    <3>1. i \in 1 .. Len(s) - 4
      BY <1>2, <2>1
    <3>2. PICK j \in i .. i + 4 : s[j] # Blank
      BY <3>1 DEF NoLongRuns
    <3>3. j \in 1 .. TextMax - 1 \/ TextMax \in i .. i + 4
      OBVIOUS
    <3> QED BY <2>2, <2>3, <2>5, <3>2, <3>3
  <2>9. Append(h, dots) # <<>>
    BY <2>5, <2>6
  <2> QED BY <2>4, <2>5, <2>7, <2>8, <2>9
<1> QED
  BY <1>1, <1>2

\* Any text with one printing character comes out of sanitizeTemplateParameter
\* as Meta takes it.
THEOREM SanitizedTaken ==
  ASSUME NEW s, IsText(s), HasPrinting(s)
  PROVE  MetaTakes(SanitizeTemplateParameter(s))
<1> DEFINE j == JoinBreaks(s)
           r == ShortenRuns(j)
           t == Trim(r)
           u == Shorten(t)
<1>1. IsText(j) /\ NoBreaks(j) /\ HasPrinting(j)
  BY JoinedText
<1> HIDE DEF j
<1>2. IsText(r) /\ NoBreaks(r) /\ NoLongRuns(r) /\ HasPrinting(r)
  BY <1>1, ShortenedText
<1> HIDE DEF r
<1>3. IsText(t) /\ NoBreaks(t) /\ NoLongRuns(t) /\ HasPrinting(t)
  BY <1>2, TrimKeeps
<1>4. t # <<>>
  BY <1>2, TrimText
<1> HIDE DEF t
<1>5. IsText(u) /\ u # <<>> /\ Len(u) <= TextMax /\ NoBreaks(u) /\ NoLongRuns(u)
  BY <1>3, <1>4, ShortenKeeps
<1>6. SanitizeTemplateParameter(s) = u
  BY DEF SanitizeTemplateParameter, u, t, r, j
<1> HIDE DEF u
<1>7. Len(u) \in Nat /\ DOMAIN u = 1 .. Len(u)
  BY <1>5, TextFacts
<1>8. ASSUME NEW i \in 1 .. Len(u) - 4 PROVE SubSeq(u, i, i + 4) # Append(FourSpaces, " ")
  <2>1. PICK k \in i .. i + 4 : u[k] # Blank
    BY <1>5 DEF NoLongRuns
  <2>2. k - i + 1 \in 1 .. (i + 4) - i + 1 /\ k - i + 1 \in 1 .. 5 /\ i + (k - i + 1) - 1 = k
        /\ i \in 1 .. Len(u) /\ i + 4 \in 1 .. Len(u) /\ i <= i + 4
    BY <1>7
  <2>3. \A m \in 1 .. (i + 4) - i + 1 : SubSeq(u, i, i + 4)[m] = u[i + m - 1]
    BY <1>5, <2>2, Stretch
  <2>4. SubSeq(u, i, i + 4)[k - i + 1] = u[i + (k - i + 1) - 1]
    BY <2>2, <2>3
  <2>5. \A m \in 1 .. 5 : Append(FourSpaces, Blank)[m] = Blank
    BY FourBlanks, FiveBlanks
  <2>6. Append(FourSpaces, " ") = Append(FourSpaces, Blank)
    BY DEF Blank
  <2>7. SubSeq(u, i, i + 4)[k - i + 1] = u[k]
    BY <2>2, <2>4
  <2> QED BY <2>1, <2>2, <2>5, <2>6, <2>7
<1> QED
  BY <1>5, <1>6, <1>8 DEF MetaTakes, NoBreaks

-----------------------------------------------------------------------------
(* The fields of the template, whoever fills them.                           *)

Printing(s) == IsText(s) /\ HasPrinting(s)

LEMMA OnePrinting ==
  ASSUME NEW c, c \notin Spaces PROVE Printing(<<c>>)
<1>1. <<c>> \in Seq({c}) /\ DOMAIN <<c>> = 1 .. 1 /\ <<c>>[1] = c
  OBVIOUS
<1>2. IsText(<<c>>)
  BY <1>1 DEF IsText
<1>3. HasPrinting(<<c>>)
  <2> DEFINE t == <<c>>
  <2>1. 1 \in DOMAIN t /\ t[1] = c
    BY <1>1
  <2> HIDE DEF t
  <2>2. HasPrinting(t)
    BY <2>1 DEF HasPrinting
  <2> QED BY <2>2 DEF t
<1> QED
  BY <1>2, <1>3 DEF Printing

LEMMA TrimPrinting ==
  ASSUME NEW s, IsText(s), Trim(s) # <<>> PROVE Printing(s) /\ Printing(Trim(s))
<1>1. PICK a \in 1 .. Len(s), b \in 1 .. Len(s) : a <= b /\ s[a] \notin Spaces /\ Trim(s) = SubSeq(s, a, b)
  BY TrimText
<1> DEFINE t == SubSeq(s, a, b)
<1>2. IsText(t) /\ Len(t) = b - a + 1 /\ \A i \in 1 .. b - a + 1 : t[i] = s[a + i - 1]
  BY <1>1, Stretch
<1> HIDE DEF t
<1>3. 1 \in 1 .. b - a + 1 /\ a + 1 - 1 = a
  BY <1>1, TextFacts
<1>4. 1 \in DOMAIN t /\ t[1] = s[a]
  BY <1>2, <1>3, TextFacts
<1>5. Printing(t)
  BY <1>1, <1>2, <1>4 DEF Printing, HasPrinting
<1> QED
  BY <1>1, <1>5, TrimText DEF Printing, t

LEMMA TrimOrPrinting ==
  ASSUME NEW s, IsText(s), NEW other, Printing(other) PROVE Printing(TrimOr(s, other))
BY TrimPrinting DEF TrimOr

LEMMA UpperPrinting ==
  ASSUME NEW s, Printing(s) PROVE Printing(UpperCase(s))
<1> DEFINE u == UpperCase(s)
<1>1. u = [i \in DOMAIN s |-> IF s[i] = "x" THEN "X" ELSE s[i]]
  BY DEF UpperCase
<1>2. Len(s) \in Nat /\ DOMAIN s = 1 .. Len(s)
  BY TextFacts DEF Printing
<1>3. IsText(u)
  <2> DEFINE C == {s[i] : i \in 1 .. Len(s)} \union {"X"}
  <2>1. \A i \in 1 .. Len(s) : (IF s[i] = "x" THEN "X" ELSE s[i]) \in C
    OBVIOUS
  <2> HIDE DEF C, u
  <2>2. u \in [1 .. Len(s) -> C]
    BY <1>1, <1>2, <2>1
  <2> QED BY <1>2, <2>2, SeqDef DEF IsText
<1>4. "X" \notin Spaces
  BY DEF Spaces, Breaks
<1>5. HasPrinting(u)
  <2>1. PICK i \in DOMAIN s : s[i] \notin Spaces
    BY DEF Printing, HasPrinting
  <2> HIDE DEF u
  <2>2. i \in DOMAIN u /\ u[i] \in {"X", s[i]}
    BY <1>1
  <2> QED BY <1>4, <2>1, <2>2 DEF HasPrinting
<1> QED
  BY <1>3, <1>5 DEF Printing

\* The literals that stand in for what is absent.
LEMMA Defaults == Printing(None) /\ Printing(<<"1">>) /\ Printing(<<"EXECUTIVE">>)
<1>1. "None" \notin Spaces /\ "1" \notin Spaces /\ "EXECUTIVE" \notin Spaces
  BY DEF Spaces, Breaks
<1> QED
  BY <1>1, OnePrinting DEF None

LEMMA ServicePrinting ==
  ASSUME NEW s, IsText(s) PROVE Printing(FormatSelectedService(s))
<1>1. CASE IsVehicleType(s)
  <2>1. /\ FormatSelectedService(s) = VehicleLabel[s[1]]
        /\ s[1] \in {"saloon", "executive", "mpv"}
    BY <1>1 DEF FormatSelectedService, IsVehicleType, VehicleLabel
  <2>2. VehicleLabel[s[1]] \in {<<"PREMIUM VEHICLE">>, <<"EXECUTIVE VEHICLE">>, <<"EXECUTIVE MPV (7 Seater)">>}
    <3>1. CASE s[1] = "saloon"
      BY <3>1 DEF VehicleLabel
    <3>2. CASE s[1] = "executive"
      BY <3>2 DEF VehicleLabel
    <3>3. CASE s[1] = "mpv"
      BY <3>3 DEF VehicleLabel
    <3> QED BY <2>1, <3>1, <3>2, <3>3
  <2>3. /\ "PREMIUM VEHICLE" \notin Spaces /\ "EXECUTIVE VEHICLE" \notin Spaces
        /\ "EXECUTIVE MPV (7 Seater)" \notin Spaces
    BY DEF Spaces, Breaks
  <2> QED BY <2>1, <2>2, <2>3, OnePrinting
<1>2. CASE ~IsVehicleType(s) /\ Trim(s) = <<>>
  BY <1>2, Defaults DEF FormatSelectedService
<1>3. CASE ~IsVehicleType(s) /\ Trim(s) # <<>>
  BY <1>3, TrimPrinting, UpperPrinting DEF FormatSelectedService
<1> QED
  BY <1>1, <1>2, <1>3

LEMMA FarePrinting ==
  ASSUME NEW f, IsText(f) PROVE Printing(<<"GBP">> \o f)
<1> DEFINE pounds == "GBP"
           p == <<pounds>>
<1>1. pounds \notin Spaces
  BY DEF Spaces, Breaks
<1> HIDE DEF pounds
<1>2. p \in Seq({pounds}) /\ Len(p) = 1 /\ p[1] = pounds
  OBVIOUS
<1> HIDE DEF p
<1>3. PICK C : f \in Seq(C)
  BY DEF IsText
<1>4. p \in Seq(C \union {pounds}) /\ f \in Seq(C \union {pounds}) /\ Len(f) \in Nat
  BY <1>2, <1>3, SeqMonotonic, LenProperties
<1>5. /\ p \o f \in Seq(C \union {pounds}) /\ Len(p \o f) = Len(p) + Len(f)
      /\ \A i \in 1 .. Len(p) + Len(f) : (p \o f)[i] = IF i <= Len(p) THEN p[i] ELSE f[i - Len(p)]
  BY <1>4, ConcatProperties
<1> DEFINE t == p \o f
<1>6. IsText(t) /\ Len(t) = 1 + Len(f) /\ t[1] = pounds
  BY <1>2, <1>4, <1>5 DEF IsText
<1> HIDE DEF t
<1>7. 1 \in DOMAIN t
  BY <1>4, <1>6, TextFacts
<1>8. Printing(t)
  BY <1>1, <1>6, <1>7 DEF Printing, HasPrinting
<1> QED
  BY <1>8 DEF t, p, pounds

-----------------------------------------------------------------------------
(* What is posted comes from what it is about.                               *)

FormFields == {"customerName", "contactNumber", "email", "roomNo", "passengers", "departureLocation",
               "destinationLocation", "pickupDateLabel", "returnDateLabel", "selectedService",
               "totalFare", "note"}
FormKnown(d) == DOMAIN d = FormFields /\ \A f \in FormFields : IsText(d[f])
DataKnown(d) == (d.of = "booking" /\ d.data \in Row) \/ (d.of = "form" /\ FormKnown(d.data))

FieldsOf(d) == IF d.of = "booking" THEN ServiceFields(d.data) ELSE ControllerFields(d.data)

\* Whoever sends it, a message is what the server makes of the data.
PostedInv == \A a \in Actors :
  pc[a] # "idle" => DataKnown(about[a]) /\ request[a] = BuildRequest(env, FieldsOf(about[a]))

LEMMA ParametersAreFields == \A i \in DOMAIN BodyParameters : BodyParameters[i] \in FormFields
<1>1. DOMAIN BodyParameters = 1 .. 12
  BY DEF BodyParameters
<1> QED
  BY <1>1 DEF BodyParameters, FormFields

\* Every field the server fills from a booking shows something, unless one that
\* must be given is blank.
LEMMA RowFieldsPrinting ==
  ASSUME NEW b \in Row, \A f \in DOMAIN b \ Optional : Trim(b[f]) # <<>>
  PROVE  \A f \in FormFields : Printing(ServiceFields(b)[f])
<1>1. /\ DOMAIN b = {"customerName", "contactNumber", "email", "roomNo", "passengers", "pickupFrom",
                     "dropoffTo", "preferredPickupAt", "returnPickupAt", "vehicleType",
                     "estimatedFare", "note"}
      /\ b.customerName \in Texts /\ b.contactNumber \in Texts /\ b.email \in Texts
      /\ b.roomNo \in Texts /\ b.passengers \in Numbers /\ b.pickupFrom \in Texts
      /\ b.dropoffTo \in Texts /\ b.preferredPickupAt \in Dates
      /\ b.returnPickupAt \in Dates \union {Null} /\ b.vehicleType \in Texts
      /\ b.estimatedFare \in Texts /\ b.note \in Texts
  BY DEF Row
<1>2. \A s \in Texts : IsText(s)
  BY DEF Texts, IsText
<1>3. \A s \in Texts : Trim(s) # <<>> => Printing(s)
  BY <1>2, TrimPrinting
<1>4. \A f \in {"customerName", "contactNumber", "email", "pickupFrom", "dropoffTo"} :
        f \in DOMAIN b \ Optional
  BY <1>1 DEF Optional
<1>5. /\ Printing(b.customerName) /\ Printing(b.contactNumber) /\ Printing(b.email)
      /\ Printing(b.pickupFrom) /\ Printing(b.dropoffTo)
  BY <1>1, <1>3, <1>4
<1>6. Printing(TrimOr(b.roomNo, None)) /\ Printing(TrimOr(b.note, None))
  BY <1>1, <1>2, Defaults, TrimOrPrinting
<1>7. Printing(FormatPassengers(b.passengers))
  BY <1>1, <1>3, Defaults DEF FormatPassengers, Numbers
<1>8. \A t \in Dates : Printing(FormatDateTimeLabel(t))
  BY OnePrinting DEF Dates, FormatDateTimeLabel
<1>9. Printing(FormatReturnDateLabel(b.returnPickupAt))
  BY <1>1, <1>8, Defaults DEF FormatReturnDateLabel
<1>10. Printing(FormatSelectedService(b.vehicleType)) /\ Printing(<<"GBP">> \o b.estimatedFare)
  BY <1>1, <1>2, ServicePrinting, FarePrinting
<1> QED
  <2> DEFINE s == ServiceFields(b)
  <2>1. /\ s.customerName = b.customerName /\ s.contactNumber = b.contactNumber /\ s.email = b.email
        /\ s.roomNo = TrimOr(b.roomNo, None) /\ s.passengers = FormatPassengers(b.passengers)
        /\ s.departureLocation = b.pickupFrom /\ s.destinationLocation = b.dropoffTo
        /\ s.pickupDateLabel = FormatDateTimeLabel(b.preferredPickupAt)
        /\ s.returnDateLabel = FormatReturnDateLabel(b.returnPickupAt)
        /\ s.selectedService = FormatSelectedService(b.vehicleType)
        /\ s.totalFare = <<"GBP">> \o b.estimatedFare /\ s.note = TrimOr(b.note, None)
    BY DEF ServiceFields
  <2> HIDE DEF s
  <2>2. /\ Printing(s.customerName) /\ Printing(s.contactNumber) /\ Printing(s.email)
        /\ Printing(s.roomNo) /\ Printing(s.passengers) /\ Printing(s.departureLocation)
        /\ Printing(s.destinationLocation) /\ Printing(s.pickupDateLabel)
        /\ Printing(s.returnDateLabel) /\ Printing(s.selectedService) /\ Printing(s.totalFare)
        /\ Printing(s.note)
    <3>1. Printing(FormatDateTimeLabel(b.preferredPickupAt))
      BY <1>1, <1>8
    <3> QED BY <1>5, <1>6, <1>7, <1>9, <1>10, <2>1, <3>1
  <2>3. \A f \in FormFields : Printing(s[f])
    BY <2>2 DEF FormFields
  <2> QED BY <2>3 DEF s

LEMMA FormFieldsPrinting ==
  ASSUME NEW d, FormKnown(d), \A f \in DOMAIN d \ Optional : Trim(d[f]) # <<>>
  PROVE  \A f \in FormFields : Printing(ControllerFields(d)[f])
<1> DEFINE c == ControllerFields(d)
<1>1. \A f \in FormFields \ Optional : Printing(d[f])
  BY TrimPrinting DEF FormKnown
<1>2. /\ Printing(TrimOr(d.roomNo, None)) /\ Printing(TrimOr(d.passengers, <<"1">>))
      /\ Printing(TrimOr(d.returnDateLabel, None)) /\ Printing(TrimOr(d.note, None))
  BY Defaults, TrimOrPrinting DEF FormKnown, FormFields
<1>3. /\ c.roomNo = TrimOr(d.roomNo, None) /\ c.passengers = TrimOr(d.passengers, <<"1">>)
      /\ c.returnDateLabel = TrimOr(d.returnDateLabel, None) /\ c.note = TrimOr(d.note, None)
      /\ \A f \in FormFields \ {"roomNo", "passengers", "returnDateLabel", "note"} : c[f] = d[f]
  BY DEF ControllerFields, FormKnown, FormFields
<1>4. \A f \in FormFields : f \in Optional <=> f \in {"roomNo", "passengers", "returnDateLabel", "note"}
  BY DEF FormFields, Optional
<1> HIDE DEF c
<1>5. \A f \in FormFields \ Optional : Printing(c[f])
  BY <1>1, <1>3, <1>4
<1>6. \A f \in {"roomNo", "passengers", "returnDateLabel", "note"} : Printing(c[f])
  BY <1>2, <1>3
<1> QED
  BY <1>4, <1>5, <1>6 DEF c

\* A text that begins and ends with a printing character is left alone.
LEMMA TrimWhole ==
  ASSUME NEW C, NEW s \in Seq(C), s # <<>>, s[1] \notin Spaces, s[Len(s)] \notin Spaces
  PROVE  Trim(s) = s
<1> DEFINE printing == {i \in DOMAIN s : s[i] \notin Spaces}
<1>1. Len(s) \in Nat \ {0} /\ DOMAIN s = 1 .. Len(s)
  BY EmptySeq, LenProperties
<1>2. printing \in SUBSET (1 .. Len(s)) /\ 1 \in printing /\ Len(s) \in printing
  BY <1>1
<1>3. Trim(s) = SubSeq(s, Min(printing), Max(printing))
  BY <1>2 DEF Trim
<1> HIDE DEF printing
<1>4. /\ Min(printing) \in 1 .. Len(s) /\ Min(printing) <= 1
      /\ Max(printing) \in 1 .. Len(s) /\ Len(s) <= Max(printing)
  <2>1. Len(s) \in Nat /\ printing # {}
    BY <1>1, <1>2
  <2> QED BY <1>2, <2>1, LeastAndGreatest
<1>5. Min(printing) = 1 /\ Max(printing) = Len(s)
  BY <1>1, <1>4
<1> QED
  BY <1>3, <1>5, SubSeqFull

LEMMA TrimOne ==
  ASSUME NEW c, c \notin Spaces PROVE Trim(<<c>>) = <<c>>
<1>1. <<c>> \in Seq({c}) /\ <<c>> # <<>> /\ Len(<<c>>) = 1 /\ <<c>>[1] = c
  OBVIOUS
<1> QED
  BY <1>1, TrimWhole

\* The script's sample is already as the controller leaves a form.
LEMMA SampleSent == FormKnown(SAMPLE_BOOKING) /\ ControllerFields(SAMPLE_BOOKING) = SAMPLE_BOOKING
<1> DEFINE S == SAMPLE_BOOKING
<1>1. /\ IsText(S.customerName) /\ IsText(S.contactNumber) /\ IsText(S.email) /\ IsText(S.roomNo)
      /\ IsText(S.passengers) /\ IsText(S.departureLocation) /\ IsText(S.destinationLocation)
      /\ IsText(S.pickupDateLabel) /\ IsText(S.returnDateLabel) /\ IsText(S.selectedService)
      /\ IsText(S.totalFare) /\ IsText(S.note)
  <2>1. \A c : IsText(<<c>>)
    <3>1. \A c : <<c>> \in Seq({c})
      OBVIOUS
    <3> QED BY <3>1 DEF IsText
  <2>2. \A c, e : IsText(<<c, e>>)
    <3>1. \A c, e : <<c, e>> \in Seq({c, e})
      OBVIOUS
    <3> QED BY <3>1 DEF IsText
  <2>3. \A c, e, g : IsText(<<c, e, g>>)
    <3>1. \A c, e, g : <<c, e, g>> \in Seq({c, e, g})
      OBVIOUS
    <3> QED BY <3>1 DEF IsText
  <2> QED BY <2>1, <2>2, <2>3 DEF SAMPLE_BOOKING
<1>2. FormKnown(S)
  BY <1>1 DEF FormKnown, FormFields, SAMPLE_BOOKING
<1>3. /\ TrimOr(S.roomNo, None) = S.roomNo /\ TrimOr(S.passengers, <<"1">>) = S.passengers
      /\ TrimOr(S.returnDateLabel, None) = S.returnDateLabel
  <2>1. \A c : c \notin Spaces /\ c \notin {"unset", "null"} => \A other : TrimOr(<<c>>, other) = <<c>>
    <3> SUFFICES ASSUME NEW c, c \notin Spaces, c \notin {"unset", "null"}, NEW other
                 PROVE  TrimOr(<<c>>, other) = <<c>>
      OBVIOUS
    <3>1. <<c>> # <<"unset">> /\ <<c>> # <<"null">> /\ <<c>> # <<>>
      OBVIOUS
    <3> QED BY <3>1, TrimOne DEF TrimOr, Unset, Null
  <2>2. \A c \in {"214", "2", "6 June 2026 at 4:00 pm"} : c \notin Spaces /\ c \notin {"unset", "null"}
    BY DEF Spaces, Breaks
  <2>3. /\ S.roomNo = <<"214">> /\ S.passengers = <<"2">>
        /\ S.returnDateLabel = <<"6 June 2026 at 4:00 pm">>
    BY DEF SAMPLE_BOOKING
  <2> QED BY <2>1, <2>2, <2>3
<1>4. TrimOr(S.note, None) = S.note
  <2> DEFINE n == S.note
           please == "Please"
           call == "call"
  <2>1. n = <<please, " ", call>>
    BY DEF SAMPLE_BOOKING
  <2>2. n \in Seq({please, " ", call}) /\ n # <<>> /\ Len(n) = 3 /\ n[1] = please /\ n[3] = call
    <3>1. \A c, e, g : /\ <<c, e, g>> \in Seq({c, e, g}) /\ <<c, e, g>> # <<>> /\ Len(<<c, e, g>>) = 3
                       /\ <<c, e, g>>[1] = c /\ <<c, e, g>>[3] = g
      OBVIOUS
    <3> HIDE DEF n, please, call
    <3> QED BY <2>1, <3>1
  <2>3. please \notin Spaces /\ call \notin Spaces
    BY DEF Spaces, Breaks
  <2> HIDE DEF n, please, call
  <2>4. n # Unset /\ n # Null
    <3>1. Len(Unset) = 1 /\ Len(Null) = 1
      BY DEF Unset, Null
    <3>2. Len(n) = 3
      BY <2>2
    <3>3. n # Unset
      BY <3>1, <3>2
    <3>4. n # Null
      BY <3>1, <3>2
    <3> QED BY <3>3, <3>4
  <2>5. Trim(n) = n
    BY <2>2, <2>3, TrimWhole
  <2>6. TrimOr(n, None) = n
    BY <2>2, <2>4, <2>5 DEF TrimOr
  <2> QED BY <2>6 DEF n
<1> QED
  BY <1>2, <1>3, <1>4 DEF ControllerFields, SAMPLE_BOOKING

\* The two ways of naming a vehicle.
LEMMA ServicesAgree ==
  ASSUME NEW s \in Seq(STRING) PROVE FormatSelectedService(s) = ScriptService(s)
<1>1. IsVehicleType(s) <=> s \in {<<v>> : v \in DOMAIN VehicleLabel}
  <2>1. ASSUME IsVehicleType(s) PROVE s \in {<<v>> : v \in DOMAIN VehicleLabel}
    <3>1. s = <<s[1]>> /\ s[1] \in DOMAIN VehicleLabel
      BY <2>1 DEF IsVehicleType
    <3> QED
      BY <3>1
  <2>2. ASSUME s \in {<<v>> : v \in DOMAIN VehicleLabel} PROVE IsVehicleType(s)
    <3>1. PICK v \in DOMAIN VehicleLabel : s = <<v>>
      BY <2>2
    <3>2. Len(s) = 1 /\ s[1] = v
      BY <3>1
    <3> QED
      BY <3>1, <3>2 DEF IsVehicleType
  <2> QED
    BY <2>1, <2>2
<1> QED
  BY <1>1 DEF FormatSelectedService, ScriptService

\* bookingToPayload of the script and sendBookingConfirmation of the server
\* fill the template alike, whatever is in the booking.
THEOREM FieldsAgree ==
  ASSUME NEW b, b.vehicleType \in Seq(STRING)
  PROVE  ServiceFields(b) = ScriptFields(b)
<1>1. FormatSelectedService(b.vehicleType) = ScriptService(b.vehicleType)
  BY ServicesAgree
<1>2. FormatPassengers(b.passengers) = IF b.passengers # Null THEN b.passengers ELSE <<"1">>
  BY DEF FormatPassengers
<1>3. FormatReturnDateLabel(b.returnPickupAt)
        = IF b.returnPickupAt # Null THEN ScriptDateLabel(b.returnPickupAt) ELSE None
  BY DEF FormatReturnDateLabel, FormatDateTimeLabel, ScriptDateLabel
<1>4. FormatDateTimeLabel(b.preferredPickupAt) = ScriptDateLabel(b.preferredPickupAt)
  BY DEF FormatDateTimeLabel, ScriptDateLabel
<1> QED
  BY <1>1, <1>2, <1>3, <1>4 DEF ServiceFields, ScriptFields

-----------------------------------------------------------------------------
LEMMA PostedInit == Init => PostedInv
BY DEF Init, PostedInv

\* One actor composes a message from known data, and no other moves.
LEMMA ComposesPosted ==
  ASSUME TypeOK, PostedInv, NEW a \in Actors, NEW data, DataKnown(data),
         Composes(a, FieldsOf(data), data), \A x \in Actors \ {a} : pc'[x] = pc[x]
  PROVE  PostedInv'
<1>1. /\ request' = [request EXCEPT ![a] = BuildRequest(env, FieldsOf(data))]
      /\ about' = [about EXCEPT ![a] = data] /\ env' = env
      /\ DOMAIN request = Actors /\ DOMAIN about = Actors
  BY DEF Composes, TypeOK
<1> SUFFICES ASSUME NEW x \in Actors, pc'[x] # "idle"
             PROVE  DataKnown(about'[x]) /\ request'[x] = BuildRequest(env', FieldsOf(about'[x]))
  BY DEF PostedInv, DataKnown, FieldsOf
<1>2. CASE x = a
  BY <1>1, <1>2
<1>3. CASE x # a
  BY <1>1, <1>3 DEF PostedInv
<1> QED
  BY <1>2, <1>3

\* Nobody's message changes, and nobody leaves "idle".
LEMMA UntouchedPosted ==
  ASSUME PostedInv, UNCHANGED <<env, request, about>>,
         \A a \in Actors : pc'[a] # "idle" => pc[a] # "idle"
  PROVE  PostedInv'
BY DEF PostedInv, DataKnown, FieldsOf

LEMMA FetchingMovesOne ==
  ASSUME TypeOK, NEW s \in Senders, GetAccessToken(s)
  PROVE  \A x \in Actors \ {s} : pc'[x] = pc[x]
BY DEF TypeOK, GetAccessToken, Posts, AwaitsExchange, Actors

LEMMA SendTemplatePosted ==
  ASSUME TypeOK, PostedInv, NEW s \in Senders, NEW dto, FormKnown(dto), SendTemplate(s, dto)
  PROVE  PostedInv'
<1> DEFINE data == [of |-> "form", data |-> dto]
<1>1. DataKnown(data) /\ FieldsOf(data) = ControllerFields(dto)
  BY DEF DataKnown, FieldsOf
<1>2. Composes(s, ControllerFields(dto), data) /\ GetAccessToken(s) /\ s \in Actors
  BY DEF SendTemplate, Actors
<1> HIDE DEF data
<1> QED
  BY <1>1, <1>2, FetchingMovesOne, ComposesPosted

LEMMA SendBookingPosted ==
  ASSUME TypeOK, PostedInv, NEW s \in Senders, NEW b \in Row, GetAccessToken(s),
         Composes(s, ServiceFields(b), [of |-> "booking", data |-> b])
  PROVE  PostedInv'
<1> DEFINE data == [of |-> "booking", data |-> b]
<1>1. DataKnown(data) /\ FieldsOf(data) = ServiceFields(b)
  BY DEF DataKnown, FieldsOf
<1>2. Composes(s, ServiceFields(b), data) /\ s \in Actors
  BY DEF Actors
<1> HIDE DEF data
<1> QED
  BY <1>1, <1>2, FetchingMovesOne, ComposesPosted

LEMMA ScriptPosted ==
  ASSUME TypeOK, PostedInv, NEW data, DataKnown(data), ScriptPosts(FieldsOf(data), data)
  PROVE  PostedInv'
<1>1. Script \in Actors /\ \A x \in Actors \ {Script} : pc'[x] = pc[x]
  BY DEF Actors, ScriptPosts, TypeOK
<1> QED
  BY <1>1, ComposesPosted DEF ScriptPosts

\* Every step keeps messages true to what they are about.
LEMMA PostedNext == TypeOK /\ PostedInv /\ [Next]_vars => PostedInv'
<1> SUFFICES ASSUME TypeOK, PostedInv, [Next]_vars PROVE PostedInv'
  OBVIOUS
<1>1. ASSUME NEW s \in Senders, SendBookingConfirmation(s) PROVE PostedInv'
  BY <1>1, DataAssumption, SendBookingPosted DEF SendBookingConfirmation
<1>2. ASSUME NEW s \in Senders, SendBookingConfirmationById(s) PROVE PostedInv'
  <2>1. PICK b \in Rows, t \in Instants :
          LET shown == [b EXCEPT !.preferredPickupAt = t]
          IN  Composes(s, ServiceFields(shown), [of |-> "booking", data |-> shown])
    BY <1>2 DEF SendBookingConfirmationById
  <2> DEFINE shown == [b EXCEPT !.preferredPickupAt = t]
  <2>2. shown \in Row
    BY DataAssumption DEF Row
  <2>3. Composes(s, ServiceFields(shown), [of |-> "booking", data |-> shown])
    BY <2>1
  <2> HIDE DEF shown
  <2> QED
    BY <1>2, <2>2, <2>3, SendBookingPosted DEF SendBookingConfirmationById
<1>3. ASSUME NEW s \in Senders, NEW dto \in Forms, SendTemplate(s, dto) PROVE PostedInv'
  <2>1. dto \in Form
    BY DataAssumption
  <2>2. FormKnown(dto)
    <3>1. DOMAIN dto = FormFields /\ \A f \in FormFields : dto[f] \in Texts
      BY <2>1 DEF Form, FormFields
    <3> QED BY <3>1 DEF FormKnown, Texts, IsText
  <2> QED BY <1>3, <2>2, SendTemplatePosted
<1>4. ASSUME NEW s \in Senders, MetaIssues(s) PROVE PostedInv'
  BY <1>4, UntouchedPosted DEF MetaIssues, TypeOK
<1>5. ASSUME NEW s \in Senders, ExchangeAnswered(s) PROVE PostedInv'
  BY <1>5, UntouchedPosted DEF ExchangeAnswered, Posts, TypeOK
<1>6. ASSUME NEW s \in Senders, ExchangeFails(s) PROVE PostedInv'
  BY <1>6, UntouchedPosted DEF ExchangeFails, Posts, TypeOK
<1>7. CASE ScriptSend
  <2> DEFINE data == [of |-> "form", data |-> SAMPLE_BOOKING]
  <2>1. DataKnown(data) /\ FieldsOf(data) = SAMPLE_BOOKING
    BY SampleSent DEF DataKnown, FieldsOf
  <2>2. ScriptPosts(SAMPLE_BOOKING, data)
    BY <1>7 DEF ScriptSend
  <2> HIDE DEF data
  <2> QED BY <2>1, <2>2, ScriptPosted
<1>8. CASE ScriptBooking
  <2>1. PICK b \in Rows : ScriptPosts(ScriptFields(b), [of |-> "booking", data |-> b])
    BY <1>8 DEF ScriptBooking
  <2> DEFINE data == [of |-> "booking", data |-> b]
  <2>2. b \in Row /\ b.vehicleType \in Seq(STRING)
    BY DataAssumption DEF Row, Texts
  <2>3. DataKnown(data) /\ FieldsOf(data) = ScriptFields(b)
    BY <2>2, FieldsAgree DEF DataKnown, FieldsOf
  <2>4. ScriptPosts(ScriptFields(b), data)
    BY <2>1
  <2> HIDE DEF data
  <2> QED BY <2>3, <2>4, ScriptPosted
<1>9. CASE ScriptApi
  BY <1>9, SampleSent, SendTemplatePosted DEF ScriptApi
<1>10. ASSUME NEW a \in Actors, PostEnds(a) PROVE PostedInv'
  BY <1>10 DEF PostEnds, PostedInv, TypeOK, DataKnown, FieldsOf
<1>11. CASE Tick
  BY <1>11, UntouchedPosted DEF Tick
<1>12. CASE Restart
  BY <1>12 DEF Restart, PostedInv, TypeOK, DataKnown, FieldsOf
<1>13. CASE UNCHANGED vars
  BY <1>13, UntouchedPosted DEF vars
<1> QED
  BY <1>1, <1>2, <1>3, <1>4, <1>5, <1>6, <1>7, <1>8, <1>9, <1>10, <1>11, <1>12, <1>13 DEF Next

LEMMA PostedAgrees == PostedInv => MessagesAgree
BY DEF PostedInv, MessagesAgree

\* A message that shows something in every field is taken by Meta.
LEMMA PostedTaken == PostedInv => TextsTaken
<1> SUFFICES ASSUME PostedInv, NEW a \in Actors, pc[a] # "idle",
                    \A f \in DOMAIN about[a].data \ Optional : Trim(about[a].data[f]) # <<>>
             PROVE  \A i \in DOMAIN request[a].body : MetaTakes(request[a].body[i])
  BY DEF TextsTaken
<1> DEFINE d == about[a]
           fields == FieldsOf(d)
<1>1. DataKnown(d) /\ request[a] = BuildRequest(env, fields)
  BY DEF PostedInv
<1>2. \A f \in FormFields : Printing(fields[f])
  <2>1. CASE d.of = "booking" /\ d.data \in Row
    BY <2>1, RowFieldsPrinting DEF FieldsOf
  <2>2. CASE d.of = "form" /\ FormKnown(d.data)
    BY <2>2, FormFieldsPrinting DEF FieldsOf
  <2> QED BY <1>1, <2>1, <2>2 DEF DataKnown
<1> HIDE DEF fields
<1>3. request[a].body = [i \in DOMAIN BodyParameters |-> SanitizeTemplateParameter(fields[BodyParameters[i]])]
  BY <1>1 DEF BuildRequest
<1>4. \A i \in DOMAIN BodyParameters : MetaTakes(SanitizeTemplateParameter(fields[BodyParameters[i]]))
  BY <1>2, ParametersAreFields, SanitizedTaken DEF Printing
<1> QED
  BY <1>3, <1>4

-----------------------------------------------------------------------------
\* The types hold: whatsapp-api.client.ts and meta-token.service.ts.
THEOREM TypeCorrect == Spec => []TypeOK
BY InvInit, InvNext, PTL DEF Spec, IInv

\* What MetaTokenService hands out is still taken when the post arrives.
THEOREM TokensAlive == Spec => []TokenAlive
BY InvInit, InvNext, InvAlive, PTL DEF Spec

\* The server and test-whatsapp.ts, which compose the message apart, tell the
\* owner the same about the same booking or form, for any bookings and forms.
THEOREM SameMessages == Spec => []MessagesAgree
<1>1. Spec => []PostedInv
  BY InvInit, InvNext, PostedInit, PostedNext, PTL DEF Spec, IInv
<1> QED
  BY <1>1, PostedAgrees, PTL

\* Meta takes every text that is posted, whatever is in the booking or the form,
\* unless a field that must be given is blank.
THEOREM TextsAccepted == Spec => []TextsTaken
<1>1. Spec => []PostedInv
  BY InvInit, InvNext, PostedInit, PostedNext, PTL DEF Spec, IInv
<1> QED
  BY <1>1, PostedTaken, PTL
=============================================================================
