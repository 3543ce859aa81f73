----------------------- MODULE PrismaLifecycle_proofs -----------------------
(***************************************************************************)
(* Safety of the request-scoped database connection, for any finite set of *)
(* concurrent requests and any number of failed $connect calls.            *)
(***************************************************************************)
EXTENDS PrismaLifecycle, TLAPS, SequenceTheorems, FiniteSetTheorems

\* What the count and the flag are while the running task awaits the driver, and
\* that the flag is raised only over an open connection.
AwaitInv ==
  /\ awaiting = "connect" => activeRequestCount = 1 /\ ~connected
  /\ awaiting = "disconnect" => activeRequestCount = 0 /\ connected
  /\ connected => engine = "open"

\* The inductive invariant.
IInv == TypeOK /\ LockInv /\ AwaitInv /\ ConnectedMatchesCount /\ CountsHolders

-----------------------------------------------------------------------------
(* Chaining and unchaining a task *)

\* A caller that is not waiting can be chained: every caller still waits at most
\* once, those ahead keep their place and the head is the same one.
LEMMA ChainLemma ==
  ASSUME NEW q \in Seq(Callers), NEW c \in Callers,
         \A i \in DOMAIN q : q[i] # c,
         \A i, j \in DOMAIN q : q[i] = q[j] => i = j
  PROVE  /\ Append(q, c) \in Seq(Callers)
         /\ \A i, j \in DOMAIN Append(q, c) : Append(q, c)[i] = Append(q, c)[j] => i = j
         /\ \A i \in DOMAIN Append(q, c) :
              Append(q, c)[i] = c \/ \E j \in DOMAIN q : Append(q, c)[i] = q[j]
         /\ q # <<>> => Head(Append(q, c)) = Head(q)
         /\ Append(q, c) # <<>>
  OBVIOUS

\* Unchaining the head: it waits no more, and whoever waits was waiting.
LEMMA UnchainLemma ==
  ASSUME NEW q \in Seq(Callers), q # <<>>,
         \A i, j \in DOMAIN q : q[i] = q[j] => i = j
  PROVE  /\ Tail(q) \in Seq(Callers)
         /\ \A i, j \in DOMAIN Tail(q) : Tail(q)[i] = Tail(q)[j] => i = j
         /\ \A i \in DOMAIN Tail(q) :
              /\ Tail(q)[i] # Head(q)
              /\ \E j \in DOMAIN q : Tail(q)[i] = q[j]
         /\ Head(q) \in Callers
         /\ 1 \in DOMAIN q /\ Head(q) = q[1]
  OBVIOUS

-----------------------------------------------------------------------------
(* Types *)

LEMMA TypeStep == TypeOK /\ [Next]_vars => TypeOK'
<1> SUFFICES ASSUME TypeOK, [Next]_vars PROVE TypeOK'
  OBVIOUS
<1> USE DEF Next, LockStep, RequestStep, vars, ArrivePublic, ArriveGuarded, GuardPass,
            GuardRefuse, HandlerQuery, Finish, AcquireOpens, AcquireJoins, ConnectOk,
            ConnectFail, ReleaseIgnored, ReleaseLeaves, ReleaseCloses,
            ReleaseDisconnectOk, Shutdown, DestroyCloses, DestroyIdle,
            DestroyDisconnectOk, DisconnectFail, Exit, Restart
<1>1. lifecycleLock' \in Seq(Callers)
  <2>1. /\ lifecycleLock \in Seq(Callers)
        /\ <<>> \in Seq(Callers)
        /\ lifecycleLock # <<>> => Tail(lifecycleLock) \in Seq(Callers)
        /\ \A c \in Callers : Append(lifecycleLock, c) \in Seq(Callers)
    BY DEF TypeOK
  <2>2. Server \in Callers /\ \A r \in Requests : r \in Callers
    BY DEF Callers
  <2>3. \/ lifecycleLock' = lifecycleLock
        \/ lifecycleLock' = <<>>
        \/ lifecycleLock # <<>> /\ Unchain
        \/ \E c \in Callers : Chain(c)
    BY <2>2 DEF Starts, Suspended, UnchainRejected
  <2> QED  BY <2>1, <2>3 DEF Chain, Unchain
<1>2. pc' \in [Requests -> PCs]
  <2>1. pc \in [Requests -> PCs] /\ {"idle", "guard", "acquiring", "handling", "releasing"} = PCs
    BY DEF TypeOK, PCs
  <2>2. \/ pc' = pc
        \/ pc' = [r \in Requests |-> "idle"]
        \/ \E r \in Requests : \E s \in PCs : pc' = [pc EXCEPT ![r] = s]
    BY DEF PCs
  <2>3. "idle" \in PCs
    BY DEF PCs
  <2> QED  BY <2>1, <2>2, <2>3
<1>3. activeRequestCount' \in Nat /\ failedConnects' \in Nat
  BY DEF TypeOK, CountIn, NothingToRelease
<1>4. connected' \in BOOLEAN /\ engine' \in {"open", "closed"}
  BY DEF TypeOK, Closed
<1>5. awaiting' \in {"nothing", "connect", "disconnect"} /\ phase' \in Phases
  BY DEF TypeOK, Closed, Phases
<1> QED  BY <1>1, <1>2, <1>3, <1>4, <1>5 DEF TypeOK

\* Type correctness, for every set of requests.
THEOREM TypeCorrect == Spec => []TypeOK
<1>1. Init => TypeOK
  <2> SUFFICES ASSUME Init PROVE TypeOK
    OBVIOUS
  <2>1. lifecycleLock \in Seq(Callers)
    BY DEF Init
  <2>2. pc \in [Requests -> PCs]
    BY DEF Init, PCs
  <2> QED  BY <2>1, <2>2 DEF Init, TypeOK, Phases
<1> QED  BY <1>1, TypeStep, PTL DEF Spec

-----------------------------------------------------------------------------
(* The chain *)

LEMMA RequestChains ==
  ASSUME TypeOK, LockInv, NEW r \in Requests,
         pc[r] \notin {"acquiring", "releasing"}, Chain(r),
         NEW s \in {"acquiring", "releasing"}, pc' = [pc EXCEPT ![r] = s],
         UNCHANGED <<awaiting, phase>>
  PROVE  LockInv'
<1>1. \A i \in DOMAIN lifecycleLock : lifecycleLock[i] # r
  BY ServerApart DEF LockInv
<1>2. r \in Callers /\ lifecycleLock \in Seq(Callers)
  BY DEF Callers, TypeOK
<1>3. \A i, j \in DOMAIN lifecycleLock : lifecycleLock[i] = lifecycleLock[j] => i = j
  BY DEF LockInv
<1> DEFINE q == Append(lifecycleLock, r)
<1>4. /\ \A i, j \in DOMAIN q : q[i] = q[j] => i = j
      /\ \A i \in DOMAIN q : q[i] = r \/ \E j \in DOMAIN lifecycleLock : q[i] = lifecycleLock[j]
      /\ lifecycleLock # <<>> => Head(q) = Head(lifecycleLock)
      /\ q # <<>>
  BY <1>1, <1>2, <1>3, ChainLemma
<1>5. lifecycleLock' = q
  BY DEF Chain
<1>6. lifecycleLock # <<>> => 1 \in DOMAIN lifecycleLock /\ Head(lifecycleLock) = lifecycleLock[1]
  BY <1>2
<1>7. \A x \in Requests : pc'[x] = IF x = r THEN s ELSE pc[x]
  BY DEF TypeOK
<1>8. \A j \in DOMAIN lifecycleLock : lifecycleLock[j] \in Callers
  BY <1>2
<1> HIDE DEF q
<1>9. \A i \in DOMAIN q : IF q[i] = Server THEN phase' # "up"
                          ELSE pc'[q[i]] \in {"acquiring", "releasing"}
  BY <1>1, <1>4, <1>7, <1>8, ServerApart DEF LockInv, Callers
<1>10. awaiting # "nothing" => Head(q) = Head(lifecycleLock) /\ Head(q) # r
  BY <1>1, <1>4, <1>6 DEF LockInv
<1>11. awaiting # "nothing" => Head(q) \in Callers
  BY <1>4, <1>6, <1>8 DEF LockInv
<1> QED
  BY <1>4, <1>5, <1>7, <1>9, <1>10, <1>11 DEF LockInv, BeforeDestroy, Callers

LEMMA HeadUnchains ==
  ASSUME TypeOK, LockInv, lifecycleLock # <<>>, Unchain, awaiting' = "nothing",
         \A x \in Requests : x # Head(lifecycleLock) => pc'[x] = pc[x],
         phase' = "up" => phase = "up"
  PROVE  LockInv'
<1> DEFINE q == Tail(lifecycleLock)
<1>1. lifecycleLock \in Seq(Callers)
  BY DEF TypeOK
<1>2. \A i, j \in DOMAIN lifecycleLock : lifecycleLock[i] = lifecycleLock[j] => i = j
  BY DEF LockInv
<1>3. /\ \A i, j \in DOMAIN q : q[i] = q[j] => i = j
      /\ \A i \in DOMAIN q : /\ q[i] # Head(lifecycleLock)
                             /\ \E j \in DOMAIN lifecycleLock : q[i] = lifecycleLock[j]
  BY <1>1, <1>2, UnchainLemma
<1>4. \A j \in DOMAIN lifecycleLock : lifecycleLock[j] \in Callers
  BY <1>1
<1>5. lifecycleLock' = q
  BY DEF Unchain
<1> HIDE DEF q
<1> QED  BY <1>3, <1>4, <1>5 DEF LockInv, Callers

\* A step that neither chains nor unchains, and moves no waiting request.
LEMMA ChainKept ==
  ASSUME TypeOK, LockInv, UNCHANGED lifecycleLock,
         \A x \in Requests : pc[x] \in {"acquiring", "releasing"} => pc'[x] = pc[x],
         phase' = "up" => phase = "up",
         awaiting' = awaiting /\ (BeforeDestroy' => BeforeDestroy)
  PROVE  LockInv'
<1>1. \A j \in DOMAIN lifecycleLock : lifecycleLock[j] \in Callers
  BY DEF TypeOK
<1>2. awaiting # "nothing" =>
        /\ lifecycleLock # <<>>
        /\ Head(lifecycleLock) \in Callers
  BY DEF LockInv, TypeOK
<1> QED  BY <1>1, <1>2 DEF LockInv, Callers

LEMMA LockStepKeepsChain == TypeOK /\ LockInv /\ LockStep => LockInv'
<1> SUFFICES ASSUME TypeOK, LockInv, LockStep PROVE LockInv'
  OBVIOUS
<1>1. ASSUME NEW r \in Requests, AcquireOpens(r) \/ ReleaseCloses(r)  PROVE LockInv'
  BY <1>1, ServerApart DEF AcquireOpens, ReleaseCloses, Starts, LockInv, BeforeDestroy
<1>2. ASSUME NEW r \in Requests,
             \/ AcquireJoins(r) \/ ConnectOk(r) \/ ConnectFail(r)
             \/ ReleaseIgnored(r) \/ ReleaseLeaves(r) \/ ReleaseDisconnectOk(r)
      PROVE  LockInv'
  <2>1. lifecycleLock # <<>> /\ Unchain /\ Head(lifecycleLock) = r
    BY <1>2 DEF AcquireJoins, ConnectOk, ConnectFail, ReleaseIgnored, ReleaseLeaves,
                ReleaseDisconnectOk, Starts, Suspended, UnchainRejected
  <2>2. awaiting' = "nothing" /\ phase' = phase
    BY <1>2 DEF AcquireJoins, ConnectOk, ConnectFail, ReleaseIgnored, ReleaseLeaves,
                ReleaseDisconnectOk, Starts, Closed
  <2>3. \A x \in Requests : x # r => pc'[x] = pc[x]
    BY <1>2 DEF AcquireJoins, ConnectOk, ConnectFail, ReleaseIgnored, ReleaseLeaves,
                ReleaseDisconnectOk, TypeOK
  <2> QED  BY <2>1, <2>2, <2>3, HeadUnchains
<1>3. CASE DestroyCloses
  BY <1>3 DEF DestroyCloses, Starts, LockInv, BeforeDestroy
<1>4. CASE DestroyIdle \/ DestroyDisconnectOk
  <2>1. lifecycleLock # <<>> /\ Unchain /\ awaiting' = "nothing" /\ pc' = pc
    BY <1>4 DEF DestroyIdle, DestroyDisconnectOk, Starts, Suspended, Closed
  <2>2. phase' = "up" => phase = "up"
    BY <1>4 DEF DestroyIdle, DestroyDisconnectOk
  <2> QED  BY <2>1, <2>2, HeadUnchains
<1>5. CASE DisconnectFail
  BY <1>5, ChainKept DEF DisconnectFail, BeforeDestroy
<1> QED  BY <1>1, <1>2, <1>3, <1>4, <1>5 DEF LockStep

LEMMA RequestStepKeepsChain == TypeOK /\ LockInv /\ RequestStep => LockInv'
<1> SUFFICES ASSUME TypeOK, LockInv, NEW r \in Requests,
                    \/ ArrivePublic(r) \/ ArriveGuarded(r) \/ GuardPass(r)
                    \/ GuardRefuse(r) \/ HandlerQuery(r) \/ Finish(r)
             PROVE  LockInv'
  BY DEF RequestStep
<1>1. CASE ArrivePublic(r) \/ GuardPass(r)
  <2>1. /\ pc[r] \notin {"acquiring", "releasing"}
        /\ Chain(r) /\ pc' = [pc EXCEPT ![r] = "acquiring"]
        /\ UNCHANGED <<awaiting, phase>>
    BY <1>1 DEF ArrivePublic, GuardPass
  <2> QED  BY <2>1, RequestChains
<1>2. CASE Finish(r)
  <2>1. /\ pc[r] \notin {"acquiring", "releasing"}
        /\ Chain(r) /\ pc' = [pc EXCEPT ![r] = "releasing"]
        /\ UNCHANGED <<awaiting, phase>>
    BY <1>2 DEF Finish
  <2> QED  BY <2>1, RequestChains
<1>3. CASE ArriveGuarded(r) \/ GuardRefuse(r) \/ HandlerQuery(r)
  <2>1. UNCHANGED <<lifecycleLock, awaiting, phase>>
    BY <1>3 DEF ArriveGuarded, GuardRefuse, HandlerQuery
  <2>2. \A x \in Requests : pc[x] \in {"acquiring", "releasing"} => pc'[x] = pc[x]
    BY <1>3 DEF ArriveGuarded, GuardRefuse, HandlerQuery, TypeOK
  <2> QED  BY <2>1, <2>2, ChainKept DEF BeforeDestroy
<1> QED  BY <1>1, <1>2, <1>3

LEMMA ChainStep == TypeOK /\ LockInv /\ [Next]_vars => LockInv'
<1> SUFFICES ASSUME TypeOK, LockInv, [Next]_vars PROVE LockInv'
  OBVIOUS
<1>1. CASE Shutdown
  <2> DEFINE q == Append(lifecycleLock, Server)
  <2>1. /\ \A i \in DOMAIN lifecycleLock : lifecycleLock[i] # Server
        /\ lifecycleLock \in Seq(Callers) /\ Server \in Callers
        /\ \A i, j \in DOMAIN lifecycleLock : lifecycleLock[i] = lifecycleLock[j] => i = j
    BY <1>1 DEF Shutdown, LockInv, TypeOK, Callers
  <2>2. /\ \A i, j \in DOMAIN q : q[i] = q[j] => i = j
        /\ \A i \in DOMAIN q : q[i] = Server \/ \E j \in DOMAIN lifecycleLock : q[i] = lifecycleLock[j]
        /\ lifecycleLock # <<>> => Head(q) = Head(lifecycleLock)
        /\ q # <<>>
    BY <2>1, ChainLemma
  <2>3. lifecycleLock # <<>> => 1 \in DOMAIN lifecycleLock /\ Head(lifecycleLock) = lifecycleLock[1]
    BY <2>1
  <2>4. lifecycleLock' = q /\ phase = "up" /\ phase' = "closing" /\ UNCHANGED <<awaiting, pc>>
    BY <1>1 DEF Shutdown, Chain
  <2> HIDE DEF q
  <2> QED  BY <2>1, <2>2, <2>3, <2>4 DEF LockInv, BeforeDestroy
<1>2. CASE Exit
  BY <1>2, ChainKept DEF Exit, BeforeDestroy
<1>3. CASE Restart
  BY <1>3 DEF Restart, LockInv
<1>4. CASE UNCHANGED vars
  BY <1>4, ChainKept DEF vars, BeforeDestroy
<1> QED
  BY <1>1, <1>2, <1>3, <1>4, LockStepKeepsChain, RequestStepKeepsChain DEF Next

-----------------------------------------------------------------------------
(* The flag and the count *)

LEMMA FlagStep ==
  TypeOK /\ AwaitInv /\ ConnectedMatchesCount /\ [Next]_vars
    => AwaitInv' /\ ConnectedMatchesCount'
<1> SUFFICES ASSUME TypeOK, AwaitInv, ConnectedMatchesCount, [Next]_vars
             PROVE  AwaitInv' /\ ConnectedMatchesCount'
  OBVIOUS
<1> USE DEF TypeOK, AwaitInv, ConnectedMatchesCount
<1>1. ASSUME NEW r \in Requests, AcquireOpens(r) \/ AcquireJoins(r)
      PROVE  AwaitInv' /\ ConnectedMatchesCount'
  BY <1>1 DEF AcquireOpens, AcquireJoins, Starts, CountIn, FirstIn
<1>2. ASSUME NEW r \in Requests, ConnectOk(r) \/ ConnectFail(r)
      PROVE  AwaitInv' /\ ConnectedMatchesCount'
  BY <1>2 DEF ConnectOk, ConnectFail, Suspended
<1>3. ASSUME NEW r \in Requests,
             ReleaseIgnored(r) \/ ReleaseLeaves(r) \/ ReleaseCloses(r)
      PROVE  AwaitInv' /\ ConnectedMatchesCount'
  BY <1>3 DEF ReleaseIgnored, ReleaseLeaves, ReleaseCloses, Starts, NothingToRelease,
              LastOut
<1>4. ASSUME NEW r \in Requests, ReleaseDisconnectOk(r)
      PROVE  AwaitInv' /\ ConnectedMatchesCount'
  BY <1>4 DEF ReleaseDisconnectOk, Suspended, Closed
<1>5. CASE DestroyCloses \/ DestroyIdle
  BY <1>5 DEF DestroyCloses, DestroyIdle, Starts
<1>6. CASE DestroyDisconnectOk
  BY <1>6 DEF DestroyDisconnectOk, Suspended, Closed
<1>7. CASE DisconnectFail \/ Exit \/ Shutdown
  BY <1>7 DEF DisconnectFail, Exit, Shutdown
<1>8. CASE RequestStep
  BY <1>8 DEF RequestStep, ArrivePublic, ArriveGuarded, GuardPass, GuardRefuse,
              HandlerQuery, Finish
<1>9. CASE Restart \/ UNCHANGED vars
  BY <1>9 DEF Restart, vars
<1> QED
  BY <1>1, <1>2, <1>3, <1>4, <1>5, <1>6, <1>7, <1>8, <1>9 DEF Next, LockStep

\* Counted is a finite set, and one member more or less is one more or less to count.
LEMMA CountedFinite ==
  /\ IsFiniteSet(Counted)
  /\ Cardinality(Counted) \in Nat
  /\ \A r : r \notin Counted => Cardinality(Counted \union {r}) = Cardinality(Counted) + 1
  /\ \A r : r \in Counted => /\ Cardinality(Counted \ {r}) = Cardinality(Counted) - 1
                            /\ Cardinality(Counted) > 0
<1>1. IsFiniteSet(Counted)
  BY RequestsFinite, FS_Subset DEF Counted
<1>2. Cardinality(Counted) \in Nat
  BY <1>1, FS_CardinalityType
<1>3. \A r : r \notin Counted => Cardinality(Counted \union {r}) = Cardinality(Counted) + 1
  BY <1>1, FS_AddElement
<1>4. \A r : r \in Counted => Cardinality(Counted \ {r}) = Cardinality(Counted) - 1
  BY <1>1, FS_RemoveElement
<1>5. \A r : r \in Counted => Cardinality(Counted) # 0
  BY <1>1, FS_EmptySet
<1> QED  BY <1>1, <1>2, <1>3, <1>4, <1>5

LEMMA CountStep == IInv /\ [Next]_vars => CountsHolders'
<1> SUFFICES ASSUME IInv, [Next]_vars, BeforeDestroy'
             PROVE  activeRequestCount' = Cardinality(Counted') + failedConnects'
  BY DEF CountsHolders
<1> USE DEF IInv
<1>t. /\ activeRequestCount \in Nat /\ failedConnects \in Nat
      /\ pc \in [Requests -> PCs] /\ lifecycleLock \in Seq(Callers)
  BY DEF TypeOK
<1>1. ASSUME NEW r \in Requests, AcquireOpens(r) \/ AcquireJoins(r)
      PROVE  activeRequestCount' = Cardinality(Counted') + failedConnects'
  <2>1. r \notin Counted /\ Counted' = Counted \union {r}
    BY <1>1, <1>t DEF AcquireOpens, AcquireJoins, Starts, Suspended, Counted
  <2>2. BeforeDestroy
    BY <1>1 DEF AcquireOpens, AcquireJoins, BeforeDestroy
  <2>3. activeRequestCount' = activeRequestCount + 1 /\ failedConnects' = failedConnects
    BY <1>1 DEF AcquireOpens, AcquireJoins, CountIn
  <2> QED  BY <1>t, <2>1, <2>2, <2>3, CountedFinite DEF CountsHolders
<1>2. ASSUME NEW r \in Requests, ConnectOk(r) \/ ReleaseDisconnectOk(r)
      PROVE  activeRequestCount' = Cardinality(Counted') + failedConnects'
  <2>1. Counted' = Counted
    <3>1. CASE ConnectOk(r)
      BY <1>t, <3>1, ServerApart DEF ConnectOk, Suspended, Counted, LockInv
    <3>2. CASE ReleaseDisconnectOk(r)
      BY <1>t, <3>2, ServerApart DEF ReleaseDisconnectOk, Suspended, Closed, Counted, LockInv
    <3> QED  BY <1>2, <3>1, <3>2
  <2>2. BeforeDestroy /\ UNCHANGED <<activeRequestCount, failedConnects>>
    BY <1>2 DEF ConnectOk, ReleaseDisconnectOk, BeforeDestroy
  <2> QED  BY <2>1, <2>2 DEF CountsHolders
<1>3. ASSUME NEW r \in Requests, ConnectFail(r)
      PROVE  activeRequestCount' = Cardinality(Counted') + failedConnects'
  <2>1. r \in Counted /\ Counted' = Counted \ {r}
    BY <1>3, <1>t DEF ConnectFail, Suspended, Counted, LockInv
  <2>2. BeforeDestroy /\ activeRequestCount' = activeRequestCount
    BY <1>3 DEF ConnectFail, BeforeDestroy
  <2>3. failedConnects' = failedConnects + 1
    BY <1>3 DEF ConnectFail
  <2> QED  BY <1>t, <2>1, <2>2, <2>3, CountedFinite DEF CountsHolders
<1>4. ASSUME NEW r \in Requests,
             ReleaseIgnored(r) \/ ReleaseLeaves(r) \/ ReleaseCloses(r)
      PROVE  activeRequestCount' = Cardinality(Counted') + failedConnects'
  <2>1. r \in Counted /\ Counted' = Counted \ {r}
    BY <1>4, <1>t DEF ReleaseIgnored, ReleaseLeaves, ReleaseCloses, Starts, Suspended,
                      Counted
  <2>2. BeforeDestroy /\ failedConnects' = failedConnects
    BY <1>4 DEF ReleaseIgnored, ReleaseLeaves, ReleaseCloses, BeforeDestroy
  <2>3. activeRequestCount > 0
    <3>1. Cardinality(Counted) \in Nat /\ Cardinality(Counted) > 0
      BY <2>1, CountedFinite
    <3> QED  BY <1>t, <2>2, <3>1 DEF CountsHolders
  <2>4. activeRequestCount' = activeRequestCount - 1
    BY <1>4, <2>3 DEF ReleaseIgnored, ReleaseLeaves, ReleaseCloses, NothingToRelease
  <2> QED  BY <1>t, <2>1, <2>2, <2>4, CountedFinite DEF CountsHolders
<1>5. CASE DestroyCloses \/ DestroyIdle \/ DisconnectFail \/ Exit
  BY <1>5 DEF DestroyCloses, DestroyIdle, DisconnectFail, Exit, BeforeDestroy
<1>6. CASE DestroyDisconnectOk
  BY <1>6 DEF DestroyDisconnectOk, Suspended, BeforeDestroy, LockInv
<1>7. CASE RequestStep
  <2> PICK r \in Requests : \/ ArrivePublic(r) \/ ArriveGuarded(r) \/ GuardPass(r)
                           \/ GuardRefuse(r) \/ HandlerQuery(r) \/ Finish(r)
    BY <1>7 DEF RequestStep
  <2>1. BeforeDestroy /\ UNCHANGED <<activeRequestCount, failedConnects, awaiting, phase>>
    BY DEF ArrivePublic, ArriveGuarded, GuardPass, GuardRefuse, HandlerQuery, Finish,
           BeforeDestroy
  <2>2. lifecycleLock' \in {lifecycleLock, Append(lifecycleLock, r)}
    BY DEF ArrivePublic, ArriveGuarded, GuardPass, GuardRefuse, HandlerQuery, Finish, Chain
  <2>3. awaiting # "nothing" =>
          lifecycleLock # <<>> /\ lifecycleLock' # <<>> /\ Head(lifecycleLock') = Head(lifecycleLock)
    BY <1>t, <2>2 DEF LockInv, Callers
  <2>4. \A x \in Requests, call \in {"connect", "disconnect"} :
          Suspended(x, call)' <=> Suspended(x, call)
    BY <2>1, <2>3 DEF Suspended
  <2>5. Suspended(r, "connect") => pc[r] = "acquiring"
    BY ServerApart DEF Suspended, LockInv
  <2>6. Suspended(r, "disconnect") => pc[r] = "releasing"
    BY ServerApart DEF Suspended, LockInv
  <2>7. ASSUME NEW x \in Requests  PROVE x \in Counted' <=> x \in Counted
    <3>1. CASE x # r
      <4>1. pc'[x] = pc[x]
        BY <1>t, <3>1 DEF ArrivePublic, ArriveGuarded, GuardPass, GuardRefuse,
                          HandlerQuery, Finish
      <4> QED  BY <2>4, <4>1 DEF Counted
    <3>2. CASE x = r
      <4>1. \/ pc'[r] = pc[r]
            \/ pc[r] = "handling" /\ pc'[r] = "releasing"
            \/ pc[r] \in {"idle", "guard"} /\ pc'[r] \in {"idle", "guard", "acquiring"}
        BY <1>t DEF ArrivePublic, ArriveGuarded, GuardPass, GuardRefuse,
                    HandlerQuery, Finish
      <4> QED  BY <2>4, <2>5, <2>6, <3>2, <4>1 DEF Counted
    <3> QED  BY <3>1, <3>2
  <2>8. Counted' = Counted
    BY <2>7 DEF Counted
  <2> QED  BY <2>1, <2>8 DEF CountsHolders
<1>8. CASE Shutdown
  <2>1. awaiting # "nothing" =>
          lifecycleLock # <<>> /\ lifecycleLock' # <<>> /\ Head(lifecycleLock') = Head(lifecycleLock)
    BY <1>8, <1>t DEF Shutdown, Chain, LockInv, Callers
  <2>2. UNCHANGED <<activeRequestCount, failedConnects, awaiting, pc>> /\ BeforeDestroy
        /\ phase # "down" /\ phase' # "down"
    BY <1>8 DEF Shutdown, BeforeDestroy
  <2>3. Counted' = Counted
    BY <2>1, <2>2 DEF Counted, Suspended
  <2> QED  BY <2>2, <2>3 DEF CountsHolders
<1>9. CASE Restart
  <2>1. Counted' = {}
    BY <1>9 DEF Restart, Counted
  <2> QED  BY <1>9, <2>1, FS_EmptySet DEF Restart
<1>10. CASE UNCHANGED vars
  <2>1. Counted' = Counted /\ BeforeDestroy
    BY <1>10 DEF vars, Counted, Suspended, BeforeDestroy
  <2> QED  BY <1>10, <2>1 DEF vars, CountsHolders
<1> QED
  BY <1>1, <1>2, <1>3, <1>4, <1>5, <1>6, <1>7, <1>8, <1>9, <1>10 DEF Next, LockStep

-----------------------------------------------------------------------------
(* Theorems *)

LEMMA Invariance == Spec => []IInv
<1>1. Init => IInv
  <2> SUFFICES ASSUME Init PROVE IInv
    OBVIOUS
  <2>1. TypeOK
    <3>1. lifecycleLock \in Seq(Callers)
      BY DEF Init
    <3>2. pc \in [Requests -> PCs]
      BY DEF Init, PCs
    <3> QED  BY <3>1, <3>2 DEF Init, TypeOK, Phases
  <2>2. Counted = {}
    BY DEF Init, Counted
  <2>3. LockInv /\ AwaitInv /\ ConnectedMatchesCount
    BY DEF Init, LockInv, AwaitInv, ConnectedMatchesCount
  <2>4. CountsHolders
    BY <2>2, FS_EmptySet DEF Init, CountsHolders
  <2> QED  BY <2>1, <2>3, <2>4 DEF IInv
<1>2. IInv /\ [Next]_vars => IInv'
  BY TypeStep, ChainStep, FlagStep, CountStep DEF IInv
<1> QED  BY <1>1, <1>2, PTL DEF Spec

\* The discipline of the lock: no caller waits twice, and only the head awaits.
THEOREM LockCorrect == Spec => []LockInv
<1>1. IInv => LockInv
  BY DEF IInv
<1> QED  BY <1>1, Invariance, PTL

\* Before shutdown the count is the number of requests holding the connection plus
\* the number of failed $connect calls; in every phase the flag agrees with it between
\* tasks until a $connect fails.
THEOREM CountCorrect == Spec => []CountMatches
<1>1. IInv => CountMatches
  BY DEF IInv, CountMatches
<1> QED  BY <1>1, Invariance, PTL

\* Between tasks the flag and the count agree until a $connect fails.
THEOREM FlagCorrect == Spec => []ConnectedMatchesCount
<1>1. IInv => ConnectedMatchesCount
  BY DEF IInv
<1> QED  BY <1>1, Invariance, PTL

\* No release closes the connection under a running handler.
THEOREM DisconnectSafe == Spec => []NoDisconnectUnderHandler
<1>1. IInv => NoDisconnectUnderHandler
  <2> SUFFICES ASSUME IInv, BeforeDestroy, awaiting = "disconnect",
                      NEW r \in Requests, pc[r] = "handling"
               PROVE  FALSE
    BY DEF NoDisconnectUnderHandler
  <2>1. r \in Counted
    BY DEF Counted
  <2>2. Cardinality(Counted) \in Nat /\ Cardinality(Counted) > 0
    BY <2>1, CountedFinite
  <2>3. activeRequestCount = 0 /\ failedConnects \in Nat
    BY DEF IInv, AwaitInv, TypeOK
  <2> QED  BY <2>2, <2>3 DEF IInv, CountsHolders
<1> QED  BY <1>1, Invariance, PTL

\* Until a $connect fails, every handler of a running server has its connection.
THEOREM HandlersServed == Spec => []HandlersConnected
<1>1. IInv => HandlersConnected
  <2> SUFFICES ASSUME IInv, BeforeDestroy, failedConnects = 0,
                      NEW r \in Requests, pc[r] = "handling"
               PROVE  connected /\ engine = "open"
    BY DEF HandlersConnected
  <2>1. r \in Counted
    BY DEF Counted
  <2>2. activeRequestCount = Cardinality(Counted) /\ Cardinality(Counted) \in Nat
    BY CountedFinite DEF IInv, CountsHolders
  <2>3. activeRequestCount > 0
    BY <2>1, <2>2, CountedFinite
  <2>4. awaiting \in {"nothing", "connect", "disconnect"}
    BY DEF IInv, TypeOK
  <2>5. CASE awaiting = "nothing"
    BY <2>3, <2>5 DEF IInv, ConnectedMatchesCount, AwaitInv, BeforeDestroy
  <2>6. CASE awaiting = "connect"
    <3> DEFINE h == Head(lifecycleLock)
    <3>1. lifecycleLock # <<>> /\ h # Server /\ pc[h] = "acquiring" /\ h \in Callers
      BY <2>6 DEF IInv, LockInv, TypeOK
    <3>2. h \in Counted /\ h # r
      BY <2>6, <3>1 DEF Counted, Suspended, Callers, BeforeDestroy
    <3>3. IsFiniteSet(Counted \ {h}) /\ Cardinality(Counted \ {h}) = Cardinality(Counted) - 1
      BY <3>2, CountedFinite, FS_RemoveElement
    <3>4. Cardinality(Counted \ {h}) # 0
      BY <2>1, <3>2, <3>3, FS_EmptySet
    <3>5. activeRequestCount = 1
      BY <2>6 DEF IInv, AwaitInv
    <3> QED  BY <2>2, <3>3, <3>4, <3>5
  <2>7. CASE awaiting = "disconnect"
    BY <2>3, <2>7 DEF IInv, AwaitInv
  <2> QED  BY <2>4, <2>5, <2>6, <2>7
<1> QED  BY <1>1, Invariance, PTL

-----------------------------------------------------------------------------
(* Why AcquireSettles holds, short of fairness: whoever waits is on the     *)
(* chain, the chain's head can always go on, and whatever it does brings    *)
(* each of the others nearer to the head.                                   *)

Chained(c) == \E i \in DOMAIN lifecycleLock : lifecycleLock[i] = c

\* While the process lives, who waits is on the chain.
NobodyStranded ==
  phase # "down" =>
    /\ \A r \in Requests : pc[r] \in {"acquiring", "releasing"} => Chained(r)
    /\ phase = "closing" => Chained(Server)

\* The steps of the chain that the i-th caller still waits for: two for a task.
Turns(i) == 2 * i - (IF awaiting = "nothing" THEN 0 ELSE 1)

\* A step of the lock ends the head's turn, without leaving it on the chain, and brings
\* the others nearer; any other step leaves everybody in place.
Nearer ==
  phase # "down" /\ phase' # "down" =>
    \A i \in DOMAIN lifecycleLock :
      IF LockStep
      THEN \/ i = 1 /\ \A j \in DOMAIN lifecycleLock' : lifecycleLock'[j] # lifecycleLock[i]
           \/ \E j \in DOMAIN lifecycleLock' :
                lifecycleLock'[j] = lifecycleLock[i] /\ Turns(j)' < Turns(i)
      ELSE /\ i \in DOMAIN lifecycleLock' /\ lifecycleLock'[i] = lifecycleLock[i]
           /\ UNCHANGED awaiting

\* The lock either starts to wait for the driver or takes its head off.
Moves ==
  \/ /\ awaiting = "nothing" /\ awaiting' # "nothing"
     /\ UNCHANGED <<lifecycleLock, pc>> /\ phase' \in {phase, "destroyed"}
  \/ /\ awaiting' = "nothing" /\ lifecycleLock # <<>> /\ Unchain
     /\ \/ Head(lifecycleLock) = Server /\ pc' = pc /\ phase' = "destroyed"
        \/ \E r \in Requests : \E s \in {"idle", "handling"} :
             /\ Head(lifecycleLock) = r
             /\ pc' = [pc EXCEPT ![r] = s] /\ UNCHANGED phase

\* What is not a step of the lock chains a caller that did not wait, or nobody.
Others ==
  /\ UNCHANGED awaiting
  /\ \/ UNCHANGED lifecycleLock /\ phase' \in {phase, "down"}
        /\ \A r \in Requests : pc'[r] \in {"acquiring", "releasing"} => pc'[r] = pc[r]
     \/ \E r \in Requests : \E s \in {"acquiring", "releasing"} :
          Chain(r) /\ pc' = [pc EXCEPT ![r] = s] /\ UNCHANGED phase
     \/ Chain(Server) /\ UNCHANGED pc /\ phase' = "closing"

LEMMA LockMoves ==
  ASSUME IInv, LockStep, phase' # "down"
  PROVE  Moves
<1> USE DEF Moves
<1>1. ASSUME NEW r \in Requests, AcquireOpens(r) \/ ReleaseCloses(r)  PROVE Moves
  BY <1>1 DEF AcquireOpens, ReleaseCloses, Starts
<1>2. ASSUME NEW r \in Requests,
             \/ AcquireJoins(r) \/ ConnectOk(r) \/ ConnectFail(r)
             \/ ReleaseIgnored(r) \/ ReleaseLeaves(r) \/ ReleaseDisconnectOk(r)
      PROVE  Moves
  BY <1>2 DEF AcquireJoins, ConnectOk, ConnectFail, ReleaseIgnored, ReleaseLeaves,
              ReleaseDisconnectOk, Starts, Suspended, UnchainRejected, Closed
<1>3. CASE DestroyCloses
  BY <1>3 DEF DestroyCloses, Starts
<1>4. CASE DestroyIdle
  BY <1>4 DEF DestroyIdle, Starts
<1>5. CASE DestroyDisconnectOk
  <2>1. phase = "destroyed"
    BY <1>5 DEF DestroyDisconnectOk, Suspended, IInv, LockInv, TypeOK, Phases, BeforeDestroy
  <2> QED  BY <1>5, <2>1 DEF DestroyDisconnectOk, Suspended, Closed
<1> QED  BY <1>1, <1>2, <1>3, <1>4, <1>5 DEF LockStep, DisconnectFail

LEMMA OthersMove ==
  ASSUME IInv, [Next]_vars, ~LockStep, phase # "down"
  PROVE  Others
<1>t. pc \in [Requests -> PCs]
  BY DEF IInv, TypeOK
<1>1. ASSUME NEW r \in Requests, ArrivePublic(r) \/ GuardPass(r)  PROVE Others
  BY <1>1 DEF Others, ArrivePublic, GuardPass
<1>2. ASSUME NEW r \in Requests, Finish(r)  PROVE Others
  BY <1>2 DEF Others, Finish
<1>3. ASSUME NEW r \in Requests, ArriveGuarded(r) \/ GuardRefuse(r) \/ HandlerQuery(r)
      PROVE  Others
  BY <1>t, <1>3 DEF Others, ArriveGuarded, GuardRefuse, HandlerQuery
<1>4. CASE Shutdown
  BY <1>4 DEF Others, Shutdown
<1>5. CASE Exit \/ UNCHANGED vars
  BY <1>5 DEF Others, Exit, vars
<1> QED  BY <1>1, <1>2, <1>3, <1>4, <1>5 DEF Next, RequestStep, Restart

\* Taking the head off brings every other caller one place forward.
LEMMA TailPlaces ==
  ASSUME NEW q \in Seq(Callers), q # <<>>
  PROVE  \A i \in DOMAIN q : i # 1 => i - 1 \in DOMAIN Tail(q) /\ Tail(q)[i - 1] = q[i]
OBVIOUS

LEMMA AppendPlaces ==
  ASSUME NEW q \in Seq(Callers), NEW c \in Callers
  PROVE  /\ \A i \in DOMAIN q : i \in DOMAIN Append(q, c) /\ Append(q, c)[i] = q[i]
         /\ \E i \in DOMAIN Append(q, c) : Append(q, c)[i] = c
<1>1. Len(q) + 1 \in DOMAIN Append(q, c) /\ Append(q, c)[Len(q) + 1] = c
  OBVIOUS
<1> QED  BY <1>1

LEMMA NearerStep ==
  ASSUME IInv, [Next]_vars, phase # "down", phase' # "down"
  PROVE  Nearer
<1> SUFFICES ASSUME NEW i \in DOMAIN lifecycleLock
             PROVE  IF LockStep
                    THEN \/ /\ i = 1
                            /\ \A j \in DOMAIN lifecycleLock' : lifecycleLock'[j] # lifecycleLock[i]
                         \/ \E j \in DOMAIN lifecycleLock' :
                              lifecycleLock'[j] = lifecycleLock[i] /\ Turns(j)' < Turns(i)
                    ELSE /\ i \in DOMAIN lifecycleLock' /\ lifecycleLock'[i] = lifecycleLock[i]
                         /\ UNCHANGED awaiting
  BY DEF Nearer
<1>t. lifecycleLock \in Seq(Callers) /\ i \in Nat /\ lifecycleLock # <<>>
  BY DEF IInv, TypeOK
<1>1. CASE LockStep
  <2>1. CASE awaiting = "nothing" /\ awaiting' # "nothing" /\ UNCHANGED lifecycleLock
    BY <1>t, <1>1, <2>1 DEF Turns
  <2>2. CASE awaiting' = "nothing" /\ Unchain
    <3>1. CASE i = 1
      <4>1. lifecycleLock[i] = Head(lifecycleLock)
        BY <1>t, <3>1
      <4>2. \A j \in DOMAIN lifecycleLock' : lifecycleLock'[j] # Head(lifecycleLock)
        BY <1>t, <2>2, UnchainLemma DEF IInv, LockInv, Unchain
      <4> QED  BY <1>1, <3>1, <4>1, <4>2
    <3>2. CASE i # 1
      <4>1. i - 1 \in DOMAIN lifecycleLock' /\ lifecycleLock'[i - 1] = lifecycleLock[i]
        BY <1>t, <2>2, <3>2, TailPlaces DEF Unchain
      <4>2. Turns(i - 1)' < Turns(i)
        BY <1>t, <2>2 DEF Turns
      <4> QED  BY <1>1, <4>1, <4>2
    <3> QED  BY <3>1, <3>2
  <2> QED  BY <1>1, <2>1, <2>2, LockMoves DEF Moves
<1>2. CASE ~LockStep
  <2>1. UNCHANGED awaiting /\ (UNCHANGED lifecycleLock \/ \E c \in Callers : Chain(c))
    BY <1>2, OthersMove DEF Others, Callers
  <2> QED  BY <1>t, <1>2, <2>1, AppendPlaces DEF Chain
<1> QED  BY <1>1, <1>2

LEMMA StrandedStep == IInv /\ NobodyStranded /\ [Next]_vars => NobodyStranded'
<1> SUFFICES ASSUME IInv, NobodyStranded, [Next]_vars, phase' # "down"
             PROVE  /\ \A r \in Requests : pc'[r] \in {"acquiring", "releasing"} => Chained(r)'
                    /\ phase' = "closing" => Chained(Server)'
  BY DEF NobodyStranded
<1>t. lifecycleLock \in Seq(Callers) /\ pc \in [Requests -> PCs]
      /\ Server \in Callers /\ Requests \subseteq Callers
  BY DEF IInv, TypeOK, Callers
<1>0. CASE phase = "down"
  BY <1>0, <1>t DEF Next, LockStep, RequestStep, Restart, vars, ArrivePublic, ArriveGuarded,
     GuardPass, GuardRefuse, HandlerQuery, Finish, AcquireOpens, AcquireJoins, ConnectOk,
     ConnectFail, ReleaseIgnored, ReleaseLeaves, ReleaseCloses, ReleaseDisconnectOk, Shutdown,
     DestroyCloses, DestroyIdle, DestroyDisconnectOk, DisconnectFail, Exit, Starts, Suspended
<1>1. CASE phase # "down" /\ LockStep
  <2>0. Moves
    BY <1>1, LockMoves
  <2>1. CASE awaiting' # "nothing" /\ UNCHANGED <<lifecycleLock, pc>> /\ phase' \in {phase, "destroyed"}
    BY <1>1, <2>1 DEF NobodyStranded, Chained
  <2>2. CASE lifecycleLock # <<>> /\ Unchain
    <3>1. \A c \in Callers : c # Head(lifecycleLock) /\ Chained(c) => Chained(c)'
      <4> SUFFICES ASSUME NEW i \in DOMAIN lifecycleLock, lifecycleLock[i] # Head(lifecycleLock)
                   PROVE  \E j \in DOMAIN lifecycleLock' : lifecycleLock'[j] = lifecycleLock[i]
        BY DEF Chained
      <4>1. i # 1
        BY <1>t, <2>2
      <4> QED  BY <1>t, <2>2, <4>1, TailPlaces DEF Unchain
    <3>2. \/ Head(lifecycleLock) = Server /\ pc' = pc /\ phase' = "destroyed"
          \/ \E r \in Requests : \E s \in {"idle", "handling"} :
               Head(lifecycleLock) = r /\ pc' = [pc EXCEPT ![r] = s] /\ UNCHANGED phase
      <4>1. awaiting' = "nothing" \/ lifecycleLock' = lifecycleLock
        BY <2>0 DEF Moves
      <4>2. lifecycleLock' # lifecycleLock
        BY <1>t, <2>2 DEF Unchain
      <4> QED  BY <2>0, <4>2 DEF Moves
    <3> QED  BY <1>t, <1>1, <3>1, <3>2, ServerApart DEF NobodyStranded
  <2> QED  BY <2>0, <2>1, <2>2 DEF Moves
<1>2. CASE phase # "down" /\ ~LockStep
  <2>0. Others
    BY <1>2, OthersMove
  <2>1. CASE UNCHANGED lifecycleLock /\ phase' \in {phase, "down"}
             /\ \A r \in Requests : pc'[r] \in {"acquiring", "releasing"} => pc'[r] = pc[r]
    BY <1>2, <2>1 DEF NobodyStranded, Chained
  <2>2. ASSUME NEW c \in Callers, Chain(c)
        PROVE  Chained(c)' /\ \A x \in Callers : Chained(x) => Chained(x)'
    BY <1>t, <2>2, AppendPlaces DEF Chained, Chain
  <2>3. ASSUME NEW r \in Requests, NEW s, Chain(r), pc' = [pc EXCEPT ![r] = s], UNCHANGED phase
        PROVE  /\ \A x \in Requests : pc'[x] \in {"acquiring", "releasing"} => Chained(x)'
               /\ phase' = "closing" => Chained(Server)'
    BY <1>t, <1>2, <2>2, <2>3 DEF NobodyStranded
  <2>4. CASE Chain(Server) /\ UNCHANGED pc
    BY <1>t, <1>2, <2>2, <2>4 DEF NobodyStranded
  <2> QED  BY <2>0, <2>1, <2>3, <2>4 DEF Others
<1> QED  BY <1>0, <1>1, <1>2

\* As long as the process lives, a request that waits for the connection is on the
\* chain, and so is the shutdown hook until it has begun: no rejected task drops the
\* tasks behind it (prisma.service.ts:61-65).
THEOREM NobodyIsStranded == Spec => []NobodyStranded
<1>1. Init => NobodyStranded
  BY DEF Init, NobodyStranded
<1> QED  BY <1>1, StrandedStep, Invariance, PTL DEF Spec

\* The guards of the lock's steps, those on the count and the flag left out, which
\* are a choice between two steps each.
HeadReady ==
  phase # "down" /\ lifecycleLock # <<>> =>
    \/ \E r \in Requests :
         \/ Starts(r) /\ pc[r] \in {"acquiring", "releasing"}
         \/ Suspended(r, "connect") /\ pc[r] = "acquiring"
         \/ Suspended(r, "disconnect") /\ pc[r] = "releasing"
    \/ Starts(Server) \/ Suspended(Server, "disconnect")

\* Whoever is at the head of the chain has a step to take: the lock never waits for
\* anything but the driver, whatever the count and the flag (prisma.service.ts:61-65).
THEOREM HeadIsReady == Spec => []HeadReady
<1>1. IInv => HeadReady
  <2> SUFFICES ASSUME IInv, phase # "down", lifecycleLock # <<>>  PROVE HeadReady
    BY DEF HeadReady
  <2> DEFINE h == Head(lifecycleLock)
  <2>1. h \in Callers /\ 1 \in DOMAIN lifecycleLock /\ lifecycleLock[1] = h
    BY DEF IInv, TypeOK
  <2>2. h # Server => pc[h] \in {"acquiring", "releasing"}
    BY <2>1 DEF IInv, LockInv
  <2>3. awaiting \in {"nothing", "connect", "disconnect"}
    BY DEF IInv, TypeOK
  <2> QED
    BY <2>1, <2>2, <2>3 DEF HeadReady, Starts, Suspended, Callers, IInv, LockInv
<1> QED  BY <1>1, Invariance, PTL

\* The lock is first come, first served: each of its steps ends the head's turn or
\* brings everyone behind nearer, and no other step takes anybody's place
\* (prisma.service.ts:61-65). With HeadIsReady this leaves fairness as all that
\* AcquireSettles asks for.
THEOREM FirstComeFirstServed == Spec => [][Nearer]_vars
<1>1. IInv /\ [Next]_vars => Nearer
  BY NearerStep DEF Nearer
<1> QED  BY <1>1, Invariance, PTL DEF Spec

-----------------------------------------------------------------------------
(* Refinement *)

\* The refinement mapping of Connection.
Users == {r \in Requests : pc[r] \in {"handling", "releasing"}}
Managed == BeforeDestroy /\ failedConnects = 0

AbstractStep == Connection!Next \/ UNCHANGED <<Users, connected, Managed>>

LEMMA Abstraction ==
  /\ \A r \in Requests :
       /\ Connection!Acquire(r) <=>
            /\ Managed /\ r \notin Users
            /\ Users' = Users \union {r} /\ connected' = TRUE /\ Managed' = Managed
       /\ Connection!Release(r) <=>
            /\ Managed /\ r \in Users
            /\ Users' = Users \ {r} /\ connected' = (Users # {r}) /\ Managed' = Managed
  /\ Connection!Unmanaged <=>
       Managed' = FALSE /\ Users' \in SUBSET Requests /\ connected' \in BOOLEAN
  /\ Connection!Renew <=>
       ~Managed /\ Users' = {} /\ connected' = FALSE /\ Managed' = TRUE
  BY DEF Connection!Acquire, Connection!Release, Connection!Unmanaged, Connection!Renew,
         Users, Managed

LEMMA LosesManagement == TypeOK' /\ ~Managed' => Connection!Unmanaged
<1> SUFFICES ASSUME TypeOK', ~Managed' PROVE Connection!Unmanaged
  OBVIOUS
<1>1. Users' \in SUBSET Requests
  BY DEF Users
<1>2. connected' \in BOOLEAN /\ Managed' = FALSE
  BY DEF TypeOK, Managed
<1> QED  BY <1>1, <1>2, Abstraction

LEMMA LockRefines == IInv /\ IInv' /\ LockStep => AbstractStep
<1> SUFFICES ASSUME IInv, IInv', LockStep, Managed' PROVE AbstractStep
  BY LosesManagement DEF IInv, AbstractStep, Connection!Next
<1>t. /\ activeRequestCount \in Nat /\ failedConnects \in Nat /\ connected \in BOOLEAN
      /\ pc \in [Requests -> PCs] /\ lifecycleLock \in Seq(Callers)
  BY DEF IInv, TypeOK
<1>1. ASSUME NEW r \in Requests, AcquireOpens(r) \/ ReleaseCloses(r)  PROVE AbstractStep
  BY <1>1 DEF AcquireOpens, ReleaseCloses, AbstractStep, Users, Managed, BeforeDestroy
<1>2. ASSUME NEW r \in Requests, AcquireJoins(r) \/ ConnectOk(r)  PROVE AbstractStep
  <2>1. Users' = Users \union {r} /\ r \notin Users
    <3>1. pc[r] = "acquiring" /\ pc' = [pc EXCEPT ![r] = "handling"]
      BY <1>2, ServerApart DEF AcquireJoins, ConnectOk, Suspended, IInv, LockInv
    <3> QED  BY <1>t, <3>1 DEF Users
  <2>2. Managed /\ Managed' = Managed
    BY <1>2 DEF AcquireJoins, ConnectOk, Managed, BeforeDestroy
  <2>3. connected' = TRUE
    BY <1>2, <1>t, <2>2
       DEF AcquireJoins, ConnectOk, Starts, FirstIn, Managed, IInv, ConnectedMatchesCount
  <2> QED  BY <2>1, <2>2, <2>3, Abstraction DEF AbstractStep, Connection!Next
<1>3. ASSUME NEW r \in Requests, ConnectFail(r)  PROVE AbstractStep
  BY <1>3, <1>t DEF ConnectFail, Managed
<1>4. ASSUME NEW r \in Requests, ReleaseIgnored(r) \/ ReleaseLeaves(r)  PROVE AbstractStep
  <2>1. Managed /\ Managed' = Managed /\ connected' = connected /\ awaiting = "nothing"
    BY <1>4 DEF ReleaseIgnored, ReleaseLeaves, Starts, Managed, BeforeDestroy
  <2>2. r \in Users /\ Users' = Users \ {r}
    BY <1>4, <1>t DEF ReleaseIgnored, ReleaseLeaves, Users
  <2>3. Counted = Users
    BY <2>1 DEF Counted, Users, Suspended
  <2>4. Cardinality(Users) \in Nat /\ Cardinality(Users) > 0 /\ activeRequestCount = Cardinality(Users)
    BY <2>1, <2>2, <2>3, CountedFinite DEF IInv, CountsHolders, Managed
  <2>5. connected = TRUE
    BY <1>4, <1>t, <2>1, <2>4 DEF IInv, ConnectedMatchesCount, Managed, BeforeDestroy
  <2>6. activeRequestCount # 1
    <3>1. activeRequestCount # 0
      BY <2>4
    <3>2. ReleaseLeaves(r)
      BY <1>4, <3>1 DEF ReleaseIgnored, NothingToRelease
    <3> QED  BY <2>5, <3>2 DEF ReleaseLeaves, LastOut
  <2>7. Users # {r}
    BY <2>4, <2>6, FS_Singleton
  <2> QED  BY <2>1, <2>2, <2>5, <2>7, Abstraction DEF AbstractStep, Connection!Next
<1>5. ASSUME NEW r \in Requests, ReleaseDisconnectOk(r)  PROVE AbstractStep
  <2>1. /\ Managed /\ Managed' = Managed /\ connected' = FALSE
        /\ awaiting = "disconnect" /\ Head(lifecycleLock) = r /\ pc[r] = "releasing"
    BY <1>5, ServerApart
       DEF ReleaseDisconnectOk, Suspended, Closed, Managed, BeforeDestroy, IInv, LockInv
  <2>2. r \in Users /\ Users' = Users \ {r}
    BY <1>5, <1>t, <2>1 DEF ReleaseDisconnectOk, Users
  <2>3. Cardinality(Counted) = 0
    BY <2>1, CountedFinite DEF IInv, CountsHolders, AwaitInv, Managed
  <2>4. Counted = {}
    BY <2>3, CountedFinite, FS_EmptySet
  <2>5. Users = {r}
    BY <2>1, <2>2, <2>4 DEF Counted, Users, Suspended
  <2> QED  BY <2>1, <2>2, <2>5, Abstraction DEF AbstractStep, Connection!Next
<1>6. CASE DestroyCloses \/ DestroyIdle \/ DestroyDisconnectOk \/ DisconnectFail
  BY <1>6 DEF DestroyCloses, DestroyIdle, DestroyDisconnectOk, DisconnectFail, Suspended,
              Managed, BeforeDestroy, IInv, LockInv
<1> QED  BY <1>1, <1>2, <1>3, <1>4, <1>5, <1>6 DEF LockStep

LEMMA StepRefines == IInv /\ IInv' /\ [Next]_vars => AbstractStep
<1> SUFFICES ASSUME IInv, IInv', [Next]_vars, Managed' PROVE AbstractStep
  BY LosesManagement DEF IInv, AbstractStep, Connection!Next
<1>1. CASE LockStep
  BY <1>1, LockRefines
<1>2. CASE RequestStep
  <2>1. Users' = Users
    BY <1>2 DEF RequestStep, ArrivePublic, ArriveGuarded, GuardPass, GuardRefuse,
                HandlerQuery, Finish, Users, IInv, TypeOK
  <2>2. UNCHANGED <<connected, Managed>>
    BY <1>2 DEF RequestStep, ArrivePublic, ArriveGuarded, GuardPass, GuardRefuse,
                HandlerQuery, Finish, Managed, BeforeDestroy
  <2> QED  BY <2>1, <2>2 DEF AbstractStep
<1>3. CASE Shutdown \/ Exit
  BY <1>3 DEF Shutdown, Exit, AbstractStep, Users, Managed, BeforeDestroy
<1>4. CASE Restart
  <2>1. Users' = {} /\ connected' = FALSE
    BY <1>4 DEF Restart, Users
  <2>2. ~Managed /\ Managed' = TRUE
    BY <1>4 DEF Restart, Managed, BeforeDestroy
  <2> QED  BY <2>1, <2>2, Abstraction DEF AbstractStep, Connection!Next
<1>5. CASE UNCHANGED vars
  BY <1>5 DEF vars, AbstractStep, Users, Managed, BeforeDestroy
<1> QED  BY <1>1, <1>2, <1>3, <1>4, <1>5 DEF Next

\* PrismaService implements a connection that is open exactly while it is used.
THEOREM ConnectionImplemented == Spec => ImplementsConnection
<1>1. Init => Connection!Init
  BY DEF Init, Connection!Init, BeforeDestroy
<1>2. IInv /\ IInv' /\ [Next]_vars => [Connection!Next]_(Connection!vars)
  BY StepRefines DEF AbstractStep, Connection!vars, Users, Managed
<1> QED  BY <1>1, <1>2, Invariance, PTL DEF Spec, ImplementsConnection, Connection!Spec
=============================================================================
