-------------------------- MODULE PrismaLifecycle --------------------------
(***************************************************************************)
(* The database connection of the backend, opened by the first request     *)
(* that needs it and closed by the last one: PrismaService (a counter, a   *)
(* flag and a lock made of a chain of promises) driven by                  *)
(* PrismaRequestLifecycleInterceptor, with the guards that query the       *)
(* database before the interceptor runs and the shutdown hook that closes  *)
(* the connection while requests are still in flight.                      *)
(*                                                                         *)
(* Every action is what runs between two awaits of the code, so the JS     *)
(* event loop's interleavings are exactly the interleavings of actions.    *)
(***************************************************************************)
EXTENDS Naturals, Sequences, FiniteSets

CONSTANTS Requests,           \* the requests that may be in flight at a time
          Server,             \* the shutdown hook, as a caller of the lock
          MaxFailedConnects   \* bound: $connect rejections per process

ASSUME RequestsFinite == IsFiniteSet(Requests)
ASSUME ServerApart == Server \notin Requests
ASSUME MaxFailedConnectsNat == MaxFailedConnects \in Nat

VARIABLES
  activeRequestCount,   \* PrismaService.activeRequestCount
  connected,            \* PrismaService.connected: $connect without $disconnect
  lifecycleLock,        \* callers whose task is chained on the lock; the head runs
  awaiting,             \* what the running task awaits
  engine,               \* external: whether Prisma really holds a connection
  pc,                   \* where each request is
  phase,                \* of the process
  failedConnects        \* $connect rejections of this process so far

vars == <<activeRequestCount, connected, lifecycleLock, awaiting, engine, pc,
          phase, failedConnects>>

Callers == Requests \union {Server}

PCs == {"idle", "guard", "acquiring", "handling", "releasing"}

\* "destroyed": the onModuleDestroy task has started; "down": the process is gone.
Phases == {"up", "closing", "destroyed", "down"}

BeforeDestroy == phase \in {"up", "closing"}

TypeOK ==
  /\ activeRequestCount \in Nat
  /\ connected \in BOOLEAN
  /\ lifecycleLock \in Seq(Callers)
  /\ awaiting \in {"nothing", "connect", "disconnect"}
  /\ engine \in {"open", "closed"}
  /\ pc \in [Requests -> PCs]
  /\ phase \in Phases
  /\ failedConnects \in Nat

Init ==
  /\ activeRequestCount = 0
  /\ connected = FALSE
  /\ lifecycleLock = <<>>
  /\ awaiting = "nothing"
  /\ engine = "closed"
  /\ pc = [r \in Requests |-> "idle"]
  /\ phase = "up"
  /\ failedConnects = 0

-----------------------------------------------------------------------------
(* withLifecycleLock: a task is chained behind the tasks before it, and is *)
(* off the chain when it settles, fulfilled or rejected alike.             *)

Chain(c) == lifecycleLock' = Append(lifecycleLock, c)

Unchain == lifecycleLock' = Tail(lifecycleLock)

\* Mutant: a rejected task keeps its place, as if the chain had no catch().
UnchainRejectedNever == UNCHANGED lifecycleLock

UnchainRejected == Unchain

\* The task of c is at the head of the chain and has not started.
Starts(c) ==
  /\ phase # "down"
  /\ awaiting = "nothing"
  /\ lifecycleLock # <<>> /\ Head(lifecycleLock) = c

\* The task of c is suspended in $connect() or in $disconnect().
Suspended(c, call) ==
  /\ phase # "down"
  /\ awaiting = call
  /\ lifecycleLock # <<>> /\ Head(lifecycleLock) = c

-----------------------------------------------------------------------------
(* A request: the guards, the interceptor and the handler.                 *)

\* The socket listens until the shutdown hook's onModuleDestroy has settled.
Listening == phase = "up" \/ \E i \in DOMAIN lifecycleLock : lifecycleLock[i] = Server

\* A @Public() route goes straight to the interceptor.
ArrivePublic(r) ==
  /\ Listening /\ phase # "down" /\ pc[r] = "idle"
  /\ pc' = [pc EXCEPT ![r] = "acquiring"]
  /\ Chain(r)
  /\ UNCHANGED <<activeRequestCount, connected, awaiting, engine, phase, failedConnects>>

\* Any other route first waits for JwtAuthGuard, which runs before interceptors.
ArriveGuarded(r) ==
  /\ Listening /\ phase # "down" /\ pc[r] = "idle"
  /\ pc' = [pc EXCEPT ![r] = "guard"]
  /\ UNCHANGED <<activeRequestCount, connected, lifecycleLock, awaiting, engine,
                 phase, failedConnects>>

\* JwtStrategy.validate reads the user: Prisma connects lazily for the query.
GuardPass(r) ==
  /\ phase # "down" /\ pc[r] = "guard"
  /\ engine' = "open"
  /\ pc' = [pc EXCEPT ![r] = "acquiring"]
  /\ Chain(r)
  /\ UNCHANGED <<activeRequestCount, connected, awaiting, phase, failedConnects>>

\* The guard refuses, before its query (engine unchanged) or because of it.
GuardRefuse(r) ==
  /\ phase # "down" /\ pc[r] = "guard"
  /\ engine' \in {engine, "open"}
  /\ pc' = [pc EXCEPT ![r] = "idle"]
  /\ UNCHANGED <<activeRequestCount, connected, lifecycleLock, awaiting, phase,
                 failedConnects>>

\* The handler queries; without a connection Prisma opens one for the query.
HandlerQuery(r) ==
  /\ phase # "down" /\ pc[r] = "handling" /\ engine = "closed"
  /\ engine' = "open"
  /\ UNCHANGED <<activeRequestCount, connected, lifecycleLock, awaiting, pc,
                 phase, failedConnects>>

\* The handler completes or throws; finalize() chains the release either way.
Finish(r) ==
  /\ phase # "down" /\ pc[r] = "handling"
  /\ pc' = [pc EXCEPT ![r] = "releasing"]
  /\ Chain(r)
  /\ UNCHANGED <<activeRequestCount, connected, awaiting, engine, phase, failedConnects>>

-----------------------------------------------------------------------------
(* acquireRequestConnection *)

\* Mutant: only the request that connects is counted.
CountInOnce ==
  activeRequestCount' = IF connected THEN activeRequestCount ELSE activeRequestCount + 1

CountIn == activeRequestCount' = activeRequestCount + 1

\* Mutant: the count compared with 1 before it is incremented.
FirstInLate == activeRequestCount = 1 /\ ~connected

FirstIn == activeRequestCount = 0 /\ ~connected

\* The task counts the request, then connects if it is the first one.
AcquireOpens(r) ==
  /\ Starts(r) /\ pc[r] = "acquiring"
  /\ FirstIn
  /\ CountIn
  /\ awaiting' = "connect"
  /\ UNCHANGED <<connected, lifecycleLock, engine, pc, phase, failedConnects>>

\* Otherwise the acquire is over and the interceptor subscribes to the handler.
AcquireJoins(r) ==
  /\ Starts(r) /\ pc[r] = "acquiring"
  /\ ~FirstIn
  /\ CountIn
  /\ pc' = [pc EXCEPT ![r] = "handling"]
  /\ Unchain
  /\ UNCHANGED <<connected, awaiting, engine, phase, failedConnects>>

ConnectOk(r) ==
  /\ Suspended(r, "connect")
  /\ engine' = "open" /\ connected' = TRUE /\ awaiting' = "nothing"
  /\ pc' = [pc EXCEPT ![r] = "handling"]
  /\ Unchain
  /\ UNCHANGED <<activeRequestCount, phase, failedConnects>>

\* $connect rejects (it cannot when the engine is already connected): the
\* interceptor never subscribes to the handler, so nothing is released, and the
\* count keeps the request.
ConnectFail(r) ==
  /\ Suspended(r, "connect")
  /\ engine = "closed" /\ failedConnects < MaxFailedConnects
  /\ failedConnects' = failedConnects + 1
  /\ awaiting' = "nothing"
  /\ pc' = [pc EXCEPT ![r] = "idle"]
  /\ UnchainRejected
  /\ UNCHANGED <<activeRequestCount, connected, engine, phase>>

-----------------------------------------------------------------------------
(* releaseRequestConnection *)

\* Mutant: the early return is dropped.
NothingToReleaseNever == FALSE

NothingToRelease == activeRequestCount = 0

\* Mutant: the count compared with 1 after it is decremented.
LastOutEarly == activeRequestCount \in {1, 2} /\ connected

LastOut == activeRequestCount = 1 /\ connected

\* Mutant: the flag is not reset when the connection is closed.
ClosedStillFlagged ==
  engine' = "closed" /\ awaiting' = "nothing" /\ UNCHANGED connected

Closed == engine' = "closed" /\ awaiting' = "nothing" /\ connected' = FALSE

\* After onModuleDestroy reset the count there is nothing left to release.
ReleaseIgnored(r) ==
  /\ Starts(r) /\ pc[r] = "releasing"
  /\ NothingToRelease
  /\ pc' = [pc EXCEPT ![r] = "idle"]
  /\ Unchain
  /\ UNCHANGED <<activeRequestCount, connected, awaiting, engine, phase, failedConnects>>

ReleaseLeaves(r) ==
  /\ Starts(r) /\ pc[r] = "releasing"
  /\ ~NothingToRelease /\ ~LastOut
  /\ activeRequestCount' = activeRequestCount - 1
  /\ pc' = [pc EXCEPT ![r] = "idle"]
  /\ Unchain
  /\ UNCHANGED <<connected, awaiting, engine, phase, failedConnects>>

\* The last request out closes the connection.
ReleaseCloses(r) ==
  /\ Starts(r) /\ pc[r] = "releasing"
  /\ ~NothingToRelease /\ LastOut
  /\ activeRequestCount' = activeRequestCount - 1
  /\ awaiting' = "disconnect"
  /\ UNCHANGED <<connected, lifecycleLock, engine, pc, phase, failedConnects>>

ReleaseDisconnectOk(r) ==
  /\ Suspended(r, "disconnect")
  /\ Closed
  /\ pc' = [pc EXCEPT ![r] = "idle"]
  /\ Unchain
  /\ UNCHANGED <<activeRequestCount, phase, failedConnects>>

-----------------------------------------------------------------------------
(* onModuleDestroy, called by Nest's shutdown hook *)

Shutdown ==
  /\ phase = "up"
  /\ phase' = "closing"
  /\ Chain(Server)
  /\ UNCHANGED <<activeRequestCount, connected, awaiting, engine, pc, failedConnects>>

DestroyCloses ==
  /\ Starts(Server) /\ connected
  /\ activeRequestCount' = 0
  /\ phase' = "destroyed"
  /\ awaiting' = "disconnect"
  /\ UNCHANGED <<connected, lifecycleLock, engine, pc, failedConnects>>

DestroyIdle ==
  /\ Starts(Server) /\ ~connected
  /\ activeRequestCount' = 0
  /\ phase' = "destroyed"
  /\ Unchain
  /\ UNCHANGED <<connected, awaiting, engine, pc, failedConnects>>

DestroyDisconnectOk ==
  /\ Suspended(Server, "disconnect")
  /\ Closed
  /\ Unchain
  /\ UNCHANGED <<activeRequestCount, pc, phase, failedConnects>>

\* $disconnect rejects: the release's promise was voided, so the rejection is
\* unhandled and ends the process; in the shutdown hook Nest exits as well.
DisconnectFail ==
  /\ phase # "down" /\ awaiting = "disconnect"
  /\ phase' = "down"
  /\ UNCHANGED <<activeRequestCount, connected, lifecycleLock, awaiting, engine,
                 pc, failedConnects>>

\* The HTTP server has drained: the process exits, with releases still chained or not.
Exit ==
  /\ phase = "destroyed" /\ ~Listening
  /\ \A r \in Requests : pc[r] \in {"idle", "releasing"}
  /\ phase' = "down"
  /\ UNCHANGED <<activeRequestCount, connected, lifecycleLock, awaiting, engine,
                 pc, failedConnects>>

\* A new process: every field starts over, and the old one's sockets are gone.
Restart ==
  /\ phase = "down"
  /\ activeRequestCount' = 0
  /\ connected' = FALSE
  /\ lifecycleLock' = <<>>
  /\ awaiting' = "nothing"
  /\ engine' = "closed"
  /\ pc' = [r \in Requests |-> "idle"]
  /\ phase' = "up"
  /\ failedConnects' = 0

-----------------------------------------------------------------------------

\* The steps that the promises of the lock's chain take by themselves.
LockStep ==
  \/ \E r \in Requests :
       \/ AcquireOpens(r) \/ AcquireJoins(r) \/ ConnectOk(r) \/ ConnectFail(r)
       \/ ReleaseIgnored(r) \/ ReleaseLeaves(r) \/ ReleaseCloses(r)
       \/ ReleaseDisconnectOk(r)
  \/ DestroyCloses \/ DestroyIdle \/ DestroyDisconnectOk
  \/ DisconnectFail

RequestStep ==
  \E r \in Requests :
    \/ ArrivePublic(r) \/ ArriveGuarded(r) \/ GuardPass(r) \/ GuardRefuse(r)
    \/ HandlerQuery(r) \/ Finish(r)

Next == LockStep \/ RequestStep \/ Shutdown \/ Exit \/ Restart

Spec == Init /\ [][Next]_vars

\* Promise callbacks run, and $connect and $disconnect settle (the driver's
\* timeouts); nothing obliges requests to come, handlers to end or the host to
\* stop or start the process.
FairSpec == Spec /\ WF_vars(LockStep)

-----------------------------------------------------------------------------
(* Properties *)

\* The requests that activeRequestCount counts: those between acquire and
\* release, with the one whose $connect is awaited, without the one whose
\* $disconnect is awaited.
Counted ==
  {r \in Requests :
     \/ pc[r] = "handling"
     \/ pc[r] = "releasing" /\ ~Suspended(r, "disconnect")
     \/ pc[r] = "acquiring" /\ Suspended(r, "connect")}

\* The chain's discipline, which the proofs rest on: a caller waits at most once, a
\* waiting request is between the interceptor's two calls, the shutdown hook waits
\* only once called, and an awaited $connect or $disconnect belongs to the head.
LockInv ==
  /\ \A i, j \in DOMAIN lifecycleLock : lifecycleLock[i] = lifecycleLock[j] => i = j
  /\ \A i \in DOMAIN lifecycleLock :
       IF lifecycleLock[i] = Server THEN phase # "up"
       ELSE pc[lifecycleLock[i]] \in {"acquiring", "releasing"}
  /\ awaiting # "nothing" => lifecycleLock # <<>>
  /\ awaiting = "connect" =>
       Head(lifecycleLock) # Server /\ pc[Head(lifecycleLock)] = "acquiring"
  /\ awaiting = "disconnect" =>
       IF Head(lifecycleLock) = Server THEN ~BeforeDestroy
       ELSE pc[Head(lifecycleLock)] = "releasing"

\* Until the shutdown hook resets it, activeRequestCount is the number of
\* requests holding the connection plus one for each $connect that was rejected.
CountsHolders ==
  BeforeDestroy => activeRequestCount = Cardinality(Counted) + failedConnects

\* The connection is never closed under a request: while a $disconnect issued by
\* a release is awaited, no request is running its handler (before shutdown).
NoDisconnectUnderHandler ==
  BeforeDestroy /\ awaiting = "disconnect" => \A r \in Requests : pc[r] # "handling"

\* Until a $connect fails or the shutdown hook runs, every handler runs with the
\* connection that acquireRequestConnection opened, not one Prisma opens lazily.
HandlersConnected ==
  BeforeDestroy /\ failedConnects = 0 =>
    \A r \in Requests : pc[r] = "handling" => connected /\ engine = "open"

\* Between tasks the flag follows the count in every phase of the process, also
\* through the reset by the shutdown hook, as long as no $connect has failed.
ConnectedMatchesCount ==
  phase # "down" /\ awaiting = "nothing" /\ failedConnects = 0 =>
    (connected <=> activeRequestCount > 0)

\* No interleaving of acquires and releases loses or doubles an update of the count
\* (prisma.service.ts:40, 53), and none with the shutdown hook, which resets it under
\* requests that are still to release, makes it and the flag disagree
\* (prisma.service.ts:26).
CountMatches == CountsHolders /\ ConnectedMatchesCount

\* The lock never strands a request: an acquire settles (the handler runs, or
\* the request fails) even when tasks before it are rejected.
AcquireSettles ==
  \A r \in Requests : pc[r] = "acquiring" ~> (pc[r] # "acquiring" \/ phase = "down")

\* While the connection is managed per request it is open exactly while some
\* request is between its acquire and the end of its release.
Connection == INSTANCE RequestConnection WITH
  users <- {r \in Requests : pc[r] \in {"handling", "releasing"}},
  open <- connected,
  managed <- BeforeDestroy /\ failedConnects = 0

\* PrismaService implements RequestConnection.
ImplementsConnection == Connection!Spec

\* prisma.service.ts:21 says the connection lifecycle is managed per request by
\* the interceptor: a handler of a running server has a connection opened for it.
ManagedPerRequest ==
  BeforeDestroy => \A r \in Requests : pc[r] = "handling" => connected
=============================================================================
