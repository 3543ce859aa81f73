---------------------------- MODULE Deploy_proofs ----------------------------
(* Proofs about Deploy: for any builds, databases, environments and number of *)
(* migrations. The invariant says what is true where each build stands: what  *)
(* the gate let through, what a finished build left, and that a build without *)
(* trouble sees at most the recoverable migration failed, none once it has    *)
(* recovered it.                                                              *)
EXTENDS Deploy, TLAPS

Marks == {"pending", "failed", "applied"}

\* What the gate of the production script guarantees behind it.
GateAt(b) ==
  build[b].script = "cjs" =>
    /\ build[b].at \in Running \union {"done"} =>
         host.env.schemaOnly # TRUE /\ HasDatabaseConfig(host.env.vars)
    /\ build[b].at = "refused" =>
         host.env.schemaOnly = TRUE \/ ~HasDatabaseConfig(host.env.vars)

\* A build that succeeded left the database that Prisma opens up to date.
DoneAt(b) == build[b].at = "done" => Reachable /\ UpToDate(ledger[CliTarget])

\* A build without trouble is on its way, or done.
CauseAt(b) ==
  b \notin trouble =>
    /\ build[b].at # "failed"
    /\ build[b].at \in Running => Reachable /\ Failed \subseteq {SimplifyUser}
    /\ build[b].at \in {"recoverFirst", "recover"} => ledger[CliTarget][SimplifyUser] = "failed"
    /\ build[b].at = "deployAgain" => Failed = {}

IInv == TypeOK /\ \A b \in Builds : GateAt(b) /\ DoneAt(b) /\ CauseAt(b)

-----------------------------------------------------------------------------

\* getDatabaseUrl finds a database or throws.
LEMMA UrlType ==
  ASSUME NEW e \in [Variables -> Values]
  PROVE  GetDatabaseUrl(e) \in Databases \union {NoDatabase}
<1>1. \A v \in Variables : e[v] \in Values
  OBVIOUS
<1>2. DirectUrl(e) \in Values
  BY <1>1 DEF DirectUrl, Variables
<1>3. e["DATABASE_URL"] \in Values /\ e["DATABASE_NAME"] \in Values
  BY <1>1 DEF Variables
<1> QED
  BY <1>2, <1>3 DEF GetDatabaseUrl, Values

\* So does Prisma's configuration, whatever the files over the environment say.
LEMMA TargetType ==
  ASSUME TypeOK
  PROVE  CliTarget \in Databases \union {NoDatabase}
<1>1. /\ host.env.vars \in [Variables -> Values]
      /\ host.overrides.vars \in [Variables -> Values]
  BY HostsAssumption DEF TypeOK, Environments
<1>2. CliVars \in [Variables -> Values]
  BY <1>1 DEF CliVars
<1> QED
  BY <1>2, UrlType, MigrationsAssumption DEF CliTarget

\* The target of Prisma's commands changes with the environment only.
LEMMA TargetKept ==
  ASSUME UNCHANGED host
  PROVE  CliTarget' = CliTarget /\ Reachable' = Reachable
<1>1. CliVars' = CliVars
  BY DEF CliVars
<1>2. CliTarget' = CliTarget
  BY <1>1 DEF CliTarget
<1> QED
  BY <1>2 DEF Reachable

-----------------------------------------------------------------------------

LEMMA InitInv == ASSUME Init PROVE IInv
<1>1. TypeOK
  BY MigrationsAssumption DEF Init, TypeOK, States
<1>2. \A b \in Builds : GateAt(b) /\ DoneAt(b) /\ CauseAt(b)
  BY DEF Init, GateAt, DoneAt, CauseAt, Running
<1> QED
  BY <1>1, <1>2 DEF IInv

\* Every step keeps the types and the environment.
LEMMA StepType ==
  ASSUME IInv, Next
  PROVE  TypeOK' /\ UNCHANGED host
<1> USE DEF TypeOK, States, Goes
<1>0. TypeOK
  BY DEF IInv
<1>1. Reachable => CliTarget \in Databases
  BY <1>0, TargetType DEF Reachable
<1>2. SimplifyUser \in Migrations
  BY MigrationsAssumption
<1> SUFFICES ASSUME NEW b \in Builds,
                    \/ \E script \in {"cjs", "ts"} : Begin(b, script)
                    \/ Status(b)
                    \/ RecoverFailedMigration(b, "recoverFirst", "deploy")
                    \/ RecoverFailedMigration(b, "recover", "deployAgain")
                    \/ DeployApplies(b) \/ DeployRefuses(b)
                    \/ \E m \in Migrations : MigrationFails(b, m) \/ KilledApplying(b, m) \/ CutAfter(b, m)
                    \/ CommandFails(b) \/ Killed(b)
             PROVE  TypeOK' /\ UNCHANGED host
  BY DEF Next
<1>a. ASSUME NEW script \in {"cjs", "ts"}, Begin(b, script) PROVE TypeOK' /\ UNCHANGED host
  BY <1>0, <1>a DEF Begin
<1>b. CASE Status(b)
  BY <1>0, <1>b DEF Status
<1>c. ASSUME NEW from, NEW to \in {"deploy", "deployAgain"}, RecoverFailedMigration(b, from, to)
      PROVE  TypeOK' /\ UNCHANGED host
  <2>1. CASE ledger[CliTarget][SimplifyUser] = "failed"
    <3>1. ledger[CliTarget] \in [Migrations -> Marks] /\ CliTarget \in Databases
      BY <1>0, <1>1, <1>c DEF RecoverFailedMigration, Marks
    <3>2. [ledger[CliTarget] EXCEPT ![SimplifyUser] = "pending"] \in [Migrations -> Marks]
      BY <3>1 DEF Marks
    <3>3. ledger' \in [Databases -> [Migrations -> Marks]]
      BY <1>0, <1>c, <2>1, <3>1, <3>2 DEF RecoverFailedMigration, Leaves, Marks
    <3>4. build' \in [Builds -> [script : {"cjs", "ts"}, at : States]] /\ trouble' \subseteq Builds
      <4>1. build' = [build EXCEPT ![b].at = to]
        BY <1>c, <2>1 DEF RecoverFailedMigration
      <4>2. trouble' = trouble \/ trouble' = trouble \union (Builds \ {b})
        BY <1>c, <2>1 DEF RecoverFailedMigration, Leaves
      <4>3. build[b] \in [script : {"cjs", "ts"}, at : States] /\ to \in States
        BY <1>0
      <4>4. build' \in [Builds -> [script : {"cjs", "ts"}, at : States]]
        BY <1>0, <4>1, <4>3
      <4> QED
        BY <1>0, <4>2, <4>4
    <3>5. UNCHANGED host
      BY <1>c DEF RecoverFailedMigration
    <3> QED
      BY <1>0, <3>3, <3>4, <3>5 DEF Marks, TypeOK
  <2>2. CASE ledger[CliTarget][SimplifyUser] # "failed"
    BY <1>0, <1>c, <2>2 DEF RecoverFailedMigration
  <2> QED
    BY <2>1, <2>2
<1>d. CASE DeployApplies(b)
  BY <1>0, <1>1, <1>d DEF DeployApplies, Deploying, Leaves
<1>e. CASE DeployRefuses(b)
  BY <1>0, <1>e DEF DeployRefuses, AfterFailure
<1>f. ASSUME NEW m \in Migrations,
             \/ EndsAt(b, m, StoppedAt(ledger[CliTarget], m))
             \/ EndsAt(b, m, AppliedUpTo(ledger[CliTarget], m))
      PROVE  /\ ledger' \in [Databases -> [Migrations -> Marks]]
             /\ trouble' \subseteq Builds
             /\ UNCHANGED host
  <2>1. ledger[CliTarget] \in [Migrations -> Marks]
    BY <1>0, <1>1, <1>f DEF EndsAt, Deploying, Marks
  <2>2. /\ StoppedAt(ledger[CliTarget], m) \in [Migrations -> Marks]
        /\ AppliedUpTo(ledger[CliTarget], m) \in [Migrations -> Marks]
    BY <2>1 DEF StoppedAt, AppliedUpTo, Marks
  <2> QED
    BY <1>0, <1>1, <1>f, <2>2 DEF EndsAt, Deploying, Marks
<1>g. ASSUME NEW m \in Migrations, MigrationFails(b, m) PROVE TypeOK' /\ UNCHANGED host
  BY <1>0, <1>f, <1>g DEF MigrationFails, StopsAt, AfterFailure, Marks
<1>h. ASSUME NEW m \in Migrations, KilledApplying(b, m) PROVE TypeOK' /\ UNCHANGED host
  BY <1>0, <1>f, <1>h DEF KilledApplying, StopsAt, Marks
<1>k. ASSUME NEW m \in Migrations, CutAfter(b, m) PROVE TypeOK' /\ UNCHANGED host
  <2>1. PICK to \in {"recover", "failed", "idle"} : Goes(b, to)
    BY <1>k DEF CutAfter, AfterFailure
  <2>2. EndsAt(b, m, AppliedUpTo(ledger[CliTarget], m))
    BY <1>k DEF CutAfter
  <2> QED
    BY <1>0, <1>f, <2>1, <2>2 DEF Marks
<1>i. CASE CommandFails(b)
  BY <1>0, <1>i DEF CommandFails
<1>j. CASE Killed(b)
  BY <1>0, <1>j DEF Killed
<1> QED
  BY <1>a, <1>b, <1>c, <1>d, <1>e, <1>g, <1>h, <1>i, <1>j, <1>k

-----------------------------------------------------------------------------
(* What a step does to the ledger and to the builds it is not of.             *)

\* What is applied stays applied, and what stopped half-way stays so, but for one.
Progress(l, k) ==
  \A m \in Migrations :
    k[m] = l[m] \/ l[m] = "pending" \/ (m = SimplifyUser /\ l[m] = "failed")

\* The steps of build b that touch the ledger, together.
LEMMA LedgerStep ==
  ASSUME IInv, NEW b \in Builds,
         \/ RecoverFailedMigration(b, "recoverFirst", "deploy")
         \/ RecoverFailedMigration(b, "recover", "deployAgain")
         \/ DeployApplies(b)
         \/ \E m \in Migrations : MigrationFails(b, m) \/ KilledApplying(b, m) \/ CutAfter(b, m)
  PROVE  /\ \A d \in Databases : Progress(ledger[d], ledger'[d])
         /\ \A c \in Builds \ {b} : build'[c] = build[c]
         /\ \A c \in (Builds \ {b}) \ trouble' : c \notin trouble /\ ledger' = ledger
<1>0. TypeOK
  BY DEF IInv
<1>1. Reachable => CliTarget \in Databases
  BY <1>0, TargetType DEF Reachable
<1>2. ASSUME NEW from, NEW to, RecoverFailedMigration(b, from, to)
      PROVE  /\ \A d \in Databases : Progress(ledger[d], ledger'[d])
             /\ \A c \in Builds \ {b} : build'[c] = build[c]
             /\ \A c \in (Builds \ {b}) \ trouble' : c \notin trouble /\ ledger' = ledger
  BY <1>0, <1>1, <1>2 DEF RecoverFailedMigration, Leaves, Goes, Progress, TypeOK
<1>3. CASE DeployApplies(b)
  <2>1. \A m \in Migrations : ledger[CliTarget][m] \in {"pending", "applied"}
    BY <1>0, <1>1, <1>3 DEF DeployApplies, Deploying, Failed, Marked, TypeOK
  <2> QED
    BY <1>0, <1>1, <1>3, <2>1 DEF DeployApplies, Deploying, Leaves, Goes, Progress, TypeOK
<1>4. ASSUME NEW m \in Migrations,
             \/ EndsAt(b, m, StoppedAt(ledger[CliTarget], m))
             \/ EndsAt(b, m, AppliedUpTo(ledger[CliTarget], m))
      PROVE  /\ \A d \in Databases : Progress(ledger[d], ledger'[d])
             /\ trouble' = Builds
  <2>1. /\ Progress(ledger[CliTarget], StoppedAt(ledger[CliTarget], m))
        /\ Progress(ledger[CliTarget], AppliedUpTo(ledger[CliTarget], m))
    BY <1>0, <1>1, <1>4 DEF EndsAt, Deploying, StoppedAt, AppliedUpTo, StartedUpTo, Marked,
       Progress, TypeOK
  <2> QED
    BY <1>0, <1>1, <1>4, <2>1 DEF EndsAt, Deploying, Progress, TypeOK
<1>5. ASSUME NEW m \in Migrations,
             MigrationFails(b, m) \/ KilledApplying(b, m) \/ CutAfter(b, m)
      PROVE  /\ \A d \in Databases : Progress(ledger[d], ledger'[d])
             /\ \A c \in Builds \ {b} : build'[c] = build[c]
             /\ \A c \in (Builds \ {b}) \ trouble' : c \notin trouble /\ ledger' = ledger
  BY <1>0, <1>4, <1>5 DEF MigrationFails, KilledApplying, CutAfter, StopsAt, Goes, TypeOK
<1> QED
  BY <1>2, <1>3, <1>5

\* The steps of build b that leave the ledger alone.
LEMMA QuietStep ==
  ASSUME IInv, NEW b \in Builds,
         \/ \E script \in {"cjs", "ts"} : Begin(b, script)
         \/ Status(b) \/ DeployRefuses(b) \/ CommandFails(b) \/ Killed(b)
  PROVE  /\ \A d \in Databases : Progress(ledger[d], ledger'[d])
         /\ \A c \in Builds \ {b} : build'[c] = build[c]
         /\ \A c \in (Builds \ {b}) \ trouble' : c \notin trouble /\ ledger' = ledger
BY DEF IInv, TypeOK, Begin, Status, DeployRefuses, CommandFails, Killed, Goes, Progress

\* A build that did not take the step is where it was, with the same guarantees.
LEMMA OthersKept ==
  ASSUME IInv, UNCHANGED host, NEW c \in Builds, build'[c] = build[c],
         \A d \in Databases : Progress(ledger[d], ledger'[d]),
         c \notin trouble' => c \notin trouble /\ ledger' = ledger
  PROVE  GateAt(c)' /\ DoneAt(c)' /\ CauseAt(c)'
<1>1. CliTarget' = CliTarget /\ Reachable' = Reachable
  BY TargetKept
<1>2. GateAt(c)'
  <2>1. HasDatabaseConfig(host.env.vars)' = HasDatabaseConfig(host.env.vars)
    BY DEF HasDatabaseConfig
  <2> QED
    BY <2>1 DEF IInv, GateAt
<1>3. DoneAt(c)'
  <2>1. ASSUME build[c].at = "done" PROVE UpToDate(ledger[CliTarget])'
    <3>1. Reachable /\ UpToDate(ledger[CliTarget]) /\ CliTarget \in Databases
      BY <2>1, TargetType DEF IInv, DoneAt, Reachable
    <3> QED
      BY <1>1, <3>1 DEF Progress, UpToDate
  <2> QED
    BY <1>1, <2>1 DEF IInv, DoneAt
<1>4. CauseAt(c)'
  <2>1. ASSUME c \notin trouble' PROVE Failed' = Failed /\ ledger'[CliTarget'] = ledger[CliTarget]
    BY <1>1, <2>1 DEF Failed, Marked
  <2> QED
    BY <1>1, <2>1 DEF IInv, CauseAt
<1> QED
  BY <1>2, <1>3, <1>4

-----------------------------------------------------------------------------
(* What a step does to the build that takes it.                               *)

\* A step that leaves the ledger alone leaves what a build knows of it.
LEMMA SameLedger ==
  ASSUME UNCHANGED <<host, ledger>>
  PROVE  /\ CliTarget' = CliTarget /\ Reachable' = Reachable /\ Failed' = Failed
         /\ ledger'[CliTarget'] = ledger[CliTarget]
         /\ UpToDate(ledger[CliTarget])' = UpToDate(ledger[CliTarget])
         /\ HasDatabaseConfig(host.env.vars)' = HasDatabaseConfig(host.env.vars)
BY TargetKept DEF Failed, Marked, UpToDate, HasDatabaseConfig

\* A build behind the gate that goes on behind it.
LEMMA GateKept ==
  ASSUME IInv, UNCHANGED host, NEW b \in Builds, build[b].at \in Running,
         NEW to \in States \ {"refused"}, Goes(b, to)
  PROVE  GateAt(b)' /\ build'[b].at = to
<1>1. build'[b].script = build[b].script /\ build'[b].at = to
  BY DEF IInv, TypeOK, Goes
<1>2. HasDatabaseConfig(host.env.vars)' = HasDatabaseConfig(host.env.vars)
  BY DEF HasDatabaseConfig
<1> QED
  BY <1>1, <1>2 DEF IInv, GateAt

LEMMA BeginOwn ==
  ASSUME IInv, NEW b \in Builds, NEW script \in {"cjs", "ts"}, Begin(b, script)
  PROVE  GateAt(b)' /\ DoneAt(b)' /\ CauseAt(b)'
<1>1. /\ build'[b].script = script
      /\ build'[b].at = IF Gate(script) THEN "status" ELSE "refused"
  BY DEF IInv, TypeOK, Begin
<1>2. UNCHANGED <<host, ledger>>
  BY DEF Begin
<1>3. GateAt(b)'
  <2>0. host.env.schemaOnly \in BOOLEAN
    BY HostsAssumption DEF IInv, TypeOK, Environments
  <2>1. CASE script = "cjs" /\ Gate("cjs")
    BY <1>1, <1>2, <2>0, <2>1, SameLedger DEF GateAt, Gate
  <2>2. CASE script = "cjs" /\ ~Gate("cjs")
    BY <1>1, <1>2, <2>0, <2>2, SameLedger DEF GateAt, Gate, Running
  <2>3. CASE script # "cjs"
    BY <1>1, <2>3 DEF GateAt
  <2> QED
    BY <2>1, <2>2, <2>3
<1>4. DoneAt(b)'
  BY <1>1 DEF DoneAt
<1>5. CauseAt(b)'
  <2>1. ASSUME b \notin trouble' PROVE Reachable /\ Failed \subseteq {SimplifyUser}
    BY <2>1 DEF Begin, Failed
  <2> QED
    BY <1>1, <1>2, <2>1, SameLedger DEF CauseAt, Running
<1> QED
  BY <1>3, <1>4, <1>5

LEMMA StatusOwn ==
  ASSUME IInv, NEW b \in Builds, Status(b)
  PROVE  GateAt(b)' /\ DoneAt(b)' /\ CauseAt(b)'
<1>1. UNCHANGED <<host, ledger>> /\ trouble' = trouble
  BY DEF Status
<1>2. PICK to \in {"deploy", "recoverFirst"} :
        /\ Goes(b, to)
        /\ to = "recoverFirst" => MigrationLooksFailedInStatus(ledger[CliTarget])
  BY DEF Status
<1>3. GateAt(b)' /\ build'[b].at = to
  BY <1>1, <1>2, GateKept DEF Status, Running, States
<1>4. DoneAt(b)'
  BY <1>2, <1>3 DEF DoneAt
<1>5. CauseAt(b)'
  <2>1. ASSUME b \notin trouble
        PROVE  /\ Reachable /\ Failed \subseteq {SimplifyUser}
               /\ to = "recoverFirst" => ledger[CliTarget][SimplifyUser] = "failed"
    <3>1. Reachable /\ Failed \subseteq {SimplifyUser}
      BY <2>1 DEF IInv, CauseAt, Status, Running
    <3> QED
      BY <1>2, <3>1 DEF MigrationLooksFailedInStatus, Failed, Marked
  <2> QED
    BY <1>1, <1>2, <1>3, <2>1, SameLedger DEF CauseAt, Running
<1> QED
  BY <1>3, <1>4, <1>5

LEMMA RecoverOwn ==
  ASSUME IInv, NEW b \in Builds,
         NEW from \in {"recoverFirst", "recover"}, NEW to \in {"deploy", "deployAgain"},
         RecoverFailedMigration(b, from, to)
  PROVE  GateAt(b)' /\ DoneAt(b)' /\ CauseAt(b)'
<1>1. UNCHANGED host /\ build[b].at = from /\ Reachable
  BY DEF RecoverFailedMigration
<1>2. PICK next \in {to, "failed"} :
        Goes(b, next) /\ (ledger[CliTarget][SimplifyUser] = "failed" => next = to)
  BY DEF RecoverFailedMigration
<1>3. GateAt(b)' /\ build'[b].at = next
  BY <1>1, <1>2, GateKept DEF Running, States
<1>4. DoneAt(b)'
  BY <1>2, <1>3 DEF DoneAt
<1>5. CauseAt(b)'
  <2>1. ASSUME b \notin trouble' PROVE Reachable' /\ Failed' = {} /\ next = to
    <3>1. b \notin trouble
      BY <2>1 DEF RecoverFailedMigration, Leaves
    <3>2. ledger[CliTarget][SimplifyUser] = "failed" /\ Failed \subseteq {SimplifyUser}
      BY <1>1, <3>1 DEF IInv, CauseAt, Running
    <3>3. CliTarget \in Databases
      BY <1>1, TargetType DEF IInv, Reachable
    <3>4. ledger'[CliTarget] = [ledger[CliTarget] EXCEPT ![SimplifyUser] = "pending"]
      BY <3>2, <3>3 DEF RecoverFailedMigration, Leaves, IInv, TypeOK
    <3>5. \A m \in Migrations : ledger'[CliTarget][m] # "failed"
      BY <3>2, <3>3, <3>4 DEF Failed, Marked, IInv, TypeOK
    <3> QED
      BY <1>1, <1>2, <3>2, <3>5, TargetKept DEF Failed, Marked
  <2> QED
    BY <1>2, <1>3, <2>1 DEF CauseAt
<1> QED
  BY <1>3, <1>4, <1>5

LEMMA DeployOwn ==
  ASSUME IInv, NEW b \in Builds,
         \/ DeployApplies(b) \/ DeployRefuses(b)
         \/ \E m \in Migrations : MigrationFails(b, m) \/ KilledApplying(b, m) \/ CutAfter(b, m)
  PROVE  GateAt(b)' /\ DoneAt(b)' /\ CauseAt(b)'
<1>1. UNCHANGED host /\ build[b].at \in {"deploy", "deployAgain"} /\ Reachable
  BY DEF DeployApplies, DeployRefuses, MigrationFails, KilledApplying, CutAfter, StopsAt,
     EndsAt, Deploying
<1>2. CliTarget \in Databases
  BY <1>1, TargetType DEF IInv, Reachable
<1>3. CASE DeployApplies(b)
  <2>1. GateAt(b)' /\ build'[b].at = "done"
    BY <1>1, <1>3, GateKept DEF DeployApplies, Running, States
  <2>2. ledger'[CliTarget] = [m \in Migrations |-> "applied"]
    BY <1>2, <1>3 DEF DeployApplies, Leaves, IInv, TypeOK
  <2> QED
    BY <1>1, <2>1, <2>2, TargetKept DEF DoneAt, UpToDate, CauseAt, Running
<1>4. CASE DeployRefuses(b)
  <2>1. UNCHANGED <<host, ledger>> /\ trouble' = trouble /\ Failed # {}
    BY <1>4 DEF DeployRefuses
  <2>2. PICK to \in {"recover", "failed"} :
          /\ Goes(b, to)
          /\ build[b].at = "deploy" /\ SimplifyUser \in Failed => to = "recover"
    BY <1>4 DEF DeployRefuses, AfterFailure, IsRecoverableDeployFailure, Output
  <2>3. GateAt(b)' /\ build'[b].at = to
    BY <1>1, <2>1, <2>2, GateKept DEF Running, States
  <2>4. ASSUME b \notin trouble
        PROVE  /\ to = "recover" /\ Failed \subseteq {SimplifyUser}
               /\ ledger[CliTarget][SimplifyUser] = "failed"
    <3>1. Failed \subseteq {SimplifyUser} /\ (build[b].at = "deployAgain" => Failed = {})
      BY <1>1, <2>4 DEF IInv, CauseAt, Running
    <3> QED
      BY <1>1, <2>1, <2>2, <3>1 DEF Failed, Marked
  <2>5. DoneAt(b)'
    BY <2>2, <2>3 DEF DoneAt
  <2>6. CauseAt(b)'
    BY <1>1, <2>1, <2>3, <2>4, SameLedger DEF CauseAt
  <2> QED
    BY <2>3, <2>5, <2>6
<1>5. ASSUME NEW m \in Migrations,
             MigrationFails(b, m) \/ KilledApplying(b, m) \/ CutAfter(b, m)
      PROVE  GateAt(b)' /\ DoneAt(b)' /\ CauseAt(b)'
  <2>1. PICK to \in {"recover", "failed", "idle"} : Goes(b, to)
    BY <1>5 DEF MigrationFails, KilledApplying, CutAfter, AfterFailure
  <2>2. GateAt(b)' /\ build'[b].at = to
    BY <1>1, <2>1, GateKept DEF Running, States
  <2>3. b \in trouble'
    BY <1>5 DEF MigrationFails, KilledApplying, CutAfter, StopsAt, EndsAt
  <2> QED
    BY <2>1, <2>2, <2>3 DEF DoneAt, CauseAt
<1> QED
  BY <1>3, <1>4, <1>5

LEMMA BreakOwn ==
  ASSUME IInv, NEW b \in Builds, CommandFails(b) \/ Killed(b)
  PROVE  GateAt(b)' /\ DoneAt(b)' /\ CauseAt(b)'
<1>1. build[b].at \in Running /\ UNCHANGED <<host, ledger>>
  BY DEF CommandFails, Killed
<1>2. PICK to \in {"deploy", "failed", "idle"} : Goes(b, to) /\ (to # "idle" => b \in trouble')
  BY DEF CommandFails, Killed
<1>3. GateAt(b)' /\ build'[b].at = to
  BY <1>1, <1>2, GateKept DEF States
<1> QED
  BY <1>2, <1>3 DEF DoneAt, CauseAt, Running

LEMMA NextInv == ASSUME IInv, [Next]_vars PROVE IInv'
<1>1. CASE UNCHANGED vars
  <2>1. UNCHANGED <<host, ledger, build, trouble>>
    BY <1>1 DEF vars
  <2>2. TypeOK'
    BY <2>1 DEF IInv, TypeOK
  <2>3. ASSUME NEW c \in Builds PROVE GateAt(c)' /\ DoneAt(c)' /\ CauseAt(c)'
    BY <2>1, <2>3, OthersKept DEF Progress
  <2> QED
    BY <2>2, <2>3 DEF IInv
<1>2. CASE Next
  <2>1. TypeOK' /\ UNCHANGED host
    BY <1>2, StepType
  <2>2. PICK b \in Builds :
          \/ \E script \in {"cjs", "ts"} : Begin(b, script)
          \/ Status(b)
          \/ RecoverFailedMigration(b, "recoverFirst", "deploy")
          \/ RecoverFailedMigration(b, "recover", "deployAgain")
          \/ DeployApplies(b) \/ DeployRefuses(b)
          \/ \E m \in Migrations : MigrationFails(b, m) \/ KilledApplying(b, m) \/ CutAfter(b, m)
          \/ CommandFails(b) \/ Killed(b)
    BY <1>2 DEF Next
  <2>3. /\ \A d \in Databases : Progress(ledger[d], ledger'[d])
        /\ \A c \in Builds \ {b} : build'[c] = build[c]
        /\ \A c \in (Builds \ {b}) \ trouble' : c \notin trouble /\ ledger' = ledger
    BY <2>2, LedgerStep, QuietStep
  <2>4. ASSUME NEW c \in Builds \ {b} PROVE GateAt(c)' /\ DoneAt(c)' /\ CauseAt(c)'
    BY <2>1, <2>3, <2>4, OthersKept
  <2>5. GateAt(b)' /\ DoneAt(b)' /\ CauseAt(b)'
    BY <2>2, BeginOwn, StatusOwn, RecoverOwn, DeployOwn, BreakOwn
  <2> QED
    BY <2>1, <2>4, <2>5 DEF IInv
<1> QED
  BY <1>1, <1>2

THEOREM Invariant == Spec => []IInv
<1>1. Init => IInv
  BY InitInv
<1>2. IInv /\ [Next]_vars => IInv'
  BY NextInv
<1> QED
  BY <1>1, <1>2, PTL DEF Spec

-----------------------------------------------------------------------------
(* Theorems *)

\* The state keeps its types: the ledgers, where each build stands, the troubled builds.
THEOREM TypeCorrect == Spec => []TypeOK
<1>1. IInv => TypeOK
  BY DEF IInv
<1> QED
  BY <1>1, Invariant, PTL

\* The gate of the build and the rule of the server, "the same rules" by the comment
\* (migrate-deploy.cjs:75), part in exactly two cases. A DATABASE_DIRECT_URL left blank
\* hides DIRECT_URL from the server alone, which then has no URL behind a gate that was
\* open; and the gate turns away parts with an empty password, or a user or a name of
\* spaces, which the server takes.
THEOREM RulesPart ==
  ASSUME NEW vs \in [Variables -> Values]
  PROVE  /\ HasDatabaseConfig(vs) /\ ~ServerFinds(vs) <=>
              HidesDirectUrl(vs) /\ FromParts(vs) /\ ~PartsGiven(vs)
         /\ ServerFinds(vs) /\ ~HasDatabaseConfig(vs) <=>
              OddParts(vs) /\ FromParts(vs) /\ PartsGiven(vs) /\ ~HidesDirectUrl(vs)
<1> DEFINE direct == IF Filled(vs["DATABASE_DIRECT_URL"]) THEN vs["DATABASE_DIRECT_URL"]
                     ELSE vs["DIRECT_URL"]
           parts == /\ Filled(vs["DATABASE_USER"]) /\ Given(vs["DATABASE_PASSWORD"])
                    /\ Filled(vs["DATABASE_NAME"])
<1>1. IsDirectMysqlFamilyUrl(direct) <=>
        IsDirectMysqlFamilyUrl(DirectUrl(vs)) \/ HidesDirectUrl(vs)
  BY DEF Filled, DirectUrl, IsDirectMysqlFamilyUrl, Blank, HidesDirectUrl
<1>2. parts <=> PartsGiven(vs) /\ ~OddParts(vs)
  BY DEF PartsGiven, Filled, Given, OddParts
<1>3. HasDatabaseConfig(vs) <=>
        IsDirectMysqlFamilyUrl(direct) \/ IsDirectMysqlFamilyUrl(vs["DATABASE_URL"]) \/ parts
  BY DEF HasDatabaseConfig
<1> QED
  BY <1>1, <1>2, <1>3 DEF ServerFinds, FromParts

\* A build that says it succeeded has migrated the database Prisma opened: for a production
\* build without override files, the one the server opens.
THEOREM SuccessMeansMigrated == Spec => []ServedIsMigrated
<1>1. IInv => ServedIsMigrated
  <2> SUFFICES ASSUME IInv, NEW b \in Builds, build[b].at = "done"
               PROVE  /\ CliTarget \in Databases /\ UpToDate(ledger[CliTarget])
                      /\ build[b].script = "cjs" /\ CliVars = host.env.vars
                           /\ ~host.overrides.schemaOnly => ServerTarget = CliTarget
    BY DEF ServedIsMigrated
  <2>1. Reachable /\ UpToDate(ledger[CliTarget])
    BY DEF IInv, DoneAt
  <2>2. CliTarget \in Databases
    BY <2>1, TargetType DEF IInv, Reachable
  <2>3. ASSUME build[b].script = "cjs", CliVars = host.env.vars, ~host.overrides.schemaOnly
        PROVE  ServerTarget = CliTarget
    <3>1. host.env.schemaOnly \in BOOLEAN /\ host.env.schemaOnly # TRUE
      BY <2>3, HostsAssumption DEF IInv, TypeOK, GateAt, Environments
    <3> QED
      BY <2>3, <3>1 DEF CliTarget, ServerTarget
  <2> QED
    BY <2>1, <2>2, <2>3
<1> QED
  BY <1>1, Invariant, PTL

\* Whatever fails, a failed simplify_user alone never stops an undisturbed build, and the
\* gate stops and lets past what the two rules' two differences leave it.
THEOREM OnlyCausesStop == Spec => []StopsForCause
<1>1. IInv => StopsForCause
  <2> DEFINE vs == host.env.vars
  <2> SUFFICES ASSUME IInv, NEW b \in Builds
               PROVE  /\ build[b].at = "failed" => b \in trouble
                      /\ build[b].script = "cjs" =>
                           /\ build[b].at = "refused" =>
                                host.env.schemaOnly \/ ~ServerFinds(vs) \/ OddParts(vs)
                           /\ build[b].at \in Running \union {"done"} =>
                                ServerFinds(vs) \/ HidesDirectUrl(vs)
    BY DEF StopsForCause
  <2>1. build[b].at = "failed" => b \in trouble
    BY DEF IInv, CauseAt
  <2>2. vs \in [Variables -> Values]
    BY HostsAssumption DEF IInv, TypeOK, Environments
  <2>3. /\ ~HasDatabaseConfig(vs) => ~ServerFinds(vs) \/ OddParts(vs)
        /\ HasDatabaseConfig(vs) => ServerFinds(vs) \/ HidesDirectUrl(vs)
    BY <2>2, RulesPart
  <2>4. GateAt(b)
    BY DEF IInv
  <2> QED
    BY <2>1, <2>3, <2>4 DEF GateAt
<1> QED
  BY <1>1, Invariant, PTL

\* No step of any build starts a half-way migration again but the one named, nor any
\* that is applied.
THEOREM HalfWayStays == Spec => OnlyNamedResumed
<1>1. IInv /\ [Next]_vars =>
        \A d \in Databases, m \in Migrations :
          ledger'[d][m] = ledger[d][m] \/ ledger[d][m] = "pending"
            \/ (m = SimplifyUser /\ ledger[d][m] = "failed")
  <2> SUFFICES ASSUME IInv, [Next]_vars
               PROVE  \A d \in Databases : Progress(ledger[d], ledger'[d])
    BY DEF Progress
  <2>1. CASE UNCHANGED vars
    BY <2>1 DEF vars, Progress
  <2>2. CASE Next
    BY <2>2, LedgerStep, QuietStep DEF Next
  <2> QED
    BY <2>1, <2>2
<1> QED
  BY <1>1, Invariant, PTL DEF Spec, OnlyNamedResumed
=============================================================================
