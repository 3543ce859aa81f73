------------------------------- MODULE Deploy -------------------------------
(* The migration step of a build: scripts/migrate-deploy.cjs, and its copy    *)
(* migrate-deploy.ts, run `prisma migrate status`, `deploy` and, for the one  *)
(* migration known to fail, `resolve --rolled-back`. Several builds may run   *)
(* against one database; any may be killed between two commands or within one.*)
(* Prisma is outside the repository: a command excludes the others for as     *)
(* long as it runs, applies the pending migrations in their order, leaves the *)
(* one it could not finish marked as failed and refuses to go past that.      *)
EXTENDS DatabaseUrl, Integers

CONSTANTS
  Builds,        \* the builds
  Last,          \* migrations are numbered in the order of their names
  SimplifyUser,  \* RECOVERABLE_MIGRATION
  Placeholder,   \* what the datasource is with PRISMA_BUILD_SCHEMA_ONLY
  Hosts          \* the environments and override files to start from

Migrations == 1 .. Last

ASSUME MigrationsAssumption ==
  /\ Last \in Nat
  /\ SimplifyUser \in Migrations
  /\ Placeholder \in Databases

ASSUME HostsAssumption ==
  Hosts \subseteq [env : Environments, overrides : Environments]

VARIABLES
  host,    \* env: the process and .env; overrides: .env.production and .env.local
  ledger,  \* of each database, _prisma_migrations
  build,   \* of each build, which script it runs and where it is
  trouble  \* the builds that met what no run of the script could get past

vars == <<host, ledger, build, trouble>>

States == {"idle", "status", "recoverFirst", "deploy", "recover", "deployAgain",
           "done", "failed", "refused"}
Running == {"status", "recoverFirst", "deploy", "recover", "deployAgain"}

TypeOK ==
  /\ host \in Hosts
  /\ ledger \in [Databases -> [Migrations -> {"pending", "failed", "applied"}]]
  /\ build \in [Builds -> [script : {"cjs", "ts"}, at : States]]
  /\ trouble \subseteq Builds

Init ==
  /\ host \in Hosts
  /\ ledger = [d \in Databases |-> [m \in Migrations |-> "pending"]]
  /\ build = [b \in Builds |-> [script |-> "cjs", at |-> "idle"]]
  /\ trouble = {}

-----------------------------------------------------------------------------
(* What Prisma does *)

\* prisma.config.ts loads the two files over the environment it is given.
CliVars ==
  [v \in Variables |-> IF host.overrides.vars[v].kind = "undefined" THEN host.env.vars[v]
                       ELSE host.overrides.vars[v]]

CliTarget ==
  IF host.env.schemaOnly \/ host.overrides.schemaOnly THEN Placeholder
  ELSE GetDatabaseUrl(CliVars)

\* The server's pool has its URL from the environment without the two files.
ServerTarget == GetDatabaseUrl(host.env.vars)

Marked(l, mark) == {m \in Migrations : l[m] = mark}

UpToDate(l) == \A m \in Migrations : l[m] = "applied"

\* The migrations that a deploy which stops at m has started.
StartedUpTo(l, m) == {k \in Marked(l, "pending") : k <= m}

AppliedUpTo(l, m) ==
  [k \in Migrations |-> IF k \in StartedUpTo(l, m) THEN "applied" ELSE l[k]]

StoppedAt(l, m) == [AppliedUpTo(l, m) EXCEPT ![m] = "failed"]

\* The words of a command's output that the script looks for, and the names in it.
Output(words, names) == [words |-> words, names |-> names]

-----------------------------------------------------------------------------
(* What the script makes of it *)

\* Mutant: only what failed under this very deploy is recovered.
RecoverableNow(output) == output.words = "failed to apply"

IsRecoverableDeployFailure(output) ==
  \/ SimplifyUser \in output.names
  \/ output.words \in {"failed migration", "failed to apply"}

\* The status names what has failed and what is pending.
MigrationLooksFailedInStatus(l) ==
  /\ Marked(l, "failed") # {}
  /\ SimplifyUser \in Marked(l, "failed") \union Marked(l, "pending")

\* The copy for development asks for one variable only.
DevGate == Filled(host.env.vars["DATABASE_URL"])

Gate(script) ==
  IF script = "cjs" THEN ~host.env.schemaOnly /\ HasDatabaseConfig(host.env.vars)
  ELSE DevGate

Goes(b, to) == build' = [build EXCEPT ![b].at = to]

\* Build b leaves the ledger as l: a change is trouble for the other builds.
Leaves(b, l) ==
  /\ ledger' = [ledger EXCEPT ![CliTarget] = l]
  /\ trouble' = IF l = ledger[CliTarget] THEN trouble ELSE trouble \union (Builds \ {b})

Reachable == CliTarget # NoDatabase

-----------------------------------------------------------------------------

\* main's gate.
Begin(b, script) ==
  /\ build[b].at \notin Running
  /\ build' = [build EXCEPT ![b] =
                 [script |-> script, at |-> IF Gate(script) THEN "status" ELSE "refused"]]
  /\ trouble' = IF Reachable /\ Marked(ledger[CliTarget], "failed") \subseteq {SimplifyUser}
                THEN trouble \ {b} ELSE trouble \union {b}
  /\ UNCHANGED <<host, ledger>>

\* A status that finds something amiss exits non-zero or, in older versions, zero.
Status(b) ==
  /\ build[b].at = "status"
  /\ \/ Goes(b, "deploy")
     \/ /\ Reachable /\ MigrationLooksFailedInStatus(ledger[CliTarget])
        /\ Goes(b, "recoverFirst")
  /\ UNCHANGED <<host, ledger, trouble>>

\* Mutant: whatever failed is marked as rolled back.
RecoverWhatFailed(b, from, to) ==
  /\ build[b].at = from /\ Reachable
  /\ Goes(b, to)
  /\ Leaves(b, [m \in Migrations |-> IF ledger[CliTarget][m] = "failed" THEN "pending"
                                     ELSE ledger[CliTarget][m]])
  /\ UNCHANGED host

\* `resolve --rolled-back` of the one migration, which Prisma refuses unless that failed.
RecoverFailedMigration(b, from, to) ==
  /\ build[b].at = from /\ Reachable
  /\ IF ledger[CliTarget][SimplifyUser] = "failed"
     THEN Goes(b, to) /\ Leaves(b, [ledger[CliTarget] EXCEPT ![SimplifyUser] = "pending"])
     ELSE Goes(b, "failed") /\ UNCHANGED <<ledger, trouble>>
  /\ UNCHANGED host

\* Mutant: the second deploy is tried like the first one, and not looked at.
FailureIgnored(at, output) ==
  IF at = "deployAgain" THEN "done"
  ELSE IF IsRecoverableDeployFailure(output) THEN "recover" ELSE "failed"

\* The first deploy reads the output of its failure; the second one throws.
AfterFailure(at, output) ==
  IF at = "deploy" /\ IsRecoverableDeployFailure(output) THEN "recover" ELSE "failed"

Deploying(b) == build[b].at \in {"deploy", "deployAgain"} /\ Reachable

Failed == Marked(ledger[CliTarget], "failed")

DeployApplies(b) ==
  /\ Deploying(b) /\ Failed = {}
  /\ Goes(b, "done")
  /\ Leaves(b, [m \in Migrations |-> "applied"])
  /\ UNCHANGED host

DeployRefuses(b) ==
  /\ Deploying(b) /\ Failed # {}
  /\ Goes(b, AfterFailure(build[b].at, Output("failed migration", Failed)))
  /\ UNCHANGED <<host, ledger, trouble>>

\* A deploy that comes as far as migration m and leaves the ledger as l.
EndsAt(b, m, l) ==
  /\ Deploying(b) /\ Failed = {} /\ ledger[CliTarget][m] = "pending"
  /\ ledger' = [ledger EXCEPT ![CliTarget] = l]
  /\ trouble' = Builds
  /\ UNCHANGED host

\* Migration m stops half-way: MySQL's DDL does not roll back.
StopsAt(b, m) == EndsAt(b, m, StoppedAt(ledger[CliTarget], m))

MigrationFails(b, m) ==
  /\ StopsAt(b, m)
  /\ Goes(b, AfterFailure(build[b].at,
                          Output("failed to apply", StartedUpTo(ledger[CliTarget], m))))

\* The build is killed between two commands, or in the middle of migration m.
Killed(b) ==
  /\ build[b].at \in Running
  /\ Goes(b, "idle")
  /\ UNCHANGED <<host, ledger, trouble>>

KilledApplying(b, m) == StopsAt(b, m) /\ Goes(b, "idle")

\* The deploy ends right after migration m: the connection is lost, which its words do not
\* tell but for the names of what it applied, or the build is killed.
CutAfter(b, m) ==
  /\ EndsAt(b, m, AppliedUpTo(ledger[CliTarget], m))
  /\ \/ Goes(b, AfterFailure(build[b].at,
                             Output("no connection", StartedUpTo(ledger[CliTarget], m))))
     \/ Goes(b, "idle")

\* No URL, no server, no lock within Prisma's patience: not words the script knows.
CommandFails(b) ==
  /\ build[b].at \in Running
  /\ Goes(b, IF build[b].at = "status" THEN "deploy" ELSE "failed")
  /\ trouble' = trouble \union {b}
  /\ UNCHANGED <<host, ledger>>

Next == \E b \in Builds :
  \/ \E script \in {"cjs", "ts"} : Begin(b, script)
  \/ Status(b)
  \/ RecoverFailedMigration(b, "recoverFirst", "deploy")
  \/ RecoverFailedMigration(b, "recover", "deployAgain")
  \/ DeployApplies(b) \/ DeployRefuses(b)
  \/ \E m \in Migrations : MigrationFails(b, m) \/ KilledApplying(b, m) \/ CutAfter(b, m)
  \/ CommandFails(b) \/ Killed(b)

Spec == Init /\ [][Next]_vars

-----------------------------------------------------------------------------
(* Properties *)

\* A build that ends with success, whatever failed or was cut short before, leaves every
\* migration applied in the database that Prisma opened. For a production build that is
\* the one the server will open, unless an override file points Prisma elsewhere
\* (migrate-deploy.cjs:110-123, prisma.config.ts:5-7).
ServedIsMigrated ==
  \A b \in Builds : build[b].at = "done" =>
    /\ CliTarget \in Databases /\ UpToDate(ledger[CliTarget])
    /\ build[b].script = "cjs" /\ CliVars = host.env.vars /\ ~host.overrides.schemaOnly
         => ServerTarget = CliTarget

\* A migration that stopped half-way is not started again by any build, and an applied one
\* not either, the one excepted that is written to be run twice: recovering marks a fixed
\* name, whichever migration the failure was of (migrate-deploy.cjs:64-69, 121).
OnlyNamedResumed ==
  [][\A d \in Databases, m \in Migrations :
       ledger'[d][m] = ledger[d][m] \/ ledger[d][m] = "pending"
         \/ (m = SimplifyUser /\ ledger[d][m] = "failed")]_vars

\* A production build stops for a cause only: a command or a migration that failed under
\* it, another build's change, a failure of another migration or no URL. A failed
\* simplify_user alone, whatever left it, is put right. Its gate turns away only the
\* placeholder's environment, one in which the server finds no URL either, and parts that
\* the server would take; and it lets nothing past that the server could not start with,
\* but for a DIRECT_URL hidden from the server (migrate-deploy.cjs:75-92).
StopsForCause ==
  \A b \in Builds :
    /\ build[b].at = "failed" => b \in trouble
    /\ build[b].script = "cjs" =>
         /\ build[b].at = "refused" =>
              host.env.schemaOnly \/ ~ServerFinds(host.env.vars) \/ OddParts(host.env.vars)
         /\ build[b].at \in Running \union {"done"} =>
              ServerFinds(host.env.vars) \/ HidesDirectUrl(host.env.vars)
=============================================================================
