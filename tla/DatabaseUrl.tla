----------------------------- MODULE DatabaseUrl -----------------------------
(* Which database an environment names: getDatabaseUrl of database-url.ts, by *)
(* which the server and Prisma's configuration find theirs, and the gate of   *)
(* migrate-deploy.cjs, which repeats its rules. A variable is what the rules  *)
(* tell apart: its kind, and the database that its text leads to.             *)
EXTENDS FiniteSets

CONSTANTS Databases, NoDatabase

ASSUME NoDatabaseAssumption == NoDatabase \notin Databases

Variables == {"DATABASE_DIRECT_URL", "DIRECT_URL", "DATABASE_URL",
              "DATABASE_USER", "DATABASE_PASSWORD", "DATABASE_NAME"}

Values == [kind : {"undefined", "empty", "spaces", "text", "mysql", "mariadb", "accelerate"},
           at : Databases \union {NoDatabase}]

Environments == [vars : [Variables -> Values], schemaOnly : BOOLEAN]

\* JavaScript's truth of a string, after trim() and before it.
Filled(v) == v.kind \notin {"undefined", "empty", "spaces"}
Given(v) == v.kind \notin {"undefined", "empty"}

IsDirectMysqlFamilyUrl(v) == v.kind \in {"mysql", "mariadb"}

\* ?? passes over an undefined variable only: one left blank hides DIRECT_URL.
DirectUrl(vars) ==
  IF vars["DATABASE_DIRECT_URL"].kind # "undefined" THEN vars["DATABASE_DIRECT_URL"]
  ELSE vars["DIRECT_URL"]

FromParts(vars) ==
  /\ ~IsDirectMysqlFamilyUrl(DirectUrl(vars))
  /\ ~IsDirectMysqlFamilyUrl(vars["DATABASE_URL"])

\* The parts are taken as they are: a password may be empty, a name spaces.
PartsGiven(vars) ==
  /\ Given(vars["DATABASE_USER"])
  /\ vars["DATABASE_PASSWORD"].kind # "undefined"
  /\ Given(vars["DATABASE_NAME"])

\* The database of the URL; NoDatabase where getDatabaseUrl throws.
GetDatabaseUrl(vars) ==
  IF IsDirectMysqlFamilyUrl(DirectUrl(vars)) THEN DirectUrl(vars).at
  ELSE IF IsDirectMysqlFamilyUrl(vars["DATABASE_URL"]) THEN vars["DATABASE_URL"].at
  ELSE IF PartsGiven(vars) THEN vars["DATABASE_NAME"].at ELSE NoDatabase

\* The gate of migrate-deploy.cjs: || passes over blank variables too, and the
\* parts are trimmed, the password excepted, which may not be empty.
HasDatabaseConfig(vars) ==
  LET direct == IF Filled(vars["DATABASE_DIRECT_URL"]) THEN vars["DATABASE_DIRECT_URL"]
                ELSE vars["DIRECT_URL"]
  IN \/ IsDirectMysqlFamilyUrl(direct)
     \/ IsDirectMysqlFamilyUrl(vars["DATABASE_URL"])
     \/ Filled(vars["DATABASE_USER"]) /\ Given(vars["DATABASE_PASSWORD"])
          /\ Filled(vars["DATABASE_NAME"])

-----------------------------------------------------------------------------
(* Where the two part *)

\* getDatabaseUrl returns: the server has a URL.
ServerFinds(vars) == ~FromParts(vars) \/ PartsGiven(vars)

Blank(v) == v.kind \in {"empty", "spaces"}

\* A DATABASE_DIRECT_URL left blank hides DIRECT_URL from the server, not from the gate.
HidesDirectUrl(vars) ==
  Blank(vars["DATABASE_DIRECT_URL"]) /\ IsDirectMysqlFamilyUrl(vars["DIRECT_URL"])

\* Parts that the server takes and the gate does not.
OddParts(vars) ==
  \/ vars["DATABASE_PASSWORD"].kind = "empty"
  \/ vars["DATABASE_USER"].kind = "spaces"
  \/ vars["DATABASE_NAME"].kind = "spaces"
=============================================================================
