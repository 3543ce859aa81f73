------------------------------ MODULE MCDeploy ------------------------------
(* Two builds, three migrations with the recoverable one in the middle, the   *)
(* server's database, another one and the placeholder's. The environments     *)
(* give each variable every kind of value the rules tell apart, one or two of *)
(* them at a time; the override files name nothing, another database or the   *)
(* placeholder.                                                               *)
EXTENDS Deploy

CONSTANTS b1, b2, d1, d2, schema

MCBuilds == {b1, b2}
MCDatabases == {d1, d2, schema}

Value(k) == [kind |-> k, at |-> IF k \in {"mysql", "mariadb", "text"} THEN d1 ELSE NoDatabase]
Other == [kind |-> "mysql", at |-> d2]

Unset == [v \in Variables |-> Value("undefined")]

Env(vs, schemaOnly) == [vars |-> vs, schemaOnly |-> schemaOnly]

ByUrl ==
  {[Unset EXCEPT !["DATABASE_DIRECT_URL"] = Value(k), !["DIRECT_URL"] = Value(l),
                 !["DATABASE_URL"] = Value(u)] :
     k \in {"undefined", "spaces", "mysql"}, l \in {"undefined", "mariadb"},
     u \in {"undefined", "accelerate", "mysql"}}

ByParts ==
  {[Unset EXCEPT !["DATABASE_USER"] = Value(k), !["DATABASE_PASSWORD"] = Value(l),
                 !["DATABASE_NAME"] = Value("text")] :
     k \in {"undefined", "spaces", "text"}, l \in {"undefined", "empty", "text"}}

MCHosts ==
  {[env |-> Env(vs, FALSE), overrides |-> Env(Unset, FALSE)] : vs \in ByUrl \union ByParts}
  \union
  {[env |-> Env([Unset EXCEPT !["DATABASE_URL"] = Value("mysql")], only), overrides |-> o] :
     only \in BOOLEAN,
     o \in {Env(Unset, TRUE), Env(Unset, FALSE), Env([Unset EXCEPT !["DATABASE_URL"] = Other], FALSE)}}
=============================================================================
