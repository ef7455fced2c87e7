------------------------------ MODULE DbMigrate ------------------------------
(***************************************************************************)
(* Setting up and migrating the database: initialize and migrate of        *)
(* worker/src/admin_api/db_api.ts, statement by statement, for requests    *)
(* that overlap and fail.  The schema is the set of what the versions have *)
(* in more than one way: tables, the columns and the indexes added later.  *)
(***************************************************************************)
EXTENDS Sql, Naturals, SequencesExt

CONSTANTS Admins      \* requests of admins in flight at a time

Current == 9                      \* DB_VERSION v0.0.9
Versions == 2..Current

\* What a table is created with, of the columns that came later.
ColumnsOf(t) ==
  CASE t = "raw_mails" -> {"metadata", "raw_blob", "is_unread"}
    [] t = "address"   -> {"password", "source_meta"}
    [] OTHER           -> {}

\* DB_INIT_QUERIES, one statement after the other.
InitQueries == <<"raw_mails", "message_id_index", "address", "source_meta_index",
                 "settings", "redeem_codes">>

Everything == Range(InitQueries) \cup ColumnsOf("raw_mails") \cup ColumnsOf("address")

\* What migrate adds to a database whose version is at most last.
Ladder ==
  << [last |-> 2, object |-> "password"], [last |-> 3, object |-> "metadata"],
     [last |-> 4, object |-> "source_meta"], [last |-> 5, object |-> "message_id_index"],
     [last |-> 6, object |-> "raw_blob"], [last |-> 7, object |-> "is_unread"] >>

Top == Len(Ladder) + 1

VARIABLES schema,     \* what the database has of Everything
          version,    \* settings.db_version, Null when there is none
          admin,      \* the requests' local state
          mishaps     \* D1 errors still to come: of reads of the version, of others

dbVars == <<schema, version, admin, mishaps>>

AdminIdle == [op |-> "migrate", step |-> "idle", rung |-> Top]

\* A database that the code of version v set up.
AsOf(v) ==
  {"raw_mails", "address", "settings"}
    \cup {Ladder[k].object : k \in {j \in DOMAIN Ladder : Ladder[j].last < v}}
    \cup (IF v > 4 THEN {"source_meta_index"} ELSE {})
    \cup (IF v = Current THEN {"redeem_codes"} ELSE {})

\* Without a version it is empty, or db/schema.sql of this version made it.  One
\* that an older schema.sql made has no version either, and no start has it: the
\* code cannot tell the two, and does not repair it.
Found(v) == IF v = Null THEN {{}, Everything} ELSE {AsOf(v)}

DbInit(v, errors) ==
  /\ schema \in Found(v)
  /\ version = v
  /\ admin = [r \in Admins |-> AdminIdle]
  /\ mishaps = errors

Doing(r, step) == admin[r].step = step
Proceed(r, op, step, rung) ==
  admin' = [admin EXCEPT ![r] = [op |-> op, step |-> step, rung |-> rung]]
EndRequest(r) == admin' = [admin EXCEPT ![r] = AdminIdle]

\* The stage after a rung: an index needs no look first, PRAGMA table_info does.
Climb(r, k) ==
  IF k = Top THEN Proceed(r, "migrate", "exec", Top)
  ELSE Proceed(r, "migrate", IF Ladder[k].object = "message_id_index" THEN "alter" ELSE "look", k)

\* getSetting answers null when its query fails.
ReadVersion(v) ==
  \/ v = version /\ UNCHANGED mishaps
  \/ /\ v = Null /\ mishaps.reads > 0
     /\ mishaps' = [mishaps EXCEPT !.reads = @ - 1]

Migrate(r) ==
  /\ Doing(r, "idle")
  /\ \E v \in {version, Null} :
       /\ ReadVersion(v) /\ v # Current
       /\ Climb(r, IF v = Null THEN Top
                   ELSE CHOOSE k \in 1..Top :
                          /\ k = Top \/ v <= Ladder[k].last
                          /\ \A j \in 1..(k - 1) : v > Ladder[j].last)
  /\ UNCHANGED <<schema, version>>

\* Mutant: the column is added without a look.
LookBlindly(r) ==
  /\ Doing(r, "look")
  /\ Proceed(r, "migrate", "alter", admin[r].rung)
  /\ UNCHANGED <<schema, version, mishaps>>

Look(r) ==
  /\ Doing(r, "look")
  /\ LET k == admin[r].rung
     IN IF Ladder[k].object \in schema THEN Climb(r, k + 1)
                                       ELSE Proceed(r, "migrate", "alter", k)
  /\ UNCHANGED <<schema, version, mishaps>>

\* ALTER TABLE fails when another request has added the column meanwhile.
Alter(r) ==
  /\ Doing(r, "alter")
  /\ LET k == admin[r].rung
         new == Ladder[k].object
     IN IF new \in schema /\ new # "message_id_index"
          THEN EndRequest(r) /\ UNCHANGED schema
          ELSE /\ schema' = schema \cup {new}
               /\ IF new = "source_meta" THEN Proceed(r, "migrate", "index", k)
                                         ELSE Climb(r, k + 1)
  /\ UNCHANGED <<version, mishaps>>

CreateIndex(r) ==
  /\ Doing(r, "index")
  /\ schema' = schema \cup {"source_meta_index"}
  /\ Climb(r, admin[r].rung + 1)
  /\ UNCHANGED <<version, mishaps>>

Initialize(r) ==
  /\ Doing(r, "idle")
  /\ Proceed(r, "initialize", "exec", Top)
  /\ UNCHANGED <<schema, version, mishaps>>

\* CREATE ... IF NOT EXISTS, the first n statements: a table that is there keeps
\* the columns it has.
Executed(n) ==
  LET new == {InitQueries[j] : j \in 1..n} \ schema
  IN schema \cup new \cup UNION {ColumnsOf(t) : t \in new}

\* The index on a missing column is an error.
Possible == IF "address" \in schema /\ "source_meta" \notin schema THEN 3 ELSE Len(InitQueries)

\* Mutant: a migration creates only what its version brought.
ExecOnlyNew(r) ==
  /\ Doing(r, "exec")
  /\ schema' = schema \cup {"redeem_codes"}
  /\ Proceed(r, admin[r].op, IF admin[r].op = "migrate" THEN "save" ELSE "check", Top)
  /\ UNCHANGED <<version, mishaps>>

Exec(r) ==
  /\ Doing(r, "exec")
  /\ schema' = Executed(Possible)
  /\ IF Possible < Len(InitQueries) THEN EndRequest(r)
     ELSE Proceed(r, admin[r].op, IF admin[r].op = "migrate" THEN "save" ELSE "check", Top)
  /\ UNCHANGED <<version, mishaps>>

\* initialize asks for the version only now.
CheckVersion(r) ==
  /\ Doing(r, "check")
  /\ \E v \in {version, Null} :
       /\ ReadVersion(v)
       /\ IF v = Null THEN Proceed(r, "initialize", "save", Top) ELSE EndRequest(r)
  /\ UNCHANGED <<schema, version>>

SaveVersion(r) ==
  /\ Doing(r, "save")
  /\ version' = Current
  /\ EndRequest(r)
  /\ UNCHANGED <<schema, mishaps>>

\* A statement throws, exec after some of its statements; or the worker stops.
RequestFails(r) ==
  /\ ~Doing(r, "idle") /\ mishaps.others > 0
  /\ mishaps' = [mishaps EXCEPT !.others = @ - 1]
  /\ IF Doing(r, "exec") THEN \E n \in 0..(Possible - 1) : schema' = Executed(n)
                         ELSE UNCHANGED schema
  /\ EndRequest(r)
  /\ UNCHANGED version

\* The admin page offers what the version it last read calls for.
Ask(r) ==
  \/ version = Null /\ Initialize(r)
  \/ version \notin {Null, Current} /\ Migrate(r)

DbStep(r) ==
  \/ Look(r) \/ Alter(r) \/ CreateIndex(r) \/ Exec(r) \/ CheckVersion(r) \/ SaveVersion(r)

DbRequest(r) == Migrate(r) \/ Initialize(r) \/ DbStep(r) \/ RequestFails(r)

-----------------------------------------------------------------------------
\* The documented order, migrate first and then switch gzip on, has the column
\* there when the migration succeeded (docs/en/guide/worker-vars.md:111).
MigrationBringsRawBlob == version = Current => "raw_blob" \in schema

\* Migrations that fail half way can be repeated until they get through: the
\* database ends up current (the PRAGMA before each ALTER in db_api.ts).
MigrationConverges == <>[](version = Current)
=============================================================================
