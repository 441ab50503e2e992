------------------------------ MODULE Migration ------------------------------
(***************************************************************************)
(* How the schema comes to be there: every process that serves the API is  *)
(* started by "alembic upgrade head && uvicorn" (docker-compose.yml; in    *)
(* two steps by hand, README.md), and alembic/env.py runs the statements   *)
(* of the one revision in one transaction.                                 *)
(*                                                                         *)
(* An object of the schema is a table with its indexes, or the enum type   *)
(* that CREATE TABLE notifications creates first.  Postgres rolls DDL back *)
(* with its transaction; a second CREATE of a name waits for the           *)
(* transaction of the first, and fails once that has committed.            *)
(***************************************************************************)
EXTENDS Naturals, Sequences, FiniteSets

CONSTANTS
  Servers,         \* the processes that upgrade the schema and then serve
  MigrationFaults  \* whether processes die and statements fail

ASSUME MigrationAssumption == MigrationFaults \in BOOLEAN

VARIABLES
  schema,    \* the committed objects
  version,   \* the revision in alembic_version: "head", or "base" for none
  boot,      \* how far each process is
  done       \* the statements of its open transaction

migrationVars == <<schema, version, boot, done>>

\* upgrade(), in its order.
Upgrade ==
  <<"quizzes", "users", "attempts", "questions",
    "notification_status", "notifications", "options", "answers">>

\* The foreign keys of a table, and the type of its column.
References(object) ==
  CASE object = "attempts"      -> {"quizzes", "users"}
    [] object = "questions"     -> {"quizzes"}
    [] object = "notifications" -> {"attempts", "notification_status"}
    [] object = "options"       -> {"questions"}
    [] object = "answers"       -> {"attempts", "options", "questions"}
    [] OTHER                    -> {}

\* downgrade(), in its order: the tables, and not the type.
Drops ==
  <<"answers", "options", "notifications", "questions", "attempts", "users", "quizzes">>

Upto(objects, n) == {objects[i] : i \in 1..n}

Whole == Upto(Upgrade, Len(Upgrade))
Tables == Upto(Drops, Len(Drops))

\* No transaction outlives the upgrade it is of.
NothingLeftOpen == \A p \in Servers : boot[p] # "upgrading" => done[p] = 0

MigrationTypeOK ==
  /\ schema \subseteq Whole
  /\ version \in {"base", "head"}
  /\ boot \in [Servers -> {"down", "upgrading", "serving", "exited"}]
  /\ done \in [Servers -> 0..Len(Upgrade)]
  /\ NothingLeftOpen

MigrationInit ==
  /\ schema = {}
  /\ version = "base"
  /\ boot = [p \in Servers |-> "down"]
  /\ done = [p \in Servers |-> 0]

-----------------------------------------------------------------------------
Boot(p, from, to) == boot[p] = from /\ boot' = [boot EXCEPT ![p] = to]

\* Mistaken: the session is left open with its transaction.
LeaveOpen(p) == UNCHANGED done

RollBack(p) == done' = [done EXCEPT ![p] = 0]

\* Alembic reads the version: at head there is nothing to run.
StartUp(p) ==
  /\ \E from \in {"down", "exited"} :
       Boot(p, from, IF version = "head" THEN "serving" ELSE "upgrading")
  /\ UNCHANGED <<schema, version, done>>

Upcoming(p) == Upgrade[done[p] + 1]

\* p may send its next statement, and no open transaction has created its object.
Sending(p) ==
  /\ boot[p] = "upgrading"
  /\ done[p] < Len(Upgrade)
  /\ \A other \in Servers \ {p} : Upcoming(p) \notin Upto(Upgrade, done[other])

\* The statement goes through: the object is new, what it refers to is there.
Creatable(p) ==
  /\ Upcoming(p) \notin schema
  /\ References(Upcoming(p)) \subseteq schema \cup Upto(Upgrade, done[p])

\* Mistaken: each statement is committed by itself.
CreateCommits(p) ==
  /\ Sending(p) /\ Creatable(p)
  /\ done' = [done EXCEPT ![p] = @ + 1]
  /\ schema' = schema \cup {Upcoming(p)}
  /\ UNCHANGED <<version, boot>>

CreateObject(p) ==
  /\ Sending(p) /\ Creatable(p)
  /\ done' = [done EXCEPT ![p] = @ + 1]
  /\ UNCHANGED <<schema, version, boot>>

\* Mistaken: uvicorn is started whatever became of the upgrade.
UpgradeFailsAndServes(p) ==
  /\ Sending(p) /\ ~Creatable(p)
  /\ Boot(p, "upgrading", "serving")
  /\ RollBack(p)
  /\ UNCHANGED <<schema, version>>

\* The statement raises: the transaction rolls back and the process exits.
UpgradeFails(p) ==
  /\ Sending(p) /\ ~Creatable(p)
  /\ Boot(p, "upgrading", "exited")
  /\ RollBack(p)
  /\ UNCHANGED <<schema, version>>

\* The objects and the version are committed together; uvicorn starts.
CommitUpgrade(p) ==
  /\ done[p] = Len(Upgrade)
  /\ Boot(p, "upgrading", "serving")
  /\ schema' = schema \cup Upto(Upgrade, done[p])
  /\ version' = "head"
  /\ RollBack(p)

\* The process is stopped while it serves, or dies in mid-upgrade.
ServerStops(p) ==
  /\ \/ Boot(p, "serving", "down")
     \/ MigrationFaults /\ Boot(p, "upgrading", "down")
  /\ RollBack(p)
  /\ UNCHANGED <<schema, version>>

BootNext ==
  \E p \in Servers :
    \/ StartUp(p) \/ CreateObject(p) \/ UpgradeFails(p) \/ CommitUpgrade(p)
    \/ ServerStops(p)

\* An operator runs "alembic downgrade base" while nothing is started.  Each
\* DROP needs that no table that is left refers to the one dropped.
DowngradeSchema ==
  /\ version = "head"
  /\ \A p \in Servers : boot[p] \in {"down", "exited"}
  /\ \A k \in DOMAIN Drops : \A object \in schema \ Upto(Drops, k) :
       Drops[k] \notin References(object)
  /\ schema' = schema \ Tables
  /\ version' = "base"
  /\ UNCHANGED <<boot, done>>

MigrationNext == BootNext \/ DowngradeSchema

MigrationSpec == MigrationInit /\ [][MigrationNext]_migrationVars

-----------------------------------------------------------------------------
\* The tables are all there or none is, and alembic_version says which,
\* however many processes upgrade at once and wherever one dies.
SchemaMatchesVersion ==
  IF version = "head" THEN schema = Whole ELSE schema \cap Tables = {}

\* A process that serves does so over the whole schema, also one that came up
\* while another was upgrading.
ServingHasSchema ==
  \A p \in Servers : boot[p] = "serving" => schema = Whole

-----------------------------------------------------------------------------
\* README.md: alembic upgrade head runs on startup, so the schema is in sync
\* on every boot.  After a downgrade the type notification_status is left, and
\* no later boot gets past its CREATE TYPE.
BootSyncsSchema ==
  \A p \in Servers : boot[p] = "exited" => version = "head"

=============================================================================
