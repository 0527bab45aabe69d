------------------------------ MODULE Startup ------------------------------
(***************************************************************************)
(* How the environment comes up: the migrate service applies the schema    *)
(* (telemetryui/migrations), run.sh of the processing service waits for    *)
(* the database with entrypoint.py and then runs batches for good.  The    *)
(* services start at the same time (docker-compose.yaml), the database     *)
(* may be down for a while, and nothing orders the view after the tables   *)
(* but the retries of both.                                                *)
(*                                                                         *)
(* A broken connection shows at the next statement; here the session ends  *)
(* at once.                                                                *)
(***************************************************************************)
EXTENDS Naturals

CONSTANTS
    MaxOutages,   \* bound: times the database goes down or a service is killed
    MaxRestarts   \* bound: times the environment is started again

ASSUME StartupAssumption == MaxOutages \in Nat /\ MaxRestarts \in Nat

VARIABLES
    up,        \* the database answers
    tables,    \* tables of the schema that are committed
    view,      \* the view last_processed exists
    migrate,   \* the migrate service: "exited" (with an error), "upgrade" or "done"
    created,   \* tables its transaction has created
    stage,     \* where run.sh is
    outages, restarts

db    == <<up, tables, view>>
count == <<outages, restarts>>
vars  == <<up, tables, view, migrate, created, stage, outages, restarts>>

Table == {"guilty", "guilty_blacklisted", "records"}

(* What upgrade() creates before a table.                                  *)
Before == [guilty             |-> {},
           guilty_blacklisted |-> {"guilty"},
           records            |-> {"guilty", "guilty_blacklisted"}]

Waiting == {"connect", "select", "create"}   \* entrypoint.py
Looping == {"sleep", "batch"}                \* the processing loop

Init ==
    /\ up = FALSE /\ tables = {} /\ view = FALSE
    /\ migrate = "exited" /\ created = {}
    /\ stage = "connect"
    /\ outages = 0 /\ restarts = 0

-----------------------------------------------------------------------------
StartDb ==
    /\ ~up
    /\ up' = TRUE
    /\ UNCHANGED <<tables, view, migrate, created, stage, count>>

(* Every session ends: the migration is rolled back, entrypoint.py exits   *)
(* with 1 on the OperationalError, and a batch fails.                      *)
StopDb ==
    /\ up
    /\ outages < MaxOutages
    /\ up' = FALSE
    /\ migrate' = IF migrate = "done" THEN "done" ELSE "exited"
    /\ created' = {}
    /\ stage' = IF stage \in Waiting THEN "connect" ELSE "sleep"
    /\ outages' = outages + 1
    /\ UNCHANGED <<tables, view, restarts>>

(* flask db upgrade: nothing to do at the latest revision.                 *)
StartUpgrade ==
    /\ migrate = "exited"
    /\ up
    /\ migrate' = IF tables = Table THEN "done" ELSE "upgrade"
    /\ UNCHANGED <<db, created, stage, count>>

(* A slip: each table is committed by itself.                              *)
CreateAndCommit ==
    /\ migrate = "upgrade"
    /\ \E table \in Table :
           /\ created = Before[table]
           /\ IF table \in tables
              THEN migrate' = "exited" /\ created' = {} /\ UNCHANGED tables
              ELSE /\ created' = created \cup {table}
                   /\ tables' = tables \cup {table}
                   /\ UNCHANGED migrate
    /\ UNCHANGED <<up, view, stage, count>>

(* op.create_table, in the order of upgrade()                              *)
CreateTable ==
    /\ migrate = "upgrade"
    /\ \E table \in Table : created = Before[table] /\ created' = created \cup {table}
    /\ UNCHANGED <<db, migrate, stage, count>>

CommitUpgrade ==
    /\ migrate = "upgrade"
    /\ created = Table
    /\ tables' = Table
    /\ migrate' = "done"
    /\ created' = {}
    /\ UNCHANGED <<up, view, stage, count>>

(* The service is killed or fails otherwise; restart: on-failure.          *)
FailUpgrade ==
    /\ migrate = "upgrade"
    /\ outages < MaxOutages
    /\ migrate' = "exited"
    /\ created' = {}
    /\ outages' = outages + 1
    /\ UNCHANGED <<db, stage, restarts>>

(* A slip: DROP TABLE ... CASCADE takes the view with it.                  *)
DropCascade ==
    /\ up /\ migrate # "upgrade"
    /\ tables = Table
    /\ tables' = {} /\ view' = FALSE
    /\ UNCHANGED <<up, migrate, created, stage, count>>

(* flask db downgrade, by hand.  With the view, DROP TABLE records is      *)
(* refused and nothing is dropped.                                         *)
Downgrade ==
    /\ up /\ migrate # "upgrade"
    /\ tables = Table
    /\ ~view
    /\ tables' = {}
    /\ UNCHANGED <<up, view, migrate, created, stage, count>>

-----------------------------------------------------------------------------
(* until python3 entrypoint.py                                             *)
Connect ==
    /\ stage = "connect"
    /\ up
    /\ stage' = "select"
    /\ UNCHANGED <<db, migrate, created, count>>

(* get_latest_id; UndefinedTable without the view.                         *)
Select ==
    /\ stage = "select"
    /\ stage' = IF view THEN "sleep" ELSE "create"
    /\ UNCHANGED <<db, migrate, created, count>>

(* Slips: without autocommit the failed SELECT aborts the transaction;     *)
(* without until, set -e ends the container.                               *)
CreateAborted ==
    /\ stage = "create"
    /\ stage' = "connect"
    /\ UNCHANGED <<db, migrate, created, count>>
CreateOnce ==
    /\ stage = "create"
    /\ view' = ("records" \in tables)
    /\ stage' = IF view' THEN "sleep" ELSE "ended"
    /\ UNCHANGED <<up, tables, migrate, created, count>>

(* CREATE OR REPLACE VIEW; UndefinedTable without records is not caught:   *)
(* the script fails and run.sh runs it again.                              *)
CreateView ==
    /\ stage = "create"
    /\ view' = ("records" \in tables)
    /\ stage' = IF view' THEN "sleep" ELSE "connect"
    /\ UNCHANGED <<up, tables, migrate, created, count>>

(* while true: a batch that fails to connect ends, luigi exits with 0 and  *)
(* the loop goes on.                                                       *)
BeginBatch ==
    /\ stage = "sleep"
    /\ up
    /\ stage' = "batch"
    /\ UNCHANGED <<db, migrate, created, count>>

EndBatch ==
    /\ stage = "batch"
    /\ stage' = "sleep"
    /\ UNCHANGED <<db, migrate, created, count>>

(* The environment is started again, with the data it has.                 *)
Restart ==
    /\ restarts < MaxRestarts
    /\ migrate' = "exited" /\ created' = {}
    /\ stage' = "connect"
    /\ restarts' = restarts + 1
    /\ UNCHANGED <<db, outages>>

Migrate == StartUpgrade \/ CreateTable \/ CommitUpgrade
Process == Connect \/ Select \/ CreateView \/ BeginBatch \/ EndBatch

Next ==
    \/ StartDb \/ StopDb
    \/ Migrate \/ FailUpgrade \/ Downgrade
    \/ Process
    \/ Restart

Spec == Init /\ [][Next]_vars

(* migrate is restarted until it succeeds (restart: on-failure, in both    *)
(* compose files), and run.sh keeps going.  The database is restarted only *)
(* by docker-compose.prod.yaml, with the other an operator has to: that it *)
(* comes back is a premise of the properties.                              *)
FairSpec == Spec /\ WF_vars(Migrate) /\ WF_vars(Process)

-----------------------------------------------------------------------------
TypeOK ==
    /\ up \in BOOLEAN /\ view \in BOOLEAN
    /\ tables \in SUBSET Table /\ created \in SUBSET Table
    /\ migrate \in {"exited", "upgrade", "done"}
    /\ stage \in Waiting \cup Looping
    /\ outages \in 0..MaxOutages /\ restarts \in 0..MaxRestarts

(* The loop is never entered without the view and all the tables that its  *)
(* batches read, and nobody takes them away from under it, whatever the    *)
(* order in which the services come up, fail and restart.                  *)
LoopHasSchema == stage \in Looping => view /\ tables = Table

(* "Upon initial install [...] the first migration will be applied"        *)
(* (README.md:218-223), if the database does not stay away: an upgrade     *)
(* that is interrupted leaves nothing that the next one stumbles over.     *)
MigrationApplied == []<>up => <>(tables = Table)

(* The processing loop starts once the schema is there to stay and the     *)
(* database does not stay away: neither the missing view nor the missing   *)
(* table, met on the way, is the end.                                      *)
LoopStarts == ([]<>up /\ <>[](tables = Table)) => <>(stage \in Looping)
=============================================================================
