------------------------------ MODULE Database ------------------------------
(***************************************************************************)
(* The tables the services share (utils/shared_utils/model.py), one        *)
(* variable per column that the crash pipeline reads or writes, as a       *)
(* committed transaction leaves them.  PostgreSQL runs every transaction   *)
(* here at READ COMMITTED.                                                 *)
(*                                                                         *)
(* A guilty row is never deleted and (function, module) is unique, so the  *)
(* foreign key guilty_id is the frame itself.  Duplicate rows of           *)
(* guilty_blacklisted do not matter to its readers here: it is a set.      *)
(***************************************************************************)
EXTENDS CrashFrames, FiniteSets

CONSTANTS
    Id,      \* record ids the sequence can hand out
    Report,  \* the reports that clients send
    NoReport \* the columns of a row that does not exist yet

ASSUME DatabaseAssumption ==
    /\ Id \subseteq Nat \ {0}
    /\ Report \subseteq [crash : BOOLEAN, clear : BOOLEAN, lines : Seq(Line)]
    /\ NoReport \notin Report

VARIABLES
    status,              \* status[id]: whether the row exists
    report,              \* report[id]: classification, system_name, payload
    processed,           \* processed[id]
    guilty_id,           \* guilty_id[id]: the frame, NoGuilty for NULL
    next_id,             \* the sequence behind records.id
    guilties,            \* rows of guilty
    guilty_blacklisted   \* rows of guilty_blacklisted

columns   == <<processed, guilty_id>>
db        == <<status, report, processed, guilty_id, next_id, guilties,
               guilty_blacklisted>>

(* A row is "free" before its id is allocated, "pending" while the         *)
(* transaction that inserts it is open, "live" once it is committed and    *)
(* "gone" after a rollback or a purge.                                     *)
Status == {"free", "pending", "live", "gone"}

Live    == {id \in Id : status[id] = "live"}
Pending == {id \in Id : status[id] = "pending"}

(* classification IN BACKTRACE_CLASSES                                     *)
IsCrash(id)   == report[id].crash
(* system_name = 'clear-linux-os'                                          *)
IsClear(id)   == report[id].clear
HasFrames(id) == Crashing(report[id].lines) # {}

Marked == {id \in Live : processed[id]}

(* A slip: the view without its WHERE processed = True.                    *)
LastRecord(id) ==
    \/ id \in Live /\ \A m \in Live : m <= id
    \/ id = 0 /\ Live = {}

(* The view last_processed, SELECT MAX(id) ... WHERE processed = True, as  *)
(* get_latest_id reads it: 0 for NULL.                                     *)
LastProcessed(id) ==
    \/ id \in Marked /\ \A m \in Marked : m <= id
    \/ id = 0 /\ Marked = {}

DatabaseTypeOK ==
    /\ status \in [Id -> Status]
    /\ report \in [Id -> Report \cup {NoReport}]
    /\ processed \in [Id -> BOOLEAN]
    /\ guilty_id \in [Id -> Frame \cup {NoGuilty}]
    /\ next_id \in Nat \ {0}
    /\ guilties \subseteq Frame
    /\ guilty_blacklisted \subseteq Frame

DatabaseInit ==
    /\ status = [id \in Id |-> "free"]
    /\ report = [id \in Id |-> NoReport]
    /\ processed = [id \in Id |-> FALSE]
    /\ guilty_id = [id \in Id |-> NoGuilty]
    /\ next_id = 1
    /\ guilties = {}
    /\ guilty_blacklisted = {}
=============================================================================
