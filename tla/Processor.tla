----------------------------- MODULE Processor -----------------------------
(***************************************************************************)
(* The processing service (processing/process.py, processing/main.py): a   *)
(* loop that every two minutes runs one batch, which attributes the crash  *)
(* records after the last processed one and marks the last record of the   *)
(* batch.  The connection is in autocommit mode: each statement is a       *)
(* transaction of its own.                                                 *)
(***************************************************************************)
EXTENDS Database

CONSTANT TooLong   \* frames that no entry of guilty's unique index can hold

ASSUME ProcessorAssumption == TooLong \subseteq Frame

VARIABLES
    stage,      \* the next statement of the batch, "sleep" between batches
    contains,   \* crash.GUILTY_BLACKLIST, as loaded by this batch
    last_id,    \* the checkpoint the batch starts after
    todo,       \* ids of the rows fetched and not yet handled
    rid,        \* the loop variable: the row at hand
    gid         \* the guilty row found or inserted for it

batch     == <<contains, last_id, todo, rid, gid>>
processor == <<stage, contains, last_id, todo, rid, gid>>

Stage == {"sleep", "get_latest_id", "get_crashes", "insert_guilty",
          "update_guilty", "update_processed"}

(* A slip: the batch runs with the blacklist of a fresh process.           *)
LoadNothing ==
    /\ stage = "sleep"
    /\ contains' = {}
    /\ stage' = "get_latest_id"
    /\ UNCHANGED <<db, last_id, todo, rid, gid>>

(* init_guilty_blacklist                                                   *)
LoadBlacklist ==
    /\ stage = "sleep"
    /\ contains' = guilty_blacklisted
    /\ stage' = "get_latest_id"
    /\ UNCHANGED <<db, last_id, todo, rid, gid>>

GetLatestId ==
    /\ stage = "get_latest_id"
    /\ last_id' \in {id \in Id \cup {0} : LastProcessed(id)}
    /\ stage' = "get_crashes"
    /\ UNCHANGED <<db, contains, todo, rid, gid>>

(* Slips: a SELECT that skips the rows that have a guilty already, and one *)
(* that starts too late.                                                   *)
NewCrashes  == {id \in Live : IsCrash(id) /\ id > last_id /\ guilty_id[id] = NoGuilty}
LateCrashes == {id \in Live : IsCrash(id) /\ id > last_id + 1}

(* The rows the SELECT of get_crashes returns: committed crash records     *)
(* after the checkpoint, processed or not, of any system.                  *)
Crashes == {id \in Live : IsCrash(id) /\ id > last_id}

(* The batch is over; the process exits and its memory with it.            *)
Exit ==
    /\ stage' = "sleep"
    /\ contains' = {}
    /\ last_id' = 0
    /\ todo' = {}
    /\ rid' = 0
    /\ gid' = NoGuilty

GetCrashes ==
    /\ stage = "get_crashes"
    /\ IF Crashes = {}
       THEN Exit
       ELSE /\ todo' = Crashes
            /\ stage' = "insert_guilty"
            /\ UNCHANGED <<contains, last_id, rid, gid>>
    /\ UNCHANGED db

(* A slip: process_crashes fetches a next row that is not there.           *)
NoLastRow(rest) == stage' = "insert_guilty"

(* After a row: the next one, or the UPDATE that ends process_crashes.     *)
NextRow(rest) ==
    stage' = IF rest = {} THEN "update_processed" ELSE "insert_guilty"

(* A slip: INSERT ... RETURNING id yields no row on a conflict, and the    *)
(* guilty of the row before is used.                                       *)
InsertOnlyNew ==
    /\ stage = "insert_guilty"
    /\ \E id \in todo : First(todo, id) /\ rid' = id
    /\ todo' = todo \ {rid'}
    /\ \E guilty \in Frame \cup {NoGuilty} :
           /\ IsGuilty(report[rid'].lines, contains, guilty)
           /\ IF guilty = NoGuilty
              THEN NextRow(todo') /\ UNCHANGED <<gid, guilties>>
              ELSE /\ guilties' = guilties \cup {guilty}
                   /\ gid' = IF guilty \in guilties /\ gid # NoGuilty THEN gid ELSE guilty
                   /\ stage' = "update_guilty"
    /\ UNCHANGED <<status, report, columns, next_id, guilty_blacklisted,
                   contains, last_id>>

(* for rid, backtrace, _ in crashes: in id order.  A backtrace without a   *)
(* frame has no guilty and the row is left as it is.                       *)
InsertGuilty ==
    /\ stage = "insert_guilty"
    /\ \E id \in todo : First(todo, id) /\ rid' = id
    /\ todo' = todo \ {rid'}
    /\ \E guilty \in (Frame \ TooLong) \cup {NoGuilty} :
           /\ IsGuilty(report[rid'].lines, contains, guilty)
           /\ IF guilty = NoGuilty
              THEN NextRow(todo') /\ UNCHANGED <<gid, guilties>>
              ELSE /\ guilties' = guilties \cup {guilty}
                   /\ gid' = guilty
                   /\ stage' = "update_guilty"
    /\ UNCHANGED <<status, report, columns, next_id, guilty_blacklisted,
                   contains, last_id>>

(* Its guilty cannot be inserted.                                          *)
Unfit(id, blacklist) ==
    \E guilty \in TooLong : IsGuilty(report[id].lines, blacklist, guilty)

(* The INSERT at hand raises, as it will in every batch.                   *)
Rejects ==
    /\ stage = "insert_guilty"
    /\ \E id \in todo : First(todo, id) /\ Unfit(id, contains)

(* UPDATE ... WHERE id = rid: no row is matched once it has been purged.   *)
UpdateGuilty ==
    /\ stage = "update_guilty"
    /\ guilty_id' = [guilty_id EXCEPT ![rid] =
                        IF status[rid] = "live" THEN gid ELSE @]
    /\ NextRow(todo)
    /\ UNCHANGED <<status, report, processed, next_id, guilties,
                   guilty_blacklisted, batch>>

(* Only the last row of the batch is marked.                               *)
UpdateProcessed ==
    /\ stage = "update_processed"
    /\ processed' = [processed EXCEPT ![rid] =
                        IF status[rid] = "live" THEN TRUE ELSE @]
    /\ Exit
    /\ UNCHANGED <<status, report, guilty_id, next_id, guilties,
                   guilty_blacklisted>>

(* A slip: the batch marks the row at hand even when it fails, as a        *)
(* finally clause would.                                                   *)
FailMarked ==
    /\ stage # "sleep"
    /\ processed' = [id \in Id |-> processed[id] \/ (id = rid /\ status[id] = "live")]
    /\ Exit
    /\ UNCHANGED <<status, report, guilty_id, next_id, guilties, guilty_blacklisted>>

(* A statement raises: luigi still exits with 0 and run.sh goes on.  Or    *)
(* the service is killed, and somebody starts it again: no compose file    *)
(* has a restart: for it, and run.sh ends where it is (set -e).            *)
Fail ==
    /\ stage # "sleep"
    /\ Exit
    /\ UNCHANGED db

ProcessorTypeOK ==
    /\ stage \in Stage
    /\ contains \subseteq Frame
    /\ last_id \in Id \cup {0}
    /\ todo \subseteq Id
    /\ rid \in Id \cup {0}
    /\ gid \in Frame \cup {NoGuilty}
    /\ stage \in {"update_guilty", "update_processed"} => rid \in Id
    /\ stage = "insert_guilty" => todo # {}

ProcessorInit ==
    /\ stage = "sleep"
    /\ contains = {}
    /\ last_id = 0
    /\ todo = {}
    /\ rid = 0
    /\ gid = NoGuilty
=============================================================================
