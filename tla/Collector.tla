----------------------------- MODULE Collector -----------------------------
(***************************************************************************)
(* The collector's workers store the reports that clients post             *)
(* (collector/collector/report_handler.py, Record.create in model.py), and *)
(* its cron job purges old records (purge.py, Record.delete_records).      *)
(*                                                                         *)
(* A worker's INSERT takes the id from the sequence at once; other         *)
(* sessions see the row only after its COMMIT, which another worker's may  *)
(* overtake.  uwsgi runs several worker processes.                         *)
(***************************************************************************)
EXTENDS Database

CONSTANTS
    Worker,             \* worker processes
    PURGE_OLD_RECORDS   \* app.config: whether the cron job purges

ASSUME PurgeAssumption == PURGE_OLD_RECORDS \in BOOLEAN

VARIABLES
    posting,   \* posting[w]: id of the row worker w has inserted, 0 if none
    purging    \* ids the purge has selected and not yet deleted

collector == <<posting, purging>>

Insert(w, r) ==
    /\ posting[w] = 0
    /\ next_id \in Id                      \* bound: the ids of the instance
    /\ next_id' = next_id + 1
    /\ posting' = [posting EXCEPT ![w] = next_id]
    /\ status' = [status EXCEPT ![next_id] = "pending"]
    /\ report' = [report EXCEPT ![next_id] = r]
    /\ UNCHANGED <<columns, guilties, guilty_blacklisted, purging>>

Finish(w, outcome) ==
    /\ posting[w] # 0
    /\ status' = [status EXCEPT ![posting[w]] = outcome]
    /\ posting' = [posting EXCEPT ![w] = 0]
    /\ UNCHANGED <<report, columns, next_id, guilties, guilty_blacklisted, purging>>

Commit(w) == Finish(w, "live")

(* except: rollback and raise; also a worker killed by harakiri.  The id   *)
(* is not given back to the sequence.                                      *)
Rollback(w) == Finish(w, "gone")

(* SELECT of the rows past their retention time.  Which rows those are is  *)
(* a matter of the configured days, classes and severities: any set.       *)
PurgeSelect ==
    /\ PURGE_OLD_RECORDS
    /\ purging = {}
    /\ \E ids \in SUBSET Live : ids # {} /\ purging' = ids
    /\ UNCHANGED <<db, posting>>

PurgeDelete ==
    /\ purging # {}
    /\ status' = [id \in Id |-> IF id \in purging THEN "gone" ELSE status[id]]
    /\ purging' = {}
    /\ UNCHANGED <<report, columns, next_id, guilties, guilty_blacklisted, posting>>

PurgeRollback ==
    /\ purging # {}
    /\ purging' = {}
    /\ UNCHANGED <<db, posting>>

CollectorTypeOK ==
    /\ posting \in [Worker -> Id \cup {0}]
    /\ purging \subseteq Id

CollectorInit ==
    /\ posting = [w \in Worker |-> 0]
    /\ purging = {}

CollectorNext ==
    \/ \E w \in Worker :
           \/ \E r \in Report : Insert(w, r)
           \/ Commit(w)
           \/ Rollback(w)
    \/ PurgeSelect
    \/ PurgeDelete
    \/ PurgeRollback
=============================================================================
