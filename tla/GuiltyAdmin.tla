---------------------------- MODULE GuiltyAdmin ----------------------------
(***************************************************************************)
(* The pages of the web application that edit the guilty blacklist and     *)
(* send records back to processing (telemetryui/views.py:199-367), with    *)
(* GuiltyBlacklist.update, GuiltyBlacklist.remove and                      *)
(* Record.reset_processed_records (model.py).                              *)
(*                                                                         *)
(* A request runs one transaction that edits the blacklist and then one    *)
(* that reads the records to reset and writes them back.  After it the     *)
(* view calls crash.process_guilties or crash.process_guilties_sync, which *)
(* do not exist: the request ends in an AttributeError and both            *)
(* transactions stay committed.                                            *)
(***************************************************************************)
EXTENDS Database

CONSTANT Admin   \* requests that can be served at the same time

VARIABLES
    request,   \* request[a]: the next transaction of the request
    scope,     \* scope[a]: the record of an Apply, 0 for all records
    loaded     \* loaded[a]: ids of the rows the reset has to write back

admin == <<request, scope, loaded>>

Request == {"idle", "reset", "flush"}

(* The frames of the form's record, of which the ticked ones are           *)
(* blacklisted and the others are not.                                     *)
Choices(id) == Offered(report[id].lines)

(* guilty_edit: form.validate_on_submit, GuiltyBlacklist.update.           *)
Edit(a, id, checked) ==
    /\ request[a] = "idle"
    /\ id \in Live
    /\ checked \subseteq Choices(id)
    /\ guilty_blacklisted' = (guilty_blacklisted \ Choices(id)) \cup checked
    /\ request' = [request EXCEPT ![a] = "reset"]
    /\ UNCHANGED <<status, report, columns, next_id, guilties, loaded>>

(* 'apply' resets the form's record, 'apply_submit' all of them.           *)
Apply(a, id, checked)  == Edit(a, id, checked) /\ scope' = [scope EXCEPT ![a] = id]
Submit(a, id, checked) == Edit(a, id, checked) /\ scope' = [scope EXCEPT ![a] = 0]

(* guilty_reset, confirmed                                                 *)
Reset(a) ==
    /\ request[a] = "idle"
    /\ request' = [request EXCEPT ![a] = "reset"]
    /\ scope' = [scope EXCEPT ![a] = 0]
    /\ UNCHANGED <<db, loaded>>

(* guilty_remove                                                           *)
Remove(pair) ==
    /\ pair \in guilty_blacklisted
    /\ guilty_blacklisted' = guilty_blacklisted \ {pair}
    /\ UNCHANGED <<status, report, columns, next_id, guilties, admin>>

(* reset_processed_records: q.all().  The session writes back only the     *)
(* rows whose attribute changes: those it has read as processed.           *)
ResetRead(a) ==
    /\ request[a] = "reset"
    /\ loaded' = [loaded EXCEPT ![a] =
           {id \in Marked : /\ IsCrash(id)
                            /\ IsClear(id)
                            /\ scope[a] \in {0, id}}]
    /\ request' = [request EXCEPT ![a] = "flush"]
    /\ UNCHANGED <<db, scope>>

End(a) ==
    /\ request' = [request EXCEPT ![a] = "idle"]
    /\ scope' = [scope EXCEPT ![a] = 0]
    /\ loaded' = [loaded EXCEPT ![a] = {}]

(* The flush expects its UPDATE to match every row it has loaded           *)
(* (StaleDataError otherwise), then the view fails.                        *)
ResetCommit(a) ==
    /\ request[a] = "flush"
    /\ loaded[a] \subseteq Live
    /\ processed' = [id \in Id |-> processed[id] /\ id \notin loaded[a]]
    /\ End(a)
    /\ UNCHANGED <<status, report, guilty_id, next_id, guilties, guilty_blacklisted>>

(* The request fails between or in its transactions.                       *)
Abort(a) ==
    /\ request[a] # "idle"
    /\ End(a)
    /\ UNCHANGED db

AdminTypeOK ==
    /\ request \in [Admin -> Request]
    /\ scope \in [Admin -> Id \cup {0}]
    /\ loaded \in [Admin -> SUBSET Id]

AdminInit ==
    /\ request = [a \in Admin |-> "idle"]
    /\ scope = [a \in Admin |-> 0]
    /\ loaded = [a \in Admin |-> {}]
=============================================================================
