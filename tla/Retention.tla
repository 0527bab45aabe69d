----------------------------- MODULE Retention -----------------------------
(***************************************************************************)
(* The purge of old records: the daily cron job (collector/purge.py),      *)
(* Record.delete_records (utils/shared_utils/model.py) and the retention   *)
(* settings (collector/config.py).                                         *)
(*                                                                         *)
(* One transaction deletes what each entry of PURGE_FILTERED_RECORDS asks  *)
(* for, one statement per entry, and last what no entry matches.  Every    *)
(* statement reads the clock anew.  Collector.tla purges any set of rows:  *)
(* this module says which.  Time is the age of a row in days.              *)
(***************************************************************************)
EXTENDS Integers

CONSTANTS
    Row,         \* places for rows of the table
    Kind,        \* classification and severity of a record, as one value
    Filter,      \* the entries of PURGE_FILTERED_RECORDS
    Matches,     \* Matches[f]: the kinds entry f selects (LIKE or equality)
    Days,        \* Days[f]: its retention time, 0 for "keep"
    MAX_DAYS_KEEP_UNFILTERED_RECORDS,
    PURGE_OLD_RECORDS,   \* TRUE, FALSE or Absent
    Absent,      \* a setting that the configuration does not make
    NoRecord,    \* the kind of a place without a row
    Deployments, \* the values uwsgi may have
    MaxAge,      \* bound: days after which a row does not get older
    MaxFails     \* bound: purges that fail

ASSUME RetentionAssumption ==
    /\ NoRecord \notin Kind
    /\ Deployments \subseteq [decorators : BOOLEAN, spooler : BOOLEAN]
    /\ Matches \in [Filter -> SUBSET Kind]
    /\ Days \in [Filter -> 0..(MaxAge - 1)]
    /\ MAX_DAYS_KEEP_UNFILTERED_RECORDS \in 0..(MaxAge - 1)
    /\ PURGE_OLD_RECORDS \in {TRUE, FALSE, Absent}
    /\ MaxAge \in Nat /\ MaxFails \in Nat

VARIABLES
    uwsgi,     \* whether the collector can import uwsgidecorators, and
               \* whether its uwsgi has a spooler (collector.ini has none)
    kind,      \* kind[r]: NoRecord or the kind of the committed row
    age,       \* age[r]: days since timestamp_server
    task,      \* the purge: "wait", "filters" or "commit"
    todo,      \* entries whose statement has not run yet
    deleted,   \* rows this transaction has deleted
    due,       \* whether the cron job of today has yet to run
    overdue,   \* rows that were overdue when the purge began (history)
    fails      \* purges that failed (history)

table == <<kind, age>>
vars  == <<uwsgi, kind, age, task, todo, deleted, due, overdue, fails>>

Stored == {r \in Row : kind[r] # NoRecord}

TypeOK ==
    /\ uwsgi \in Deployments
    /\ kind \in [Row -> Kind \cup {NoRecord}]
    /\ age \in [Row -> 0..MaxAge]
    /\ task \in {"wait", "filters", "commit"}
    /\ todo \subseteq Filter
    /\ deleted \subseteq Stored
    /\ due \in BOOLEAN
    /\ overdue \subseteq Row
    /\ fails \in 0..MaxFails
    /\ task = "wait" => deleted = {} /\ todo = {}

(* The retention policy, without the statements: a record is overdue when  *)
(* some entry with a retention time matches and the time is over, or when  *)
(* no entry at all matches and the general time is over.                   *)
Overdue(r) ==
    /\ r \in Stored
    /\ \/ \E f \in Filter :
              Days[f] # 0 /\ kind[r] \in Matches[f] /\ age[r] > Days[f]
       \/ /\ MAX_DAYS_KEEP_UNFILTERED_RECORDS # 0
          /\ ~ \E f \in Filter : kind[r] \in Matches[f]
          /\ age[r] > MAX_DAYS_KEEP_UNFILTERED_RECORDS

Init ==
    /\ uwsgi \in Deployments
    /\ kind = [r \in Row |-> NoRecord]
    /\ age = [r \in Row |-> 0]
    /\ task = "wait"
    /\ todo = {}
    /\ deleted = {}
    /\ due = FALSE
    /\ overdue = {}
    /\ fails = 0

-----------------------------------------------------------------------------
(* A slip: a record is deleted on the last day it should be kept.          *)
OldEnough(r, days) == age[r] >= days

(* timestamp_server < time() - days * 24 * 60 * 60                         *)
Older(r, days) == age[r] > days

(* app.config.get("PURGE_OLD_RECORDS", True)                               *)
Enabled == PURGE_OLD_RECORDS # FALSE

(* A worker stores a record; its timestamp is taken before the commit,     *)
(* which may come after midnight.                                          *)
Post ==
    /\ \E r \in Row \ Stored : \E k \in Kind : \E a \in {0, 1} :
           kind' = [kind EXCEPT ![r] = k] /\ age' = [age EXCEPT ![r] = a]
    /\ UNCHANGED <<uwsgi, task, todo, deleted, due, overdue, fails>>

(* Midnight, be a purge running or not.                                    *)
Tick ==
    /\ age' = [r \in Row |-> IF r \in Stored /\ age[r] < MaxAge
                             THEN age[r] + 1 ELSE age[r]]
    /\ due' = TRUE
    /\ UNCHANGED <<uwsgi, kind, task, todo, deleted, overdue, fails>>

(* purge_task, every day at 4:30: a job for the spooler, and none at all   *)
(* without uwsgidecorators.                                                *)
Cron ==
    /\ uwsgi.decorators /\ uwsgi.spooler
    /\ task = "wait"
    /\ due
    /\ due' = FALSE
    /\ IF Enabled
       THEN /\ task' = "filters"
            /\ todo' = Filter
            /\ overdue' = {r \in Row : Overdue(r)}
       ELSE UNCHANGED <<task, todo, overdue>>
    /\ UNCHANGED <<uwsgi, table, deleted, fails>>

(* A slip: an entry of 0 days is taken for one that keeps nothing.         *)
SelectsAll(f, r) == kind[r] \in Matches[f] /\ Older(r, Days[f])

(* purge_field, one entry: nothing for 0 days.                             *)
Selects(f, r) ==
    /\ Days[f] # 0
    /\ kind[r] \in Matches[f]
    /\ Older(r, Days[f])

PurgeField ==
    /\ task = "filters"
    /\ \E f \in todo :
           /\ deleted' = deleted \cup {r \in Stored : Selects(f, r)}
           /\ todo' = todo \ {f}
    /\ UNCHANGED <<uwsgi, table, task, due, overdue, fails>>

(* Slips: entries that keep nothing do not count as a match; nothing but   *)
(* the entries is looked at.                                               *)
UnfilteredOrKept(r) == \A f \in Filter : Days[f] = 0 \/ kind[r] \notin Matches[f]
NothingUnfiltered(r) == FALSE

(* ~classification.like(...), field != name: those that keep included.     *)
(* Neither selects a NULL, but the collector stores none: a header it does *)
(* not find is refused or ends in a 500.                                   *)
Unfiltered(r) == \A f \in Filter : kind[r] \notin Matches[f]

PurgeUnfiltered ==
    /\ task = "filters"
    /\ todo = {}
    /\ deleted' = deleted \cup
           {r \in Stored : /\ MAX_DAYS_KEEP_UNFILTERED_RECORDS # 0
                           /\ Unfiltered(r)
                           /\ Older(r, MAX_DAYS_KEEP_UNFILTERED_RECORDS)}
    /\ task' = "commit"
    /\ UNCHANGED <<uwsgi, table, todo, due, overdue, fails>>

(* A slip: the rows an interrupted purge has selected go with the next.    *)
KeepSelection == deleted' = deleted /\ todo' = {} /\ task' = "wait"

Over == deleted' = {} /\ todo' = {} /\ task' = "wait"

Commit ==
    /\ task = "commit"
    /\ kind' = [r \in Row |-> IF r \in deleted THEN NoRecord ELSE kind[r]]
    /\ Over
    /\ UNCHANGED <<uwsgi, age, due, overdue, fails>>

(* except: rollback; the purge of the next day tries again.                *)
Rollback ==
    /\ task # "wait"
    /\ fails < MaxFails
    /\ fails' = fails + 1
    /\ Over
    /\ UNCHANGED <<uwsgi, table, due, overdue>>

Next ==
    \/ Post \/ Tick
    \/ Cron \/ PurgeField \/ PurgeUnfiltered \/ Commit \/ Rollback

Spec == Init /\ [][Next]_vars

(* A purge that has begun comes to an end.                                 *)
FairSpec ==
    /\ Spec
    /\ WF_vars(PurgeField) /\ WF_vars(PurgeUnfiltered) /\ WF_vars(Commit)

-----------------------------------------------------------------------------
(* Whatever the order of the entries, the days the statements fall on and  *)
(* the entries that overlap, a purge deletes only what is overdue.         *)
OnlyOverdueDeleted ==
    [][\A r \in Row : (r \in Stored /\ kind'[r] = NoRecord) => Overdue(r)]_vars

(* A purge that commits leaves nothing that was overdue when it began.     *)
AllOverdueDeleted == [][Commit => \A r \in overdue : kind'[r] = NoRecord]_vars

(* A record that is overdue is deleted in the end, though purges may fail, *)
(* if only the job is started again and again: each purge starts from the  *)
(* whole table.                                                            *)
OverdueGoes ==
    (Enabled /\ []<><<Cron>>_vars) => \A r \in Row : Overdue(r) ~> ~Overdue(r)

(* "When PURGE_OLD_RECORDS == True then a purging system of old records    *)
(* will be triggered daily" (config.py:32-33), if uwsgi runs the jobs that *)
(* it can run.                                                             *)
TriggeredDaily == (PURGE_OLD_RECORDS = TRUE /\ WF_vars(Cron)) => (due ~> ~due)

(* "If this variable is not present, then no purging will be done"         *)
(* (config.py:33).                                                         *)
KeptWhenAbsent ==
    [][PURGE_OLD_RECORDS = Absent => \A r \in Stored : kind'[r] = kind[r]]_vars
=============================================================================
