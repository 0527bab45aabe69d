------------------------ MODULE CrashPipeline_proofs ------------------------
(***************************************************************************)
(* Type correctness of the crash pipeline, that no crash record is left    *)
(* behind the checkpoint (NoGap), that the pipeline implements Grouping,   *)
(* and that resets are honoured, for any number of ids, workers, requests, *)
(* edits and failures.                                                     *)
(***************************************************************************)
EXTENDS CrashPipeline, SequenceTheorems, TLAPS

(* Rows in the hands of an open transaction are pending, one per worker,   *)
(* and ids are handed out in order.                                        *)
RowsInv ==
    /\ \A id \in Id : status[id] = "free" <=> id >= next_id
    /\ \A id \in Id : status[id] # "free" => report[id] \in Report
    /\ \A id \in Id : processed[id] => status[id] \in {"live", "gone"}
    /\ \A w \in Worker : posting[w] # 0 => status[posting[w]] = "pending"
    /\ \A v, w \in Worker : (posting[v] = posting[w] /\ posting[v] # 0) => v = w
    /\ purging \subseteq Live

(* Nothing at or below b is left to do but what has been overtaken and     *)
(* the rows of rest, which the batch still has in hand.                    *)
SafeBelow(b, rest) ==
    \A id \in Id :
        (id <= b /\ (id \in Pending \/ (Waiting(id) /\ id \notin rest))) => id \in overtaken

Started  == {"get_crashes", "insert_guilty", "update_guilty", "update_processed"}
Fetched  == {"insert_guilty", "update_guilty", "update_processed"}

(* The rows the batch has fetched and not attributed yet.                  *)
InHand == IF stage = "update_guilty" THEN todo \cup {rid} ELSE todo

(* The rows the batch may go on to mark.                                   *)
Ahead == IF stage = "insert_guilty" THEN todo ELSE todo \cup {rid}

BatchInv ==
    /\ stage \in Started => /\ \A m \in Marked : m <= last_id
                            /\ last_id < next_id
                            /\ SafeBelow(last_id, {})
    /\ stage \in Fetched => \A b \in Ahead : b < next_id /\ SafeBelow(b, InHand)
    /\ stage = "update_guilty" => gid \in Frame
    /\ stage = "update_processed" => todo = {}

MarksInv == \A m \in Marked : SafeBelow(m, {})

IInv == TypeOK /\ RowsInv /\ BatchInv /\ MarksInv
-----------------------------------------------------------------------------
(* The types of variables that a step leaves alone.                        *)
LEMMA TypesUnchanged ==
    /\ DatabaseTypeOK /\ UNCHANGED db => DatabaseTypeOK'
    /\ CollectorTypeOK /\ UNCHANGED collector => CollectorTypeOK'
    /\ ProcessorTypeOK /\ UNCHANGED processor => ProcessorTypeOK'
    /\ AdminTypeOK /\ UNCHANGED admin => AdminTypeOK'
    /\ GhostTypeOK /\ UNCHANGED ghosts => GhostTypeOK'
  BY DEF DatabaseTypeOK, CollectorTypeOK, ProcessorTypeOK, AdminTypeOK, GhostTypeOK,
         db, columns, collector, processor, admin, ghosts

(* The collector's steps keep the types.                                   *)
LEMMA CollectorTypes == TypeOK /\ CollectorStep => TypeOK'
  <1> SUFFICES ASSUME TypeOK, CollectorStep PROVE TypeOK'
    OBVIOUS
  <1> USE DatabaseAssumption
  <1>1. ProcessorTypeOK' /\ AdminTypeOK' /\ GhostTypeOK'
    BY TypesUnchanged DEF TypeOK, CollectorStep
  <1>2. ASSUME NEW w \in Worker, NEW r \in Report, Insert(w, r)
        PROVE  DatabaseTypeOK' /\ CollectorTypeOK'
    <2> USE <1>2 DEF Insert, TypeOK
    <2>1. CollectorTypeOK'
      BY DEF CollectorTypeOK
    <2>2. status' \in [Id -> Status] /\ report' \in [Id -> Report \cup {NoReport}]
      BY DEF DatabaseTypeOK, Status
    <2>3. next_id' \in Nat \ {0}
      BY DEF DatabaseTypeOK
    <2> QED
      BY <2>1, <2>2, <2>3 DEF DatabaseTypeOK, columns
  <1>3. ASSUME NEW w \in Worker, Commit(w) \/ Rollback(w)
        PROVE  DatabaseTypeOK' /\ CollectorTypeOK'
    <2>1. PICK outcome \in {"live", "gone"} : Finish(w, outcome)
      BY <1>3 DEF Commit, Rollback
    <2> USE <2>1 DEF Finish, TypeOK
    <2>2. CollectorTypeOK'
      BY DEF CollectorTypeOK
    <2>3. posting[w] \in Id /\ status' = [status EXCEPT ![posting[w]] = outcome]
      BY DEF CollectorTypeOK
    <2>4. status' \in [Id -> Status]
      BY <2>3 DEF DatabaseTypeOK, Status
    <2>5. UNCHANGED <<report, processed, guilty_id, next_id, guilties, guilty_blacklisted>>
      BY DEF columns
    <2> QED
      BY <2>2, <2>4, <2>5 DEF DatabaseTypeOK
  <1>4. CASE PurgeSelect \/ PurgeRollback
    <2>1. DatabaseTypeOK'
      BY <1>4, TypesUnchanged DEF PurgeSelect, PurgeRollback, TypeOK
    <2>2. purging' \subseteq Id /\ posting' = posting
      BY <1>4 DEF PurgeSelect, PurgeRollback, Live
    <2> QED
      BY <1>1, <2>1, <2>2 DEF TypeOK, CollectorTypeOK
  <1>5. CASE PurgeDelete
    <2> USE <1>5 DEF PurgeDelete, TypeOK
    <2>1. CollectorTypeOK'
      BY DEF CollectorTypeOK
    <2>2. status' \in [Id -> Status]
      BY DEF DatabaseTypeOK, Status
    <2>3. UNCHANGED <<report, processed, guilty_id, next_id, guilties, guilty_blacklisted>>
      BY DEF columns
    <2> QED
      BY <1>1, <2>1, <2>2, <2>3 DEF DatabaseTypeOK
  <1> QED
    BY <1>1, <1>2, <1>3, <1>4, <1>5 DEF CollectorStep, CollectorNext, TypeOK

(* The steps of the processing loop keep the types.                        *)
LEMMA ProcessorTypes == TypeOK /\ (ProcessorStep \/ FailBatch) => TypeOK'
  <1> SUFFICES ASSUME TypeOK, ProcessorStep \/ FailBatch PROVE TypeOK'
    OBVIOUS
  <1>1. CollectorTypeOK' /\ AdminTypeOK'
    BY TypesUnchanged
       DEF TypeOK, ProcessorStep, FailBatch, BeginBatch, ReadCheckpoint, Fetch,
           ChooseGuilty, Attribute, Mark
  <1>2. DatabaseTypeOK'
    <2>1. CASE BeginBatch \/ ReadCheckpoint \/ Fetch \/ FailBatch
      BY <2>1, TypesUnchanged
         DEF TypeOK, BeginBatch, ReadCheckpoint, Fetch, FailBatch,
             LoadBlacklist, GetLatestId, GetCrashes, Fail
    <2>2. CASE ChooseGuilty
      BY <2>2 DEF TypeOK, ChooseGuilty, InsertGuilty, DatabaseTypeOK, columns
    <2>3. CASE Attribute
      BY <2>3 DEF TypeOK, Attribute, UpdateGuilty, DatabaseTypeOK, ProcessorTypeOK
    <2>4. CASE Mark
      BY <2>4 DEF TypeOK, Mark, UpdateProcessed, DatabaseTypeOK, ProcessorTypeOK
    <2> QED
      BY <2>1, <2>2, <2>3, <2>4 DEF ProcessorStep
  <1>3. ProcessorTypeOK'
    <2> USE DEF TypeOK, ProcessorTypeOK, Stage
    <2>1. CASE BeginBatch
      BY <2>1 DEF BeginBatch, LoadBlacklist, DatabaseTypeOK
    <2>2. CASE ReadCheckpoint
      BY <2>2 DEF ReadCheckpoint, GetLatestId
    <2>3. CASE Fetch
      BY <2>3 DEF Fetch, GetCrashes, Exit, Crashes, Live
    <2>4. CASE ChooseGuilty
      BY <2>4 DEF ChooseGuilty, InsertGuilty, NextRow
    <2>5. CASE Attribute
      BY <2>5 DEF Attribute, UpdateGuilty, NextRow, batch
    <2>6. CASE Mark
      BY <2>6 DEF Mark, UpdateProcessed, Exit
    <2>7. CASE FailBatch
      BY <2>7 DEF FailBatch, Fail, Exit
    <2> QED
      BY <2>1, <2>2, <2>3, <2>4, <2>5, <2>6, <2>7 DEF ProcessorStep
  <1>4. GhostTypeOK'
    <2> USE DEF TypeOK, GhostTypeOK
    <2>1. CASE BeginBatch
      BY <2>1 DEF BeginBatch
    <2>2. CASE ReadCheckpoint \/ ChooseGuilty
      BY <2>2, TypesUnchanged DEF ReadCheckpoint, ChooseGuilty
    <2>3. CASE Fetch
      BY <2>3 DEF Fetch, Pending
    <2>4. CASE Attribute
      BY <2>4 DEF Attribute
    <2>5. CASE Mark
      BY <2>5 DEF Mark
    <2>6. CASE FailBatch
      <3>1. fails' \in Nat
        BY <2>6 DEF FailBatch
      <3>2. straddling' \in BOOLEAN
        BY <2>6 DEF FailBatch
      <3>3. UNCHANGED <<history, bl_version, version, overtaken, pledge,
                        promised, applied, raced>>
        BY <2>6 DEF FailBatch
      <3> QED
        BY <3>1, <3>2, <3>3
    <2> QED
      BY <2>1, <2>2, <2>3, <2>4, <2>5, <2>6 DEF ProcessorStep
  <1> QED
    BY <1>1, <1>2, <1>3, <1>4 DEF TypeOK

(* The blacklist pages keep the types.                                     *)
LEMMA AdminTypes == TypeOK /\ AdminStep => TypeOK'
  <1> SUFFICES ASSUME TypeOK, AdminStep PROVE TypeOK'
    OBVIOUS
  <1>1. CollectorTypeOK' /\ ProcessorTypeOK'
    BY TypesUnchanged
       DEF TypeOK, AdminStep, EditBlacklist, RequestReset, ReadRecords, CommitOne,
           CommitAll, AbortRequest, RemovePair
  <1> USE DEF TypeOK, DatabaseTypeOK, AdminTypeOK, GhostTypeOK, Request
  <1>2. ASSUME NEW a \in Admin, EditBlacklist(a)
        PROVE  DatabaseTypeOK' /\ AdminTypeOK' /\ GhostTypeOK'
    <2>1. PICK id \in Id, checked \in SUBSET Frame : Apply(a, id, checked) \/ Submit(a, id, checked)
      BY <1>2 DEF EditBlacklist
    <2>2. DatabaseTypeOK' /\ AdminTypeOK'
      BY <2>1 DEF Apply, Submit, Edit, columns
    <2>3. history' \in Seq(SUBSET Frame) /\ history' # <<>> /\ pledge' \in [Admin -> Nat]
      BY <1>2, <2>2 DEF EditBlacklist, Pledge
    <2> QED
      BY <1>2, <2>2, <2>3 DEF EditBlacklist
  <1>3. ASSUME NEW a \in Admin, RequestReset(a) \/ ReadRecords(a) \/ AbortRequest(a)
        PROVE  DatabaseTypeOK' /\ AdminTypeOK' /\ GhostTypeOK'
    <2>1. DatabaseTypeOK'
      BY <1>3, TypesUnchanged DEF RequestReset, Reset, ReadRecords, ResetRead, AbortRequest, Abort
    <2>2. AdminTypeOK'
      BY <1>3 DEF RequestReset, Reset, ReadRecords, ResetRead, AbortRequest, Abort, End, Marked, Live
    <2>3. GhostTypeOK'
      BY <1>3, TypesUnchanged DEF RequestReset, ReadRecords, AbortRequest, Forget
    <2> QED
      BY <2>1, <2>2, <2>3
  <1>4. ASSUME NEW a \in Admin, CommitOne(a) \/ CommitAll(a)
        PROVE  DatabaseTypeOK' /\ AdminTypeOK' /\ GhostTypeOK'
    <2>1. DatabaseTypeOK' /\ AdminTypeOK'
      BY <1>4 DEF CommitOne, CommitAll, ResetCommit, End
    <2>2. GhostTypeOK'
      <3>1. pledge' \in [Admin -> Nat]
        <4>1. pledge' = [pledge EXCEPT ![a] = 0]
          BY <1>4 DEF CommitOne, CommitAll, Forget
        <4> QED
          BY <4>1
      <3>4. promised' \in Nat
        BY <1>4 DEF CommitOne, CommitAll
      <3>5. applied' \in [Id -> Nat]
        BY <1>4 DEF CommitOne, CommitAll
      <3>2. straddling' \in BOOLEAN /\ raced' \in BOOLEAN
        BY <1>4 DEF CommitOne, CommitAll
      <3>3. UNCHANGED <<history, bl_version, version, overtaken, fails>>
        BY <1>4 DEF CommitOne, CommitAll
      <3> QED
        BY <3>1, <3>2, <3>3, <3>4, <3>5
    <2> QED
      BY <2>1, <2>2
  <1>5. CASE RemovePair
    <2>1. DatabaseTypeOK' /\ AdminTypeOK'
      BY <1>5, TypesUnchanged DEF RemovePair, Remove, columns
    <2>2. history' \in Seq(SUBSET Frame) /\ history' # <<>>
      <3>1. history' = Append(history, guilty_blacklisted')
        BY <1>5 DEF RemovePair
      <3>2. guilty_blacklisted' \in SUBSET Frame /\ history \in Seq(SUBSET Frame)
        BY <2>1
      <3> QED
        BY <3>1, <3>2
    <2>3. UNCHANGED <<bl_version, version, overtaken, pledge, promised, applied,
                      straddling, raced, fails>>
      BY <1>5 DEF RemovePair
    <2> QED
      BY <1>1, <2>1, <2>2, <2>3
  <1> QED
    BY <1>1, <1>2, <1>3, <1>4, <1>5 DEF AdminStep

LEMMA TypeStep == TypeOK /\ [Next]_vars => TypeOK'
  BY CollectorTypes, ProcessorTypes, AdminTypes, TypesUnchanged DEF Next, vars, TypeOK

LEMMA InitTypes == Init => TypeOK
  <1> SUFFICES ASSUME Init PROVE TypeOK
    OBVIOUS
  <1> USE DEF Init
  <1>1. DatabaseTypeOK
    BY DEF DatabaseInit, DatabaseTypeOK, Status
  <1>2. CollectorTypeOK /\ ProcessorTypeOK /\ AdminTypeOK
    BY DEF CollectorInit, ProcessorInit, AdminInit, CollectorTypeOK, ProcessorTypeOK,
           AdminTypeOK, Stage, Request
  <1>3. GhostTypeOK
    <2>1. history \in Seq(SUBSET Frame) /\ history # <<>>
      OBVIOUS
    <2> QED
      BY <2>1 DEF GhostTypeOK
  <1> QED
    BY <1>1, <1>2, <1>3 DEF TypeOK

(* Type correctness of the whole pipeline.                                 *)
THEOREM TypeCorrect == Spec => []TypeOK
  BY InitTypes, TypeStep, PTL DEF Spec

-----------------------------------------------------------------------------
(* The rows and the transactions that hold them.                           *)
LEMMA RowsStep == TypeOK /\ RowsInv /\ [Next]_vars => RowsInv'
  <1> SUFFICES ASSUME TypeOK, RowsInv, [Next]_vars PROVE RowsInv'
    OBVIOUS
  <1> USE DatabaseAssumption DEF TypeOK, DatabaseTypeOK, CollectorTypeOK, RowsInv, Live
  <1>1. CASE /\ UNCHANGED <<status, report, next_id, posting, purging>>
             /\ \A id \in Id : processed'[id] => processed[id] \/ status[id] = "live"
    BY <1>1
  <1>2. ASSUME NEW w \in Worker, NEW r \in Report, Insert(w, r) PROVE RowsInv'
    <2> USE <1>2 DEF Insert
    <2>1. /\ next_id \in Id /\ next_id \in Nat \ {0} /\ next_id' = next_id + 1
          /\ status[next_id] = "free"
      OBVIOUS
    <2>2. /\ \A id \in Id : status'[id] = IF id = next_id THEN "pending" ELSE status[id]
          /\ \A id \in Id : report'[id] = IF id = next_id THEN r ELSE report[id]
          /\ \A v \in Worker : posting'[v] = IF v = w THEN next_id ELSE posting[v]
      OBVIOUS
    <2>8. \A id \in Id : processed'[id] => status'[id] \in {"live", "gone"}
      BY <2>2 DEF columns
    <2>3. \A id \in Id : status'[id] = "free" <=> id >= next_id'
      BY <2>1, <2>2
    <2>4. \A id \in Id : status'[id] # "free" => report'[id] \in Report
      BY <2>1, <2>2
    <2>5. \A v \in Worker : posting'[v] # 0 => status'[posting'[v]] = "pending"
      BY <2>1, <2>2
    <2>6. \A u, v \in Worker : (posting'[u] = posting'[v] /\ posting'[u] # 0) => u = v
      BY <2>1, <2>2
    <2>7. purging' \subseteq Live'
      BY <2>1, <2>2
    <2> QED
      BY <2>3, <2>4, <2>5, <2>6, <2>7, <2>8
  <1>3. ASSUME NEW w \in Worker, Commit(w) \/ Rollback(w) PROVE RowsInv'
    <2>1. PICK outcome \in {"live", "gone"} : Finish(w, outcome)
      BY <1>3 DEF Commit, Rollback
    <2> USE <2>1 DEF Finish
    <2>2. /\ posting[w] \in Id /\ status[posting[w]] = "pending"
          /\ \A id \in Id : status'[id] = IF id = posting[w] THEN outcome ELSE status[id]
          /\ \A v \in Worker : posting'[v] = IF v = w THEN 0 ELSE posting[v]
          /\ next_id' = next_id /\ report' = report /\ purging' = purging
      OBVIOUS
    <2>8. \A id \in Id : processed'[id] => status'[id] \in {"live", "gone"}
      BY <2>2 DEF columns
    <2>3. \A id \in Id : status'[id] = "free" <=> id >= next_id'
      BY <2>2
    <2>4. \A id \in Id : status'[id] # "free" => report'[id] \in Report
      BY <2>2
    <2>5. \A v \in Worker : posting'[v] # 0 => status'[posting'[v]] = "pending"
      BY <2>2
    <2>6. \A u, v \in Worker : (posting'[u] = posting'[v] /\ posting'[u] # 0) => u = v
      BY <2>2
    <2>7. purging' \subseteq Live'
      BY <2>2
    <2> QED
      BY <2>3, <2>4, <2>5, <2>6, <2>7, <2>8
  <1>4. CASE PurgeSelect \/ PurgeRollback
    <2>1. UNCHANGED <<status, report, processed, next_id, posting>>
      BY <1>4 DEF PurgeSelect, PurgeRollback, db, columns
    <2>2. CASE PurgeSelect
      <3>1. PICK ids \in SUBSET Live : purging' = ids
        BY <2>2 DEF PurgeSelect
      <3> QED
        BY <2>1, <3>1
    <2>3. CASE PurgeRollback
      BY <2>1, <2>3 DEF PurgeRollback
    <2> QED
      BY <1>4, <2>2, <2>3
  <1>5. CASE PurgeDelete
    <2> USE <1>5 DEF PurgeDelete
    <2>1. /\ \A id \in Id : status'[id] = IF id \in purging THEN "gone" ELSE status[id]
          /\ \A id \in purging : id \in Id /\ status[id] = "live"
          /\ purging' = {} /\ posting' = posting /\ next_id' = next_id /\ report' = report
      OBVIOUS
    <2>2. \A v \in Worker : posting'[v] # 0 => status'[posting'[v]] = "pending"
      BY <2>1
    <2>3. \A id \in Id : processed'[id] => status'[id] \in {"live", "gone"}
      BY <2>1 DEF columns
    <2>4. \A id \in Id : status'[id] = "free" <=> id >= next_id'
      BY <2>1
    <2>5. \A id \in Id : status'[id] # "free" => report'[id] \in Report
      BY <2>1
    <2>6. \A u, v \in Worker : (posting'[u] = posting'[v] /\ posting'[u] # 0) => u = v
      BY <2>1
    <2>7. purging' \subseteq Live'
      BY <2>1
    <2> QED
      BY <2>2, <2>3, <2>4, <2>5, <2>6, <2>7
  <1>6. CASE CollectorStep
    BY <1>2, <1>3, <1>4, <1>5, <1>6 DEF CollectorStep, CollectorNext
  <1>7. CASE ProcessorStep \/ FailBatch
    <2>1. UNCHANGED <<status, report, next_id, posting, purging>>
      BY <1>7
         DEF ProcessorStep, FailBatch, BeginBatch, ReadCheckpoint, Fetch, ChooseGuilty,
             Attribute, Mark, LoadBlacklist, GetLatestId, GetCrashes, InsertGuilty,
             UpdateGuilty, UpdateProcessed, Fail, db, collector
    <2>2. \A id \in Id : processed'[id] => processed[id] \/ status[id] = "live"
      <3>1. CASE Mark
        BY <3>1 DEF Mark, UpdateProcessed, ProcessorTypeOK
      <3>2. CASE ~Mark
        BY <1>7, <3>2
           DEF ProcessorStep, FailBatch, BeginBatch, ReadCheckpoint, Fetch, ChooseGuilty,
               Attribute, LoadBlacklist, GetLatestId, GetCrashes, InsertGuilty,
               UpdateGuilty, Fail, db, columns
      <3> QED
        BY <3>1, <3>2
    <2> QED
      BY <1>1, <2>1, <2>2
  <1>8. CASE AdminStep
    <2>1. UNCHANGED <<status, report, next_id, posting, purging>>
      BY <1>8
         DEF AdminStep, EditBlacklist, RequestReset, RemovePair, ReadRecords, CommitOne,
             CommitAll, AbortRequest, Apply, Submit, Edit, Reset, Remove, ResetRead,
             ResetCommit, Abort, db, collector
    <2>2. \A id \in Id : processed'[id] => processed[id]
      BY <1>8
         DEF AdminStep, EditBlacklist, RequestReset, RemovePair, ReadRecords, CommitOne,
             CommitAll, AbortRequest, Apply, Submit, Edit, Reset, Remove, ResetRead,
             ResetCommit, Abort, db, columns
    <2> QED
      BY <1>1, <2>1, <2>2
  <1>9. CASE UNCHANGED vars
    BY <1>1, <1>9 DEF vars, db, columns, collector
  <1> QED
    BY <1>6, <1>7, <1>8, <1>9 DEF Next

-----------------------------------------------------------------------------
(* A step that only adds work above every id that has been handed out: a   *)
(* row becomes pending when its id is new, and waits only after that.      *)
Quiet ==
    /\ overtaken' = overtaken
    /\ next_id' >= next_id
    /\ \A id \in Id :
          /\ id \in Pending' => id \in Pending \/ id >= next_id
          /\ Waiting(id)' => Waiting(id) \/ id \in Pending

LEMMA QuietStep ==
    TypeOK /\ RowsInv /\ BatchInv /\ [Next]_vars => Quiet \/ Fetch
  <1> SUFFICES ASSUME TypeOK, RowsInv, BatchInv, [Next]_vars, ~Fetch PROVE Quiet
    OBVIOUS
  <1> USE DatabaseAssumption
      DEF TypeOK, DatabaseTypeOK, CollectorTypeOK, RowsInv, Pending, Live, Waiting, IsCrash, HasFrames
  <1>1. CASE UNCHANGED <<status, report, guilty_id, next_id, overtaken>>
    BY <1>1 DEF Quiet
  <1>2. CASE CollectorStep
    <2>1. overtaken' = overtaken /\ guilty_id' = guilty_id
      BY <1>2 DEF CollectorStep, CollectorNext, Insert, Commit, Rollback, Finish,
                  PurgeSelect, PurgeDelete, PurgeRollback, ghosts, db, columns
    <2>2. ASSUME NEW w \in Worker, NEW r \in Report, Insert(w, r) PROVE Quiet
      <3>1. /\ next_id \in Id /\ next_id' = next_id + 1 /\ next_id \in Nat
            /\ \A id \in Id : status'[id] = IF id = next_id THEN "pending" ELSE status[id]
            /\ \A id \in Id : report'[id] = IF id = next_id THEN r ELSE report[id]
        BY <2>2 DEF Insert
      <3>2. \A id \in Id : id = next_id \/ (status'[id] = status[id] /\ report'[id] = report[id])
        BY <3>1
      <3>3. \A id \in Id : Waiting(id)' => Waiting(id)
        BY <2>1, <3>1, <3>2
      <3>4. ASSUME NEW id \in Id, id \in Pending' PROVE id \in Pending \/ id >= next_id
        <4>1. CASE id = next_id
          BY <3>1, <4>1
        <4>2. CASE id # next_id
          BY <3>2, <3>4, <4>2
        <4> QED
          BY <4>1, <4>2
      <3>5. next_id' >= next_id
        BY <3>1
      <3> QED
        BY <2>1, <3>3, <3>4, <3>5 DEF Quiet
    <2>3. ASSUME NEW w \in Worker, Commit(w) \/ Rollback(w) PROVE Quiet
      <3>1. PICK outcome \in {"live", "gone"} : Finish(w, outcome)
        BY <2>3 DEF Commit, Rollback
      <3>2. /\ posting[w] \in Id /\ status[posting[w]] = "pending"
            /\ \A id \in Id : status'[id] = IF id = posting[w] THEN outcome ELSE status[id]
            /\ report' = report /\ next_id' = next_id
        BY <3>1 DEF Finish
      <3> QED
        BY <2>1, <3>2 DEF Quiet
    <2>4. CASE PurgeSelect \/ PurgeRollback
      BY <1>1, <2>1, <2>4 DEF PurgeSelect, PurgeRollback, db
    <2>5. CASE PurgeDelete
      <3>1. /\ \A id \in Id : status'[id] = IF id \in purging THEN "gone" ELSE status[id]
            /\ report' = report /\ next_id' = next_id
        BY <2>5 DEF PurgeDelete
      <3>2. \A id \in Id : /\ status'[id] = "pending" => status[id] = "pending"
                          /\ status'[id] = "live" => status[id] = "live"
        BY <3>1
      <3>3. \A id \in Id : Waiting(id)' => Waiting(id)
        BY <2>1, <3>1, <3>2
      <3> QED
        BY <2>1, <3>1, <3>2, <3>3 DEF Quiet
    <2> QED
      BY <1>2, <2>2, <2>3, <2>4, <2>5 DEF CollectorStep, CollectorNext
  <1>3. CASE BeginBatch \/ ReadCheckpoint \/ ChooseGuilty \/ Mark \/ FailBatch
    <2>1. UNCHANGED <<status, report, guilty_id, next_id, overtaken>>
      BY <1>3
         DEF BeginBatch, ReadCheckpoint, ChooseGuilty, Mark, FailBatch,
             LoadBlacklist, GetLatestId, InsertGuilty, UpdateProcessed, Fail, db, columns, ghosts
    <2> QED
      BY <1>1, <2>1
  <1>4. CASE Attribute
    <2>1. UNCHANGED <<status, report, next_id, overtaken>>
      BY <1>4 DEF Attribute, UpdateGuilty
    <2>2. gid \in Frame /\ gid # NoGuilty /\ rid \in Id
      BY <1>4, FrameAssumption DEF Attribute, UpdateGuilty, BatchInv, ProcessorTypeOK
    <2>3. \A id \in Id : guilty_id'[id] = guilty_id[id] \/ guilty_id'[id] = gid
      BY <1>4, <2>2 DEF Attribute, UpdateGuilty
    <2> QED
      BY <2>1, <2>2, <2>3 DEF Quiet
  <1>5. CASE AdminStep
    <2>1. UNCHANGED <<status, report, guilty_id, next_id, overtaken>>
      BY <1>5
         DEF AdminStep, EditBlacklist, RequestReset, RemovePair, ReadRecords, CommitOne,
             CommitAll, AbortRequest, Apply, Submit, Edit, Reset, Remove, ResetRead,
             ResetCommit, Abort, db, columns, ghosts
    <2> QED
      BY <1>1, <2>1
  <1>6. CASE UNCHANGED vars
    BY <1>1, <1>6 DEF vars, db, columns, ghosts
  <1> QED
    BY <1>2, <1>3, <1>4, <1>5, <1>6 DEF Next, ProcessorStep

(* Only Mark adds a mark.                                                  *)
LEMMA MarkedStep ==
    TypeOK /\ RowsInv /\ [Next]_vars =>
        Marked' \subseteq Marked \/ (Mark /\ Marked' \subseteq Marked \cup {rid})
  <1> SUFFICES ASSUME TypeOK, RowsInv, [Next]_vars
               PROVE  Marked' \subseteq Marked \/ (Mark /\ Marked' \subseteq Marked \cup {rid})
    OBVIOUS
  <1> USE DEF Marked, Live
  <1>1. CASE UNCHANGED status /\ \A id \in Id : processed'[id] => processed[id]
    BY <1>1
  <1>2. CASE CollectorStep
    <2>1. processed' = processed
      BY <1>2 DEF CollectorStep, CollectorNext, Insert, Commit, Rollback, Finish,
                  PurgeSelect, PurgeDelete, PurgeRollback, db, columns
    <2>2. \A id \in Id : (processed[id] /\ status'[id] = "live") => status[id] = "live"
      <3>1. CASE UNCHANGED status
        BY <3>1
      <3>2. ASSUME NEW w \in Worker, NEW r \in Report, Insert(w, r)
            PROVE  \A id \in Id : status'[id] = "live" => status[id] = "live"
        BY <3>2 DEF Insert, TypeOK, DatabaseTypeOK
      <3>3. ASSUME NEW w \in Worker, Commit(w) \/ Rollback(w)
            PROVE  \A id \in Id : (processed[id] /\ status'[id] = "live") => status[id] = "live"
        BY <3>3 DEF Commit, Rollback, Finish, TypeOK, DatabaseTypeOK, CollectorTypeOK, RowsInv
      <3>4. CASE PurgeSelect \/ PurgeDelete \/ PurgeRollback
        BY <3>4 DEF PurgeSelect, PurgeDelete, PurgeRollback, db, TypeOK, DatabaseTypeOK
      <3> QED
        BY <1>2, <3>1, <3>2, <3>3, <3>4 DEF CollectorStep, CollectorNext
    <2> QED
      BY <2>1, <2>2
  <1>3. CASE Mark
    BY <1>3 DEF Mark, UpdateProcessed, TypeOK, DatabaseTypeOK, ProcessorTypeOK
  <1>4. CASE (ProcessorStep /\ ~Mark) \/ FailBatch
    <2>1. UNCHANGED <<status, processed>>
      BY <1>4
         DEF ProcessorStep, FailBatch, BeginBatch, ReadCheckpoint, Fetch, ChooseGuilty,
             Attribute, LoadBlacklist, GetLatestId, GetCrashes, InsertGuilty,
             UpdateGuilty, Fail, db, columns
    <2> QED
      BY <1>1, <2>1
  <1>5. CASE AdminStep
    <2>1. UNCHANGED status /\ \A id \in Id : processed'[id] => processed[id]
      BY <1>5
         DEF AdminStep, EditBlacklist, RequestReset, RemovePair, ReadRecords, CommitOne,
             CommitAll, AbortRequest, Apply, Submit, Edit, Reset, Remove, ResetRead,
             ResetCommit, Abort, db, columns
    <2> QED
      BY <1>1, <2>1
  <1>6. CASE UNCHANGED vars
    BY <1>1, <1>6 DEF vars, db, columns
  <1> QED
    BY <1>2, <1>3, <1>4, <1>5, <1>6 DEF Next

(* Every mark, old or new, is safe: a batch marks only a row that it may   *)
(* still reach, when it has no other row in hand.                          *)
LEMMA MarksStep ==
    TypeOK /\ RowsInv /\ BatchInv /\ MarksInv /\ [Next]_vars => MarksInv'
  <1> SUFFICES ASSUME TypeOK, RowsInv, BatchInv, MarksInv, [Next]_vars,
                      NEW m \in Marked', NEW id \in Id, id <= m,
                      (id \in Pending)' \/ Waiting(id)'
               PROVE  id \in overtaken'
    BY DEF MarksInv, SafeBelow
  <1> USE DatabaseAssumption
  <1>1. m \in Id /\ id \in Nat /\ m \in Nat
    BY DEF Marked, Live
  <1>2. ASSUME NEW n \in Marked PROVE n < next_id
    BY <1>2 DEF Marked, Live, RowsInv, TypeOK, DatabaseTypeOK
  <1>3. CASE Quiet
    <2>1. CASE m \in Marked
      <3>1. (id \in Pending) \/ Waiting(id)
        BY <1>1, <1>2, <1>3, <2>1 DEF Quiet, TypeOK, DatabaseTypeOK
      <3> QED
        BY <1>3, <2>1, <3>1 DEF MarksInv, SafeBelow, Quiet
    <2>2. CASE Mark /\ m = rid
      <3>1. stage = "update_processed"
        BY <2>2 DEF Mark, UpdateProcessed
      <3>2. rid < next_id /\ SafeBelow(rid, {})
        BY <3>1 DEF BatchInv, Fetched, Ahead, InHand
      <3>3. (id \in Pending) \/ Waiting(id)
        BY <1>1, <1>3, <2>2, <3>2 DEF Quiet, TypeOK, DatabaseTypeOK
      <3> QED
        BY <1>3, <2>2, <3>2, <3>3 DEF SafeBelow, Quiet
    <2> QED
      BY <2>1, <2>2, MarkedStep
  <1>4. CASE Fetch
    <2>1. m \in Marked /\ ((id \in Pending) \/ Waiting(id))
      BY <1>4 DEF Fetch, GetCrashes, db, columns, Marked, Live, Pending, Waiting, IsCrash, HasFrames
    <2>2. id \in overtaken
      BY <2>1 DEF MarksInv, SafeBelow
    <2>3. id <= last_id
      BY <1>1, <1>4, <2>1 DEF Fetch, GetCrashes, BatchInv, Started, TypeOK, ProcessorTypeOK
    <2>4. id \notin todo'
      BY <1>1, <1>4, <2>3 DEF Fetch, GetCrashes, Exit, Crashes, TypeOK, ProcessorTypeOK
    <2> QED
      BY <1>4, <2>2, <2>4 DEF Fetch
  <1> QED
    BY <1>3, <1>4, QuietStep

(* While the pipeline is quiet, what is safe stays safe.                   *)
LEMMA StaysSafe ==
    ASSUME TypeOK, Quiet, NEW b \in Int, b < next_id,
           NEW rest, NEW later, SafeBelow(b, rest),
           \A id \in Id : (Waiting(id)' /\ id \in rest) => id \in later
    PROVE  \A id \in Id : (id <= b /\ ((id \in Pending)' \/ (Waiting(id)' /\ id \notin later)))
                              => id \in overtaken'
  <1> SUFFICES ASSUME NEW id \in Id, id <= b,
                      (id \in Pending)' \/ (Waiting(id)' /\ id \notin later)
               PROVE  id \in overtaken'
    OBVIOUS
  <1>1. id < next_id /\ ~(id >= next_id)
    BY DatabaseAssumption DEF TypeOK, DatabaseTypeOK
  <1>2. (id \in Pending) \/ (Waiting(id) /\ id \notin rest)
    BY <1>1 DEF Quiet
  <1> QED
    BY <1>2 DEF SafeBelow, Quiet

(* Steps of the other parts leave the batch as it is.                      *)
LEMMA OutsideStep ==
    ASSUME TypeOK, TypeOK', BatchInv, Quiet, Marked' \subseteq Marked, UNCHANGED processor
    PROVE  BatchInv'
  <1> USE DatabaseAssumption
  <1>1. /\ stage' = stage /\ last_id' = last_id /\ todo' = todo /\ rid' = rid /\ gid' = gid
        /\ InHand' = InHand /\ Ahead' = Ahead
    BY DEF processor, InHand, Ahead
  <1>2. /\ last_id \in Int /\ next_id \in Int /\ next_id' \in Int /\ next_id' >= next_id
        /\ \A b \in Ahead : b \in Int
    BY DEF TypeOK, ProcessorTypeOK, DatabaseTypeOK, Quiet, Ahead
  <1>3. ASSUME stage \in Started
        PROVE  (\A m \in Marked' : m <= last_id') /\ last_id' < next_id' /\ SafeBelow(last_id, {})'
    <2>1. (\A m \in Marked : m <= last_id) /\ last_id < next_id /\ SafeBelow(last_id, {})
      BY <1>3 DEF BatchInv
    <2>2. SafeBelow(last_id, {})'
      BY <1>1, <1>2, <2>1, StaysSafe DEF SafeBelow
    <2> QED
      BY <1>1, <1>2, <2>1, <2>2
  <1>4. ASSUME stage \in Fetched, NEW b \in Ahead
        PROVE  b < next_id' /\ (SafeBelow(b, InHand))'
    <2>1. b < next_id /\ SafeBelow(b, InHand)
      BY <1>4 DEF BatchInv
    <2>2. \A id \in Id : (id <= b /\ ((id \in Pending)' \/ (Waiting(id)' /\ id \notin InHand)))
                             => id \in overtaken'
      BY <1>2, <2>1, StaysSafe
    <2> QED
      BY <1>1, <1>2, <2>1, <2>2 DEF SafeBelow
  <1> QED
    BY <1>1, <1>3, <1>4 DEF BatchInv

(* The steps of the batch.                                                 *)
LEMMA BatchStep ==
    TypeOK /\ RowsInv /\ BatchInv /\ MarksInv /\ [Next]_vars => BatchInv'
  <1> SUFFICES ASSUME TypeOK, RowsInv, BatchInv, MarksInv, [Next]_vars PROVE BatchInv'
    OBVIOUS
  <1>a. Id \subseteq Nat \ {0}
    BY DatabaseAssumption
  <1>0. TypeOK'
    BY TypeStep
  <1>1. ASSUME ~ProcessorStep, ~FailBatch PROVE BatchInv'
    <2>1. UNCHANGED processor
      BY <1>1 DEF Next, vars, CollectorStep, AdminStep, EditBlacklist, RequestReset,
                  RemovePair, ReadRecords, CommitOne, CommitAll, AbortRequest
    <2>2. Quiet
      BY <1>1, QuietStep DEF ProcessorStep
    <2>3. Marked' \subseteq Marked
      BY <1>1, MarkedStep DEF ProcessorStep
    <2> QED
      BY <1>0, <2>1, <2>2, <2>3, OutsideStep
  <1>2. CASE BeginBatch \/ Mark \/ FailBatch
    <2>1. stage' \in {"sleep", "get_latest_id"}
      BY <1>2 DEF BeginBatch, Mark, FailBatch, LoadBlacklist, UpdateProcessed, Fail, Exit
    <2> QED
      BY <2>1 DEF BatchInv, Started, Fetched
  <1>3. CASE ReadCheckpoint
    <2>1. stage' = "get_crashes" /\ UNCHANGED <<db, overtaken>>
      BY <1>3 DEF ReadCheckpoint, GetLatestId, ghosts
    <2>2. /\ \A m \in Marked : m <= last_id'
          /\ last_id' \in Marked \/ last_id' = 0
      BY <1>3 DEF ReadCheckpoint, GetLatestId, LastProcessed
    <2>3. last_id' < next_id
      <3>1. last_id' = 0 \/ (last_id' \in Id /\ status[last_id'] = "live")
        BY <2>2 DEF Marked, Live
      <3>2. \A id \in Id : status[id] = "free" <=> id >= next_id
        BY DEF RowsInv
      <3>3. next_id \in Nat \ {0} /\ \A id \in Id : id \in Nat
        BY <1>a DEF TypeOK, DatabaseTypeOK
      <3> QED
        BY <3>1, <3>2, <3>3
    <2>4. \A id \in Id : (id <= last_id' /\ ((id \in Pending) \/ Waiting(id))) => id \in overtaken
      BY <1>a, <2>2 DEF MarksInv, SafeBelow
    <2>5. /\ Marked' = Marked /\ next_id' = next_id
          /\ \A id \in Id : (id \in Pending)' = (id \in Pending) /\ Waiting(id)' = Waiting(id)
      BY <2>1 DEF db, columns, Marked, Live, Pending, Waiting, IsCrash, HasFrames
    <2> QED
      BY <2>1, <2>2, <2>3, <2>4, <2>5 DEF BatchInv, Started, Fetched, SafeBelow
  <1>4. CASE Fetch
    <2>1. CASE stage' = "sleep"
      BY <2>1 DEF BatchInv, Started, Fetched
    <2>2. CASE stage' # "sleep"
      <3>1. /\ stage = "get_crashes" /\ stage' = "insert_guilty"
            /\ todo' = Crashes /\ last_id' = last_id /\ UNCHANGED db
            /\ overtaken' = (overtaken \ todo') \cup
                                {id \in Pending : \E later \in todo' : id < later}
        BY <1>4, <2>2 DEF Fetch, GetCrashes, Exit
      <3>2. /\ \A m \in Marked : m <= last_id
            /\ last_id < next_id
            /\ SafeBelow(last_id, {})
        BY <3>1 DEF BatchInv, Started
      <3>3. /\ Marked' = Marked /\ next_id' = next_id
            /\ \A id \in Id : (id \in Pending)' = (id \in Pending) /\ Waiting(id)' = Waiting(id)
        BY <3>1 DEF db, columns, Marked, Live, Pending, Waiting, IsCrash, HasFrames
      <3>4. \A b \in todo' : b \in Live /\ IsCrash(b) /\ b > last_id /\ b < next_id
        BY <1>a, <3>1 DEF Crashes, Live, RowsInv, TypeOK, DatabaseTypeOK
      <3>5. ASSUME NEW id \in Id, id <= last_id, (id \in Pending) \/ Waiting(id)
            PROVE  id \in overtaken'
        <4>1. id \in overtaken
          BY <3>2, <3>5 DEF SafeBelow
        <4>2. id \notin todo'
          BY <1>a, <3>1, <3>5 DEF Crashes, TypeOK, ProcessorTypeOK
        <4> QED
          BY <3>1, <4>1, <4>2
      <3>6. ASSUME NEW b \in todo', NEW id \in Id, id <= b,
                   (id \in Pending) \/ (Waiting(id) /\ id \notin todo')
            PROVE  id \in overtaken'
        <4>1. CASE id \in Pending
          <5>1. id # b
            BY <3>4, <4>1 DEF Live, Pending
          <5>2. id < b
            <6>1. b \in Id
              BY <3>4 DEF Live
            <6>2. id \in Int /\ b \in Int
              BY <1>a, <6>1
            <6> QED
              BY <3>6, <5>1, <6>2
          <5> QED
            BY <3>1, <4>1, <5>2
        <4>2. CASE Waiting(id) /\ id \notin todo'
          <5>1. ~(id > last_id)
            BY <3>1, <4>2 DEF Crashes, Waiting
          <5>2. id <= last_id
            BY <1>a, <5>1 DEF TypeOK, ProcessorTypeOK
          <5> QED
            BY <3>5, <4>2, <5>2
        <4> QED
          BY <3>6, <4>1, <4>2
      <3>7. InHand' = todo' /\ Ahead' = todo'
        BY <3>1 DEF InHand, Ahead
      <3> QED
        BY <3>1, <3>2, <3>3, <3>4, <3>5, <3>6, <3>7 DEF BatchInv, Started, Fetched, SafeBelow
    <2> QED
      BY <2>1, <2>2
  <1>5. CASE ChooseGuilty \/ Attribute
    <2>1. /\ Quiet /\ next_id' = next_id /\ Marked' = Marked /\ last_id' = last_id
          /\ stage \in Fetched
      <3>1. /\ stage \in Fetched /\ UNCHANGED <<status, processed, next_id, last_id>>
        BY <1>5 DEF ChooseGuilty, InsertGuilty, Attribute, UpdateGuilty, columns, batch, Fetched
      <3>2. ~Fetch
        BY <3>1 DEF Fetch, GetCrashes, Fetched
      <3> QED
        BY <3>1, <3>2, QuietStep DEF Marked, Live
    <2>2. /\ stage' \in Fetched
          /\ Ahead' \subseteq Ahead
          /\ stage' = "update_guilty" => gid' \in Frame
          /\ stage' = "update_processed" => todo' = {}
          /\ \A id \in Id : (Waiting(id)' /\ id \in InHand) => id \in InHand'
      <3>1. CASE ChooseGuilty
        <4>1. PICK guilty \in Frame \cup {NoGuilty} :
                  /\ IsGuilty(report[rid'].lines, contains, guilty)
                  /\ IF guilty = NoGuilty
                     THEN NextRow(todo') /\ UNCHANGED <<gid, guilties>>
                     ELSE /\ guilties' = guilties \cup {guilty}
                          /\ gid' = guilty
                          /\ stage' = "update_guilty"
          BY <3>1 DEF ChooseGuilty, InsertGuilty
        <4>2. rid' \in todo /\ todo' = todo \ {rid'} /\ stage = "insert_guilty"
          BY <3>1 DEF ChooseGuilty, InsertGuilty, First
        <4>3. CASE guilty = NoGuilty
          <5>1. Crashing(report[rid'].lines) = {}
            <6>1. \A i \in Crashing(report[rid'].lines) : report[rid'].lines[i] # NoGuilty
              BY FrameAssumption DEF Crashing, IsFrame
            <6>2. /\ Chosen(report[rid'].lines, contains) \subseteq Crashing(report[rid'].lines)
                  /\ Unknown(report[rid'].lines, contains) \subseteq Crashing(report[rid'].lines)
              BY DEF Chosen, Unknown
            <6> QED
              BY <4>1, <4>3, <6>1, <6>2 DEF IsGuilty, First, Last
          <5>2. ASSUME NEW id \in Id, id = rid' PROVE ~Waiting(id)'
            <6>1. Crashing(report'[id].lines) = {}
              BY <3>1, <5>1, <5>2 DEF ChooseGuilty, InsertGuilty
            <6> QED
              BY <6>1 DEF Waiting, HasFrames
          <5>3. stage' = IF todo' = {} THEN "update_processed" ELSE "insert_guilty"
            BY <4>1, <4>3 DEF NextRow
          <5> QED
            <6>1. /\ InHand = todo /\ InHand' = todo' /\ Ahead = todo /\ Ahead' \subseteq todo
                  /\ stage' \in {"update_processed", "insert_guilty"}
                  /\ stage' = "update_processed" => todo' = {}
              BY <4>2, <5>3 DEF Ahead, InHand
            <6>2. \A id \in Id : (Waiting(id)' /\ id \in InHand) => id \in InHand'
              BY <4>2, <5>2, <6>1
            <6> QED
              BY <6>1, <6>2 DEF Fetched
        <4>4. CASE guilty # NoGuilty
          BY <4>1, <4>2, <4>4 DEF Fetched, Ahead, InHand
        <4> QED
          BY <4>3, <4>4
      <3>2. CASE Attribute
        <4>1. /\ stage = "update_guilty" /\ UNCHANGED <<status, todo, rid, gid>>
              /\ stage' = IF todo = {} THEN "update_processed" ELSE "insert_guilty"
              /\ guilty_id' = [guilty_id EXCEPT ![rid] = IF status[rid] = "live" THEN gid ELSE @]
          BY <3>2 DEF Attribute, UpdateGuilty, NextRow, batch
        <4>2. gid \in Frame /\ gid # NoGuilty /\ rid \in Id
          BY <4>1, FrameAssumption DEF BatchInv, TypeOK, ProcessorTypeOK
        <4>3. ~Waiting(rid)'
          BY <4>1, <4>2 DEF Waiting, Live, TypeOK, DatabaseTypeOK
        <4> QED
          BY <4>1, <4>3 DEF Fetched, Ahead, InHand
      <3> QED
        BY <1>5, <3>1, <3>2
    <2>3. /\ \A m \in Marked : m <= last_id
          /\ last_id < next_id
          /\ SafeBelow(last_id, {})
      BY <2>1 DEF BatchInv, Started, Fetched
    <2>4. SafeBelow(last_id, {})'
      <3>1. last_id \in Int
        BY <1>a DEF TypeOK, ProcessorTypeOK
      <3> QED
        BY <2>1, <2>3, <3>1, StaysSafe DEF SafeBelow
    <2>5. ASSUME NEW b \in Ahead' PROVE b < next_id' /\ (SafeBelow(b, InHand))'
      <3>1. b \in Int /\ b < next_id /\ SafeBelow(b, InHand)
        <4>1. b \in Ahead /\ b < next_id /\ SafeBelow(b, InHand)
          BY <2>1, <2>2, <2>5 DEF BatchInv
        <4>2. todo \subseteq Int /\ rid \in Int
          BY <1>a DEF TypeOK, ProcessorTypeOK
        <4> QED
          BY <4>1, <4>2 DEF Ahead
      <3>2. \A id \in Id : (id <= b /\ ((id \in Pending)' \/ (Waiting(id)' /\ id \notin InHand')))
                               => id \in overtaken'
        BY <2>1, <2>2, <3>1, StaysSafe
      <3> QED
        BY <2>1, <3>1, <3>2 DEF SafeBelow
    <2> QED
      BY <2>1, <2>2, <2>3, <2>4, <2>5 DEF BatchInv
  <1> QED
    BY <1>1, <1>2, <1>3, <1>4, <1>5 DEF ProcessorStep

(* The inductive invariant.                                                *)
LEMMA Inductive == Spec => []IInv
  <1>1. Init => IInv
    <2> SUFFICES ASSUME Init PROVE RowsInv /\ BatchInv /\ MarksInv /\ TypeOK
      BY DEF IInv
    <2> USE DatabaseAssumption
    <2>1. RowsInv
      BY DEF Init, DatabaseInit, CollectorInit, RowsInv, Live
    <2>2. BatchInv /\ MarksInv
      BY DEF Init, DatabaseInit, ProcessorInit, BatchInv, MarksInv, Marked, Live, Started, Fetched
    <2> QED
      BY <2>1, <2>2, InitTypes
  <1>2. IInv /\ [Next]_vars => IInv'
    BY TypeStep, RowsStep, BatchStep, MarksStep DEF IInv
  <1> QED
    BY <1>1, <1>2, PTL DEF Spec

(* No crash record is left behind the checkpoint without its guilty, but   *)
(* those a fetch has overtaken.                                            *)
THEOREM NoneLeftBehind == Spec => []NoGap
  <1>1. IInv => NoGap
    BY DEF IInv, MarksInv, SafeBelow, NoGap, BelowMark
  <1> QED
    BY <1>1, Inductive, PTL

-----------------------------------------------------------------------------
(* The pipeline implements Grouping: a record's guilty only changes to the *)
(* answer of find_guilty under a blacklist that was in force, and never    *)
(* back to an older one.  Below, from the same invariants: a reset of all  *)
(* records is honoured.                                                    *)

(* The blacklist of a running batch is one of the past, and the rows it    *)
(* has in hand are committed crash records.                                *)
LoadedInv ==
    /\ guilty_blacklisted = history[Len(history)]
    /\ bl_version \in 0..Len(history)
    /\ stage # "sleep" => bl_version # 0 /\ contains = history[bl_version]

HandInv ==
    /\ stage = "insert_guilty" => \A id \in todo : status[id] \in {"live", "gone"} /\ IsCrash(id)
    /\ stage = "update_guilty" =>
           /\ \A id \in todo \cup {rid} : status[id] \in {"live", "gone"} /\ IsCrash(id)
           /\ IsGuilty(report[rid].lines, contains, gid)

VersionInv == \A id \in Id : version[id] <= bl_version

RefInv == IInv /\ LoadedInv /\ HandInv /\ VersionInv
-----------------------------------------------------------------------------
(* The history of the blacklist grows at its end, with what is in the      *)
(* table.                                                                  *)
LEMMA HistoryStep ==
    TypeOK /\ [Next]_vars =>
        \/ UNCHANGED <<history, guilty_blacklisted>>
        \/ /\ AdminStep
           /\ history' = Append(history, guilty_blacklisted')
           /\ guilty_blacklisted' \in SUBSET Frame
           /\ UNCHANGED <<status, report, guilty_id, version, processor, bl_version>>
  <1> SUFFICES ASSUME TypeOK, [Next]_vars
               PROVE  \/ UNCHANGED <<history, guilty_blacklisted>>
                      \/ /\ AdminStep
                         /\ history' = Append(history, guilty_blacklisted')
                         /\ guilty_blacklisted' \in SUBSET Frame
                         /\ UNCHANGED <<status, report, guilty_id, version, processor, bl_version>>
    OBVIOUS
  <1>0. guilty_blacklisted' \in SUBSET Frame
    BY TypeStep DEF TypeOK, DatabaseTypeOK
  <1>1. CASE CollectorStep
    BY <1>1 DEF CollectorStep, CollectorNext, Insert, Commit, Rollback, Finish,
                PurgeSelect, PurgeDelete, PurgeRollback, ghosts, db
  <1>2. CASE ProcessorStep \/ FailBatch
    BY <1>2
       DEF ProcessorStep, FailBatch, BeginBatch, ReadCheckpoint, Fetch, ChooseGuilty,
           Attribute, Mark, LoadBlacklist, GetLatestId, GetCrashes, InsertGuilty,
           UpdateGuilty, UpdateProcessed, Fail, db, ghosts
  <1>3. ASSUME NEW a \in Admin, EditBlacklist(a)
        PROVE  /\ history' = Append(history, guilty_blacklisted')
               /\ UNCHANGED <<status, report, guilty_id, version, processor, bl_version>>
    BY <1>3 DEF EditBlacklist, Pledge, Apply, Submit, Edit, columns, processor
  <1>4. ASSUME NEW a \in Admin, RequestReset(a) \/ ReadRecords(a) \/ CommitOne(a)
                                \/ CommitAll(a) \/ AbortRequest(a)
        PROVE  UNCHANGED <<history, guilty_blacklisted>>
    BY <1>4 DEF RequestReset, ReadRecords, CommitOne, CommitAll, AbortRequest,
                Reset, ResetRead, ResetCommit, Abort, db, ghosts
  <1>5. CASE RemovePair
    <2>1. /\ history' = Append(history, guilty_blacklisted')
          /\ UNCHANGED <<status, report, guilty_id, version, processor, bl_version>>
      BY <1>5 DEF RemovePair, Remove, columns, processor
    <2> QED
      BY <1>0, <1>5, <2>1 DEF AdminStep
  <1>6. CASE AdminStep
    BY <1>0, <1>3, <1>4, <1>5, <1>6 DEF AdminStep
  <1>7. CASE UNCHANGED vars
    BY <1>7 DEF vars, db, ghosts
  <1> QED
    BY <1>1, <1>2, <1>6, <1>7 DEF Next

(* bl_version and contains are set together, when a batch begins.          *)
LEMMA LoadStep ==
    TypeOK /\ [Next]_vars =>
        \/ BeginBatch
        \/ stage' = "sleep" /\ bl_version' = bl_version
        \/ stage # "sleep" /\ UNCHANGED <<contains, bl_version>>
  <1> SUFFICES ASSUME TypeOK, [Next]_vars, ~BeginBatch
               PROVE  \/ stage' = "sleep" /\ bl_version' = bl_version
                      \/ stage # "sleep" /\ UNCHANGED <<contains, bl_version>>
    OBVIOUS
  <1>1. CASE UNCHANGED <<stage, contains, bl_version>>
    BY <1>1
  <1>2. CASE CollectorStep
    BY <1>1, <1>2 DEF CollectorStep, processor, ghosts
  <1>3. CASE ProcessorStep \/ FailBatch
    BY <1>3
       DEF ProcessorStep, FailBatch, ReadCheckpoint, Fetch, ChooseGuilty,
           Attribute, Mark, GetLatestId, GetCrashes, InsertGuilty,
           UpdateGuilty, UpdateProcessed, Fail, Exit, batch, ghosts
  <1>4. CASE AdminStep
    <2>1. UNCHANGED <<stage, contains, bl_version>>
      BY <1>4 DEF AdminStep, EditBlacklist, RequestReset, RemovePair, ReadRecords,
                  CommitOne, CommitAll, AbortRequest, processor, ghosts
    <2> QED
      BY <1>1, <2>1
  <1>5. CASE UNCHANGED vars
    BY <1>1, <1>5 DEF vars, processor, ghosts
  <1> QED
    BY <1>2, <1>3, <1>4, <1>5 DEF Next

LEMMA LoadedStep == TypeOK /\ LoadedInv /\ [Next]_vars => LoadedInv'
  <1> SUFFICES ASSUME TypeOK, LoadedInv, [Next]_vars PROVE LoadedInv'
    OBVIOUS
  <1>1. /\ history \in Seq(SUBSET Frame) /\ history # <<>>
        /\ Len(history) \in Nat \ {0} /\ bl_version \in Nat
    BY DEF TypeOK, GhostTypeOK
  <1>2. /\ Len(history') \in Nat /\ Len(history') >= Len(history)
        /\ \A v \in 1..Len(history) : history'[v] = history[v]
        /\ guilty_blacklisted' = history'[Len(history')]
    <2>1. CASE UNCHANGED <<history, guilty_blacklisted>>
      BY <1>1, <2>1 DEF LoadedInv
    <2>2. CASE /\ history' = Append(history, guilty_blacklisted')
               /\ guilty_blacklisted' \in SUBSET Frame
      BY <1>1, <2>2
    <2> QED
      BY <2>1, <2>2, HistoryStep
  <1>3. CASE BeginBatch
    <2>1. /\ contains' = guilty_blacklisted /\ bl_version' = Len(history)
          /\ history' = history
      BY <1>3 DEF BeginBatch, LoadBlacklist
    <2> QED
      BY <1>1, <1>2, <2>1 DEF LoadedInv
  <1>4. CASE stage' = "sleep" /\ bl_version' = bl_version
    BY <1>1, <1>2, <1>4 DEF LoadedInv
  <1>5. CASE stage # "sleep" /\ UNCHANGED <<contains, bl_version>>
    <2>1. bl_version \in 1..Len(history) /\ contains = history[bl_version]
      BY <1>1, <1>5 DEF LoadedInv
    <2> QED
      BY <1>1, <1>2, <1>5, <2>1 DEF LoadedInv
  <1> QED
    BY <1>3, <1>4, <1>5, LoadStep

(* Committed rows stay in place, and their reports do not change.          *)
LEMMA KeptRows ==
    TypeOK /\ RowsInv /\ [Next]_vars =>
        \A id \in Id : status[id] \in {"live", "gone"} =>
            status'[id] \in {"live", "gone"} /\ report'[id] = report[id]
  <1> SUFFICES ASSUME TypeOK, RowsInv, [Next]_vars
               PROVE  \A id \in Id : status[id] \in {"live", "gone"} =>
                          status'[id] \in {"live", "gone"} /\ report'[id] = report[id]
    OBVIOUS
  <1> USE DEF TypeOK, DatabaseTypeOK, CollectorTypeOK, RowsInv
  <1>1. CASE UNCHANGED <<status, report>>
    BY <1>1
  <1>2. ASSUME NEW w \in Worker, NEW r \in Report, Insert(w, r)
        PROVE  \A id \in Id : status[id] \in {"live", "gone"} =>
                   status'[id] \in {"live", "gone"} /\ report'[id] = report[id]
    <2>1. next_id \in Id /\ status[next_id] = "free"
      BY <1>2, DatabaseAssumption DEF Insert
    <2>2. /\ \A id \in Id : status'[id] = IF id = next_id THEN "pending" ELSE status[id]
          /\ \A id \in Id : report'[id] = IF id = next_id THEN r ELSE report[id]
      BY <1>2 DEF Insert
    <2> QED
      BY <2>1, <2>2
  <1>3. ASSUME NEW w \in Worker, Commit(w) \/ Rollback(w)
        PROVE  \A id \in Id : status[id] \in {"live", "gone"} =>
                   status'[id] \in {"live", "gone"} /\ report'[id] = report[id]
    BY <1>3 DEF Commit, Rollback, Finish
  <1>4. CASE PurgeSelect \/ PurgeDelete \/ PurgeRollback
    BY <1>4 DEF PurgeSelect, PurgeDelete, PurgeRollback, db
  <1>5. CASE CollectorStep
    BY <1>2, <1>3, <1>4, <1>5 DEF CollectorStep, CollectorNext
  <1>6. CASE ProcessorStep \/ FailBatch
    <2>1. UNCHANGED <<status, report>>
      BY <1>6
         DEF ProcessorStep, FailBatch, BeginBatch, ReadCheckpoint, Fetch, ChooseGuilty,
             Attribute, Mark, LoadBlacklist, GetLatestId, GetCrashes, InsertGuilty,
             UpdateGuilty, UpdateProcessed, Fail, db
    <2> QED
      BY <1>1, <2>1
  <1>7. CASE AdminStep
    <2>1. UNCHANGED <<status, report>>
      BY <1>7
         DEF AdminStep, EditBlacklist, RequestReset, RemovePair, ReadRecords, CommitOne,
             CommitAll, AbortRequest, Apply, Submit, Edit, Reset, Remove, ResetRead,
             ResetCommit, Abort, db
    <2> QED
      BY <1>1, <2>1
  <1>8. CASE UNCHANGED vars
    BY <1>1, <1>8 DEF vars, db
  <1> QED
    BY <1>5, <1>6, <1>7, <1>8 DEF Next

LEMMA HandStep == TypeOK /\ RowsInv /\ HandInv /\ [Next]_vars => HandInv'
  <1> SUFFICES ASSUME TypeOK, RowsInv, HandInv, [Next]_vars PROVE HandInv'
    OBVIOUS
  <1>1. \A id \in Id : status[id] \in {"live", "gone"} =>
            status'[id] \in {"live", "gone"} /\ report'[id] = report[id]
    BY KeptRows
  <1>2. /\ todo \subseteq Id /\ todo' \subseteq Id
        /\ stage = "update_guilty" => rid \in Id
    BY TypeStep DEF TypeOK, ProcessorTypeOK
  <1>3. CASE UNCHANGED processor
    <2>1. UNCHANGED <<stage, contains, todo, rid, gid>>
      BY <1>3 DEF processor
    <2> QED
      BY <1>1, <1>2, <2>1 DEF HandInv, IsCrash
  <1>4. CASE BeginBatch \/ ReadCheckpoint \/ Mark \/ FailBatch
    <2>1. stage' \notin {"insert_guilty", "update_guilty"}
      BY <1>4 DEF BeginBatch, ReadCheckpoint, Mark, FailBatch,
                  LoadBlacklist, GetLatestId, UpdateProcessed, Fail, Exit
    <2> QED
      BY <2>1 DEF HandInv
  <1>5. CASE Fetch
    <2>1. /\ UNCHANGED <<status, report>> /\ stage' # "update_guilty"
          /\ stage' = "insert_guilty" => todo' = Crashes
      BY <1>5 DEF Fetch, GetCrashes, Exit, db
    <2> QED
      BY <2>1 DEF HandInv, Crashes, Live, IsCrash
  <1>6. CASE ChooseGuilty
    <2>1. /\ stage = "insert_guilty" /\ UNCHANGED <<status, report, contains>>
          /\ rid' \in todo /\ todo' = todo \ {rid'}
          /\ stage' = "update_guilty" => IsGuilty(report[rid'].lines, contains, gid')
      BY <1>6 DEF ChooseGuilty, InsertGuilty, First, NextRow
    <2>2. \A id \in todo : status[id] \in {"live", "gone"} /\ IsCrash(id)
      BY <2>1 DEF HandInv
    <2> QED
      BY <2>1, <2>2 DEF HandInv, IsCrash
  <1>7. CASE Attribute
    <2>1. /\ stage = "update_guilty" /\ stage' # "update_guilty"
          /\ UNCHANGED <<status, report, todo>>
      BY <1>7 DEF Attribute, UpdateGuilty, NextRow, batch
    <2> QED
      BY <2>1 DEF HandInv, IsCrash
  <1>8. CASE CollectorStep \/ AdminStep \/ UNCHANGED vars
    <2>1. UNCHANGED processor
      BY <1>8 DEF CollectorStep, AdminStep, EditBlacklist, RequestReset, RemovePair,
                  ReadRecords, CommitOne, CommitAll, AbortRequest, vars
    <2> QED
      BY <1>3, <2>1
  <1> QED
    BY <1>4, <1>5, <1>6, <1>7, <1>8 DEF Next, ProcessorStep

(* What an attribution records is the blacklist of its batch.              *)
LEMMA VersionChange ==
    [Next]_vars => UNCHANGED version \/ Attribute
  <1> SUFFICES ASSUME [Next]_vars, ~Attribute PROVE UNCHANGED version
    OBVIOUS
  <1>1. CASE CollectorStep
    BY <1>1 DEF CollectorStep, ghosts
  <1>2. CASE (ProcessorStep /\ ~Attribute) \/ FailBatch
    BY <1>2 DEF ProcessorStep, FailBatch, BeginBatch, ReadCheckpoint, Fetch,
                ChooseGuilty, Mark, ghosts
  <1>3. CASE AdminStep
    BY <1>3 DEF AdminStep, EditBlacklist, RequestReset, RemovePair, ReadRecords,
                CommitOne, CommitAll, AbortRequest, ghosts
  <1>4. CASE UNCHANGED vars
    BY <1>4 DEF vars, ghosts
  <1> QED
    BY <1>1, <1>2, <1>3, <1>4 DEF Next

LEMMA VersionStep ==
    TypeOK /\ LoadedInv /\ VersionInv /\ [Next]_vars => VersionInv'
  <1> SUFFICES ASSUME TypeOK, LoadedInv, VersionInv, [Next]_vars PROVE VersionInv'
    OBVIOUS
  <1>1. version \in [Id -> Nat] /\ bl_version \in Nat /\ Len(history) \in Nat
    BY DEF TypeOK, GhostTypeOK
  <1>2. bl_version' \in Nat /\ bl_version' >= bl_version
    <2>1. CASE BeginBatch
      BY <1>1, <2>1 DEF BeginBatch, LoadedInv
    <2>2. CASE bl_version' = bl_version
      BY <1>1, <2>2
    <2> QED
      BY <2>1, <2>2, LoadStep
  <1>3. CASE UNCHANGED version
    BY <1>1, <1>2, <1>3 DEF VersionInv
  <1>4. CASE Attribute
    <2>1. \A id \in Id : version'[id] \in {version[id], bl_version}
      BY <1>1, <1>4 DEF Attribute
    <2> QED
      BY <1>1, <1>2, <2>1 DEF VersionInv
  <1> QED
    BY <1>3, <1>4, VersionChange

LEMMA RefInductive == Spec => []RefInv
  <1>1. Init => LoadedInv /\ HandInv /\ VersionInv
    BY DEF Init, DatabaseInit, ProcessorInit, LoadedInv, HandInv, VersionInv
  <1>2. IInv /\ LoadedInv /\ HandInv /\ VersionInv /\ [Next]_vars
            => LoadedInv' /\ HandInv' /\ VersionInv'
    BY LoadedStep, HandStep, VersionStep DEF IInv
  <1> QED
    BY <1>1, <1>2, Inductive, PTL DEF Spec, RefInv

-----------------------------------------------------------------------------
known == [id \in Id |-> IF status[id] = "live" THEN report[id] ELSE NoReport]

LEMMA Stutter ==
    UNCHANGED <<known, guilty_id, version, history>> => UNCHANGED Groups!vars
  BY DEF Groups!vars, known

(* Grouping's definitions of a guilty frame are those of the pipeline.      *)
LEMMA SameFrames ==
    /\ Groups!Frame = Frame
    /\ \A lines, blacklist, guilty :
           Groups!IsGuilty(lines, blacklist, guilty) <=> IsGuilty(lines, blacklist, guilty)
  <1>1. Groups!Frame = Frame
    BY DEF Groups!Frame, Frame
  <1>2. \A lines : Groups!Crashing(lines) = Crashing(lines)
    BY <1>1 DEF Groups!Crashing, Crashing, Groups!IsFrame, IsFrame
  <1>3. \A lines, blacklist : Groups!Unknown(lines, blacklist) = Unknown(lines, blacklist)
    BY <1>2 DEF Groups!Unknown, Unknown, Groups!HasSymbols, HasSymbols
  <1>4. \A lines, blacklist : Groups!Chosen(lines, blacklist) = Chosen(lines, blacklist)
    BY <1>2, <1>3 DEF Groups!Chosen, Chosen, Groups!HasSymbols, HasSymbols
  <1> QED
    BY <1>1, <1>2, <1>3, <1>4
       DEF Groups!IsGuilty, IsGuilty, Groups!First, First, Groups!Last, Last

(* Steps that leave the columns of known alone.                            *)
LEMMA SameRows == UNCHANGED <<status, report>> => UNCHANGED known
  BY DEF known

LEMMA CollectorRefines ==
    TypeOK /\ RowsInv /\ CollectorStep => [Groups!Next]_(Groups!vars)
  <1> SUFFICES ASSUME TypeOK, RowsInv, CollectorStep PROVE [Groups!Next]_(Groups!vars)
    OBVIOUS
  <1> USE DEF TypeOK, DatabaseTypeOK, CollectorTypeOK, RowsInv
  <1>1. UNCHANGED <<guilty_id, version, history>>
    BY DEF CollectorStep, CollectorNext, Insert, Commit, Rollback, Finish,
           PurgeSelect, PurgeDelete, PurgeRollback, ghosts, db, columns
  <1>2. ASSUME NEW w \in Worker, NEW r \in Report, Insert(w, r) PROVE UNCHANGED known
    <2>1. next_id \in Id /\ status[next_id] = "free"
      BY <1>2, DatabaseAssumption DEF Insert
    <2>2. /\ \A id \in Id : status'[id] = IF id = next_id THEN "pending" ELSE status[id]
          /\ \A id \in Id : report'[id] = IF id = next_id THEN r ELSE report[id]
      BY <1>2 DEF Insert
    <2> QED
      BY <2>1, <2>2 DEF known
  <1>3. ASSUME NEW w \in Worker, Commit(w) PROVE \E id \in Id : Groups!Store(id)
    <2>1. posting[w] \in Id /\ status[posting[w]] = "pending" /\ report' = report
      BY <1>3 DEF Commit, Finish
    <2>2. \A id \in Id : status'[id] = IF id = posting[w] THEN "live" ELSE status[id]
      BY <1>3 DEF Commit, Finish
    <2>3. report[posting[w]] \in Report
      BY <2>1
    <2>4. known' = [known EXCEPT ![posting[w]] = report[posting[w]]]
      BY <2>1, <2>2 DEF known
    <2> QED
      BY <1>1, <2>1, <2>3, <2>4 DEF Groups!Store, known
  <1>4. ASSUME NEW w \in Worker, Rollback(w) PROVE UNCHANGED known
    <2>1. posting[w] \in Id /\ status[posting[w]] = "pending" /\ report' = report
      BY <1>4 DEF Rollback, Finish
    <2>2. \A id \in Id : status'[id] = IF id = posting[w] THEN "gone" ELSE status[id]
      BY <1>4 DEF Rollback, Finish
    <2> QED
      BY <2>1, <2>2 DEF known
  <1>5. CASE PurgeSelect \/ PurgeRollback
    BY <1>1, <1>5, SameRows, Stutter DEF PurgeSelect, PurgeRollback, db
  <1>6. CASE PurgeDelete
    <2>1. /\ \A id \in Id : status'[id] = IF id \in purging THEN "gone" ELSE status[id]
          /\ report' = report /\ purging \in SUBSET Id
      BY <1>6 DEF PurgeDelete
    <2>2. known' = [id \in Id |-> IF id \in purging THEN NoReport ELSE known[id]]
      BY <2>1 DEF known
    <2>3. \E ids \in SUBSET Id : Groups!Drop(ids)
      BY <1>1, <2>1, <2>2 DEF Groups!Drop, known
    <2> QED
      BY <2>3 DEF Groups!Next
  <1>7. ASSUME NEW w \in Worker, Commit(w) PROVE Groups!Next
    BY <1>3, <1>7 DEF Groups!Next
  <1> QED
    BY <1>1, <1>2, <1>4, <1>5, <1>6, <1>7, Stutter DEF CollectorStep, CollectorNext

LEMMA AttributeRefines ==
    RefInv /\ Attribute => [Groups!Next]_(Groups!vars)
  <1> SUFFICES ASSUME RefInv, Attribute PROVE [Groups!Next]_(Groups!vars)
    OBVIOUS
  <1> USE DEF RefInv, IInv
  <1>1. /\ stage = "update_guilty" /\ UNCHANGED <<status, report, history>>
        /\ guilty_id' = [guilty_id EXCEPT ![rid] = IF status[rid] = "live" THEN gid ELSE @]
        /\ version' = [version EXCEPT ![rid] = IF status[rid] = "live" THEN bl_version ELSE @]
    BY DEF Attribute, UpdateGuilty
  <1>2. UNCHANGED known
    BY <1>1, SameRows
  <1>3. /\ rid \in Id /\ gid \in Frame /\ IsCrash(rid)
        /\ IsGuilty(report[rid].lines, contains, gid)
        /\ bl_version \in 1..Len(history) /\ contains = history[bl_version]
        /\ version[rid] <= bl_version
    <2>1. rid \in Id /\ gid \in Frame
      BY <1>1 DEF TypeOK, ProcessorTypeOK, BatchInv
    <2>2. IsCrash(rid) /\ IsGuilty(report[rid].lines, contains, gid)
      BY <1>1 DEF HandInv
    <2>3. bl_version \in 1..Len(history) /\ contains = history[bl_version]
      BY <1>1 DEF LoadedInv, TypeOK, GhostTypeOK
    <2> QED
      BY <2>1, <2>2, <2>3 DEF VersionInv
  <1>4. CASE status[rid] = "live"
    <2>1. known[rid] = report[rid] /\ known[rid] # NoReport
      BY <1>3, <1>4, DatabaseAssumption DEF known, RowsInv
    <2>2. \E id \in Id : Groups!Regroup(id)
      <3>1. /\ guilty_id' = [guilty_id EXCEPT ![rid] = gid]
            /\ version' = [version EXCEPT ![rid] = bl_version]
        BY <1>1, <1>4
      <3> QED
        BY <1>1, <1>2, <1>3, <2>1, <3>1, SameFrames DEF Groups!Regroup, known, IsCrash
    <2> QED
      BY <2>2 DEF Groups!Next
  <1>5. CASE status[rid] # "live"
    <2>1. UNCHANGED <<guilty_id, version>>
      BY <1>1, <1>5 DEF TypeOK, DatabaseTypeOK, GhostTypeOK
    <2> QED
      BY <1>1, <1>2, <2>1, Stutter
  <1> QED
    BY <1>4, <1>5

LEMMA StepRefines ==
    RefInv /\ [Next]_vars => [Groups!Next]_(Groups!vars)
  <1> SUFFICES ASSUME RefInv, [Next]_vars PROVE [Groups!Next]_(Groups!vars)
    OBVIOUS
  <1> USE DEF RefInv, IInv
  <1>1. CASE CollectorStep
    BY <1>1, CollectorRefines
  <1>2. CASE Attribute
    BY <1>2, AttributeRefines
  <1>3. CASE (ProcessorStep /\ ~Attribute) \/ FailBatch
    <2>1. UNCHANGED <<status, report, guilty_id, version, history>>
      BY <1>3
         DEF ProcessorStep, FailBatch, BeginBatch, ReadCheckpoint, Fetch, ChooseGuilty, Mark,
             LoadBlacklist, GetLatestId, GetCrashes, InsertGuilty, UpdateProcessed, Fail,
             db, columns, ghosts
    <2> QED
      BY <2>1, SameRows, Stutter
  <1>4. CASE AdminStep
    <2>1. UNCHANGED <<status, report, guilty_id, version>>
      BY <1>4
         DEF AdminStep, EditBlacklist, RequestReset, RemovePair, ReadRecords, CommitOne,
             CommitAll, AbortRequest, Apply, Submit, Edit, Reset, Remove, ResetRead,
             ResetCommit, Abort, db, columns, ghosts
    <2>2. CASE UNCHANGED <<history, guilty_blacklisted>>
      BY <2>1, <2>2, SameRows, Stutter
    <2>3. CASE /\ history' = Append(history, guilty_blacklisted')
               /\ guilty_blacklisted' \in SUBSET Frame
      BY <2>1, <2>3, SameRows, SameFrames DEF Groups!Next, Groups!EditBlacklist, known
    <2> QED
      BY <2>2, <2>3, HistoryStep
  <1>5. CASE UNCHANGED vars
    BY <1>5, SameRows, Stutter DEF vars, db, columns, ghosts
  <1> QED
    BY <1>1, <1>2, <1>3, <1>4, <1>5 DEF Next

(* The pipeline implements Grouping.                                       *)
THEOREM Implements == Spec => ImplementsGrouping
  <1>1. Init => Groups!Init
    BY DEF Init, DatabaseInit, Groups!Init
  <1>2. RefInv /\ [Next]_vars => [Groups!Next]_(Groups!vars)
    BY StepRefines
  <1> QED
    BY <1>1, <1>2, RefInductive, PTL DEF Spec, ImplementsGrouping, Groups!Spec
-----------------------------------------------------------------------------
(***************************************************************************)
(* A reset of all records is honoured (ResetHonoured), for any number of   *)
(* ids, workers, requests, edits and failures.                             *)
(***************************************************************************)

(* A committed crash record attributed under a blacklist older than the    *)
(* one a reset has promised.                                               *)
Stale(id) ==
    /\ id \in Live /\ IsCrash(id) /\ HasFrames(id)
    /\ version[id] < promised

FreshBelow(b, rest) ==
    \A id \in Id :
        (id <= b /\ (id \in Pending \/ (Stale(id) /\ id \notin rest))) => id \in overtaken

PromiseInv ==
    /\ promised <= Len(history)
    /\ \A a \in Admin : pledge[a] <= Len(history)
    /\ (stage # "sleep" /\ ~straddling) => promised <= bl_version

FreshMarks == ~raced => \A m \in Marked : FreshBelow(m, {})

FreshBatch ==
    (~raced /\ ~straddling) =>
        /\ stage \in Started => FreshBelow(last_id, {})
        /\ stage \in Fetched => \A b \in Ahead : FreshBelow(b, InHand)

ResetInv == RefInv /\ PromiseInv /\ FreshMarks /\ FreshBatch
-----------------------------------------------------------------------------
(* Who moves the history variables of a reset.                             *)
LEMMA ResetVars ==
    [Next]_vars =>
        \/ \E a \in Admin : CommitAll(a)
        \/ /\ promised' = promised
           /\ straddling' = straddling \/ Fetch \/ Mark \/ FailBatch
           /\ raced' = raced \/ Mark
  <1> SUFFICES ASSUME [Next]_vars, ~\E a \in Admin : CommitAll(a)
               PROVE  /\ promised' = promised
                      /\ straddling' = straddling \/ Fetch \/ Mark \/ FailBatch
                      /\ raced' = raced \/ Mark
    OBVIOUS
  <1>1. CASE CollectorStep
    BY <1>1 DEF CollectorStep, ghosts
  <1>2. CASE ProcessorStep \/ FailBatch
    BY <1>2 DEF ProcessorStep, FailBatch, BeginBatch, ReadCheckpoint, Fetch, ChooseGuilty,
                Attribute, Mark, ghosts
  <1>3. CASE AdminStep
    BY <1>3 DEF AdminStep, EditBlacklist, RequestReset, RemovePair, ReadRecords, CommitOne,
                AbortRequest, ghosts
  <1>4. CASE UNCHANGED vars
    BY <1>4 DEF vars, ghosts
  <1> QED
    BY <1>1, <1>2, <1>3, <1>4 DEF Next

LEMMA PledgeStep ==
    TypeOK /\ PromiseInv /\ [Next]_vars =>
        /\ Len(history') \in Nat /\ Len(history') >= Len(history)
        /\ \A a \in Admin : pledge'[a] <= Len(history')
  <1> SUFFICES ASSUME TypeOK, PromiseInv, [Next]_vars
               PROVE  /\ Len(history') \in Nat /\ Len(history') >= Len(history)
                      /\ \A a \in Admin : pledge'[a] <= Len(history')
    OBVIOUS
  <1>1. /\ history \in Seq(SUBSET Frame) /\ Len(history) \in Nat
        /\ pledge \in [Admin -> Nat]
        /\ \A a \in Admin : pledge[a] <= Len(history)
    BY DEF TypeOK, GhostTypeOK, PromiseInv
  <1>2. Len(history') \in Nat /\ Len(history') >= Len(history)
    <2>1. CASE UNCHANGED history
      BY <1>1, <2>1
    <2>2. CASE /\ history' = Append(history, guilty_blacklisted')
               /\ guilty_blacklisted' \in SUBSET Frame
      BY <1>1, <2>2
    <2> QED
      BY <2>1, <2>2, HistoryStep
  <1>3. CASE UNCHANGED pledge
    BY <1>1, <1>2, <1>3
  <1>5. ASSUME NEW a \in Admin, EditBlacklist(a) \/ RequestReset(a)
        PROVE  \A c \in Admin : pledge'[c] <= Len(history')
    <2>1. pledge' = [pledge EXCEPT ![a] = Len(history')]
      BY <1>5 DEF EditBlacklist, Pledge, RequestReset
    <2> QED
      BY <1>1, <1>2, <2>1
  <1>6. ASSUME NEW a \in Admin, CommitOne(a) \/ CommitAll(a) \/ AbortRequest(a)
        PROVE  \A c \in Admin : pledge'[c] <= Len(history')
    <2>1. pledge' = [pledge EXCEPT ![a] = 0]
      BY <1>6 DEF CommitOne, CommitAll, AbortRequest, Forget
    <2> QED
      BY <1>1, <1>2, <2>1
  <1>7. ASSUME NEW a \in Admin, ReadRecords(a) PROVE UNCHANGED pledge
    BY <1>7 DEF ReadRecords, ghosts
  <1>8. CASE RemovePair \/ CollectorStep \/ ProcessorStep \/ FailBatch \/ UNCHANGED vars
    <2>1. UNCHANGED pledge
      BY <1>8 DEF RemovePair, CollectorStep, ProcessorStep, FailBatch, BeginBatch,
                  ReadCheckpoint, Fetch, ChooseGuilty, Attribute, Mark, vars, ghosts
    <2> QED
      BY <1>2, <1>3, <2>1
  <1>9. CASE AdminStep
    BY <1>2, <1>3, <1>5, <1>6, <1>7, <1>8, <1>9 DEF AdminStep
  <1> QED
    BY <1>2, <1>8, <1>9 DEF Next

LEMMA PromiseStep ==
    TypeOK /\ LoadedInv /\ PromiseInv /\ [Next]_vars => PromiseInv'
  <1> SUFFICES ASSUME TypeOK, LoadedInv, PromiseInv, [Next]_vars PROVE PromiseInv'
    OBVIOUS
  <1>1. /\ Len(history') \in Nat /\ Len(history') >= Len(history)
        /\ \A a \in Admin : pledge'[a] <= Len(history')
    BY PledgeStep
  <1>2. /\ promised \in Nat /\ promised' \in Nat /\ bl_version \in Nat /\ Len(history) \in Nat
        /\ promised <= Len(history)
    BY TypeStep DEF TypeOK, GhostTypeOK, PromiseInv
  <1>3. ASSUME NEW a \in Admin, CommitAll(a) PROVE PromiseInv'
    <2>1. promised' <= Len(history')
      BY <1>1, <1>2, <1>3 DEF CommitAll, PromiseInv
    <2>2. straddling' = (stage # "sleep") /\ stage' = stage
      BY <1>3 DEF CommitAll, processor
    <2> QED
      BY <1>1, <2>1, <2>2 DEF PromiseInv
  <1>4. CASE promised' = promised /\ (straddling' = straddling \/ Fetch \/ Mark \/ FailBatch)
    <2>1. promised' <= Len(history')
      BY <1>1, <1>2, <1>4
    <2>2. ASSUME stage' # "sleep", ~straddling' PROVE promised' <= bl_version'
      <3>1. CASE BeginBatch
        BY <1>2, <1>4, <3>1 DEF BeginBatch
      <3>2. CASE ~BeginBatch
        <4>1. stage # "sleep" /\ bl_version' = bl_version
          BY <2>2, <3>2, LoadStep
        <4>2. ~straddling
          BY <1>4, <2>2 DEF Fetch, Mark, FailBatch, GetCrashes, UpdateProcessed, Fail, Exit,
                            TypeOK, GhostTypeOK, Crashes
        <4> QED
          BY <1>4, <4>1, <4>2 DEF PromiseInv
      <3> QED
        BY <3>1, <3>2
    <2> QED
      BY <1>1, <2>1, <2>2 DEF PromiseInv
  <1> QED
    BY <1>3, <1>4, ResetVars

-----------------------------------------------------------------------------
(* As Quiet, for stale records: a row becomes stale only by its commit.    *)
Still ==
    /\ overtaken' = overtaken
    /\ \A id \in Id :
          /\ id \in Pending' => id \in Pending \/ id >= next_id
          /\ Stale(id)' => Stale(id) \/ id \in Pending

(* A row becomes live only by the commit of its insert.                    *)
LEMMA NoRevival ==
    TypeOK /\ RowsInv /\ [Next]_vars =>
        \A id \in Id : status'[id] = "live" => status[id] \in {"pending", "live"}
  <1> SUFFICES ASSUME TypeOK, RowsInv, [Next]_vars
               PROVE  \A id \in Id : status'[id] = "live" => status[id] \in {"pending", "live"}
    OBVIOUS
  <1> USE DEF TypeOK, DatabaseTypeOK, CollectorTypeOK, RowsInv
  <1>1. CASE UNCHANGED status
    BY <1>1
  <1>2. ASSUME NEW w \in Worker, NEW r \in Report, Insert(w, r)
        PROVE  \A id \in Id : status'[id] = "live" => status[id] \in {"pending", "live"}
    BY <1>2 DEF Insert
  <1>3. ASSUME NEW w \in Worker, Commit(w) \/ Rollback(w)
        PROVE  \A id \in Id : status'[id] = "live" => status[id] \in {"pending", "live"}
    BY <1>3 DEF Commit, Rollback, Finish
  <1>4. CASE PurgeSelect \/ PurgeDelete \/ PurgeRollback
    BY <1>4 DEF PurgeSelect, PurgeDelete, PurgeRollback, db
  <1>5. CASE CollectorStep
    BY <1>2, <1>3, <1>4, <1>5 DEF CollectorStep, CollectorNext
  <1>6. CASE ProcessorStep \/ FailBatch
    <2>1. UNCHANGED status
      BY <1>6
         DEF ProcessorStep, FailBatch, BeginBatch, ReadCheckpoint, Fetch, ChooseGuilty,
             Attribute, Mark, LoadBlacklist, GetLatestId, GetCrashes, InsertGuilty,
             UpdateGuilty, UpdateProcessed, Fail, db
    <2> QED
      BY <1>1, <2>1
  <1>7. CASE AdminStep
    <2>1. UNCHANGED status
      BY <1>7
         DEF AdminStep, EditBlacklist, RequestReset, RemovePair, ReadRecords, CommitOne,
             CommitAll, AbortRequest, Apply, Submit, Edit, Reset, Remove, ResetRead,
             ResetCommit, Abort, db
    <2> QED
      BY <1>1, <2>1
  <1>8. CASE UNCHANGED vars
    BY <1>1, <1>8 DEF vars, db
  <1> QED
    BY <1>5, <1>6, <1>7, <1>8 DEF Next

LEMMA StillStep ==
    TypeOK /\ RowsInv /\ BatchInv /\ VersionInv /\ [Next]_vars =>
        Still \/ Fetch \/ \E a \in Admin : CommitAll(a)
  <1> SUFFICES ASSUME TypeOK, RowsInv, BatchInv, VersionInv, [Next]_vars, ~Fetch,
                      ~\E a \in Admin : CommitAll(a)
               PROVE  Still
    OBVIOUS
  <1>1. Quiet /\ promised' = promised
    BY QuietStep, ResetVars
  <1>2. ASSUME NEW id \in Id, Stale(id)' PROVE Stale(id) \/ id \in Pending
    <2>1. status'[id] = "live" /\ report'[id].crash /\ Crashing(report'[id].lines) # {}
          /\ version'[id] < promised
      BY <1>1, <1>2 DEF Stale, Live, IsCrash, HasFrames
    <2>2. version[id] < promised
      <3>1. version[id] \in Nat /\ bl_version \in Nat /\ promised \in Nat /\ version[id] <= bl_version
        BY DEF TypeOK, GhostTypeOK, VersionInv
      <3>2. version'[id] \in {version[id], bl_version}
        <4>1. CASE UNCHANGED version
          BY <4>1
        <4>2. CASE Attribute
          BY <4>2 DEF Attribute, TypeOK, GhostTypeOK
        <4> QED
          BY <4>1, <4>2, VersionChange
      <3> QED
        BY <2>1, <3>1, <3>2
    <2>3. CASE status[id] \in {"live", "gone"}
      <3>1. report'[id] = report[id]
        BY <2>3, KeptRows
      <3>2. status[id] = "live"
        BY <2>1, <2>3, NoRevival
      <3> QED
        BY <2>1, <2>2, <3>1, <3>2 DEF Stale, Live, IsCrash, HasFrames
    <2>4. CASE status[id] = "pending"
      BY <2>4 DEF Pending
    <2>5. CASE status[id] = "free"
      BY <2>1, <2>5, NoRevival
    <2> QED
      BY <2>3, <2>4, <2>5 DEF TypeOK, DatabaseTypeOK, Status
  <1> QED
    BY <1>1, <1>2 DEF Still, Quiet

(* While nothing stirs, what is fresh stays fresh.                         *)
LEMMA StaysFresh ==
    ASSUME TypeOK, Still, NEW b \in Int, b < next_id,
           NEW rest, NEW later, FreshBelow(b, rest),
           \A id \in Id : (Stale(id)' /\ id \in rest) => id \in later
    PROVE  \A id \in Id : (id <= b /\ ((id \in Pending)' \/ (Stale(id)' /\ id \notin later)))
                              => id \in overtaken'
  <1> SUFFICES ASSUME NEW id \in Id, id <= b,
                      (id \in Pending)' \/ (Stale(id)' /\ id \notin later)
               PROVE  id \in overtaken'
    OBVIOUS
  <1>1. id < next_id /\ ~(id >= next_id)
    BY DatabaseAssumption DEF TypeOK, DatabaseTypeOK
  <1>2. (id \in Pending) \/ (Stale(id) /\ id \notin rest)
    BY <1>1 DEF Still
  <1> QED
    BY <1>2 DEF FreshBelow, Still

(* A reset leaves no mark or counts as raced.                              *)
LEMMA ResetStep ==
    ASSUME NEW a \in Admin, CommitAll(a)
    PROVE  FreshMarks' /\ FreshBatch'
  <1>1. /\ raced' = (\E id \in Live : processed'[id])
        /\ straddling' = (stage # "sleep")
        /\ stage' = stage /\ status' = status
    BY DEF CommitAll, ResetCommit, processor
  <1>2. FreshMarks'
    BY <1>1 DEF FreshMarks, Marked, Live
  <1>3. FreshBatch'
    BY <1>1 DEF FreshBatch, Started, Fetched
  <1> QED
    BY <1>2, <1>3

LEMMA FreshMarksStep ==
    IInv /\ VersionInv /\ FreshMarks /\ FreshBatch /\ [Next]_vars => FreshMarks'
  <1> SUFFICES ASSUME IInv, VersionInv, FreshMarks, FreshBatch, [Next]_vars,
                      ~\E a \in Admin : CommitAll(a),
                      ~raced', NEW m \in Marked', NEW id \in Id, id <= m,
                      (id \in Pending)' \/ Stale(id)'
               PROVE  id \in overtaken'
    BY ResetStep DEF FreshMarks, FreshBelow
  <1> USE DEF IInv
  <1>0. Id \subseteq Nat \ {0}
    BY DatabaseAssumption
  <1>1. m \in Id /\ id \in Nat /\ m \in Nat
    BY <1>0 DEF Marked, Live
  <1>2. ~raced
    BY ResetVars DEF Mark, TypeOK, GhostTypeOK
  <1>3. ASSUME NEW n \in Marked PROVE n < next_id /\ FreshBelow(n, {})
    BY <1>0, <1>2, <1>3 DEF FreshMarks, Marked, Live, RowsInv, TypeOK, DatabaseTypeOK
  <1>4. CASE Still
    <2>1. CASE m \in Marked
      <3>1. (id \in Pending) \/ Stale(id)
        BY <1>1, <1>3, <1>4, <2>1 DEF Still, TypeOK, DatabaseTypeOK
      <3> QED
        BY <1>3, <1>4, <2>1, <3>1 DEF FreshBelow, Still
    <2>2. CASE Mark /\ m = rid
      <3>1. stage = "update_processed" /\ rid \in Live
        BY <2>2 DEF Mark, UpdateProcessed, Marked, Live
      <3>2. ~straddling
        BY <2>2, <3>1 DEF Mark, TypeOK, GhostTypeOK
      <3>3. rid < next_id /\ FreshBelow(rid, {})
        BY <1>2, <3>1, <3>2 DEF BatchInv, FreshBatch, Fetched, Ahead, InHand
      <3>4. (id \in Pending) \/ Stale(id)
        BY <1>1, <1>4, <2>2, <3>3 DEF Still, TypeOK, DatabaseTypeOK
      <3> QED
        BY <1>4, <2>2, <3>3, <3>4 DEF FreshBelow, Still
    <2> QED
      BY <2>1, <2>2, MarkedStep
  <1>5. CASE Fetch
    <2>1. m \in Marked /\ ((id \in Pending) \/ Stale(id))
      BY <1>5 DEF Fetch, GetCrashes, db, columns, Marked, Live, Pending, Stale, IsCrash, HasFrames
    <2>2. id \in overtaken
      BY <1>3, <2>1 DEF FreshBelow
    <2>3. id <= last_id
      BY <1>0, <1>1, <1>5, <2>1 DEF Fetch, GetCrashes, BatchInv, Started, TypeOK, ProcessorTypeOK
    <2>4. id \notin todo'
      BY <1>0, <1>1, <1>5, <2>3 DEF Fetch, GetCrashes, Exit, Crashes, TypeOK, ProcessorTypeOK
    <2> QED
      BY <1>5, <2>2, <2>4 DEF Fetch
  <1> QED
    BY <1>4, <1>5, StillStep

(* Steps of the other parts leave the batch as it is.                      *)
LEMMA FreshOutside ==
    ASSUME TypeOK, BatchInv, FreshBatch, Still, UNCHANGED <<processor, raced, straddling>>
    PROVE  FreshBatch'
  <1> SUFFICES ASSUME ~raced', ~straddling'
               PROVE  /\ (stage \in Started => FreshBelow(last_id, {}))'
                      /\ (stage \in Fetched => \A b \in Ahead : FreshBelow(b, InHand))'
    BY DEF FreshBatch
  <1>1. /\ stage' = stage /\ last_id' = last_id /\ ~raced /\ ~straddling
        /\ InHand' = InHand /\ Ahead' = Ahead
    BY DEF processor, InHand, Ahead
  <1>2. last_id \in Int /\ \A b \in Ahead : b \in Int
    BY DatabaseAssumption DEF TypeOK, ProcessorTypeOK, DatabaseTypeOK, Ahead
  <1>3. ASSUME stage \in Started PROVE FreshBelow(last_id, {})'
    <2>1. last_id < next_id /\ FreshBelow(last_id, {})
      BY <1>1, <1>3 DEF BatchInv, FreshBatch
    <2> QED
      BY <1>1, <1>2, <2>1, StaysFresh DEF FreshBelow
  <1>4. ASSUME stage \in Fetched, NEW b \in Ahead PROVE (FreshBelow(b, InHand))'
    <2>1. b < next_id /\ FreshBelow(b, InHand)
      BY <1>1, <1>4 DEF BatchInv, FreshBatch
    <2>2. \A id \in Id : (id <= b /\ ((id \in Pending)' \/ (Stale(id)' /\ id \notin InHand)))
                             => id \in overtaken'
      BY <1>2, <2>1, StaysFresh
    <2> QED
      BY <1>1, <1>2, <2>1, <2>2 DEF FreshBelow
  <1> QED
    BY <1>1, <1>3, <1>4

(* What a batch does to the rows it has in hand.                           *)
LEMMA HandChange ==
    ASSUME IInv, ChooseGuilty \/ Attribute, PromiseInv, ~straddling
    PROVE  /\ stage \in Fetched /\ stage' \in Fetched
           /\ Ahead' \subseteq Ahead
           /\ \A id \in Id : (Stale(id)' /\ id \in InHand) => id \in InHand'
  <1> USE DEF IInv
  <1>1. CASE ChooseGuilty
    <2>1. /\ stage = "insert_guilty" /\ rid' \in todo /\ todo' = todo \ {rid'}
          /\ UNCHANGED <<report>>
      BY <1>1 DEF ChooseGuilty, InsertGuilty, First
    <2>2. PICK guilty \in Frame \cup {NoGuilty} :
              /\ IsGuilty(report[rid'].lines, contains, guilty)
              /\ IF guilty = NoGuilty
                 THEN NextRow(todo') /\ UNCHANGED <<gid, guilties>>
                 ELSE /\ guilties' = guilties \cup {guilty}
                      /\ gid' = guilty
                      /\ stage' = "update_guilty"
      BY <1>1 DEF ChooseGuilty, InsertGuilty
    <2>3. CASE guilty = NoGuilty
      <3>1. Crashing(report[rid'].lines) = {}
        <4>1. \A i \in Crashing(report[rid'].lines) : report[rid'].lines[i] # NoGuilty
          BY FrameAssumption DEF Crashing, IsFrame
        <4>2. /\ Chosen(report[rid'].lines, contains) \subseteq Crashing(report[rid'].lines)
              /\ Unknown(report[rid'].lines, contains) \subseteq Crashing(report[rid'].lines)
          BY DEF Chosen, Unknown
        <4> QED
          BY <2>2, <2>3, <4>1, <4>2 DEF IsGuilty, First, Last
      <3>2. ASSUME NEW id \in Id, id = rid' PROVE ~Stale(id)'
        <4>1. Crashing(report'[id].lines) = {}
          BY <2>1, <3>1, <3>2
        <4> QED
          BY <4>1 DEF Stale, HasFrames
      <3>3. stage' = IF todo' = {} THEN "update_processed" ELSE "insert_guilty"
        BY <2>2, <2>3 DEF NextRow
      <3>4. /\ InHand = todo /\ InHand' = todo' /\ Ahead = todo /\ Ahead' \subseteq todo
            /\ stage' \in {"update_processed", "insert_guilty"}
        BY <2>1, <3>3 DEF Ahead, InHand
      <3>5. \A id \in Id : (Stale(id)' /\ id \in InHand) => id \in InHand'
        BY <2>1, <3>2, <3>4
      <3> QED
        BY <2>1, <3>4, <3>5 DEF Fetched
    <2>4. CASE guilty # NoGuilty
      BY <2>1, <2>2, <2>4 DEF Fetched, Ahead, InHand
    <2> QED
      BY <2>3, <2>4
  <1>2. CASE Attribute
    <2>1. /\ stage = "update_guilty" /\ UNCHANGED <<status, todo, rid, promised>>
          /\ stage' = IF todo = {} THEN "update_processed" ELSE "insert_guilty"
          /\ version' = [version EXCEPT ![rid] = IF status[rid] = "live"
                                                 THEN bl_version ELSE @]
      BY <1>2 DEF Attribute, UpdateGuilty, NextRow, batch
    <2>2. rid \in Id /\ promised <= bl_version /\ promised \in Nat /\ bl_version \in Nat
      BY <2>1 DEF TypeOK, ProcessorTypeOK, GhostTypeOK, PromiseInv
    <2>3. ~Stale(rid)'
      BY <2>1, <2>2 DEF Stale, Live, TypeOK, GhostTypeOK
    <2> QED
      BY <2>1, <2>3 DEF Ahead, InHand, Fetched
  <1> QED
    BY <1>1, <1>2

LEMMA FreshBatchStep ==
    IInv /\ VersionInv /\ PromiseInv /\ FreshMarks /\ FreshBatch /\ [Next]_vars => FreshBatch'
  <1> SUFFICES ASSUME IInv, VersionInv, PromiseInv, FreshMarks, FreshBatch, [Next]_vars,
                      ~\E a \in Admin : CommitAll(a)
               PROVE  FreshBatch'
    BY ResetStep
  <1> USE DEF IInv
  <1>0. Id \subseteq Nat \ {0}
    BY DatabaseAssumption
  <1>1. CASE ~ProcessorStep /\ ~FailBatch
    <2>1. UNCHANGED processor
      BY <1>1 DEF Next, vars, CollectorStep, AdminStep, EditBlacklist, RequestReset,
                  RemovePair, ReadRecords, CommitOne, CommitAll, AbortRequest
    <2>2. Still /\ UNCHANGED <<raced, straddling>>
      BY <1>1, StillStep, ResetVars DEF ProcessorStep
    <2> QED
      BY <2>1, <2>2, FreshOutside
  <1>2. CASE BeginBatch \/ Mark \/ FailBatch
    <2>1. stage' \in {"sleep", "get_latest_id"}
      BY <1>2 DEF BeginBatch, Mark, FailBatch, LoadBlacklist, UpdateProcessed, Fail, Exit
    <2> QED
      BY <2>1 DEF FreshBatch, Started, Fetched
  <1>3. CASE ReadCheckpoint
    <2>1. stage' = "get_crashes" /\ UNCHANGED <<db, ghosts>>
      BY <1>3 DEF ReadCheckpoint, GetLatestId
    <2>2. last_id' \in Marked \/ last_id' = 0
      BY <1>3 DEF ReadCheckpoint, GetLatestId, LastProcessed
    <2>3. /\ raced' = raced /\ overtaken' = overtaken
          /\ \A id \in Id : (id \in Pending)' = (id \in Pending) /\ Stale(id)' = Stale(id)
      BY <2>1 DEF db, columns, ghosts, Live, Pending, Stale, IsCrash, HasFrames
    <2>4. ~raced => \A id \in Id : (id <= last_id' /\ ((id \in Pending) \/ Stale(id))) => id \in overtaken
      BY <1>0, <2>2 DEF FreshMarks, FreshBelow
    <2> QED
      BY <2>1, <2>3, <2>4 DEF FreshBatch, Started, Fetched, FreshBelow
  <1>4. CASE Fetch
    <2>1. CASE stage' = "sleep"
      BY <2>1 DEF FreshBatch, Started, Fetched
    <2>2. CASE stage' # "sleep" /\ ~raced' /\ ~straddling'
      <3>1. /\ stage = "get_crashes" /\ stage' = "insert_guilty"
            /\ todo' = Crashes /\ last_id' = last_id /\ UNCHANGED <<db, version, promised, raced>>
            /\ overtaken' = (overtaken \ todo') \cup
                                {id \in Pending : \E later \in todo' : id < later}
            /\ straddling' = (straddling /\ todo' # {})
            /\ Crashes # {}
        BY <1>4, <2>2 DEF Fetch, GetCrashes, Exit
      <3>2. ~raced /\ ~straddling /\ FreshBelow(last_id, {})
        BY <2>2, <3>1 DEF FreshBatch, Started, TypeOK, GhostTypeOK
      <3>3. \A id \in Id : (id \in Pending)' = (id \in Pending) /\ Stale(id)' = Stale(id)
        BY <3>1 DEF db, columns, Live, Pending, Stale, IsCrash, HasFrames
      <3>4. \A b \in todo' : b \in Live /\ b \in Id
        BY <3>1 DEF Crashes, Live
      <3>5. ASSUME NEW id \in Id, id <= last_id, (id \in Pending) \/ Stale(id)
            PROVE  id \in overtaken'
        <4>1. id \in overtaken
          BY <3>2, <3>5 DEF FreshBelow
        <4>2. id \notin todo'
          BY <1>0, <3>1, <3>5 DEF Crashes, TypeOK, ProcessorTypeOK
        <4> QED
          BY <3>1, <4>1, <4>2
      <3>6. ASSUME NEW b \in todo', NEW id \in Id, id <= b,
                   (id \in Pending) \/ (Stale(id) /\ id \notin todo')
            PROVE  id \in overtaken'
        <4>1. CASE id \in Pending
          <5>1. id # b /\ b \in Id
            BY <3>4, <4>1 DEF Live, Pending
          <5>2. id \in Int /\ b \in Int
            BY <1>0, <5>1
          <5>3. id < b
            BY <3>6, <5>1, <5>2
          <5> QED
            BY <3>1, <4>1, <5>3
        <4>2. CASE Stale(id) /\ id \notin todo'
          <5>1. ~(id > last_id)
            BY <3>1, <4>2 DEF Crashes, Stale
          <5>2. id <= last_id
            BY <1>0, <5>1 DEF TypeOK, ProcessorTypeOK
          <5> QED
            BY <3>5, <4>2, <5>2
        <4> QED
          BY <3>6, <4>1, <4>2
      <3>7. InHand' = todo' /\ Ahead' = todo'
        BY <3>1 DEF InHand, Ahead
      <3> QED
        BY <3>1, <3>3, <3>5, <3>6, <3>7 DEF FreshBatch, Started, Fetched, FreshBelow
    <2> QED
      BY <2>1, <2>2 DEF FreshBatch
  <1>5. CASE (ChooseGuilty \/ Attribute) /\ ~raced' /\ ~straddling'
    <2>1. UNCHANGED <<raced, straddling, last_id>> /\ ~raced /\ ~straddling
      BY <1>5 DEF ChooseGuilty, InsertGuilty, Attribute, UpdateGuilty, ghosts, batch
    <2>2. /\ stage \in Fetched /\ stage' \in Fetched
          /\ Ahead' \subseteq Ahead
          /\ \A id \in Id : (Stale(id)' /\ id \in InHand) => id \in InHand'
      BY <1>5, <2>1, HandChange
    <2>3. Still
      <3>1. ~Fetch
        BY <2>2 DEF Fetch, GetCrashes, Fetched
      <3> QED
        BY <3>1, StillStep
    <2>4. last_id < next_id /\ FreshBelow(last_id, {})
      BY <2>1, <2>2 DEF BatchInv, FreshBatch, Started, Fetched
    <2>5. FreshBelow(last_id, {})'
      <3>1. last_id \in Int
        BY <1>0 DEF TypeOK, ProcessorTypeOK
      <3> QED
        BY <2>1, <2>3, <2>4, <3>1, StaysFresh DEF FreshBelow
    <2>6. ASSUME NEW b \in Ahead' PROVE (FreshBelow(b, InHand))'
      <3>1. b \in Ahead /\ b < next_id /\ FreshBelow(b, InHand)
        BY <2>1, <2>2, <2>6 DEF BatchInv, FreshBatch
      <3>2. b \in Int
        BY <1>0, <3>1 DEF Ahead, TypeOK, ProcessorTypeOK
      <3>3. \A id \in Id : (id <= b /\ ((id \in Pending)' \/ (Stale(id)' /\ id \notin InHand')))
                               => id \in overtaken'
        BY <2>2, <2>3, <3>1, <3>2, StaysFresh
      <3> QED
        BY <3>3 DEF FreshBelow
    <2> QED
      BY <2>5, <2>6 DEF FreshBatch
  <1> QED
    BY <1>1, <1>2, <1>3, <1>4, <1>5 DEF ProcessorStep, FreshBatch

LEMMA ResetInductive == Spec => []ResetInv
  <1>1. Init => PromiseInv /\ FreshMarks /\ FreshBatch
    <2> SUFFICES ASSUME Init PROVE PromiseInv /\ FreshMarks /\ FreshBatch
      OBVIOUS
    <2>1. PromiseInv
      BY DEF Init, ProcessorInit, PromiseInv
    <2>2. FreshMarks /\ FreshBatch
      BY DEF Init, DatabaseInit, ProcessorInit, FreshMarks, FreshBatch, Marked, Live, Started, Fetched
    <2> QED
      BY <2>1, <2>2
  <1>2. RefInv /\ PromiseInv /\ FreshMarks /\ FreshBatch /\ [Next]_vars
            => PromiseInv' /\ FreshMarks' /\ FreshBatch'
    BY PromiseStep, FreshMarksStep, FreshBatchStep DEF RefInv, IInv
  <1> QED
    BY <1>1, <1>2, RefInductive, PTL DEF Spec, ResetInv

(* A reset of all records that was not lost to a left mark or a running    *)
(* batch is honoured.                                                      *)
THEOREM ResetsHonoured == Spec => []ResetHonoured
  <1>1. ResetInv => ResetHonoured
    <2> SUFFICES ASSUME ResetInv, ~raced, NEW id \in Live, IsCrash(id), HasFrames(id),
                        BelowMark(id), ~(version[id] >= promised)
                 PROVE  id \in overtaken
      BY DEF ResetHonoured
    <2>1. id \in Id /\ version[id] \in Nat /\ promised \in Nat
      BY DEF Live, ResetInv, RefInv, IInv, TypeOK, GhostTypeOK
    <2>2. Stale(id)
      BY <2>1 DEF Stale
    <2> QED
      BY <2>1, <2>2 DEF ResetInv, FreshMarks, FreshBelow, BelowMark
  <1> QED
    BY <1>1, ResetInductive, PTL
=============================================================================
