-------------------------- MODULE Retention_proofs --------------------------
(***************************************************************************)
(* The purge keeps to the retention policy: for every set of entries and   *)
(* retention times, whatever days its statements run on, it deletes what   *)
(* is overdue, and all of it.                                              *)
(***************************************************************************)
EXTENDS Retention, TLAPS

(* Some entry, or the general time, asks for r to be deleted.              *)
ByFilter(r, f)  == Days[f] # 0 /\ kind[r] \in Matches[f] /\ age[r] > Days[f]
ByGeneralTime(r) ==
    /\ MAX_DAYS_KEEP_UNFILTERED_RECORDS # 0
    /\ ~ \E f \in Filter : kind[r] \in Matches[f]
    /\ age[r] > MAX_DAYS_KEEP_UNFILTERED_RECORDS

(* What is selected so far is overdue.                                     *)
SelectedInv == \A r \in deleted : Overdue(r)

(* What was overdue when the purge began is still stored, and selected     *)
(* unless a statement that selects it is yet to run.                       *)
PendingInv ==
    task # "wait" =>
        \A r \in overdue :
            /\ r \in Stored
            /\ \/ r \in deleted
               \/ /\ task = "filters"
                  /\ (\E f \in todo : ByFilter(r, f)) \/ ByGeneralTime(r)

IInv == TypeOK /\ SelectedInv /\ PendingInv
-----------------------------------------------------------------------------
(* No step but a commit takes a row away or changes its kind, and ages     *)
(* only grow.                                                              *)
LEMMA RowsStay ==
  ASSUME TypeOK, [Next]_vars, ~Commit, NEW r \in Stored
  PROVE  r \in Stored' /\ kind'[r] = kind[r] /\ age[r] \in 0..MaxAge
         /\ age'[r] \in 0..MaxAge /\ age'[r] >= age[r]
  <1>. USE RetentionAssumption DEF TypeOK, Stored
  <1>1. CASE Post
    BY <1>1 DEF Post
  <1>2. CASE Tick
    BY <1>2 DEF Tick
  <1>3. CASE Cron
    BY <1>3 DEF Cron, table
  <1>4. CASE PurgeField
    BY <1>4 DEF PurgeField, table
  <1>5. CASE PurgeUnfiltered
    BY <1>5 DEF PurgeUnfiltered, table
  <1>6. CASE Rollback
    BY <1>6 DEF Rollback, table
  <1>7. CASE UNCHANGED vars
    BY <1>7 DEF vars
  <1>. QED BY <1>1, <1>2, <1>3, <1>4, <1>5, <1>6, <1>7 DEF Next

(* So what is overdue stays so, and for the same reason.                   *)
LEMMA OverdueStays ==
  ASSUME TypeOK, [Next]_vars, ~Commit, NEW r \in Stored
  PROVE  /\ Overdue(r) => Overdue(r)'
         /\ \A f \in Filter : ByFilter(r, f) => ByFilter(r, f)'
         /\ ByGeneralTime(r) => ByGeneralTime(r)'
  <1>1. r \in Stored' /\ kind'[r] = kind[r] /\ age[r] \in 0..MaxAge
        /\ age'[r] \in 0..MaxAge /\ age'[r] >= age[r]
    BY RowsStay
  <1>2. \A f \in Filter : Days[f] \in 0..(MaxAge - 1)
    BY RetentionAssumption
  <1>3. MaxAge \in Nat /\ MAX_DAYS_KEEP_UNFILTERED_RECORDS \in 0..(MaxAge - 1)
    BY RetentionAssumption
  <1>4. ASSUME NEW f \in Filter, ByFilter(r, f)
        PROVE  ByFilter(r, f)'
    BY <1>1, <1>2, <1>3, <1>4 DEF ByFilter
  <1>5. ASSUME ByGeneralTime(r)
        PROVE  ByGeneralTime(r)'
    BY <1>1, <1>3, <1>5 DEF ByGeneralTime
  <1>. QED
    BY <1>1, <1>4, <1>5 DEF Overdue, ByFilter, ByGeneralTime

LEMMA InitInv == Init => IInv
  <1>1. MaxAge \in Nat /\ MaxFails \in Nat
    BY RetentionAssumption
  <1>2. Init => TypeOK
    <2>1. Init => due \in BOOLEAN
      BY DEF Init
    <2>. QED
      BY <1>1, <2>1 DEF Init, TypeOK, Stored
  <1>. QED
    BY <1>2 DEF Init, IInv, SelectedInv, PendingInv

LEMMA TypeStep ==
  ASSUME TypeOK, [Next]_vars
  PROVE  TypeOK'
  <1>. USE RetentionAssumption DEF TypeOK, Stored
  <1>1. CASE Post
    BY <1>1 DEF Post
  <1>2. CASE Tick
    BY <1>2 DEF Tick
  <1>3. CASE Cron
    BY <1>3 DEF Cron, table
  <1>4. CASE PurgeField
    BY <1>4 DEF PurgeField, table
  <1>5. CASE PurgeUnfiltered
    BY <1>5 DEF PurgeUnfiltered, table
  <1>6. CASE Commit
    BY <1>6 DEF Commit, Over
  <1>7. CASE Rollback
    BY <1>7 DEF Rollback, Over, table
  <1>8. CASE UNCHANGED vars
    BY <1>8 DEF vars
  <1>. QED BY <1>1, <1>2, <1>3, <1>4, <1>5, <1>6, <1>7, <1>8 DEF Next

(* A statement selects what its entry, or the general time, asks for.      *)
LEMMA SelectedStep ==
  ASSUME IInv, [Next]_vars
  PROVE  SelectedInv'
  <1>. USE DEF IInv
  <1>1. CASE Commit \/ Rollback
    BY <1>1 DEF Commit, Rollback, Over, SelectedInv
  <1>2. CASE PurgeField
    <2>1. SUFFICES ASSUME NEW r \in deleted'
                   PROVE  Overdue(r)
      BY <1>2 DEF PurgeField, table, SelectedInv, Overdue, Stored
    <2>2. PICK f \in todo : deleted' = deleted \cup {q \in Stored : Selects(f, q)}
      BY <1>2 DEF PurgeField
    <2>3. CASE r \in deleted
      BY <2>3 DEF SelectedInv
    <2>4. CASE r \in Stored /\ Selects(f, r)
      BY <2>4 DEF Selects, Older, Overdue, TypeOK
    <2>. QED BY <2>1, <2>2, <2>3, <2>4
  <1>3. CASE PurgeUnfiltered
    <2>1. SUFFICES ASSUME NEW r \in deleted'
                   PROVE  Overdue(r)
      BY <1>3 DEF PurgeUnfiltered, table, SelectedInv, Overdue, Stored
    <2>2. CASE r \in deleted
      BY <2>2 DEF SelectedInv
    <2>3. CASE r \notin deleted
      BY <1>3, <2>1, <2>3 DEF PurgeUnfiltered, Unfiltered, Older, Overdue
    <2>. QED BY <2>2, <2>3
  <1>4. CASE Post \/ Tick \/ Cron \/ UNCHANGED vars
    <2>1. deleted' = deleted /\ ~Commit
      BY <1>4 DEF Post, Tick, Cron, vars, Commit, Over, TypeOK, table, Stored
    <2>. QED
      BY <2>1, OverdueStays DEF SelectedInv, TypeOK
  <1>. QED BY <1>1, <1>2, <1>3, <1>4 DEF Next

(* ... and what it leaves is asked for by another.                         *)
LEMMA PendingStep ==
  ASSUME IInv, [Next]_vars
  PROVE  PendingInv'
  <1>. USE DEF IInv
  <1>1. CASE Commit \/ Rollback
    BY <1>1 DEF Commit, Rollback, Over, PendingInv
  <1>2. CASE Cron
    <2>1. SUFFICES ASSUME task' # "wait", NEW r \in overdue'
                   PROVE  /\ r \in Stored
                          /\ \/ r \in deleted
                             \/ \E f \in todo' : ByFilter(r, f)
                             \/ task' = "filters" /\ ByGeneralTime(r)
      BY <1>2 DEF Cron, table, PendingInv, Stored, ByFilter, ByGeneralTime
    <2>2. Overdue(r) /\ todo' = Filter /\ task' = "filters"
      BY <1>2, <2>1 DEF Cron
    <2>. QED
      BY <2>2 DEF Overdue, ByFilter, ByGeneralTime
  <1>3. CASE PurgeField
    <2>1. PICK f \in todo : /\ deleted' = deleted \cup {q \in Stored : Selects(f, q)}
                            /\ todo' = todo \ {f}
      BY <1>3 DEF PurgeField
    <2>2. SUFFICES ASSUME NEW r \in overdue
                   PROVE  /\ r \in Stored
                          /\ \/ r \in deleted'
                             \/ \E h \in todo' : ByFilter(r, h)
                             \/ ByGeneralTime(r)
      BY <1>3 DEF PurgeField, table, PendingInv, Stored, ByFilter, ByGeneralTime
    <2>3. r \in Stored /\ (r \in deleted \/ (\E h \in todo : ByFilter(r, h)) \/ ByGeneralTime(r))
      BY <1>3 DEF PurgeField, PendingInv
    <2>4. ByFilter(r, f) => r \in deleted'
      BY <2>1, <2>3 DEF ByFilter, Selects, Older
    <2>. QED BY <2>1, <2>3, <2>4
  <1>4. CASE PurgeUnfiltered
    <2>1. SUFFICES ASSUME NEW r \in overdue
                   PROVE  r \in Stored /\ r \in deleted'
      BY <1>4 DEF PurgeUnfiltered, table, PendingInv, Stored
    <2>2. r \in Stored /\ (r \in deleted \/ ByGeneralTime(r))
      BY <1>4 DEF PurgeUnfiltered, PendingInv
    <2>. QED
      BY <1>4, <2>2 DEF PurgeUnfiltered, ByGeneralTime, Unfiltered, Older
  <1>5. CASE Post \/ Tick \/ UNCHANGED vars
    <2>1. UNCHANGED <<deleted, todo, task, overdue>> /\ (task # "wait" => ~Commit)
      BY <1>5 DEF Post, Tick, vars, Commit, Over
    <2>2. SUFFICES ASSUME task # "wait", NEW r \in overdue
                   PROVE  /\ r \in Stored'
                          /\ \/ r \in deleted
                             \/ /\ task = "filters"
                                /\ (\E f \in todo : ByFilter(r, f)') \/ ByGeneralTime(r)'
      BY <2>1 DEF PendingInv
    <2>3. /\ r \in Stored
          /\ \/ r \in deleted
             \/ /\ task = "filters"
                /\ (\E f \in todo : ByFilter(r, f)) \/ ByGeneralTime(r)
      BY <2>2 DEF PendingInv
    <2>. QED
      BY <2>1, <2>2, <2>3, RowsStay, OverdueStays DEF TypeOK
  <1>. QED BY <1>1, <1>2, <1>3, <1>4, <1>5 DEF Next

(* The invariant holds throughout.                                         *)
LEMMA Invariant == Spec => []IInv
  <1>1. IInv /\ [Next]_vars => IInv'
    BY TypeStep, SelectedStep, PendingStep DEF IInv
  <1>. QED
    BY InitInv, <1>1, PTL DEF Spec

(* The variables of the purge keep their types (delete_records).           *)
THEOREM TypeCorrect == Spec => []TypeOK
  <1>1. IInv => TypeOK
    BY DEF IInv
  <1>. QED
    BY <1>1, Invariant, PTL

(* A purge deletes only what is overdue (delete_records, whatever the      *)
(* entries, the times and the days).                                       *)
THEOREM DeletesOnlyOverdue == Spec => OnlyOverdueDeleted
  <1>1. ASSUME IInv, [Next]_vars
        PROVE  [\A r \in Row : (r \in Stored /\ kind'[r] = NoRecord) => Overdue(r)]_vars
    <2>1. CASE Commit
      BY <1>1, <2>1 DEF Commit, IInv, SelectedInv, Stored
    <2>2. CASE ~Commit
      BY <1>1, <2>2, RowsStay DEF IInv, Stored
    <2>. QED BY <2>1, <2>2
  <1>. QED
    BY <1>1, Invariant, PTL DEF Spec, OnlyOverdueDeleted

(* ... and when it commits, nothing that was overdue when it began is left *)
(* (delete_records, the unfiltered records included).                      *)
THEOREM DeletesAllOverdue == Spec => AllOverdueDeleted
  <1>1. ASSUME IInv, [Next]_vars
        PROVE  [Commit => \A r \in overdue : kind'[r] = NoRecord]_vars
    <2>1. SUFFICES ASSUME Commit, NEW r \in overdue
                   PROVE  kind'[r] = NoRecord
      OBVIOUS
    <2>2. r \in Row /\ r \in deleted
      BY <1>1, <2>1 DEF Commit, IInv, PendingInv, TypeOK
    <2>. QED
      BY <2>1, <2>2 DEF Commit
  <1>. QED
    BY <1>1, Invariant, PTL DEF Spec, AllOverdueDeleted
=============================================================================
