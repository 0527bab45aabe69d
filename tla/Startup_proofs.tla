-------------------------- MODULE Startup_proofs ---------------------------
(***************************************************************************)
(* The processing loop finds the schema it needs, however often the        *)
(* database fails and the environment is restarted.                        *)
(***************************************************************************)
EXTENDS Startup, TLAPS

(* The upgrade is one transaction, and the view keeps the tables.          *)
IInv ==
    /\ TypeOK
    /\ tables \in {{}, Table}
    /\ view => tables = Table
    /\ stage \in Looping => view

-----------------------------------------------------------------------------
LEMMA Initially == Init => IInv
  <1> SUFFICES ASSUME Init PROVE IInv
    OBVIOUS
  <1>1. TypeOK
    <2>1. 0 \in 0..MaxOutages /\ 0 \in 0..MaxRestarts
      BY StartupAssumption
    <2>2. {} \in SUBSET Table
      OBVIOUS
    <2> QED
      BY <2>1, <2>2 DEF Init, TypeOK, Waiting
  <1>2. tables = {} /\ ~view /\ stage \notin Looping
    BY DEF Init, Looping
  <1> QED
    BY <1>1, <1>2 DEF IInv

(* The migrate service creates tables for others only when it commits.     *)
LEMMA MigrateStep == ASSUME IInv, Migrate \/ FailUpgrade PROVE IInv'
  <1> USE DEF IInv, TypeOK, db, count
  <1>1. CASE StartUpgrade
    BY <1>1 DEF StartUpgrade
  <1>2. CASE CreateTable
    BY <1>2 DEF CreateTable
  <1>3. CASE CommitUpgrade
    BY <1>3 DEF CommitUpgrade
  <1>4. CASE FailUpgrade
    BY <1>4, StartupAssumption DEF FailUpgrade
  <1> QED
    BY <1>1, <1>2, <1>3, <1>4 DEF Migrate

(* run.sh enters the loop only with the view, and entrypoint.py creates    *)
(* the view only over the tables.                                          *)
LEMMA ProcessStep == ASSUME IInv, Process PROVE IInv'
  <1> USE DEF IInv, TypeOK, db, count, Waiting, Looping
  <1>1. CASE Connect
    BY <1>1 DEF Connect
  <1>2. CASE Select
    BY <1>2 DEF Select
  <1>3. CASE CreateView
    BY <1>3 DEF CreateView, Table
  <1>4. CASE BeginBatch
    BY <1>4 DEF BeginBatch
  <1>5. CASE EndBatch
    BY <1>5 DEF EndBatch
  <1> QED
    BY <1>1, <1>2, <1>3, <1>4, <1>5 DEF Process

(* Outages and restarts touch no data; a downgrade is refused while the    *)
(* view is there.                                                          *)
LEMMA OtherStep ==
    ASSUME IInv, StartDb \/ StopDb \/ Downgrade \/ Restart
    PROVE  IInv'
  <1> USE DEF IInv, TypeOK, db, count, Waiting, Looping
  <1>1. CASE StartDb
    BY <1>1 DEF StartDb
  <1>2. CASE StopDb
    <2>1. /\ stage' \in Waiting \cup Looping
          /\ stage' \in Looping => stage \in Looping
      BY <1>2 DEF StopDb
    <2>2. outages' \in 0..MaxOutages
      BY <1>2, StartupAssumption DEF StopDb
    <2> QED
      BY <1>2, <2>1, <2>2 DEF StopDb
  <1>3. CASE Downgrade
    BY <1>3 DEF Downgrade
  <1>4. CASE Restart
    BY <1>4, StartupAssumption DEF Restart
  <1> QED
    BY <1>1, <1>2, <1>3, <1>4

LEMMA Inductive == Spec => []IInv
  <1>1. IInv /\ [Next]_vars => IInv'
    <2> SUFFICES ASSUME IInv, [Next]_vars PROVE IInv'
      OBVIOUS
    <2>1. CASE UNCHANGED vars
      BY <2>1 DEF vars, IInv, TypeOK
    <2> QED
      BY <2>1, MigrateStep, ProcessStep, OtherStep DEF Next
  <1> QED
    BY <1>1, Initially, PTL DEF Spec

(* Type correctness, for any number of outages and restarts.               *)
THEOREM TypeCorrect == Spec => []TypeOK
  <1>1. IInv => TypeOK
    BY DEF IInv
  <1> QED
    BY <1>1, Inductive, PTL

(* The loop runs with the view and all the tables, whatever fails and      *)
(* restarts, and in whatever order.                                        *)
THEOREM SchemaThere == Spec => []LoopHasSchema
  <1>1. IInv => LoopHasSchema
    BY DEF IInv, LoopHasSchema
  <1> QED
    BY <1>1, Inductive, PTL

=============================================================================
