------------------------ MODULE BlacklistRows_proofs ------------------------
(***************************************************************************)
(* What a request does to the blacklist, however many requests, pairs and  *)
(* rows there are.                                                         *)
(***************************************************************************)
EXTENDS BlacklistRows, FiniteSetTheorems, TLAPS

(* A request works through what it was asked to do and on nothing else.    *)
Within(a) ==
    /\ asked[a].add \cap asked[a].remove = {}
    /\ to_add[a] \subseteq asked[a].add
    /\ inserts[a] \subseteq asked[a].add
    /\ to_remove[a] \subseteq asked[a].remove
    /\ entry[a] \in asked[a].remove \cup {NoPair}
    /\ \A id \in deletes[a] : row[id] \in asked[a].remove \cup {NoPair}

(* The phases of a request; guilty_remove has a single pair.               *)
Phases(a) ==
    /\ request[a] # "edit" => to_add[a] = {} /\ entry[a] = NoPair
    /\ request[a] \in {"idle", "commit"} => to_remove[a] = {}
    /\ request[a] = "idle" => inserts[a] = {} /\ deletes[a] = {}
    /\ request[a] = "remove" => asked[a].add = {} /\ \A p, q \in asked[a].remove : p = q

(* What a request that no other one overlaps has dealt with is in the      *)
(* table or to be inserted, or all its rows are to be deleted.             *)
Alone(a) == request[a] # "idle" /\ ~overlapped[a] /\ \A p \in Pair : Single(p)

Dealt(a) ==
    Alone(a) =>
        /\ \A p \in asked[a].add \ to_add[a] : p \in inserts[a] \/ Rows(p) # {}
        /\ \A p \in asked[a].remove \ (to_remove[a] \cup {entry[a]}) : Rows(p) \subseteq deletes[a]

(* The rows of a pair and the requests about to insert one more.           *)
Inserters(p) == {a \in Admin : p \in inserts[a]}

Bounded(p) ==
    /\ IsFiniteSet(Rows(p))
    /\ Cardinality(Rows(p)) + Cardinality(Inserters(p)) <= Cardinality(Admin)

WorkInv   == \A a \in Admin : Within(a) /\ Phases(a)
DealtInv  == \A a \in Admin : Dealt(a)
CopiesInv == \A p \in Pair : Bounded(p)

-----------------------------------------------------------------------------
LEMMA TypeStep == TypeOK /\ [Next]_vars => TypeOK'
  <1> SUFFICES ASSUME TypeOK, [Next]_vars PROVE TypeOK'
    OBVIOUS
  <1> USE BlacklistAssumption DEF TypeOK
  <1>1. CASE UNCHANGED vars
    BY <1>1 DEF vars, work, ghosts
  <1>2. ASSUME NEW a \in Admin, Edit(a) PROVE TypeOK'
    BY <1>2 DEF Edit, Begin, Proceed
  <1>3. ASSUME NEW a \in Admin, RemoveForm(a) PROVE TypeOK'
    BY <1>3 DEF RemoveForm, Begin, Proceed, Listed
  <1>4. ASSUME NEW a \in Admin, Add(a) PROVE TypeOK'
    BY <1>4 DEF Add, ghosts
  <1>5. ASSUME NEW a \in Admin, LookUp(a) PROVE TypeOK'
    BY <1>5 DEF LookUp, ghosts
  <1>6. ASSUME NEW a \in Admin, DeleteEntry(a) PROVE TypeOK'
    BY <1>6 DEF DeleteEntry, Delete, Found, Rows, ghosts
  <1>7. ASSUME NEW a \in Admin, RemoveEntry(a) PROVE TypeOK'
    BY <1>7 DEF RemoveEntry, Delete, Found, Rows, Proceed, ghosts
  <1>8. ASSUME NEW a \in Admin, Commit(a) PROVE TypeOK'
    <2>1. PICK ids \in [inserts[a] -> RowId \ used] :
              /\ row' = [id \in RowId |->
                            IF id \in deletes[a] THEN NoPair
                            ELSE IF \E p \in inserts[a] : ids[p] = id
                                 THEN CHOOSE p \in inserts[a] : ids[p] = id
                                 ELSE row[id]]
              /\ used' = used \cup {ids[p] : p \in inserts[a]}
      BY <1>8 DEF Commit
    <2>2. row' \in [RowId -> Pair \cup {NoPair}]
      BY <2>1
    <2>3. used' \subseteq RowId /\ used \subseteq used'
      <3>1. {ids[p] : p \in inserts[a]} \subseteq RowId
        <4> SUFFICES ASSUME NEW id \in {ids[p] : p \in inserts[a]} PROVE id \in RowId
          OBVIOUS
        <4>1. PICK p \in inserts[a] : id = ids[p]
          OBVIOUS
        <4> QED
          BY <4>1
      <3>2. used' = used \cup {ids[p] : p \in inserts[a]}
        BY <2>1
      <3> QED
        BY <3>1, <3>2, Zenon
    <2>4. \A id \in RowId : row'[id] # NoPair => id \in used'
      BY <2>1
    <2> QED
      BY <1>8, <2>2, <2>3, <2>4 DEF Commit, End, Proceed
  <1>9. ASSUME NEW a \in Admin, Abort(a) PROVE TypeOK'
    BY <1>9 DEF Abort, End, Proceed, ghosts
  <1> QED
    BY <1>1, <1>2, <1>3, <1>4, <1>5, <1>6, <1>7, <1>8, <1>9 DEF Next, Step

(* The variables keep their types, for any number of requests.             *)
THEOREM TypeCorrect == Spec => []TypeOK
  <1>1. Init => TypeOK
    BY BlacklistAssumption DEF Init, TypeOK, NoRequest
  <1> QED
    BY <1>1, TypeStep, PTL DEF Spec

-----------------------------------------------------------------------------
(* A commit gives rows to pairs of its own and takes rows it has deleted;  *)
(* the others stay.                                                        *)
LEMMA CommitRows ==
    ASSUME TypeOK, NEW a \in Admin, Commit(a)
    PROVE  /\ row' \in [RowId -> Pair \cup {NoPair}]
           /\ \A id \in deletes[a] : row'[id] = NoPair
           /\ \A id \in used \ deletes[a] : row'[id] = row[id]
           /\ \A id \in RowId \ used : row'[id] \in inserts[a] \cup {NoPair}
           /\ \A p \in inserts[a] :
                  \E id \in RowId \ used :
                      /\ row'[id] = p
                      /\ \A j \in RowId \ used : row'[j] = p => j = id
  <1> USE BlacklistAssumption DEF TypeOK
  <1>1. PICK ids \in [inserts[a] -> RowId \ used] :
            /\ \A p, q \in inserts[a] : p # q => ids[p] # ids[q]
            /\ row' = [id \in RowId |->
                          IF id \in deletes[a] THEN NoPair
                          ELSE IF \E p \in inserts[a] : ids[p] = id
                               THEN CHOOSE p \in inserts[a] : ids[p] = id
                               ELSE row[id]]
    BY DEF Commit
  <1>2. \A id \in RowId \ used : row[id] = NoPair
    OBVIOUS
  <1>3. deletes[a] \subseteq used /\ used \subseteq RowId
    OBVIOUS
  <1>4. \A id \in RowId \ used : row'[id] \in inserts[a] \cup {NoPair}
    BY <1>1, <1>2, <1>3
  <1>5. ASSUME NEW p \in inserts[a]
        PROVE  /\ row'[ids[p]] = p
               /\ \A j \in RowId \ used : row'[j] = p => j = ids[p]
    <2>1. row'[ids[p]] = p
      BY <1>1, <1>3
    <2>2. ASSUME NEW j \in RowId \ used, row'[j] = p PROVE j = ids[p]
      <3>1. PICK q \in inserts[a] : ids[q] = j
        BY <1>1, <1>2, <1>3, <2>2
      <3>2. row'[j] = q
        BY <1>1, <1>3, <3>1
      <3> QED
        BY <2>2, <3>1, <3>2
    <2> QED
      BY <2>1, <2>2
  <1>6. \A p \in inserts[a] : ids[p] \in RowId \ used
    BY <1>1
  <1>7. row' \in [RowId -> Pair \cup {NoPair}]
    BY <1>1
  <1>8. \A id \in deletes[a] : row'[id] = NoPair
    BY <1>1, <1>3
  <1>9. \A id \in used \ deletes[a] : row'[id] = row[id]
    BY <1>1, <1>3
  <1>10. ASSUME NEW p \in inserts[a]
         PROVE  \E id \in RowId \ used :
                    /\ row'[id] = p
                    /\ \A j \in RowId \ used : row'[j] = p => j = id
    <2> WITNESS ids[p] \in RowId \ used
    <2> QED
      BY <1>5
  <1> QED
    BY <1>4, <1>7, <1>8, <1>9, <1>10

(* The requests other than a keep their work.                              *)
LEMMA OthersKeep ==
    ASSUME TypeOK, NEW a \in Admin, Step(a), NEW b \in Admin, b # a
    PROVE  /\ UNCHANGED <<request[b], to_add[b], to_remove[b], entry[b]>>
           /\ UNCHANGED <<inserts[b], deletes[b], asked[b]>>
  BY DEF TypeOK, Step, Edit, RemoveForm, Add, LookUp, DeleteEntry, RemoveEntry, Commit, Abort, Delete,
         Begin, Proceed, End, ghosts

(* Rows another request has deleted or listed do not get a new pair.       *)
LEMMA OthersWithin ==
    ASSUME TypeOK, WorkInv, NEW a \in Admin, Step(a), NEW b \in Admin, b # a
    PROVE  Within(b)' /\ Phases(b)'
  <1> USE DEF WorkInv
  <1>1. UNCHANGED <<request[b], to_add[b], to_remove[b], entry[b], inserts[b], deletes[b], asked[b]>>
    BY OthersKeep
  <1>2. Phases(b)'
    BY <1>1 DEF Phases
  <1>3. \A id \in deletes[b] : row'[id] \in {row[id], NoPair}
    <2>1. CASE Commit(a)
      <3>1. deletes[b] \subseteq used
        BY DEF TypeOK
      <3> QED
        BY <2>1, <3>1, CommitRows
    <2>2. CASE ~Commit(a)
      <3>1. UNCHANGED row
        BY <2>2 DEF Step, Edit, RemoveForm, Add, LookUp, DeleteEntry, RemoveEntry, Abort
      <3> QED
        BY <3>1
    <2> QED
      BY <2>1, <2>2
  <1>4. Within(b)'
    BY <1>1, <1>3 DEF Within
  <1> QED
    BY <1>2, <1>4

LEMMA OwnWithin ==
    ASSUME TypeOK, WorkInv, NEW a \in Admin, Step(a)
    PROVE  Within(a)' /\ Phases(a)'
  <1>1. Within(a) /\ Phases(a)
    BY DEF WorkInv
  <1> USE BlacklistAssumption DEF Within, Phases, TypeOK
  <1>2. CASE Edit(a)
    <2>1. PICK add \in SUBSET Pair :
              \E remove \in SUBSET (Pair \ add) :
                  /\ add \cup remove # {}
                  /\ Begin(a, [add |-> add, remove |-> remove])
                  /\ to_add' = [to_add EXCEPT ![a] = add]
                  /\ to_remove' = [to_remove EXCEPT ![a] = remove]
      BY <1>2, Zenon DEF Edit
    <2>2. PICK remove \in SUBSET (Pair \ add) :
              /\ Begin(a, [add |-> add, remove |-> remove])
              /\ to_add' = [to_add EXCEPT ![a] = add]
              /\ to_remove' = [to_remove EXCEPT ![a] = remove]
      BY <2>1, Zenon
    <2>3. asked'[a] = [add |-> add, remove |-> remove]
      BY <2>2 DEF Begin
    <2> QED
      BY <1>1, <1>2, <2>2, <2>3 DEF Edit, Begin, Proceed
  <1>3. CASE RemoveForm(a)
    <2>1. PICK p \in Listed :
              /\ Begin(a, [add |-> {}, remove |-> {p}])
              /\ to_remove' = [to_remove EXCEPT ![a] = {p}]
      BY <1>3 DEF RemoveForm
    <2>2. asked'[a] = [add |-> {}, remove |-> {p}]
      BY <2>1 DEF Begin
    <2> QED
      BY <1>1, <1>3, <2>1, <2>2 DEF RemoveForm, Begin, Proceed
  <1>4. CASE Add(a)
    BY <1>1, <1>4 DEF Add, ghosts
  <1>5. CASE LookUp(a)
    BY <1>1, <1>5 DEF LookUp, ghosts
  <1>6. CASE DeleteEntry(a)
    BY <1>1, <1>6 DEF DeleteEntry, Delete, Found, Rows, ghosts
  <1>7. CASE RemoveEntry(a)
    BY <1>1, <1>7 DEF RemoveEntry, Delete, Found, Rows, Proceed, ghosts
  <1>8. CASE Commit(a)
    BY <1>1, <1>8 DEF Commit, End, Proceed
  <1>9. CASE Abort(a)
    BY <1>1, <1>9 DEF Abort, End, Proceed, ghosts
  <1> QED
    BY <1>2, <1>3, <1>4, <1>5, <1>6, <1>7, <1>8, <1>9 DEF Step

LEMMA WorkStep == TypeOK /\ WorkInv /\ [Next]_vars => WorkInv'
  <1> SUFFICES ASSUME TypeOK, WorkInv, [Next]_vars PROVE WorkInv'
    OBVIOUS
  <1>1. CASE UNCHANGED vars
    BY <1>1 DEF WorkInv, Within, Phases, vars, work, ghosts
  <1>2. ASSUME NEW a \in Admin, Step(a) PROVE WorkInv'
    <2>1. \A b \in Admin : Within(b)' /\ Phases(b)'
      BY <1>2, OthersWithin, OwnWithin
    <2> QED
      BY <2>1 DEF WorkInv
  <1> QED
    BY <1>1, <1>2 DEF Next

LEMMA WorkInductive == Spec => [](TypeOK /\ WorkInv)
  <1>1. Init => TypeOK /\ WorkInv
    BY BlacklistAssumption DEF Init, TypeOK, NoRequest, WorkInv, Within, Phases
  <1> QED
    BY <1>1, TypeStep, WorkStep, PTL DEF Spec

-----------------------------------------------------------------------------
(* Whatever overlaps, a commit changes the listing of no pair it was not   *)
(* asked about.                                                            *)
LEMMA CommitListing ==
    ASSUME TypeOK, WorkInv, NEW a \in Admin, Commit(a),
           NEW p \in Pair, p \notin asked[a].add \cup asked[a].remove
    PROVE  p \in Listed' <=> p \in Listed
  <1>1. Within(a)
    BY DEF WorkInv
  <1>2. \A id \in RowId : row'[id] = p <=> row[id] = p
    <2> SUFFICES ASSUME NEW id \in RowId PROVE row'[id] = p <=> row[id] = p
      OBVIOUS
    <2> USE BlacklistAssumption
    <2>1. CASE id \in deletes[a]
      BY <1>1, <2>1, CommitRows DEF Within
    <2>2. CASE id \in used \ deletes[a]
      BY <2>2, CommitRows
    <2>3. CASE id \in RowId \ used
      BY <1>1, <2>3, CommitRows DEF Within, TypeOK
    <2> QED
      BY <2>1, <2>2, <2>3
  <1> QED
    BY <1>2 DEF Listed, Rows

THEOREM OthersStay == Spec => OthersUntouched
  <1>1. TypeOK /\ WorkInv /\ [Next]_vars =>
            [\A a \in Admin : Commit(a) =>
                \A p \in Pair \ (asked[a].add \cup asked[a].remove) :
                    p \in Listed' <=> p \in Listed]_vars
    BY CommitListing
  <1> QED
    BY <1>1, WorkInductive, PTL DEF Spec, OthersUntouched

-----------------------------------------------------------------------------
LEMMA OthersDealt ==
    ASSUME TypeOK, DealtInv, NEW a \in Admin, Step(a), NEW b \in Admin, b # a
    PROVE  Dealt(b)'
  <1>1. UNCHANGED <<request[b], to_add[b], to_remove[b], entry[b], inserts[b], deletes[b], asked[b]>>
    BY OthersKeep
  <1>2. CASE Commit(a)
    <2>1. request[b] # "idle" => overlapped'[b]
      BY <1>2 DEF Commit
    <2> QED
      BY <1>1, <2>1 DEF Dealt, Alone
  <1>3. CASE ~Commit(a)
    <2>1. UNCHANGED row /\ overlapped'[b] = overlapped[b]
      BY <1>3 DEF TypeOK, Step, Edit, RemoveForm, Begin, Add, LookUp, DeleteEntry, RemoveEntry, Abort, ghosts
    <2>2. Alone(b)' => Alone(b)
      BY <1>1, <2>1 DEF Alone, Single, Rows
    <2> QED
      BY <1>1, <2>1, <2>2 DEF DealtInv, Dealt, Rows
  <1> QED
    BY <1>2, <1>3

(* Of a pair with a single row, one DELETE takes all there is.             *)
LEMMA OneDelete ==
    ASSUME TypeOK, NEW a \in Admin, NEW p \in Pair, Delete(a, p), Single(p), UNCHANGED row
    PROVE  Rows(p)' \subseteq deletes'[a]
  BY DEF TypeOK, Delete, Found, Single, Rows

LEMMA OwnDealt ==
    ASSUME TypeOK, WorkInv, DealtInv, NEW a \in Admin, Step(a)
    PROVE  Dealt(a)'
  <1>1. Within(a) /\ Phases(a) /\ Dealt(a)
    BY DEF WorkInv, DealtInv
  <1> USE DEF TypeOK
  <1>2. CASE Edit(a)
    <2>1. PICK add \in SUBSET Pair :
              \E remove \in SUBSET (Pair \ add) :
                  /\ add \cup remove # {}
                  /\ Begin(a, [add |-> add, remove |-> remove])
                  /\ to_add' = [to_add EXCEPT ![a] = add]
                  /\ to_remove' = [to_remove EXCEPT ![a] = remove]
      BY <1>2, Zenon DEF Edit
    <2>2. PICK remove \in SUBSET (Pair \ add) :
              /\ Begin(a, [add |-> add, remove |-> remove])
              /\ to_add' = [to_add EXCEPT ![a] = add]
              /\ to_remove' = [to_remove EXCEPT ![a] = remove]
      BY <2>1, Zenon
    <2>3. asked'[a].add = to_add'[a] /\ asked'[a].remove = to_remove'[a]
      BY <2>2 DEF Begin
    <2> QED
      BY <2>3 DEF Dealt
  <1>3. CASE RemoveForm(a)
    <2>1. PICK p \in Listed :
              /\ Begin(a, [add |-> {}, remove |-> {p}])
              /\ to_remove' = [to_remove EXCEPT ![a] = {p}]
      BY <1>3 DEF RemoveForm
    <2>2. asked'[a].add = {} /\ asked'[a].remove = to_remove'[a]
      BY <2>1 DEF Begin
    <2> QED
      BY <2>2 DEF Dealt
  <1>4. CASE Add(a)
    <2>1. Alone(a)' => Alone(a)
      BY <1>4 DEF Add, Alone, Single, Rows, ghosts
    <2>2. PICK p \in to_add[a] :
              /\ inserts'[a] = IF Exists(a, p) THEN inserts[a] ELSE inserts[a] \cup {p}
              /\ to_add'[a] = to_add[a] \ {p}
      BY <1>4 DEF Add
    <2>3. Exists(a, p) => Rows(p) # {} \/ p \in inserts[a]
      BY DEF Exists, Found
    <2>4. UNCHANGED <<row, asked, to_remove, entry, deletes>>
      BY <1>4 DEF Add, ghosts
    <2> QED
      BY <1>1, <2>1, <2>2, <2>3, <2>4 DEF Dealt, Rows
  <1>5. CASE LookUp(a)
    <2>1. Alone(a)' => Alone(a)
      BY <1>5 DEF LookUp, Alone, Single, Rows, ghosts
    <2>2. PICK p \in to_remove[a] :
              /\ entry'[a] = IF Exists(a, p) THEN p ELSE NoPair
              /\ to_remove'[a] = to_remove[a] \ {p}
      BY <1>5 DEF LookUp
    <2>3. ~Exists(a, p) => Rows(p) \subseteq deletes[a]
      BY DEF Exists, Found
    <2>4. entry[a] = NoPair /\ UNCHANGED <<row, asked, to_add, inserts, deletes>>
      BY <1>5 DEF LookUp, ghosts
    <2>5. NoPair \notin asked[a].remove
      BY BlacklistAssumption
    <2> QED
      BY <1>1, <2>1, <2>2, <2>3, <2>4, <2>5 DEF Dealt, Rows
  <1>6. CASE DeleteEntry(a)
    <2>1. Alone(a)' => Alone(a)
      BY <1>6 DEF DeleteEntry, Alone, Single, Rows, ghosts
    <2>2. UNCHANGED <<row, asked, to_add, to_remove, inserts>> /\ deletes[a] \subseteq deletes'[a]
      BY <1>6 DEF DeleteEntry, Delete, ghosts
    <2>3. PICK p \in Pair : p = entry[a]
      BY <1>6 DEF DeleteEntry
    <2>4. Delete(a, p) /\ entry'[a] = NoPair
      BY <1>6, <2>3 DEF DeleteEntry
    <2>5. Alone(a) => Rows(p)' \subseteq deletes'[a]
      BY <2>2, <2>4, OneDelete DEF Alone
    <2>6. ASSUME Alone(a), NEW q \in asked'[a].remove \ (to_remove'[a] \cup {entry'[a]})
          PROVE  Rows(q)' \subseteq deletes'[a]
      <3>1. CASE q = p
        BY <2>5, <2>6, <3>1
      <3>2. CASE q # p
        <4>1. Rows(q) \subseteq deletes[a]
          BY <1>1, <2>2, <2>3, <2>6, <3>2 DEF Dealt
        <4> QED
          BY <2>2, <4>1 DEF Rows
      <3> QED
        BY <3>1, <3>2
    <2> QED
      BY <1>1, <2>1, <2>2, <2>6 DEF Dealt, Rows
  <1>7. CASE RemoveEntry(a)
    <2>1. Alone(a)' => Alone(a)
      BY <1>7 DEF RemoveEntry, Alone, Single, Rows, ghosts
    <2>2. PICK p \in to_remove[a] \ Colon : Delete(a, p)
      BY <1>7 DEF RemoveEntry
    <2>3. UNCHANGED <<row, asked>>
      BY <1>7 DEF RemoveEntry, ghosts
    <2>4. Alone(a) => Rows(p)' \subseteq deletes'[a]
      BY <2>2, <2>3, OneDelete DEF Alone
    <2>5. asked'[a].add = {} /\ \A q \in asked'[a].remove : q = p
      BY <1>1, <1>7, <2>2, <2>3 DEF RemoveEntry, Within, Phases
    <2> QED
      BY <2>1, <2>4, <2>5 DEF Dealt, Rows
  <1>8. CASE Commit(a) \/ Abort(a)
    <2>1. request'[a] = "idle"
      BY <1>8 DEF Commit, Abort, End, Proceed
    <2> QED
      BY <2>1 DEF Dealt, Alone
  <1> QED
    BY <1>2, <1>3, <1>4, <1>5, <1>6, <1>7, <1>8 DEF Step

LEMMA DealtInductive == Spec => [](TypeOK /\ WorkInv /\ DealtInv)
  <1>1. Init => DealtInv
    BY DEF Init, DealtInv, Dealt, Alone
  <1>2. TypeOK /\ WorkInv /\ DealtInv /\ [Next]_vars => DealtInv'
    <2> SUFFICES ASSUME TypeOK, WorkInv, DealtInv, [Next]_vars PROVE DealtInv'
      OBVIOUS
    <2>1. CASE UNCHANGED vars
      BY <2>1 DEF DealtInv, Dealt, Alone, Single, Rows, vars, work, ghosts
    <2>2. ASSUME NEW a \in Admin, Step(a) PROVE DealtInv'
      <3>1. \A b \in Admin : Dealt(b)'
        BY <2>2, OthersDealt, OwnDealt
      <3> QED
        BY <3>1 DEF DealtInv
    <2> QED
      BY <2>1, <2>2 DEF Next
  <1> QED
    BY <1>1, <1>2, WorkInductive, PTL DEF Spec

(* A request that no other one overlaps leaves the table as it was asked   *)
(* to: what GuiltyAdmin does in one step.                                  *)
LEMMA AloneCommit ==
    ASSUME TypeOK, WorkInv, DealtInv, NEW a \in Admin, Commit(a), ~overlapped[a],
           \A p \in Pair : Single(p)
    PROVE  Listed' = (Listed \ asked[a].remove) \cup asked[a].add
  <1>1. Within(a) /\ Phases(a) /\ Dealt(a)
    BY DEF WorkInv, DealtInv
  <1>2. request[a] # "idle" /\ to_add[a] = {} /\ to_remove[a] = {} /\ entry[a] = NoPair
    BY <1>1 DEF Commit, Phases
  <1>3. asked[a].add \subseteq Pair /\ asked[a].remove \subseteq Pair /\ NoPair \notin Pair
    BY BlacklistAssumption DEF TypeOK
  <1>4. /\ \A p \in asked[a].add : p \in inserts[a] \/ Rows(p) # {}
        /\ \A p \in asked[a].remove : Rows(p) \subseteq deletes[a]
    BY <1>1, <1>2, <1>3 DEF Dealt, Alone
  <1>5. ASSUME NEW p \in asked[a].add PROVE p \in Listed'
    <2>1. CASE p \in inserts[a]
      BY <1>3, <2>1, CommitRows DEF Listed, Rows
    <2>2. CASE Rows(p) # {}
      <3>1. PICK id \in RowId : row[id] = p
        BY <2>2 DEF Rows
      <3>2. id \in used \ deletes[a]
        BY <1>1, <1>3, <3>1 DEF Within, TypeOK
      <3>3. row'[id] = p
        BY <3>1, <3>2, CommitRows
      <3> QED
        BY <1>3, <3>1, <3>3 DEF Listed, Rows
    <2> QED
      BY <1>4, <2>1, <2>2
  <1>6. ASSUME NEW p \in asked[a].remove PROVE p \notin Listed'
    <2>1. ASSUME NEW id \in RowId PROVE row'[id] # p
      <3>1. CASE id \in deletes[a]
        BY <1>3, <3>1, CommitRows
      <3>2. CASE id \in used \ deletes[a]
        BY <1>4, <3>2, CommitRows DEF Rows
      <3>3. CASE id \in RowId \ used
        BY <1>1, <1>3, <3>3, CommitRows DEF Within
      <3> QED
        BY <3>1, <3>2, <3>3
    <2> QED
      BY <2>1 DEF Listed, Rows
  <1>7. \A p \in Pair \ (asked[a].add \cup asked[a].remove) : p \in Listed' <=> p \in Listed
    BY CommitListing
  <1>8. Listed \subseteq Pair /\ Listed' \subseteq Pair
    BY DEF Listed
  <1> QED
    BY <1>1, <1>3, <1>5, <1>6, <1>7, <1>8 DEF Within

THEOREM TakesEffect == Spec => AloneTakesEffect
  <1>1. TypeOK /\ WorkInv /\ DealtInv /\ [Next]_vars =>
            [\A a \in Admin :
                (Commit(a) /\ ~overlapped[a] /\ \A p \in Pair : Single(p))
                    => Listed' = (Listed \ asked[a].remove) \cup asked[a].add]_vars
    BY AloneCommit
  <1> QED
    BY <1>1, DealtInductive, PTL DEF Spec, AloneTakesEffect

-----------------------------------------------------------------------------
LEMMA Counts ==
    ASSUME CopiesInv, NEW p \in Pair
    PROVE  /\ IsFiniteSet(Rows(p)) /\ Cardinality(Rows(p)) \in Nat
           /\ IsFiniteSet(Inserters(p)) /\ Cardinality(Inserters(p)) \in Nat
           /\ Cardinality(Admin) \in Nat
           /\ Cardinality(Rows(p)) + Cardinality(Inserters(p)) <= Cardinality(Admin)
  <1>1. Inserters(p) \in SUBSET Admin
    BY DEF Inserters
  <1>2. IsFiniteSet(Inserters(p))
    BY <1>1, FS_Subset, BlacklistAssumption
  <1> QED
    BY <1>2, FS_CardinalityType, BlacklistAssumption DEF CopiesInv, Bounded

(* Fewer rows and fewer requests that insert keep the bound.               *)
LEMMA Fewer ==
    ASSUME CopiesInv, NEW p \in Pair, Rows(p)' \subseteq Rows(p), Inserters(p)' \subseteq Inserters(p)
    PROVE  Bounded(p)'
  <1> DEFINE R == Rows(p)'
             I == Inserters(p)'
  <1>1. /\ IsFiniteSet(R) /\ Cardinality(R) <= Cardinality(Rows(p))
        /\ IsFiniteSet(I) /\ Cardinality(I) <= Cardinality(Inserters(p))
    <2>1. R \in SUBSET Rows(p) /\ I \in SUBSET Inserters(p)
      OBVIOUS
    <2> HIDE DEF R, I
    <2> QED
      BY <2>1, Counts, FS_Subset
  <1>2. Cardinality(R) \in Nat /\ Cardinality(I) \in Nat
    BY <1>1, FS_CardinalityType
  <1> HIDE DEF R, I
  <1>3. Cardinality(R) + Cardinality(I) <= Cardinality(Admin)
    BY <1>1, <1>2, Counts
  <1> QED
    BY <1>1, <1>3 DEF Bounded, R, I

(* A request inserts a pair only when the table has no row of it.          *)
LEMMA AddBounded ==
    ASSUME TypeOK, WorkInv, CopiesInv, NEW a \in Admin, Add(a), NEW p \in Pair
    PROVE  Bounded(p)'
  <1>1. Rows(p)' = Rows(p)
    BY DEF Add, Rows
  <1>2. CASE Inserters(p)' \subseteq Inserters(p)
    BY <1>1, <1>2, Fewer
  <1>3. CASE ~(Inserters(p)' \subseteq Inserters(p))
    <2>1. p \in to_add[a] /\ ~Exists(a, p)
      BY <1>3 DEF Add, Inserters, TypeOK
    <2>2. Rows(p) = {}
      <3>1. Found(a, p) = {}
        BY <2>1 DEF Exists
      <3>2. \A id \in deletes[a] : row[id] # p
        BY <2>1, BlacklistAssumption DEF WorkInv, Within, TypeOK
      <3> QED
        BY <3>1, <3>2 DEF Found, Rows
    <2>3. IsFiniteSet(Rows(p)') /\ Cardinality(Rows(p)') = 0
      BY <1>1, <2>2, FS_EmptySet
    <2> DEFINE I == Inserters(p)'
    <2>4. I \in SUBSET Admin
      BY DEF Inserters
    <2> HIDE DEF I
    <2>5. IsFiniteSet(I) /\ Cardinality(I) <= Cardinality(Admin)
      BY <2>4, FS_Subset, BlacklistAssumption
    <2>6. Cardinality(I) \in Nat /\ Cardinality(Admin) \in Nat
      BY <2>5, FS_CardinalityType, BlacklistAssumption
    <2>7. 0 + Cardinality(I) <= Cardinality(Admin)
      BY <2>5, <2>6
    <2> QED
      BY <2>3, <2>7 DEF Bounded, I
  <1> QED
    BY <1>2, <1>3

(* A commit turns one request that inserts into one row.                   *)
LEMMA CommitBounded ==
    ASSUME TypeOK, CopiesInv, NEW a \in Admin, Commit(a), NEW p \in Pair
    PROVE  Bounded(p)'
  <1>1. Inserters(p)' = Inserters(p) \ {a}
    BY DEF Commit, End, Inserters, TypeOK
  <1>2. CASE p \notin inserts[a]
    <2>1. \A id \in RowId : row'[id] = p => row[id] = p
      <3> SUFFICES ASSUME NEW id \in RowId, row'[id] = p PROVE row[id] = p
        OBVIOUS
      <3>1. p # NoPair
        BY BlacklistAssumption
      <3> QED
        BY <1>2, <3>1, CommitRows
    <2>2. Rows(p)' \subseteq Rows(p)
      BY <2>1 DEF Rows
    <2> QED
      BY <1>1, <2>2, Fewer
  <1>3. CASE p \in inserts[a]
    <2>1. PICK new \in RowId \ used :
              row'[new] = p /\ \A j \in RowId \ used : row'[j] = p => j = new
      BY <1>3, CommitRows
    <2>2. \A id \in RowId : row'[id] = p => row[id] = p \/ id = new
      <3> SUFFICES ASSUME NEW id \in RowId, row'[id] = p, id # new PROVE row[id] = p
        OBVIOUS
      <3>1. p # NoPair /\ id \in used
        BY <2>1, BlacklistAssumption
      <3> QED
        BY <3>1, CommitRows
    <2> DEFINE R == Rows(p)'
               I == Inserters(p)'
    <2>3. R \in SUBSET (Rows(p) \cup {new})
      BY <2>2 DEF Rows
    <2>4. a \in Inserters(p) /\ I = Inserters(p) \ {a}
      BY <1>1, <1>3 DEF Inserters
    <2> HIDE DEF R, I
    <2>5. /\ IsFiniteSet(Rows(p) \cup {new})
          /\ Cardinality(Rows(p) \cup {new}) <= Cardinality(Rows(p)) + 1
      <3>1. IsFiniteSet(Rows(p)) /\ Cardinality(Rows(p)) \in Nat
        BY Counts
      <3>2. /\ IsFiniteSet(Rows(p) \cup {new})
            /\ Cardinality(Rows(p) \cup {new}) =
                   IF new \in Rows(p) THEN Cardinality(Rows(p)) ELSE Cardinality(Rows(p)) + 1
        BY <3>1, FS_AddElement
      <3> QED
        BY <3>1, <3>2
    <2>6. IsFiniteSet(R) /\ Cardinality(R) <= Cardinality(Rows(p) \cup {new})
      BY <2>3, <2>5, FS_Subset
    <2>7. Cardinality(R) \in Nat /\ Cardinality(Rows(p) \cup {new}) \in Nat
      BY <2>5, <2>6, FS_CardinalityType
    <2>8. Cardinality(I) = Cardinality(Inserters(p)) - 1
      BY <2>4, Counts, FS_RemoveElement
    <2>9. Cardinality(R) + Cardinality(I) <= Cardinality(Admin)
      BY <2>5, <2>6, <2>7, <2>8, Counts
    <2> QED
      BY <2>6, <2>9 DEF Bounded, R, I
  <1> QED
    BY <1>2, <1>3

LEMMA CopiesStep == TypeOK /\ WorkInv /\ CopiesInv /\ [Next]_vars => CopiesInv'
  <1> SUFFICES ASSUME TypeOK, WorkInv, CopiesInv, [Next]_vars, NEW p \in Pair PROVE Bounded(p)'
    BY DEF CopiesInv
  <1>1. CASE UNCHANGED vars
    <2>1. Rows(p)' = Rows(p) /\ Inserters(p)' = Inserters(p)
      BY <1>1 DEF Rows, Inserters, vars, work
    <2> QED
      BY <2>1, Fewer
  <1>2. ASSUME NEW a \in Admin, Step(a), ~Add(a), ~Commit(a) PROVE Bounded(p)'
    <2>1. UNCHANGED row
      BY <1>2 DEF Step, Edit, RemoveForm, LookUp, DeleteEntry, RemoveEntry, Abort
    <2>2. \A b \in Admin : inserts'[b] \subseteq inserts[b]
      BY <1>2 DEF TypeOK, Step, Edit, RemoveForm, LookUp, DeleteEntry, RemoveEntry, Abort, End
    <2>3. Rows(p)' \subseteq Rows(p) /\ Inserters(p)' \subseteq Inserters(p)
      BY <2>1, <2>2 DEF Rows, Inserters
    <2> QED
      BY <2>3, Fewer
  <1>3. ASSUME NEW a \in Admin, Add(a) PROVE Bounded(p)'
    BY <1>3, AddBounded
  <1>4. ASSUME NEW a \in Admin, Commit(a) PROVE Bounded(p)'
    BY <1>4, CommitBounded
  <1> QED
    BY <1>1, <1>2, <1>3, <1>4 DEF Next

(* Requests that race insert a pair no more often than there are requests  *)
(* at a time.                                                              *)
THEOREM FewAreInserted == Spec => []FewCopies
  <1>1. Init => CopiesInv
    <2> SUFFICES ASSUME Init, NEW p \in Pair PROVE Bounded(p)
      BY DEF CopiesInv
    <2>1. Rows(p) = {} /\ Inserters(p) = {}
      BY BlacklistAssumption DEF Init, Rows, Inserters
    <2>2. Cardinality(Admin) \in Nat
      BY BlacklistAssumption, FS_CardinalityType
    <2> QED
      BY <2>1, <2>2, FS_EmptySet DEF Bounded
  <1>2. CopiesInv => FewCopies
    <2> SUFFICES ASSUME CopiesInv, NEW p \in Pair PROVE Cardinality(Rows(p)) <= Cardinality(Admin)
      BY DEF FewCopies
    <2> QED
      BY Counts
  <1> QED
    BY <1>1, <1>2, CopiesStep, WorkInductive, PTL DEF Spec
=============================================================================
