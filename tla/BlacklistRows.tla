--------------------------- MODULE BlacklistRows ---------------------------
(***************************************************************************)
(* The rows of guilty_blacklisted under the pages that edit them           *)
(* (telemetryui/views.py:199-251 and 301-321, GuiltyBlacklist in           *)
(* utils/shared_utils/model.py), statement by statement.  The table has no *)
(* unique constraint, so a pair can have several rows; GuiltyAdmin.tla     *)
(* sees the set of pairs only and edits it in one step.                    *)
(*                                                                         *)
(* A request is one transaction at READ COMMITTED: every SELECT sees the   *)
(* rows committed by then and, by autoflush, the request's own changes.    *)
(* guilty_add is not modelled: it calls crash.get_all_funcmods, which does *)
(* not exist, before it does anything.                                     *)
(***************************************************************************)
EXTENDS Integers, FiniteSets

CONSTANTS
    Pair,     \* (function, module) pairs
    Colon,    \* the pairs whose function contains a ':'
    NoPair,   \* no row, no pair
    Admin,    \* requests that can be served at the same time
    RowId     \* bound: ids of the rows inserted

ASSUME BlacklistAssumption ==
    /\ Colon \subseteq Pair
    /\ NoPair \notin Pair
    /\ RowId \subseteq Nat
    /\ IsFiniteSet(Admin)

VARIABLES
    row,        \* row[id]: the pair of a committed row, or NoPair
    used,       \* ids the sequence has handed out
    request,    \* request[a]: "idle", "edit", "remove" or "commit"
    to_add,     \* to_add[a], to_remove[a]: pairs still to be looked up
    to_remove,
    entry,      \* entry[a]: the pair that exists() has found, to be deleted
    inserts,    \* inserts[a]: pairs the transaction has inserted
    deletes,    \* deletes[a]: ids of the rows it has deleted
    asked,      \* asked[a]: what the request was to do (history)
    overlapped  \* overlapped[a]: another request committed during a's (history)

work   == <<to_add, to_remove, entry, inserts, deletes>>
ghosts == <<asked, overlapped>>
vars   == <<row, used, request, work, ghosts>>

Rows(p)   == {id \in RowId : row[id] = p}
Listed    == {p \in Pair : Rows(p) # {}}
Single(p) == \A i, j \in Rows(p) : i = j
NoRequest == [add |-> {}, remove |-> {}]

TypeOK ==
    /\ row \in [RowId -> Pair \cup {NoPair}]
    /\ used \subseteq RowId
    /\ request \in [Admin -> {"idle", "edit", "remove", "commit"}]
    /\ to_add \in [Admin -> SUBSET Pair]
    /\ to_remove \in [Admin -> SUBSET Pair]
    /\ entry \in [Admin -> Pair \cup {NoPair}]
    /\ inserts \in [Admin -> SUBSET Pair]
    /\ deletes \in [Admin -> SUBSET used]
    /\ asked \in [Admin -> [add : SUBSET Pair, remove : SUBSET Pair]]
    /\ overlapped \in [Admin -> BOOLEAN]
    /\ \A id \in RowId : row[id] # NoPair => id \in used

Init ==
    /\ row = [id \in RowId |-> NoPair]
    /\ used = {}
    /\ request = [a \in Admin |-> "idle"]
    /\ to_add = [a \in Admin |-> {}]
    /\ to_remove = [a \in Admin |-> {}]
    /\ entry = [a \in Admin |-> NoPair]
    /\ inserts = [a \in Admin |-> {}]
    /\ deletes = [a \in Admin |-> {}]
    /\ asked = [a \in Admin |-> NoRequest]
    /\ overlapped = [a \in Admin |-> FALSE]

-----------------------------------------------------------------------------
Proceed(a, step) == request' = [request EXCEPT ![a] = step]

Begin(a, what) ==
    /\ request[a] = "idle"
    /\ asked' = [asked EXCEPT ![a] = what]
    /\ overlapped' = [overlapped EXCEPT ![a] = FALSE]

(* guilty_edit: the ticked frames of the record and the others.            *)
Edit(a) ==
    /\ \E add \in SUBSET Pair : \E remove \in SUBSET (Pair \ add) :
           /\ add \cup remove # {}
           /\ Begin(a, [add |-> add, remove |-> remove])
           /\ to_add' = [to_add EXCEPT ![a] = add]
           /\ to_remove' = [to_remove EXCEPT ![a] = remove]
    /\ Proceed(a, "edit")
    /\ UNCHANGED <<row, used, entry, inserts, deletes>>

(* guilty_remove: the form offers the pairs of the table.                  *)
RemoveForm(a) ==
    /\ \E p \in Listed :
           /\ Begin(a, [add |-> {}, remove |-> {p}])
           /\ to_remove' = [to_remove EXCEPT ![a] = {p}]
    /\ Proceed(a, "remove")
    /\ UNCHANGED <<row, used, to_add, entry, inserts, deletes>>

(* A slip: a row by its id, whatever it holds.                             *)
AnyRow(a, p) == RowId

(* What a's SELECT for pair p returns: committed rows it has not deleted.  *)
Found(a, p) == Rows(p) \ deletes[a]

(* A slip: "if not exists" is left out.                                    *)
NeverExists(a, p) == FALSE

(* GuiltyBlacklist.exists                                                  *)
Exists(a, p) == Found(a, p) # {} \/ p \in inserts[a]

Add(a) ==
    /\ request[a] = "edit"
    /\ \E p \in to_add[a] :
           /\ inserts' = [inserts EXCEPT ![a] = IF Exists(a, p) THEN @ ELSE @ \cup {p}]
           /\ to_add' = [to_add EXCEPT ![a] = @ \ {p}]
    /\ UNCHANGED <<row, used, request, to_remove, entry, deletes, ghosts>>

(* The removals come after the additions; a pair in the table is looked up *)
(* once more to be deleted.                                                *)
LookUp(a) ==
    /\ request[a] = "edit"
    /\ to_add[a] = {}
    /\ entry[a] = NoPair
    /\ \E p \in to_remove[a] :
           /\ entry' = [entry EXCEPT ![a] = IF Exists(a, p) THEN p ELSE NoPair]
           /\ to_remove' = [to_remove EXCEPT ![a] = @ \ {p}]
    /\ UNCHANGED <<row, used, request, to_add, inserts, deletes, ghosts>>

(* A slip: delete() by pair and module alone, which other pairs share.     *)
DeleteAny(a, p) ==
    \E id \in used \ deletes[a] : deletes' = [deletes EXCEPT ![a] = @ \cup {id}]

(* q.first(), db.session.delete: one of the rows, there may be others.     *)
Delete(a, p) == \E id \in Found(a, p) : deletes' = [deletes EXCEPT ![a] = @ \cup {id}]

DeleteEntry(a) ==
    /\ entry[a] # NoPair
    /\ Delete(a, entry[a])
    /\ entry' = [entry EXCEPT ![a] = NoPair]
    /\ UNCHANGED <<row, used, request, to_add, to_remove, inserts, ghosts>>

(* "function:module" is split at every ':' and the first two parts are     *)
(* taken: with a ':' in the function they are a pair the table does not    *)
(* have.                                                                   *)
RemoveEntry(a) ==
    /\ request[a] = "remove"
    /\ \E p \in to_remove[a] \ Colon :
           /\ Delete(a, p)
           /\ to_remove' = [to_remove EXCEPT ![a] = {}]
    /\ Proceed(a, "commit")
    /\ UNCHANGED <<row, used, to_add, entry, inserts, ghosts>>

End(a) ==
    /\ Proceed(a, "idle")
    /\ to_add' = [to_add EXCEPT ![a] = {}]
    /\ to_remove' = [to_remove EXCEPT ![a] = {}]
    /\ entry' = [entry EXCEPT ![a] = NoPair]
    /\ inserts' = [inserts EXCEPT ![a] = {}]
    /\ deletes' = [deletes EXCEPT ![a] = {}]

(* The rows take the next ids; a row that is gone already is no error for  *)
(* its DELETE.                                                             *)
Commit(a) ==
    /\ \/ request[a] = "commit"
       \/ /\ request[a] = "edit"
          /\ to_add[a] = {} /\ to_remove[a] = {} /\ entry[a] = NoPair
    /\ \E ids \in [inserts[a] -> RowId \ used] :
           /\ \A p, q \in inserts[a] : p # q => ids[p] # ids[q]
           /\ row' = [id \in RowId |->
                         IF id \in deletes[a] THEN NoPair
                         ELSE IF \E p \in inserts[a] : ids[p] = id
                              THEN CHOOSE p \in inserts[a] : ids[p] = id
                              ELSE row[id]]
           /\ used' = used \cup {ids[p] : p \in inserts[a]}
    /\ overlapped' = [b \in Admin |-> overlapped[b] \/ (b # a /\ request[b] # "idle")]
    /\ End(a)
    /\ UNCHANGED asked

(* first() is None: delete(None) raises.  Also any other failure of the    *)
(* request: rollback.                                                      *)
Abort(a) ==
    /\ request[a] # "idle"
    /\ End(a)
    /\ UNCHANGED <<row, used, ghosts>>

Step(a) ==
    \/ Edit(a) \/ RemoveForm(a)
    \/ Add(a) \/ LookUp(a) \/ DeleteEntry(a) \/ RemoveEntry(a)
    \/ Commit(a) \/ Abort(a)

Next == \E a \in Admin : Step(a)

Spec == Init /\ [][Next]_vars

-----------------------------------------------------------------------------
(* Requests that race insert a pair more than once, but never more often   *)
(* than there are requests: the next one finds the pair and leaves it.     *)
FewCopies == \A p \in Pair : Cardinality(Rows(p)) <= Cardinality(Admin)

(* A request that is not overlapped by another leaves the table as it was  *)
(* asked to, provided the table had no pair twice: what GuiltyAdmin does   *)
(* in one step.                                                            *)
AloneTakesEffect ==
    [][\A a \in Admin :
           (Commit(a) /\ ~overlapped[a] /\ \A p \in Pair : Single(p))
               => Listed' = (Listed \ asked[a].remove) \cup asked[a].add]_vars

(* Whatever overlaps, a commit changes the listing of no pair it was not   *)
(* asked about.                                                            *)
OthersUntouched ==
    [][\A a \in Admin : Commit(a) =>
           \A p \in Pair \ (asked[a].add \cup asked[a].remove) :
               p \in Listed' <=> p \in Listed]_vars

(* "Remove guilty filters" (guilty_edit.html:22): a pair the form offers    *)
(* and that is still there can be removed.                                 *)
ListedIsRemovable ==
    \A a \in Admin :
        (request[a] = "remove" /\ to_remove[a] \subseteq Listed) => ENABLED RemoveEntry(a)

(* "Unselected frames are guilty candidates" (guilty_edit_one.html:36) and *)
(* 'Removed guilty filter' (views.py:313): a pair a request has removed is *)
(* not in the table once the request is committed.                         *)
RemovedIsGone ==
    [][\A a \in Admin : Commit(a) => Listed' \cap asked[a].remove = {}]_vars
=============================================================================
