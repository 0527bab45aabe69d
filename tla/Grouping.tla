------------------------------ MODULE Grouping ------------------------------
(***************************************************************************)
(* What the crash pipeline promises a reader of the Crashes view: every    *)
(* record's group is the guilty frame of its backtrace under one blacklist *)
(* of the past, and regrouping never goes back to an older blacklist.      *)
(***************************************************************************)
EXTENDS CrashFrames

CONSTANTS Id, Report, NoReport

VARIABLES
    known,       \* known[id]: the stored report, NoReport if there is none
    group,       \* group[id]: the guilty frame, NoGuilty before the first
    since,       \* since[id]: position in blacklists of the one used
    blacklists   \* every blacklist so far, in order

vars == <<known, group, since, blacklists>>

Init ==
    /\ known = [id \in Id |-> NoReport]
    /\ group = [id \in Id |-> NoGuilty]
    /\ since = [id \in Id |-> 0]
    /\ blacklists = <<{}>>

Store(id) ==
    /\ known[id] = NoReport
    /\ \E r \in Report : known' = [known EXCEPT ![id] = r]
    /\ UNCHANGED <<group, since, blacklists>>

Drop(ids) ==
    /\ known' = [id \in Id |-> IF id \in ids THEN NoReport ELSE known[id]]
    /\ UNCHANGED <<group, since, blacklists>>

Regroup(id) ==
    /\ known[id] # NoReport
    /\ known[id].crash
    /\ \E v \in 1..Len(blacklists) : \E guilty \in Frame :
           /\ v >= since[id]
           /\ IsGuilty(known[id].lines, blacklists[v], guilty)
           /\ group' = [group EXCEPT ![id] = guilty]
           /\ since' = [since EXCEPT ![id] = v]
    /\ UNCHANGED <<known, blacklists>>

EditBlacklist(pairs) ==
    /\ blacklists' = Append(blacklists, pairs)
    /\ UNCHANGED <<known, group, since>>

Next ==
    \/ \E id \in Id : Store(id) \/ Regroup(id)
    \/ \E ids \in SUBSET Id : Drop(ids)
    \/ \E pairs \in SUBSET Frame : EditBlacklist(pairs)

Spec == Init /\ [][Next]_vars
=============================================================================
