--------------------------- MODULE MCRecordPages ---------------------------
(* Small instances of RecordPages for TLC.                                 *)
EXTENDS RecordPages, TLC

Asks(param, ids) == [param |-> param, ids |-> ids, wildcard |-> FALSE]

(* No filter, one condition the CSV knows and two it partly does.          *)
Filters == {{}, {Asks("machine_id", {2, 3})},
            {Asks("data_source", {1, 2}), Asks("severity", {1, 3})}}

(* org.clearlinux/* of the classification list.                            *)
Wildcards == {{}, {[param |-> "classification", ids |-> {1, 2}, wildcard |-> TRUE]}}

(* Load-more requests are interchangeable.                                 *)
Clicks == Permutations(Click)
=============================================================================
