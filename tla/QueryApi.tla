------------------------------ MODULE QueryApi ------------------------------
(***************************************************************************)
(* GET /api/records of the collector (collector/report_handler.py:182-247, *)
(* lib/validation.py:123-213): the parameters are checked one after the    *)
(* other, then the records are asked for.  The handler writes nothing.     *)
(***************************************************************************)
EXTENDS Integers, Sequences

(* The order of the checks.                                                *)
Order == <<"severity", "classification", "build", "machine_id", "created_in_days",
           "created_in_sec", "from_id", "ts_capture", "limit">>

Param == {Order[i] : i \in DOMAIN Order}

(* What the README allows for a parameter, what it does not, and digits    *)
(* isdigit() takes and int() does not.  Of the limits it allows, those of  *)
(* Low are no larger than '1000' as strings.                               *)
Number == {"created_in_days", "created_in_sec"}
Low    == {"0", "1", "10", "100", "1000"}
High   == {"5", "50", "999"}

Value(param) ==
    {"absent", "bad"} \cup CASE param = "limit"   -> Low \cup High
                             [] param \in Number  -> {"good", "odd"}
                             [] OTHER             -> {"good"}

VARIABLES query, next, status

vars == <<query, next, status>>

Init ==
    /\ \E param \in Param : \E value \in Value(param) :      \* bound: one parameter
           query = [p \in Param |-> IF p = param THEN value ELSE "absent"]
    /\ next = 1
    /\ status = 0

(* validate_query: the limit is compared as a string.                      *)
Valid(param, value) == value \in {"good", "odd"} \cup Low

(* validate_query_value                                                    *)
Check ==
    /\ status = 0
    /\ next <= Len(Order)
    /\ LET param == Order[next]
       IN  status' = IF query[param] = "absent" \/ Valid(param, query[param]) THEN 0 ELSE 400
    /\ next' = next + 1
    /\ UNCHANGED query

(* int() of the interval; then query_records, which has no argument        *)
(* ts_capture: a TypeError for every query that gets this far.             *)
Query ==
    /\ status = 0
    /\ next > Len(Order)
    /\ status' = 500
    /\ UNCHANGED <<query, next>>

Next == Check \/ Query

Spec == Init /\ [][Next]_vars

TypeOK == next \in 1..(Len(Order) + 1) /\ status \in {0, 200, 400, 500}

(* "GET /api/records - Returns a maximum of 10000 most recent records"     *)
(* (README.md:173): a query with parameters as they are described is not   *)
(* refused.                                                                *)
NotRefused == (\A p \in Param : query[p] # "bad") => status # 400

(* ... and it is answered with records.                                    *)
Answered == (\A p \in Param : query[p] \notin {"bad", "odd"}) => status \in {0, 200}
=============================================================================
