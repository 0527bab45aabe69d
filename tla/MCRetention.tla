---------------------------- MODULE MCRetention ----------------------------
(* Four kinds of records for Retention, as in tests/purging.py: matched by *)
(* an entry of one day, by an entry that keeps, by both, and by none.      *)
EXTENDS Retention

CONSTANTS keep, discard, both, other, f0, f1

MCDeployments == [decorators : BOOLEAN, spooler : BOOLEAN]
Deployed      == {[decorators |-> TRUE, spooler |-> FALSE]}

MCKind    == {keep, discard, both, other}
MCFilter  == {f0, f1}
MCMatches == [f \in MCFilter |-> IF f = f0 THEN {keep, both} ELSE {discard, both}]
MCDays    == [f \in MCFilter |-> IF f = f0 THEN 0 ELSE 1]
=============================================================================
