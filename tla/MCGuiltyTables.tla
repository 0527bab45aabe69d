--------------------------- MODULE MCGuiltyTables ---------------------------
(* Builds for GuiltyTables: of different numbers ("100", "110", "90"), and *)
(* two of the same number ("0100", "100", "120").                           *)
EXTENDS GuiltyTables

CONSTANTS b1, b2, b3

MCBuild  == {b1, b2, b3}
Plain    == [b \in MCBuild |-> IF b = b1 THEN 100 ELSE IF b = b2 THEN 110 ELSE 90]
PlainFirst  == [b \in MCBuild |-> IF b = b3 THEN 9 ELSE 1]
PaddedFirst == [b \in MCBuild |-> IF b = b1 THEN 0 ELSE 1]
Padded   == [b \in MCBuild |-> IF b = b1 THEN 100 ELSE IF b = b2 THEN 100 ELSE 120]
=============================================================================
