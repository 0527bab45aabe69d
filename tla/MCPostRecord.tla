---------------------------- MODULE MCPostRecord ----------------------------
(* Requests of every form of the version, with at most Defects headers     *)
(* that are not good.                                                      *)
EXTENDS PostRecord

CONSTANT Defects

Others == Header \ {"Record-Format-Version"}

(* The values of PostRecord that not every header can have.                *)
Possible(p) ==
    /\ \A h \in Others : p[h] = "odd" => h \in {"Creation-Timestamp", "Payload-Format-Version"}
    /\ \A h \in Others : p[h] = "huge" => h = "Creation-Timestamp"
    /\ p["System-Name"] # "bad"

Spoiled ==
    UNION {{[h \in Header |-> IF h \in H THEN bad[h] ELSE "good"] :
                bad \in [H -> {"bad", "missing", "odd", "huge"}]} :
           H \in {S \in SUBSET Others : Cardinality(S) <= Defects}}

MCRequests ==
    {[q EXCEPT !["Record-Format-Version"] = v] :
        q \in {p \in Spoiled : Possible(p)},
        v \in Plain \cup Padded \cup {"bad", "missing"}}
=============================================================================
