-------------------------- MODULE MCCrashPipeline --------------------------
(* Small instances of CrashPipeline for TLC.                               *)
EXTENDS CrashPipeline, TLC

f == [func |-> "f", mod |-> "m"]
g == [func |-> "g", mod |-> "m"]
l == [func |-> "l", mod |-> "m"]

Long == {l}

(* A crash of Clear Linux OS, one of another system, one without frames,   *)
(* one with a function too long for the index and a record of another      *)
(* class.                                                                  *)
ClearCrash   == [crash |-> TRUE, clear |-> TRUE, lines |-> <<Text, f, g>>]
OtherCrash   == [crash |-> TRUE, clear |-> FALSE, lines |-> <<Text, f, g>>]
NoFrameCrash == [crash |-> TRUE, clear |-> TRUE, lines |-> <<Text>>]
LongCrash    == [crash |-> TRUE, clear |-> TRUE, lines |-> <<Text, l>>]
NoCrash      == [crash |-> FALSE, clear |-> TRUE, lines |-> <<Text>>]

AllReports    == {ClearCrash, OtherCrash, NoFrameCrash, NoCrash}
PlainReports  == {ClearCrash, NoFrameCrash, NoCrash}
LongReports   == PlainReports \cup {LongCrash}
ClearReports  == {ClearCrash}
CrashReports  == {ClearCrash, OtherCrash}

(* Workers are interchangeable.                                            *)
Workers == Permutations(Worker)

(* So are requests.                                                        *)
Admins == Permutations(Admin)
=============================================================================
