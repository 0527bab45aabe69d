----------------------------- MODULE FindGuilty -----------------------------
(***************************************************************************)
(* The loop of find_guilty (utils/shared_utils/crash.py:103-185), one      *)
(* action per branch, over every backtrace of Backtrace and every          *)
(* blacklist.  The variables are the function's locals; pos is the index   *)
(* of the line the for statement fetches next.                             *)
(***************************************************************************)
EXTENDS CrashFrames

CONSTANT Backtrace  \* the payloads considered, as sequences of lines

ASSUME BacktraceAssumption == Backtrace \subseteq Seq(Line)

VARIABLES
    lines, guilty_blacklist,                  \* the inputs
    pos, in_backtrace, found_unknown, first_unknown, prev_frame,
    found_match, guilty,                      \* the pair that is returned
    pc                                        \* "scan", "backup" or "done"

inputs == <<lines, guilty_blacklist>>
result == <<found_match, guilty>>
vars   == <<lines, guilty_blacklist, pos, in_backtrace, found_unknown,
            first_unknown, prev_frame, found_match, guilty, pc>>

Init ==
    /\ lines \in Backtrace
    /\ guilty_blacklist \in SUBSET Frame
    /\ pos = 2                                \* lines[1:]
    /\ in_backtrace = FALSE
    /\ found_unknown = FALSE
    /\ first_unknown = NoGuilty
    /\ prev_frame = NoGuilty
    /\ found_match = FALSE
    /\ guilty = NoGuilty
    /\ pc = "scan"

(* The loop fetches a line that is a frame.                                *)
AtFrame ==
    /\ pc = "scan"
    /\ pos <= Len(lines)
    /\ IsFrame(lines[pos])
    /\ in_backtrace' = TRUE

Blacklisted(frame) == frame \in guilty_blacklist

(* A slip: without "and not found_unknown" a later unknown frame replaces   *)
(* the first.                                                              *)
AnyUnknown(frame) == frame.func = NoSymbol \/ frame.func \in Unreliable

FirstUnknown(frame) ==
    /\ frame.func = NoSymbol \/ frame.func \in Unreliable
    /\ ~found_unknown

(* Slips: the loop steps over a line, or stays on the one it has.          *)
ContinueTooFar ==
    /\ prev_frame' = lines[pos]
    /\ pos' = pos + 2
    /\ UNCHANGED <<inputs, result, pc>>
ContinueInPlace ==
    /\ prev_frame' = lines[pos]
    /\ UNCHANGED <<pos, inputs, result, pc>>

(* continue: keep the frame as the last resort and go on.                  *)
Continue ==
    /\ prev_frame' = lines[pos]
    /\ pos' = pos + 1
    /\ UNCHANGED <<inputs, result, pc>>

SkipBlacklisted ==
    /\ AtFrame
    /\ Blacklisted(lines[pos])
    /\ Continue
    /\ UNCHANGED <<found_unknown, first_unknown>>

RememberUnknown ==
    /\ AtFrame
    /\ ~Blacklisted(lines[pos])
    /\ FirstUnknown(lines[pos])
    /\ found_unknown' = TRUE
    /\ first_unknown' = lines[pos]
    /\ Continue

SkipUnknown ==
    /\ AtFrame
    /\ ~Blacklisted(lines[pos])
    /\ ~FirstUnknown(lines[pos])
    /\ lines[pos].func = NoSymbol
    /\ Continue
    /\ UNCHANGED <<found_unknown, first_unknown>>

Return(frame) ==
    /\ guilty' = frame
    /\ found_match' = TRUE
    /\ pc' = "done"

ReturnFrame ==
    /\ AtFrame
    /\ ~Blacklisted(lines[pos])
    /\ ~FirstUnknown(lines[pos])
    /\ lines[pos].func # NoSymbol
    /\ Return(lines[pos])
    /\ UNCHANGED <<inputs, pos, found_unknown, first_unknown, prev_frame>>

(* A line that is no frame, before the backtrace has begun.                *)
SkipHeader ==
    /\ pc = "scan"
    /\ pos <= Len(lines)
    /\ ~IsFrame(lines[pos])
    /\ ~in_backtrace
    /\ pos' = pos + 1
    /\ UNCHANGED <<inputs, in_backtrace, found_unknown, first_unknown,
                   prev_frame, result, pc>>

(* break at the end of the crashing thread, or the lines run out.          *)
LeaveLoop ==
    /\ pc = "scan"
    /\ \/ pos > Len(lines)
       \/ pos <= Len(lines) /\ ~IsFrame(lines[pos]) /\ in_backtrace
    /\ pc' = "backup"
    /\ UNCHANGED <<inputs, pos, in_backtrace, found_unknown, first_unknown,
                   prev_frame, result>>

(* A slip: the backup plan with its preferences swapped.                   *)
BackupLastFrame ==
    /\ pc = "backup"
    /\ \/ prev_frame # NoGuilty /\ Return(prev_frame)
       \/ /\ prev_frame = NoGuilty
          /\ pc' = "done"
          /\ UNCHANGED result
    /\ UNCHANGED <<inputs, pos, in_backtrace, found_unknown, first_unknown,
                   prev_frame>>

(* The backup plan: first_unknown, else prev_frame, else no match.         *)
Backup ==
    /\ pc = "backup"
    /\ \/ found_unknown /\ Return(first_unknown)
       \/ ~found_unknown /\ prev_frame # NoGuilty /\ Return(prev_frame)
       \/ /\ ~found_unknown /\ prev_frame = NoGuilty
          /\ pc' = "done"
          /\ UNCHANGED result
    /\ UNCHANGED <<inputs, pos, in_backtrace, found_unknown, first_unknown,
                   prev_frame>>

Next ==
    \/ SkipBlacklisted \/ RememberUnknown \/ SkipUnknown \/ ReturnFrame
    \/ SkipHeader \/ LeaveLoop \/ Backup

Spec == Init /\ [][Next]_vars

(* The function runs to its return; nothing else shares its locals.        *)
FairSpec == Spec /\ WF_vars(Next)

-----------------------------------------------------------------------------
(* Type invariant of the locals.                                           *)
TypeOK ==
    /\ lines \in Seq(Line)
    /\ guilty_blacklist \subseteq Frame
    /\ pos \in Nat /\ (pos = 2 \/ pos \in 2..(Len(lines) + 1))
    /\ in_backtrace \in BOOLEAN
    /\ found_unknown \in BOOLEAN
    /\ first_unknown \in Frame \cup {NoGuilty}
    /\ prev_frame \in Frame \cup {NoGuilty}
    /\ found_match \in BOOLEAN
    /\ guilty \in Frame \cup {NoGuilty}
    /\ pc \in {"scan", "backup", "done"}

(* What the loop returns is the guilty frame of the backtrace as           *)
(* CrashFrames defines it, and found_match tells whether there is one: the *)
(* early exits, the two kinds of unknown frame and the backup plan agree.  *)
ReturnsGuilty ==
    pc = "done" =>
        /\ IsGuilty(lines, guilty_blacklist, guilty)
        /\ found_match = (guilty # NoGuilty)

(* "Only consider blacklisted function/module pairs as a last resort"      *)
(* (crash.py:133): a blacklisted frame is returned only when every frame   *)
(* of the crashing thread is blacklisted.                                  *)
BlacklistedLastResort ==
    (pc = "done" /\ guilty \in guilty_blacklist) =>
        \A i \in Crashing(lines) : lines[i] \in guilty_blacklist

(* find_guilty and parse_backtrace cut the payload in two different ways,  *)
(* and still the form of guilty_edit offers the guilty it is opened for,   *)
(* so that it can be blacklisted: unless the form leaves such frames out,  *)
(* or the first thread has no frame and the guilty is one of the second.   *)
GuiltyIsOffered ==
    (pc = "done" /\ guilty # NoGuilty) =>
        \/ guilty \in Offered(lines) \cup Exempt
        \/ \A i \in Crashing(lines) : SecondThread(lines, i)

(* find_guilty returns, whatever the backtrace.                            *)
Terminates == <>(pc = "done")

(* "Consider the first frame without function symbols only if there are no *)
(* function symbols for any frames lower in the stack" (crash.py:141-142)  *)
(* and "it is not in the blacklist, and it has function symbols"           *)
(* (crash.py:154-156).  A second '? ' frame breaks it.                     *)
SymbolsPreferred ==
    (pc = "done" /\ guilty # NoGuilty /\ ~HasSymbols(guilty)) =>
        \A i \in Crashing(lines) :
            HasSymbols(lines[i]) => lines[i] \in guilty_blacklist

(* "This is always the bottommost frame in a backtrace from the crash      *)
(* probe. It can never be guilty" (views.py:214-215): find_guilty knows    *)
(* nothing of it.                                                          *)
ExemptNeverGuilty == guilty \notin Exempt

(* "we only consider the crashing thread for guilty detection"             *)
(* (crash.py:166-167): the guilty is not a frame of the second thread.     *)
CrashingThreadOnly ==
    pc = "done" => \A i \in Crashing(lines) : guilty = lines[i] => ~SecondThread(lines, i)
=============================================================================
