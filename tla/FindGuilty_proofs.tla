------------------------- MODULE FindGuilty_proofs -------------------------
(***************************************************************************)
(* The loop of find_guilty computes IsGuilty, for every backtrace and      *)
(* every blacklist; there is exactly one such answer, and it comes after   *)
(* boundedly many steps.                                                   *)
(***************************************************************************)
EXTENDS FindGuilty, WellFoundedInduction, TLAPS

(* The frames of the crashing thread that the loop has passed.             *)
Seen == {i \in Crashing(lines) : i < pos}

(* The loop invariant.  Everything passed so far that is a frame belongs   *)
(* to the crashing thread and is neither chosen nor forgotten: the locals  *)
(* hold the first unknown frame and the last frame of it.                  *)
LoopInv ==
    /\ \A i \in 2..(pos - 1) : i <= Len(lines) /\ (IsFrame(lines[i]) => i \in Crashing(lines))
    /\ in_backtrace = (Seen # {})
    /\ in_backtrace => pos - 1 \in Seen
    /\ \A i \in Chosen(lines, guilty_blacklist) : i >= pos
    /\ found_unknown =
           (\E i \in Unknown(lines, guilty_blacklist) : i < pos)
    /\ found_unknown =>
           \E i \in Unknown(lines, guilty_blacklist) :
               First(Unknown(lines, guilty_blacklist), i) /\ first_unknown = lines[i]
    /\ prev_frame = IF in_backtrace THEN lines[pos - 1] ELSE NoGuilty
    /\ ~found_match /\ guilty = NoGuilty

IInv ==
    /\ TypeOK
    /\ pc = "scan" => LoopInv
    /\ pc = "backup" => LoopInv /\ \A i \in Crashing(lines) : i < pos
    /\ ReturnsGuilty
-----------------------------------------------------------------------------
(* A line of the crashing thread is a frame, after line 1.                 *)
LEMMA CrashingRange ==
    ASSUME NEW l \in Seq(Line), NEW i \in Crashing(l)
    PROVE  i \in 2..Len(l) /\ l[i] \in Frame /\ l[i] # NoGuilty
  BY FrameAssumption DEF Crashing, IsFrame

(* A frame right after the crashing thread so far, or the first frame of   *)
(* all, belongs to the crashing thread.                                    *)
LEMMA CrashingStep ==
    ASSUME NEW l \in Seq(Line), NEW p \in 2..Len(l), IsFrame(l[p]),
           p - 1 \in Crashing(l) \/ \A i \in 2..(p - 1) : ~IsFrame(l[i])
    PROVE  p \in Crashing(l)
  <1>1. SUFFICES ASSUME NEW j \in 2..p, NEW k \in j..p, IsFrame(l[j])
                 PROVE  IsFrame(l[k])
    BY DEF Crashing
  <1>2. CASE k = p
    BY <1>2
  <1>3. CASE k < p
    <2>1. p - 1 \in Crashing(l)
      BY <1>1, <1>3
    <2>2. j \in 2..(p - 1) /\ k \in j..(p - 1)
      BY <1>3
    <2> QED
      BY <1>1, <2>1, <2>2 DEF Crashing
  <1> QED
    BY <1>2, <1>3

(* A line that is no frame right after it ends the crashing thread.        *)
LEMMA CrashingEnd ==
    ASSUME NEW l \in Seq(Line), NEW p \in 2..Len(l), ~IsFrame(l[p]),
           p - 1 \in Crashing(l)
    PROVE  \A i \in Crashing(l) : i < p
  <1>1. SUFFICES ASSUME NEW i \in Crashing(l), i >= p PROVE FALSE
    BY DEF Crashing
  <1>2. p - 1 \in 2..i /\ p \in (p - 1)..i /\ i \in 2..Len(l)
    BY <1>1 DEF Crashing
  <1>3. IsFrame(l[p - 1])
    BY DEF Crashing, IsFrame
  <1> QED
    BY <1>1, <1>2, <1>3 DEF Crashing

-----------------------------------------------------------------------------
(* Every branch of the loop keeps the types.                               *)
LEMMA TypeStep == TypeOK /\ [Next]_vars => TypeOK'
  <1> SUFFICES ASSUME TypeOK, [Next]_vars PROVE TypeOK'
    OBVIOUS
  <1> USE DEF TypeOK, inputs, result
  <1>1. CASE SkipBlacklisted
    BY <1>1 DEF SkipBlacklisted, AtFrame, Continue, IsFrame
  <1>2. CASE RememberUnknown
    BY <1>2 DEF RememberUnknown, AtFrame, Continue, IsFrame
  <1>3. CASE SkipUnknown
    BY <1>3 DEF SkipUnknown, AtFrame, Continue, IsFrame
  <1>4. CASE ReturnFrame
    BY <1>4 DEF ReturnFrame, AtFrame, Return, IsFrame
  <1>5. CASE SkipHeader
    BY <1>5 DEF SkipHeader
  <1>6. CASE LeaveLoop
    BY <1>6 DEF LeaveLoop
  <1>7. CASE Backup
    BY <1>7 DEF Backup, Return
  <1>8. CASE UNCHANGED vars
    BY <1>8 DEF vars
  <1> QED
    BY <1>1, <1>2, <1>3, <1>4, <1>5, <1>6, <1>7, <1>8 DEF Next

(* Type correctness of the locals.                                         *)
THEOREM TypeCorrect == Spec => []TypeOK
  <1>1. Init => TypeOK
    <2> SUFFICES ASSUME Init PROVE TypeOK
      OBVIOUS
    <2>1. lines \in Seq(Line)
      BY BacktraceAssumption DEF Init
    <2>2. guilty_blacklist \subseteq Frame
      BY DEF Init
    <2> QED
      BY <2>1, <2>2 DEF Init, TypeOK
  <1>2. TypeOK /\ [Next]_vars => TypeOK'
    BY TypeStep
  <1> QED
    BY <1>1, <1>2, PTL DEF Spec

-----------------------------------------------------------------------------
(* A frame at pos belongs to the crashing thread.                          *)
LEMMA AtCrashing ==
    ASSUME TypeOK, LoopInv, pos <= Len(lines), IsFrame(lines[pos])
    PROVE  pos \in Crashing(lines)
  <1>1. pos \in 2..Len(lines) /\ lines \in Seq(Line)
    BY DEF TypeOK
  <1>2. CASE in_backtrace
    <2>1. pos - 1 \in Crashing(lines)
      BY <1>2 DEF LoopInv, Seen
    <2> QED
      BY <1>1, <2>1, CrashingStep
  <1>3. CASE ~in_backtrace
    <2>1. \A i \in 2..(pos - 1) : IsFrame(lines[i]) => i \in Crashing(lines)
      BY DEF LoopInv
    <2>2. Seen = {}
      BY <1>3 DEF LoopInv
    <2>3. pos \in Int
      BY DEF TypeOK
    <2>4. \A i \in 2..(pos - 1) : ~IsFrame(lines[i])
      BY <2>1, <2>2, <2>3 DEF Seen
    <2> QED
      BY <1>1, <2>4, CrashingStep
  <1> QED
    BY <1>2, <1>3 DEF TypeOK

(* The loop invariant after a frame that is kept for later, whatever kind  *)
(* of frame it is.                                                         *)
LEMMA AfterFrame ==
    ASSUME TypeOK, LoopInv, AtFrame, Continue,
           pos \notin Chosen(lines, guilty_blacklist),
           \/ /\ UNCHANGED <<found_unknown, first_unknown>>
              /\ pos \in Unknown(lines, guilty_blacklist) => found_unknown
           \/ /\ ~found_unknown /\ found_unknown' /\ first_unknown' = lines[pos]
              /\ pos \in Unknown(lines, guilty_blacklist)
    PROVE  LoopInv'
  <1> DEFINE C == Crashing(lines)
             Ch == Chosen(lines, guilty_blacklist)
             U == Unknown(lines, guilty_blacklist)
  <1>1. /\ lines' = lines /\ guilty_blacklist' = guilty_blacklist
        /\ pos' = pos + 1 /\ prev_frame' = lines[pos] /\ in_backtrace' = TRUE
        /\ found_match' = found_match /\ guilty' = guilty
        /\ pos \in Nat /\ pos >= 2 /\ pos <= Len(lines)
        /\ Len(lines) \in Nat
    BY DEF AtFrame, Continue, inputs, result, TypeOK
  <1>2. pos \in C
    BY AtCrashing DEF AtFrame
  <1>3. C \subseteq Int /\ Ch \subseteq C /\ U \subseteq C
    BY <1>1 DEF Crashing, Chosen, Unknown
  <1>4. Seen' = {i \in C : i < pos + 1}
    BY <1>1 DEF Seen
  <1>5. pos \in Seen'
    BY <1>1, <1>2, <1>4
  <1>6. \A i \in 2..(pos' - 1) : i <= Len(lines) /\ (IsFrame(lines[i]) => i \in C)
    BY <1>1, <1>2 DEF LoopInv
  <1>7. \A i \in Ch : i >= pos'
    BY <1>1, <1>3 DEF LoopInv
  <1>8. found_unknown' = (\E i \in U : i < pos')
    <2>1. CASE found_unknown' = found_unknown /\ (pos \in U => found_unknown)
      BY <1>1, <1>3, <2>1 DEF LoopInv
    <2>2. CASE found_unknown' /\ pos \in U
      BY <1>1, <2>2, <1>3 DEF LoopInv
    <2> QED
      BY <2>1, <2>2
  <1>9. found_unknown' => \E i \in U : First(U, i) /\ first_unknown' = lines[i]
    <2>1. CASE UNCHANGED <<found_unknown, first_unknown>>
      BY <2>1 DEF LoopInv
    <2>2. CASE ~found_unknown /\ first_unknown' = lines[pos] /\ pos \in U
      <3>1. \A i \in U : i >= pos
        BY <1>1, <1>3, <2>2 DEF LoopInv
      <3> QED
        BY <1>1, <2>2, <3>1 DEF First
    <2> QED
      BY <2>1, <2>2
  <1>10. prev_frame' = IF in_backtrace' THEN lines[pos' - 1] ELSE NoGuilty
    BY <1>1
  <1> QED
    <2> HIDE DEF C, Ch, U
    <2>1. C = Crashing(lines') /\ Ch = Chosen(lines', guilty_blacklist')
          /\ U = Unknown(lines', guilty_blacklist')
      BY <1>1 DEF C, Ch, U
    <2>2. ~found_match' /\ guilty' = NoGuilty
      BY <1>1 DEF LoopInv
    <2>3. in_backtrace' = (Seen' # {})
      BY <1>1, <1>5
    <2>4. in_backtrace' => pos' - 1 \in Seen'
      BY <1>1, <1>5
    <2> QED
      BY <1>1, <1>6, <1>7, <1>8, <1>9, <1>10, <2>1, <2>2, <2>3, <2>4 DEF LoopInv

(* What Backup finds when the loop ends without a choice.                  *)
LEMMA BackupAnswers ==
    ASSUME TypeOK, LoopInv, \A i \in Crashing(lines) : i < pos, Backup
    PROVE  IsGuilty(lines, guilty_blacklist, guilty') /\ found_match' = (guilty' # NoGuilty)
  <1> DEFINE C == Crashing(lines)
             Ch == Chosen(lines, guilty_blacklist)
             U == Unknown(lines, guilty_blacklist)
  <1>1. lines \in Seq(Line) /\ pos \in Int
    BY DEF TypeOK
  <1>2. C \subseteq Int /\ Ch \subseteq C /\ U \subseteq C
    BY <1>1 DEF Crashing, Chosen, Unknown
  <1>3. Ch = {}
    BY <1>1, <1>2 DEF LoopInv
  <1>4. Seen = C
    BY <1>1, <1>2 DEF Seen
  <1>5. \A i \in C : lines[i] # NoGuilty
    BY <1>1, CrashingRange
  <1>6. CASE found_unknown /\ Return(first_unknown)
    <2>1. PICK i \in U : First(U, i) /\ first_unknown = lines[i]
      BY <1>6 DEF LoopInv
    <2>2. guilty' = lines[i] /\ found_match' = TRUE
      BY <1>6, <2>1 DEF Return
    <2> QED
      BY <1>2, <1>3, <1>5, <2>1, <2>2 DEF IsGuilty
  <1>7. CASE ~found_unknown /\ prev_frame # NoGuilty /\ Return(prev_frame)
    <2>1. in_backtrace /\ prev_frame = lines[pos - 1]
      BY <1>7 DEF LoopInv
    <2>2. pos - 1 \in C
      BY <1>4, <2>1 DEF LoopInv
    <2>3. Last(C, pos - 1)
      BY <1>1, <1>2, <2>2 DEF Last
    <2>4. U = {}
      BY <1>2, <1>7 DEF LoopInv
    <2>5. guilty' = lines[pos - 1] /\ found_match' = TRUE
      BY <1>7, <2>1 DEF Return
    <2> QED
      BY <1>3, <1>5, <2>2, <2>3, <2>4, <2>5 DEF IsGuilty
  <1>8. CASE ~found_unknown /\ prev_frame = NoGuilty /\ UNCHANGED result
    <2>1. ~in_backtrace
      <3>1. in_backtrace => pos - 1 \in C
        BY <1>4 DEF LoopInv
      <3>2. in_backtrace => prev_frame = lines[pos - 1]
        BY DEF LoopInv
      <3> QED
        BY <1>5, <1>8, <3>1, <3>2
    <2>2. C = {}
      BY <1>4, <2>1 DEF LoopInv
    <2>3. guilty' = NoGuilty /\ found_match' = FALSE
      BY <1>8 DEF LoopInv, result, TypeOK
    <2> QED
      BY <2>2, <2>3 DEF IsGuilty
  <1> QED
    BY <1>6, <1>7, <1>8 DEF Backup

(* What an early return has found.                                         *)
LEMMA ReturnAnswers ==
    ASSUME TypeOK, LoopInv, ReturnFrame
    PROVE  IsGuilty(lines, guilty_blacklist, guilty') /\ found_match' = (guilty' # NoGuilty)
  <1> DEFINE Ch == Chosen(lines, guilty_blacklist)
             U == Unknown(lines, guilty_blacklist)
  <1>1. pos \in Crashing(lines)
    BY AtCrashing DEF ReturnFrame, AtFrame
  <1>2. HasSymbols(lines[pos]) \/ (lines[pos].func \in Unreliable /\ found_unknown)
    BY DEF ReturnFrame, FirstUnknown, HasSymbols
  <1>3. lines[pos] \notin guilty_blacklist
    BY DEF ReturnFrame, Blacklisted
  <1>4. pos \in Ch
    BY <1>1, <1>2, <1>3 DEF Chosen, LoopInv
  <1>5. First(Ch, pos)
    BY <1>4 DEF First, LoopInv, TypeOK, Chosen, Crashing
  <1>6. guilty' = lines[pos] /\ found_match' = TRUE
    BY DEF ReturnFrame, Return
  <1>7. lines[pos] # NoGuilty
    BY <1>1, CrashingRange DEF TypeOK
  <1> QED
    BY <1>4, <1>5, <1>6, <1>7 DEF IsGuilty

-----------------------------------------------------------------------------
(* Each branch keeps the loop invariant or answers.                        *)
LEMMA InductiveStep == IInv /\ [Next]_vars => IInv'
  <1> SUFFICES ASSUME IInv, [Next]_vars PROVE IInv'
    OBVIOUS
  <1>1. TypeOK /\ TypeOK'
    BY TypeStep DEF IInv
  <1>2. CASE SkipBlacklisted
    <2>1. LoopInv /\ pc' = "scan"
      BY <1>2 DEF IInv, SkipBlacklisted, AtFrame, Continue
    <2>2. /\ pos \notin Chosen(lines, guilty_blacklist)
          /\ pos \notin Unknown(lines, guilty_blacklist)
      BY <1>2 DEF SkipBlacklisted, Blacklisted, Chosen, Unknown
    <2>3. LoopInv'
      BY <1>1, <1>2, <2>1, <2>2, AfterFrame DEF SkipBlacklisted
    <2> QED
      BY <1>1, <2>1, <2>3 DEF IInv, ReturnsGuilty
  <1>3. CASE RememberUnknown
    <2>1. LoopInv /\ pc' = "scan" /\ ~found_unknown
      BY <1>3 DEF IInv, RememberUnknown, AtFrame, Continue, FirstUnknown
    <2>2. pos \in Unknown(lines, guilty_blacklist)
      BY <1>1, <1>3, <2>1, AtCrashing
         DEF RememberUnknown, AtFrame, Blacklisted, FirstUnknown, Unknown, HasSymbols
    <2>3. pos \notin Chosen(lines, guilty_blacklist)
      BY <2>1, <2>2 DEF Chosen, Unknown, LoopInv
    <2>4. LoopInv'
      BY <1>1, <1>3, <2>1, <2>2, <2>3, AfterFrame DEF RememberUnknown
    <2> QED
      BY <1>1, <2>1, <2>4 DEF IInv, ReturnsGuilty
  <1>4. CASE SkipUnknown
    <2>1. LoopInv /\ pc' = "scan" /\ found_unknown
      BY <1>1, <1>4 DEF IInv, SkipUnknown, AtFrame, Continue, FirstUnknown
    <2>2. pos \notin Chosen(lines, guilty_blacklist)
      BY <1>4, FrameAssumption DEF SkipUnknown, Chosen, HasSymbols
    <2>3. LoopInv'
      BY <1>1, <1>4, <2>1, <2>2, AfterFrame DEF SkipUnknown
    <2> QED
      BY <1>1, <2>1, <2>3 DEF IInv, ReturnsGuilty
  <1>5. CASE ReturnFrame
    <2>1. LoopInv /\ pc' = "done" /\ UNCHANGED inputs
      BY <1>5 DEF IInv, ReturnFrame, AtFrame, Return
    <2>2. ReturnsGuilty'
      BY <1>1, <1>5, <2>1, ReturnAnswers DEF ReturnsGuilty, inputs
    <2> QED
      BY <1>1, <2>1, <2>2 DEF IInv
  <1>6. CASE SkipHeader
    <2>1. LoopInv /\ pc' = "scan"
      BY <1>6 DEF IInv, SkipHeader
    <2>2. LoopInv'
      <3> USE <1>1, <1>6, <2>1 DEF SkipHeader, inputs, result, TypeOK
      <3>1. /\ lines' = lines /\ guilty_blacklist' = guilty_blacklist
            /\ pos' = pos + 1 /\ pos \in 2..Len(lines) /\ ~in_backtrace
            /\ Len(lines) \in Int
        OBVIOUS
      <3>2. Crashing(lines) \subseteq Int /\ pos \notin Crashing(lines)
        BY DEF Crashing
      <3>3. /\ Chosen(lines, guilty_blacklist) \subseteq Crashing(lines)
            /\ Unknown(lines, guilty_blacklist) \subseteq Crashing(lines)
        BY DEF Chosen, Unknown
      <3>4. Seen' = {} /\ Seen = {}
        <4>1. Seen = {}
          BY <3>1 DEF LoopInv
        <4>2. \A i \in Crashing(lines) : ~(i < pos + 1)
          BY <3>1, <3>2, <4>1 DEF Seen
        <4>3. Seen' = {i \in Crashing(lines) : i < pos + 1}
          BY <3>1 DEF Seen
        <4> QED
          BY <4>1, <4>2, <4>3
      <3>5. \A i \in Chosen(lines, guilty_blacklist) : i >= pos + 1
        BY <3>1, <3>2, <3>3 DEF LoopInv
      <3>6. \A i \in 2..pos : i <= Len(lines) /\ (IsFrame(lines[i]) => i \in Crashing(lines))
        BY <3>1 DEF LoopInv
      <3>7. found_unknown = (\E i \in Unknown(lines, guilty_blacklist) : i < pos + 1)
        BY <3>1, <3>2, <3>3 DEF LoopInv
      <3>8. prev_frame = NoGuilty
        BY <3>1 DEF LoopInv
      <3>9. UNCHANGED <<in_backtrace, found_unknown, first_unknown, prev_frame,
                        found_match, guilty>>
        OBVIOUS
      <3>10. \A i \in 2..(pos' - 1) : i <= Len(lines') /\ (IsFrame(lines'[i]) => i \in Crashing(lines'))
        BY <3>1, <3>6
      <3>11. \A i \in Chosen(lines', guilty_blacklist') : i >= pos'
        BY <3>1, <3>5
      <3>12. found_unknown' = (\E i \in Unknown(lines', guilty_blacklist') : i < pos')
        BY <3>1, <3>7, <3>9
      <3>13. found_unknown' => \E i \in Unknown(lines', guilty_blacklist') :
                 First(Unknown(lines', guilty_blacklist'), i) /\ first_unknown' = lines'[i]
        BY <3>1, <3>9 DEF LoopInv
      <3>14. ~in_backtrace' /\ prev_frame' = NoGuilty /\ ~found_match' /\ guilty' = NoGuilty
        BY <3>1, <3>8, <3>9 DEF LoopInv
      <3> QED
        BY <3>4, <3>10, <3>11, <3>12, <3>13, <3>14 DEF LoopInv
    <2> QED
      BY <1>1, <2>1, <2>2 DEF IInv, ReturnsGuilty
  <1>7. CASE LeaveLoop
    <2>1. LoopInv /\ pc' = "backup" /\ LoopInv'
      BY <1>7 DEF IInv, LeaveLoop, LoopInv, Seen, inputs, result
    <2>2. \A i \in Crashing(lines) : i < pos
      <3>1. CASE pos > Len(lines)
        BY <1>1, <3>1, CrashingRange DEF TypeOK
      <3>2. CASE pos <= Len(lines) /\ ~IsFrame(lines[pos]) /\ in_backtrace
        <4>1. pos - 1 \in Crashing(lines)
          BY <2>1, <3>2 DEF LoopInv, Seen
        <4>2. pos \in 2..Len(lines) /\ lines \in Seq(Line)
          BY <1>1, <3>2 DEF TypeOK
        <4> QED
          BY <3>2, <4>1, <4>2, CrashingEnd
      <3> QED
        BY <1>7, <3>1, <3>2 DEF LeaveLoop
    <2>3. lines' = lines /\ pos' = pos
      BY <1>7 DEF LeaveLoop, inputs
    <2> QED
      BY <1>1, <2>1, <2>2, <2>3 DEF IInv, ReturnsGuilty
  <1>8. CASE Backup
    <2>1. LoopInv /\ pc' = "done" /\ UNCHANGED inputs
          /\ \A i \in Crashing(lines) : i < pos
      BY <1>8 DEF IInv, Backup, Return
    <2>2. ReturnsGuilty'
      BY <1>1, <1>8, <2>1, BackupAnswers DEF ReturnsGuilty, inputs
    <2> QED
      BY <1>1, <2>1, <2>2 DEF IInv
  <1>9. CASE UNCHANGED vars
    BY <1>1, <1>9 DEF IInv, vars, LoopInv, Seen, ReturnsGuilty
  <1> QED
    BY <1>2, <1>3, <1>4, <1>5, <1>6, <1>7, <1>8, <1>9 DEF Next

LEMMA Inductive == Spec => []IInv
  <1>1. Init => IInv
    <2> SUFFICES ASSUME Init PROVE IInv
      OBVIOUS
    <2>1. TypeOK
      BY BacktraceAssumption DEF Init, TypeOK
    <2>2. LoopInv
      <3>1. Crashing(lines) \subseteq Int /\ \A i \in Crashing(lines) : i >= 2
        BY <2>1 DEF Crashing, TypeOK
      <3>2. Seen = {} /\ pos = 2
        BY <3>1 DEF Init, Seen
      <3>3. \A i \in Chosen(lines, guilty_blacklist) : i >= 2
        BY <3>1 DEF Chosen
      <3>4. ~\E i \in Unknown(lines, guilty_blacklist) : i < pos
        BY <3>1, <3>2 DEF Unknown
      <3>5. 2..(pos - 1) = {}
        BY <3>2
      <3> QED
        BY <3>2, <3>3, <3>4, <3>5 DEF Init, LoopInv
    <2> QED
      BY <2>1, <2>2 DEF IInv, Init, ReturnsGuilty
  <1> QED
    BY <1>1, InductiveStep, PTL DEF Spec

(* find_guilty is correct: whatever the backtrace and the blacklist, what  *)
(* it returns is the guilty frame CrashFrames defines, and found_match     *)
(* says whether there is one.                                              *)
THEOREM Correct == Spec => []ReturnsGuilty
  <1>1. IInv => ReturnsGuilty
    BY DEF IInv
  <1> QED
    BY <1>1, Inductive, PTL

(* A blacklisted frame is the answer only when the whole crashing thread   *)
(* is blacklisted: it follows from the answer being IsGuilty.              *)
THEOREM LastResort == Spec => []BlacklistedLastResort
  <1>1. ReturnsGuilty /\ TypeOK => BlacklistedLastResort
    <2> SUFFICES ASSUME ReturnsGuilty, TypeOK, pc = "done", guilty \in guilty_blacklist,
                        NEW i \in Crashing(lines), lines[i] \notin guilty_blacklist
                 PROVE  FALSE
      BY DEF BlacklistedLastResort
    <2>1. IsGuilty(lines, guilty_blacklist, guilty)
      BY DEF ReturnsGuilty
    <2>2. \A j \in Chosen(lines, guilty_blacklist) \cup Unknown(lines, guilty_blacklist) :
              lines[j] \notin guilty_blacklist
      BY DEF Chosen, Unknown
    <2>3. i \in Chosen(lines, guilty_blacklist) \/ i \in Unknown(lines, guilty_blacklist)
      BY DEF Chosen, Unknown
    <2> QED
      BY <2>1, <2>2, <2>3 DEF IsGuilty
  <1> QED
    BY <1>1, Correct, TypeCorrect, PTL

-----------------------------------------------------------------------------
(* The guilty frame is a line of the crashing thread.                      *)
LEMMA GuiltyIsCrashing ==
    ASSUME NEW l, NEW bl, NEW g, IsGuilty(l, bl, g), g # NoGuilty
    PROVE  \E i \in Crashing(l) : g = l[i]
  BY DEF IsGuilty, Chosen, Unknown, First, Last

(* The crashing thread is an unbroken run of frames, so no header lies     *)
(* between two of its lines: what parse_backtrace cuts off holds all of it *)
(* or none.                                                                *)
LEMMA CrashingTogether ==
    ASSUME NEW l \in Seq(Line), NEW i \in Crashing(l), NEW j \in Crashing(l),
           SecondThread(l, i)
    PROVE  SecondThread(l, j)
  <1>1. PICK p, q \in 1..i : p < q /\ l[p] = ThreadHeader /\ l[q] = ThreadHeader
    BY DEF SecondThread
  <1>2. i \in 2..Len(l) /\ j \in 2..Len(l) /\ Len(l) \in Nat
    BY DEF Crashing
  <1>3. ~IsFrame(l[q]) /\ IsFrame(l[j])
    BY <1>1, FrameAssumption DEF IsFrame, Crashing
  <1>4. q < j
    <2>1. CASE j <= q
      <3>1. j \in 2..i /\ q \in j..i
        BY <1>1, <1>2, <2>1
      <3> QED
        BY <1>3, <3>1 DEF Crashing
    <2> QED
      BY <1>1, <1>2, <2>1
  <1>5. p \in 1..j /\ q \in 1..j
    BY <1>1, <1>2, <1>4
  <1> QED
    BY <1>1, <1>5 DEF SecondThread

(* Whatever the payload, the form of guilty_edit offers the guilty that    *)
(* find_guilty returned for it, but for a frame the form never offers and  *)
(* for a payload whose first thread has no frame.                          *)
THEOREM Offers == Spec => []GuiltyIsOffered
  <1>1. ReturnsGuilty /\ TypeOK => GuiltyIsOffered
    <2> SUFFICES ASSUME ReturnsGuilty, TypeOK, pc = "done", guilty # NoGuilty,
                        NEW j \in Crashing(lines), ~SecondThread(lines, j)
                 PROVE  guilty \in Offered(lines) \cup Exempt
      BY DEF GuiltyIsOffered
    <2>1. PICK i \in Crashing(lines) : guilty = lines[i]
      BY GuiltyIsCrashing DEF ReturnsGuilty
    <2>2. ~SecondThread(lines, i)
      BY CrashingTogether DEF TypeOK
    <2>3. i \in Parsed(lines)
      BY <2>2 DEF Parsed, Crashing
    <2> QED
      BY <2>1, <2>3 DEF Offered
  <1> QED
    BY <1>1, Correct, TypeCorrect, PTL

-----------------------------------------------------------------------------
(* A set of lines has a first one ...                                      *)
LEMMA FirstExists ==
    ASSUME NEW S \in SUBSET Nat, S # {}
    PROVE  \E i \in S : First(S, i)
  <1> DEFINE R == OpToRel(<, Nat)
  <1>1. \E i \in S : \A j \in S : ~(<<j, i>> \in R)
    <2>1. IsWellFoundedOn(R, Nat)
      BY NatLessThanWellFounded
    <2> HIDE DEF R
    <2> QED
      BY <2>1, WFMin
  <1>2. PICK i \in S : \A j \in S : ~(<<j, i>> \in R)
    BY <1>1
  <1>3. \A j \in Nat : <<j, i>> \in R <=> j < i
    BY DEF OpToRel
  <1>4. ASSUME NEW j \in S PROVE i <= j
    <2>1. i \in Nat /\ j \in Nat /\ ~(j < i)
      BY <1>2, <1>3
    <2> QED
      BY <2>1
  <1> QED
    BY <1>4 DEF First

(* ... and, up to a line n, a last one.                                    *)
LEMMA LastExists ==
    ASSUME NEW n \in Nat, NEW S \in SUBSET (0..n), S # {}
    PROVE  \E i \in S : Last(S, i)
  <1> DEFINE T == {n - i : i \in S}
  <1>1. T \in SUBSET Nat /\ T # {}
    <2>1. \A i \in S : i \in 0..n
      OBVIOUS
    <2>2. \A i \in 0..n : n - i \in Nat
      OBVIOUS
    <2>3. \A k \in T : \E i \in S : k = n - i
      OBVIOUS
    <2>4. \A k \in T : k \in Nat
      BY <2>1, <2>2, <2>3
    <2>5. PICK i \in S : TRUE
      OBVIOUS
    <2>6. n - i \in T
      OBVIOUS
    <2> QED
      BY <2>4, <2>6
  <1>2. PICK k \in T : First(T, k)
    <2> HIDE DEF T
    <2> QED
      BY <1>1, FirstExists
  <1>3. PICK i \in S : k = n - i
    BY <1>2
  <1>4. ASSUME NEW j \in S PROVE j <= i
    <2>1. n - j \in T
      OBVIOUS
    <2>2. n - i <= n - j
      BY <1>2, <1>3, <2>1 DEF First
    <2>3. i \in 0..n /\ j \in 0..n
      OBVIOUS
    <2> QED
      BY <2>2, <2>3
  <1> QED
    BY <1>4 DEF Last

(* IsGuilty says what find_guilty answers and not only what it may: under  *)
(* any blacklist, any backtrace has exactly one guilty (or NoGuilty).  So  *)
(* a record that is reprocessed under the same blacklist (process.py) gets *)
(* the guilty it had, and InsertGuilty of the pipeline has no choice.      *)
THEOREM OneGuilty ==
    ASSUME NEW l \in Seq(Line), NEW blacklist
    PROVE  /\ \E g \in Frame \cup {NoGuilty} : IsGuilty(l, blacklist, g)
           /\ \A g, h : IsGuilty(l, blacklist, g) /\ IsGuilty(l, blacklist, h) => g = h
  <1> DEFINE C == Crashing(l)
             Ch == Chosen(l, blacklist)
             U == Unknown(l, blacklist)
  <1>1. Len(l) \in Nat /\ C \in SUBSET (2..Len(l)) /\ Ch \in SUBSET C /\ U \in SUBSET C
    BY DEF Crashing, Chosen, Unknown
  <1>2. \A i \in C : l[i] \in Frame /\ l[i] # NoGuilty
    BY CrashingRange
  <1>3. \A S \in SUBSET C : \A i, j : First(S, i) /\ First(S, j) => i = j
    BY <1>1 DEF First
  <1>4. \A i, j : Last(C, i) /\ Last(C, j) => i = j
    BY <1>1 DEF Last
  <1>5. \E g \in Frame \cup {NoGuilty} : IsGuilty(l, blacklist, g)
    <2>1. CASE Ch # {}
      <3>1. PICK i \in Ch : First(Ch, i)
        <4>1. Ch \in SUBSET Nat
          BY <1>1
        <4> HIDE DEF Ch
        <4> QED
          BY <2>1, <4>1, FirstExists
      <3> QED
        BY <1>1, <1>2, <3>1 DEF IsGuilty
    <2>2. CASE Ch = {} /\ U # {}
      <3>1. PICK i \in U : First(U, i)
        <4>1. U \in SUBSET Nat
          BY <1>1
        <4> HIDE DEF U
        <4> QED
          BY <2>2, <4>1, FirstExists
      <3> QED
        BY <1>1, <1>2, <2>2, <3>1 DEF IsGuilty
    <2>3. CASE Ch = {} /\ U = {} /\ C # {}
      <3>1. PICK i \in C : Last(C, i)
        <4>1. C \in SUBSET (0..Len(l))
          BY <1>1
        <4> HIDE DEF C
        <4> QED
          BY <1>1, <2>3, <4>1, LastExists
      <3> QED
        BY <1>2, <2>3, <3>1 DEF IsGuilty
    <2>4. CASE C = {}
      BY <2>4 DEF IsGuilty
    <2> QED
      BY <2>1, <2>2, <2>3, <2>4
  <1>6. ASSUME NEW g, NEW h, IsGuilty(l, blacklist, g), IsGuilty(l, blacklist, h)
        PROVE  g = h
    <2>1. CASE Ch # {}
      <3>1. /\ \E i \in Ch : First(Ch, i) /\ g = l[i]
            /\ \E i \in Ch : First(Ch, i) /\ h = l[i]
        BY <1>1, <1>6, <2>1 DEF IsGuilty
      <3> QED
        BY <1>1, <1>3, <3>1
    <2>2. CASE Ch = {} /\ U # {}
      <3>1. /\ \E i \in U : First(U, i) /\ g = l[i]
            /\ \E i \in U : First(U, i) /\ h = l[i]
        BY <1>1, <1>6, <2>2 DEF IsGuilty
      <3> QED
        BY <1>1, <1>3, <3>1
    <2>3. CASE Ch = {} /\ U = {} /\ C # {}
      <3>1. /\ \E i \in C : Last(C, i) /\ g = l[i]
            /\ \E i \in C : Last(C, i) /\ h = l[i]
        BY <1>6, <2>3 DEF IsGuilty
      <3> QED
        BY <1>4, <3>1
    <2>4. CASE C = {}
      BY <1>1, <1>6, <2>4 DEF IsGuilty
    <2> QED
      BY <1>1, <2>1, <2>2, <2>3, <2>4
  <1> QED
    BY <1>5, <1>6

-----------------------------------------------------------------------------
(* How many steps the function has left at most.                           *)
Left == CASE pc = "scan"   -> Len(lines) + 4 - pos
          [] pc = "backup" -> 1
          [] pc = "done"   -> 0

(* No branch of the loop stays where it is: every step leaves fewer steps  *)
(* to take, of Len(lines) + 2 at first, so that find_guilty cannot         *)
(* loop, whatever the backtrace and the blacklist.  It is the half of      *)
(* Terminates that is not about fairness.                                  *)
THEOREM RunsOut == Spec => [](Left \in Nat) /\ [][Left' < Left]_vars
  <1>1. TypeOK => Left \in Nat /\ (pc = "scan" => Left >= 2)
    <2> SUFFICES ASSUME TypeOK PROVE Left \in Nat /\ (pc = "scan" => Left >= 2)
      OBVIOUS
    <2>1. Len(lines) \in Nat /\ pos \in Nat /\ (pos = 2 \/ pos <= Len(lines) + 1)
      BY DEF TypeOK
    <2>2. CASE pc = "scan"
      BY <2>1, <2>2 DEF Left
    <2>3. CASE pc = "backup"
      BY <2>3 DEF Left
    <2>4. CASE pc = "done"
      BY <2>4 DEF Left
    <2> QED
      BY <2>2, <2>3, <2>4 DEF TypeOK
  <1>2. TypeOK /\ [Next]_vars => [Left' < Left]_vars
    <2> SUFFICES ASSUME TypeOK, Next PROVE Left' < Left
      OBVIOUS
    <2>1. Len(lines) \in Nat /\ pos \in Nat
      BY DEF TypeOK
    <2>2. CASE SkipBlacklisted \/ RememberUnknown \/ SkipUnknown \/ SkipHeader
      <3>1. pc = "scan" /\ pc' = "scan" /\ pos' = pos + 1 /\ lines' = lines
        BY <2>2 DEF SkipBlacklisted, RememberUnknown, SkipUnknown, SkipHeader,
                    AtFrame, Continue, inputs
      <3> QED
        BY <2>1, <3>1 DEF Left
    <2>3. CASE LeaveLoop \/ ReturnFrame
      <3>1. pc = "scan" /\ pc' \in {"backup", "done"}
        BY <2>3 DEF LeaveLoop, ReturnFrame, AtFrame, Return
      <3>2. Left' <= 1 /\ Left' \in Nat
        BY <3>1 DEF Left
      <3> QED
        BY <1>1, <3>1, <3>2
    <2>4. CASE Backup
      <3>1. pc = "backup" /\ pc' = "done"
        BY <2>4 DEF Backup, Return
      <3> QED
        BY <3>1 DEF Left
    <2> QED
      BY <2>2, <2>3, <2>4 DEF Next
  <1> QED
    BY <1>1, <1>2, TypeCorrect, PTL DEF Spec
=============================================================================
