---------------------------- MODULE CrashFrames ----------------------------
(***************************************************************************)
(* Backtraces as find_guilty (utils/shared_utils/crash.py) reads them, and *)
(* the guilty frame of a backtrace, stated without the loop that finds it. *)
(*                                                                         *)
(* A payload is a sequence of lines.  A line that matches FRAME_PATTERN is *)
(* a frame, a (function, module) pair; any other line is Text.  How the    *)
(* pattern cuts a line into groups is left out.                            *)
(***************************************************************************)
EXTENDS Integers, Sequences

CONSTANTS
    Func,        \* function names a frame can carry
    Module,      \* module names
    NoSymbol,    \* the function '???': the frame has no symbol
    Unreliable,  \* functions that start with '? ': a kernel's guess
    Text,        \* a line that is neither a frame nor a thread's header
    ThreadHeader,  \* a line "Backtrace (TID n):"
    Exempt,      \* frames guilty_edit never offers: _start(), and
                 \* __libc_start_main() of libc
    NoGuilty     \* no frame at all: find_guilty found no match

Frame == [func : Func, mod : Module]

ASSUME FrameAssumption ==
    /\ NoSymbol \in Func
    /\ Unreliable \subseteq Func \ {NoSymbol}
    /\ Text \notin Frame
    /\ ThreadHeader \notin Frame \cup {Text}
    /\ Exempt \subseteq Frame
    /\ NoGuilty \notin Frame

Line == Frame \cup {Text, ThreadHeader}

IsFrame(line) == line \in Frame

(* The crashing thread: the first unbroken run of frames after line 1,     *)
(* which the loop never looks at.                                          *)
Crashing(lines) ==
    {i \in 2..Len(lines) :
        /\ IsFrame(lines[i])
        /\ \A j \in 2..i : \A k \in j..i : IsFrame(lines[j]) => IsFrame(lines[k])}

HasSymbols(frame) == frame.func # NoSymbol /\ frame.func \notin Unreliable

(* A frame the loop remembers instead of choosing it.                      *)
Unknown(lines, blacklist) ==
    {i \in Crashing(lines) : lines[i] \notin blacklist /\ ~HasSymbols(lines[i])}

(* A frame the loop stops at.  Only the first frame without symbols is     *)
(* remembered, whichever of the two forms it has; after it the '? ' form   *)
(* is no longer skipped.                                                   *)
Chosen(lines, blacklist) ==
    {i \in Crashing(lines) :
        /\ lines[i] \notin blacklist
        /\ \/ HasSymbols(lines[i])
           \/ /\ lines[i].func \in Unreliable
              /\ \E j \in Unknown(lines, blacklist) : j < i}

First(S, i) == i \in S /\ \A j \in S : i <= j
Last(S, i)  == i \in S /\ \A j \in S : j <= i

(* guilty is what find_guilty answers for these lines under this blacklist.*)
IsGuilty(lines, blacklist, guilty) ==
    \/ \E i \in Chosen(lines, blacklist) :
           First(Chosen(lines, blacklist), i) /\ guilty = lines[i]
    \/ /\ Chosen(lines, blacklist) = {}
       /\ \E i \in Unknown(lines, blacklist) :
              First(Unknown(lines, blacklist), i) /\ guilty = lines[i]
    \/ /\ Chosen(lines, blacklist) = {}
       /\ Unknown(lines, blacklist) = {}
       /\ \E i \in Crashing(lines) : Last(Crashing(lines), i) /\ guilty = lines[i]
    \/ Crashing(lines) = {} /\ guilty = NoGuilty

(* Line i comes after the header of a second thread.                       *)
SecondThread(lines, i) ==
    \E j, k \in 1..i : j < k /\ lines[j] = ThreadHeader /\ lines[k] = ThreadHeader

(* A slip: the parser stops at the first header.                           *)
NoThread(lines) ==
    {i \in 1..Len(lines) : IsFrame(lines[i]) /\ \A j \in 1..i : lines[j] # ThreadHeader}

(* parse_backtrace: every frame up to the header of the second thread,     *)
(* the first line and frames after a line that is none included.           *)
Parsed(lines) == {i \in 1..Len(lines) : IsFrame(lines[i]) /\ ~SecondThread(lines, i)}

(* The choices of the form of guilty_edit.                                 *)
Offered(lines) == {lines[i] : i \in Parsed(lines)} \ Exempt
=============================================================================
