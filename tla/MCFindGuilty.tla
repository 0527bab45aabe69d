---------------------------- MODULE MCFindGuilty ----------------------------
(* A small instance of FindGuilty for TLC: functions of each kind, and     *)
(* every backtrace of at most MaxLines lines over their frames.            *)
EXTENDS FindGuilty

CONSTANT MaxLines

MCExempt == {[func |-> "_start", mod |-> "libc"]}

MCBacktrace == UNION {[1..n -> Line] : n \in 0..MaxLines}
=============================================================================
