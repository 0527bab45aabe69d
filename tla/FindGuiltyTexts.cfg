SPECIFICATION Spec
CONSTANTS
    Func = {"main", "_start", "???", "? oops"}
    Module = {"libc"}
    NoSymbol = "???"
    Unreliable = {"? oops"}
    Text = Text
    ThreadHeader = ThreadHeader
    Exempt <- MCExempt
    NoGuilty = NoGuilty
    MaxLines = 5
    Backtrace <- MCBacktrace
INVARIANTS SymbolsPreferred ExemptNeverGuilty CrashingThreadOnly
CHECK_DEADLOCK FALSE
