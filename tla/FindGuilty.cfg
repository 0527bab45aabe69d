SPECIFICATION FairSpec
CONSTANTS
    Func = {"main", "_start", "???", "? oops"}
    Module = {"libc"}
    NoSymbol = "???"
    Unreliable = {"? oops"}
    Text = Text
    ThreadHeader = ThreadHeader
    Exempt <- MCExempt
    NoGuilty = NoGuilty
    MaxLines = 5
    Backtrace <- MCBacktrace
INVARIANTS TypeOK ReturnsGuilty BlacklistedLastResort GuiltyIsOffered
PROPERTY Terminates
CHECK_DEADLOCK FALSE
