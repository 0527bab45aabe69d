SPECIFICATION Spec
CONSTANTS
    Pair = {p, q}
    Colon = {q}
    NoPair = NoPair
    Admin = {a1, a2}
    RowId = {1, 2, 3}
INVARIANTS TypeOK FewCopies
PROPERTIES AloneTakesEffect OthersUntouched
