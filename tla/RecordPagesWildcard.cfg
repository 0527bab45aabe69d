SPECIFICATION Spec
CONSTANTS
    Id = {1, 2, 3}
    RECORDS_PER_PAGE = 2
    Filter <- Wildcards
    Click = {c1}
INVARIANT FilterFinds
