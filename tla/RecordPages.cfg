SPECIFICATION Spec
CONSTANTS
    Id = {1, 2, 3}
    RECORDS_PER_PAGE = 2
    Filter <- Filters
    Click = {c1, c2}
INVARIANTS TypeOK NewestFirst NothingSkipped ShowsFilter ExportHasPage
SYMMETRY Clicks
