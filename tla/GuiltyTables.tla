---------------------------- MODULE GuiltyTables ----------------------------
(***************************************************************************)
(* The tables of the crashes pages: guilty_list_for_build and              *)
(* guilty_list_per_build (utils/shared_utils/crash.py:254-348) turn the    *)
(* rows of get_top_crash_guilties, one per guilty and build, into one      *)
(* table row per guilty with a cell per build.  The loop over the rows is  *)
(* a step per row; what follows it is computed at once.                    *)
(***************************************************************************)
EXTENDS Integers, Sequences, FiniteSets, SequencesExt

CONSTANTS
    Guilty,    \* the strings "function - [module]"
    Build,     \* build strings, digits only
    Number,    \* Number[b]: int(b)
    FirstDigit,   \* FirstDigit[b]: int(b[0]) of the string b
    Overall,   \* the filter "overall"
    Count,     \* counts of crashes
    MaxRows    \* bound: rows of the query

ASSUME TableAssumption ==
    /\ Number \in [Build -> Nat]
    /\ FirstDigit \in [Build -> 0..9]
    /\ Overall \notin Build
    /\ Count \subseteq Nat \ {0}
    /\ MaxRows \in Nat

QueryRow == [guilty : Guilty, build : Build, count : Count]

(* GROUP BY: a guilty has one row per build.  ORDER BY the number of the   *)
(* build, then the count, both descending.                                 *)
Query ==
    {q \in UNION {[1..n -> QueryRow] : n \in 0..MaxRows} :
        \A i, j \in DOMAIN q : i < j =>
            /\ \/ Number[q[i].build] > Number[q[j].build]
               \/ /\ Number[q[i].build] = Number[q[j].build]
                  /\ q[i].count >= q[j].count
            /\ q[i].guilty = q[j].guilty => q[i].build # q[j].build}

VARIABLES
    guilties,       \* the argument
    build_filter,   \* the argument filter: a build or Overall; PerBuild for
                    \* guilty_list_per_build, which has none
    next,           \* position of the next row
    newlist         \* the entries so far: guilty, total and builds

tables_vars == <<guilties, build_filter, next, newlist>>

PerBuild == "per build"

TablesTypeOK ==
    /\ guilties \in Query
    /\ build_filter \in Build \cup {Overall, PerBuild}
    /\ next \in 1..(Len(guilties) + 1)
    /\ newlist \in Seq([guilty : Guilty, total : Nat,
                        builds : Seq([build : Build, count : Nat])])
    /\ \A i, j \in DOMAIN newlist :
           newlist[i].guilty = newlist[j].guilty => i = j

TablesInit ==
    /\ guilties \in Query
    /\ build_filter \in Build \cup {Overall, PerBuild}
    /\ next = 1
    /\ newlist = <<>>

-----------------------------------------------------------------------------
(* sorted(s, key=..., reverse=True), key[i] being the key of s[i]: larger  *)
(* keys first, and equal keys keep their order.                            *)
SortedBy(s, key) ==
    LET rank == [i \in DOMAIN s |-> Cardinality({j \in DOMAIN s :
                                          \/ key[j] > key[i]
                                          \/ key[j] = key[i] /\ j <= i})]
    IN  [k \in DOMAIN s |-> s[CHOOSE i \in DOMAIN s : rank[i] = k]]

Cell(g) == [build |-> g.build, count |-> g.count]

(* filter in ['overall', build]; the per-build function takes every row.   *)
Wanted(g) == build_filter \in {Overall, PerBuild, g.build}

(* Slips: the total of an entry counts rows, or starts again.              *)
CountRows(i, g) ==
    newlist' = [newlist EXCEPT ![i].total = @ + 1, ![i].builds = Append(@, Cell(g))]
ForgetCell(i, g) == newlist' = [newlist EXCEPT ![i].total = @ + g.count]

AddTo(i, g) ==
    newlist' = [newlist EXCEPT ![i] = [guilty |-> @.guilty,
                                       total  |-> @.total + g.count,
                                       builds |-> Append(@.builds, Cell(g))]]

FoundEntry ==
    /\ next <= Len(guilties)
    /\ Wanted(guilties[next])
    /\ \E i \in DOMAIN newlist :
           /\ newlist[i].guilty = guilties[next].guilty
           /\ AddTo(i, guilties[next])
    /\ next' = next + 1
    /\ UNCHANGED <<guilties, build_filter>>

(* A slip: only the last entry is looked at.                               *)
NewAfterOther ==
    /\ next <= Len(guilties)
    /\ Wanted(guilties[next])
    /\ newlist # <<>> => Last(newlist).guilty # guilties[next].guilty
    /\ newlist' = Append(newlist,
           [guilty |-> guilties[next].guilty,
            total  |-> guilties[next].count,
            builds |-> <<Cell(guilties[next])>>])
    /\ next' = next + 1
    /\ UNCHANGED <<guilties, build_filter>>

NewEntry ==
    /\ next <= Len(guilties)
    /\ Wanted(guilties[next])
    /\ \A i \in DOMAIN newlist : newlist[i].guilty # guilties[next].guilty
    /\ newlist' = Append(newlist,
           [guilty |-> guilties[next].guilty,
            total  |-> guilties[next].count,
            builds |-> <<Cell(guilties[next])>>])
    /\ next' = next + 1
    /\ UNCHANGED <<guilties, build_filter>>

OtherBuild ==
    /\ next <= Len(guilties)
    /\ ~Wanted(guilties[next])
    /\ next' = next + 1
    /\ UNCHANGED <<guilties, build_filter, newlist>>

TablesNext == FoundEntry \/ NewEntry \/ OtherBuild

TablesSpec == TablesInit /\ [][TablesNext]_tables_vars

-----------------------------------------------------------------------------
(* What the functions return once the rows are used up.                    *)
Done == next > Len(guilties)

Table == SortedBy(newlist, [i \in DOMAIN newlist |-> newlist[i].total])

BuildSet == {c.build : c \in UNION {Range(newlist[i].builds) : i \in DOMAIN newlist}}

(* list(buildset), in any order, then sorted by what b[0] is for a string. *)
BuildLists ==
    {SortedBy(bs, [k \in DOMAIN bs |-> FirstDigit[bs[k]]]) : bs \in SetToSeqs(BuildSet)}

(* The header, sorted by the number of the build in the end.               *)
Header(buildlist) == SortedBy(buildlist, [k \in DOMAIN buildlist |-> Number[buildlist[k]]])

SortedCells(cells) == SortedBy(cells, [k \in DOMAIN cells |-> Number[cells[k].build]])

(* A slip: the build a guilty lacks is left out.                           *)
SparseCells(entry, buildlist) == SortedCells(entry.builds)

(* list.insert: past the end, it appends.                                  *)
InsertZero(cells, k, build) ==
    InsertAt(cells, IF k <= Len(cells) THEN k ELSE Len(cells) + 1, [build |-> build, count |-> 0])

(* A build the guilty lacks gets a "0" cell at the place of its column;    *)
(* the cells are sorted in the end.                                        *)
WithZeros(entry, buildlist) ==
    LET zeros[k \in 0..Len(buildlist)] ==
            IF k = 0 THEN entry.builds
            ELSE IF \E i \in DOMAIN entry.builds : entry.builds[i].build = buildlist[k]
            THEN zeros[k - 1]
            ELSE InsertZero(zeros[k - 1], k, buildlist[k])
    IN  zeros[Len(buildlist)]

Cells(entry, buildlist) == SortedCells(WithZeros(entry, buildlist))

-----------------------------------------------------------------------------
(* The sum of a function of numbers: as many as there are things counted.  *)
Units(f)   == UNION {{i} \X (1..f[i]) : i \in DOMAIN f}
SumOver(f) == Cardinality(Units(f))

WantedRows == {i \in DOMAIN guilties : Wanted(guilties[i])}

(* No crash is lost or counted twice on the way into the table, for one    *)
(* build, for all builds and for the table of builds.                      *)
TotalsConserved ==
    Done => SumOver([i \in DOMAIN Table |-> Table[i].total]) =
            SumOver([i \in WantedRows |-> guilties[i].count])

(* A row's total is the sum of its cells.                                  *)
TotalsAddUp ==
    Done => \A i \in DOMAIN Table :
                Table[i].total = SumOver([k \in DOMAIN Table[i].builds |->
                                              Table[i].builds[k].count])

(* The template puts the cells under the header by position: every cell    *)
(* stands in the column of its build, as long as no two builds are the     *)
(* same number.                                                            *)
Distinct == \A b, c \in Build : b # c => Number[b] # Number[c]

Aligned ==
    \A buildlist \in BuildLists : \A i \in DOMAIN Table :
        LET cells == Cells(Table[i], buildlist)
        IN  [k \in DOMAIN cells |-> cells[k].build] = Header(buildlist)

ColumnsAligned == (Done /\ build_filter = PerBuild /\ Distinct) => Aligned

(* "provide a 0 value for the count. This simplifies table generation"     *)
(* (crash.py:330-331): the cells of a row are the columns of the table,    *)
(* also for builds such as "0100" and "100", which the query lets through. *)
AlwaysAligned == (Done /\ build_filter = PerBuild) => Aligned
=============================================================================
