---------------------------- MODULE RecordPages ----------------------------
(***************************************************************************)
(* The records view of one browser: the script of templates/records.html,  *)
(* records and records_page (telemetryui/views.py), records_get            *)
(* (telemetryui/utils.py) and Record.query_records (model.py), while other *)
(* services insert and purge rows.                                         *)
(*                                                                         *)
(* "Load more" appends the page after the last row shown; the streaming    *)
(* switch reloads the first page every five seconds.  Both are requests    *)
(* whose answers come later, with the filter of the page's address.  A     *)
(* form that validates leads to a new address; one that does not is        *)
(* answered in place, without a filter.                                    *)
(***************************************************************************)
EXTENDS RecordQueries

CONSTANTS
    Filter,   \* the filters that addresses carry
    Click     \* bound: load-more requests under way at a time

ASSUME FilterAssumption == Filter \subseteq SUBSET Condition /\ {} \in Filter

VARIABLES
    filter,      \* the filter of the page's address
    refused,     \* the rows shown are those of the answer to a form that
                 \* did not validate
    live,        \* ids of the committed rows
    used,        \* ids that were committed once
    table,       \* ids of the rows of #records-table
    streaming,   \* the switch
    disabled,    \* the "Load more" button
    more,        \* more[c]: a load-more request
    reload,      \* the request of a reload
    kept,        \* rows there since the query behind table's first page (history)
    keeping,     \* the same for the answer in reload (history)
    mixed        \* the switch was used, or a reload came, while a load-more
                 \* was under way (history)

address == <<filter, refused>>
page    == <<table, streaming, disabled, address>>
past    == <<kept, keeping, mixed>>
vars    == <<live, used, page, more, reload, past>>

(* lastid is the id a request was sent with.                               *)
Request == [stage : {"none", "sent", "answered"}, lastid : Id \cup {0}, ids : Answers]

NoRequest == [stage |-> "none", lastid |-> 0, ids |-> <<>>]

UnderWay == \E c \in Click : more[c].stage # "none"

TypeOK ==
    /\ filter \in Filter
    /\ refused \in BOOLEAN
    /\ live \subseteq used
    /\ used \subseteq Id
    /\ table \in Seq(Id)
    /\ streaming \in BOOLEAN
    /\ disabled \in BOOLEAN
    /\ more \in [Click -> Request]
    /\ reload \in Request
    /\ kept \subseteq live /\ keeping \subseteq live
    /\ mixed \in BOOLEAN

(* The rows the queries of this page select.                               *)
Matching == query_records(live, filter)

(* Record.id < from_id                                                     *)
Before(lastid) == {id \in Matching : id < lastid}

(* GET /records: the page opens with its first rows.                       *)
Init ==
    /\ live \in SUBSET Id
    /\ used = live
    /\ filter = {}
    /\ refused = FALSE
    /\ table \in Limit(live)
    /\ streaming = FALSE
    /\ disabled = FALSE
    /\ more = [c \in Click |-> NoRequest]
    /\ reload = NoRequest
    /\ kept = live
    /\ keeping = {}
    /\ mixed = FALSE

-----------------------------------------------------------------------------
(* Collector workers commit in any order of ids; the purge deletes any.    *)
Insert ==
    /\ \E id \in Id \ used : live' = live \cup {id} /\ used' = used \cup {id}
    /\ UNCHANGED <<page, more, reload, past>>

Purge ==
    /\ \E ids \in SUBSET live :
           /\ ids # {}
           /\ live' = live \ ids
           /\ kept' = kept \ ids
           /\ keeping' = keeping \ ids
    /\ UNCHANGED <<used, page, more, reload, mixed>>

(* A slip: the button stays enabled.                                       *)
ClickAgain(c) ==
    /\ ~disabled
    /\ more[c].stage = "none"
    /\ table # <<>>
    /\ more' = [more EXCEPT ![c] = [NoRequest EXCEPT !.stage = "sent", !.lastid = Last(table)]]
    /\ UNCHANGED <<live, used, page, reload, past>>

(* The click takes the id of the last row and disables the button.         *)
LoadMore(c) ==
    /\ ~disabled
    /\ more[c].stage = "none"
    /\ table # <<>>
    /\ more' = [more EXCEPT ![c] = [NoRequest EXCEPT !.stage = "sent", !.lastid = Last(table)]]
    /\ disabled' = TRUE
    /\ UNCHANGED <<live, used, table, streaming, address, reload, past>>

(* records_page(lastid)                                                    *)
AnswerMore(c) ==
    /\ more[c].stage = "sent"
    /\ \E ids \in Limit(Before(more[c].lastid)) :
           more' = [more EXCEPT ![c].stage = "answered", ![c].ids = ids]
    /\ UNCHANGED <<live, used, page, reload, past>>

(* success: append, and enable the button whatever the switch says.        *)
AppendRows(c) ==
    /\ more[c].stage = "answered"
    /\ table' = table \o more[c].ids
    /\ more' = [more EXCEPT ![c] = NoRequest]
    /\ disabled' = FALSE
    /\ UNCHANGED <<live, used, streaming, address, reload, past>>

(* error: the modal, and the button again after five seconds.              *)
FailMore(c) ==
    /\ more[c].stage # "none"
    /\ more' = [more EXCEPT ![c] = NoRequest]
    /\ disabled' = FALSE
    /\ UNCHANGED <<live, used, table, streaming, address, reload, past>>

(* Switched off, the button is enabled, be a request under way or not.     *)
Switch ==
    /\ streaming' = ~streaming
    /\ disabled' = streaming'
    /\ mixed' = (mixed \/ UnderWay)
    /\ UNCHANGED <<live, used, table, address, more, reload, kept, keeping>>

(* setInterval.  bound: one reload is under way at a time.                 *)
Interval ==
    /\ streaming
    /\ reload.stage = "none"
    /\ reload' = [NoRequest EXCEPT !.stage = "sent"]
    /\ UNCHANGED <<live, used, page, more, past>>

(* records_page(0): lastid is None.                                        *)
AnswerReload ==
    /\ reload.stage = "sent"
    /\ \E ids \in Limit(Matching) :
           reload' = [reload EXCEPT !.stage = "answered", !.ids = ids]
    /\ keeping' = live
    /\ UNCHANGED <<live, used, page, more, kept, mixed>>

(* .load() replaces the rows of the table.                                 *)
Replace ==
    /\ reload.stage = "answered"
    /\ table' = reload.ids
    /\ reload' = NoRequest
    /\ kept' = keeping
    /\ keeping' = {}
    /\ mixed' = UnderWay
    /\ refused' = FALSE
    /\ UNCHANGED <<live, used, streaming, disabled, filter, more>>

FailReload ==
    /\ reload.stage # "none"
    /\ reload' = NoRequest
    /\ keeping' = {}
    /\ UNCHANGED <<live, used, page, more, kept, mixed>>

(* A new document: what was under way is dropped with the old one.         *)
Load(rows) ==
    /\ table' = rows
    /\ streaming' = FALSE
    /\ disabled' = FALSE
    /\ more' = [c \in Click |-> NoRequest]
    /\ reload' = NoRequest
    /\ kept' = live
    /\ keeping' = {}
    /\ mixed' = FALSE
    /\ UNCHANGED <<live, used>>

(* A slip: the rows are replaced in the page, and answers still come.      *)
OpenInPlace(asked) ==
    /\ filter' = asked
    /\ refused' = FALSE
    /\ table' \in Limit(query_records(live, asked))
    /\ kept' = live
    /\ UNCHANGED <<live, used, streaming, disabled, more, reload, keeping, mixed>>

(* A link to records with a filter, or the redirect of a form that         *)
(* validates.                                                              *)
Open(asked) ==
    /\ filter' = asked
    /\ refused' = FALSE
    /\ \E rows \in Limit(query_records(live, asked)) : Load(rows)

(* validate_on_submit() is False (the token is of before a restart, or the *)
(* choice is no longer offered): the newest rows, at the address the form  *)
(* was on.                                                                 *)
Refuse ==
    /\ refused' = TRUE
    /\ \E rows \in Limit(live) : Load(rows)
    /\ UNCHANGED filter

Next ==
    \/ Insert \/ Purge
    \/ \E c \in Click : LoadMore(c) \/ AnswerMore(c) \/ AppendRows(c) \/ FailMore(c)
    \/ \E asked \in Filter : Open(asked)
    \/ Refuse
    \/ Switch \/ Interval \/ AnswerReload \/ Replace \/ FailReload

Spec == Init /\ [][Next]_vars

-----------------------------------------------------------------------------
(* However rows come and go between two clicks, and whatever requests      *)
(* fail, the table shows no record twice and newer ones first, unless the  *)
(* streaming switch has interfered with a load-more.                       *)
NewestFirst ==
    ~mixed => Descending(table)

(* ... and it leaves out no record of the page's filter that was there all *)
(* the time: paging by the last id does not skip, as paging by an offset   *)
(* would.  A refused form is no exception: the rows it shows are more.     *)
NothingSkipped ==
    (~mixed /\ table # <<>>) =>
        \A id \in query_records(kept, filter) : id >= Last(table) => id \in Range(table)

(* Answers to the requests of an earlier filter, and reloads and load-more *)
(* requests in whatever order, never bring a row into the table that the   *)
(* filter of the address does not select; only a refused form does.        *)
ShowsFilter == ~refused => Range(table) \subseteq query_records(used, filter)

(* Pages and CSV are two queries, by other parameters and other            *)
(* comparisons: still the CSV of a filter made with the form has every row *)
(* the page shows that is still there.                                     *)
ExportHasPage ==
    (~refused /\ \A c \in filter : c.param \in Rendered) =>
        Range(table) \cap live \subseteq filter_records(live, filter)

-----------------------------------------------------------------------------
(* What the documents say and the code does not do; see the README.        *)

(* "an HTML form can be used for advanced searches, filtering the list of  *)
(* records to display" (README.md:97-101): a fresh page with an unfilled   *)
(* table shows every record the filter means.                              *)
FilterFinds ==
    (~refused /\ ~mixed /\ Len(table) < RECORDS_PER_PAGE) =>
        \A id \in kept : (\A c \in filter : id \in c.ids) => id \in Range(table)
=============================================================================
