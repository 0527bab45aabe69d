--------------------------- MODULE RecordQueries ---------------------------
(***************************************************************************)
(* The two queries behind the records view: Record.query_records for the   *)
(* pages, called by records_get, and Record.filter_records for the CSV,    *)
(* called by export_csv (model.py, telemetryui/utils.py, views.py).        *)
(*                                                                         *)
(* An address asks for records by conditions.  A condition stands for the  *)
(* records it means; the columns, the regular expressions and the dates    *)
(* behind it are left out.                                                 *)
(***************************************************************************)
EXTENDS Integers, FiniteSets, Sequences, SequencesExt

CONSTANTS
    Id,                 \* record ids
    RECORDS_PER_PAGE

ASSUME PageAssumption ==
    /\ Id \subseteq Nat \ {0}
    /\ RECORDS_PER_PAGE \in Nat \ {0}

(* What an address can ask for: the arguments of the redirect of           *)
(* records_post, which leaves out "All" and the empty string.              *)
Param == {"classification", "build", "severity", "machine_id", "payload", "not_payload",
          "data_source", "system_name", "from_date", "to_date"}

(* A wildcard is a classification choice like org.clearlinux/*, which the  *)
(* form sends as org.clearlinux/%.                                         *)
Condition == [param : Param, ids : SUBSET Id, wildcard : BOOLEAN]

(* What the form of the page renders, what records_get reads, and what     *)
(* export_csv reads for an attachment.                                     *)
Rendered == {"classification", "severity", "machine_id", "payload", "not_payload", "data_source"}
OnPage   == Rendered \cup {"build"}
InExport == (OnPage \ {"data_source"}) \cup {"from_date", "to_date"}

(* filter_by compares the classification for equality: no record has a     *)
(* classification with the % of a wildcard.                                *)
Equal(condition) == IF condition.wildcard THEN {} ELSE condition.ids

(* A slip: records_get reads the classification only.                      *)
OnlyClassified(S, filter) ==
    {id \in S : \A c \in filter : c.param = "classification" => id \in Equal(c)}

query_records(S, filter) ==
    {id \in S : \A c \in filter : c.param \in OnPage => id \in Equal(c)}

(* LIKE reads the wildcard as it is meant.                                 *)
filter_records(S, filter) ==
    {id \in S : \A c \in filter : c.param \in InExport => id \in c.ids}

Descending(s) == \A i, j \in DOMAIN s : i < j => s[i] > s[j]

(* What a page can be: no more than RECORDS_PER_PAGE ids, largest first.   *)
Answers == {s \in SeqOf(Id, RECORDS_PER_PAGE) : Descending(s)}

(* A slip: ORDER BY id, oldest first.                                      *)
Oldest(S) ==
    {s \in Answers :
        /\ Range(s) \subseteq S
        /\ \A id \in S \ Range(s) :
               Len(s) = RECORDS_PER_PAGE /\ \A i \in DOMAIN s : s[i] < id}

(* A slip: LIMIT is left out.                                              *)
NoLimit(S) == {s \in SeqOf(S, Cardinality(S)) : Descending(s) /\ Range(s) = S}

(* order_by(Record.id.desc()).limit(RECORDS_PER_PAGE): a row of S is left  *)
(* out only by a full page of newer ones.  There is one such answer.       *)
Limit(S) ==
    {s \in Answers :
        /\ Range(s) \subseteq S
        /\ \A id \in S \ Range(s) :
               Len(s) = RECORDS_PER_PAGE /\ \A i \in DOMAIN s : id < s[i]}
=============================================================================
