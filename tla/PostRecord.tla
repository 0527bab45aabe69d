----------------------------- MODULE PostRecord -----------------------------
(***************************************************************************)
(* The POST handler of the collector (collector/report_handler.py:85-179,  *)
(* lib/validation.py), Record.create, and a client that posts one report   *)
(* again until it is answered for good.                                    *)
(*                                                                         *)
(* A request maps each header to what the handler can tell of its value.   *)
(* The handler checks the headers one after the other and answers with the *)
(* status of the first check that fails.                                   *)
(***************************************************************************)
EXTENDS Integers, Sequences, FiniteSets

CONSTANTS
    Requests,      \* the requests considered
    Worker,        \* worker processes of the collector
    MaxAttempts,   \* bound: times the client posts the report
    MaxFails       \* bound: attempts that fail on the server or on the way

RequiredV1 == {"Arch", "Build", "Creation-Timestamp", "Classification", "Host-Type",
               "Kernel-Version", "Machine-Id", "Severity", "Record-Format-Version"}
RequiredV2 == RequiredV1 \cup {"Payload-Format-Version", "System-Name", "X-Telemetry-Tid"}
RequiredV3 == RequiredV2 \cup {"Board-Name", "Bios-Version", "Cpu-Model"}
RequiredV4 == RequiredV3 \cup {"Event-Id"}

Header == RequiredV4

(* The forms of a version the check of its number lets through: int() and  *)
(* isdigit() take a leading zero, the table and the comparisons do not.    *)
Plain  == {"1", "2", "3", "4"}
Padded == {"01", "02", "03", "04"}

(* A value is good or bad for its validator; an "odd" one passes it and    *)
(* fails later: a timestamp of superscript digits, which isdigit() takes   *)
(* and int() does not, and a payload version below the range of INTEGER.   *)
(* A "huge" timestamp can be stored, but is too large for gmtime().        *)
(* System-Name has no validator.                                           *)
Value == {"good", "bad", "missing", "odd", "huge"}

ASSUME RequestAssumption ==
    /\ \A q \in Requests :
           /\ DOMAIN q = Header
           /\ q["Record-Format-Version"] \in Plain \cup Padded \cup {"bad", "missing"}
           /\ \A h \in Header \ {"Record-Format-Version"} : q[h] \in Value
           /\ \A h \in Header : q[h] = "odd" =>
                  h \in {"Creation-Timestamp", "Payload-Format-Version"}
           /\ \A h \in Header : q[h] = "huge" => h = "Creation-Timestamp"
           /\ q["System-Name"] # "bad"
    /\ MaxAttempts \in Nat /\ MaxFails \in Nat

Version(q) == q["Record-Format-Version"]

(* record_format_version_headers_validation: no check for a padded version *)
Required(q) ==
    CASE Version(q) = "1" -> RequiredV1
      [] Version(q) = "2" -> RequiredV2
      [] Version(q) = "3" -> RequiredV3
      [] Version(q) = "4" -> RequiredV4
      [] OTHER            -> {}

-----------------------------------------------------------------------------
(* The status a check answers with, 201 when it passes.                    *)

(* A slip: only a validator that raises is looked at.                      *)
OnlyRaises(q, h) == IF q[h] = "missing" THEN 400 ELSE 201

(* validate_header_value: a validator that raises is one that fails.       *)
Validate(q, h) == IF q[h] \in {"good", "odd", "huge"} THEN 201 ELSE 400

RequiredHeaders(q) == IF \E h \in Required(q) : q[h] = "missing" THEN 400 ELSE 201

RecordFormatVersion(q) == IF Version(q) \in Plain \cup Padded THEN 201 ELSE 400

Timestamp(q) ==
    IF q["Creation-Timestamp"] = "odd" THEN 500 ELSE Validate(q, "Creation-Timestamp")

(* record_format_version >= '3', >= '4': strings                           *)
V3Header(q, h) == IF Version(q) \in {"3", "4"} THEN Validate(q, h) ELSE 201
V4Header(q, h) == IF Version(q) = "4" THEN Validate(q, h) ELSE 201

(* None.replace raises; any other name will do.                            *)
SystemName(q) == IF q["System-Name"] = "missing" THEN 500 ELSE 201

(* So does clean_build_n_value(None); then the regular expression.         *)
Build(q) == IF q["Build"] = "missing" THEN 500 ELSE Validate(q, "Build")

Checks(q) ==
    << Validate(q, "X-Telemetry-Tid"), RecordFormatVersion(q), RequiredHeaders(q),
       Validate(q, "Severity"), Validate(q, "Classification"), Validate(q, "Machine-Id"),
       Timestamp(q), Validate(q, "Arch"), Validate(q, "Host-Type"),
       Validate(q, "Kernel-Version"), V3Header(q, "Board-Name"), V3Header(q, "Cpu-Model"),
       V3Header(q, "Bios-Version"), V4Header(q, "Event-Id"), SystemName(q), Build(q),
       Validate(q, "Payload-Format-Version") >>

(* What collector_post_handler answers, short of the INSERT.               *)
Verdict(q) ==
    LET failing == {i \in 1..Len(Checks(q)) : Checks(q)[i] # 201}
    IN  IF failing = {} THEN 201
        ELSE Checks(q)[CHOOSE i \in failing : \A j \in failing : i <= j]

-----------------------------------------------------------------------------
VARIABLES
    request,    \* the report, as the client posts it every time
    attempts,   \* posts so far
    client,     \* "posting", "stored" (201) or "refused" (400)
    handler,    \* handler[w]: "idle", "validate", "insert", "commit", "respond"
    rows,       \* committed rows of this report
    waits,      \* waits[w]: whether the client still waits for this answer
    fails       \* failures so far (history)

vars == <<request, attempts, client, handler, rows, waits, fails>>

TypeOK ==
    /\ request \in Requests
    /\ attempts \in 0..MaxAttempts
    /\ client \in {"posting", "stored", "refused"}
    /\ handler \in [Worker -> {"idle", "validate", "insert", "commit", "respond"}]
    /\ rows \in 0..attempts
    /\ waits \in [Worker -> BOOLEAN]
    /\ fails \in 0..MaxFails
    /\ Cardinality({w \in Worker : waits[w]}) <= 1
    /\ \A w \in Worker : waits[w] => handler[w] # "idle"

Init ==
    /\ request \in Requests
    /\ attempts = 0
    /\ client = "posting"
    /\ handler = [w \in Worker |-> "idle"]
    /\ rows = 0
    /\ waits = [w \in Worker |-> FALSE]
    /\ fails = 0

Proceed(w, stage) == handler' = [handler EXCEPT ![w] = stage]

(* The client posts while it waits for no answer and has none.             *)
Post(w) ==
    /\ client = "posting"
    /\ \A v \in Worker : ~waits[v]
    /\ attempts < MaxAttempts
    /\ handler[w] = "idle"
    /\ attempts' = attempts + 1
    /\ waits' = [waits EXCEPT ![w] = TRUE]
    /\ Proceed(w, "validate")
    /\ UNCHANGED <<request, client, rows, fails>>

(* The client's connection breaks or times out; the worker goes on.        *)
GiveUp(w) ==
    /\ waits[w]
    /\ fails < MaxFails
    /\ fails' = fails + 1
    /\ waits' = [waits EXCEPT ![w] = FALSE]
    /\ UNCHANGED <<request, attempts, client, handler, rows>>

(* An answer reaches a client that waits for it; one of 500 is no answer.  *)
Answer(w, code) ==
    /\ Proceed(w, "idle")
    /\ waits' = [waits EXCEPT ![w] = FALSE]
    /\ client' = IF ~waits[w] THEN client
                 ELSE CASE code = 201 -> "stored"
                        [] code = 400 -> "refused"
                        [] OTHER      -> client

Check(w) ==
    /\ handler[w] = "validate"
    /\ IF Verdict(request) = 201
       THEN Proceed(w, "insert") /\ UNCHANGED <<client, waits>>
       ELSE Answer(w, Verdict(request))
    /\ UNCHANGED <<request, attempts, rows, fails>>

(* A slip: the row is in before the INSERT has had a chance to fail.       *)
InsertAtOnce(w) ==
    /\ handler[w] = "insert"
    /\ rows' = rows + 1
    /\ Proceed(w, "commit")
    /\ UNCHANGED <<request, attempts, client, waits, fails>>

(* db.session.add, INSERT: a value out of range rolls back and raises.     *)
Insert(w) ==
    /\ handler[w] = "insert"
    /\ IF request["Payload-Format-Version"] = "odd"
       THEN Answer(w, 500)
       ELSE Proceed(w, "commit") /\ UNCHANGED <<client, waits>>
    /\ UNCHANGED <<request, attempts, rows, fails>>

(* A slip: except: rollback, without the raise.                            *)
CommitOrNot(w) ==
    /\ handler[w] = "commit"
    /\ rows' \in {rows, rows + 1}
    /\ Proceed(w, "respond")
    /\ UNCHANGED <<request, attempts, client, waits, fails>>

Commit(w) ==
    /\ handler[w] = "commit"
    /\ rows' = rows + 1
    /\ Proceed(w, "respond")
    /\ UNCHANGED <<request, attempts, client, waits, fails>>

(* jsonify(db_rec.to_dict()): the row is in the table when gmtime() raises *)
(* at its timestamp, in this attempt and in every other.                   *)
Respond(w) ==
    /\ handler[w] = "respond"
    /\ Answer(w, IF request["Creation-Timestamp"] = "huge" THEN 500 ELSE 201)
    /\ UNCHANGED <<request, attempts, rows, fails>>

(* The database fails a statement, also the one that reads the row back    *)
(* for the response, or the worker dies.                                   *)
Fail(w) ==
    /\ handler[w] # "idle"
    /\ fails < MaxFails
    /\ fails' = fails + 1
    /\ Answer(w, 500)
    /\ UNCHANGED <<request, attempts, rows>>

Handle(w) == Check(w) \/ Insert(w) \/ Commit(w) \/ Respond(w)

Next == \E w \in Worker : Post(w) \/ GiveUp(w) \/ Handle(w) \/ Fail(w)

Spec == Init /\ [][Next]_vars

(* A worker carries on with its request; the client posts again.           *)
FairSpec ==
    /\ Spec
    /\ \A w \in Worker : WF_vars(Handle(w))
    /\ WF_vars(\E w \in Worker : Post(w))

-----------------------------------------------------------------------------
(* What a client may conclude from an answer, whatever attempts failed     *)
(* before: 201 means the report is in the table, 400 that no attempt,      *)
(* finished or still running, has put or will put it there.                *)
AnswersAreFinal ==
    /\ client = "stored" => rows > 0
    /\ client = "refused" =>
           /\ rows = 0
           /\ \A w \in Worker : handler[w] \in {"idle", "validate"}

(* "Check for every single required header to be in the request"           *)
(* (validation.py:81): a stored record came with the headers of its        *)
(* version.                                                                *)
StoredIsComplete ==
    rows > 0 => \A h \in Required(request) : request[h] \in {"good", "odd", "huge"} \cup Plain

(* A report without any defect is stored, whatever fails on the way, if    *)
(* the client keeps posting.                                               *)
GoodIsStored ==
    (\A h \in Header : request[h] \in {"good"} \cup Plain) ~> (rows > 0)

(* test_post_record_v3_with_headers_v2 (tests/headers.py:129-133): a       *)
(* record of version 3, which '03' is to int(), needs the V3 headers.      *)
V3IsComplete ==
    (rows > 0 /\ Version(request) \in {"3", "03"}) =>
        \A h \in RequiredV3 : request[h] # "missing"
=============================================================================
