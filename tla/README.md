# Verification of telemetrics-backend

TLA+ models of the Clear Linux telemetrics backend, checked with TLC. Every invariant and every action property that a
passing run checks, and the refinement, is also proved with TLAPS; liveness is model-checked. Paths are relative to the
repository root unless they end in `.tla` or `.cfg`.

Contents: [The system](#the-system) · [Inventory](#inventory) · [Modules](#modules) · [Runs](#runs) ·
[Fairness](#fairness) · [Where the code and its texts part](#where-the-code-and-its-texts-part) ·
[Proofs](#proofs) · [Abstractions](#abstractions) · [Plan](#plan) · [How to run](#how-to-run)

## The system

Clients post telemetry records to the **collector** (`collector/`), a Flask application run by several uwsgi
workers. It validates the request and inserts one row into the `records` table of a PostgreSQL **database**
whose schema and queries live in `utils/shared_utils/model.py`. A cron job of the collector (`purge.py`) deletes old
rows. The **processing service** (`processing/`, `deployments/services/processing/`) is a shell loop that every
two minutes runs a batch, which attributes crash records to a guilty frame (`utils/shared_utils/crash.py`) under a
blacklist of frames. The **web application** (`telemetryui/`) shows records, crashes and statistics, and lets
administrators edit guilties and the blacklist, and send records back to processing. Redis keeps cached queries.

```
 client --POST--> collector workers --INSERT/COMMIT--> records <--SELECT/UPDATE-- processing loop (every 2 min)
                  purge (daily) ------DELETE---------->   |                          |  loads per batch
                                                          |                          v
 browser <------> telemetryui: records, crashes, ... <----+      guilty   guilty_blacklisted
                  blacklist pages ---edit, remove, reset processed----------^---------+
                        |
                      Redis (cached list of guilties, 600 s)
```

The services share nothing but the database and Redis; nobody takes a lock across two transactions. Everything
below that is hard comes from there.

## Inventory

For each component: its state, its operations, what is hard about it, and the properties that make it correct.

**Guilty detection** (`utils/shared_utils/crash.py`). `find_guilty` is a pure loop over the lines of a backtrace with
seven locals and four early exits; `parse_crash` hands it the payload. Hard: the order of its tests, the two
kinds of frames without symbols, the backup plan, the end of the crashing thread. Correct if it terminates and
returns the frame the comments describe: `ReturnsGuilty`, `BlacklistedLastResort`, `Terminates`. `parse_backtrace` cuts the same
payload in another way for the pages; the form it fills must still offer the guilty: `GuiltyIsOffered`. The table builders
`guilty_list_for_build` and `guilty_list_per_build` fold query rows into a table: `TotalsConserved`,
`TotalsAddUp`, `ColumnsAligned`.

**Records database** (`utils/shared_utils/model.py`, `telemetryui/migrations`, the view `last_processed` that
`deployments/services/processing/entrypoint.py` creates). Tables `records`, `guilty`, `guilty_blacklisted` and the
sequence behind `records.id`. PostgreSQL runs at READ COMMITTED. Hard: ids are allocated at INSERT and become visible
at COMMIT, in another order. It is the state the other components are correct about. The migration must leave nothing behind
when it is killed (`MigrationApplied`); the two filter queries must agree where both are used (`ExportHasPage`).

**Collector API** (`collector/report_handler.py`, `collector/lib/validation.py`). A request is validated header by
header and stored in one transaction. Hard: checks that are skipped or come after the first use of a value; an
answer that is lost after the commit; a client that posts again. Correct if an answer can be relied on
(`AnswersAreFinal`), a stored record is complete (`StoredIsComplete`) and a good report is stored (`GoodIsStored`). The GET
handler checks a query and asks for records; it is read-only.

**Purge** (`collector/purge.py`, `Record.delete_records`, `collector/config.py`). A daily transaction with one DELETE
per configured entry and a last one for the rest. Hard: overlapping entries, entries of 0 days, a clock read by
every statement, rollback, and a job that uwsgi starts only if it has a spooler. Correct if it deletes what the policy says and only
that: `OnlyOverdueDeleted`, `AllOverdueDeleted`, and, as long as the job is started, `OverdueGoes`. As deployed it is not started:
`collector.ini` configures no spooler (see `TriggeredDaily` [below](#where-the-code-and-its-texts-part)).

**Processing service** (`processing/process.py`, `processing/main.py`, `deployments/services/processing/run.sh`). A
batch loads the blacklist, reads the checkpoint (the largest id marked as processed), fetches the crashes after it,
attributes them one by one, and marks the last one. The connection is in autocommit mode. Hard: everything may
change between two of its statements; a batch may die between two of them; the checkpoint can move backwards.
Correct if no record is passed by (`NoGap`), every record is attributed (`EveryCrashAttributed`), and a guilty is
always `find_guilty`'s answer under a blacklist that was in force, never an older one than before (`ImplementsGrouping`). A guilty
that the unique index cannot hold ends every batch at the same record; what comes after it must go on once it is purged.

**Blacklist pages** (`telemetryui/views.py:199-367`, `forms.py`). `guilty_edit` (Apply, Submit), `guilty_remove`,
`guilty_reset`, `guilty_add`. A request edits the blacklist in one transaction and un-marks records in a second one.
Hard: two requests at a time over a table without a unique constraint; a reset while a batch runs. Correct if a
request has the effect it was asked for and no other (`AloneTakesEffect`, `OthersUntouched`, `FewCopies`) and a reset
is honoured (`ResetHonoured`), as is an Apply that leaves no mark above its record (`AppliedAboveMark`).

**Crashes pages and their cache** (`telemetryui/views.py:84-197, 323-341`, `cache.py`). A read-through entry in Redis,
deleted after an update of a guilty. Hard: the race of fill and delete, an unreachable Redis, a request that dies
between update and delete, and a delete that goes to another Redis (`cache.py:38` knows only `localhost`, the deployment has
Redis on the host `redis`), so that none of the updates deletes the entry. Correct if a stale list is shown only by the pages that
take it from the cache and for a bounded time in spite of all this: `OnlyHitsAreOld`, `ShownInTime`.

**Records pages** (`telemetryui/views.py`, `utils.py`, `templates/records.html`). The browser keeps a table, appends the
page after its last id, and can reload the first page every five seconds; a form leads to the address of a filter, and a
CSV of the same filter comes from another query. Hard: rows come and go between requests, answers overlap, a form that is
refused is answered in place. Correct if the table is in order, leaves nothing out and shows what its address says:
`NewestFirst`, `NothingSkipped`, `ShowsFilter`.

**Deployment** (`deployments/`). Compose starts all services at once; `run.sh` waits for the database and creates the view
`last_processed`, while `migrate` creates the tables. Hard: no order between them, a database that goes away, services killed and
restarted. Correct if the loop starts, once the database stays reachable, and never runs without its schema: `LoopStarts`,
`LoopHasSchema`.

**Statistics, thermal and MCE pages; templates, static files and vendored scripts.** Read-only queries turned into charts, and
presentation. Not modelled; see [Abstractions](#abstractions).

## Modules

### The crash pipeline

The core: four components over one database.

| Module | Models | Correspondence |
|---|---|---|
| `CrashFrames` | what a backtrace is to `find_guilty` | a line is a (function, module) pair or `Text`; `IsGuilty(lines, blacklist, guilty)` states the answer without a loop; `Parsed` is `parse_backtrace`, `Offered` the choices of the form of `guilty_edit` |
| `Database` | `model.py`: tables and sequence | one variable per column; `LastProcessed` is the view `last_processed` |
| `Collector` (on `Database`) | `Record.create` and the purge, as others see them | `Insert`, `Commit`, `Rollback`; `PurgeSelect`, `PurgeDelete`, `PurgeRollback` |
| `Processor` (on `Database`) | `processing/` | one action per SQL statement: `LoadBlacklist`, `GetLatestId`, `GetCrashes`, `InsertGuilty`, `UpdateGuilty`, `UpdateProcessed`, and `Fail`; `TooLong` are frames that the unique index of `guilty` rejects, `Rejects` says that the batch is at one |
| `GuiltyAdmin` (on `Database`) | the blacklist pages | `Apply`, `Submit`, `Reset`, `Remove`, the two halves `ResetRead`/`ResetCommit` of `reset_processed_records`, `Abort` |
| `CrashPipeline` | the three together | `EXTENDS Collector, Processor, GuiltyAdmin`; wraps each action with the history variables |
| `Grouping` | the abstract specification | records are stored, dropped and regrouped; the blacklist has versions |
| `FindGuilty` | `find_guilty` | one action per branch of the loop and one for the backup plan |

`InsertGuilty` uses the answer of `find_guilty` as `IsGuilty` defines it, and `FindGuilty` shows (for all backtraces, see
[Proofs](#proofs)) that the loop computes it, and that there is exactly one such answer (`OneGuilty`). So the pipeline
need not step through the loop.

The *history variables* of `CrashPipeline` never appear in a guard of a component's action (`history` and `fails` bound
the instance). They are what the properties need to speak about the past:

- `history`: all blacklists so far; `bl_version`: which of them the running batch has loaded; `version[id]`: under
  which one the record was attributed.
- `overtaken`: rows that were inserted but not committed when a batch fetched a later one. Such a row is passed by the
  checkpoint, which is the one gap the code has (`AllGrouped` below), and `NoGap` says there is no other.
- `pledge[a]`, `promised`: the blacklist a reset of all records is about; `straddling`, `raced`: a mark that was left by
  the reset, or set after it by a batch that had begun before it. Then the reset is lost (`SubmitReprocesses` below),
  and `ResetHonoured` says that this is the only way to lose it.
- `applied[id]`: the same for an Apply to one record, used by `AppliedAboveMark` and `ApplyReprocesses`.

### Components on their own

| Module | Models | Correspondence |
|---|---|---|
| `PostRecord` | `collector_post_handler` and a retrying client | `Checks` is the list of checks in the order of the code; then `Insert`, `Commit`, `Respond`, `Fail`; `GiveUp` is a lost answer |
| `Retention` | `purge_task`, `purge_field`, `delete_records` | `Cron`, `PurgeField` per entry, `PurgeUnfiltered`, `Commit`, `Rollback`; `Tick` is midnight; `uwsgi` says whether there are `uwsgidecorators` and a spooler; `Overdue` is the policy without statements |
| `BlacklistRows` | the rows of `guilty_blacklisted`, statement by statement | `Add` (exists, insert), `LookUp` and `DeleteEntry` (exists, first, delete), `RemoveEntry`, `Commit`, `Abort` |
| `GuiltyCache` | `get_cached_data`, `uncache_data` and the crashes views | `Request`, `Get`, `Query`, `Set`, `QueryAgain`, `Respond`; `Post`, `UpdateHidden`, `UpdateComment`, `Uncache`; `Unhide`; `Tick` is time passing, `Expire` the end of an entry, `FailView` that of a request (also by uwsgi's harakiri); outages of Redis; `local` says whether `uncache_data` reaches the Redis of the entry |
| `GuiltyTables` | the table builders of `crash.py` | a step per row of the query; header and cells as operators, their sorts stable as Python's |
| `RecordPages` (on `RecordQueries`) | `records.html`, `records_page`, `records_get`, `records_post` | `LoadMore`, `AnswerMore`, `AppendRows`, `FailMore`; `Switch`, `Interval`, `AnswerReload`, `Replace`, `FailReload`; `Open`, `Refuse`; `Insert`, `Purge` |
| `RecordQueries` | `query_records` and `filter_records` | a condition stands for the records it means; which parameters each query reads, and how each compares a wildcard; an answer with `LIMIT` is an element of a set of sequences, which has one (`OneAnswer`) |
| `Startup` | compose, `run.sh`, `entrypoint.py`, the migration | `StartUpgrade`, `CreateTable`, `CommitUpgrade`; `Connect`, `Select`, `CreateView`; the loop; `StopDb`, `FailUpgrade`, `Downgrade`, `Restart` |
| `QueryApi` | the GET handler of the collector | `Check` per parameter in the order of the code, then `Query`; no listed run |

They refine the steps the pipeline takes at once: `PostRecord` what precedes `Collector!Insert`, `Retention` which rows
`PurgeSelect` picks, `BlacklistRows` the edit `GuiltyAdmin!Edit` makes in one step. Their histories: `overdue` (what was
overdue when the purge began), `asked`, `overlapped` (what a request was to do, whether another one committed meanwhile),
in `GuiltyCache` `since` (how long ago each update was committed), `asked` (the updates there were when a GET began) and `hit`
(its list was in the cache), `kept`, `keeping`, `mixed` (rows that were there all along; the streaming switch interfered), `fails`.

A definition that a comment calls *a slip* is no part of a model. It is a plausible mistake in the definition next to
it; putting it in that one's place makes a property fail (`PROJECT.json`, "mutants").

`MC*.tla` give the constants of an instance their values.

## Runs

| Run | Instance | Shows |
|---|---|---|
| `find_guilty` (`MCFindGuilty`, `FindGuilty.cfg`) | one function of each kind (with symbols, `???`, `? ...`), every backtrace of at most 5 lines, every blacklist | the loop returns the guilty of `CrashFrames`, a blacklisted frame only as a last resort, and it returns; the form of `guilty_edit` offers what it returned |
| `resets` (`MCCrashPipeline`, `Resets.cfg`) | 2 records, 2 requests at a time, 1 edit of the blacklist, 1 worker | `ResetHonoured` under interleaved requests |
| `attribution` (`Attribution.cfg`) | 2 records of 4 kinds, one with a guilty that cannot be inserted, 2 workers, purge, resets, 1 failing batch | types; `NoGap`, also when a purge or a reset takes the marked row away; `EveryCrashAttributed` |
| `grouping` (`Grouping.cfg`) | 1 record, 2 edits of the blacklist, 1 failing batch | the pipeline implements `Grouping`; `AppliedAboveMark` |
| `all_grouped` (`AllGrouped.cfg`) | 2 records, 2 workers | refutes `AllGrouped` |
| `post_record` (`MCPostRecord`, `PostRecord.cfg`) | every request with at most one defect in any header, some of which show only at the INSERT or after the commit, every form of the version; 3 attempts, 2 workers, 2 failures | `AnswersAreFinal`, `StoredIsComplete`, `GoodIsStored` |
| `retention` (`MCRetention`, `Retention.cfg`) | an entry of 1 day, an entry that keeps, kinds matched by one, both or none; 2 rows, ages to 3, 1 failure; with and without `uwsgidecorators` and a spooler | `OnlyOverdueDeleted`, `AllOverdueDeleted`, `OverdueGoes` |
| `blacklist_rows` (`BlacklistRows.cfg`) | 2 pairs, one of them with a `:`, 2 requests at a time, 3 inserted rows | `FewCopies`, `AloneTakesEffect`, `OthersUntouched` |
| `guilty_cache` (`MCGuiltyCache`, `GuiltyCache.cfg`) | 2 readers (alike: `SYMMETRY`), 1 editor, the hidden page, 2 updates, 1 failure; an entry lives for 2 ticks, a request for 1; `uncache_data` reaches the entry or, as deployed, does not | `ShownInTime`, `OnlyHitsAreOld` |
| `guilty_tables` (`MCGuiltyTables`, `GuiltyTables.cfg`) | 2 guilties, 3 builds of different numbers and first digits, at most 4 query rows | `TotalsConserved`, `TotalsAddUp`, `ColumnsAligned` |
| `record_pages` (`MCRecordPages`, `RecordPages.cfg`) | 3 ids, pages of 2, 2 clicks at a time, 3 filters: none, one both queries know, two conditions of which the CSV knows one | `NewestFirst`, `NothingSkipped`, `ShowsFilter`, `ExportHasPage` |
| `startup` (`Startup.cfg`) | 3 outages or kills, 2 restarts | `LoopHasSchema`, `MigrationApplied`, `LoopStarts` |

Every run finishes within two minutes or so (`guilty_cache` is the longest, with 3,255,467 states). `GroupingTwoRecords.cfg` is a larger instance, too long to be run every
time: the refinement, `ResetHonoured` and `AppliedAboveMark` with two records of two systems (300,868 states); it passes.

**Why the bounds are enough.** For the proved properties (below) the bounds do not matter. They do for liveness and for the
mutants, each of which has to be told from the code within them:

- *Records.* What can go wrong with the checkpoint is a relation between the marked record, one before and one after
  it: two records show the marked one and one before or after it, and for more of them there are the proofs of `NoGap`, `Implements`
  and `ResetsHonoured`. Two workers are the least that commit out of order.
- *Kinds of records.* A crash with frames, one without, one whose guilty is rejected, and no crash at all: the branches of the batch. Records of
  another system (which a reset leaves marked) appear in `GroupingTwoRecords` and `ResetClearsMarks`; they would double
  the instances elsewhere without a branch of their own.
- *Failures and edits.* The batch, the purge and a request keep nothing from one run to the next, so a failure repeated
  tells no more than one; with two edits, there is a version before, between and after.
- *Backtraces.* The loop's state tells apart: nothing seen, frames seen, an unknown one seen. Five lines reach every
  state and then both kinds of exit.
- *Requests.* The handler stops at the first failing check, so what matters of two defects is which comes first; that
  is proved for all requests (`PassedIsComplete`), and one defect at a time shows the answer to each.
- *Rows of the blacklist.* Pairs interact only in the split at `:`; two requests are what it takes to insert twice.
- *Pages.* A page boundary, a row inserted or deleted on either side of it and a next page: three ids, two per page. The
  queries tell parameters apart only by which of them read them, and the filters have one of each sort.
- *Tables.* Two guilties whose totals can be equal, and three builds of which two differ in how they are sorted as strings and
  as numbers.
- *Time in the cache.* What is bounded are sums of the time of an entry and that of requests, which a tick tells apart when the
  two differ; one reader whose fill is late and one who is served from it are the longest way from an update to a page.
- *Outages.* One for each of the three services that can be cut off in the middle of something, and the environment restarted
  before and after the migration.

**Deadlock** is not looked for where the modelled program stops by itself: `find_guilty` returns, `guilty_tables` has
consumed its rows, the client of `post_record` has its answer or gives up.

## Fairness

- `WF_vars(ProcessorStep)` in `CrashPipeline`: `run.sh` starts a batch every two minutes for ever, and a batch runs from
  statement to statement without waiting for anybody (plain row locks aside, which every other transaction gives up
  soon). A batch at a record whose guilty is rejected does not wait either: it fails (`Rejects /\ FailBatch` is in the same
  condition), and the next one begins. Nothing is assumed of workers, purge or administrators. This is about a service that
  runs: neither compose file has a `restart:` for `process`, so that a container that is killed is started again by hand, which
  `Fail` takes for granted.
- `FindGuilty`: `WF_vars(Next)`, a sequential function.
- `PostRecord`: each worker carries on with its request, and the client posts again. `GoodIsStored` needs more attempts than
  failures (`MaxAttempts > MaxFails`), and is stated for an instance where this holds; without retries one failure loses a
  record.
- `Retention`: a purge that has begun proceeds; nothing else. That the job is started again and again is a premise of
  `OverdueGoes` and no fairness, for the code does not see to it: the job is one for uwsgi's spooler (`purge.py:26`), which
  `collector.ini` does not configure, and without `uwsgidecorators` there is none (`purge.py:33`). Failures are bounded.
- `GuiltyCache`: none. That an update shows is stated in time (`ShownInTime`): `Tick` cannot pass the end of an entry
  (`ex=600`, counted by Redis even when it cannot be reached) or of a request (`harakiri = 60`), so that what holds of the ticks
  holds of every behaviour in which Redis and uwsgi keep theirs.
- `Startup`: `WF_vars(Migrate)` (`restart: on-failure` in both compose files, and a script without waits) and
  `WF_vars(Process)` (`until`, then `while true`). The database is restarted by `docker-compose.prod.yaml` only (`restart:
  always`); with `docker-compose.yaml` somebody has to, and so it is a premise of the two properties that it is reachable
  again and again (`[]<>up`). Outages, kills and restarts are bounded; a downgrade by hand is not fair.

## Where the code and its texts part

Each line is refuted by TLC with the module and `.cfg` named; the first is a listed run.

| Property (`.cfg`) | What a text says | What the code does |
|---|---|---|
| `AllGrouped` (`AllGrouped.cfg`) | "The crash reports are grouped by "guilties"" (`README.md:117-118`) | a record committed after a later id was fetched is behind the checkpoint (`processing/main.py:16`) and has no guilty until a reset |
| `SymbolsPreferred` (`FindGuiltyTexts.cfg`) | a frame without symbols is considered only if no frame lower in the stack has them (`crash.py:141-142`) | after the first unknown frame the `? ` form is taken for one with symbols (`crash.py:143-148`) |
| `ExemptNeverGuilty` (`FindGuiltyTexts.cfg`) | the bottommost frame `_start` "can never be guilty" (`views.py:214-215`) | the form leaves it out; `find_guilty` knows nothing of it and returns it |
| `CrashingThreadOnly` (`FindGuiltyTexts.cfg`) | "we only consider the crashing thread for guilty detection" (`crash.py:166-167`) | the header of a second thread before the first frame is skipped as any line is, and a frame of that thread is returned |
| `ResetClearsMarks` (`ResetClearsMarks.cfg`) | "Guilties will be recalculated in the background for all crash records" (`views.py:263`) | only records of `clear-linux-os` lose their mark (`model.py:467`), while the batch marks any; the mark of another system holds the checkpoint |
| `ApplyReprocesses` (`Reprocesses.cfg`) | "click Apply to update the blacklist, reprocess, and display the new result" (`guilty_edit_one.html:37`) | un-marking one record below the checkpoint does not make it be read again (`views.py:255`) |
| `SubmitReprocesses` (`Reprocesses.cfg`) | "click Submit to reprocess all crash records in the database" (`guilty_edit_one.html:38`) | a batch that is running marks its last record after the reset, with the old blacklist (`main.py:100`) |
| `DeletedOnUpdate` (`CacheRemote.cfg`) | "Delete cached query when user updates a guilty" (`views.py:152`) | `uncache_data` connects to `localhost` (`cache.py:38`), the entry is at `REDIS_HOSTNAME` (`config.py:12,23`) |
| `DeletedOnUpdate` (`CacheRacing.cfg`) | the same | a list queried before the update is stored after the delete (`cache.py:28`) |
| `DeletedOnUpdate` (`CacheUnhide.cfg`) | the same | the hidden page updates guilties and deletes nothing (`views.py:335`) |
| `KeptWhenAbsent` (`RetentionAbsent.cfg`) | "If this variable is not present, then no purging will be done" (`collector/config.py:33`) | the default of the lookup is `True` (`purge.py:23`) |
| `TriggeredDaily` (`MCRetention`, `RetentionNoSpooler.cfg`) | "a purging system of old records will be triggered daily" (`collector/config.py:32-33`) | the job is one for the spooler (`purge.py:26`), and `collector.ini` configures none |
| `V3IsComplete` (`PostRecordPadded.cfg`) | a record of version 3 needs the headers of version 3 (`tests/headers.py:129-133`) | version `03` passes `int()` and matches no table or comparison of strings (`report_handler.py:97,127`) |
| `RemovedIsGone` (`BlacklistRowsTexts.cfg`) | "Removed guilty filter" (`views.py:313`) | a pair inserted twice loses one row (`model.py:610`) |
| `ListedIsRemovable` (`BlacklistRowsTexts.cfg`) | the form offers the pair for removal | a function with a `:` is split in two (`views.py:310`) |
| `FilterFinds` (`RecordPagesWildcard.cfg`) | "an HTML form can be used for advanced searches, filtering the list of records to display" (`README.md:97-101`) | a choice like `org.clearlinux/*` is sent with a `%` and compared for equality (`model.py:188-189`): no record is shown, while the CSV has them |
| `NotRefused` (`QueryApi.cfg`) | "`limit`: The maximum number of records to be returned" (`README.md:167`) | the limit is compared as a string (`validation.py:171`): 5 is larger than 1000 |
| `Answered` (`QueryApi.cfg`) | "`GET /api/records` - Returns a maximum of 10000 most recent records" (`README.md:173`) | the handler passes `ts_capture` to `query_records`, which does not take it: a TypeError for every query that passes the checks |
| `AlwaysAligned` (`GuiltyTablesPadded.cfg`) | "provide a 0 value for the count. This simplifies table generation" (`crash.py:330-331`) | for builds such as `0100` and `100` the cells of a row and the header are sorted differently (`crash.py:343`) |

`FindGuiltyTexts.cfg`, `QueryApi.cfg`, `Reprocesses.cfg` and `BlacklistRowsTexts.cfg` list several of them; TLC stops at the first
one it refutes, so leave one in at a time.

Two more that need no model: `guilty_add` calls `crash.get_all_funcmods`, and Apply, Submit and Reset end by calling
`crash.process_guilties` or `process_guilties_sync`; none of these exists. The first request fails before it does
anything and is left out; the others fail after their transactions, which stay committed, and that is how `GuiltyAdmin`
has them.

## Proofs

The proofs hold for every value of the constants that satisfies the named assumptions beside them: any number of
records, workers, requests, failures and edits, any reports, frames and blacklists. TLC evaluates the assumptions in
every run.

| Theorem | Statement |
|---|---|
| `FindGuilty_proofs!TypeCorrect`, `Correct`, `LastResort`, `Offers` | `Spec => []TypeOK`, `[]ReturnsGuilty`, `[]BlacklistedLastResort`, `[]GuiltyIsOffered` |
| `FindGuilty_proofs!OneGuilty` | any backtrace has exactly one guilty under any blacklist |
| `FindGuilty_proofs!RunsOut` | every step of `find_guilty` leaves fewer steps to take |
| `CrashPipeline_proofs!TypeCorrect`, `NoneLeftBehind` | `Spec => []TypeOK`, `[]NoGap` |
| `CrashPipeline_proofs!Implements`, `ResetsHonoured` | `Spec => ImplementsGrouping`, `[]ResetHonoured` |
| `Retention_proofs!TypeCorrect`, `DeletesOnlyOverdue`, `DeletesAllOverdue` | `Spec => []TypeOK`, and the action properties |
| `GuiltyCache_proofs!TypeCorrect`, `UpdatesShowInTime`, `OtherPagesAreCurrent` | `Spec => []TypeOK`, `[]ShownInTime`, `[]OnlyHitsAreOld` |
| `BlacklistRows_proofs!TypeCorrect`, `FewAreInserted`, `OthersStay`, `TakesEffect` | `Spec => []TypeOK`, `[]FewCopies`, and the action properties `OthersUntouched`, `AloneTakesEffect` |
| `Startup_proofs!TypeCorrect`, `SchemaThere` | `Spec => []TypeOK`, `[]LoopHasSchema` |
| `PostRecord_proofs!TypeCorrect`, `AnswersFinal`, `StoredComplete` | `Spec => []TypeOK`, `[]AnswersAreFinal`, `[]StoredIsComplete` |
| `PostRecord_proofs!NothingLost` | a report without defects is never refused; posted more often than something failed, it is stored or being stored |
| `Pages_proofs!TypeCorrect`, `InOrder`, `SkipsNothing`, `OfTheFilter`, `ExportComplete` | of `RecordPages`: `Spec => []TypeOK`, `[]NewestFirst`, `[]NothingSkipped`, `[]ShowsFilter`, `[]ExportHasPage` |
| `Pages_proofs!OneAnswer` | a query with `ORDER BY id DESC LIMIT` has exactly one answer, whatever the rows |
| `Pages_proofs!TablesTypeCorrect`, `Conserved`, `AddUp`, `Columns` | of `GuiltyTables`: `TablesSpec => []TablesTypeOK`, `[]TotalsConserved`, `[]TotalsAddUp`, `[]ColumnsAligned` |

The assumptions are those on the shape of the constants: `FrameAssumption`, `BacktraceAssumption`, `DatabaseAssumption`,
`ProcessorAssumption`, `PurgeAssumption`, `BoundAssumption`, `RetentionAssumption`, `CacheAssumption`, `RequestAssumption`,
`BlacklistAssumption`, `StartupAssumption`, `FilterAssumption`, `PageAssumption`, `TableAssumption`. None of them restricts what the
program meets, except that ids are positive and that `NoGuilty`, `NoReport`, `Text` and the like are none of the values
they stand beside.

**FindGuilty.** Nothing in `ReturnsGuilty` is true in the middle of the loop, so `LoopInv` says what the locals know of the part
of the thread seen so far: all frames before `pos` are blacklisted or unknown in the right way, `first_unknown` is the
first of the unknown ones and `prev_frame` the last frame. `AtCrashing` and `AfterFrame` show that a frame the loop fetches is in the
crashing thread and what it adds to `Seen`; `ReturnAnswers` and `BackupAnswers`, that the two exits return what `IsGuilty` demands. For `Offers`, the crashing thread is an unbroken run of
frames, so the second header lies before all of it or after all of it (`CrashingTogether`).
`OneGuilty` takes the first line of a non-empty set of lines, or the last of the crashing thread (`FirstExists`, `LastExists`):
`IsGuilty` has an answer and only one, so the correctness of the loop leaves nothing open. `RunsOut` bounds the steps by
`Left`, the lines that are left and the two steps that follow the loop.

**NoGap.** It is not inductive: a mark set at the end of a batch is right only because of what the batch did. `IInv` is
`TypeOK` with
- `RowsInv`: rows and workers agree (an id beyond the sequence is free, a pending one is some worker's, ...);
- `BatchInv`: while a batch runs, everything it has passed is attributed, in its hands or overtaken, and so is
  everything up to the checkpoint it started from;
- `MarksInv`: below every marked row every waiting record has been overtaken (`SafeBelow`).

A row becomes visible only by `Commit`, and then it is either above all that was fetched or already in `overtaken`; purge
and resets only remove rows and marks (`Quiet`, `StaysSafe`); `Attribute` takes a row out of the batch's hands exactly
when it has a guilty; `Mark` turns `BatchInv` into `MarksInv`.

**Implements.** `RefInv` adds to `IInv` that the batch's blacklist is the one at `bl_version` in `history` (`LoadedInv`), that the
frame in hand is the answer for the row in hand under it (`HandInv`), and that no record's version is ahead of the
batch's (`VersionInv`, which holds because there is one loop). `Attribute` then is a `Regroup`; `Commit`, the purge and the
edits are `Store`, `Drop` and `EditBlacklist`; the rest stutters.

**ResetsHonoured.** `ResetInv` adds that a pledge or a promise is a position of `history` (`PromiseInv`) and, unless raced,
that what lies below a mark, and what the batch has passed, has a version of at least `promised` or is overtaken
(`FreshMarks`, `FreshBatch`). A batch that does not straddle the reset has loaded its blacklist after it.

**Retention.** What a transaction has selected is overdue (`SelectedInv`) and stays so, since rows get older only
(`OverdueStays`). What was overdue at the start is selected already, or an entry that will select it has yet to run
(`PendingInv`).

**GuiltyCache.** The list on its way to the cache lacks what was committed since it was queried, which is no longer ago than its
request has taken (`ListInv`); the entry lacks that and what was committed since it was stored (`EntryInv`), and a list that
was read from it, what the entry lacked and what was committed since. `SinceInv` says that what is not committed has no age
yet, so that a new update starts at 0; `LacksAfterTick` and `LacksAfterCommit` are what a tick and an update do to a list. No
action of a POST or of Redis enlarges any of these bounds, which is why `ShownInTime` needs no delete. `AskedInv` says that a
list that was queried for has what was asked for; only a hit can be older, and `/crashes` does not end with one.

**BlacklistRows.** A request keeps to what it was asked (`Within`), and a row id it has deleted never gets another pair; so a
commit leaves other pairs alone (`CommitListing`). For a request that nobody overlaps, the table is still the one it began
with, and `Dealt` says that each pair it is done with is there or to be inserted, or has all its rows deleted: `AloneCommit`.
`FewCopies` needs the requests that are about to insert: rows and inserters of a pair together are no more than the requests
(`Bounded`), because one becomes an inserter only when there is no row, and a commit turns an inserter into a row.

**Startup.** The tables come all at once, with the commit of the migration, and cannot be dropped from under the view; the loop
begins with the view (`IInv`).

**PostRecord.** A worker past validation, a stored row and a refusal each tell what the verdict is (`PassedInv`, `StoredInv`,
`RefusedInv`), and the request is the same in every attempt. `StoredComplete` then needs a lemma about `Verdict`: if the
first failing check does not exist, every check passes (`FirstOf`, `EachCheck`), and so each required header is good
(`PassedIsComplete`). For the types, rows and workers at work are of attempts of their own (`CountInv`).

For `NothingLost`, each check lets a report without defects through (`FaultlessPasses`), so that an attempt leaves `Working`
only as a row or by a failure, and attempts are no more than rows, workers at it and failures together (`SpentInv`).

**RecordPages.** A page is described by what it has: it is in descending order, has rows of the query only and leaves out older
rows only (`LimitCovers`). An answer on its way comes after the row it was asked with and, as long as the streaming switch has
not interfered, covers what was there all along below that row (`AnswersInv`); the table still ends with that row when the
answer is appended, because only one click is under way then (`OneMore`). With these two `NewestFirst`, `NothingSkipped` and
`ShowsFilter` are inductive (`IInv`); `ExportComplete` follows from what the two queries read. `OneAnswer` says that the set
`Limit` hides no choice and blocks no request: a page exists, one greatest row after the other (`PageExists`), and two pages of
the same rows have the same elements (`PageWithin`) in the same order (`SameOrder`).

**GuiltyTables.** The code adds counts up; the model counts `Units`, the pairs of an index and a number up to its value, so
that a sum is the cardinality of a finite set and adding a row is a disjoint union (`SumRaised`, `SumExtended`, `SumPermuted`).
`TotalsInv` says that the totals together are the rows read so far and each total is that of its cells; `CellsInv`, that each cell
comes from a row read so far and no entry has a build twice, which it has from the GROUP BY of the query. For `ColumnsAligned`,
the loop over the builds leaves a row the builds of the header, each once (`ZerosDefined`, `ZerosFill`), sorting permutes
(`SortedByPermutes`), and two sequences of the same elements in the order of their numbers are equal (`SameOrder`). This needs
different builds to have different numbers (`Distinct`), which is where the code fails (`GuiltyTablesPadded.cfg`).

What holds along a sequence or a loop is shown from a least counterexample (`Least`, `FirstExists`, from the
well-foundedness of `<`), since the library's induction theorems, which take the claim as a parameter, are out of the
prover's reach: take the smallest number where the claim fails and look at the one below.

**Only model-checked:** the liveness properties, which with fairness and `ENABLED` are out of the prover's reach: `Terminates`,
`EveryCrashAttributed`, `AppliedAboveMark`, `GoodIsStored`, `OverdueGoes`, `MigrationApplied`, `LoopStarts`. What is
proved beside some of them says that only time can break them: `RunsOut` for `Terminates`, `NoneLeftBehind` for
`EveryCrashAttributed`, `NothingLost` for `GoodIsStored`, `DeletesAllOverdue` for `OverdueGoes`.

## Abstractions

- **Data.** A frame is a pair; how `FRAME_PATTERN` and `FUNC_PATTERN` cut a line is left out. A report has three attributes:
  crash class, system and lines. A guilty row is its frame (the pair is unique and rows are never deleted). A header's
  value is good, bad, missing, or good for its validator and not for what comes later (odd, huge). A kind of record stands for its classification and severity.
- **Atomicity.** `InsertGuilty` joins the CPU work of `find_guilty` with the INSERT that follows and `CHECK_GUILTY`: the guilty row
  does not change in between. `GuiltyAdmin!Edit` makes an edit at once; `BlacklistRows` shows it statement by
  statement and `AloneTakesEffect` is what justifies the step when requests do not overlap. Overlapping ones make the
  set of another request's pairs differ, which is a different edit; the pipeline's properties hold for any. The
  DELETEs of an open transaction take effect at its commit. In `GuiltyCache` an update is its commit.
- **Purge.** `Collector` deletes any set of rows at any time; `Retention` says which and when. `Retention` counts in days. No
  column that an entry can name is NULL in a row the collector has stored, so that `!=` selects all that `=` does not.
- **Time in the cache.** A tick is any unit that divides the 600 seconds of an entry and the 60 of a request; what counts are the
  two sums in `ShownInTime`. An outage of Redis loses the entry or keeps it, and the entry ages meanwhile.
- **Processing.** One loop, as deployed. A batch that fails because of its data is outside `MaxFails`: it fails every time.
- **Records pages.** One browser; one reload under way at a time (they are five seconds apart). A condition of a filter is the
  set of records it means; regular expressions, dates and column types are left out.
- **Start-up.** A lost connection ends a session at once; the code notices at the next statement. A table of the schema is its
  name.
- **Query API.** One parameter at a time: the checks do not depend on each other.
- **Not modelled.** The statistics, thermal and MCE pages and the queries behind them (read-only, one statement per page, with
  nothing that interleaves but the cache, which `GuiltyCache` covers); `demangle_backtrace`, which rewrites text for display;
  record details (one SELECT); the HEAD handler and the inline CSV, which no page uses; `guilty_add` and
  `GuiltyBlacklist.add`, which fail before they do anything or have no caller; the texts and widgets of `forms.py`; templates and
  scripts other than `records.html`, among them the Load more of `crashes.html`, which appends the whole list again because the
  view ignores the offset; nginx, uwsgi and Dockerfiles, from which the models take the number of workers, the one loop, Redis
  on another host than `localhost`, the missing spooler and the time a request may take.

## Plan

Done, in this order: the frames and `find_guilty`; database, collector, processing loop and blacklist pages, and their
composition; `Grouping` and the refinement; the cache, the purge, the POST handler, the rows of the blacklist, the
tables and the records pages on their own; the proofs about the pipeline, `find_guilty`, the cache, the purge and the POST
handler; then `parse_backtrace` and the form it fills, guilties that are rejected, filters and the CSV, the
start-up, the GET handler; the proofs about the form, the blacklist's rows and the start-up; and those about the records
pages and the tables, with which no safety property of a run is only model-checked.

What is left:
1. `BlacklistRows` under the pipeline: `GuiltyAdmin!Edit` in steps, the set of pairs as a refinement of the rows where requests
   do not overlap. `TakesEffect` is the lemma it would rest on.
2. The query behind the crashes pages (`get_top_crash_guilties` with hidden guilties and builds) as a definition over
   `Database`, to join `GuiltyTables` to the pipeline.
3. Proofs: a refinement of the retention policy by `Retention`, with the policy as a module of its own; bounds on the number of
   steps for the purge and the batch, as `RunsOut` has for `find_guilty`.

## How to run

In this directory, with `tlc`, `tlasany` and `tlapm` on the path:

    tlc -workers 2 -config Attribution.cfg MCCrashPipeline
    tlapm CrashPipeline_proofs.tla

`PROJECT.json` lists the runs with module, configuration and expected outcome, the mutated definitions each property
must tell from the real ones, and for every definition the lines of the source it stands for.
