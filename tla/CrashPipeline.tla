--------------------------- MODULE CrashPipeline ---------------------------
(***************************************************************************)
(* The crash pipeline: collector workers, purge, processing loop and       *)
(* blacklist pages over one database.  Every disjunct of Next is an action *)
(* of a component; the history variables only record what the properties   *)
(* speak about.                                                            *)
(***************************************************************************)
EXTENDS Collector, Processor, GuiltyAdmin

CONSTANTS
    MaxEdits,   \* bound: blacklist edits
    MaxFails    \* bound: batches that fail by chance

ASSUME BoundAssumption == MaxEdits \in Nat /\ MaxFails \in Nat

VARIABLES
    history,     \* the blacklists so far; the last one is in the table
    bl_version,  \* position in history of the blacklist the batch loaded
    version,     \* version[id]: bl_version of the attribution, 0 if none
    overtaken,   \* rows still uncommitted when a batch fetched a later one
    pledge,      \* pledge[a]: the position in history a request is about
    promised,    \* latest pledge of a committed reset of all records
    applied,     \* applied[id]: latest pledge of an Apply to id that was
                 \* committed while no batch was running
    straddling,  \* the batch began before the latest reset of all records
    raced,       \* that reset was lost: see ResetHonoured
    fails        \* batches that have failed by chance

ghosts == <<history, bl_version, version, overtaken, pledge, promised,
            applied, straddling, raced, fails>>
vars   == <<db, collector, processor, admin, ghosts>>

GhostTypeOK ==
    /\ history \in Seq(SUBSET Frame) /\ history # <<>>
    /\ bl_version \in Nat
    /\ version \in [Id -> Nat]
    /\ overtaken \subseteq Id
    /\ pledge \in [Admin -> Nat]
    /\ promised \in Nat
    /\ applied \in [Id -> Nat]
    /\ straddling \in BOOLEAN
    /\ raced \in BOOLEAN
    /\ fails \in Nat

TypeOK ==
    DatabaseTypeOK /\ CollectorTypeOK /\ ProcessorTypeOK /\ AdminTypeOK /\ GhostTypeOK

Init ==
    /\ DatabaseInit /\ CollectorInit /\ ProcessorInit /\ AdminInit
    /\ history = <<{}>>
    /\ bl_version = 0
    /\ version = [id \in Id |-> 0]
    /\ overtaken = {}
    /\ pledge = [a \in Admin |-> 0]
    /\ promised = 0
    /\ applied = [id \in Id |-> 0]
    /\ straddling = FALSE
    /\ raced = FALSE
    /\ fails = 0

-----------------------------------------------------------------------------
(* Steps of the collector and of its purge.                                *)
CollectorStep ==
    /\ CollectorNext
    /\ UNCHANGED <<processor, admin, ghosts>>

(* Steps of the processing loop.                                           *)
BeginBatch ==
    /\ LoadBlacklist
    /\ bl_version' = Len(history)
    /\ UNCHANGED <<collector, admin, history, version, overtaken, pledge,
                   promised, applied, straddling, raced, fails>>

ReadCheckpoint ==
    /\ GetLatestId
    /\ UNCHANGED <<collector, admin, ghosts>>

(* A row that is fetched is no longer overtaken; a row that is not yet     *)
(* committed is, when a later one is fetched.                              *)
Fetch ==
    /\ GetCrashes
    /\ overtaken' = (overtaken \ todo') \cup
                        {id \in Pending : \E later \in todo' : id < later}
    /\ straddling' = (straddling /\ todo' # {})
    /\ UNCHANGED <<collector, admin, history, bl_version, version, pledge,
                   promised, applied, raced, fails>>

ChooseGuilty ==
    /\ InsertGuilty
    /\ UNCHANGED <<collector, admin, ghosts>>

Attribute ==
    /\ UpdateGuilty
    /\ version' = [version EXCEPT ![rid] = IF status[rid] = "live"
                                           THEN bl_version ELSE @]
    /\ UNCHANGED <<collector, admin, history, bl_version, overtaken, pledge,
                   promised, applied, straddling, raced, fails>>

Mark ==
    /\ UpdateProcessed
    /\ raced' = (raced \/ (straddling /\ rid \in Live))
    /\ straddling' = FALSE
    /\ UNCHANGED <<collector, admin, history, bl_version, version, overtaken,
                   pledge, promised, applied, fails>>

(* By chance, or because of the row at hand.                               *)
FailBatch ==
    /\ Fail
    /\ \/ fails < MaxFails /\ fails' = fails + 1
       \/ Rejects /\ UNCHANGED fails
    /\ straddling' = FALSE
    /\ UNCHANGED <<collector, admin, history, bl_version, version, overtaken,
                   pledge, promised, applied, raced>>

ProcessorStep ==
    \/ BeginBatch \/ ReadCheckpoint \/ Fetch \/ ChooseGuilty \/ Attribute \/ Mark

(* Steps of the blacklist pages.                                           *)
Pledge(a) ==
    /\ Len(history) <= MaxEdits
    /\ history' = Append(history, guilty_blacklisted')
    /\ pledge' = [pledge EXCEPT ![a] = Len(history')]

EditBlacklist(a) ==
    /\ \E id \in Id : \E checked \in SUBSET Frame :
           Apply(a, id, checked) \/ Submit(a, id, checked)
    /\ Pledge(a)
    /\ UNCHANGED <<collector, processor, bl_version, version, overtaken,
                   promised, applied, straddling, raced, fails>>

RequestReset(a) ==
    /\ Reset(a)
    /\ pledge' = [pledge EXCEPT ![a] = Len(history)]
    /\ UNCHANGED <<collector, processor, history, bl_version, version,
                   overtaken, promised, applied, straddling, raced, fails>>

RemovePair ==
    /\ \E pair \in Frame : Remove(pair)
    /\ Len(history) <= MaxEdits
    /\ history' = Append(history, guilty_blacklisted')
    /\ UNCHANGED <<collector, processor, bl_version, version, overtaken,
                   pledge, promised, applied, straddling, raced, fails>>

Forget(a) == pledge' = [pledge EXCEPT ![a] = 0]

ReadRecords(a) ==
    /\ ResetRead(a)
    /\ UNCHANGED <<collector, processor, ghosts>>

CommitOne(a) ==
    /\ ResetCommit(a)
    /\ scope[a] # 0
    /\ applied' = [applied EXCEPT ![scope[a]] = IF stage = "sleep"
                                                THEN pledge[a] ELSE @]
    /\ Forget(a)
    /\ UNCHANGED <<collector, processor, history, bl_version, version,
                   overtaken, promised, straddling, raced, fails>>

(* From here on every record should be attributed under pledge[a].  Marks  *)
(* that are left, or set by a batch already running, stand in the way.     *)
CommitAll(a) ==
    /\ ResetCommit(a)
    /\ scope[a] = 0
    /\ promised' = IF pledge[a] > promised THEN pledge[a] ELSE promised
    /\ straddling' = (stage # "sleep")
    /\ raced' = (\E id \in Live : processed'[id])
    /\ Forget(a)
    /\ UNCHANGED <<collector, processor, history, bl_version, version,
                   overtaken, applied, fails>>

AbortRequest(a) ==
    /\ Abort(a)
    /\ Forget(a)
    /\ UNCHANGED <<collector, processor, history, bl_version, version,
                   overtaken, promised, applied, straddling, raced, fails>>

AdminStep ==
    \/ \E a \in Admin : \/ EditBlacklist(a) \/ RequestReset(a) \/ ReadRecords(a)
                        \/ CommitOne(a) \/ CommitAll(a) \/ AbortRequest(a)
    \/ RemovePair

Next == CollectorStep \/ ProcessorStep \/ FailBatch \/ AdminStep

Spec == Init /\ [][Next]_vars

(* run.sh starts a batch every two minutes and the batch runs by itself:   *)
(* the loop keeps taking steps, and a statement that raises ends the batch.*)
(* That holds while the service runs: whoever stops it starts it again.    *)
(* Nothing else has to happen.                                             *)
FairSpec == Spec /\ WF_vars(ProcessorStep \/ (Rejects /\ FailBatch))

-----------------------------------------------------------------------------
(* A crash record that waits for its guilty.                               *)
Waiting(id) ==
    /\ id \in Live /\ IsCrash(id) /\ HasFrames(id)
    /\ guilty_id[id] = NoGuilty

BelowMark(id) == \E m \in Marked : id <= m

(* No batch, failure, purge or reset lets the checkpoint pass a crash      *)
(* record that has not been attributed, except one whose insert was still  *)
(* uncommitted when the batch that passed it was fetched.                  *)
NoGap == \A id \in Id : (Waiting(id) /\ BelowMark(id)) => id \in overtaken

(* A reset of all records (Submit, Reset) is honoured: everything below    *)
(* the checkpoint has been attributed under the blacklist of the reset or  *)
(* a later one, unless a mark outlived the reset or a batch that was       *)
(* already running set its mark after it.                                  *)
ResetHonoured ==
    ~raced =>
        \A id \in Live :
            (IsCrash(id) /\ HasFrames(id) /\ BelowMark(id)) =>
                version[id] >= promised \/ id \in overtaken

(* What the pipeline promises about the guilty of a record, without the     *)
(* statements that bring it about: see Grouping.                           *)
Groups == INSTANCE Grouping WITH
    known      <- [id \in Id |-> IF status[id] = "live" THEN report[id] ELSE NoReport],
    group      <- guilty_id,
    since      <- version,
    blacklists <- history

(* The pipeline implements it: a record's guilty only ever changes to the  *)
(* answer of find_guilty under one blacklist that was in force, and never  *)
(* back to an older one, whatever the batches, resets, purges and failures *)
(* in between.                                                             *)
ImplementsGrouping == Groups!Spec

(* An earlier record, or the record itself, whose guilty the table cannot  *)
(* take: every batch fails there.                                          *)
Blocked(id) ==
    \E p \in Live : p <= id /\ IsCrash(p) /\ Unfit(p, guilty_blacklisted)

(* Once committed, a crash record that has not been overtaken is           *)
(* attributed, or purged first, unless it is blocked: and once what        *)
(* blocked it is purged, the loop goes on with it.                         *)
EveryCrashAttributed ==
    \A id \in Id :
        (Waiting(id) /\ id \notin overtaken) ~>
            (guilty_id[id] # NoGuilty \/ status[id] = "gone" \/ Blocked(id))

(* Apply reprocesses its record if no mark is left above it and no batch   *)
(* is running (otherwise see ApplyReprocesses): whatever requests follow,  *)
(* it gets a guilty under the blacklist of the Apply or a later one.       *)
AppliedAboveMark ==
    \A v \in 1..(MaxEdits + 1) : \A id \in Id :
        (/\ applied[id] = v /\ IsCrash(id) /\ HasFrames(id)
         /\ stage = "sleep" /\ ~BelowMark(id)) ~>
            (version[id] >= v \/ status[id] = "gone" \/ Blocked(id))

-----------------------------------------------------------------------------
(* What the documents say and the code does not do; see the README.        *)

(* "The crash reports are grouped by guilties" (README.md:117-118): the    *)
(* checkpoint never passes a record without its guilty.                    *)
AllGrouped == \A id \in Id : ~(Waiting(id) /\ BelowMark(id))

(* "Guilties will be recalculated in the background for all crash records" *)
(* (views.py:263): a reset of all records leaves nothing marked.           *)
ResetClearsMarks ==
    [][\A a \in Admin : CommitAll(a) => \A id \in Live : ~processed'[id]]_vars

(* "click Apply to update the blacklist, reprocess, and display the new     *)
(* result" (guilty_edit_one.html:37).                                      *)
ApplyReprocesses ==
    \A v \in 1..(MaxEdits + 1) : \A id \in Id :
        (applied[id] = v /\ IsCrash(id) /\ HasFrames(id)) ~>
            (version[id] >= v \/ status[id] = "gone")

(* "click Submit to reprocess all crash records in the database"           *)
(* (guilty_edit_one.html:38).                                              *)
SubmitReprocesses ==
    \A v \in 1..(MaxEdits + 1) : \A id \in Id :
        (promised = v /\ id \in Live /\ IsCrash(id) /\ HasFrames(id)) ~>
            (version[id] >= v \/ status[id] = "gone")
=============================================================================
