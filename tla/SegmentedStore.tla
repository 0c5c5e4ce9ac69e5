---------------------------- MODULE SegmentedStore ----------------------------
(***************************************************************************)
(* The plugin's durable page store (plugin/src/segmented-store.ts), under  *)
(* the sync base, the change journal, the root intents, the transfer plan  *)
(* and the object confirmations.                                           *)
(*                                                                         *)
(* A head names a snapshot (its pages) and a contiguous range of write-    *)
(* ahead-log segments.  A publication writes its pages, then the head as   *)
(* head.json.next, then rotates head.json to head.json.bak and the stage   *)
(* to head.json.  The adapter can fail or the process can die at every     *)
(* file operation; a failed or interrupted write may leave a torn file.    *)
(* Power loss is outside the store's claims and outside the model.         *)
(*                                                                         *)
(* A row is a number: rows are numbered as they are handed to the store,   *)
(* and the content of the store is the sequence of the rows it holds.  The *)
(* random epoch is the same in every file of a store, since only one       *)
(* initialization can ever succeed, and is left out.                       *)
(***************************************************************************)
EXTENDS Integers, Sequences, FiniteSets, SequencesExt, TLC

CONSTANTS
    SourceRows,     \* rows of the first snapshot
    MaxRows,        \* bound: rows handed to the store
    MaxGeneration,  \* bound: publications
    MaxFaults,      \* bound: failed file operations and crashes
    BatchRows,      \* bound: rows of one commit
    PageRows,       \* STORE_LIMITS.rowsPerPage
    ReplaySegments, \* STORE_LIMITS.replaySegments
    MaxJobs         \* maxPendingCleanupJobs

StoreAssumption ==
    /\ {SourceRows, MaxRows, MaxGeneration, MaxFaults} \subseteq Nat
    /\ {BatchRows, PageRows, ReplaySegments, MaxJobs} \subseteq Nat \ {0}

VARIABLES
    main, bak, stage,   \* head.json, head.json.bak, head.json.next
    pages,              \* the page and segment files, by key
    dir,                \* the store's directory exists
    intent, fence,      \* the migration markers: "none", "torn" or "whole"
    head,               \* this.head
    writable, absent,   \* this.writable, this.absent
    migrating,          \* this.migration is set
    advanced,           \* this.migrationAdvanced
    jobs,               \* this.cleanupJobs
    op,                 \* the operation that owns the writer chain
    born,               \* history: the first publication was acknowledged
    acked,              \* history: the rows the caller knows to be stored
    maybe,              \* history: acked, or the rows an unacknowledged operation asked for
    rows,               \* history: rows handed to the store so far
    faults              \* history: failures so far

files == <<main, bak, stage, pages, dir, intent, fence>>
memory == <<head, writable, absent, migrating, advanced, jobs, op>>
history == <<born, acked, maybe, rows, faults>>
vars == <<files, memory, history>>

-----------------------------------------------------------------------------
(* Heads and pages.                                                        *)

StoreHead(gen, seq, snap, count, cut, from, to) ==
    [gen |-> gen, seq |-> seq, snap |-> snap, pages |-> count, cut |-> cut,
     from |-> from, to |-> to]

NoHead == StoreHead(0, 0, 0, 0, 0, 0, 0)
TornHead == StoreHead(-1, 0, 0, 0, 0, 0, 0)

\* validateHead: an absent or torn head is not one.
ValidHead(h) ==
    /\ h.gen >= 1
    /\ h.snap \in 1 .. h.gen
    /\ h.cut <= h.seq
    /\ h.from <= h.to + 1
    /\ h.to - h.from + 1 <= ReplaySegments
    /\ h.from = h.to + 1 => h.seq = h.cut

Page(through, content) == [whole |-> TRUE, through |-> through, rows |-> content]
TornPage == [whole |-> FALSE, through |-> 0, rows |-> <<>>]

PageKey(snap, part) == <<"page", snap, part>>
WalKey(id) == <<"wal", id, 0>>

\* batches: consecutive rows, at most PageRows to a page.
Batches(content) ==
    [i \in 1 .. (Len(content) + PageRows - 1) \div PageRows |->
        SubSeq(content, (i - 1) * PageRows + 1,
               IF i * PageRows < Len(content) THEN i * PageRows ELSE Len(content))]

Readable(key) == key \in DOMAIN pages /\ pages[key].whole

SnapshotKeys(h) == [i \in 1 .. h.pages |-> PageKey(h.snap, i - 1)]
WalKeys(h) == [i \in 1 .. h.to - h.from + 1 |-> WalKey(h.from + i - 1)]

RowsAt(keys) == FlattenSeq([i \in DOMAIN keys |-> pages[keys[i]].rows])

\* The rows a load of head h hands to its caller.
RowsOf(h) == RowsAt(SnapshotKeys(h)) \o RowsAt(WalKeys(h))

\* load, readPage: every page is there, intact, of this cut and in sequence.
Closed(h) ==
    LET snapshot == SnapshotKeys(h)
        wal == WalKeys(h)
        Before(i) == IF i = 1 THEN h.cut ELSE pages[wal[i - 1]].through
    IN  /\ \A i \in DOMAIN snapshot :
              Readable(snapshot[i]) /\ pages[snapshot[i]].through = h.cut
        /\ \A i \in DOMAIN wal : Readable(wal[i])
        /\ \A i \in DOMAIN wal :
              pages[wal[i]].through = Before(i) + Len(pages[wal[i]].rows)
        /\ h.seq = Before(Len(wal) + 1)

Copies == {h \in {main, stage, bak} : ValidHead(h)}
Selected == CHOOSE h \in Copies : \A c \in Copies : c.gen <= h.gen

MarkersWhole == intent # "torn" /\ fence # "torn"

\* load: what it requires before it hands out a store.
Loadable ==
    /\ MarkersWhole
    /\ fence = "whole" => intent = "whole"
    /\ TornHead \notin {main, bak}
    /\ Copies # {}
    /\ \A c \in Copies : c.gen = Selected.gen => c = Selected
    /\ intent = "whole" /\ fence = "none" =>
          Selected.gen = 1 /\ Selected.seq = 0 /\ Selected.snap = 1
    /\ Closed(Selected)

-----------------------------------------------------------------------------
NoOp == [kind |-> "none", step |-> "none", todo |-> <<>>, target |-> NoHead,
         old |-> NoHead, over |-> FALSE]

Init ==
    /\ main = NoHead /\ bak = NoHead /\ stage = NoHead
    /\ pages = <<>>
    /\ dir = FALSE
    /\ intent = "none" /\ fence = "none"
    /\ head = NoHead
    /\ writable = FALSE /\ absent = FALSE
    /\ migrating = FALSE /\ advanced = FALSE
    /\ jobs = <<>>
    /\ op = NoOp
    /\ born = FALSE
    /\ acked = <<>> /\ maybe = <<>>
    /\ rows = 0
    /\ faults = 0

\* What readMigrationState leaves in memory at the start of a load.
ReadMarkers ==
    /\ migrating' = (intent = "whole")
    /\ advanced' = (fence = "whole")

\* load of a store that was never created.
LoadAbsent ==
    /\ op = NoOp
    /\ Copies = {} /\ stage = NoHead /\ ~dir /\ intent = "none" /\ fence = "none"
    /\ absent' = TRUE
    /\ writable' = FALSE
    /\ head' = NoHead
    /\ ReadMarkers
    /\ UNCHANGED <<files, jobs, op, history>>

\* load that finds evidence it may not reinterpret: it leaves every file alone.
LoadRefused ==
    /\ op = NoOp
    /\ ~Loadable
    /\ Copies # {} \/ stage # NoHead \/ dir \/ intent # "none" \/ fence # "none"
    /\ absent' = FALSE
    /\ writable' = FALSE
    /\ IF MarkersWhole THEN ReadMarkers ELSE UNCHANGED <<migrating, advanced>>
    /\ UNCHANGED <<files, head, jobs, op, history>>

\* load: validates the closure of the newest head and, when that head is not
\* head.json already, publishes it there before the store becomes writable.
Load ==
    /\ op = NoOp
    /\ Loadable
    /\ ReadMarkers
    /\ absent' = FALSE
    /\ IF main = Selected
       THEN /\ head' = Selected
            /\ writable' = TRUE
            /\ acked' = RowsOf(Selected) /\ maybe' = acked'
            /\ born' = TRUE
            /\ UNCHANGED op
       ELSE /\ writable' = FALSE
            /\ op' = [NoOp EXCEPT !.kind = "load", !.step = "stage", !.target = Selected]
            /\ UNCHANGED <<head, acked, maybe, born>>
    /\ UNCHANGED <<files, jobs, rows, faults>>

-----------------------------------------------------------------------------
(* Operations.  Each takes the writer chain; its file operations follow.   *)

\* The pages of a snapshot of these rows, to be written in order.
SnapshotPages(snap, cut, content) ==
    LET batch == Batches(content)
    IN  [i \in DOMAIN batch |-> <<PageKey(snap, i - 1), Page(cut, batch[i])>>]

SourceContent == [i \in 1 .. SourceRows |-> i]

FirstHead == StoreHead(1, 0, 1, Len(Batches(SourceContent)), 0, 1, 0)

Initialization(kind, step) ==
    [NoOp EXCEPT !.kind = kind, !.step = step, !.target = FirstHead,
                 !.todo = SnapshotPages(1, 0, SourceContent)]

\* initialize, initializeMigration: only after a load found nothing.  The
\* migration writes its intent before it creates the directory.
Initialize(kind) ==
    /\ op = NoOp
    /\ absent /\ head = NoHead
    /\ intent = "none" /\ ~dir
    /\ op' = Initialization(kind, IF kind = "migrate" THEN "intent" ELSE "mkdir")
    /\ maybe' = SourceContent
    /\ rows' = SourceRows
    /\ absent' = (kind = "initialize")
    /\ writable' = FALSE
    /\ migrating' = (kind = "migrate")
    /\ advanced' = FALSE
    /\ UNCHANGED <<files, head, jobs, born, acked, faults>>

\* retryInitialization: an intent without a fence and without any head.
RetryInitialization ==
    /\ op = NoOp
    /\ intent = "whole" /\ fence = "none"
    /\ Copies = {}
    /\ op' = Initialization("retry", "mkdir")
    /\ absent' = FALSE /\ writable' = FALSE
    /\ migrating' = TRUE /\ advanced' = FALSE
    /\ UNCHANGED <<files, head, jobs, history>>

\* commit: the batch in segments after the last one, as far as the replay
\* limit allows.
Commit(n) ==
    LET content == [i \in 1 .. n |-> rows + i]
        batch == Batches(content)
        room == ReplaySegments - (head.to - head.from + 1)
        count == IF Len(batch) <= room THEN Len(batch) ELSE room
        Through(i) == head.seq + Len(FlattenSeq(SubSeq(batch, 1, i)))
    IN  /\ op = NoOp
        /\ writable
        /\ head.gen < MaxGeneration
        /\ rows + n <= MaxRows
        /\ op' = [NoOp EXCEPT
                    !.kind = "commit", !.step = "fence",
                    !.todo = [i \in 1 .. count |->
                                <<WalKey(head.to + i), Page(Through(i), batch[i])>>],
                    !.target = [head EXCEPT !.gen = @ + 1, !.seq = @ + n,
                                            !.to = @ + Len(batch)],
                    !.over = Len(batch) > room]
        /\ rows' = rows + n
        /\ maybe' = acked \o content
        /\ UNCHANGED <<files, head, writable, absent, migrating, advanced, jobs,
                       born, acked, faults>>

\* snapshot: the caller's whole content under a new snapshot id; the log is
\* empty after it.
Snapshot ==
    /\ op = NoOp
    /\ writable
    /\ head.gen < MaxGeneration
    /\ op' = [NoOp EXCEPT
                !.kind = "snapshot", !.step = "fence",
                !.todo = SnapshotPages(head.gen + 1, head.seq, acked),
                !.target = StoreHead(head.gen + 1, head.seq, head.gen + 1,
                                Len(Batches(acked)), head.seq, head.to + 1, head.to)]
    /\ maybe' = acked
    /\ UNCHANGED <<files, head, writable, absent, migrating, advanced, jobs,
                   born, acked, rows, faults>>

-----------------------------------------------------------------------------
(* The file operations, in the order the running operation makes them.     *)

WriteIntent ==
    /\ op.step = "intent"
    /\ intent' = "whole"
    /\ op' = [op EXCEPT !.step = "mkdir"]
    /\ UNCHANGED <<main, bak, stage, pages, dir, fence, head, writable, absent,
                   migrating, advanced, jobs, history>>

MakeDirectory ==
    /\ op.step = "mkdir"
    /\ dir' = TRUE
    /\ op' = [op EXCEPT !.step = "pages"]
    /\ UNCHANGED <<main, bak, stage, pages, intent, fence, head, writable, absent,
                   migrating, advanced, jobs, history>>

\* ensureAdvanceFence, before the first file of a commit or snapshot.
EnsureAdvanceFence ==
    /\ op.step = "fence"
    /\ IF migrating /\ ~advanced
       THEN fence' = "whole" /\ advanced' = TRUE
       ELSE UNCHANGED <<fence, advanced>>
    /\ op' = [op EXCEPT !.step = "pages"]
    /\ UNCHANGED <<main, bak, stage, pages, dir, intent, head, writable, absent,
                   migrating, jobs, history>>

\* writeSnapshot, writeVerified, writeInitialVerified: the next page.
WritePage ==
    /\ op.step = "pages" /\ op.todo # <<>>
    /\ LET next == op.todo[1] IN pages' = next[1] :> next[2] @@ pages
    /\ op' = [op EXCEPT !.todo = Tail(@)]
    /\ UNCHANGED <<main, bak, stage, dir, intent, fence, head, writable, absent,
                   migrating, advanced, jobs, history>>

\* commit: the batch did not fit before the replay limit.
ReplayLimit ==
    /\ op.step = "pages" /\ op.todo = <<>> /\ op.over
    /\ op' = NoOp
    /\ writable' = FALSE
    /\ UNCHANGED <<files, head, absent, migrating, advanced, jobs, history>>

HeadIsNext ==
    \/ op.step = "stage"
    \/ op.step = "pages" /\ op.todo = <<>> /\ ~op.over

\* Mutant: the head is staged before its pages are written.
BugStageHead ==
    /\ op.step \in {"pages", "stage"}
    /\ stage' = op.target
    /\ op' = [op EXCEPT !.step = "rotate", !.old = bak]
    /\ UNCHANGED <<main, bak, pages, dir, intent, fence, head, writable, absent,
                   migrating, advanced, jobs, history>>

\* publish, load: write head.json.next.  A load that selected the stage does
\* not rewrite it.
StageHead ==
    /\ HeadIsNext
    /\ stage' = op.target
    /\ op' = [op EXCEPT !.step = "rotate", !.old = bak]
    /\ UNCHANGED <<main, bak, pages, dir, intent, fence, head, writable, absent,
                   migrating, advanced, jobs, history>>

\* promote: drop the old backup, if there is a head to replace it.
DropBackup ==
    /\ op.step = "rotate"
    /\ main # NoHead /\ bak # NoHead
    /\ bak' = NoHead
    /\ UNCHANGED <<main, stage, pages, dir, intent, fence, memory, history>>

\* promote: head.json becomes the backup.
BackUpHead ==
    /\ op.step = "rotate"
    /\ main # NoHead /\ bak = NoHead
    /\ bak' = main
    /\ main' = NoHead
    /\ UNCHANGED <<stage, pages, dir, intent, fence, memory, history>>

\* promote: the stage becomes head.json.
PromoteStage ==
    /\ op.step = "rotate"
    /\ main = NoHead
    /\ main' = stage
    /\ stage' = NoHead
    /\ op' = [op EXCEPT !.step = "verify"]
    /\ UNCHANGED <<bak, pages, dir, intent, fence, head, writable, absent,
                   migrating, advanced, jobs, history>>

\* activateCleanupJobs.
Activated(queue) == [i \in DOMAIN queue |-> [queue[i] EXCEPT !.ready = TRUE]]

\* Mutant: only the new head's files are protected.
BugReclaimable(candidate, retained) ==
    LET newest == {h \in retained : h.gen > candidate.gen + 1}
        snapshot == IF \E h \in newest : h.snap = candidate.snap
                    THEN <<>> ELSE SnapshotKeys(candidate)
        wal == SelectSeq(WalKeys(candidate),
                         LAMBDA key : \A h \in newest : key[2] \notin h.from .. h.to)
    IN  snapshot \o wal

\* queueReclaim: the files of the dropped backup that neither recoverable
\* head names.
Reclaimable(candidate, retained) ==
    LET snapshot == IF \E h \in retained : h.snap = candidate.snap
                    THEN <<>> ELSE SnapshotKeys(candidate)
        wal == SelectSeq(WalKeys(candidate),
                         LAMBDA key : \A h \in retained : key[2] \notin h.from .. h.to)
    IN  snapshot \o wal

\* queueReclaim: the job, unless there is nothing to reclaim or no room for it.
Queued(paths) ==
    Activated(jobs) \o
        (IF paths = <<>> \/ Len(jobs) >= MaxJobs THEN <<>>
         ELSE <<[paths |-> paths, at |-> 1, failed |-> FALSE, ready |-> TRUE]>>)

\* publish, load, initialize: the readback of head.json, after which the
\* operation is acknowledged and the dropped backup's files are reclaimed.
Acknowledge ==
    /\ op.step = "verify"
    /\ head' = op.target
    /\ writable' = TRUE
    /\ absent' = FALSE
    /\ jobs' = IF op.kind \in {"commit", "snapshot"} /\ op.old # NoHead /\ bak = head
               THEN Queued(Reclaimable(op.old, {bak, op.target}))
               ELSE jobs
    /\ op' = NoOp
    /\ born' = TRUE
    /\ acked' = IF op.kind = "load" THEN RowsOf(op.target) ELSE maybe
    /\ maybe' = acked'
    /\ UNCHANGED <<files, migrating, advanced, rows, faults>>

-----------------------------------------------------------------------------
(* Cleanup.  Slices join the writer chain one path at a time.              *)

FirstReady == CHOOSE i \in DOMAIN jobs :
                  jobs[i].ready /\ \A j \in 1 .. i - 1 : ~jobs[j].ready

\* finishCleanupPass: a pass with a failure goes to the end of the queue and
\* waits there for the next publication.
AfterSlice(i, job) ==
    IF job.at <= Len(job.paths)
    THEN [jobs EXCEPT ![i] = job]
    ELSE RemoveAt(jobs, i) \o
            (IF job.failed
             THEN <<[job EXCEPT !.at = 1, !.failed = FALSE, !.ready = FALSE]>>
             ELSE <<>>)

\* runCleanupSlice: one path; the removal may fail.
CleanupSlice(works) ==
    /\ op = NoOp
    /\ \E i \in DOMAIN jobs : jobs[i].ready
    /\ LET job == jobs[FirstReady]
           key == job.paths[job.at]
       IN  /\ pages' = IF works THEN [k \in DOMAIN pages \ {key} |-> pages[k]] ELSE pages
           /\ jobs' = AfterSlice(FirstReady,
                          [job EXCEPT !.at = @ + 1, !.failed = @ \/ ~works])
    /\ UNCHANGED <<main, bak, stage, dir, intent, fence, head, writable, absent,
                   migrating, advanced, op, history>>

\* suspendCleanupJob: the maintenance lane refused the turn.
SuspendJob ==
    /\ op = NoOp
    /\ \E i \in DOMAIN jobs : jobs[i].ready
    /\ jobs' = Append(RemoveAt(jobs, FirstReady), [jobs[FirstReady] EXCEPT !.ready = FALSE])
    /\ UNCHANGED <<files, head, writable, absent, migrating, advanced, op, history>>

\* runMaintenance: an explicit pass over every queued job.
RunMaintenance ==
    /\ \E i \in DOMAIN jobs : ~jobs[i].ready
    /\ jobs' = Activated(jobs)
    /\ UNCHANGED <<files, head, writable, absent, migrating, advanced, op, history>>

-----------------------------------------------------------------------------
(* Failures.                                                               *)

\* The write in flight may be torn.  A retry does not rewrite a page that is
\* whole already, and a load does not rewrite the stage it selected.
MayTear ==
    \/ UNCHANGED files
    \/ /\ op.step = "intent" /\ intent' = "torn"
       /\ UNCHANGED <<main, bak, stage, pages, dir, fence>>
    \/ /\ op.step = "fence" /\ migrating /\ ~advanced /\ fence' = "torn"
       /\ UNCHANGED <<main, bak, stage, pages, dir, intent>>
    \/ /\ op.step = "pages" /\ op.todo # <<>>
       /\ ~(op.kind = "retry" /\ Readable(op.todo[1][1]))
       /\ pages' = op.todo[1][1] :> TornPage @@ pages
       /\ UNCHANGED <<main, bak, stage, dir, intent, fence>>
    \/ /\ HeadIsNext
       /\ stage # op.target
       /\ stage' = TornHead
       /\ UNCHANGED <<main, bak, pages, dir, intent, fence>>

\* The catch blocks: no further write before a validated reload.
Poison ==
    /\ writable' = FALSE
    /\ absent' = FALSE

\* A file operation is rejected and the operation throws.
Fail ==
    /\ faults < MaxFaults
    /\ faults' = faults + 1
    /\ op # NoOp
    /\ MayTear
    /\ op' = NoOp
    /\ Poison
    /\ UNCHANGED <<head, migrating, advanced, jobs, born, acked, maybe, rows>>

\* The plugin is reloaded or the process dies.
Crash ==
    /\ faults < MaxFaults
    /\ faults' = faults + 1
    /\ MayTear
    /\ op' = NoOp
    /\ writable' = FALSE /\ absent' = FALSE
    /\ head' = NoHead
    /\ migrating' = FALSE /\ advanced' = FALSE
    /\ jobs' = <<>>
    /\ UNCHANGED <<born, acked, maybe, rows>>

-----------------------------------------------------------------------------
Step ==
    \/ WriteIntent \/ MakeDirectory \/ EnsureAdvanceFence \/ WritePage \/ ReplayLimit
    \/ StageHead \/ DropBackup \/ BackUpHead \/ PromoteStage \/ Acknowledge

Next ==
    \/ LoadAbsent \/ LoadRefused \/ Load
    \/ Initialize("initialize") \/ Initialize("migrate") \/ RetryInitialization
    \/ \E n \in 1 .. BatchRows : Commit(n)
    \/ Snapshot
    \/ Step
    \/ \E works \in BOOLEAN : CleanupSlice(works)
    \/ SuspendJob \/ RunMaintenance
    \/ Fail \/ Crash

Spec == Init /\ [][Next]_vars

-----------------------------------------------------------------------------
\* Shape of the files, of the store object and of the histories.
TypeOK ==
    /\ \A h \in {main, bak, stage, head, op.target, op.old} :
          h.gen \in -1 .. MaxGeneration
    /\ \A key \in DOMAIN pages : pages[key].whole \in BOOLEAN
    /\ {intent, fence} \subseteq {"none", "torn", "whole"}
    /\ {dir, writable, absent, migrating, advanced, born, op.over} \subseteq BOOLEAN
    /\ Len(jobs) <= MaxJobs
    /\ op.kind \in {"none", "load", "initialize", "migrate", "retry", "commit", "snapshot"}
    /\ rows \in 0 .. MaxRows
    /\ faults \in 0 .. MaxFaults

\* Once the first publication was acknowledged, the store can be loaded from
\* whatever the files hold at any moment, and the load gives exactly the rows
\* acknowledged so far or those and the whole batch of the operation that was
\* under way: never part of a batch, never fewer rows.  A torn migration marker
\* is the documented exception: it stops recovery.
AcknowledgedRowsSurvive ==
    born /\ MarkersWhole => Loadable /\ RowsOf(Selected) \in {acked, maybe}

\* Reclaiming never touches a file of a head that recovery could select: the
\* whole closure of head.json, of its backup and of a valid stage is there.
RecoverableHeadsAreClosed == \A h \in Copies : Closed(h)

=============================================================================
