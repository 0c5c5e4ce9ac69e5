# Verification of obsetync

obsetync synchronises Obsidian vaults between devices through a self-hosted
server. This directory holds TLA+ models of its components, the TLC
configurations that check them, and TLAPS proofs about them. `PROJECT.json`
relates every definition to the lines of the source it models and lists the
runs, the mutants that show each property can fail, the findings, the hazards
and the theorems. Source paths below are relative to the repository's root;
`server/` stands for `crates/sync-server/src/`, `core/` for
`crates/sync-core/src/` and `plugin/` for `plugin/src/`.

## 1. The system

A vault is a content-addressed tree. The server keeps, per vault, the selected
root (`current`), a history of roots and the objects they reference. A device
pushes a candidate root that names its parent; the server fast-forwards, merges
or refuses it. Devices pull the difference between their base and the selected
root. The rest exists so that this survives crashes, lost answers, concurrent
devices, small memories and bad networks.

### 1.1 Inventory

| part | state | operations | hard behaviour | module |
|---|---|---|---|---|
| vault head (`server/storage.rs`, `root_head.rs`) | `current` file with one receipt per device, root history, temporary file | commit, cancel, legacy commit, rollback, outcome | I/O error, process exit and power loss between any two file operations; replay of an answer | RootHead |
| root handlers (`server/api.rs`, `root_outcome.rs`, `admin.rs`) | vault lock, handlers parked at awaits, deletion bypass | push (two routes), cancel, rollback, grant of a bypass | a client that disconnects at an await; a root selected although the call reports an error | RootServer |
| three-way merge (`core/merge.rs`, `conflict.rs`) | none | merge of trees, merge of lines | directories compared by hash, edit against delete, insertions beside replacements | TreeMerge |
| deletion guard (`server/guard.rs`) | none | evaluate | stale trees that would delete or rewind files | RootServer |
| pack store (`server/pack_store.rs`) | segments, sidecars, index, loose objects | append, sync, seal, read, scrub, import, open | torn tails, decay, power loss, a reader that unlinks what a writer publishes | PackStore |
| storage writer (`server/storage_writer.rs`) | reservations, channel, lanes, group | admit, schedule, commit, answer | caps per owner and class, starvation, a writer that dies | WriterQueue |
| replay protection (`server/seq_tracker.rs`) | window, durable ceiling | check, reserve, record | two copies of one request waiting; a restart; failed writes | SequenceTracker |
| sealed channel (`plugin/api.ts`, `server/api.rs`, `eph_rotation.rs`) | keys, numbers, calls | seal, send, open, refresh, retry | rotation and restart between seal and open; lost and late requests | SealedChannel |
| devices (`server/devices.rs`, `enrollment.rs`, `ws_ticket.rs`) | registry, codes, files, sessions | enroll, claim, revoke, report, flush, purge, mint, open | a revocation racing a flush, a claim or an open socket; a restart between any two file operations of a purge | DeviceRegistry |
| data lane (`plugin/ws-data.ts`, `server/ws_data.rs`) | pump, ledger, queues of fragments | request, abort, send, reassemble, execute, answer | cancel racing the answer, busy during an upload, seal that finishes late | DataLane |
| transport router (`plugin/transport-router.ts`) | circuit, half-open probe, samples | execute, succeed, fail, tick | calls that finish after the circuit changed | TransportRouter |
| durable publication (`plugin/root-*.ts`) | intent, marker, settlement | prepare, commit, look up, cancel, settle, recover | every crash point; requests that arrive late or twice; server restarts | RootSync, EditDelivery |
| segmented store (`plugin/segmented-store.ts`) | head, stage, backup, pages, log | initialise, commit, snapshot, reclaim, load | torn files, failed renames, reclamation of what a fallback head needs | SegmentedStore |
| journal (`plugin/journal.ts`, `journal-index.ts`) | queue, index, log | append, acknowledge, compact, load | a failed commit that took effect; acknowledgement of half a rename | Journal |
| local changes (`plugin/sync.ts`, `dirty-set.ts`, `pull-echo.ts`) | events, dirty marks, echoes, base | edit, notice, push, pull, scan, recover | an edit taken for a pull's echo; an edit between read and settlement | LocalChanges |
| push (`plugin/push.ts`) | selection, batches, look-ahead, candidate | read, check, upload, cut, publish, settle | edits under a read, memory ceilings, urgent cuts, objects that vanish | Push |
| pull (`plugin/pull.ts`, `server/diff_page.rs`) | cursor, base, markers, passes | diff, rename, delete, download, checkpoint, adopt | edits under a pull, kill at any point, root moved or rolled back | Pull |
| tree formats (`core/tree.rs`, `tree_v2.rs`, `versioned_root.rs`) | none | cut, build, update, load, compare | nodes bounded by count, bytes and anchors; labels in text order; canonical form | TreeEntries, RangeTree, PrefixTree |
| tree mutation (`core/candidate_mutation_v1.rs`, `_v2.rs`) | phase, cursors, overlay | new, step, finish, retire | the host runs between any two units of work; a candidate that was replaced; missing nodes | RangeMutation, PrefixMutation, StableSort |
| replacement trees (`core/replacement_rebuild_v1.rs`, `_v2.rs`, `tree_work_memory.rs`) | phase, worksets, meters | new, admit, step, take, retire | bytes counted by difference over dozens of moves; giving up at any phase | RangeRebuild, PrefixRebuild, WorkMemory |
| candidates in memory (`core/store.rs`, `transactional_tree.rs`, `_v2.rs`) | committed root, candidate, cut, generations | open, replace, commit, abort, sweep | nodes both roots share; counters at their limits | ResidentTree, CandidateTree |
| chunk plan (`core/wasm.rs`) | token, walk, radix sort, pages | start, step, admit, page, cancel, retire, acknowledge | answers lost in the host and asked for again | ChunkPlan |
| export of roots (`core/root_export_v1.rs`, `wasm.rs`) | plan, arena, cursor | start, step, admit, read, retire | padding unknown when the arena is sized; strings at the part size | RootExport |
| tree jobs in the host (`plugin/tree-*-job.ts`, `root-tree-repair.ts`, `root-tree-resident-admission.ts`) | native slot, cleanup owners, resident ledger | push, pull, repair, drain, free | a failure, cancellation or lost turn at every await | TreeJobs |
| history of roots (`server/admin.rs`, `bridge.rs`, `api.rs`, `core/diff.rs`, `diff_page.rs`) | roots, current, fleet | push, migrate format, purge, roll back, read a page | a device that reads pages across formats while the head moves | VaultHistory |

Without a module: the reviewed queue and root batches, the connections of the
data lane, the start and hand-over of engines, the resource governor, the scan
planner, the plugin's legacy downgrade, prepared manifests, hash workers, the
live channel, rendering, telemetry, codecs, chunking. Section 6 says why.

### 1.2 How the parts interact

A vault event becomes a journal record and a dirty mark (LocalChanges, Journal
over SegmentedStore). A push reads and uploads what is dirty (Push), over the
data lane or HTTP (TransportRouter, DataLane, SealedChannel), into the storage
writer and the pack store (WriterQueue, PackStore). It then publishes the
candidate root with a durable intent (RootSync); the server serialises
publications per vault, merges and guards (RootServer, TreeMerge) and replaces the head (RootHead). Other devices pull the difference
(Pull), as pages of the history of roots (VaultHistory). The tree itself lives in
the WASM core: a push or a pull opens a candidate (TreeJobs drives, ResidentTree
holds), updates it (RangeMutation, PrefixMutation), uploads the nodes the plan
names (ChunkPlan, CandidateTree) and exports the root (RootExport); a lost tree is
rebuilt from the sync base's rows (RangeRebuild, PrefixRebuild). A module that
rests on another assumes what that module is shown to provide: Journal takes a store commit as atomic or failed with either effect
(SegmentedStore), LocalChanges takes append, acknowledge and an intent's outcome
(Journal, RootSync), RootServer takes a publication that succeeds, fails, or
takes effect and reports an error (RootHead), SealedChannel contains the window
of SequenceTracker. TreeJobs takes every native job as something that runs, fails
or ends, and leaves a graph, a candidate or a retirement behind; what a job
computes is the subject of the core's modules, whose retirements are finite.

## 2. Modules

Every component module has its state as variables, one action per handler or
step, `Next` and `Spec`; the header comment says what is abstracted. A step that
the code can be interrupted in (an await, a file operation, a lock release) is an
action boundary; what runs between two such points is one action.

* **RootHead**: `call` is the one call the vault mutex admits, `call.at` the next
  file operation of `select_head`/`publish` (`store` and `blobSync` for the root
  history, `open`, `write`, `sync`, `rename`, `dirSync` for the head). `survives`
  is the set of contents a power loss may leave in `current`: a rename adds to
  it, the directory sync collapses it. `Fail` is an I/O error or a process exit,
  which keep what the kernel has; `PowerLoss` does not.
* **RootServer**: a `Slot` holds one running handler of `publish_root`; it is
  parked at its awaits (validation, merge, guard scan, bypass claim, the
  publication itself). A root is identified with its tree. `Disconnect` drops a
  handler and its lock at an await; a bypass claim that had started survives as
  `detached`. `Publish(s, FALSE)` is a selection whose answer is an error.
* **TreeMerge**: operators translated function by function (`merge_directory`, the
  two engines of `three_way_merge`, `diff_ops`, `apply_non_overlapping_changes`);
  the guard's `evaluate` is an operator of RootServer. `similar`'s diff is external: any
  set of operations that stay inside the base and do not touch each other.
* **PackStore**: segments as sequences of records with a synced prefix, a sidecar
  per sealed segment, the in-memory index, one writer, several readers, loose
  copies from before the packs. `Rot` damages a record, `FinishRead` hides it.
* **WriterQueue**: `Admit` takes a reservation under the global, class and owner
  caps before the body is validated; `Drain`, `PopFirst`, `Coalesce`,
  `GroupTimeout`, `Commit` are the writer loop.
* **SequenceTracker**: `CheckInMemory`, the wait for a control thread, and
  `CheckAndRecord` with its block reservation; `disks` is what a start may read.
* **SealedChannel**: `pc[r]` is where the envelope of call `r` is, `out[r]` the
  client's view of it, so a call the client gave up on may still be served.
* **DeviceRegistry**: each change of a device writes its files step by step;
  `Start` rebuilds the registry from the files. A purge removes the token index, then
  marker and metadata in either order, then the registry's entry; `told` says what the
  administrator may rely on, `purging` whether an exit fell into a purge.
* **DataLane**: one connected session of the fragmented wire version; the client
  pump, two ordered streams, the server's ledger, reassembly and two send lanes.
* **TransportRouter**: calls in flight, the circuit with its half-open probe, the
  preferred carrier with its hold and its probes. Instants are kept as time left.
* **RootSync** with **EditDelivery**: the coordinator's program counter between
  durable writes, requests that may be served late, twice or never. `Delivery`
  instantiates EditDelivery, whose three actions say what publication promises.
* **SegmentedStore, Journal, LocalChanges**: see 1.2; a row of the store is a
  number, a journal record its id and paths, a version of the one file of
  LocalChanges a number. LocalChanges takes the last steps of a pull apart as
  `finishContentDownload` does: the last question for local work (`CheckPull`), the
  move aside, the registration of the echo, the write; the user edits in between.
* **Push**: one attempt at a time over the steps of `push()`: select, reserve
  memory, prepare a window, check with the server, look ahead, read what is
  missing, upload, cut, settle, update the tree, upload the index, publish.
  `Environment` is the user, the memory ceilings, failing requests and objects
  that become unreadable.
* **Pull**: five passes over every page of the diff (renames, deletions, small
  batch, large files, retries), the checkpoint after each, the adoption of the
  root; the user, the server's root and a renderer kill interleave everywhere.

* **TreeEntries, RangeTree, PrefixTree**: the formats as operators. A path is a
  number in path order with a length; a node is its content, which stands for its
  hash. RangeTree (format 2) cuts entries at anchors, byte and count limits
  (`SegmentEntries`, `RootFromLeaves`), updates the touched leaves (`UpdateTree`)
  and compares two roots; PrefixTree (format 1) has one child per directory and
  labels its leaves in text order.
* **RangeMutation, PrefixMutation**: `m.phase` names the next unit of work, one
  disjunct per phase; new nodes are in `m`'s overlay until `Finish` promotes them.
  `ForeignChange` replaces the candidate between two units, a lossy store lacks a
  node, `Retire` drops one owner.
* **StableSort**: `Sort<T>` with its two index buffers and the final permutation
  cycles, one comparison or swap per step.
* **RangeRebuild, PrefixRebuild** over **WorkMemory**: every row, range, label and
  hash has one owner at a time; the meters are updated by the code's arithmetic
  and compared with the owners by `MetersExact`.
* **ResidentTree**: the chunk store's generations, pins and counters, candidates,
  and the reports `settle` gives the host, with counters at their limits.
* **CandidateTree**: what the same store means for the server: pushes, pulls of
  parts of a root and rebuilds decide which nodes are fresh and get uploaded.
* **ChunkPlan**: the walk, the in-place radix sort between two workspaces, pages,
  tokens and the two-sided retirement; an answer may be lost after it took effect.
* **RootExport**: the plan and the encoder's primitives with the padding the format
  permits; lengths are real (the part size is 65536), contents are not.
* **TreeJobs**: the plugin's drivers between two host turns. `native` is the
  wrapper, `owner` the cleanup debts, `ledger` the bytes admitted, `engine` the
  operation that runs.
* **VaultHistory**: a history of roots of both formats, the administrator's
  actions, and a device that reads a difference page by page.

Modules that compose: RootServer uses TreeMerge; RootSync refines EditDelivery;
SealedChannel contains SequenceTracker; the mutations and rebuilds are checked against the formats'
operators, which share TreeEntries. MCClientStore also holds the instances of
the tree modules. The `MC` modules put several components into one run: `part` picks
the component a behaviour belongs to, and the others stay in one of their initial
states (the variables of most tree modules are 0), so a run is the disjoint union of its components' behaviours. A
component's fairness is its own, restricted to its part.

## 3. Runs

| run | components | what it shows |
|---|---|---|
| `root_authority` | RootHead, RootServer | a receipt that was answered and a root that was selected are durable; no update of another device is reverted; what a device pushed is in the root or was reported to it, and a bypass is spent once (`PushesAccounted`) |
| `server` | SequenceTracker, DeviceRegistry, DataLane, PackStore, TreeMerge | numbers accepted once; a confirmed revocation holds through restarts, failed file operations and failed purges, unless an exit cuts a purge short (finding 6), and a code has one claimer (`CredentialsHold`); the lane's ledger matches its owners and answers are whole (`LaneIsExact`); stored objects are durable and the store opens after anything (`StoreSurvives`); merges keep what either side wrote (`ReplaceMergesExactly`, `MergesKeepChanges`) |
| `progress` (mostly liveness) | WriterQueue, DataLane, TransportRouter, SealedChannel, LocalChanges, TreeJobs | every message is answered, every request settles, the circuit closes on a healthy network; sequence numbers are not reused and handlers run once (`CallsRunOnce`), calls return, the file and its server copy converge; the ledger covers what the native tree holds and an idle wrapper is clean (`ChargeCoversNative`), cleanup owners are drained in the end (`CleanupCompletes`) |
| `client_store` | SegmentedStore, Journal, LocalChanges; RangeMutation, PrefixMutation, RangeRebuild, PrefixRebuild, StableSort, ResidentTree, ChunkPlan, CandidateTree, RootExport, VaultHistory | stores recover (`StoreRecovers`); the journal exposes what is stored and replays what it owes (`JournalIsTrue`); edits are remembered and, if the plugin knew of them when a pull last asked, not overwritten; a resumable update publishes what the one-shot update computes and retires to nothing (`MutationMatchesUpdate`); rebuilt trees are canonical and sorts stable (`RebuildIsCanonical`); meters and plans cover what is held (`ChargesAreExact`); settlements report exact bytes and an abort restores the store (`SettlementExact`); plans name every node once (`PlanIsComplete`); fresh nodes are enough for a server that has the base (`FreshSuffices`); exports are whole and fit (`ExportIsWhole`); pages lead to their target across formats (`PagesReachTarget`) |
| `delivery` (liveness) | RootSync, EditDelivery, Push | every edit takes effect once and is delivered; losing sides of conflicts are kept; pushes drain |
| `transfer` | Push, Pull | no acknowledged edit is lost, entries are consistent and rename groups atomic (`PublishedIsConsistent`); a pull overwrites no user bytes and resumes from a cursor that covers only what was applied |
| `text_merge_insert`, `pack_store_ack`, `lane_seal_gap`, `push_continuation`, `pull_after_rollback`, `purge_cut_short` | | the six findings below |

Each property has a mutant: an operator `BugX` beside the definition `X` it
replaces, a bug one could plausibly write there; TLC finds the property violated
when it is put in place. A property that joins several statements has a mutant for
several of them.

### 3.1 Bounds

Bounds are constants and appear in guards only (`MaxFaults`, `MaxCrashes`,
`MaxEdits`, `MaxRequests`, `MaxDisturbances`, ...).

* `root_authority`: two devices, two roots, two sequences and two faults let a
  fault hit a retry of a call a fault already hit; two slots, two paths and three
  requests let a handler be overtaken at every await. Devices, paths and slots
  are symmetric and the properties do not tell them apart.
* `server`: a window of 3 in blocks of 4 with numbers up to 9 crosses two blocks
  and slides the window out twice, with two concurrent requests; three lines are
  enough for an edit before, at and behind another; a directory of two files for
  both merge engines (directories are merged independently); two packed objects in
  segments of two, with one exit, one power loss, one decayed record and one write
  error, two of them in one behaviour, for every sealing and recovery path; two
  claimers of one code and two handshakes for one ticket.
* `progress`, `delivery`: two or three calls, so that each action can be overtaken by
  another and a fair action can be starved if the code lets it. In `delivery` no
  urgent change cuts a push (`MaxUrgent` 0): slices are part of `transfer`, which
  checks safety, and `Drains` says nothing of them.
* `client_store`: four rows, four generations and two faults: a second fault
  falls into the recovery from the first; four journal requests over two paths
  fill two batches and a compaction; three versions of the file, so that an edit
  follows one that is in flight.
* trees (`client_store`): up to seven entries in leaves of two or three give two
  levels above the leaves and boundaries by count, bytes and anchor; rebuilds go to
  twelve entries, which exceed the depth; all sort inputs of up to six items with
  three keys; five plan nodes in pages of two with two lost answers, and graphs
  that lack a node; two pushes, one partial pull, one rebuild and one root of
  another device for the index; lengths at and around the part size for exports;
  three roots and pages of two records for the history. Updates are drawn from
  lists chosen to reach every phase, and a cancellation falls on every step of a
  few of them.
* tree jobs (`progress`): a ledger that holds a few graphs (`Capacity` 12) and three
  failures, so that the cleanup of a failed cleanup can fail again.
* `transfer`: four paths, one of them large, a chain of two renames and a shared
  content; four roots with a rename, a deletion, an addition and a change; pages
  of two records, so that a cursor separates records of one diff; one edit, one
  kill and one move of the root, at every point.

`CHECK_DEADLOCK FALSE` everywhere: the bounded models stop when their budgets
are used up and nothing is in flight.

### 3.2 Fairness

Weak fairness is given to what the code runs without waiting for the outside: the
storage writer's thread (WriterQueue), the pumps, timers and executors of the
lane, `Tick` (time passes), the coordinator and the server answering a query that
is being waited for (RootSync: the coordinator repeats its query until it is
answered; a commit itself may be lost for ever), one step of a sealed call or of
the server that has its envelope, the push's own steps, the steps of a running tree
operation and the start of the next one (TreeJobs: the sync timer keeps starting
operations, and each begins by draining what earlier ones left). Strong fairness is given
to `StartPush` and `StartPull` of LocalChanges, which compete for the engine: the
timer restarts the loser, so a start that is possible again and again happens.
Faults, losses, aborts, edits and kills are never fair. `CircuitRecovers` and
`Converges` are claimed only once the network or the journal is healthy, as their
definitions say.

Most liveness properties have the form `[]<>P`: a request is over, or an edit is
acknowledged, again and again. Each is equivalent to the leads-to it stands for,
because what is over stays over or the next round has to end as well; TLC checks
this form without a tableau.

## 4. Proofs

TLAPS proves the following for every value of the constants.

**RootAuthorityProofs**, about RootHead, from `RootHeadAssumption` and `MarkerAssumption` (bounds are
naturals, the markers are not heads, receipts or calls):

* `TypeCorrect`, `HeadsAreWhole`: the head is never torn, whatever fails when;
* `AnswersAreDurable`: the receipt a device was told is terminal is in every head
  a power loss can leave, or a later one of that device is;
* `SelectedRootsAreDurable`: the root of every head that may survive is durable
  in the history, or was selected by a rollback;
* `ReceiptsAreCarriedOver`: a step that replaces the head keeps every other
  device's receipt.

None is inductive alone. `HeadInv` adds what a running call knows: until its rename
it holds a head computed from the visible one (`CallReads`), the temporary it is
about to rename is that head and synced (`CallTemp`), after the rename its head is
the visible one (`CallSelected`), and from the encoding on its root is durable
(`CallRoot`). `survives` then only gains such heads.

**SequenceTrackerProofs**, from `TrackerAssumption`:

* `NoReplayAccepted`: no number is accepted twice, across restarts, failed writes
  and two copies waiting at once;
* `AcceptedNumbersStayRefused`: in the memory of the process and of every later;
* `OvertakenRequestsAreServed`: a number is refused only if it was used, fell out
  of the window or lies below what a restart found reserved.

`IInv` adds `BootRefused` and `Fenced`: a start may read a ceiling whose directory
entry was never flushed, so memory may have reserved more than a later start will
find; that is harmless because the process refuses all it found reserved.

**RootAuthorityProofs**, about TreeMerge and RootServer, from `RootServerAssumption` (finite sets of devices and
slots, natural times and bounds, markers that are no entry, tree or request):

* `MergeKeepsBothSides`: for any three trees and either engine, the merge keeps
  every change of either side, mixes it or reports it, and the prefix engine agrees
  with the flattened one on the files the latter keeps (`MergesKeepChanges`);
* `NoUpdateIsLost`: a publication reverts nothing other devices did since its
  parent (`NoLostUpdate`);
* `PushesAreAccounted`: what a device pushed is in the root, mixed or reported, and
  one bypass lets one push through (`PushesAccounted`).

The merge theorem is about operators and needs no invariant. The two action
properties need the root a handler read to be the current one when it publishes:
`HoldsLock`, which is inductive because a handler past its arrival owns the vault
lock. `Stages` says what a parked handler carries: from the guard on, its result is
the pushed tree over its own parent, or the merge of the pushed tree with the root
it read (`Prepared`). `BypassIsSpentOnce` weighs the bypasses granted so far
against those spent, still granted, or taken by a handler that is about to publish,
and is part of the invariant.

**DeliveryProofs**, about RootSync, from `RootSyncAssumption` (the bounds are naturals):

* `NoEditAppliedTwice` (`EditsAppliedOnce`), `ConflictsArePreserved`
  (`ConflictsPreserved`);
* `DeliveryIsImplemented`: the refinement of EditDelivery (`ImplementsDelivery`),
  the initial state and one step per action.

`IInv` says that device and server are level or one operation apart (`Streams`),
that everything on the wire carries a number the device took, and the pending cut
if it is the pending one (`SentIsOwned`: why a late request does no harm), that an
outcome the device heard is the receipt's (`Heard`), and that the pending cut was
never applied by another number (`CutIsFresh`, `Effects`).

**ServerProofs**, about DeviceRegistry, from `DeviceRegistryAssumption` (`NoDevice` is
no device): `CredentialsAlwaysHold` (`CredentialsHold`). A confirmed revocation stays
because its marker is on the disk and every way back into the registry is shut: a
device that is no longer loadable has a code that is spent or too old, and no claim is
running on it (`Closed`, `RevokedStays`, `FilesFollowCodes`). From the begin of a purge
on the files prove nothing; what holds then is that memory keeps the flag as long as
the server runs, also when the purge fails half-way and a flush writes the metadata
again. What an exit inside a purge does is finding 6, and the theorem excludes it. A
code has one claimer because the one who received the credentials found the code
removed (`SpentCodes`).

**SealedChannelProofs**, from `ChannelAssumption` (window, block and the last
number are positive):

* `CallsAlwaysRunOnce` (`CallsRunOnce`): envelopes differ in their numbers, a
  handler runs at most once for a call, and once for a call that returns success;
* `TrackerIsImplemented`: the channel only takes the tracker's steps, so
  `NoReplayAccepted` holds in the composition.

`Numbered` is the allocator's argument: a block is durable before a number of it is
used, and the next block starts above it. `RanOnce` ties the handler's runs to where
the envelope is: a retry follows only an answer that says the handler did not run.

**ServerProofs**, about PackStore, from `PackStoreAssumption` (finitely many objects):
`StoreAlwaysSurvives` (`StoreSurvives`): an object answered Stored stays on the disk
until its record decays, and no start refuses the segments. Two arguments meet in
`IInv`. The first is about records: `Kept(k)` says that a synced record of `k` is
there, decayed or not; no action gives up a synced record, the group is in the file
when the sync runs and `Kept` when the reply does (`GroupKept`). The second is about
frames: a start refuses damage in a sealed segment only, and only the last segment,
while it has no sidecar, is ever torn or short (`Framed`); `WriterOwns` carries this
through the seal, where sync, sidecar and the next segment are separate steps.
`AcksAreDurable`, the same claim for `AlreadyPresent`, is false (section 5).

**DeliveryProofs**, about CandidateTree, from `CandidateTreeAssumption` (every path has
a leaf): `FreshAlwaysSuffices` (`FreshSuffices`): the fresh nodes complete the server's
tree, no sweep takes a node of a live root, and nothing else stays. `Sound` is the
generation argument: what is as old as the cut is the committed graph, so a node the
upload leaves out is one the server has.

**PushProofs**, from `PushAssumption` (the plan hands out disjoint groups of paths, the
batch bounds are positive):

* `NoEditIsLost` (`NoLostEdit`): an edit is published, owed to the server, or its event
  is still to come;
* `PublicationsAreConsistent` (`PublishedIsConsistent`): an entry is one version of its
  file, and a rename group is published whole or not at all.

`PushInv` says that what is prepared or uploaded is the content that was claimed
(`Hashed`), that every claimed file is uploaded, deferred or in some batch however the
batches are split (`Accounted`), and that what a slice leaves to a later root is cut off
between groups (`CutBetweenGroups`), an induction over the places of the list.

**PullProofs**, from `PullAssumption` (paths are positive numbers with a greatest one in
every set of them, roots map paths to versions, the user's contents are not the
server's):

* `KillsLeaveASafePlace` (`ResumesSafely`): the durable cursor covers only records whose
  result is in the durable base, and a device that never synced has its fence before it
  has a file;
* `PullsKeepUserBytes` (`UserBytesSurvive`): no step of a pull, no failure and no kill
  removes bytes the user wrote that exist nowhere else, except in the gap between the
  move aside and the write.

`PullInv` ties the pull under way to its two roots and the base in memory (`Position`),
says that both bases may be resumed from (`Resumable`), that a stamp tells the user's
bytes from everything a base recorded (`Stamped`), and that what was verified to be the
server's has not become the user's unseen (`Verified`).

**LocalChangesProofs** (no assumption; the bounds only restrict the steps):

* `EditsAreRemembered` (`EditsRemembered`): an edit the server does not have is in the
  dirty set, in a callback, in the push under way or in the journal;
* `PullsKeepEdits` (`PullKeepsEdits`): a pull overwrites bytes only if the server or a
  conflict copy has them, or no event had told the plugin of them when it last asked.

`EditInv` follows an edit through its callback (`Hashing`), the hint (`ToldIsQueued`) and
the journal (`JournalHolds`). The delicate part is what an older operation may retire:
a hint or a journal cut of the pending intent does not stand for newer bytes, because
their callback is still to leave a hint of its own (`RetiresOlder`). `OverwritesKnown`
carries the answer to a pull's last question to its write.

A run that checks a proved property EXTENDS the module that defines it, so run and
theorem speak of one definition; this is why the definitions of modules that share
a run have different names (`RegistryInit`, `PackInit`, `HandlersInit`, ...).
`MergesKeepChanges` is an operator of three trees; the run `server` applies it to
every triple of a small directory, the theorem to every triple.

The inductive invariants were first checked by TLC as invariants of the small
instances, then proved.

### 4.1 Only model-checked

* Liveness (`progress`, `delivery`): TLAPS 1.4.5 has no fairness reasoning
  and no ENABLED.
* What folds or recursive functions compute (`ReplaceMergesExactly`: the line
  merge; the cuts, updates, sorts and plans of the trees): induction over data is
  out of the provers' reach.
* What reaches RangeTree or ChunkPlan (`MutationMatchesUpdate`,
  `RebuildIsCanonical`, `ChargesAreExact`, `SettlementExact`, `PlanIsComplete`,
  `PagesReachTarget`): these modules declare RECURSIVE operators, which TLAPS does
  not take.
* `StoreRecovers`, `JournalIsTrue`, `ChargeCoversNative`, `LaneIsExact`,
  `ExportIsWhole`: within reach in principle; their inductive invariants are not
  written.

## 5. Findings

Each is the counterexample of a run that checks what a comment, document or test
of the repository says.

1. `text_merge_insert`: `apply_non_overlapping_changes` advances past a base line
   after an insertion, so inserting a line drops the one it precedes
   (`core/conflict.rs:179`).
2. `pack_store_ack`: records recovered from the page cache after a process exit
   are answered `AlreadyPresent` without a barrier and are lost by a power
   failure (`server/pack_store.rs:195`).
3. `lane_seal_gap`: a sealed frame that is dropped leaves a gap in the AEAD
   sequence, which ends the session (`plugin/ws-data.ts:1484`).
4. `push_continuation`: a cut beside a late deferral returns a path as continued
   and as deferred; the engine throws after the root was published
   (`plugin/push.ts:425`).
5. `pull_after_rollback`: a pull that is interrupted, followed by a rollback to
   the device's base, leaves the files of the abandoned root in place
   (`plugin/pull.ts:575`).
6. `purge_cut_short`: a purge removes a revoked device's marker and metadata one after
   the other; if the server stops when the marker is gone and the metadata is not, the
   next start loads the device without its revocation and it authenticates again
   (`server/devices.rs:616`).

Three more disagreements came up. No run reports them, because the runs check what
does hold beside them:

* `plugin/sync.ts:2604` says of paths with unsynced local work that "Pull must not
  overwrite these". `finishContentDownload` asks for local work once more before it
  writes (`plugin/pull.ts:1916`) and then awaits the existence test, the rename and the
  write; `applyLargeFile` does the same around its last check. An edit made or heard of
  in that interval is overwritten. `PullKeepsEdits` and `UserBytesSurvive` exempt it in
  so many words.

* `plugin/push.ts:2355` uploads the fresh nodes only, because the "Server needs
  these to walk the tree during merge/diff". After a pull that applied only a
  part of a root (a path was held back) the device's tree is one the server never
  had; its nodes are not fresh in the next push, and `publish_root` refuses the
  root for the missing ones. `FreshSuffices` therefore assumes that the server has the
  committed tree.
* `benchmarks/after-1.11.1/README.md:106` says "Every incremental v2 root equals a
  fresh canonical rebuild". An incremental update reloads from the first touched
  leaf on, while the cut before that leaf depended on the record after it, so a
  root can differ from the rebuilt one. `MutationMatchesUpdate` compares the
  resumable update with the one-shot update, `RebuildIsCanonical` the rebuild with
  the canonical build; neither equates the two.

## 6. What is not covered, and the plan

Abstractions that hide behaviour: cryptography is a tag that a key opens; the
lane's fragments have no bytes; a directory sync is atomic; a file name is its
path (no case folding, no renames across vaults); the one file of LocalChanges is
neither deleted nor staged as a large download (Pull has deletions and large files;
the staging files are not modelled); tree nodes are their contents, so hash collisions and the
checks of malformed bytes do not occur; allocation failures of the core are
modelled only where a host limit decides them.

Not modelled:

* the reviewed queue and root batches: Push takes the claimed paths as an arbitrary
  set, so its results do not depend on the queue, and nothing is shown about it;
* connections of the data lane, start and hand-over of engines: races of a late
  callback against a replacement, whose order is Obsidian's and the network's;
* resource governor and work scheduler: their decisions depend on measured times;
  the users' side is in Push and TreeJobs;
* the plugin's legacy downgrade (markers and archives on the device; the server's
  change of format is VaultHistory), the sync base's in-memory index;
* scan planner, prepared manifests, hash workers: caches and slices of pure work
  whose results Push, Pull and LocalChanges take as outcomes;
* live channel, the log of editor updates, presence;
* rendering, telemetry, codecs, chunking and hashing: no protocol state, or a pure
  function of bytes.

The next components worth a model are the reviewed queue composed with Push, and
the legacy downgrade with its crash points.

Still to be proved, in this order: Journal (`JournalIsTrue`), SegmentedStore
(`StoreRecovers`), TreeJobs (`ChargeCoversNative`) and WriterQueue (its reservations
never exceed the caps).
