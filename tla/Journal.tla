-------------------------------- MODULE Journal --------------------------------
(***************************************************************************)
(* The change journal of the plugin (plugin/src/journal.ts and             *)
(* journal-index.ts): which local changes are still to be published.       *)
(*                                                                         *)
(* Callbacks enqueue appends and acknowledgements; one drain takes them in *)
(* bounded batches, computes the next index, commits the batch to the      *)
(* segmented store and only then exposes the index and resolves the        *)
(* promises.  The store is the one SegmentedStore specifies: a commit or a *)
(* snapshot takes effect whole or not at all, and a failed one may have    *)
(* taken effect.                                                           *)
(*                                                                         *)
(* Actions on a path, timestamps and scan hints ride along with a record   *)
(* and decide nothing here, so a record keeps its id and paths only.       *)
(***************************************************************************)
EXTENDS Integers, Sequences, FiniteSets, SequencesExt, FiniteSetsExt

CONSTANTS
    Path,
    NoPath,         \* the old path of a record that is not a rename
    PageRows,       \* STORE_LIMITS.rowsPerPage, the rows of one batch
    CompactAfter,   \* STORE_LIMITS.compactAfterSegments
    MaxRequests,    \* bound: requests enqueued
    MaxFaults       \* bound: failed publications and crashes

-----------------------------------------------------------------------------
(* The index: a set of pending records.                                    *)

Mutation(id, path, old) == [id |-> id, path |-> path, old |-> old]

Touches(m, p) == p \in {m.path, m.old}

Pending(index, p) ==
    \E r \in index : (r.newPending /\ r.path = p) \/ (r.oldPending /\ r.old = p)

Record(m) ==
    [id |-> m.id, path |-> m.path, old |-> m.old,
     newPending |-> TRUE, oldPending |-> m.old # NoPath]

IsNormal(r) == r.old = NoPath

\* append: the latest edit of a path replaces the earlier one; a rename group
\* stays until both of its ends are acknowledged.
AppendTo(index, m) ==
    IF m.old = NoPath
    THEN IF \E r \in index : IsNormal(r) /\ r.path = m.path /\ r.id >= m.id
         THEN index
         ELSE {r \in index : ~(IsNormal(r) /\ r.path = m.path)} \cup {Record(m)}
    ELSE index \cup {Record(m)}

\* Mutant: acknowledging one end of a rename settles the group.
BugAcknowledged(index, p, through) ==
    {r \in index : r.id > through \/ ~Touches(r, p)}

\* walkAcknowledgement: settles the path's edit and its end of every rename
\* group up to the watermark.
Acknowledged(index, p, through) ==
    LET Settle(r) == IF r.id <= through
                     THEN [r EXCEPT !.newPending = @ /\ r.path # p,
                                    !.oldPending = @ /\ r.old # p]
                     ELSE r
    IN  {r \in {Settle(r) : r \in index} : r.newPending \/ r.oldPending}

\* entries: what replay shows of the pending records.
Projection(index) ==
    {IF r.newPending /\ r.oldPending THEN [id |-> r.id, writes |-> {r.path}, deletes |-> {r.old}]
     ELSE IF r.oldPending THEN [id |-> r.id, writes |-> {}, deletes |-> {r.old}]
     ELSE [id |-> r.id, writes |-> {r.path}, deletes |-> {}] : r \in index}

-----------------------------------------------------------------------------
(* Operations: the rows of the store's write-ahead log.                    *)

AppendOp(m) == [op |-> "append", m |-> m, path |-> m.path, through |-> m.id]
AckOp(p, through) == [op |-> "ack", m |-> Mutation(0, p, NoPath), path |-> p, through |-> through]

State(index, nextId) == [index |-> index, nextId |-> nextId]

\* applyOperation, applyAcknowledgement.
Apply(state, row) ==
    IF row.op = "append"
    THEN State(AppendTo(state.index, row.m), row.m.id + 1)
    ELSE State(Acknowledged(state.index, row.path, row.through),
               IF row.through >= state.nextId THEN row.through + 1 ELSE state.nextId)

ApplyAll(state, ops) == FoldLeft(Apply, state, ops)

-----------------------------------------------------------------------------
VARIABLES
    queue,      \* the requests waiting for the drain
    flight,     \* the batch being published: its requests, rows and outcome
    index,      \* this.index
    nextId,     \* this.nextId
    writable,   \* this.writable
    store,      \* the store: its snapshot and its log segments
    log,        \* history: every row and reset the store ever took, in order
    resolved,   \* history: mutations whose append was acknowledged, in order
    requests,   \* history: requests enqueued
    faults      \* history: failures

vars == <<queue, flight, index, nextId, writable, store, log, resolved, requests, faults>>

NoFlight == [kind |-> "none", ops |-> <<>>, state |-> State({}, 1), compacted |-> FALSE]

Init ==
    /\ queue = <<>>
    /\ flight = NoFlight
    /\ index = {}
    /\ nextId = 1
    /\ writable = TRUE
    /\ store = [snapshot |-> State({}, 1), wal |-> <<>>]
    /\ log = <<>>
    /\ resolved = <<>>
    /\ requests = 0
    /\ faults = 0

\* load: the snapshot, then every row of the log.
Replayed == ApplyAll(store.snapshot, FlattenSeq(store.wal))

Enqueue(request) ==
    /\ requests < MaxRequests
    /\ requests' = requests + 1
    /\ queue' = Append(queue, request)
    /\ UNCHANGED <<flight, index, nextId, writable, store, log, resolved, faults>>

Request(kind, entries, cuts) == [kind |-> kind, entries |-> entries, cuts |-> cuts]

\* append, appendBatch, appendGroup: entries whose ids the drain will assign.
AppendRequest ==
    \/ \E p \in Path : Enqueue(Request("append", <<Mutation(0, p, NoPath)>>, <<>>))
    \/ \E p, q \in Path : p # q /\ Enqueue(Request("append", <<Mutation(0, q, p)>>, <<>>))
    \/ \E p, q \in Path : p # q /\
          Enqueue(Request("append", <<Mutation(0, p, NoPath), Mutation(0, q, NoPath)>>, <<>>))

\* acknowledge, acknowledgeOwned: a caller acknowledges ids it was given.
AckRequest ==
    \E i \in DOMAIN resolved : \E p \in {q \in Path : Touches(resolved[i], q)} :
        Enqueue(Request("ack", <<>>, <<AckOp(p, resolved[i].id)>>))

\* compact, clear, load: barriers.
BarrierRequest ==
    \E kind \in {"compact", "clear", "load"} : Enqueue(Request(kind, <<>>, <<>>))

-----------------------------------------------------------------------------
(* The drain.                                                              *)

IsMutation(request) == request.kind \in {"append", "ack"}
Rows(taken) == FoldLeft(LAMBDA n, request : n + Len(request.entries) + Len(request.cuts), 0, taken)

\* drain: the first request, and the mutations behind it that fit one page.
Taken ==
    LET fits(n) == /\ \A i \in 1 .. n : IsMutation(queue[i])
                   /\ Rows(SubSeq(queue, 1, n)) <= PageRows
    IN  Max({1} \cup {n \in 1 .. Len(queue) : fits(n)})

\* mutateInsideQueue: ids are assigned in order; an acknowledgement that
\* changes nothing is not written.
Prepared(taken) ==
    LET Assign(acc, m) ==
            LET row == AppendOp([m EXCEPT !.id = acc.state.nextId])
            IN  [state |-> Apply(acc.state, row), ops |-> Append(acc.ops, row)]
        Cut(acc, row) ==
            LET after == Apply(acc.state, row)
            IN  [state |-> after,
                 ops |-> IF after = acc.state THEN acc.ops ELSE Append(acc.ops, row)]
        One(acc, request) ==
            FoldLeft(Cut, FoldLeft(Assign, acc, request.entries), request.cuts)
    IN  FoldLeft(One, [state |-> State(index, nextId), ops |-> <<>>], taken)

\* drain: takes the next batch, or the next barrier.  A batch that follows
\* CompactAfter segments writes a snapshot first.
Take ==
    /\ flight = NoFlight
    /\ queue # <<>>
    /\ writable \/ queue[1].kind = "load"
    /\ LET taken == SubSeq(queue, 1, Taken)
           prepared == Prepared(taken)
           kind == IF IsMutation(taken[1]) THEN "mutate" ELSE taken[1].kind
       IN  /\ flight' = [kind |-> kind,
                         ops |-> prepared.ops,
                         state |-> IF kind = "clear" THEN State({}, nextId) ELSE prepared.state,
                         compacted |-> FALSE]
           /\ queue' = SubSeq(queue, Taken + 1, Len(queue))
           /\ writable' = (writable /\ kind # "load")
    /\ UNCHANGED <<index, nextId, store, log, resolved, requests, faults>>

\* assertWritable: without a validated store every request but load is refused.
Refuse ==
    /\ flight = NoFlight
    /\ queue # <<>>
    /\ ~writable /\ queue[1].kind # "load"
    /\ queue' = SubSeq(queue, Taken + 1, Len(queue))
    /\ UNCHANGED <<flight, index, nextId, writable, store, log, resolved, requests, faults>>

\* loadInsideQueue: the index is what the store holds.
Load ==
    /\ flight.kind = "load"
    /\ index' = Replayed.index
    /\ nextId' = Replayed.nextId
    /\ writable' = TRUE
    /\ flight' = NoFlight
    /\ UNCHANGED <<queue, store, log, resolved, requests, faults>>

NeedsCompaction ==
    flight.kind = "mutate" /\ ~flight.compacted /\ Len(store.wal) >= CompactAfter

Snapshot(state) == [snapshot |-> state, wal |-> <<>>]

\* mutateInsideQueue: the maintenance snapshot before new rows.
PublishCompaction ==
    /\ NeedsCompaction
    /\ store' = Snapshot(State(index, nextId))
    /\ flight' = [flight EXCEPT !.compacted = TRUE]
    /\ UNCHANGED <<queue, index, nextId, writable, log, resolved, requests, faults>>

\* What the flight's publication leaves in the store and in the history.
Published ==
    CASE flight.kind = "mutate" ->
            [store |-> IF flight.ops = <<>> THEN store ELSE [store EXCEPT !.wal = Append(@, flight.ops)],
             log |-> log \o flight.ops]
      [] flight.kind = "compact" ->
            [store |-> Snapshot(State(index, nextId)), log |-> log]
      [] flight.kind = "clear" ->
            [store |-> Snapshot(flight.state),
             log |-> Append(log, [AckOp(NoPath, nextId - 1) EXCEPT !.op = "clear"])]

\* Mutant: ids and the index are exposed before the rows are stored.
BugExpose == [store |-> store, log |-> log]

Expose == Published

\* commit, snapshot: the store has the publication; only now are the index
\* exposed and the promises resolved.
Publish ==
    /\ flight.kind \in {"mutate", "compact", "clear"}
    /\ ~NeedsCompaction
    /\ store' = Expose.store
    /\ log' = Expose.log
    /\ IF flight.kind = "compact" THEN UNCHANGED <<index, nextId>>
       ELSE index' = flight.state.index /\ nextId' = flight.state.nextId
    /\ resolved' = resolved \o
          (LET appended == SelectSeq(flight.ops, LAMBDA row : row.op = "append")
           IN  [i \in DOMAIN appended |-> appended[i].m])
    /\ flight' = NoFlight
    /\ UNCHANGED <<queue, writable, requests, faults>>

\* The store refused the publication, or took it and failed to say so.
LosePublication(tookEffect) ==
    IF ~tookEffect \/ flight.kind \in {"none", "load"} THEN UNCHANGED <<store, log>>
    ELSE IF NeedsCompaction THEN store' = Snapshot(State(index, nextId)) /\ UNCHANGED log
    ELSE store' = Published.store /\ log' = Published.log

\* drain's catch: the journal is unusable until a load; the batch is rejected.
Fail(tookEffect) ==
    /\ faults < MaxFaults
    /\ faults' = faults + 1
    /\ flight # NoFlight
    /\ LosePublication(tookEffect)
    /\ flight' = NoFlight
    /\ writable' = FALSE
    /\ UNCHANGED <<queue, index, nextId, resolved, requests>>

\* The plugin restarts; the new one has loaded nothing yet.
Crash(tookEffect) ==
    /\ faults < MaxFaults
    /\ faults' = faults + 1
    /\ LosePublication(tookEffect)
    /\ flight' = NoFlight
    /\ queue' = <<>>
    /\ index' = {} /\ nextId' = 1 /\ writable' = FALSE
    /\ UNCHANGED <<resolved, requests>>

Next ==
    \/ AppendRequest \/ AckRequest \/ BarrierRequest
    \/ Take \/ Refuse \/ Load \/ PublishCompaction \/ Publish
    \/ \E tookEffect \in BOOLEAN : Fail(tookEffect) \/ Crash(tookEffect)

Spec == Init /\ [][Next]_vars

-----------------------------------------------------------------------------
\* Shape of the queue, the index and the store.
TypeOK ==
    /\ \A r \in index : r.id < nextId /\ (r.newPending \/ r.oldPending)
    /\ \A i \in DOMAIN queue : queue[i].kind \in {"append", "ack", "compact", "clear", "load"}
    /\ flight.kind \in {"none", "mutate", "compact", "clear", "load"}
    /\ writable \in BOOLEAN
    /\ requests \in 0 .. MaxRequests /\ faults \in 0 .. MaxFaults
    /\ Len(store.wal) <= CompactAfter

\* A path's mutation is settled by a later acknowledgement of that path that
\* covers its id, or by a later clear.
SettledLater(i, p) ==
    \E j \in i + 1 .. Len(log) :
        \/ log[j].op = "clear"
        \/ log[j].op = "ack" /\ log[j].path = p /\ log[j].through >= log[i].m.id

OwedPath(p) ==
    \E i \in DOMAIN log : log[i].op = "append" /\ Touches(log[i].m, p) /\ ~SettledLater(i, p)

\* What a caller sees is what a restart would recover: the exposed index and the
\* next id are those of the store, whatever is in flight.
ExposedIsStored == writable => index = Replayed.index /\ nextId = Replayed.nextId

\* Replay hands out every pending path, and a rename whose destination alone was
\* acknowledged still deletes its source.
ReplayCoversPending ==
    LET shown == Projection(Replayed.index)
    IN  \A p \in Path :
            /\ OwedPath(p) <=> \E e \in shown : p \in e.writes \cup e.deletes
            /\ \A i \in DOMAIN log :
                  log[i].op = "append" /\ log[i].m.old = p /\ ~SettledLater(i, p) =>
                     \E e \in shown : e.id = log[i].m.id /\ p \in e.deletes
=============================================================================
