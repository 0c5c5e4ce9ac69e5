------------------------------ MODULE PackStore ------------------------------
(***************************************************************************)
(* The packed object store of the server: append-only segments, their      *)
(* sidecar indexes, the writer thread that owns the active segment, the    *)
(* readers and the scrubber that hide corrupt records, the importer of     *)
(* loose objects, and start-up recovery                                    *)
(* (crates/sync-server/src/pack_store.rs, storage_writer.rs).              *)
(*                                                                         *)
(* A process exit keeps what the kernel has; a power loss keeps what was   *)
(* synced and any part of the rest.  Record framing is intact in every     *)
(* record but a torn last one.  Group sizes keep a segment below its hard  *)
(* byte and object limits (SEGMENT_TARGET_BYTES plus one group).           *)
(***************************************************************************)
EXTENDS Integers, Sequences, FiniteSets, Functions

CONSTANTS
    Key,            \* ObjectKey: kind and content address
    Reader,         \* concurrent reads, and the scrubber
    SegmentTarget,  \* SEGMENT_OBJECT_TARGET
    MaxSegments,    \* bound: segments ever created
    MaxCrashes,     \* bound: process exits
    MaxPowerLosses, \* bound: power losses
    MaxRot,         \* bound: records that decay on disk
    MaxErrors,      \* bound: failed writes and syncs
    MaxFaults       \* bound: all of these together

PackStoreAssumption == IsFiniteSet(Key)

VARIABLES
    seg,       \* the segment files, oldest first
    loose,     \* objects with a verified loose copy from before the packs
    index,     \* PackStoreInner.index of the running process
    proc,      \* "down", "up", or "refused": open returned an error
    writer,    \* the writer thread
    reader,    \* reads and scrubs under way
    answered,  \* objects this process answered a store request for
    acked,     \* ghost: objects ever answered Stored or AlreadyPresent, or found loose
    stored,    \* ghost: objects ever answered Stored
    rotten,    \* ghost: decayed locations
    faults     \* counters behind the bounds

disk  == <<seg, loose>>
ghost == <<acked, stored, rotten>>
packVars == <<disk, index, proc, writer, reader, answered, ghost, faults>>

\* RecordLocation, <<0, 0>> for an object that is not indexed.
NoLocation == <<0, 0>>
Before(x, y) == x[1] < y[1] \/ (x[1] = y[1] /\ x[2] < y[2])

\* A segment file: header, records, how much of it is synced, whether it ends
\* in an incomplete record, and its sidecar.
NoSidecar == [present |-> FALSE, len |-> 0, entries |-> {}]
Segment(header) ==
    [header |-> header, recs |-> <<>>, synced |-> 0, torn |-> FALSE, sidecar |-> NoSidecar]
PackRecord(k) == [key |-> k, ok |-> TRUE]

NoWriter == [pc |-> "none", group |-> <<>>, also |-> {}, sealed |-> {}]
NoReader == [pc |-> "idle", loc |-> NoLocation]

Faults == faults.crash + faults.power + faults.rot + faults.io

PackInit ==
    /\ seg = <<>>
    /\ loose \in SUBSET Key
    /\ index = [k \in Key |-> NoLocation]
    /\ proc = "down"
    /\ writer = NoWriter
    /\ reader = [r \in Reader |-> NoReader]
    /\ answered = {}
    /\ acked = loose /\ stored = {} /\ rotten = {}
    /\ faults = [crash |-> 0, power |-> 0, rot |-> 0, io |-> 0]

-----------------------------------------------------------------------------
(* Start-up.                                                               *)

\* scan_segment: the framed records whose checksum and address agree.
Scan(s) == {<<s.recs[p].key, p>> : p \in {q \in DOMAIN s.recs : s.recs[q].ok}}

\* load_sidecar: checksummed, and for a segment of this length.
Usable(s) == s.sidecar.present /\ s.sidecar.len = Len(s.recs) /\ ~s.torn

Entries(s) == IF Usable(s) THEN s.sidecar.entries ELSE Scan(s)

\* write_sidecar: one entry for each object, the last one given.
Canonical(entries) ==
    {e \in entries : \A f \in entries : f[1] = e[1] => f[2] <= e[2]}

Sidecar(s, entries) == [present |-> TRUE, len |-> Len(s.recs), entries |-> Canonical(entries)]

\* publish_entries for every segment in order: the last location wins.
Published(segments) ==
    [k \in Key |->
        LET locs == {<<i, e[2]>> : i \in DOMAIN segments,
                                   e \in UNION {Entries(segments[j]) : j \in DOMAIN segments}}
            mine == {l \in locs : <<k, l[2]>> \in Entries(segments[l[1]])}
        IN  IF mine = {} THEN NoLocation
            ELSE CHOOSE l \in mine : \A m \in mine : m = l \/ Before(m, l)]

\* The last segment without a sidecar is the active one.
IsActive(i) == i = Len(seg) /\ ~seg[i].sidecar.present

\* An unfinished header is only repaired in the active segment; an incomplete
\* record is only cut off there.
Openable ==
    \A i \in DOMAIN seg :
        /\ seg[i].header = "whole" \/ IsActive(i)
        /\ seg[i].torn => IsActive(i)

\* Mutant: the incomplete record stays at the end of the active segment.
BugRecovered(i) ==
    IF seg[i].header = "short" THEN Segment("whole")
    ELSE IF IsActive(i) THEN seg[i]
    ELSE IF Usable(seg[i]) THEN seg[i]
    ELSE [seg[i] EXCEPT !.sidecar = Sidecar(seg[i], Scan(seg[i]))]

\* One segment after open: initialize_segment_file, truncate_segment_tail (with
\* its sync), or a sidecar rebuilt from a scan.
Recovered(i) ==
    IF seg[i].header = "short" THEN Segment("whole")
    ELSE IF IsActive(i) THEN
        (IF seg[i].torn THEN [seg[i] EXCEPT !.torn = FALSE, !.synced = Len(seg[i].recs)] ELSE seg[i])
    ELSE IF Usable(seg[i]) THEN seg[i]
    ELSE [seg[i] EXCEPT !.sidecar = Sidecar(seg[i], Scan(seg[i]))]

\* PackStore::open and the start of the writer thread, or the error that keeps
\* the server from starting.
Open ==
    /\ proc = "down"
    /\ LET recovered == [i \in DOMAIN seg |-> Recovered(i)]
           fresh == recovered = <<>> \/ recovered[Len(recovered)].sidecar.present
       IN  IF Openable
           THEN /\ fresh => Len(seg) < MaxSegments
                /\ seg' = IF fresh THEN Append(recovered, Segment("whole")) ELSE recovered
                /\ index' = Published(recovered)
                /\ proc' = "up"
                /\ writer' = [NoWriter EXCEPT !.pc = "idle"]
           ELSE proc' = "refused" /\ UNCHANGED <<seg, index, writer>>
    /\ UNCHANGED <<loose, reader, answered, ghost, faults>>

-----------------------------------------------------------------------------
(* The writer thread: commit_objects, append_group, seal_active.           *)

active == Len(seg)

\* commit_objects: objects already indexed are answered with the group, the
\* others are its pending records; requests may be coalesced.
Submit(G) ==
    /\ writer.pc = "idle"
    /\ LET news == {k \in G : index[k] = NoLocation}
       IN  \E order \in Bijection(1 .. Cardinality(news), news) :
              writer' = [writer EXCEPT !.pc = IF order = <<>> THEN "reply" ELSE "append",
                                       !.group = order, !.also = G \ news]
    /\ UNCHANGED <<disk, index, proc, reader, answered, ghost, faults>>

\* The records reach the file.
AppendRecords ==
    /\ writer.pc = "append"
    /\ seg' = [seg EXCEPT ![active].recs =
                 @ \o [n \in DOMAIN writer.group |-> PackRecord(writer.group[n])]]
    /\ writer' = [writer EXCEPT !.pc = "sync"]
    /\ UNCHANGED <<loose, index, proc, reader, answered, ghost, faults>>

\* Mutant: the group is published without the barrier.
BugSyncSegment ==
    /\ writer.pc = "sync"
    /\ writer' = [writer EXCEPT !.pc = "publish"]
    /\ UNCHANGED <<disk, index, proc, reader, answered, ghost, faults>>

\* sync_data
SyncSegment ==
    /\ writer.pc = "sync"
    /\ seg' = [seg EXCEPT ![active].synced = Len(seg[active].recs)]
    /\ writer' = [writer EXCEPT !.pc = "publish"]
    /\ UNCHANGED <<loose, index, proc, reader, answered, ghost, faults>>

\* publish_entries; a segment at its target is sealed before the reply.
PublishGroup ==
    /\ writer.pc = "publish"
    /\ LET first == Len(seg[active].recs) - Len(writer.group)
       IN  index' = [k \in Key |->
              IF \E n \in DOMAIN writer.group : writer.group[n] = k
              THEN <<active, first + (CHOOSE n \in DOMAIN writer.group : writer.group[n] = k)>>
              ELSE index[k]]
    /\ writer' = [writer EXCEPT !.pc = IF Len(seg[active].recs) >= SegmentTarget
                                       THEN "seal" ELSE "reply"]
    /\ UNCHANGED <<disk, proc, reader, answered, ghost, faults>>

\* current_entries_for_segment
CollectSidecar ==
    /\ writer.pc = "seal"
    /\ writer' = [writer EXCEPT !.pc = "sidecar",
                    !.sealed = {<<k, index[k][2]>> : k \in {j \in Key : index[j][1] = active}}]
    /\ UNCHANGED <<disk, index, proc, reader, answered, ghost, faults>>

\* write_sidecar: temporary file, sync, rename, directory sync.
WriteSidecar ==
    /\ writer.pc = "sidecar"
    /\ seg' = [seg EXCEPT ![active].sidecar = Sidecar(seg[active], writer.sealed)]
    /\ writer' = [writer EXCEPT !.pc = "create", !.sealed = {}]
    /\ UNCHANGED <<loose, index, proc, reader, answered, ghost, faults>>

\* create_active_segment: the file, then its synced header.
CreateSegment ==
    /\ writer.pc = "create" /\ Len(seg) < MaxSegments
    /\ seg' = Append(seg, Segment("short"))
    /\ writer' = [writer EXCEPT !.pc = "header"]
    /\ UNCHANGED <<loose, index, proc, reader, answered, ghost, faults>>

SyncHeader ==
    /\ writer.pc = "header"
    /\ seg' = [seg EXCEPT ![active].header = "whole"]
    /\ writer' = [writer EXCEPT !.pc = "reply"]
    /\ UNCHANGED <<loose, index, proc, reader, answered, ghost, faults>>

\* Stored for the group, AlreadyPresent for the rest.
Reply ==
    /\ writer.pc = "reply"
    /\ LET group == Range(writer.group)
       IN  /\ answered' = answered \cup group \cup writer.also
           /\ acked' = acked \cup group \cup writer.also
           /\ stored' = stored \cup group
    /\ writer' = [NoWriter EXCEPT !.pc = "idle"]
    /\ UNCHANGED <<disk, index, proc, reader, rotten, faults>>

\* Any failed write, sync, rename or create is fatal for the writer: the error
\* is the group's answer and the thread ends, with part of the group possibly
\* in the file.
WriterFails ==
    /\ writer.pc \in {"append", "sync", "publish", "sidecar", "create", "header"}
    /\ faults.io < MaxErrors /\ Faults < MaxFaults
    /\ IF writer.pc = "append"
       THEN \E n \in 0..Len(writer.group) - 1, torn \in BOOLEAN :
               seg' = [seg EXCEPT ![active].torn = torn,
                         ![active].recs = @ \o [m \in 1..n |-> PackRecord(writer.group[m])]]
       ELSE seg' = seg
    /\ writer' = [NoWriter EXCEPT !.pc = "ended"]
    /\ faults' = [faults EXCEPT !.io = @ + 1]
    /\ UNCHANGED <<loose, index, proc, reader, answered, ghost>>

-----------------------------------------------------------------------------
(* Readers, the scrubber and the importer.                                 *)

RecordAt(l) == seg[l[1]].recs[l[2]]

\* read, scrub_once: the location is copied out of the index.
StartRead(r, k) ==
    /\ proc = "up" /\ reader[r].pc = "idle" /\ index[k] # NoLocation
    /\ reader' = [reader EXCEPT ![r] = [pc |-> "read", loc |-> index[k]]]
    /\ UNCHANGED <<disk, index, proc, writer, answered, ghost, faults>>

\* read_location fails: hide_location, if the index still has that location.
FinishRead(r) ==
    /\ reader[r].pc = "read"
    /\ LET l == reader[r].loc
       IN  IF RecordAt(l).ok \/ index[RecordAt(l).key] # l
           THEN reader' = [reader EXCEPT ![r] = NoReader] /\ UNCHANGED index
           ELSE /\ index' = [index EXCEPT ![RecordAt(l).key] = NoLocation]
                /\ reader' = [reader EXCEPT ![r].pc = "unlink"]
    /\ UNCHANGED <<disk, proc, writer, answered, ghost, faults>>

\* hide_location removes the sidecar of the segment, if there is one.
UnlinkSidecar(r) ==
    /\ reader[r].pc = "unlink"
    /\ seg' = [seg EXCEPT ![reader[r].loc[1]].sidecar = NoSidecar]
    /\ reader' = [reader EXCEPT ![r] = NoReader]
    /\ UNCHANGED <<loose, index, proc, writer, answered, acked, stored, rotten, faults>>

\* flush_loose_batch: the loose copy goes once the store request was answered
\* and the packed record was read back.
RemoveLoose(k) ==
    /\ proc = "up" /\ k \in loose /\ k \in answered
    /\ index[k] # NoLocation /\ RecordAt(index[k]).ok
    /\ loose' = loose \ {k}
    /\ UNCHANGED <<seg, index, proc, writer, reader, answered, ghost, faults>>

-----------------------------------------------------------------------------
(* The environment.                                                        *)

\* A synced record decays.
Rot(i, p) ==
    /\ faults.rot < MaxRot /\ Faults < MaxFaults /\ p <= seg[i].synced /\ seg[i].recs[p].ok
    /\ seg' = [seg EXCEPT ![i].recs[p].ok = FALSE]
    /\ rotten' = rotten \cup {<<i, p>>}
    /\ faults' = [faults EXCEPT !.rot = @ + 1]
    /\ UNCHANGED <<loose, index, proc, writer, reader, answered, acked, stored>>

MemoryLost ==
    /\ proc' = "down" /\ index' = [k \in Key |-> NoLocation]
    /\ writer' = NoWriter /\ reader' = [r \in Reader |-> NoReader] /\ answered' = {}

\* The process ends: an append under way may be cut anywhere.
Crash ==
    /\ proc = "up" /\ faults.crash < MaxCrashes /\ Faults < MaxFaults
    /\ IF writer.pc = "append"
       THEN \E n \in 0..Len(writer.group) - 1, torn \in BOOLEAN :
               seg' = [seg EXCEPT ![active].torn = torn,
                         ![active].recs = @ \o [m \in 1..n |-> PackRecord(writer.group[m])]]
       ELSE seg' = seg
    /\ MemoryLost
    /\ faults' = [faults EXCEPT !.crash = @ + 1]
    /\ UNCHANGED <<loose, ghost>>

\* The power fails: of what was not synced any prefix reached the disk, and any
\* of its records may be bad there.
PowerLoss ==
    /\ proc \in {"up", "down"} /\ seg # <<>> /\ faults.power < MaxPowerLosses
    /\ Faults < MaxFaults
    /\ \E n \in seg[active].synced..Len(seg[active].recs), torn \in BOOLEAN :
         /\ torn => n < Len(seg[active].recs) \/ writer.pc = "append" \/ seg[active].torn
         /\ \E good \in SUBSET ((seg[active].synced + 1)..n) :
              seg' = [seg EXCEPT ![active].torn = torn, ![active].synced = n,
                        ![active].recs = [p \in 1..n |->
                           IF p <= seg[active].synced \/ p \in good THEN seg[active].recs[p]
                           ELSE [seg[active].recs[p] EXCEPT !.ok = FALSE]]]
    /\ MemoryLost
    /\ faults' = [faults EXCEPT !.power = @ + 1]
    /\ UNCHANGED <<loose, ghost>>

PackNext ==
    \/ Open
    \/ \E G \in SUBSET Key \ {{}} : Submit(G)
    \/ AppendRecords \/ SyncSegment \/ PublishGroup
    \/ CollectSidecar \/ WriteSidecar \/ CreateSegment \/ SyncHeader
    \/ Reply \/ WriterFails
    \/ \E r \in Reader : (\E k \in Key : StartRead(r, k)) \/ FinishRead(r) \/ UnlinkSidecar(r)
    \/ \E k \in Key : RemoveLoose(k)
    \/ \E i \in DOMAIN seg : \E p \in DOMAIN seg[i].recs : Rot(i, p)
    \/ Crash \/ PowerLoss

PackSpec == PackInit /\ [][PackNext]_packVars

-----------------------------------------------------------------------------
(* Properties.                                                             *)

\* Shape of the segments, the index and the histories.
PackTypeOK ==
    /\ \A i \in DOMAIN seg :
          /\ seg[i].header \in {"whole", "short"} /\ seg[i].torn \in BOOLEAN
          /\ seg[i].recs \in Seq([key : Key, ok : BOOLEAN])
          /\ seg[i].synced \in 0..Len(seg[i].recs)
    /\ loose \subseteq Key
    /\ \A k \in Key : index[k] # NoLocation =>
          /\ index[k][1] \in DOMAIN seg /\ index[k][2] \in DOMAIN seg[index[k][1]].recs
          /\ RecordAt(index[k]).key = k
    /\ proc \in {"down", "up", "refused"}
    /\ answered \subseteq acked /\ stored \subseteq acked

\* An object a power loss at this moment would leave readable.
Durable(k) ==
    \/ k \in loose
    \/ \E i \in DOMAIN seg : \E p \in 1..seg[i].synced :
          seg[i].recs[p].key = k /\ seg[i].recs[p].ok

Decayed(k) == \E l \in rotten : RecordAt(l).key = k

\* "crosses exactly one fdatasync before any success ACK can be returned": an
\* object the server answered Stored or AlreadyPresent for is on the disk, until
\* its record decays; the loose copy included, that the importer removes.
AcksAreDurable == \A k \in acked : Durable(k) \/ Decayed(k)

\* The same for the objects answered Stored.
StoredIsDurable == \A k \in stored : Durable(k) \/ Decayed(k)

\* No crash at any point of an append, a seal or a recovery leaves segments that
\* the next start refuses.
AlwaysOpens == proc # "refused"

\* Both, in every state.
StoreSurvives == StoredIsDurable /\ AlwaysOpens

=============================================================================
