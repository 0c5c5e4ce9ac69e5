------------------------------ MODULE RootExport ------------------------------
(* Handing a root or a tree node from the native tree to the host          *)
(* (root_export_v1.rs, RootExportV2 and the export jobs of wasm.rs).  A    *)
(* format 1 root is planned and then encoded one primitive at a time into  *)
(* an arena the host admits after the plan; a format 2 root is encoded in  *)
(* two steps; a node is read where it lies.  All three are read in pages.  *)
(*                                                                         *)
(* A string is its length, a child of a root its prefix's length.  The     *)
(* encoder is FlatBufferBuilder: what it pads is its own choice, up to the *)
(* padding the format allows.                                              *)
EXTENDS Integers, Sequences, SequencesExt

CONSTANTS
    Roots,        \* [vault, device, parent, children]: format 1 roots
    Limits,       \* arena limits a host gives
    UnitBudgets, ByteBudgets, PageBudgets,   \* what one call may do
    Flat,         \* lengths of format 2 roots and of nodes
    MaxJobs       \* bound: jobs a behaviour starts

Part == 65536             \* ROOT_EXPORT_PART_BYTES
MaxAtomic == Part + 128   \* ROOT_EXPORT_MAX_ATOMIC_BYTES
MinCharge == 256          \* ROOT_EXPORT_MIN_CHARGE_BYTES

VARIABLES
    source,   \* the root a format 1 job exports: pinned while the job is active
    job,      \* <<>> or the job
    call,     \* the step call being run: units and bytes it may use and has used
    started,  \* jobs started
    host      \* bytes the host has read, and what it was told

vars == <<source, job, call, started, host>>

NoCall == <<>>
NoHost == [read |-> 0, length |-> -1, failed |-> FALSE, finished |-> FALSE]
Atomic == call = NoCall        \* a call runs to its end
Count == Len(source.children)

------------------------------------------------------------------------------
(* Format 1: one primitive                                                 *)

NewExport(limit) ==
    [kind |-> "v1", phase |-> "PlanVault", child |-> 1, max |-> 512, limit |-> limit,
     hashed |-> <<>>, filled |-> 0, used |-> 0, offsets |-> <<>>, vector |-> <<>>, length |-> 0,
     offset |-> 0]

Executable(e) == e.phase \notin {"Planned", "Built", "Sealed"}
Prefix(e) == source.children[e.child]

\* next_charge; -1 when a string is too long.
Atleast(n) == IF n < MinCharge THEN MinCharge ELSE n
OfString(length, more) == IF length > Part THEN -1 ELSE Atleast(length + more)
NextCharge(e) ==
    CASE e.phase = "PlanVault" -> OfString(source.vault, 0)
      [] e.phase = "PlanDevice" -> OfString(source.device, 0)
      [] e.phase = "PlanPrefix" -> OfString(Prefix(e), 128)
      [] e.phase = "PlanFinish" -> 2048
      [] e.phase = "Fill" -> Atleast(IF e.max - e.filled < Part THEN e.max - e.filled ELSE Part)
      [] e.phase = "Vault" -> OfString(source.vault, 8)
      [] e.phase = "Device" -> OfString(source.device, 8)
      [] e.phase = "Prefix" -> OfString(Prefix(e), 8)
      [] e.phase = "Finish" -> 512
      [] e.phase \in {"PlanHash", "RootHash", "ParentHash", "Child", "VectorStart", "VectorRow"} ->
           MinCharge

To(e, phase) == [e EXCEPT !.phase = phase]
Failed == <<>>

\* charge: the plan grows, within the limit.
Charge(e, bytes, phase) ==
    IF e.max + bytes > e.limit THEN Failed ELSE <<[e EXCEPT !.max = @ + bytes, !.phase = phase]>>

PlanVault(e) == Charge(e, source.vault, "PlanDevice")
PlanDevice(e) == Charge(e, source.device, IF Count = 0 THEN "PlanFinish" ELSE "PlanPrefix")
\* Mutant: the plan leaves out the prefix's own bytes.
BugPlanPrefix(e) == Charge([e EXCEPT !.hashed = Append(@, Prefix(e))], 128, "PlanHash")
PlanPrefix(e) == Charge([e EXCEPT !.hashed = Append(@, Prefix(e))], Prefix(e) + 128, "PlanHash")
PlanHash(e) ==
    <<To([e EXCEPT !.child = @ + 1], IF e.child = Count THEN "PlanFinish" ELSE "PlanPrefix")>>
PlanFinish(e) == <<To(e, "Planned")>>

Fill(e) ==
    LET next == IF e.filled + Part < e.max THEN e.filled + Part ELSE e.max
    IN  <<[e EXCEPT !.filled = next, !.phase = IF next = e.max THEN "Vault" ELSE @]>>

\* room: the primitive's bound must fit; it then writes `bytes` of it.
Write(e, bound, bytes, phase) ==
    IF e.used + bound > e.max THEN Failed ELSE <<[e EXCEPT !.used = @ + bytes, !.phase = phase]>>

\* A string is its length field, its bytes, a zero byte and padding; a hash its length
\* field, its bytes and padding.  The padding is the least or the most there can be.
Padding == {0, 3}
Vault(e, pad) == Write(e, source.vault + 8, source.vault + 5 + pad, "Device")
Device(e, pad) == Write(e, source.device + 8, source.device + 5 + pad, "RootHash")
RootHash(e, pad) == Write(e, 40, 36 + pad, "ParentHash")
ParentHash(e, pad) ==
    Write(e, 40, IF source.parent THEN 36 + pad ELSE 0, IF Count = 0 THEN "VectorStart" ELSE "Prefix")
WritePrefix(e, pad) == Write(e, Prefix(e) + 8, Prefix(e) + 5 + pad, "Child")
Child(e, pad) ==
    Write([e EXCEPT !.offsets = Append(@, e.child), !.child = @ + 1], 72, 36 + pad + 24,
          IF e.child = Count THEN "VectorStart" ELSE "Prefix")
VectorStart(e) ==
    Write([e EXCEPT !.child = Count], 4 * Count + 8, 4, IF Count = 0 THEN "Finish" ELSE "VectorRow")
\* The vector is written from its end.
VectorRow(e) ==
    <<[e EXCEPT !.vector = <<e.offsets[e.child]>> \o @, !.used = @ + 4, !.child = @ - 1,
                !.phase = IF e.child = 1 THEN "Finish" ELSE @]>>
Finish(e, pad) ==
    LET done == Write(e, 256, 253 + pad, "Built")
    IN  IF done = Failed THEN Failed ELSE <<[done[1] EXCEPT !.length = done[1].used]>>

Tick(e, pad) ==
    CASE e.phase = "PlanVault" -> PlanVault(e)
      [] e.phase = "PlanDevice" -> PlanDevice(e)
      [] e.phase = "PlanPrefix" -> PlanPrefix(e)
      [] e.phase = "PlanHash" -> PlanHash(e)
      [] e.phase = "PlanFinish" -> PlanFinish(e)
      [] e.phase = "Fill" -> Fill(e)
      [] e.phase = "Vault" -> Vault(e, pad)
      [] e.phase = "Device" -> Device(e, pad)
      [] e.phase = "RootHash" -> RootHash(e, pad)
      [] e.phase = "ParentHash" -> ParentHash(e, pad)
      [] e.phase = "Prefix" -> WritePrefix(e, pad)
      [] e.phase = "Child" -> Child(e, pad)
      [] e.phase = "VectorStart" -> VectorStart(e)
      [] e.phase = "VectorRow" -> VectorRow(e)
      [] e.phase = "Finish" -> Finish(e, pad)

------------------------------------------------------------------------------
(* The jobs                                                                *)

\* begin_root_export: a limit below the header is refused, and the slot must be free.
BeginRoot(limit) ==
    /\ Atomic /\ job = <<>> /\ started < MaxJobs /\ limit >= 512
    /\ job' = <<NewExport(limit)>> /\ started' = started + 1 /\ host' = NoHost
    /\ UNCHANGED <<source, call>>

BeginFlat(kind, length, limit) ==
    /\ Atomic /\ job = <<>> /\ started < MaxJobs
    /\ job' = <<[kind |-> kind, phase |-> IF kind = "chunk" THEN "Sealed" ELSE "Plan",
                 length |-> length, limit |-> limit, offset |-> 0]>>
    /\ started' = started + 1
    /\ host' = [NoHost EXCEPT !.length = IF kind = "chunk" THEN length ELSE -1]
    /\ UNCHANGED <<source, call>>

\* step_root_export_job: an error drops the job.
Drop == job' = <<>> /\ call' = NoCall /\ host' = [host EXCEPT !.failed = TRUE]
          /\ UNCHANGED <<source, started>>
IsKind(kind) == job # <<>> /\ job[1].kind = kind

StepFlat ==
    /\ Atomic /\ IsKind("v2") /\ job[1].phase \in {"Plan", "Build"}
    /\ LET e == job[1]
       IN  IF e.phase = "Plan" /\ e.length > e.limit THEN Drop
           ELSE job' = <<To(e, IF e.phase = "Plan" THEN "Planned" ELSE "Built")>>
                  /\ UNCHANGED <<source, call, started, host>>

BeginStep(units, bytes) ==
    /\ Atomic /\ IsKind("v1") /\ Executable(job[1])
    /\ call' = <<[maxUnits |-> units, maxBytes |-> bytes, units |-> 0, bytes |-> 0]>>
    /\ UNCHANGED <<source, job, started, host>>

\* A call stops before a primitive that would pass its byte budget, except the first.
Stops(c, e) ==
    \/ c.units = c.maxUnits \/ ~Executable(e)
    \/ c.units > 0 /\ c.bytes >= c.maxBytes
    \/ c.units > 0 /\ NextCharge(e) # -1 /\ c.bytes + NextCharge(e) > c.maxBytes

Step ==
    /\ ~Atomic
    /\ LET c == call[1]
           e == job[1]
           charge == NextCharge(e)
       IN  IF Stops(c, e) THEN call' = NoCall /\ UNCHANGED <<source, job, started, host>>
           ELSE IF charge \notin 1..MaxAtomic THEN Drop
           ELSE \E pad \in Padding :
                  IF Tick(e, pad) = Failed THEN Drop
                  ELSE /\ job' = Tick(e, pad)
                       /\ call' = <<[c EXCEPT !.units = @ + 1, !.bytes = @ + charge]>>
                       /\ UNCHANGED <<source, started, host>>

\* start_root_export_build: the host has admitted the planned arena.
StartBuild ==
    /\ Atomic /\ job # <<>> /\ job[1].phase = "Planned"
    /\ job' = IF IsKind("v1") THEN <<[job[1] EXCEPT !.child = 1, !.phase = "Fill"]>>
              ELSE <<To(job[1], "Build")>>
    /\ UNCHANGED <<source, call, started, host>>

\* root_export_info: sealing is idempotent.
Seal ==
    /\ Atomic /\ job # <<>> /\ job[1].phase \in {"Built", "Sealed"} /\ job[1].kind # "chunk"
    /\ job' = <<To(job[1], "Sealed")>>
    /\ host' = [host EXCEPT !.length = job[1].length]
    /\ UNCHANGED <<source, call, started>>

\* read_root_export, read_tree_chunk_export: pages follow each other.
Read(expected, bytes) ==
    /\ Atomic /\ job # <<>> /\ job[1].phase = "Sealed"
    /\ expected = job[1].offset /\ bytes \in 1..Part
    /\ LET e == job[1]
           end == IF e.offset + bytes < e.length THEN e.offset + bytes ELSE e.length
       IN  /\ job' = <<[e EXCEPT !.offset = end]>>
           /\ host' = [host EXCEPT !.read = @ + end - e.offset]
    /\ UNCHANGED <<source, call, started>>

\* finish_root_export, finish_tree_chunk_export: only at the exact end.
FinishExport ==
    /\ Atomic /\ job # <<>> /\ job[1].phase = "Sealed" /\ job[1].offset = job[1].length
    /\ job' = <<>> /\ host' = [host EXCEPT !.finished = TRUE]
    /\ UNCHANGED <<source, call, started>>

CancelExport ==
    /\ Atomic /\ job # <<>>
    /\ job' = <<>> /\ UNCHANGED <<source, call, started, host>>

Init == source \in Roots /\ job = <<>> /\ call = NoCall /\ started = 0 /\ host = NoHost

Next ==
    \/ \E limit \in Limits :
         BeginRoot(limit) \/ \E length \in Flat : BeginFlat("v2", length, limit)
    \/ \E length \in Flat : BeginFlat("chunk", length, length)
    \/ \E units \in UnitBudgets, bytes \in ByteBudgets : BeginStep(units, bytes)
    \/ Step \/ StepFlat \/ StartBuild \/ Seal \/ FinishExport \/ CancelExport
    \/ \E bytes \in PageBudgets : Read(host.read, bytes)

Spec == Init /\ [][Next]_vars

------------------------------------------------------------------------------

\* The arena admitted after the plan holds whatever the encoder writes: no primitive of a
\* build is refused for room and its output fits, however the encoder pads; a build that
\* fails does so before the arena is admitted.
ArenaSuffices ==
    IsKind("v1") /\ host'.failed /\ ~host.failed =>
        job[1].phase \in {"PlanVault", "PlanDevice", "PlanPrefix"}

\* A finished export has the whole output, once, with the children in their order; a step
\* stays within its byte budget unless it is a single primitive.
ExportIsWhole ==
    /\ host.finished => host.read = host.length
    /\ IsKind("v1") /\ job[1].phase \in {"Built", "Sealed"} =>
         /\ job[1].length <= job[1].max
         /\ job[1].hashed = source.children
         /\ job[1].vector = [i \in 1..Count |-> i]
    /\ \A i \in DOMAIN call :
         call[i].bytes <= call[i].maxBytes \/ (call[i].units = 1 /\ call[i].bytes <= MaxAtomic)
==============================================================================
