---------------------------- MODULE RangeMutation ----------------------------
(* The resumable update of a range tree: V2CandidateMutation.  One unit of *)
(* work is one operation, entry, range or node; between two units the host *)
(* may run anything else, cancel the mutation, or change the candidate the *)
(* mutation was started from.  Nodes are built in a private overlay and    *)
(* promoted to the store in one step at the end.                           *)
EXTENDS RangeTree

CONSTANTS
    Bases,          \* the entry lists a mutation may start from
    Changes,        \* upsert lists, duplicates included
    Deletes,        \* lists of deleted paths
    Lossy,          \* bases whose graph may lack one node in the store
    MaxForeign      \* how often something else replaces the candidate

VARIABLES
    m,              \* the mutation (V2CandidateMutation); its phase names the next unit
    input,          \* what it was asked to do
    store,          \* resident nodes
    candidate,      \* the root the transaction holds
    foreign         \* replacements of the candidate so far

vars == <<m, input, store, candidate, foreign>>

NoPlan == [node |-> 0, peak |-> 0, resident |-> 0]

\* V2CandidateMutation::new
NewMutation(root, changed, deleted) ==
    LET nothing == changed = <<>> /\ deleted = <<>>
    IN  [phase |-> IF nothing THEN "ready" ELSE "upserts",
         captured |-> root, next |-> IF nothing THEN <<root>> ELSE <<>>,
         changed |-> changed, deleted |-> deleted, operations |-> <<>>,
         pending |-> root.child, leaves |-> <<>>, leafTotal |-> 0,
         emptyBase |-> FALSE, start |-> 1, end |-> 1, readLeaf |-> 1,
         loaded |-> <<>>, replacement |-> <<>>, refs |-> <<>>,
         seg |-> Segmenter(LeafLimits), segments |-> <<>>,
         planned |-> <<>>, nextPlanned |-> <<>>, levelSpans |-> <<>>,
         plannedSpans |-> <<>>,
         plannedNodes |-> 0, plannedEndpoints |-> 0, plan |-> NoPlan,
         emittedNodes |-> 0, emittedSpans |-> 0, index |-> 1,
         ranges |-> <<>>, parents |-> <<>>, total |-> 0, staged |-> {}]

Init ==
    /\ input \in [base : Bases, changed : Changes, deleted : Deletes]
    /\ candidate = BuildTree(input.base)
    /\ \/ store = Reachable(candidate)
       \/ /\ input.base \in Lossy
          /\ \E lost \in Reachable(candidate) : store = Reachable(candidate) \ {lost}
    /\ m = NewMutation(candidate, input.changed, input.deleted)
    /\ foreign = 0

Working == m.phase \notin {"plan ready", "ready", "failed", "retiring", "done"}

Fail == m' = [m EXCEPT !.phase = "failed"]
Unit(phase) == m.phase = phase /\ UNCHANGED <<input, store, candidate, foreign>>

\* A unit that finds a node missing or a descriptor wrong fails the mutation for good.
Checked(ok, next) == IF ok THEN m' = next ELSE Fail

------------------------------------------------------------------------------
(* Collecting the operations and the leaves                                *)

Upsert ==
    /\ Unit("upserts")
    /\ m' = IF m.changed = <<>> THEN [m EXCEPT !.phase = "deletions"]
            ELSE [m EXCEPT !.changed = Rest(@),
                           !.operations = Put(@, m.changed[1].path, <<m.changed[1]>>)]

\* An upsert of the path, already recorded, wins over its deletion.
Delete ==
    /\ Unit("deletions")
    /\ m' = IF m.deleted = <<>> THEN [m EXCEPT !.phase = "collect"]
            ELSE [m EXCEPT !.deleted = Rest(@),
                           !.operations = IF m.deleted[1] \in DOMAIN @ THEN @
                                          ELSE Put(@, m.deleted[1], <<>>)]

Collect ==
    /\ Unit("collect")
    /\ IF m.pending = <<>>
         THEN Checked(m.leafTotal = m.captured.files, [m EXCEPT !.phase = "select"])
         ELSE LET range == Last(m.pending) IN
              IF range.height = 0
                THEN Checked(ValidNext(m.leaves, range, 0),
                             [m EXCEPT !.pending = Front(@), !.leaves = Append(@, range),
                                       !.leafTotal = @ + range.files])
                ELSE Checked(ValidRange(range) /\ Loads(range, store),
                             [m EXCEPT !.pending = Front(@) \o Reverse(range.node.items)])

SelectSpan ==
    /\ Unit("select")
    /\ LET first == LeafFor(m.leaves, Least(DOMAIN m.operations)) IN
       m' = IF m.leaves = <<>> THEN [m EXCEPT !.phase = "merge", !.emptyBase = TRUE]
            ELSE [m EXCEPT !.phase = "merge", !.start = first, !.readLeaf = first,
                           !.end = LeafFor(m.leaves, Greatest(DOMAIN m.operations))]

------------------------------------------------------------------------------
(* Merging the touched leaves with the operations                          *)

\* append_entry: the entry goes to the stream and to the segmenter at once.
Appended(n, entry) ==
    LET entries == Append(n.replacement, entry)
    IN  IF n.replacement # <<>> /\ Last(n.replacement).path >= entry.path
          THEN [n EXCEPT !.phase = "failed"]
          ELSE [n EXCEPT !.replacement = entries,
                         !.seg = RecordEntry(@, entries, Len(entries))]

TakeEntry(n) == Appended([n EXCEPT !.loaded = Rest(@)], n.loaded[1])
TakeOperation(n) ==
    LET path == Least(DOMAIN n.operations)
        spent == [n EXCEPT !.operations = Without(@, path)]
    IN  IF n.operations[path] = <<>> THEN spent ELSE Appended(spent, n.operations[path][1])

Merge ==
    /\ Unit("merge")
    /\ IF m.loaded = <<>> /\ ~m.emptyBase /\ m.readLeaf <= m.end
         THEN Checked(Loads(m.leaves[m.readLeaf], store),
                      [m EXCEPT !.loaded = m.leaves[m.readLeaf].node.items, !.readLeaf = @ + 1])
       ELSE IF m.loaded = <<>> /\ m.operations = <<>>
         THEN m' = [m EXCEPT !.phase = "resynchronize"]
       ELSE IF m.loaded = <<>> THEN m' = TakeOperation(m)
       ELSE IF m.operations = <<>> \/ m.loaded[1].path < Least(DOMAIN m.operations)
         THEN m' = TakeEntry(m)
       ELSE IF m.loaded[1].path = Least(DOMAIN m.operations)
         THEN m' = TakeOperation([m EXCEPT !.loaded = Rest(@)])
       ELSE m' = TakeOperation(m)

AtOldBoundary ==
    /\ ~m.emptyBase
    /\ m.seg.first = Len(m.replacement) + 1 /\ m.seg.spans # <<>>
    /\ Last(m.replacement).path = m.leaves[m.end].max

Resynchronize ==
    /\ Unit("resynchronize")
    /\ m' = IF m.emptyBase \/ m.end = Len(m.leaves) \/ AtOldBoundary
              THEN [m EXCEPT !.phase = "plan-assemble", !.index = 1,
                             !.segments = FinishTail(m.seg, Len(m.replacement))]
              ELSE [m EXCEPT !.phase = "append-leaf"]

AppendLeaf ==
    /\ Unit("append-leaf")
    /\ Checked(Loads(m.leaves[m.end + 1], store),
               [m EXCEPT !.phase = "append-entries", !.end = @ + 1,
                         !.loaded = m.leaves[m.end + 1].node.items])

AppendEntries ==
    /\ Unit("append-entries")
    /\ m' = IF m.loaded = <<>> THEN [m EXCEPT !.phase = "resynchronize"] ELSE TakeEntry(m)

------------------------------------------------------------------------------
(* Planning the output before any node is encoded                          *)

Endpoints(r) == PathBytes[r.min] + PathBytes[r.max]

\* The leaf level of the result: the untouched leaves around the replaced span.
Spliced(n, middle) ==
    IF n.emptyBase THEN middle
    ELSE SubSeq(n.leaves, 1, n.start - 1) \o middle
           \o SubSeq(n.leaves, n.end + 1, Len(n.leaves))
InMiddle(n, i) ==
    LET before == IF n.emptyBase THEN 0 ELSE n.start - 1
    IN  i \in before + 1..before + Len(n.segments)

PlannedLeaf(span, entries) ==
    [min |-> entries[span.first].path, max |-> entries[span.last].path,
     files |-> span.last - span.first + 1, bytes |-> span.bytes, height |-> 0]
PlannedOf(r) ==
    [min |-> r.min, max |-> r.max, files |-> r.files, bytes |-> r.bytes, height |-> 0]

\* One range left is the root; otherwise another level.
PlanLevelOrRoot(n) ==
    IF Len(n.planned) <= 1 THEN [n EXCEPT !.phase = "plan-root"]
    ELSE IF n.planned[1].height >= MaxDepth THEN [n EXCEPT !.phase = "failed"]
    ELSE [n EXCEPT !.phase = "plan-validate-ranges", !.index = 1,
                   !.seg = Segmenter(RangeLimits)]

\* Mutant: the descriptor of a replaced leaf is not planned for.
BugPlanAssemble ==
    /\ Unit("plan-assemble")
    /\ LET middle == [k \in DOMAIN m.segments |-> PlannedLeaf(m.segments[k], m.replacement)]
           level == Spliced(m, middle)
           i == m.index
       IN  m' = IF i > Len(level) THEN PlanLevelOrRoot(m)
                ELSE [m EXCEPT !.planned = Append(@, PlannedOf(level[i])),
                               !.plannedEndpoints = @ + Endpoints(level[i]),
                               !.plannedNodes = @ + IF InMiddle(m, i) THEN level[i].bytes ELSE 0,
                               !.index = @ + 1]

\* A replaced leaf is requested twice: by its descriptor and by the assembled level.
PlanAssemble ==
    /\ Unit("plan-assemble")
    /\ LET middle == [k \in DOMAIN m.segments |-> PlannedLeaf(m.segments[k], m.replacement)]
           level == Spliced(m, middle)
           i == m.index
           copies == IF InMiddle(m, i) THEN 2 ELSE 1
       IN  m' = IF i > Len(level) THEN PlanLevelOrRoot(m)
                ELSE [m EXCEPT !.planned = Append(@, PlannedOf(level[i])),
                               !.plannedEndpoints = @ + copies * Endpoints(level[i]),
                               !.plannedNodes = @ + IF copies = 2 THEN level[i].bytes ELSE 0,
                               !.index = @ + 1]

PlanValidate ==
    /\ Unit("plan-validate-ranges")
    /\ IF m.index > Len(m.planned)
         THEN m' = [m EXCEPT !.phase = "plan-segment-ranges", !.index = 1]
         ELSE Checked(ValidNext(SubSeq(m.planned, 1, m.index - 1), m.planned[m.index],
                                m.planned[1].height),
                      [m EXCEPT !.index = @ + 1])

PlanSegment ==
    /\ Unit("plan-segment-ranges")
    /\ m' = IF m.index > Len(m.planned)
              THEN [m EXCEPT !.phase = "plan-emit-parents", !.index = 1,
                             !.levelSpans = FinishTail(m.seg, Len(m.planned))]
              ELSE [m EXCEPT !.seg = RecordRange(@, m.planned, m.index), !.index = @ + 1]

PlannedParent(children, bytes) ==
    [min |-> children[1].min, max |-> Last(children).max,
     files |-> Sum(children, LAMBDA c : c.files), bytes |-> bytes,
     height |-> children[1].height + 1]

PlanEmitParent ==
    /\ Unit("plan-emit-parents")
    /\ LET span == m.levelSpans[m.index] IN
       m' = IF m.index > Len(m.levelSpans) THEN [m EXCEPT !.phase = "plan-retire-ranges"]
            ELSE [m EXCEPT !.plannedNodes = @ + span.bytes,
                           !.plannedSpans = Append(@, [span |-> span,
                                                       height |-> m.planned[1].height]),
                           !.nextPlanned = Append(@, PlannedParent(Items(span, m.planned),
                                                                   span.bytes)),
                           !.index = @ + 1]

PlanRetire ==
    /\ Unit("plan-retire-ranges")
    /\ m' = IF m.planned # <<>> THEN [m EXCEPT !.planned = Front(@), !.index = 1]
            ELSE PlanLevelOrRoot([m EXCEPT !.planned = m.nextPlanned, !.nextPlanned = <<>>])

PlanRoot ==
    /\ Unit("plan-root")
    /\ m' = [m EXCEPT !.phase = "plan ready", !.planned = <<>>, !.levelSpans = <<>>,
                      !.plan = [node |-> m.plannedNodes, peak |-> m.plannedEndpoints,
                                resident |-> Sum(m.planned, Endpoints)]]

\* The host grants the planned bytes: resume_after_output_memory_plan_v1.
Resume ==
    /\ Unit("plan ready")
    /\ m' = [m EXCEPT !.phase = "emit-leaves", !.index = 1]

------------------------------------------------------------------------------
(* Building the nodes in the private overlay                               *)

\* A node the store holds, or that was staged before, is not staged again.
Stage(n, node, bytes) ==
    [n EXCEPT !.staged = IF node \in store THEN @ ELSE @ \cup {node},
              !.emittedNodes = @ + bytes,
              !.phase = IF n.emittedNodes + bytes > n.plan.node THEN "failed" ELSE @]

EmitLeaf ==
    /\ Unit("emit-leaves")
    /\ LET span == m.segments[m.index]
           leaf == LeafRef(Items(span, m.replacement))
       IN  IF m.index > Len(m.segments)
             THEN m' = [m EXCEPT !.phase = "assemble", !.index = 1]
             ELSE Checked(leaf.bytes = span.bytes,
                          [Stage(m, leaf.node, span.bytes) EXCEPT
                             !.refs = Append(@, leaf), !.index = @ + 1])

Assemble ==
    /\ Unit("assemble")
    /\ LET level == Spliced(m, m.refs)
           i == m.index
       IN  IF i > Len(level) THEN m' = [m EXCEPT !.phase = "begin-level"]
           ELSE Checked(ValidNext(m.ranges, level[i], 0),
                        [m EXCEPT !.ranges = Append(@, level[i]),
                                  !.total = @ + level[i].files, !.index = @ + 1])

BeginLevel ==
    /\ Unit("begin-level")
    /\ LET next == [files |-> m.total, child |-> m.ranges] IN
       IF Len(m.ranges) <= 1
         THEN Checked(/\ m.emittedSpans = Len(m.plannedSpans)
                      /\ m.emittedNodes = m.plan.node
                      /\ ValidRoot(next)
                      /\ Sum(m.ranges, Endpoints) = m.plan.resident,
                      [m EXCEPT !.phase = "cleanup", !.next = <<next>>, !.ranges = <<>>])
         ELSE Checked(m.ranges[1].height < MaxDepth,
                      [m EXCEPT !.phase = "segment-level", !.index = 1, !.segments = <<>>,
                                !.seg = Segmenter(RangeLimits)])

SegmentLevel ==
    /\ Unit("segment-level")
    /\ IF m.index > Len(m.ranges)
         THEN m' = [m EXCEPT !.phase = "emit-internal", !.index = 1,
                             !.segments = FinishTail(m.seg, Len(m.ranges))]
         ELSE Checked(ValidNext(SubSeq(m.ranges, 1, m.index - 1), m.ranges[m.index],
                                m.ranges[1].height),
                      [m EXCEPT !.seg = RecordRange(@, m.ranges, m.index), !.index = @ + 1])

\* The boundary paths of a span move from its children to their parent.
Moved(ranges, span) ==
    [i \in DOMAIN ranges |->
       [ranges[i] EXCEPT !.min = IF i = span.first THEN EmptyPath ELSE @,
                         !.max = IF i = span.last THEN EmptyPath ELSE @]]

EmitInternal ==
    /\ Unit("emit-internal")
    /\ LET span == m.segments[m.index]
           parent == ParentRef(Items(span, m.ranges))
           planned == m.plannedSpans[m.emittedSpans + 1]
       IN  IF m.index > Len(m.segments) THEN m' = [m EXCEPT !.phase = "retire-level"]
           ELSE Checked(/\ m.emittedSpans < Len(m.plannedSpans)
                        /\ planned = [span |-> span, height |-> m.ranges[span.first].height]
                        /\ parent.bytes = span.bytes,
                        [Stage(m, parent.node, span.bytes) EXCEPT
                           !.ranges = Moved(@, span), !.parents = Append(@, parent),
                           !.emittedSpans = @ + 1, !.index = @ + 1])

RetireLevel ==
    /\ Unit("retire-level")
    /\ m' = IF m.ranges # <<>> THEN [m EXCEPT !.ranges = Front(@)]
            ELSE [m EXCEPT !.phase = "begin-level", !.ranges = m.parents, !.parents = <<>>]

\* The work lists shrink together, one item of each per unit.
Cleanup ==
    /\ Unit("cleanup")
    /\ m' = IF m.replacement = <<>> /\ m.leaves = <<>> /\ m.refs = <<>>
              THEN [m EXCEPT !.phase = "ready"]
              ELSE [m EXCEPT !.replacement = Shorter(@), !.leaves = Shorter(@),
                             !.refs = Shorter(@)]

------------------------------------------------------------------------------
(* The end                                                                 *)

\* Mutant: finish does not look at the candidate again.
BugFinish ==
    /\ m.phase = "ready"
    /\ store' = store \cup m.staged
    /\ candidate' = m.next[1]
    /\ m' = [m EXCEPT !.phase = "failed", !.staged = {}, !.next = <<>>]
    /\ UNCHANGED <<input, foreign>>

\* finish: one shot.  The candidate must still be the captured root; then the overlay
\* is promoted and the new root becomes the candidate in the same step.
Finish ==
    /\ m.phase = "ready"
    /\ IF candidate = m.captured
         THEN /\ store' = store \cup m.staged
              /\ candidate' = m.next[1]
              /\ m' = [m EXCEPT !.phase = "failed", !.staged = {}, !.next = <<>>]
         ELSE Fail /\ UNCHANGED <<store, candidate>>
    /\ UNCHANGED <<input, foreign>>

\* Something else replaces the candidate while the mutation is under way.
ForeignChange ==
    /\ Working /\ foreign < MaxForeign
    /\ candidate' = EmptyRoot /\ candidate # EmptyRoot
    /\ foreign' = foreign + 1
    /\ UNCHANGED <<m, input, store>>

\* retire_one: a cancelled, failed or finished mutation releases what it holds, one
\* item per call, owner after owner.
Owners == <<"changed", "deleted", "operations", "pending", "leaves", "loaded", "replacement",
            "refs", "segments", "planned", "nextPlanned", "levelSpans", "plannedSpans",
            "ranges", "parents", "staged", "captured", "next">>
Spans == {"segments", "planned", "nextPlanned", "levelSpans", "plannedSpans"}

Holds(n, owner) ==
    IF owner = "captured" THEN n.captured.child # <<>>
    ELSE IF owner = "staged" THEN n.staged # {}
    ELSE n[owner] # <<>>

Released(n, owner) ==
    IF owner = "captured" THEN [n EXCEPT !.captured = EmptyRoot]
    ELSE IF owner = "staged" THEN [n EXCEPT !.staged = @ \ {CHOOSE x \in n.staged : TRUE}]
    ELSE IF owner = "operations" THEN [n EXCEPT !.operations = Without(@, Least(DOMAIN @))]
    ELSE IF owner \in Spans THEN [n EXCEPT ![owner] = <<>>]
    ELSE [n EXCEPT ![owner] = Front(@)]

Retire ==
    /\ m.phase # "done"
    /\ LET held == SelectSeq(Owners, LAMBDA owner : Holds(m, owner))
           n == [m EXCEPT !.phase = "retiring"]
       IN  m' = IF held = <<>> THEN [n EXCEPT !.phase = "done"] ELSE Released(n, held[1])
    /\ UNCHANGED <<input, store, candidate, foreign>>

Step ==
    \/ Upsert \/ Delete \/ Collect \/ SelectSpan \/ Merge \/ Resynchronize
    \/ AppendLeaf \/ AppendEntries
    \/ PlanAssemble \/ PlanValidate \/ PlanSegment \/ PlanEmitParent \/ PlanRetire
    \/ PlanRoot \/ Resume
    \/ EmitLeaf \/ Assemble \/ BeginLevel \/ SegmentLevel \/ EmitInternal \/ RetireLevel
    \/ Cleanup

Next == Step \/ Finish \/ ForeignChange \/ Retire

Spec == Init /\ [][Next]_vars

------------------------------------------------------------------------------
(* Properties                                                              *)

\* The resumable mutation does what the one-shot update_tree does: the step that
\* publishes it makes the candidate the updated tree, which holds exactly the merged
\* entries, and leaves no node unresident that was resident; no other step of the
\* mutation touches the store.
Publishes ==
    /\ candidate' = UpdateTree(candidate, input.changed, input.deleted)
    /\ LoadAllEntries(candidate') = MergeEntries(input.base, input.changed, input.deleted)
    /\ Reachable(candidate') \ store' \subseteq Reachable(candidate) \ store
StepMatchesUpdate ==
    IF m.phase = "ready" /\ candidate = m.captured /\ m'.phase = "failed" THEN Publishes
    ELSE store' = store

\* From the pre-codec barrier to the end, the endpoint strings a mutation holds stay
\* within the admitted peak and the overlay within the admitted node bytes; when it is
\* ready exactly the resident endpoints are left.
HeldEndpoints ==
    Sum(m.refs \o m.ranges \o m.parents, Endpoints)
      + (IF m.next = <<>> THEN 0 ELSE Sum(m.next[1].child, Endpoints))
NodeBytes(node) ==
    IF node.height = 0 THEN LeafHeader + Sum(node.items, EntryBytes)
    ELSE RangeHeader + Sum(node.items, RangeBytes)
PlanCoversOutput ==
    (m.phase \in {"emit-leaves", "assemble", "begin-level", "segment-level", "emit-internal",
                  "retire-level", "cleanup", "ready"} /\ input.changed \o input.deleted # <<>>) =>
      /\ HeldEndpoints <= m.plan.peak
      /\ FoldSet(LAMBDA node, total : total + NodeBytes(node), 0, m.staged) <= m.plan.node
      /\ m.phase = "ready" => HeldEndpoints = m.plan.resident

\* A retired mutation holds nothing, whatever phase it was cancelled in.
RetirementDrains ==
    m.phase = "done" =>
      /\ m.changed = <<>> /\ m.deleted = <<>> /\ m.operations = <<>>
      /\ m.pending \o m.leaves \o m.refs \o m.ranges \o m.parents = <<>>
      /\ m.loaded \o m.replacement = <<>>
      /\ m.staged = {} /\ m.next = <<>> /\ m.captured.child = <<>>
==============================================================================
