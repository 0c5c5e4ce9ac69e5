----------------------------- MODULE RangeRebuild -----------------------------
(* A tree of format 2 built from nothing (ReplacementRebuildV2): the rows  *)
(* are sorted and checked, the whole tree is planned on spans of the rows  *)
(* alone, the host admits the plan's bytes, and only then nodes and        *)
(* descriptors are made, level by level, and the finished graph is walked  *)
(* once.  A parent takes over the boundary paths of its first and last     *)
(* child instead of copying them.  Meters follow the descriptors through   *)
(* all of this and through giving the build up, which drops one thing per  *)
(* step from any phase (WorkMemory).                                       *)
(*                                                                         *)
(* The sort is one step here (StableSort models its steps); the limits in  *)
(* the millions on nodes and entries are out of reach and left out.        *)
EXTENDS RangeTree, WorkMemory

CONSTANT Inputs

VARIABLES b, entryMeter, rangeMeter

vars == <<b, entryMeter, rangeMeter>>

Endpoints(range) == [strings |-> 2, bytes |-> PathBytes[range.min] + PathBytes[range.max]]
AllEndpoints(ranges) ==
    FoldLeft(LAMBDA total, range : AddStrings(total, Endpoints(range)), NoStrings, ranges)
PathStrings(rows) == [strings |-> Len(rows), bytes |-> Sum(rows, LAMBDA e : PathBytes[e.path])]

NoOutput == [nodes |-> 0, payload |-> 0, endpoints |-> 0, peak |-> 0, resident |-> 0]

\* new_metered_with_workspace
Init ==
    \E rows \in Inputs :
      /\ b = [phase |-> "sort", given |-> rows, sorter |-> <<rows>>, entries |-> <<>>,
              index |-> 1, seg |-> Segmenter(LeafLimits), spans |-> <<>>, leafSpans |-> <<>>,
              planned |-> <<>>, nextPlanned |-> <<>>, plannedSpans |-> <<>>,
              internalSpans |-> <<>>, plan |-> NoOutput, emitted |-> NoOutput, internals |-> 0,
              ranges |-> <<>>, nextRanges |-> <<>>, root |-> <<>>, closure |-> <<>>,
              descriptors |-> {}, store |-> {}]
      /\ entryMeter = Accepted(NoInputMeter, <<rows>>, PathStrings(rows))
      /\ rangeMeter = NoRangesMeter

SameMeters == UNCHANGED <<entryMeter, rangeMeter>>
Rows == Content(b.entries)
Checked(ok, next) == b' = IF ok THEN next ELSE [b EXCEPT !.phase = "failed"]

------------------------------------------------------------------------------
(* Planning on the rows                                                    *)

Sort ==
    /\ b.phase = "sort"
    /\ LET rows == <<StablySorted(Content(b.sorter), PathOf)>>
       IN  /\ b' = [b EXCEPT !.sorter = <<>>, !.entries = rows, !.phase = "validate-entries"]
           /\ entryMeter' = Transferred(entryMeter, rows)
    /\ UNCHANGED rangeMeter

\* The same path twice ends the build.
ValidateEntries ==
    /\ b.phase = "validate-entries"
    /\ IF b.index > Len(Rows)
         THEN b' = [b EXCEPT !.index = 1, !.seg = Segmenter(LeafLimits), !.phase = "segment-leaves"]
         ELSE Checked(b.index > 1 => Rows[b.index - 1].path < Rows[b.index].path,
                      [b EXCEPT !.index = @ + 1])
    /\ SameMeters

SegmentLeaves ==
    /\ b.phase = "segment-leaves"
    /\ b' = IF b.index > Len(Rows)
              THEN [b EXCEPT !.leafSpans = FinishTail(b.seg, Len(Rows)), !.index = 1,
                             !.phase = "plan-leaves"]
              ELSE [b EXCEPT !.seg = RecordEntry(@, Rows, b.index), !.index = @ + 1]
    /\ SameMeters

\* A planned range names its first and last row instead of their paths.
PlannedMin(range) == Rows[range.first].path
PlannedMax(range) == Rows[range.last].path
EndpointPairBytes(range) == PathBytes[PlannedMin(range)] + PathBytes[PlannedMax(range)]
AddNode(plan, range) ==
    [plan EXCEPT !.nodes = @ + 1, !.payload = @ + range.bytes,
                 !.endpoints = @ + EndpointPairBytes(range)]

StartPlannedRangeLevelOrRoot(n) ==
    IF Len(n.planned) <= 1 THEN [n EXCEPT !.phase = "plan-root"]
    ELSE IF n.planned[1].height >= MaxDepth THEN [n EXCEPT !.phase = "failed"]
    ELSE [n EXCEPT !.index = 1, !.phase = "plan-validate"]

PlanLeafDescriptors ==
    /\ b.phase = "plan-leaves"
    /\ b' = IF b.index > Len(b.leafSpans) THEN StartPlannedRangeLevelOrRoot(b)
            ELSE LET span == b.leafSpans[b.index]
                     range == [first |-> span.first, last |-> span.last, bytes |-> span.bytes,
                               files |-> span.last - span.first + 1, height |-> 0]
                 IN  [b EXCEPT !.plan = AddNode(@, range), !.planned = Append(@, range),
                               !.index = @ + 1]
    /\ SameMeters

PlanValidateRanges ==
    /\ b.phase = "plan-validate"
    /\ IF b.index > Len(b.planned)
         THEN b' = [b EXCEPT !.index = 1, !.seg = Segmenter(RangeLimits), !.phase = "plan-segment"]
         ELSE LET range == b.planned[b.index]
              IN  Checked(/\ range.height = b.planned[1].height
                          /\ range.first <= range.last /\ range.last <= Len(Rows)
                          /\ range.bytes \in 1..MaxNodeBytes
                          /\ b.index > 1 => b.planned[b.index - 1].last < range.first,
                          [b EXCEPT !.index = @ + 1])
    /\ SameMeters

PlanSegmentRanges ==
    /\ b.phase = "plan-segment"
    /\ b' = IF b.index > Len(b.planned)
              THEN [b EXCEPT !.plannedSpans = FinishTail(b.seg, Len(b.planned)),
                             !.nextPlanned = <<>>, !.index = 1, !.phase = "plan-parents"]
              ELSE LET range == b.planned[b.index]
                   IN  [b EXCEPT !.index = @ + 1,
                                 !.seg = Record(@, RangeLimits, b.index,
                                                RangeOverhead + EndpointPairBytes(range),
                                                PlannedMax(range))]
    /\ SameMeters

PlanEmitParents ==
    /\ b.phase = "plan-parents"
    /\ b' = IF b.index > Len(b.plannedSpans) THEN [b EXCEPT !.index = 1, !.phase = "plan-retire"]
            ELSE LET span == b.plannedSpans[b.index]
                     children == Items(span, b.planned)
                     range == [first |-> children[1].first, last |-> Last(children).last,
                               files |-> Sum(children, LAMBDA c : c.files),
                               bytes |-> span.bytes, height |-> children[1].height + 1]
                 IN  [b EXCEPT !.plan = AddNode(@, range), !.nextPlanned = Append(@, range),
                               !.internalSpans = Append(@, [span |-> span, child |-> children[1].height]),
                               !.index = @ + 1]
    /\ SameMeters

PlanRetireRanges ==
    /\ b.phase = "plan-retire"
    /\ b' = IF b.planned # <<>> THEN [b EXCEPT !.planned = Front(@)]
            ELSE StartPlannedRangeLevelOrRoot([b EXCEPT !.planned = b.nextPlanned,
                                                        !.nextPlanned = <<>>])
    /\ SameMeters

\* At most every descriptor and the root's copy of one live at the same time.
PlanRoot ==
    /\ b.phase = "plan-root"
    /\ LET root == IF b.planned = <<>> THEN 0 ELSE EndpointPairBytes(b.planned[1])
       IN  b' = [b EXCEPT !.plan.peak = b.plan.endpoints + root, !.plan.resident = root,
                          !.planned = <<>>, !.nextPlanned = <<>>, !.plannedSpans = <<>>,
                          !.phase = "plan-ready"]
    /\ SameMeters

\* resume_after_output_memory_plan_v1, with the plan just read.
Resume ==
    /\ b.phase = "plan-ready"
    /\ b' = [b EXCEPT !.spans = b.leafSpans, !.leafSpans = <<>>, !.index = 1, !.phase = "emit-leaves"]
    /\ SameMeters

------------------------------------------------------------------------------
(* Making nodes and descriptors                                            *)

Emitted(n, range) == [n EXCEPT !.emitted.nodes = @ + 1, !.emitted.payload = @ + range.bytes]

StartRangeLevelOrRoot(n) ==
    IF n.ranges = <<>> \/ Len(Content(n.ranges)) <= 1
      THEN IF /\ n.emitted.nodes = n.plan.nodes /\ n.emitted.payload = n.plan.payload
              /\ n.internals = Len(n.internalSpans)
             THEN [n EXCEPT !.internalSpans = <<>>, !.phase = "root"]
             ELSE [n EXCEPT !.phase = "failed"]
    ELSE IF Content(n.ranges)[1].height >= MaxDepth THEN [n EXCEPT !.phase = "failed"]
    ELSE [n EXCEPT !.index = 1, !.phase = "validate-ranges"]

EmitLeaves ==
    /\ b.phase = "emit-leaves"
    /\ IF b.index > Len(b.spans)
         THEN b' = StartRangeLevelOrRoot([b EXCEPT !.spans = <<>>, !.index = 1]) /\ SameMeters
         ELSE LET span == b.spans[b.index]
                  range == LeafRef(Items(span, Rows))
                  ranges == Pushed(b.ranges, range)
              IN  /\ Checked(range.bytes = span.bytes,
                             Emitted([b EXCEPT !.store = @ \cup {range.node}, !.ranges = ranges,
                                               !.index = @ + 1], range))
                  /\ rangeMeter' = PushVector(rangeMeter, "ranges", Backing(ranges), Endpoints(range))
                  /\ UNCHANGED entryMeter

ValidateRanges ==
    /\ b.phase = "validate-ranges"
    /\ LET ranges == Content(b.ranges)
       IN  IF b.index > Len(ranges)
             THEN b' = [b EXCEPT !.index = 1, !.seg = Segmenter(RangeLimits), !.phase = "segment-ranges"]
             ELSE Checked(ValidNext(SubSeq(ranges, 1, b.index - 1), ranges[b.index], ranges[1].height),
                          [b EXCEPT !.index = @ + 1])
    /\ SameMeters

SegmentRangesOnce ==
    /\ b.phase = "segment-ranges"
    /\ LET ranges == Content(b.ranges)
       IN  b' = IF b.index > Len(ranges)
                  THEN [b EXCEPT !.spans = FinishTail(b.seg, Len(ranges)), !.index = 1,
                                 !.phase = "emit-parents"]
                  ELSE [b EXCEPT !.seg = RecordRange(@, ranges, b.index), !.index = @ + 1]
    /\ SameMeters

\* The boundary paths move from the outer children to the parent.
Moved(ranges, span) ==
    [[ranges EXCEPT ![span.first].min = EmptyPath] EXCEPT ![span.last].max = EmptyPath]

EmitParents ==
    /\ b.phase = "emit-parents"
    /\ IF b.index > Len(b.spans)
         THEN b' = [b EXCEPT !.spans = <<>>, !.index = 1, !.phase = "retire-ranges"] /\ SameMeters
         ELSE LET span == b.spans[b.index]
                  ranges == Content(b.ranges)
                  parent == ParentRef(Items(span, ranges))
                  parents == Pushed(b.nextRanges, parent)
                  planned == b.internals < Len(b.internalSpans)
              IN  /\ Checked(/\ planned
                             /\ b.internalSpans[b.internals + 1] = [span |-> span, child |-> ranges[1].height]
                             /\ parent.bytes = span.bytes,
                             Emitted([b EXCEPT !.store = @ \cup {parent.node}, !.index = @ + 1,
                                               !.ranges = <<Moved(ranges, span)>>,
                                               !.nextRanges = parents, !.internals = @ + 1], parent))
                  /\ rangeMeter' =
                       LET first == ReplaceVectorEndpoint(rangeMeter, "ranges", PathBytes[parent.min])
                           both == ReplaceVectorEndpoint(first, "ranges", PathBytes[parent.max])
                       IN  PushVector(both, "nextRanges", Backing(parents), Endpoints(parent))
                  /\ UNCHANGED entryMeter

RetireRanges ==
    /\ b.phase = "retire-ranges"
    /\ IF b.ranges = <<>>
         THEN /\ b' = StartRangeLevelOrRoot([b EXCEPT !.ranges = b.nextRanges, !.nextRanges = <<>>])
              /\ rangeMeter' = MoveVector(rangeMeter, "nextRanges", "ranges")
       ELSE IF Exhausted(b.ranges)
         THEN /\ b' = [b EXCEPT !.ranges = <<>>]
              /\ rangeMeter' = ReleaseVector(rangeMeter, "ranges")
       ELSE /\ b' = [b EXCEPT !.ranges = <<Front(Content(@))>>]
            /\ rangeMeter' = RemoveVector(rangeMeter, "ranges", Endpoints(Last(Content(b.ranges))))
    /\ UNCHANGED entryMeter

------------------------------------------------------------------------------
(* The root, and the walk over the finished graph                          *)

\* The closure starts from a copy of the root's descriptor.
NewClosure(child) ==
    [pending |-> IF child = <<>> THEN <<>> ELSE <<child>>, expanding |-> <<>>, descriptors |-> {}]

Root ==
    /\ b.phase = "root"
    /\ LET child == IF b.ranges = <<>> THEN <<>> ELSE Content(b.ranges)
           removed == IF child = <<>> THEN rangeMeter
                      ELSE RemoveVector(rangeMeter, "ranges", Endpoints(child[1]))
           closure == NewClosure(child)
       IN  /\ b' = [b EXCEPT !.ranges = <<>>, !.root = <<[files |-> Len(Rows), child |-> child]>>,
                             !.closure = <<closure>>, !.phase = "closure"]
           /\ rangeMeter' = AdoptVector(ReleaseVector(removed, "ranges"), "pending",
                                        Backing(closure.pending), AllEndpoints(child))
    /\ UNCHANGED entryMeter

Walk == Content(b.closure)
NextRange == Last(Content(Walk.pending))
MetBefore(range) == {d \in Walk.descriptors : d.node = range.node}

ExpandOne ==
    /\ b.phase = "closure" /\ Walk.expanding # <<>>
    /\ IF Exhausted(Walk.expanding)
         THEN /\ b' = [b EXCEPT !.closure[1].expanding = <<>>]
              /\ rangeMeter' = ReleaseVector(rangeMeter, "expanding")
         ELSE LET child == Content(Walk.expanding)[1]
                  pending == Pushed(Walk.pending, child)
              IN  /\ b' = [b EXCEPT !.closure[1].expanding = Drop(@), !.closure[1].pending = pending]
                  /\ rangeMeter' = PushVector(RemoveVector(rangeMeter, "expanding", Endpoints(child)),
                                              "pending", Backing(pending), Endpoints(child))
    /\ UNCHANGED entryMeter

\* A node met again must carry the same descriptor; a new one is read and checked.
Visit ==
    /\ b.phase = "closure" /\ Walk.expanding = <<>> /\ Walk.pending # <<>> /\ ~Exhausted(Walk.pending)
    /\ LET range == NextRange
           known == MetBefore(range) # {}
           children == IF range.height = 0 THEN <<>> ELSE <<range.node.items>>
           fewer == RemoveVector(rangeMeter, "pending", Endpoints(range))
           popped == [b EXCEPT !.closure[1].pending = <<Front(Content(@))>>]
       IN  /\ Checked(IF known THEN MetBefore(range) = {range}
                      ELSE range.height <= MaxDepth /\ Loads(range, b.store) /\ ValidRange(range),
                      IF known THEN popped
                      ELSE [popped EXCEPT !.closure[1].expanding = children,
                                          !.closure[1].descriptors = @ \cup {range}])
           /\ rangeMeter' = IF known THEN fewer
                            ELSE AddDescriptor(
                                   IF children = <<>> THEN fewer
                                   ELSE AdoptVector(fewer, "expanding", Backing(children),
                                                    AllEndpoints(range.node.items)),
                                   Endpoints(range))
    /\ UNCHANGED entryMeter

EndClosure ==
    /\ b.phase = "closure" /\ Walk.expanding = <<>>
    /\ \/ /\ Exhausted(Walk.pending)
          /\ b' = [b EXCEPT !.closure[1].pending = <<>>]
          /\ rangeMeter' = ReleaseVector(rangeMeter, "pending")
       \/ /\ Walk.pending = <<>>
          /\ b' = [b EXCEPT !.closure = <<>>, !.descriptors = Walk.descriptors,
                            !.phase = "cleanup-closure"]
          /\ UNCHANGED rangeMeter
    /\ UNCHANGED entryMeter

AnyOf(S) == CHOOSE x \in S : TRUE

CleanupClosure ==
    /\ b.phase = "cleanup-closure"
    /\ IF b.descriptors = {}
         THEN b' = [b EXCEPT !.phase = "cleanup-entries"] /\ UNCHANGED rangeMeter
         ELSE LET range == AnyOf(b.descriptors)
              IN  /\ b' = [b EXCEPT !.descriptors = @ \ {range}]
                  /\ rangeMeter' = RemoveDescriptor(rangeMeter, Endpoints(range))
    /\ UNCHANGED entryMeter

CleanupEntries ==
    /\ b.phase = "cleanup-entries"
    /\ IF b.entries = <<>> THEN b' = [b EXCEPT !.phase = "ready"] /\ UNCHANGED entryMeter
       ELSE IF Rows = <<>>
         THEN b' = [b EXCEPT !.entries = <<>>] /\ entryMeter' = ReleaseEntries(entryMeter)
       ELSE /\ b' = [b EXCEPT !.entries = <<Front(Rows)>>]
            /\ entryMeter' = RetireEntry(entryMeter, PathBytes[Last(Rows).path])
    /\ UNCHANGED rangeMeter

\* One unit of step(), free transitions included.
Step ==
    \/ Sort \/ ValidateEntries \/ SegmentLeaves \/ PlanLeafDescriptors \/ PlanValidateRanges
    \/ PlanSegmentRanges \/ PlanEmitParents \/ PlanRetireRanges \/ PlanRoot
    \/ EmitLeaves \/ ValidateRanges \/ SegmentRangesOnce \/ EmitParents \/ RetireRanges
    \/ Root \/ ExpandOne \/ Visit \/ EndClosure \/ CleanupClosure \/ CleanupEntries

\* take_ready: the caller owns root and store.
TakeReady ==
    /\ b.phase = "ready"
    /\ b' = [b EXCEPT !.root = <<>>, !.store = {}, !.phase = "retiring"]
    /\ SameMeters

------------------------------------------------------------------------------
(* retire_one                                                              *)

PlanOwners ==
    <<"spans", "leafSpans", "planned", "nextPlanned", "plannedSpans", "internalSpans">>
Retired(n) == b' = [n EXCEPT !.phase = "retiring"]
InputGone == b.sorter = <<>> /\ b.entries = <<>>
PlanGone == InputGone /\ \A i \in DOMAIN PlanOwners : b[PlanOwners[i]] = <<>>
RangesGone == PlanGone /\ b.ranges = <<>> /\ b.nextRanges = <<>>

\* The sorter drops its rows unmetered; the meter is reset when it is gone.
RetireSorter ==
    /\ b.sorter # <<>>
    /\ IF Exhausted(b.sorter) THEN Retired([b EXCEPT !.sorter = <<>>]) /\ entryMeter' = NoInputMeter
       ELSE Retired([b EXCEPT !.sorter = Drop(@)]) /\ UNCHANGED entryMeter
    /\ UNCHANGED rangeMeter

RetireEntries ==
    /\ b.sorter = <<>> /\ b.entries # <<>>
    /\ IF Exhausted(b.entries)
         THEN Retired([b EXCEPT !.entries = <<>>]) /\ entryMeter' = ReleaseEntries(entryMeter)
         ELSE /\ Retired([b EXCEPT !.entries = Drop(@)])
              /\ entryMeter' = RetireEntry(entryMeter, PathBytes[Rows[1].path])
    /\ UNCHANGED rangeMeter

RetirePlan ==
    /\ InputGone /\ ~PlanGone
    /\ LET i == Least({j \in DOMAIN PlanOwners : b[PlanOwners[j]] # <<>>})
       IN  Retired([b EXCEPT ![PlanOwners[i]] = Rest(@)])
    /\ SameMeters

RetireVector(vector) ==
    /\ PlanGone /\ b[vector] # <<>> /\ (vector = "nextRanges" => b.ranges = <<>>)
    /\ IF Exhausted(b[vector])
         THEN /\ Retired([b EXCEPT ![vector] = <<>>])
              /\ rangeMeter' = ReleaseVector(rangeMeter, vector)
         ELSE /\ Retired([b EXCEPT ![vector] = Drop(@)])
              /\ rangeMeter' = RemoveVector(rangeMeter, vector, Endpoints(Content(b[vector])[1]))
    /\ UNCHANGED entryMeter

RetireRoot ==
    /\ RangesGone /\ b.root # <<>>
    /\ Retired([b EXCEPT !.root = <<>>])
    /\ SameMeters

RetireWalk ==
    /\ RangesGone /\ b.root = <<>> /\ b.closure # <<>>
    /\ LET vector == IF Walk.pending # <<>> THEN "pending" ELSE "expanding"
       IN  IF Walk.pending # <<>> \/ Walk.expanding # <<>>
             THEN IF Exhausted(Walk[vector])
                    THEN /\ Retired([b EXCEPT !.closure[1][vector] = <<>>])
                         /\ rangeMeter' = ReleaseVector(rangeMeter, vector)
                    ELSE /\ Retired([b EXCEPT !.closure[1][vector] = Drop(@)])
                         /\ rangeMeter' = RemoveVector(rangeMeter, vector,
                                                       Endpoints(Content(Walk[vector])[1]))
           ELSE IF Walk.descriptors # {}
             THEN LET range == AnyOf(Walk.descriptors)
                  IN  /\ Retired([b EXCEPT !.closure[1].descriptors = @ \ {range}])
                      /\ rangeMeter' = RemoveDescriptor(rangeMeter, Endpoints(range))
           ELSE Retired([b EXCEPT !.closure = <<>>]) /\ UNCHANGED rangeMeter
    /\ UNCHANGED entryMeter

RetireDescriptors ==
    /\ RangesGone /\ b.root = <<>> /\ b.closure = <<>> /\ b.descriptors # {}
    /\ LET range == AnyOf(b.descriptors)
       IN  /\ Retired([b EXCEPT !.descriptors = @ \ {range}])
           /\ rangeMeter' = RemoveDescriptor(rangeMeter, Endpoints(range))
    /\ UNCHANGED entryMeter

RetireStore ==
    /\ RangesGone /\ b.root = <<>> /\ b.closure = <<>> /\ b.descriptors = {} /\ b.store # {}
    /\ Retired([b EXCEPT !.store = @ \ {AnyOf(@)}])
    /\ SameMeters

Retire ==
    \/ RetireSorter \/ RetireEntries \/ RetirePlan
    \/ \E vector \in {"ranges", "nextRanges"} : RetireVector(vector)
    \/ RetireRoot \/ RetireWalk \/ RetireDescriptors \/ RetireStore

Building == b.phase # "retiring"

Next == (Building /\ (Resume \/ Step \/ TakeReady)) \/ Retire

Spec == Init /\ [][Next]_vars

------------------------------------------------------------------------------

Distinct(rows) == \A i, j \in DOMAIN rows : rows[i].path = rows[j].path => i = j

\* The tree of a finished build is the one build_tree makes of the same rows, its store
\* holds that tree's nodes and no others; what was planned on the rows alone is what the
\* nodes turn out to be, so only a doubled path or too deep a tree can end the build.
RebuildIsCanonical ==
    LET tree == BuildTree(StablySorted(b.given, PathOf))
    IN  /\ b.phase = "ready" => b.root = <<tree>> /\ b.store = Reachable(tree)
        /\ b.phase = "failed" /\ Distinct(b.given) => tree.child[1].height > MaxDepth

VectorRows(owner) == IF owner = <<>> THEN <<>> ELSE Content(owner)
WalkOf == IF b.closure = <<>> THEN NewClosure(<<>>) ELSE Walk
Described == WalkOf.descriptors \cup b.descriptors

\* The meters say what the build owns, to the row and the byte, in every phase and
\* however far giving the build up has come.  (While the sorter owns the rows, their
\* meter is not reported.)
MetersExact ==
    /\ rangeMeter =
         [ranges |-> Backing(b.ranges), nextRanges |-> Backing(b.nextRanges),
          pending |-> Backing(WalkOf.pending), expanding |-> Backing(WalkOf.expanding),
          vectorPaths |-> AllEndpoints(VectorRows(b.ranges) \o VectorRows(b.nextRanges)
                            \o VectorRows(WalkOf.pending) \o VectorRows(WalkOf.expanding)),
          descriptors |-> Cardinality(Described),
          descriptorPaths |-> FoldSet(LAMBDA d, n : AddStrings(n, Endpoints(d)), NoStrings, Described),
          valid |-> TRUE]
    /\ b.sorter = <<>> =>
         entryMeter = [entries |-> Backing(b.entries), paths |-> PathStrings(VectorRows(b.entries)),
                       valid |-> TRUE]

\* The bytes the host admitted at the plan cover the endpoints alive at any later moment:
\* vectors, descriptors and the root's own copy; and what stays is exactly what was
\* admitted as resident.
PlanCoversOutput ==
    LET rootBytes == IF b.root = <<>> THEN 0 ELSE AllEndpoints(b.root[1].child).bytes
    IN  b.plan.peak > 0 =>
          /\ rangeMeter.vectorPaths.bytes + rangeMeter.descriptorPaths.bytes + rootBytes
               <= b.plan.peak
          /\ b.phase = "ready" => rootBytes = b.plan.resident
==============================================================================
