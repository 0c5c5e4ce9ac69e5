------------------------------ MODULE RangeTree ------------------------------
(* The range tree (tree format 2) of the sync core: how a sorted list of   *)
(* entries is cut into leaves, how leaves become a root, how a root is     *)
(* updated in place and compared with another one.                         *)
(*                                                                         *)
(* A path is a number in 1..N: its order is the order of the paths, its    *)
(* length is PathBytes[p].  A node is named by its content, so a node and  *)
(* its hash are the same value.  EmptyPath is the empty string a descriptor   *)
(* keeps after its boundary moved to its parent.                           *)
EXTENDS TreeEntries

CONSTANTS
    PathBytes,                      \* the length of every path; 0 for EmptyPath
    LeafAnchors, RangeAnchors,      \* paths whose fingerprint ends in 7 (5) zero bits
    LeafHeader, RangeHeader,        \* bytes of a leaf's and of an internal node's header
    EntryOverhead, RangeOverhead,   \* bytes of a record without its paths
    MinLeafEntries, MaxLeafEntries, MinLeafBytes,
    MinChildren, MaxChildren,
    MaxNodeBytes, MaxDepth

EmptyPath == 0

RangeTreeAssumption ==
    /\ PathBytes[EmptyPath] = 0
    /\ LeafAnchors \subseteq RangeAnchors
    /\ RangeAnchors \subseteq DOMAIN PathBytes
    /\ 2 <= MinChildren /\ MinChildren <= MaxChildren
    /\ \A p, q, r, s \in DOMAIN PathBytes :     \* two ranges fit into one node
         RangeHeader + 2 * RangeOverhead + PathBytes[p] + PathBytes[q] + PathBytes[r] + PathBytes[s]
           <= MaxNodeBytes

------------------------------------------------------------------------------
(* Cutting a stream of records into nodes                                  *)

LeafLimits ==
    [header |-> LeafHeader, min |-> MinLeafEntries, max |-> MaxLeafEntries,
     minBytes |-> MinLeafBytes, anchors |-> LeafAnchors]
RangeLimits ==
    [header |-> RangeHeader, min |-> MinChildren, max |-> MaxChildren,
     minBytes |-> 0, anchors |-> RangeAnchors]

EntryBytes(e) == EntryOverhead + PathBytes[e.path]
RangeBytes(r) == RangeOverhead + PathBytes[r.min] + PathBytes[r.max]

Items(span, seq) == SubSeq(seq, span.first, span.last)

Segmenter(limits) == [first |-> 1, bytes |-> limits.header, spans |-> <<>>]

\* Record i joins the open span: the span ends before it when it would not fit, and
\* after it at an anchor path or at a limit.
Record(seg, limits, i, length, path) ==
    LET full == /\ i > seg.first
                /\ \/ i - seg.first >= limits.max
                   \/ seg.bytes + length > MaxNodeBytes
        first == IF full THEN i ELSE seg.first
        bytes == length + IF full THEN limits.header ELSE seg.bytes
        records == i - first + 1
        ends == \/ records >= limits.min /\ bytes >= limits.minBytes /\ path \in limits.anchors
                \/ records >= limits.max
                \/ bytes = MaxNodeBytes
        before == IF full THEN <<[first |-> seg.first, last |-> i - 1, bytes |-> seg.bytes]>>
                  ELSE <<>>
        after == IF ends THEN <<[first |-> first, last |-> i, bytes |-> bytes]>> ELSE <<>>
    IN  [first |-> IF ends THEN i + 1 ELSE first,
         bytes |-> IF ends THEN limits.header ELSE bytes,
         spans |-> seg.spans \o before \o after]

\* The records after the last boundary are the tail.
FinishTail(seg, count) ==
    IF seg.first > count THEN seg.spans
    ELSE Append(seg.spans, [first |-> seg.first, last |-> count, bytes |-> seg.bytes])

RecordEntry(seg, entries, i) ==
    Record(seg, LeafLimits, i, EntryBytes(entries[i]), entries[i].path)
RecordRange(seg, ranges, i) ==
    Record(seg, RangeLimits, i, RangeBytes(ranges[i]), ranges[i].max)

SegmentEntries(entries) ==
    FoldLeftDomain(LAMBDA seg, i : RecordEntry(seg, entries, i), Segmenter(LeafLimits), entries)
SegmentRanges(ranges) ==
    FoldLeftDomain(LAMBDA seg, i : RecordRange(seg, ranges, i), Segmenter(RangeLimits), ranges)

------------------------------------------------------------------------------
(* Nodes, descriptors and roots                                            *)

LeafRef(entries) ==
    [min |-> entries[1].path, max |-> Last(entries).path,
     node |-> [height |-> 0, items |-> entries],
     files |-> Len(entries), bytes |-> LeafHeader + Sum(entries, EntryBytes), height |-> 0]

ParentRef(children) ==
    LET height == children[1].height + 1
    IN  [min |-> children[1].min, max |-> Last(children).max,
         node |-> [height |-> height, items |-> children],
         files |-> Sum(children, LAMBDA c : c.files),
         bytes |-> RangeHeader + Sum(children, RangeBytes), height |-> height]

\* load_node: the node is stored, and it is the one the descriptor describes.
Loads(range, nodes) ==
    /\ range.node \in nodes
    /\ range = IF range.height = 0 THEN LeafRef(range.node.items) ELSE ParentRef(range.node.items)

EmptyRoot == [files |-> 0, child |-> <<>>]
RootOver(range) == [files |-> range.files, child |-> <<range>>]

\* A descriptor a node may carry, and descriptors of one level, in order.
ValidRange(r) ==
    /\ r.min \in DOMAIN PathBytes \ {EmptyPath} /\ r.max \in DOMAIN PathBytes \ {EmptyPath}
    /\ r.min <= r.max
    /\ r.files > 0 /\ (r.height = 0 => r.files <= MaxLeafEntries)
    /\ r.bytes \in 1..MaxNodeBytes
    /\ r.height <= MaxDepth
ValidNext(previous, r, height) ==
    /\ ValidRange(r) /\ r.height = height
    /\ previous # <<>> => Last(previous).max < r.min
ValidRoot(root) ==
    \/ root.child = <<>> /\ root.files = 0
    \/ /\ root.child # <<>> /\ root.files > 0
       /\ root.child[1].files = root.files /\ ValidRange(root.child[1])

\* Levels are built until one range is left.
RECURSIVE RootFromLeaves(_)
RootFromLeaves(ranges) ==
    IF ranges = <<>> THEN EmptyRoot
    ELSE IF Len(ranges) = 1 THEN RootOver(ranges[1])
    ELSE LET spans == FinishTail(SegmentRanges(ranges), Len(ranges))
         IN  RootFromLeaves([k \in DOMAIN spans |-> ParentRef(Items(spans[k], ranges))])

LeavesOf(spans, entries) == [k \in DOMAIN spans |-> LeafRef(Items(spans[k], entries))]

BuildTree(entries) ==
    RootFromLeaves(LeavesOf(FinishTail(SegmentEntries(entries), Len(entries)), entries))

RECURSIVE LeafRefsUnder(_)
LeafRefsUnder(range) ==
    IF range.height = 0 THEN <<range>>
    ELSE FlattenSeq([i \in DOMAIN range.node.items |-> LeafRefsUnder(range.node.items[i])])

CollectLeafRefs(root) == IF root.child = <<>> THEN <<>> ELSE LeafRefsUnder(root.child[1])
LoadLeafSpan(leaves) == FlattenSeq([i \in DOMAIN leaves |-> leaves[i].node.items])
LoadAllEntries(root) == LoadLeafSpan(CollectLeafRefs(root))

RECURSIVE NodesUnder(_)
NodesUnder(range) ==
    {range.node} \cup
      IF range.height = 0 THEN {}
      ELSE UNION {NodesUnder(range.node.items[i]) : i \in DOMAIN range.node.items}

\* The nodes a root needs in the store.
Reachable(root) == IF root.child = <<>> THEN {} ELSE NodesUnder(root.child[1])

------------------------------------------------------------------------------
(* Updating in place                                                       *)

\* The first leaf that may hold the path; the last leaf when none does.
LeafFor(leaves, path) ==
    LET before == Len(SelectSeq(leaves, LAMBDA r : r.max < path))
    IN  IF before < Len(leaves) THEN before + 1 ELSE Len(leaves)

\* Leaves are appended to the replaced span until a boundary of the new stream falls
\* on the end of an old leaf, or the tree ends.
RECURSIVE Resynchronized(_, _, _)
Resynchronized(leaves, end, entries) ==
    LET seg == SegmentEntries(entries)
        stable == /\ seg.first = Len(entries) + 1 /\ seg.spans # <<>>
                  /\ Last(entries).path = leaves[end].max
    IN  IF end = Len(leaves) \/ stable
          THEN [end |-> end,
                refs |-> LeavesOf(FinishTail(seg, Len(entries)), entries)]
          ELSE Resynchronized(leaves, end + 1, entries \o leaves[end + 1].node.items)

UpdateTree(root, changed, deleted) ==
    LET ops == Operations(changed, deleted)
        leaves == CollectLeafRefs(root)
        start == LeafFor(leaves, Least(DOMAIN ops))
        upTo == LeafFor(leaves, Greatest(DOMAIN ops))
        touched == LoadLeafSpan(SubSeq(leaves, start, upTo))
        new == Resynchronized(leaves, upTo, MergeEntries(touched, changed, deleted))
    IN  IF ops = <<>> THEN root
        ELSE IF leaves = <<>> THEN BuildTree(MergeEntries(<<>>, changed, deleted))
        ELSE RootFromLeaves(SubSeq(leaves, 1, start - 1) \o new.refs
                              \o SubSeq(leaves, new.end + 1, Len(leaves)))

------------------------------------------------------------------------------
(* Reading: differences                                                    *)

\* Two levels are cut where their ranges end at the same path; what follows the last
\* common end is one window.
RECURSIVE AlignRangeWindows(_, _)
AlignRangeWindows(from, to) ==
    LET common == {p \in {from[i].max : i \in DOMAIN from} :
                     \E j \in DOMAIN to : to[j].max = p}
        cut == Least(common)
        upTo(ranges) == SelectSeq(ranges, LAMBDA r : r.max <= cut)
        after(ranges) == SelectSeq(ranges, LAMBDA r : r.max > cut)
    IN  IF from = <<>> /\ to = <<>> THEN {}
        ELSE IF common = {} THEN {<<from, to>>}
        ELSE {<<upTo(from), upTo(to)>>} \cup AlignRangeWindows(after(from), after(to))

ExpandOneLevel(ranges) ==
    FlattenSeq([i \in DOMAIN ranges |->
                  IF ranges[i].height = 0 THEN <<ranges[i]>> ELSE ranges[i].node.items])

SameRange(left, right) ==
    /\ Len(left) = 1 /\ Len(right) = 1
    /\ left[1].min = right[1].min /\ left[1].max = right[1].max
    /\ left[1].node = right[1].node

\* The changed entries of one window: equal ranges are skipped, nodes opened level by
\* level, leaves compared entry by entry.
RECURSIVE WindowDeltas(_, _)
WindowDeltas(from, to) ==
    UNION {LET left == w[1]  right == w[2]
               old == ToSet(LoadLeafSpan(left))
               new == ToSet(LoadLeafSpan(right))
           IN  IF SameRange(left, right) THEN {}
               ELSE IF \E r \in ToSet(left \o right) : r.height > 0
                 THEN WindowDeltas(ExpandOneLevel(left), ExpandOneLevel(right))
               ELSE {<<"old", e>> : e \in old \ new} \cup {<<"new", e>> : e \in new \ old}
             : w \in AlignRangeWindows(from, to)}

ComputeDeltas(from, to) == IF from = to THEN {} ELSE WindowDeltas(from.child, to.child)
==============================================================================
