------------------------------ MODULE WorkMemory ------------------------------
(* The meters of a rebuild's worksets: what a component believes it owns,  *)
(* kept up to date by arithmetic at every move instead of by walking the   *)
(* owners.  An allocation is <<>> before it exists and <<rows>> while it   *)
(* does, empty or not.  A meter of strings counts them and their bytes.    *)
(* `valid` is the sticky counters_valid flag: every update ends by         *)
(* checking the meter against itself.  A counter below zero stands for the *)
(* saturated one whose flag is cleared.                                    *)
EXTENDS Integers, Sequences

Content(owner) == owner[1]
Exhausted(owner) == owner # <<>> /\ Content(owner) = <<>>
Drop(owner) == <<SubSeq(Content(owner), 2, Len(Content(owner)))>>
Pushed(owner, x) == IF owner = <<>> THEN <<<<x>>>> ELSE <<Append(Content(owner), x)>>

NoBacking == [owners |-> 0, rows |-> 0]

\* VecBackingMemory::allocated
Backing(allocation) ==
    IF allocation = <<>> THEN NoBacking ELSE [owners |-> 1, rows |-> Len(allocation[1])]

RemoveSlot(backing) == [backing EXCEPT !.rows = @ - 1]

\* VecBackingAggregateMemory: several allocations of one slot type.
AddComponent(aggregate, backing) ==
    [owners |-> aggregate.owners + 1, rows |-> aggregate.rows + backing.rows]
RemoveComponent(aggregate, backing) ==
    [owners |-> aggregate.owners - 1, rows |-> aggregate.rows - backing.rows]
ReplaceComponent(aggregate, before, after) ==
    AddComponent(RemoveComponent(aggregate, before), after)

NoStrings == [strings |-> 0, bytes |-> 0]
OneString(size) == [strings |-> 1, bytes |-> size]
AddStrings(meter, other) ==
    [strings |-> meter.strings + other.strings, bytes |-> meter.bytes + other.bytes]
SubtractStrings(meter, other) ==
    [strings |-> meter.strings - other.strings, bytes |-> meter.bytes - other.bytes]

Sane(component) == \A field \in DOMAIN component : component[field] >= 0

\* ReplacementV1EntriesMemory: the rows of the input on their way through the V1 build.
EntriesMeter(input, paths) ==
    [input |-> input, groups |-> NoBacking, sorting |-> 0, rows |-> NoBacking,
     leaf |-> NoBacking, retiring |-> NoBacking, paths |-> paths, valid |-> TRUE]

CheckEntries(meter) ==
    [meter EXCEPT !.valid =
      /\ @
      /\ \A field \in {"input", "groups", "rows", "leaf", "retiring", "paths"} : Sane(meter[field])
      /\ meter.sorting >= 0
      /\ meter.input.rows + meter.groups.rows + meter.sorting + meter.rows.rows
           + meter.leaf.rows + meter.retiring.rows = meter.paths.strings]

InputToNewGroup(meter, group) ==
    CheckEntries([meter EXCEPT !.input = RemoveSlot(@), !.groups = AddComponent(@, group)])
InputToExistingGroup(meter, before, after) ==
    CheckEntries([meter EXCEPT !.input = RemoveSlot(@),
                               !.groups = ReplaceComponent(@, before, after)])
GroupToSort(meter, group) ==
    CheckEntries([meter EXCEPT !.groups = RemoveComponent(@, group), !.sorting = @ + group.rows])
SortToRows(meter, rows) ==
    CheckEntries([meter EXCEPT !.valid = @ /\ meter.sorting = rows.rows /\ meter.rows.owners = 0,
                               !.sorting = 0, !.rows = rows])
RowsToLeaf(meter, owned, leaf) ==
    CheckEntries([meter EXCEPT !.rows = RemoveSlot(@), !.leaf = leaf,
                               !.valid = @ /\ (owned <=> meter.leaf.owners = 1)])
LeafToRetiringRows(meter, rows) ==
    CheckEntries([meter EXCEPT !.leaf = NoBacking, !.retiring = rows,
                               !.valid = @ /\ meter.leaf = rows /\ meter.retiring.owners = 0])
\* One row of an allocation is dropped with its path.
RetireRow(meter, field, size) ==
    CheckEntries([meter EXCEPT ![field] = RemoveSlot(@),
                               !.paths = SubtractStrings(@, OneString(size))])
RetireGroupEntry(meter, before, after, size) ==
    CheckEntries([meter EXCEPT !.groups = ReplaceComponent(@, before, after),
                               !.paths = SubtractStrings(@, OneString(size))])
RetireSortingRow(meter, size) ==
    CheckEntries([meter EXCEPT !.sorting = @ - 1, !.paths = SubtractStrings(@, OneString(size))])
\* An exhausted allocation is freed.
ReleaseRows(meter, field) ==
    CheckEntries([meter EXCEPT ![field] = NoBacking, !.valid = @ /\ meter[field].rows = 0])
ReleaseGroup(meter, group) ==
    CheckEntries([meter EXCEPT !.groups = RemoveComponent(@, group), !.valid = @ /\ group.rows = 0])

\* ReplacementV1GraphMemory: hashes, labels and identities of the V1 build.
NoGraphMeter ==
    [groupKeys |-> NoStrings, prefix |-> NoStrings, leafHashes |-> NoBacking,
     hashes |-> NoBacking, children |-> NoBacking, sorting |-> 0, retiring |-> NoBacking,
     childLabels |-> NoStrings, rootChildren |-> NoBacking, rootLabels |-> NoStrings,
     identities |-> NoStrings, valid |-> TRUE]

CheckGraph(meter) ==
    [meter EXCEPT !.valid =
      /\ @
      /\ \A field \in DOMAIN meter \ {"sorting", "valid"} : Sane(meter[field])
      /\ meter.sorting >= 0 /\ meter.prefix.strings <= 1 /\ meter.identities.strings <= 2
      /\ meter.children.rows + meter.sorting + meter.retiring.rows = meter.childLabels.strings
      /\ meter.rootChildren.rows = meter.rootLabels.strings]

GraphMeter(identities) == CheckGraph([NoGraphMeter EXCEPT !.identities = identities])
\* A string moves between two owners of the meter, or leaves it.
AddGroupKey(meter, size) ==
    CheckGraph([meter EXCEPT !.groupKeys = AddStrings(@, OneString(size))])
GroupKeyToPrefix(meter, size) ==
    CheckGraph([meter EXCEPT !.groupKeys = SubtractStrings(@, OneString(size)),
                             !.prefix = AddStrings(@, OneString(size)),
                             !.valid = @ /\ meter.prefix.strings = 0])
RetireString(meter, field, size) ==
    CheckGraph([meter EXCEPT ![field] = SubtractStrings(@, OneString(size))])
RefreshLeafHashes(meter, hashes) == CheckGraph([meter EXCEPT !.leafHashes = hashes])
LeafHashesToHashes(meter) ==
    CheckGraph([meter EXCEPT !.hashes = meter.leafHashes, !.leafHashes = NoBacking,
                             !.valid = @ /\ meter.hashes.owners = 0])
RetireHash(meter) == CheckGraph([meter EXCEPT !.hashes = RemoveSlot(@)])
ReleaseBacking(meter, field) ==
    CheckGraph([meter EXCEPT ![field] = NoBacking, !.valid = @ /\ meter[field].rows = 0])
PushChild(meter, size, children) ==
    CheckGraph([meter EXCEPT !.childLabels = AddStrings(@, OneString(size)), !.children = children])
ChildrenToSort(meter) ==
    CheckGraph([meter EXCEPT !.sorting = meter.children.rows, !.children = NoBacking,
                             !.valid = @ /\ meter.sorting = 0])
SortToChildren(meter, children) ==
    CheckGraph([meter EXCEPT !.sorting = 0, !.children = children,
                             !.valid = @ /\ meter.sorting = children.rows])
ChildrenToRetiring(meter) ==
    CheckGraph([meter EXCEPT !.retiring = meter.children, !.children = NoBacking,
                             !.valid = @ /\ meter.retiring.owners = 0])
RetireSortingChild(meter, size) ==
    CheckGraph([meter EXCEPT !.sorting = @ - 1,
                             !.childLabels = SubtractStrings(@, OneString(size))])
RetireChildFromVec(meter, size, children) ==
    CheckGraph([meter EXCEPT !.childLabels = SubtractStrings(@, OneString(size)),
                             !.children = children])
RetireChildFromIter(meter, size) ==
    CheckGraph([meter EXCEPT !.retiring = RemoveSlot(@),
                             !.childLabels = SubtractStrings(@, OneString(size))])
PrefixToRootChild(meter, size, children) ==
    CheckGraph([meter EXCEPT !.prefix = SubtractStrings(@, OneString(size)),
                             !.rootLabels = AddStrings(@, OneString(size)),
                             !.rootChildren = children])
RetireRootChild(meter, size, children) ==
    CheckGraph([meter EXCEPT !.rootLabels = SubtractStrings(@, OneString(size)),
                             !.rootChildren = children])
\* The root's labels and the identities now belong to the root, which has its own meter.
RootToMetadata(meter) ==
    CheckGraph([meter EXCEPT
      !.rootChildren = NoBacking, !.rootLabels = NoStrings, !.identities = NoStrings,
      !.valid = /\ @ /\ meter.groupKeys.strings = 0 /\ meter.prefix.strings = 0
                /\ \A field \in {"leafHashes", "hashes", "children", "retiring"} :
                     meter[field].owners = 0
                /\ meter.sorting = 0 /\ meter.childLabels.strings = 0
                /\ meter.rootChildren.rows = meter.rootLabels.strings
                /\ meter.identities.strings = 2])

\* ReplacementInputMemory: rows handed to a build, and what the V2 build still has of them.
NoInputMeter == [entries |-> NoBacking, paths |-> NoStrings, valid |-> TRUE]
CheckInput(meter) ==
    [meter EXCEPT !.valid = /\ @ /\ Sane(meter.entries) /\ Sane(meter.paths)
                            /\ meter.entries.rows = meter.paths.strings]
Accepted(meter, owner, paths) ==
    CheckInput([meter EXCEPT !.entries = Backing(owner), !.paths = AddStrings(@, paths)])
Transferred(meter, owner) == CheckInput([meter EXCEPT !.entries = Backing(owner)])
RetireEntry(meter, size) ==
    CheckInput([meter EXCEPT !.entries = RemoveSlot(@),
                             !.paths = SubtractStrings(@, OneString(size))])
ReleaseEntries(meter) ==
    CheckInput([meter EXCEPT !.entries = NoBacking,
                             !.valid = @ /\ meter.entries.rows = 0 /\ meter.paths.strings = 0])

\* ReplacementV2RangesMemory: the four vectors of ranges and the closure's descriptors.
\* A range owns two endpoint strings.
NoRangesMeter ==
    [ranges |-> NoBacking, nextRanges |-> NoBacking, pending |-> NoBacking,
     expanding |-> NoBacking, vectorPaths |-> NoStrings,
     descriptors |-> 0, descriptorPaths |-> NoStrings, valid |-> TRUE]

RangeVectors == {"ranges", "nextRanges", "pending", "expanding"}

CheckRanges(meter) ==
    [meter EXCEPT !.valid =
      /\ @
      /\ \A vector \in RangeVectors : Sane(meter[vector]) /\ meter[vector].owners <= 1
      /\ Sane(meter.vectorPaths) /\ Sane(meter.descriptorPaths) /\ meter.descriptors >= 0
      /\ \A vector \in RangeVectors : meter[vector].owners = 0 => meter[vector].rows = 0
      /\ 2 * (meter.ranges.rows + meter.nextRanges.rows + meter.pending.rows
                + meter.expanding.rows) = meter.vectorPaths.strings
      /\ 2 * meter.descriptors = meter.descriptorPaths.strings
      /\ meter.vectorPaths.strings = 0 => meter.vectorPaths.bytes = 0
      /\ meter.descriptorPaths.strings = 0 => meter.descriptorPaths.bytes = 0]

AdoptVector(meter, vector, backing, paths) ==
    IF meter[vector].owners # 0 THEN [meter EXCEPT !.valid = FALSE]
    ELSE CheckRanges([meter EXCEPT ![vector] = backing,
                                   !.vectorPaths = AddStrings(@, paths),
                                   !.valid = @ /\ 2 * backing.rows = paths.strings])
PushVector(meter, vector, backing, paths) ==
    CheckRanges([meter EXCEPT ![vector] = backing,
                              !.vectorPaths = AddStrings(@, paths),
                              !.valid = @ /\ meter[vector].rows + 1 = backing.rows])
RemoveVector(meter, vector, paths) ==
    CheckRanges([meter EXCEPT ![vector] = RemoveSlot(@),
                              !.vectorPaths = SubtractStrings(@, paths)])
\* An endpoint moved out of a row leaves the empty string in its place.
ReplaceVectorEndpoint(meter, vector, size) ==
    CheckRanges([meter EXCEPT
      !.vectorPaths = AddStrings(SubtractStrings(@, OneString(size)), OneString(0)),
      !.valid = @ /\ meter[vector].owners = 1 /\ meter[vector].rows > 0])
MoveVector(meter, from, to) ==
    IF meter[to].owners # 0 THEN [meter EXCEPT !.valid = FALSE]
    ELSE CheckRanges([meter EXCEPT ![to] = meter[from], ![from] = NoBacking])
ReleaseVector(meter, vector) ==
    CheckRanges([meter EXCEPT ![vector] = NoBacking, !.valid = @ /\ meter[vector].rows = 0])
AddDescriptor(meter, paths) ==
    CheckRanges([meter EXCEPT !.descriptors = @ + 1, !.descriptorPaths = AddStrings(@, paths)])
RemoveDescriptor(meter, paths) ==
    CheckRanges([meter EXCEPT !.descriptors = @ - 1,
                              !.descriptorPaths = SubtractStrings(@, paths)])
==============================================================================
