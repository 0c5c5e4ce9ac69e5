---------------------------- MODULE PrefixMutation ----------------------------
(* The resumable update of a prefix tree: CandidateMutationV1.  The        *)
(* operations are grouped by directory; one directory at a time is         *)
(* rewritten.  A directory that only gains entries at its end, or only has *)
(* entries replaced, is patched without loading it; every doubt falls back *)
(* to loading, sorting and merging the whole directory.                    *)
EXTENDS PrefixTree

CONSTANTS
    Bases,          \* the roots a mutation may start from
    Changes,        \* upsert lists, duplicates included
    Deletes         \* lists of deleted paths

Deduped(seq) ==
    FoldLeft(LAMBDA s, x : IF s # <<>> /\ Last(s) = x THEN s ELSE Append(s, x), <<>>, seq)

VARIABLES
    m,              \* the mutation (CandidateMutationV1)
    a,              \* its active directory (PrefixMutation), <<>> when none
    input,          \* what it was asked to do
    store,          \* resident nodes
    candidate       \* the root the transaction holds

vars == <<m, a, input, store, candidate>>

Init ==
    /\ input \in [base : Bases, changed : Changes, deleted : Deletes, lossy : BOOLEAN]
    /\ candidate = input.base
    /\ IF input.lossy
         THEN \E lost \in NodesOf(candidate) : store = NodesOf(candidate) \ {lost}
         ELSE store = NodesOf(candidate)
    /\ a = <<>>
    /\ m = [phase |-> "group", root |-> candidate,
            changed |-> input.changed, deleted |-> input.deleted, groups |-> <<>>,
            replacements |-> <<>>, old |-> <<>>, children |-> <<>>, overlay |-> {}]

Same == UNCHANGED <<input, store, candidate>>
Fail == m' = [m EXCEPT !.phase = "failed"] /\ UNCHANGED a

------------------------------------------------------------------------------
(* Grouping, and starting a directory                                      *)

NoOperations == [adds |-> <<>>, deletes |-> <<>>]
GroupOf(p) == IF p \in DOMAIN m.groups THEN m.groups[p] ELSE NoOperations

Group ==
    /\ m.phase = "group" /\ Same /\ UNCHANGED a
    /\ m' =
         IF m.changed # <<>>
           THEN LET row == m.changed[1]  p == PrefixOf[row.path] IN
                [m EXCEPT !.changed = Rest(@),
                          !.groups = Put(@, p, [GroupOf(p) EXCEPT !.adds = Append(@, row)])]
         ELSE IF m.deleted # <<>>
           THEN LET path == m.deleted[1]  p == PrefixOf[path] IN
                [m EXCEPT !.deleted = Rest(@),
                          !.groups = Put(@, p, [GroupOf(p) EXCEPT !.deletes = Append(@, path)])]
         ELSE [m EXCEPT !.phase = "update"]

NodeUnder(root, prefix) ==
    LET found == SelectSeq(root.children, LAMBDA c : c.prefix = prefix)
    IN  [i \in DOMAIN found |-> found[i].node]

Increasing(entries) == \A i \in 2..Len(entries) : entries[i - 1].path < entries[i].path

\* PrefixMutation::new: upserts in strict order and no deletion earn a probe.
NewDirectory(prefix, ops, previous) ==
    LET probe == previous # <<>> /\ ops.deletes = <<>> /\ ops.adds # <<>> /\ Increasing(ops.adds)
    IN  [phase |-> IF probe THEN "read" ELSE "load",
         prefix |-> prefix, previous |-> previous, adds |-> ops.adds, deletes |-> ops.deletes,
         stack |-> IF probe THEN <<>> ELSE previous, rows |-> <<>>, ordered |-> FALSE,
         position |-> 1, moving |-> <<>>, loaded |-> <<>>,
         hashes |-> <<>>, previousLast |-> <<>>, lower |-> 1, upper |-> 1, index |-> 1,
         entries |-> <<>>, pending |-> <<>>, leaf |-> <<>>, states |-> <<>>,
         merged |-> <<>>, leaves |-> <<>>, offset |-> 1, result |-> <<>>, old |-> 0, new |-> 0]

StartDirectory ==
    /\ m.phase = "update" /\ a = <<>> /\ m.groups # <<>> /\ Same
    /\ LET p == Least(DOMAIN m.groups) IN
       /\ a' = <<NewDirectory(p, m.groups[p], NodeUnder(m.root, p))>>
       /\ m' = [m EXCEPT !.groups = Without(@, p)]

------------------------------------------------------------------------------
(* The probe                                                               *)

d == a[1]
Unit(phase) == m.phase = "update" /\ a # <<>> /\ d.phase = phase /\ Same
Becomes(next) == a' = <<next>> /\ UNCHANGED m
Resident(node) == node \in m.overlay \cup store
Found(node, next) == IF Resident(node) THEN Becomes(next) ELSE Fail

\* append_fallback and child_fallback: load the directory from its node or its rows.
FullLoad(n) == [n EXCEPT !.phase = "load", !.stack = n.previous, !.hashes = <<>>]
LoadRows(n) == [n EXCEPT !.phase = "load", !.ordered = TRUE]

\* update_fallback: rows already replaced go back to the upserts, in their order.
Undone(leaves) == FlattenSeq([i \in DOMAIN leaves |-> leaves[i].put])
UpdateFallback(n, leaves) ==
    [n EXCEPT !.phase = "fallback-retire", !.adds = Undone(leaves) \o @,
              !.pending = leaves, !.leaf = <<>>, !.entries = <<>>, !.hashes = <<>>]

UpdateLeaf(index, entries) == [index |-> index, entries |-> entries, put |-> <<>>]

Read ==
    /\ Unit("read")
    /\ LET node == d.previous[1] IN
       Found(node, IF node.height = 0
                     THEN [d EXCEPT !.phase = "validate-tail", !.hashes = <<node>>,
                                    !.entries = node.items, !.position = 1]
                     ELSE [d EXCEPT !.phase = "canonicalize", !.rows = node.items,
                                    !.position = 1])

\* canonical_child_index
Target(row, count) == IF row.label \in 0..count - 1 THEN row.label + 1 ELSE 0

\* The rows are put into label order in place; anything but a permutation of the labels
\* gives up.
NextPermutation(n, givenUp, sorted) ==
    LET count == Len(n.rows)
        i == n.position
        t == Target(n.rows[i], count)
    IN  IF i > count THEN sorted
        ELSE IF t = i THEN [n EXCEPT !.position = i + 1]
        ELSE IF t < i \/ Target(n.rows[t], count) = t THEN givenUp
        ELSE [n EXCEPT !.rows = [@ EXCEPT ![i] = n.rows[t], ![t] = n.rows[i]]]

Canonicalize ==
    /\ Unit("canonicalize")
    /\ Becomes(NextPermutation(d, LoadRows(d), [d EXCEPT !.phase = "extract"]))

Extract ==
    /\ Unit("extract")
    /\ Becomes(IF d.rows # <<>>
                 THEN [d EXCEPT !.rows = Rest(@), !.hashes = Append(@, d.rows[1].node)]
               ELSE IF d.hashes = <<>> THEN FullLoad(d)
               ELSE [d EXCEPT !.phase = "validate-shape", !.index = 1])

\* validated_path_bounds: a leaf of the directory, in order, full unless it is the last.
CanonicalLeaf(node, last) ==
    /\ node.height = 0 /\ node.items # <<>>
    /\ Len(node.items) <= LeafEntries /\ (~last => Len(node.items) = LeafEntries)
    /\ \A e \in ToSet(node.items) : PrefixOf[e.path] = d.prefix
    /\ Increasing(node.items)

ValidateShape ==
    /\ Unit("validate-shape")
    /\ LET node == d.hashes[d.index] IN
       IF d.index > Len(d.hashes)
         THEN Becomes([d EXCEPT !.phase = "search", !.lower = 1, !.upper = Len(d.hashes) + 1,
                                !.previousLast = <<>>])
       ELSE Found(node,
              IF \/ ~CanonicalLeaf(node, d.index = Len(d.hashes))
                 \/ d.previousLast # <<>> /\ d.previousLast[1] >= node.items[1].path
                THEN [FullLoad(d) EXCEPT !.previousLast = <<>>]
                ELSE [d EXCEPT !.previousLast = <<Last(node.items).path>>, !.index = @ + 1])

\* Where does the first upsert belong?
Search ==
    /\ Unit("search")
    /\ LET middle == d.lower + (d.upper - d.lower) \div 2
           node == d.hashes[middle]
           path == d.adds[1].path
       IN  IF d.lower = d.upper
             THEN Becomes(IF d.lower > Len(d.hashes) THEN [d EXCEPT !.phase = "read-tail"]
                          ELSE FullLoad(d))
           ELSE Found(node,
                  IF path < node.items[1].path THEN [d EXCEPT !.upper = middle]
                  ELSE IF path > Last(node.items).path THEN [d EXCEPT !.lower = middle + 1]
                  ELSE [d EXCEPT !.phase = "load-updates", !.index = middle])

ReadTail ==
    /\ Unit("read-tail")
    /\ LET node == Last(d.hashes) IN
       Found(node, [d EXCEPT !.phase = "validate-tail", !.entries = node.items, !.position = 1])

\* One entry per unit; then: all upserts behind the last entry are appended, an upsert
\* inside the only leaf may be an update.
ValidateTail ==
    /\ Unit("validate-tail")
    /\ LET i == d.position
           back == UpdateFallback(d, <<UpdateLeaf(1, d.entries)>>)
           first == d.adds[1].path
       IN  Becomes(
             IF Len(d.entries) \notin 1..LeafEntries THEN back
             ELSE IF i <= Len(d.entries)
               THEN IF \/ PrefixOf[d.entries[i].path] # d.prefix
                       \/ i > 1 /\ d.entries[i - 1].path >= d.entries[i].path
                      THEN back ELSE [d EXCEPT !.position = @ + 1]
             ELSE IF first < d.entries[1].path THEN back
             ELSE IF first <= Last(d.entries).path
               THEN [d EXCEPT !.phase = "apply-update-leaf", !.index = 1, !.entries = <<>>,
                              !.leaf = <<UpdateLeaf(1, d.entries)>>]
             ELSE [d EXCEPT !.phase = "append-adds", !.leaves = Front(d.hashes), !.hashes = <<>>,
                            !.merged = d.entries, !.entries = <<>>,
                            !.old = (Len(d.hashes) - 1) * LeafEntries + Len(d.entries),
                            !.new = (Len(d.hashes) - 1) * LeafEntries + Len(d.entries)
                                      + Len(d.adds)])

\* The leaf of the next upsert; an upsert between or behind leaves is no update.
LoadUpdates ==
    /\ Unit("load-updates")
    /\ LET node == d.hashes[d.index]
           path == d.adds[1].path
       IN  IF d.adds = <<>> THEN Becomes([d EXCEPT !.phase = "emit-updates"])
           ELSE IF d.index > Len(d.hashes) THEN Becomes(UpdateFallback(d, d.pending))
           ELSE Found(node,
                  IF path > Last(node.items).path THEN [d EXCEPT !.index = @ + 1]
                  ELSE IF path < node.items[1].path THEN UpdateFallback(d, d.pending)
                  ELSE [d EXCEPT !.phase = "validate-update-leaf", !.entries = node.items,
                                 !.position = 2])

ValidateUpdateLeaf ==
    /\ Unit("validate-update-leaf")
    /\ LET i == d.position
           back == UpdateFallback(d, Append(d.pending, UpdateLeaf(d.index, d.entries)))
       IN  Becomes(IF i > Len(d.entries)
                     THEN [d EXCEPT !.phase = "apply-update-leaf", !.entries = <<>>,
                                    !.leaf = <<UpdateLeaf(d.index, d.entries)>>]
                   ELSE IF d.entries[i - 1].path >= d.entries[i].path THEN back
                   ELSE [d EXCEPT !.position = @ + 1])

\* Only an entry that exists is replaced.
ApplyUpdateLeaf ==
    /\ Unit("apply-update-leaf")
    /\ LET leaf == d.leaf[1]
           row == d.adds[1]
           at == {i \in DOMAIN leaf.entries : leaf.entries[i].path = row.path}
           closed == [d EXCEPT !.leaf = <<>>, !.pending = Append(@, leaf)]
       IN  Becomes(
             IF d.adds = <<>> THEN [closed EXCEPT !.phase = "emit-updates"]
             ELSE IF row.path > Last(leaf.entries).path
               THEN [closed EXCEPT !.phase = "load-updates", !.index = @ + 1]
             ELSE IF at = {} THEN UpdateFallback(d, Append(d.pending, leaf))
             ELSE [d EXCEPT !.adds = Rest(@),
                            !.leaf = <<[leaf EXCEPT !.entries[Least(at)] = row,
                                                    !.put = Append(@, row)]>>])

\* stage: into the private overlay.
Staged(node, next) == a' = <<next>> /\ m' = [m EXCEPT !.overlay = @ \cup {node}]

EmitUpdates ==
    /\ Unit("emit-updates")
    /\ LET leaf == d.pending[1]
           whole == DirectoryNode(d.hashes)
       IN  IF d.leaf # <<>>
             THEN Becomes([d EXCEPT !.leaf = IF d.leaf[1].entries = <<>> THEN <<>>
                                             ELSE <<[@[1] EXCEPT !.entries = Front(@)]>>])
           ELSE IF d.pending # <<>>
             THEN Staged(Leaf(leaf.entries),
                         [d EXCEPT !.hashes[leaf.index] = Leaf(leaf.entries),
                                   !.pending = Rest(@), !.leaf = <<leaf>>])
           ELSE LET next == [d EXCEPT !.phase = "done", !.result = <<whole>>, !.hashes = <<>>]
                IN  IF Len(d.hashes) = 1 THEN Becomes(next) ELSE Staged(whole, next)

FallbackRetire ==
    /\ Unit("fallback-retire")
    /\ Becomes(IF d.pending = <<>> THEN FullLoad(d)
               ELSE IF Last(d.pending).entries = <<>> THEN [d EXCEPT !.pending = Front(@)]
               ELSE [d EXCEPT !.pending[Len(d.pending)].entries = Rest(@)])

AppendAdds ==
    /\ Unit("append-adds")
    /\ Becomes(IF d.adds = <<>> THEN [d EXCEPT !.phase = "leaves", !.offset = 1]
               ELSE [d EXCEPT !.adds = Rest(@), !.merged = Append(@, d.adds[1])])

------------------------------------------------------------------------------
(* The whole directory                                                     *)

\* Entries are moved one by one, rows put into label order and stacked so that the first
\* is taken first, nodes taken from the stack.
Load ==
    /\ Unit("load")
    /\ IF d.moving # <<>>
         THEN Becomes([d EXCEPT !.moving = Rest(@), !.loaded = Append(@, d.moving[1])])
       ELSE IF d.rows # <<>> /\ ~d.ordered
         THEN Becomes(NextPermutation(d, [d EXCEPT !.ordered = TRUE], [d EXCEPT !.ordered = TRUE]))
       ELSE IF d.rows # <<>>
         THEN Becomes([d EXCEPT !.rows = Front(@), !.stack = Append(@, Last(d.rows).node)])
       ELSE IF d.stack # <<>>
         THEN LET node == Last(d.stack) IN
              Found(node, IF node.height = 0
                            THEN [d EXCEPT !.stack = Front(@), !.moving = node.items]
                            ELSE [d EXCEPT !.stack = Front(@), !.rows = node.items,
                                           !.ordered = FALSE, !.position = 1])
       ELSE Becomes([d EXCEPT !.phase = "sort-existing", !.old = Len(d.loaded)])

\* The sorts are the stable sort of StableSort.
SortExisting ==
    /\ Unit("sort-existing")
    /\ Becomes([d EXCEPT !.phase = "sort-adds", !.loaded = StablySorted(@, PathOf)])
SortAdds ==
    /\ Unit("sort-adds")
    /\ Becomes([d EXCEPT !.phase = "normalize-adds", !.adds = StablySorted(@, PathOf),
                         !.entries = <<>>])

\* Of equal neighbours the last one stays.
NormalizeAdds ==
    /\ Unit("normalize-adds")
    /\ Becomes(IF d.adds = <<>>
                 THEN [d EXCEPT !.phase = "sort-deletes", !.adds = d.entries, !.entries = <<>>]
               ELSE IF d.entries # <<>> /\ Last(d.entries).path = d.adds[1].path
                 THEN [d EXCEPT !.adds = Rest(@), !.entries = Append(Front(@), d.adds[1])]
               ELSE [d EXCEPT !.adds = Rest(@), !.entries = Append(@, d.adds[1])])

SortDeletes ==
    /\ Unit("sort-deletes")
    /\ Becomes([d EXCEPT !.phase = "states", !.deletes = Deduped(StablySorted(@, LAMBDA p : p))])

\* Upserts and deletions become one list of final states; an upsert swallows the deletion
\* of its path.
States ==
    /\ Unit("states")
    /\ LET gone == d.deletes # <<>> IN
       Becomes(
         IF d.adds = <<>> /\ ~gone THEN [d EXCEPT !.phase = "merge"]
         ELSE IF d.adds # <<>> /\ (gone => d.adds[1].path <= d.deletes[1])
           THEN [d EXCEPT !.adds = Rest(@),
                          !.deletes = IF gone /\ d.deletes[1] = d.adds[1].path THEN Rest(@) ELSE @,
                          !.states = Append(@, [path |-> d.adds[1].path, entry |-> <<d.adds[1]>>])]
         ELSE [d EXCEPT !.deletes = Rest(@),
                        !.states = Append(@, [path |-> d.deletes[1], entry |-> <<>>])])

MergeOne ==
    /\ Unit("merge")
    /\ LET more == d.states # <<>>
           state == d.states[1]
           same == more /\ d.loaded # <<>> /\ d.loaded[1].path = state.path
       IN  Becomes(
             IF d.loaded = <<>> /\ ~more
               THEN [d EXCEPT !.phase = "leaves", !.offset = 1, !.new = Len(d.merged)]
             ELSE IF d.loaded # <<>> /\ (more => d.loaded[1].path < state.path)
               THEN [d EXCEPT !.loaded = Rest(@), !.merged = Append(@, d.loaded[1])]
             ELSE [d EXCEPT !.states = Rest(@), !.loaded = IF same THEN Rest(@) ELSE @,
                            !.merged = @ \o state.entry])

\* Leaves of LeafEntries entries, behind the leaves an append keeps.
EmitLeaves ==
    /\ Unit("leaves")
    /\ LET leaf == Leaf(LeafSlice(d.merged, d.offset)) IN
       IF d.offset <= LeafCount(Len(d.merged))
         THEN Staged(leaf, [d EXCEPT !.leaves = Append(@, leaf), !.offset = @ + 1])
       ELSE Becomes(IF Len(d.leaves) <= 1
                      THEN [d EXCEPT !.phase = "retire", !.result = d.leaves]
                      ELSE [d EXCEPT !.phase = "internal-children"])

InternalChildren ==
    /\ Unit("internal-children")
    /\ Becomes(IF d.leaves = <<>> THEN [d EXCEPT !.phase = "internal"]
               ELSE [d EXCEPT !.leaves = Rest(@),
                              !.rows = Append(@, [label |-> Len(d.rows), node |-> d.leaves[1]])])

EmitInternal ==
    /\ Unit("internal")
    /\ Staged(Internal(d.rows),
              [d EXCEPT !.phase = "retire", !.rows = <<>>, !.result = <<Internal(d.rows)>>])

RetireMerged ==
    /\ Unit("retire")
    /\ Becomes(IF d.merged # <<>> THEN [d EXCEPT !.merged = Rest(@)]
               ELSE [d EXCEPT !.phase = "done"])

FinishDirectory ==
    /\ Unit("done")
    /\ m' = [m EXCEPT !.root.files = @ - d.old + d.new,
                      !.replacements = Put(@, d.prefix, d.result)]
    /\ a' = <<>>

------------------------------------------------------------------------------
(* The root, and the end                                                   *)

StartAssembly ==
    /\ m.phase = "update" /\ a = <<>> /\ m.groups = <<>> /\ Same /\ UNCHANGED a
    /\ m' = [m EXCEPT !.phase = "assemble", !.old = m.root.children, !.root.parent = <<>>,
                      !.root.children = <<>>]

\* RootAssembly::tick: old children and replacements merged in prefix order; the hash of
\* the old children, taken on the way, is the parent.
AssembleOne ==
    /\ m.phase = "assemble" /\ Same /\ UNCHANGED a
    /\ LET p == Least(DOMAIN m.replacements)
           replaced == m.replacements # <<>>
           same == m.old # <<>> /\ m.old[1].prefix = p
       IN  m' =
         IF m.old = <<>> /\ ~replaced
           THEN [m EXCEPT !.phase = "ready", !.root.children = m.children, !.children = <<>>]
         ELSE IF m.old # <<>> /\ (replaced => m.old[1].prefix < p)
           THEN [m EXCEPT !.old = Rest(@), !.children = Append(@, m.old[1]),
                          !.root.parent = Append(@, m.old[1])]
         ELSE [m EXCEPT !.old = IF same THEN Rest(@) ELSE @,
                        !.root.parent = IF same THEN Append(@, m.old[1]) ELSE @,
                        !.replacements = Without(@, p),
                        !.children = IF m.replacements[p] = <<>> THEN @
                                     ELSE Append(@, [prefix |-> p,
                                                     node |-> m.replacements[p][1]])]

\* finish_with_clock: one shot; the overlay is promoted and the root handed over.
Finish ==
    /\ m.phase = "ready"
    /\ store' = store \cup m.overlay
    /\ candidate' = m.root
    /\ m' = [m EXCEPT !.phase = "failed", !.overlay = {}, !.root = EmptyPrefixRoot]
    /\ UNCHANGED <<a, input>>

\* retire_one: a cancelled, failed or finished mutation releases what it holds, one
\* item per call; the lists of the active directory come after the grouped operations.
DirectoryOwners == <<"moving", "rows", "stack", "loaded", "entries", "pending", "hashes", "leaf",
                     "adds", "deletes", "states", "merged", "leaves">>
Released(n, owner) == [n EXCEPT ![owner] = Front(@)]
SmallerGroup(ops) ==
    IF ops.adds # <<>> THEN [ops EXCEPT !.adds = Front(@)] ELSE [ops EXCEPT !.deletes = Front(@)]
SmallerLeaf(leaves) ==
    IF Last(leaves).entries # <<>> THEN [leaves EXCEPT ![Len(leaves)].entries = Front(@)]
    ELSE Front(leaves)

RetireDirectory ==
    LET held == SelectSeq(DirectoryOwners, LAMBDA owner : d[owner] # <<>>) IN
    a' = IF held = <<>> THEN <<>>
         ELSE IF held[1] \in {"pending", "leaf"}
           THEN <<[d EXCEPT ![held[1]] = SmallerLeaf(@)]>>
         ELSE <<Released(d, held[1])>>

RetireRest ==
    LET n == [m EXCEPT !.phase = "retiring"] IN
    m' = IF m.old # <<>> THEN Released(n, "old")
         ELSE IF m.replacements # <<>>
           THEN [n EXCEPT !.replacements = Without(@, Least(DOMAIN @))]
         ELSE IF m.children # <<>> THEN Released(n, "children")
         ELSE IF m.overlay # {} THEN [n EXCEPT !.overlay = @ \ {CHOOSE x \in m.overlay : TRUE}]
         ELSE IF m.root.children # <<>> THEN [n EXCEPT !.root.children = Front(@)]
         ELSE [n EXCEPT !.phase = "done"]

Retire ==
    /\ m.phase # "done" /\ Same
    /\ LET n == [m EXCEPT !.phase = "retiring"]
           p == Least(DOMAIN m.groups)
       IN  IF m.changed # <<>> THEN m' = Released(n, "changed") /\ UNCHANGED a
           ELSE IF m.deleted # <<>> THEN m' = Released(n, "deleted") /\ UNCHANGED a
           ELSE IF m.groups # <<>>
             THEN /\ m' = [n EXCEPT !.groups = IF m.groups[p] = NoOperations THEN Without(@, p)
                                               ELSE [@ EXCEPT ![p] = SmallerGroup(@)]]
                  /\ UNCHANGED a
           ELSE IF a # <<>> THEN RetireDirectory /\ m' = n
           ELSE RetireRest /\ UNCHANGED a

Step ==
    \/ Group \/ StartDirectory
    \/ Read \/ Canonicalize \/ Extract \/ ValidateShape \/ Search \/ ReadTail \/ ValidateTail
    \/ LoadUpdates \/ ValidateUpdateLeaf \/ ApplyUpdateLeaf \/ EmitUpdates \/ FallbackRetire
    \/ AppendAdds
    \/ Load \/ SortExisting \/ SortAdds \/ NormalizeAdds \/ SortDeletes \/ States \/ MergeOne
    \/ EmitLeaves \/ InternalChildren \/ EmitInternal \/ RetireMerged \/ FinishDirectory
    \/ StartAssembly \/ AssembleOne

Next == Step \/ Finish \/ Retire

Spec == Init /\ [][Next]_vars

------------------------------------------------------------------------------
(* Properties                                                              *)

\* The resumable mutation does what the one-shot update_tree does, whichever of the
\* append, update and full paths its directories took: the published root has the same
\* children, file count and parent, holds exactly the merged entries, and no node of it is
\* missing that was not missing before.  No other step touches the store.
Publishes ==
    /\ candidate' = UpdatePrefixTree(candidate, input.changed, input.deleted)
    /\ EntriesOf(candidate') = MergeEntries(EntriesOf(input.base), input.changed, input.deleted)
    /\ candidate'.files = Len(EntriesOf(candidate'))
    /\ NodesOf(candidate') \ store' \subseteq NodesOf(candidate) \ store
StepMatchesUpdate ==
    IF m.phase = "ready" /\ m' # m /\ m'.phase = "failed" THEN Publishes ELSE store' = store

\* A retired mutation holds nothing, whatever phase it was cancelled in.
RetirementDrains ==
    m.phase = "done" =>
      /\ m.changed = <<>> /\ m.deleted = <<>> /\ m.groups = <<>> /\ a = <<>>
      /\ m.old = <<>> /\ m.children = <<>> /\ m.replacements = <<>>
      /\ m.overlay = {} /\ m.root.children = <<>>
==============================================================================
