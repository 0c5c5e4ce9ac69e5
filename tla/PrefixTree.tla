------------------------------ MODULE PrefixTree ------------------------------
(* The prefix tree (tree format 1): one child of the root per top-level    *)
(* directory, a directory cut into leaves of LeafEntries entries, several  *)
(* leaves under a node that labels them 0, 1, 2, ... and keeps them in the *)
(* order of the labels' text, in which 10 comes before 2.                  *)
(*                                                                         *)
(* A node is named by its content.  PrefixOf[p] is the directory of path p *)
(* and LabelRank[i] the place of label i in text order.                    *)
EXTENDS TreeEntries

CONSTANTS PrefixOf, LeafEntries, LabelRank

Leaf(entries) == [height |-> 0, items |-> entries]

\* InternalNode::new sorts its children by label.
Rank(row) == IF row.label \in DOMAIN LabelRank THEN LabelRank[row.label] ELSE -1
Internal(rows) == [height |-> 1, items |-> StablySorted(rows, Rank)]
Labelled(leaves) == [i \in DOMAIN leaves |-> [label |-> i - 1, node |-> leaves[i]]]

LeafCount(n) == (n + LeafEntries - 1) \div LeafEntries
LeafSlice(entries, k) ==
    SubSeq(entries, (k - 1) * LeafEntries + 1,
           IF k * LeafEntries < Len(entries) THEN k * LeafEntries ELSE Len(entries))
BuildLeafChunks(entries) == [k \in 1..LeafCount(Len(entries)) |-> Leaf(LeafSlice(entries, k))]

\* One leaf stands for the directory itself.
DirectoryNode(leaves) == IF Len(leaves) = 1 THEN leaves[1] ELSE Internal(Labelled(leaves))

EmptyPrefixRoot == [children |-> <<>>, files |-> 0, parent |-> <<>>]

OfPrefix(entries, prefix) == SelectSeq(entries, LAMBDA e : PrefixOf[e.path] = prefix)

\* Children in prefix order.
ChildKey(child) == child.prefix
Children(nodes) ==
    FoldSet(LAMBDA p, s : Placed(s, [prefix |-> p, node |-> nodes[p]], ChildKey), <<>>, DOMAIN nodes)

BuildPrefixTree(entries) ==
    LET sorted == StablySorted(entries, PathOf)
        prefixes == {PrefixOf[e.path] : e \in ToSet(entries)}
    IN  [children |-> Children([p \in prefixes |->
                        DirectoryNode(BuildLeafChunks(OfPrefix(sorted, p)))]),
         files |-> Len(entries), parent |-> <<>>]

\* Label order is not path order: the flattened entries are sorted again.
LoadEntries(node) ==
    IF node.height = 0 THEN node.items
    ELSE StablySorted(FlattenSeq([i \in DOMAIN node.items |-> node.items[i].node.items]), PathOf)

NodesOf(root) ==
    UNION {{c.node} \cup IF c.node.height = 0 THEN {}
                         ELSE {row.node : row \in ToSet(c.node.items)}
             : c \in ToSet(root.children)}
EntriesOf(root) ==
    StablySorted(FlattenSeq([i \in DOMAIN root.children |-> LoadEntries(root.children[i].node)]),
                 PathOf)

\* Every directory an operation names is loaded, merged and cut again; an empty one goes.
UpdatePrefixTree(root, changed, deleted) ==
    LET old == [p \in {c.prefix : c \in ToSet(root.children)} |->
                  (CHOOSE c \in ToSet(root.children) : c.prefix = p).node]
        touched == {PrefixOf[p] : p \in DOMAIN Operations(changed, deleted)}
        before(p) == IF p \in DOMAIN old THEN LoadEntries(old[p]) ELSE <<>>
        after == [p \in touched |->
                    MergeEntries(before(p), OfPrefix(changed, p),
                                 SelectSeq(deleted, LAMBDA d : PrefixOf[d] = p))]
        kept == (DOMAIN old \ touched) \cup {p \in touched : after[p] # <<>>}
    IN  [children |-> Children([p \in kept |->
                        IF p \in touched THEN DirectoryNode(BuildLeafChunks(after[p]))
                        ELSE old[p]]),
         files |-> root.files
                     + FoldSet(LAMBDA p, n : n + Len(after[p]) - Len(before(p)), 0, touched),
         parent |-> root.children]

\* ReachabilityCursor: the walk that proves a graph closed, one edge at a time.  The
\* children of a node just read move to `pending` before anything else is read.
NewClosure == [pending |-> <<>>, expanding |-> <<>>, reachable |-> {}, seeded |-> FALSE]
SeedRootChild(c, node) == [c EXCEPT !.pending = Append(@, node)]
FinishSeeding(c) == [c EXCEPT !.seeded = TRUE]
ClosureDone(c) == c.seeded /\ c.pending = <<>> /\ c.expanding = <<>>

\* The node the walk is about to read, if it reads one.
Reads(c) ==
    IF c.expanding # <<>> \/ c.pending = <<>> THEN {} ELSE {Last(c.pending)} \ c.reachable

ClosureStep(c) ==
    IF c.expanding # <<>>
      THEN [c EXCEPT !.pending = Append(@, Last(c.expanding)), !.expanding = Front(@)]
    ELSE IF c.pending = <<>> THEN c
    ELSE LET node == Last(c.pending)
             known == node \in c.reachable
         IN  [c EXCEPT !.pending = Front(@), !.reachable = @ \cup {node},
                       !.expanding = IF known \/ node.height = 0 THEN <<>>
                                     ELSE [i \in DOMAIN node.items |-> node.items[i].node]]

\* retire_one: one child, edge or mark goes.
RetireClosure(c) ==
    IF c.expanding # <<>> THEN [c EXCEPT !.expanding = Front(@)]
    ELSE IF c.pending # <<>> THEN [c EXCEPT !.pending = Front(@)]
    ELSE IF c.reachable # {} THEN [c EXCEPT !.reachable = @ \ {CHOOSE node \in @ : TRUE}]
    ELSE c
==============================================================================
