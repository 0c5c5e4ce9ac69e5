---------------------------- MODULE PrefixRebuild ----------------------------
(* A tree of format 1 built from nothing (ReplacementRebuildV1): the rows  *)
(* are grouped by directory, each group is sorted, cut into leaves and     *)
(* labelled, and the finished graph is walked once before it is handed     *)
(* over.  Every row, hash and label has one owner at a time, and two       *)
(* meters follow them from owner to owner (WorkMemory).  Giving the build  *)
(* up is a cursor too: it drops one thing per step, from any phase.        *)
(*                                                                         *)
(* The sorts are one step here; StableSort models their steps.  An owner   *)
(* is <<>> or <<rows>>; PathSize, PrefixSize and IdentitySize are bytes;   *)
(* `building` is the directory whose name every label in hand starts with. *)
EXTENDS PrefixTree, WorkMemory

CONSTANTS Inputs, PathSize, PrefixSize, IdentitySize

VARIABLES r, entryMeter, graphMeter

vars == <<r, entryMeter, graphMeter>>

SizeOf(entry) == PathSize[entry.path]
LabelSize(prefix, label) == PrefixSize[prefix] + IF label > 9 THEN 2 ELSE 1
Strings(seq, Size(_)) == [strings |-> Len(seq), bytes |-> Sum(seq, Size)]

\* new_metered_with_output_plan: only the input is owned until the plan is admitted.
Init ==
    \E rows \in Inputs :
      /\ r = [phase |-> "plan-ready", given |-> rows, input |-> <<rows>>,
              groups |-> [p \in {} |-> <<>>], prefix |-> <<>>, rowSort |-> <<>>, rows |-> <<>>,
              leaf |-> <<>>, retiringRows |-> <<>>, leafHashes |-> <<>>, hashes |-> <<>>,
              building |-> 0, children |-> <<>>, childSort |-> <<>>, retiringChildren |-> <<>>,
              internal |-> <<>>, rootChildren |-> <<>>, files |-> 0, identities |-> 0,
              root |-> <<>>, store |-> {}, closure |-> <<NewClosure>>, seeded |-> 0,
              result |-> <<>>]
      /\ entryMeter = EntriesMeter(Backing(<<rows>>), Strings(rows, SizeOf))
      /\ graphMeter = NoGraphMeter

In(phase) == r.phase = phase
SameEntries == UNCHANGED entryMeter
SameGraph == UNCHANGED graphMeter

\* resume_after_output_memory_plan_v1: both identities are copied before either is kept.
Resume ==
    /\ In("plan-ready")
    /\ r' = [r EXCEPT !.phase = "group", !.identities = 2]
    /\ graphMeter' = GraphMeter([strings |-> 2, bytes |-> 2 * IdentitySize])
    /\ SameEntries

Group ==
    /\ In("group") /\ ~Exhausted(r.input)
    /\ LET row == Content(r.input)[1]
           p == PrefixOf[row.path]
           known == p \in DOMAIN r.groups
           group == IF known THEN Pushed(r.groups[p], row) ELSE <<<<row>>>>
       IN  /\ r' = [r EXCEPT !.input = Drop(@), !.groups = Put(@, p, group)]
           /\ entryMeter' = IF known
                THEN InputToExistingGroup(entryMeter, Backing(r.groups[p]), Backing(group))
                ELSE InputToNewGroup(entryMeter, Backing(group))
           /\ graphMeter' = IF known THEN graphMeter ELSE AddGroupKey(graphMeter, PrefixSize[p])

\* The exhausted input is freed as a step of its own.
EndGrouping ==
    /\ In("group") /\ Exhausted(r.input)
    /\ r' = [r EXCEPT !.input = <<>>, !.phase = "next-group"]
    /\ entryMeter' = ReleaseRows(entryMeter, "input")
    /\ SameGraph

NextGroup ==
    /\ In("next-group") /\ DOMAIN r.groups # {}
    /\ LET p == Least(DOMAIN r.groups)
           group == r.groups[p]
       IN  /\ r' = [r EXCEPT !.groups = Without(@, p), !.prefix = <<p>>, !.building = p,
                             !.phase = "sort-entries", !.rowSort = group,
                             !.files = @ + Len(Content(group))]
           /\ graphMeter' = GroupKeyToPrefix(graphMeter, PrefixSize[p])
           /\ entryMeter' = GroupToSort(entryMeter, Backing(group))

ReleaseLeafHashes ==
    /\ In("next-group") /\ DOMAIN r.groups = {} /\ r.leafHashes # <<>>
    /\ r' = [r EXCEPT !.leafHashes = <<>>]
    /\ graphMeter' = ReleaseBacking(graphMeter, "leafHashes")
    /\ SameEntries

MakeRoot ==
    /\ In("next-group") /\ DOMAIN r.groups = {} /\ r.leafHashes = <<>>
    /\ LET children == IF r.rootChildren = <<>> THEN <<>> ELSE Content(r.rootChildren)
       IN  r' = [r EXCEPT !.root = <<[children |-> children, files |-> r.files, parent |-> <<>>]>>,
                          !.rootChildren = <<>>, !.identities = 0, !.phase = "seed-root"]
    /\ graphMeter' = RootToMetadata(graphMeter)
    /\ SameEntries

SortRows ==
    /\ In("sort-entries")
    /\ LET rows == StablySorted(Content(r.rowSort), PathOf)
       IN  /\ r' = [r EXCEPT !.rowSort = <<>>, !.rows = <<rows>>, !.phase = "move-leaf"]
           /\ entryMeter' = SortToRows(entryMeter, Backing(<<rows>>))
    /\ SameGraph

MoveLeaf ==
    /\ In("move-leaf") /\ r.rows # <<>> /\ ~Exhausted(r.rows)
    /\ LET leaf == Pushed(r.leaf, Content(r.rows)[1])
       IN  /\ r' = [r EXCEPT !.rows = Drop(@), !.leaf = leaf,
                             !.phase = IF Len(Content(leaf)) = LeafEntries THEN "encode-leaf" ELSE @]
           /\ entryMeter' = RowsToLeaf(entryMeter, r.leaf # <<>>, Backing(leaf))
    /\ SameGraph

FreeRows ==
    /\ In("move-leaf") /\ Exhausted(r.rows)
    /\ r' = [r EXCEPT !.rows = <<>>]
    /\ entryMeter' = ReleaseRows(entryMeter, "rows")
    /\ SameGraph

LastLeaf ==
    /\ In("move-leaf") /\ r.rows = <<>> /\ r.leaf # <<>>
    /\ r' = [r EXCEPT !.phase = "encode-leaf"]
    /\ SameEntries /\ SameGraph

\* One leaf is the directory; its emptied list of hashes stays allocated.
SingleLeaf ==
    /\ In("move-leaf") /\ r.rows = <<>> /\ r.leaf = <<>> /\ Len(Content(r.leafHashes)) = 1
    /\ LET p == Content(r.prefix)
           children == Pushed(r.rootChildren, [prefix |-> p, node |-> Content(r.leafHashes)[1]])
       IN  /\ r' = [r EXCEPT !.prefix = <<>>, !.rootChildren = children,
                             !.leafHashes = <<<<>>>>, !.phase = "next-group"]
           /\ graphMeter' = PrefixToRootChild(RefreshLeafHashes(graphMeter, Backing(<<<<>>>>)),
                                              PrefixSize[p], Backing(children))
    /\ SameEntries

SeveralLeaves ==
    /\ In("move-leaf") /\ r.rows = <<>> /\ r.leaf = <<>> /\ Len(Content(r.leafHashes)) > 1
    /\ r' = [r EXCEPT !.hashes = r.leafHashes, !.leafHashes = <<>>, !.phase = "move-internal"]
    /\ graphMeter' = LeafHashesToHashes(graphMeter)
    /\ SameEntries

EncodeLeaf ==
    /\ In("encode-leaf")
    /\ LET node == Leaf(Content(r.leaf))
           hashes == Pushed(r.leafHashes, node)
       IN  /\ r' = [r EXCEPT !.store = @ \cup {node}, !.leafHashes = hashes, !.leaf = <<>>,
                             !.retiringRows = r.leaf, !.phase = "retire-leaf"]
           /\ entryMeter' = LeafToRetiringRows(entryMeter, Backing(r.leaf))
           /\ graphMeter' = RefreshLeafHashes(graphMeter, Backing(hashes))

RetireLeaf ==
    /\ In("retire-leaf")
    /\ IF Exhausted(r.retiringRows)
         THEN /\ r' = [r EXCEPT !.retiringRows = <<>>, !.phase = "move-leaf"]
              /\ entryMeter' = ReleaseRows(entryMeter, "retiring")
         ELSE /\ r' = [r EXCEPT !.retiringRows = Drop(@)]
              /\ entryMeter' = RetireRow(entryMeter, "retiring", SizeOf(Content(r.retiringRows)[1]))
    /\ SameGraph

MoveChild ==
    /\ In("move-internal") /\ r.hashes # <<>> /\ ~Exhausted(r.hashes)
    /\ LET label == IF r.children = <<>> THEN 0 ELSE Len(Content(r.children))
           children == Pushed(r.children, [label |-> label, node |-> Content(r.hashes)[1]])
       IN  /\ r' = [r EXCEPT !.hashes = Drop(@), !.children = children]
           /\ graphMeter' = PushChild(RetireHash(graphMeter), LabelSize(Content(r.prefix), label),
                                      Backing(children))
    /\ SameEntries

FreeHashes ==
    /\ In("move-internal") /\ Exhausted(r.hashes)
    /\ r' = [r EXCEPT !.hashes = <<>>]
    /\ graphMeter' = ReleaseBacking(graphMeter, "hashes")
    /\ SameEntries

EndChildren ==
    /\ In("move-internal") /\ r.hashes = <<>>
    /\ r' = [r EXCEPT !.children = <<>>, !.childSort = r.children, !.phase = "sort-internal"]
    /\ graphMeter' = ChildrenToSort(graphMeter)
    /\ SameEntries

SortChildren ==
    /\ In("sort-internal")
    /\ LET sorted == <<StablySorted(Content(r.childSort), Rank)>>
       IN  /\ r' = [r EXCEPT !.childSort = <<>>, !.children = sorted, !.phase = "encode-internal"]
           /\ graphMeter' = SortToChildren(graphMeter, Backing(sorted))
    /\ SameEntries

EncodeInternal ==
    /\ In("encode-internal")
    /\ LET node == [height |-> 1, items |-> Content(r.children)]
       IN  r' = [r EXCEPT !.store = @ \cup {node}, !.internal = <<node>>, !.children = <<>>,
                          !.retiringChildren = r.children, !.phase = "retire-internal"]
    /\ graphMeter' = ChildrenToRetiring(graphMeter)
    /\ SameEntries

RetireChildren ==
    /\ In("retire-internal") /\ r.retiringChildren # <<>>
    /\ IF Exhausted(r.retiringChildren)
         THEN /\ r' = [r EXCEPT !.retiringChildren = <<>>]
              /\ graphMeter' = ReleaseBacking(graphMeter, "retiring")
         ELSE /\ r' = [r EXCEPT !.retiringChildren = Drop(@)]
              /\ graphMeter' = RetireChildFromIter(graphMeter,
                   LabelSize(Content(r.prefix), Content(r.retiringChildren)[1].label))
    /\ SameEntries

EndDirectory ==
    /\ In("retire-internal") /\ r.retiringChildren = <<>>
    /\ LET p == Content(r.prefix)
           children == Pushed(r.rootChildren, [prefix |-> p, node |-> Content(r.internal)])
       IN  /\ r' = [r EXCEPT !.prefix = <<>>, !.internal = <<>>, !.rootChildren = children,
                             !.phase = "next-group"]
           /\ graphMeter' = PrefixToRootChild(graphMeter, PrefixSize[p], Backing(children))
    /\ SameEntries

SeedRoot ==
    /\ In("seed-root")
    /\ LET children == Content(r.root).children
       IN  r' = IF r.seeded < Len(children)
                  THEN [r EXCEPT !.closure[1] = SeedRootChild(@, children[r.seeded + 1].node),
                                 !.seeded = @ + 1]
                  ELSE [r EXCEPT !.closure[1] = FinishSeeding(@), !.phase = "validate"]
    /\ SameEntries /\ SameGraph

\* The walk reads every node from the store; the last step hands the tree over, unless
\* what it holds exceeds the bytes admitted.
Validate ==
    /\ In("validate")
    /\ LET c == Content(r.closure)
           next == ClosureStep(c)
       IN  IF ~(Reads(c) \subseteq r.store) THEN r' = [r EXCEPT !.phase = "failed"]
           ELSE IF ~ClosureDone(next) THEN r' = [r EXCEPT !.closure = <<next>>]
           ELSE \E end \in {"ready", "failed"} :
                  r' = [r EXCEPT !.closure = <<>>, !.root = <<>>, !.store = {}, !.phase = end,
                                 !.result = <<[root |-> Content(r.root), store |-> r.store]>>]
    /\ SameEntries /\ SameGraph

\* One unit of step().
Step ==
    \/ Group \/ EndGrouping \/ NextGroup \/ ReleaseLeafHashes \/ MakeRoot \/ SortRows
    \/ MoveLeaf \/ FreeRows \/ LastLeaf \/ SingleLeaf \/ SeveralLeaves \/ EncodeLeaf
    \/ RetireLeaf \/ MoveChild \/ FreeHashes \/ EndChildren \/ SortChildren
    \/ EncodeInternal \/ RetireChildren \/ EndDirectory \/ SeedRoot \/ Validate

\* take_ready: the caller owns the tree, the cursor only what is left.
TakeReady ==
    /\ In("ready")
    /\ r' = [r EXCEPT !.result = <<>>, !.phase = "retiring"]
    /\ SameEntries /\ SameGraph

(* retire_one: the first owner in this order that still holds something    *)
(* drops one row, or its allocation once the rows are gone.  Rows of one   *)
(* owner go front to back here.                                            *)
Owners ==
    <<"input", "groups", "prefix", "rowSort", "rows", "leaf", "retiringRows", "leafHashes",
      "hashes", "children", "childSort", "retiringChildren", "internal", "rootChildren",
      "root", "closure", "store", "result", "identities">>

Gone(owner) ==
    CASE owner = "groups" -> DOMAIN r.groups = {}
      [] owner = "store" -> r.store = {}
      [] owner = "identities" -> r.identities = 0
      [] OTHER -> r[owner] = <<>>
Turn(owner) ==
    \E i \in DOMAIN Owners :
      Owners[i] = owner /\ ~Gone(owner) /\ \A j \in 1..(i - 1) : Gone(Owners[j])
Retired(owner, value) == r' = [r EXCEPT !.phase = "retiring", ![owner] = value]
Less(owner) == IF Exhausted(r[owner]) THEN <<>> ELSE Drop(r[owner])
First(owner) == Content(r[owner])[1]

RetireEntries(owner, field) ==
    /\ Turn(owner) /\ Retired(owner, Less(owner))
    /\ entryMeter' = IF Exhausted(r[owner]) THEN ReleaseRows(entryMeter, field)
                     ELSE RetireRow(entryMeter, field, SizeOf(First(owner)))
    /\ SameGraph

RetireRowSort ==
    /\ Turn("rowSort") /\ Retired("rowSort", Less("rowSort"))
    /\ entryMeter' = IF Exhausted(r.rowSort) THEN entryMeter
                     ELSE RetireSortingRow(entryMeter, SizeOf(First("rowSort")))
    /\ SameGraph

\* A group loses its rows, then its allocation, then its key.
RetireGroups ==
    /\ Turn("groups")
    /\ LET p == Least(DOMAIN r.groups)
           group == r.groups[p]
       IN  IF group = <<>>
             THEN /\ Retired("groups", Without(r.groups, p))
                  /\ graphMeter' = RetireString(graphMeter, "groupKeys", PrefixSize[p])
                  /\ SameEntries
             ELSE /\ Retired("groups", [r.groups EXCEPT ![p] =
                       IF Exhausted(group) THEN <<>> ELSE Drop(group)])
                  /\ entryMeter' = IF Exhausted(group) THEN ReleaseGroup(entryMeter, Backing(group))
                       ELSE RetireGroupEntry(entryMeter, Backing(group), Backing(Drop(group)),
                                             SizeOf(Content(group)[1]))
                  /\ SameGraph

RetirePrefix ==
    /\ Turn("prefix") /\ Retired("prefix", <<>>)
    /\ graphMeter' = RetireString(graphMeter, "prefix", PrefixSize[Content(r.prefix)])
    /\ SameEntries

RetireHashes(owner) ==
    /\ Turn(owner) /\ Retired(owner, Less(owner))
    /\ graphMeter' = CASE Exhausted(r[owner]) -> ReleaseBacking(graphMeter, owner)
                       [] owner = "hashes" -> RetireHash(graphMeter)
                       [] OTHER -> RefreshLeafHashes(graphMeter, Backing(Less(owner)))
    /\ SameEntries

RetireLabels(owner) ==
    /\ Turn(owner) /\ Retired(owner, Less(owner))
    /\ LET size == LabelSize(r.building, First(owner).label)
           gone == Exhausted(r[owner])
       IN  graphMeter' =
             CASE owner = "children" -> IF gone THEN ReleaseBacking(graphMeter, "children")
                    ELSE RetireChildFromVec(graphMeter, size, Backing(Less(owner)))
               [] owner = "childSort" -> IF gone THEN graphMeter
                    ELSE RetireSortingChild(graphMeter, size)
               [] OTHER -> IF gone THEN ReleaseBacking(graphMeter, "retiring")
                    ELSE RetireChildFromIter(graphMeter, size)
    /\ SameEntries

RetireRootChildren ==
    /\ Turn("rootChildren") /\ Retired("rootChildren", Less("rootChildren"))
    /\ graphMeter' = IF Exhausted(r.rootChildren) THEN ReleaseBacking(graphMeter, "rootChildren")
                     ELSE RetireRootChild(graphMeter, PrefixSize[First("rootChildren").prefix],
                                          Backing(Less("rootChildren")))
    /\ SameEntries

\* A root loses its children, the closure its edges and marks, a store its nodes.
LessRoot(root) ==
    IF root.children = <<>> THEN <<>> ELSE <<[root EXCEPT !.children = Rest(@)]>>
LessTree(tree) ==
    IF tree.root.children # <<>> THEN <<[tree EXCEPT !.root.children = Rest(@)]>>
    ELSE IF tree.store # {} THEN <<[tree EXCEPT !.store = @ \ {CHOOSE node \in @ : TRUE}]>>
    ELSE <<>>
RetireGraph ==
    /\ \/ Turn("internal") /\ Retired("internal", <<>>)
       \/ Turn("root") /\ Retired("root", LessRoot(Content(r.root)))
       \/ /\ Turn("closure")
          /\ LET less == RetireClosure(Content(r.closure)) IN
             Retired("closure", IF less = Content(r.closure) THEN <<>> ELSE <<less>>)
       \/ Turn("store") /\ Retired("store", r.store \ {CHOOSE node \in r.store : TRUE})
       \/ Turn("result") /\ Retired("result", LessTree(Content(r.result)))
    /\ SameEntries /\ SameGraph

RetireIdentity ==
    /\ Turn("identities") /\ Retired("identities", r.identities - 1)
    /\ graphMeter' = RetireString(graphMeter, "identities", IdentitySize)
    /\ SameEntries

Retire ==
    \/ RetireEntries("input", "input") \/ RetireGroups \/ RetirePrefix \/ RetireRowSort
    \/ RetireEntries("rows", "rows") \/ RetireEntries("leaf", "leaf")
    \/ RetireEntries("retiringRows", "retiring")
    \/ \E owner \in {"leafHashes", "hashes"} : RetireHashes(owner)
    \/ \E owner \in {"children", "childSort", "retiringChildren"} : RetireLabels(owner)
    \/ RetireRootChildren \/ RetireGraph \/ RetireIdentity

Next == Resume \/ Step \/ TakeReady \/ Retire

Spec == Init /\ [][Next]_vars

-----------------------------------------------------------------------------

\* The tree of a finished build is the one tree::build_tree makes of the same rows, and
\* its store holds the nodes of that tree and no others.
RebuildIsCanonical ==
    r.phase = "ready" =>
      LET tree == BuildPrefixTree(r.given)
      IN  Content(r.result) = [root |-> tree, store |-> NodesOf(tree)]

AllRows(owner) == IF r[owner] = <<>> THEN <<>> ELSE Content(r[owner])
GroupRows == {p \in DOMAIN r.groups : r.groups[p] # <<>>}
LabelsOf(owner) ==
    Strings(AllRows(owner), LAMBDA row : LabelSize(r.building, row.label))

\* The meters say what the build owns, to the row and the byte, wherever the build is
\* and however far giving it up has come; their own checks never fail.
MetersExact ==
    /\ entryMeter =
         [input |-> Backing(r.input), sorting |-> Len(AllRows("rowSort")),
          groups |-> [owners |-> Cardinality(GroupRows),
                      rows |-> FoldSet(LAMBDA p, n : n + Len(Content(r.groups[p])), 0, GroupRows)],
          rows |-> Backing(r.rows), leaf |-> Backing(r.leaf), retiring |-> Backing(r.retiringRows),
          paths |-> Strings(AllRows("input") \o AllRows("rowSort") \o AllRows("rows")
                              \o AllRows("leaf") \o AllRows("retiringRows")
                              \o FoldSet(LAMBDA p, s : s \o Content(r.groups[p]), <<>>, GroupRows),
                            SizeOf),
          valid |-> TRUE]
    /\ graphMeter =
         [groupKeys |-> [strings |-> Cardinality(DOMAIN r.groups),
                         bytes |-> FoldSet(LAMBDA p, n : n + PrefixSize[p], 0, DOMAIN r.groups)],
          prefix |-> Strings(r.prefix, LAMBDA p : PrefixSize[p]),
          leafHashes |-> Backing(r.leafHashes), hashes |-> Backing(r.hashes),
          children |-> Backing(r.children), sorting |-> Len(AllRows("childSort")),
          retiring |-> Backing(r.retiringChildren),
          childLabels |-> AddStrings(LabelsOf("children"),
                            AddStrings(LabelsOf("childSort"), LabelsOf("retiringChildren"))),
          rootChildren |-> Backing(r.rootChildren),
          rootLabels |-> Strings(AllRows("rootChildren"), LAMBDA c : PrefixSize[c.prefix]),
          identities |-> [strings |-> r.identities, bytes |-> r.identities * IdentitySize],
          valid |-> TRUE]
==============================================================================
