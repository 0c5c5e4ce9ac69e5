---------------------------- MODULE MCClientStore ----------------------------
(***************************************************************************)
(* What a device keeps, on small instances.  On its disk: the segmented    *)
(* snapshot store (SegmentedStore), the change journal that is one of its  *)
(* owners (Journal), and one file's edits on their way through events,     *)
(* dirty set, journal and sync base (LocalChanges).  In the core, its      *)
(* trees: the resumable update of both formats (RangeMutation,             *)
(* PrefixMutation), the replacement built from rows (RangeRebuild,         *)
(* PrefixRebuild, StableSort), the settlement of a candidate               *)
(* (ResidentTree), the plan of the chunks to send (ChunkPlan) and what the *)
(* server then lacks (CandidateTree), the export of a root (RootExport),   *)
(* and the server's history of roots (VaultHistory).  `part` is the one a  *)
(* behaviour belongs to; the others stay where they start, and the         *)
(* variables of the other trees are 0.                                     *)
(***************************************************************************)
EXTENDS LocalChanges, TreeEntries, CandidateTree, TLC

CONSTANTS a, b, NoPath

VARIABLES
    part,
    main, bak, stage, pages, dir, marker, fence, opened, writable, absent, migrating,
    advanced, jobs, op, born, acked, maybe, rows, upsets,
    queue, flight, index, nextId, usable, store, log, resolved, requests, failures,
    rangeJob, rangeInput, rangeStore, rangeRoot, foreign,
    prefixJob, prefixDir, prefixInput, prefixStore, prefixRoot,
    rangeBuild, rangeRows, rangeMeter, prefixBuild, prefixRows, graphMeter, sort,
    resident, report, live,
    graph, plan, tokens, settled, planner, lost,
    source, export, call, started, exporter,
    roots, current, ready, device

snapshots ==
    <<main, bak, stage, pages, dir, marker, fence, opened, writable, absent, migrating,
      advanced, jobs, op, born, acked, maybe, rows, upsets>>
changes ==
    <<queue, flight, index, nextId, usable, store, log, resolved, requests, failures>>

Store == INSTANCE SegmentedStore WITH
    intent <- marker, head <- opened, faults <- upsets,
    SourceRows <- 1, MaxRows <- 4, MaxGeneration <- 4, MaxFaults <- 2, BatchRows <- 2,
    PageRows <- 1, ReplaySegments <- 2, MaxJobs <- 1

Log == INSTANCE Journal WITH
    writable <- usable, faults <- failures,
    Path <- {a, b}, PageRows <- 2, CompactAfter <- 2, MaxRequests <- 4, MaxFaults <- 2

ranges == <<rangeJob, rangeInput, rangeStore, rangeRoot, foreign>>
prefixes == <<prefixJob, prefixDir, prefixInput, prefixStore, prefixRoot>>
rangeBuilds == <<rangeBuild, rangeRows, rangeMeter>>
prefixBuilds == <<prefixBuild, prefixRows, graphMeter>>
residents == <<resident, report, live>>
plans == <<graph, plan, tokens, settled, planner, lost>>
exports == <<source, export, call, started, exporter>>
histories == <<roots, current, ready, device>>
treeVars ==
    <<ranges, prefixes, rangeBuilds, prefixBuilds, sort, residents, plans, exports,
      histories, candidateVars>>

-----------------------------------------------------------------------------
E(p, v) == [path |-> p, row |-> v]
Listed(paths) == [i \in DOMAIN paths |-> E(paths[i], 0)]
Rows(paths) == ByPath({E(p, 0) : p \in paths})

-----------------------------------------------------------------------------
(* Format 2.  Every header and record costs one byte and its paths; a path is  *)
(* one to three bytes long.                                                    *)

LeafHeader == 1
RangeHeader == 1
EntryOverhead == 1
RangeOverhead == 1
MinChildren == 2
MaxNodeBytes == 15
PathBytes == [p \in 0..12 |-> IF p = 0 THEN 0 ELSE IF p \in {2, 5, 7} THEN 3 ELSE 1 + (p % 2)]

(* Up to seven entries in leaves of two or three: boundaries by count, by      *)
(* bytes and at the anchors, and two levels above the leaves.                  *)
Cancelled == <<E(4, 1), E(4, 2)>>
Full == Rows(1..7)
RangeBases == {Rows(s) : s \in {t \in SUBSET (1..7) : Cardinality(t) >= 5} \cup {{}}}
RangeChanges ==
    {<<>>, <<E(1, 1)>>, <<E(4, 1)>>, Cancelled, <<E(7, 1), E(2, 1)>>, <<E(3, 1), E(6, 1)>>}

Ranges == INSTANCE RangeMutation WITH
    m <- rangeJob, input <- rangeInput, store <- rangeStore, candidate <- rangeRoot,
    LeafAnchors <- {3}, RangeAnchors <- {3, 6}, MinLeafEntries <- 2, MaxLeafEntries <- 3,
    MinLeafBytes <- 5, MaxChildren <- 3, MaxDepth <- 4,
    Bases <- RangeBases, Changes <- RangeChanges, Deletes <- {<<>>, <<4>>, <<1>>, <<3, 2>>},
    Lossy <- {Full}, MaxForeign <- 1

\* A mutation is cancelled at every point, for one of the updates of the full tree.
RangeNext ==
    \/ Ranges!Step \/ Ranges!Finish \/ Ranges!ForeignChange
    \/ rangeInput.base = Full /\ rangeInput.changed = Cancelled /\ Ranges!Retire

(* Leaves of one or two entries, two children, and a depth that twelve         *)
(* entries exceed.                                                             *)
RangeBuilds == INSTANCE RangeRebuild WITH
    b <- rangeBuild, entryMeter <- rangeRows,
    LeafAnchors <- {4, 8}, RangeAnchors <- {2, 4, 6, 8}, MinLeafEntries <- 1, MaxLeafEntries <- 2,
    MinLeafBytes <- 1, MaxChildren <- 2, MaxDepth <- 2,
    Inputs <- {Listed(s) : s \in {<<>>, <<5>>, <<3, 1, 2>>, <<4, 4, 1>>,
                                  <<12, 11, 10, 9, 8, 7, 6, 5, 4, 3, 2, 1>>,
                                  <<1, 3, 5, 7, 9, 11>>, <<2, 4, 6, 8, 10, 12, 1, 3>>}}

ResidentSources == {Listed(s) : s \in {<<>>, <<1, 2, 4, 5>>, <<1, 2, 3, 4, 5, 6>>}}
Residents == INSTANCE ResidentTree WITH
    t <- resident, resident <- live,
    LeafAnchors <- {4}, RangeAnchors <- {2, 4}, MinLeafEntries <- 1, MaxLeafEntries <- 2,
    MinLeafBytes <- 1, MaxChildren <- 2, MaxDepth <- 2,
    Sources <- ResidentSources,
    Changes <- {<<>>, <<E(3, 1)>>, <<E(1, 1), E(6, 1)>>}, Deletes <- {<<>>, <<4>>},
    IdentitySize <- 1, MaxGeneration <- 2, MaxExact <- 70

-----------------------------------------------------------------------------
(* Format 1: two directories, leaves of two entries; the label of the third    *)
(* leaf sorts after the fifth ("2" after "10" in the code).                    *)

PrefixOf == [p \in 1..11 |-> IF p > 9 THEN 2 ELSE 1]
LeafEntries == 2
LabelRank == [i \in 0..5 |-> <<0, 1, 4, 5, 2, 3>>[i + 1]]

Prefixed == INSTANCE PrefixTree
Built(paths) == Prefixed!BuildPrefixTree(Rows(paths))
Odd(files, children) ==
    [children |-> <<[prefix |-> 1, node |-> Prefixed!Internal(children)]>>, files |-> files,
     parent |-> <<>>]
\* Trees no build makes and a mutation must take: a short leaf, a label out of line.
ShortLeaf ==
    Odd(3, Prefixed!Labelled(<<Prefixed!Leaf(Listed(<<1>>)), Prefixed!Leaf(Listed(<<2, 4>>))>>))
OddLabel ==
    Odd(3, <<[label |-> 0, node |-> Prefixed!Leaf(Listed(<<1, 2>>))],
             [label |-> 9, node |-> Prefixed!Leaf(Listed(<<4>>))]>>)
Small == Built({1, 3, 4, 6, 7})
PrefixBases ==
    {Built({}), Built({1, 2, 3, 4, 5, 6, 7, 8, 10}), Small, Built({3}), Built({2, 4, 10, 11}),
     ShortLeaf, OddLabel}
PrefixChanges ==
    {<<>>, <<E(1, 1)>>, <<E(3, 1)>>, <<E(3, 1), E(4, 1), E(7, 1)>>, <<E(9, 1)>>, Cancelled,
     <<E(5, 1), E(10, 1)>>, <<E(11, 1), E(6, 1)>>, <<E(3, 1), E(5, 1)>>, <<E(7, 1), E(9, 1)>>}

Directories == INSTANCE PrefixMutation WITH
    m <- prefixJob, a <- prefixDir, input <- prefixInput, store <- prefixStore,
    candidate <- prefixRoot,
    Bases <- PrefixBases, Changes <- PrefixChanges,
    Deletes <- {<<>>, <<4>>, <<11, 10>>, <<3, 1, 3>>}

PrefixNext ==
    \/ Directories!Step \/ Directories!Finish
    \/ /\ prefixInput.base = Small /\ prefixInput.deleted \in {<<>>, <<4>>}
       /\ Directories!Retire

PrefixBuilds == INSTANCE PrefixRebuild WITH
    r <- prefixBuild, entryMeter <- prefixRows,
    PathSize <- <<1, 2, 3, 4, 5, 6, 7, 8, 9, 10, 11>>, PrefixSize <- <<2, 3>>, IdentitySize <- 3,
    Inputs <- {<<>>, Listed(<<11, 3, 2, 10>>),
               <<E(3, 1), E(3, 2), E(1, 1), E(1, 2), E(2, 1)>>,
               Listed(<<9, 8, 7, 6, 5, 4, 3, 2, 1, 10>>)}

Sorts == INSTANCE StableSort WITH Key <- 1..3, MaxInput <- 6

-----------------------------------------------------------------------------
(* A root over three nodes, one of them over two more; complete, or without    *)
(* one of its nodes.                                                           *)
Children ==
    (<<1, 0>> :> <<<<0, 1>>, <<2, 1>>, <<0, 0>>>>) @@ (<<2, 1>> :> <<<<0, 0>>, <<1, 2>>>>)
      @@ (<<0, 1>> :> <<>>) @@ (<<0, 0>> :> <<>>) @@ (<<1, 2>> :> <<>>)
Graph(version, root, nodes, fresh) ==
    [version |-> version, root |-> root, kids |-> Children, store |-> nodes, fresh |-> fresh]
Candidates ==
    UNION {{Graph(v, <<>>, {}, {}),
            Graph(v, <<<<1, 0>>>>, DOMAIN Children, {<<1, 0>>, <<1, 2>>}),
            Graph(v, <<<<1, 0>>>>, DOMAIN Children \ {<<1, 2>>}, {})} : v \in {1, 2}}

Plans == INSTANCE ChunkPlan WITH
    job <- plan, host <- planner,
    Byte <- 0..2, Width <- 2, MaxPageHashes <- 2, RetireUnits <- 2, MaxJobs <- 2, MaxLost <- 2,
    Graphs <- Candidates

\* Files 1 and 2 share a leaf.
SharedLeaf == <<"x", "x", "y">>

\* Lengths at and around the part size and the largest atomic field.
Record(vault, writer, parent, children) ==
    [vault |-> vault, device |-> writer, parent |-> parent, children |-> children]
Records ==
    {Record(0, 3, FALSE, <<>>), Record(36, 36, TRUE, <<5, 300>>), Record(65536, 0, TRUE, <<0>>),
     Record(5, 65537, FALSE, <<>>), Record(5, 5, FALSE, <<1, 65540>>)}

Exports == INSTANCE RootExport WITH
    job <- export, host <- exporter,
    Roots <- Records, Limits <- {100, 600, 1000000}, UnitBudgets <- {1, 4}, ByteBudgets <- {300, 70000},
    PageBudgets <- {700, 65536}, Flat <- {800}, MaxJobs <- 2

\* Rows 2 and 3 differ in time only; pages of two records or eight bytes.
OneByte == [p \in 0..5 |-> IF p = 0 THEN 0 ELSE 1]
InOrder == [i \in 0..9 |-> i]
Pushes ==
    {[changed |-> <<E(4, 2)>>, deleted |-> <<2>>],
     [changed |-> <<E(1, 3), E(5, 1)>>, deleted |-> <<>>],
     [changed |-> <<>>, deleted |-> <<1, 4>>]}

History == INSTANCE VaultHistory WITH
    PathBytes <- OneByte,
    LeafAnchors <- {2}, RangeAnchors <- {2}, MinLeafEntries <- 1, MaxLeafEntries <- 2,
    MinLeafBytes <- 0, MaxChildren <- 3, MaxDepth <- 5,
    PrefixOf <- <<1, 1, 2, 2, 1>>, LabelRank <- InOrder,
    HashOf <- <<1, 2, 2>>, FirstEntries <- <<E(1, 1), E(2, 2), E(3, 1)>>,
    Edits <- Pushes, Patterns <- {{1, 3}, {4}}, PageHeader <- 1, CursorOverhead <- 1, RecordOverhead <- 2,
    RecordCap <- 2, ByteCap <- 8, MaxRoots <- 3

ASSUME
    /\ Ranges!RangeTreeAssumption /\ RangeBuilds!RangeTreeAssumption
    /\ Residents!RangeTreeAssumption /\ History!RangeTreeAssumption
    /\ CandidateTreeAssumption /\ Store!StoreAssumption

-----------------------------------------------------------------------------
TreeParts ==
    {"range", "prefix", "range build", "prefix build", "sort", "resident", "plan", "index",
     "export", "history"}

TreesInit ==
    /\ IF part = "range" THEN Ranges!Init
       ELSE rangeJob = 0 /\ rangeInput = 0 /\ rangeStore = 0 /\ rangeRoot = 0 /\ foreign = 0
    /\ IF part = "prefix" THEN Directories!Init
       ELSE /\ prefixJob = 0 /\ prefixDir = 0 /\ prefixInput = 0 /\ prefixStore = 0
            /\ prefixRoot = 0
    /\ IF part = "range build" THEN RangeBuilds!Init
       ELSE rangeBuild = 0 /\ rangeRows = 0 /\ rangeMeter = 0
    /\ IF part = "prefix build" THEN PrefixBuilds!Init
       ELSE prefixBuild = 0 /\ prefixRows = 0 /\ graphMeter = 0
    /\ IF part = "sort" THEN Sorts!Init ELSE sort = 0
    /\ IF part = "resident" THEN Residents!Init ELSE resident = 0 /\ report = 0 /\ live = 0
    /\ IF part = "plan" THEN Plans!Init
       ELSE graph = 0 /\ plan = 0 /\ tokens = 0 /\ settled = 0 /\ planner = 0 /\ lost = 0
    /\ CandidateInit
    /\ IF part = "export" THEN Exports!Init
       ELSE source = 0 /\ export = 0 /\ call = 0 /\ started = 0 /\ exporter = 0
    /\ IF part = "history" THEN History!Init
       ELSE roots = 0 /\ current = 0 /\ ready = 0 /\ device = 0

TreesNext ==
    \/ /\ part = "range" /\ RangeNext
       /\ UNCHANGED <<prefixes, rangeBuilds, prefixBuilds, sort, residents, plans,
                      candidateVars, exports, histories>>
    \/ /\ part = "prefix" /\ PrefixNext
       /\ UNCHANGED <<ranges, rangeBuilds, prefixBuilds, sort, residents, plans,
                      candidateVars, exports, histories>>
    \/ /\ part = "range build" /\ RangeBuilds!Next
       /\ UNCHANGED <<ranges, prefixes, prefixBuilds, sort, residents, plans,
                      candidateVars, exports, histories>>
    \/ /\ part = "prefix build" /\ PrefixBuilds!Next
       /\ UNCHANGED <<ranges, prefixes, rangeBuilds, sort, residents, plans,
                      candidateVars, exports, histories>>
    \/ /\ part = "sort" /\ Sorts!Next
       /\ UNCHANGED <<ranges, prefixes, rangeBuilds, prefixBuilds, residents, plans,
                      candidateVars, exports, histories>>
    \/ /\ part = "resident" /\ Residents!Next
       /\ UNCHANGED <<ranges, prefixes, rangeBuilds, prefixBuilds, sort, plans,
                      candidateVars, exports, histories>>
    \/ /\ part = "plan" /\ Plans!Next
       /\ UNCHANGED <<ranges, prefixes, rangeBuilds, prefixBuilds, sort, residents,
                      candidateVars, exports, histories>>
    \/ /\ part = "index" /\ CandidateNext
       /\ UNCHANGED <<ranges, prefixes, rangeBuilds, prefixBuilds, sort, residents,
                      plans, exports, histories>>
    \/ /\ part = "export" /\ Exports!Next
       /\ UNCHANGED <<ranges, prefixes, rangeBuilds, prefixBuilds, sort, residents,
                      plans, candidateVars, histories>>
    \/ /\ part = "history" /\ History!Next
       /\ UNCHANGED <<ranges, prefixes, rangeBuilds, prefixBuilds, sort, residents,
                      plans, candidateVars, exports>>

RunInit ==
    /\ part \in {"store", "journal", "edits"} \cup TreeParts
    /\ Store!Init /\ Log!Init /\ Init /\ TreesInit

RunNext ==
    /\ UNCHANGED part
    /\ \/ part = "store" /\ Store!Next /\ UNCHANGED <<changes, vars, treeVars>>
       \/ part = "journal" /\ Log!Next /\ UNCHANGED <<snapshots, vars, treeVars>>
       \/ part = "edits" /\ Next /\ UNCHANGED <<snapshots, changes, treeVars>>
       \/ TreesNext /\ UNCHANGED <<snapshots, changes, vars>>

RunSpec == RunInit /\ [][RunNext]_<<part, snapshots, changes, vars, treeVars>>

-----------------------------------------------------------------------------
\* Every acknowledged row is recovered from whatever a crash leaves, and no head a
\* recovery may pick names an object that was reclaimed (SegmentedStore:
\* AcknowledgedRowsSurvive, RecoverableHeadsAreClosed).
StoreRecovers == Store!AcknowledgedRowsSurvive /\ Store!RecoverableHeadsAreClosed

\* What a caller sees is what a restart would recover, whatever is in flight; replay
\* hands out every path some mutation still owes and no other, and a rename whose
\* destination alone was acknowledged still deletes its source (Journal:
\* ExposedIsStored, ReplayCoversPending).
JournalIsTrue == Log!ExposedIsStored /\ Log!ReplayCoversPending

\* A resumable mutation publishes exactly what the one-shot update computes, in both
\* formats, touches the store in no other step, and a retired one holds nothing
\* (RangeMutation and PrefixMutation: StepMatchesUpdate, RetirementDrains).
MutationMatchesUpdate ==
    [][/\ part = "range" => Ranges!StepMatchesUpdate /\ Ranges!RetirementDrains'
       /\ part = "prefix" => Directories!StepMatchesUpdate /\ Directories!RetirementDrains'
      ]_treeVars

\* A replacement built from rows in any order is the tree the canonical build makes of
\* them, and its sort is stable (RangeRebuild, PrefixRebuild: RebuildIsCanonical;
\* StableSort: SortIsStable).
RebuildIsCanonical ==
    /\ part = "range build" => RangeBuilds!RebuildIsCanonical
    /\ part = "prefix build" => PrefixBuilds!RebuildIsCanonical
    /\ part = "sort" => Sorts!SortIsStable

\* The meters say at every step what the job holds, and what the plan asked for before
\* the first node was encoded covers what is built (RangeRebuild, PrefixRebuild:
\* MetersExact; RangeRebuild, RangeMutation: PlanCoversOutput).
ChargesAreExact ==
    /\ part = "range" => Ranges!PlanCoversOutput
    /\ part = "range build" => RangeBuilds!MetersExact /\ RangeBuilds!PlanCoversOutput
    /\ part = "prefix build" => PrefixBuilds!MetersExact

\* A settlement tells the host exactly what became resident or was freed, and an abort
\* leaves the store as the candidate found it (ResidentTree: SettlementExact,
\* CutIsBaseline, ResidentMetersExact).
SettlementExact ==
    part = "resident" =>
        Residents!SettlementExact /\ Residents!CutIsBaseline /\ Residents!ResidentMetersExact

\* The pages of a chunk plan name every chunk of the candidate once, whatever answers
\* were lost and asked for again (ChunkPlan: PlanIsComplete, RepeatsAreAnswered).
PlanIsComplete == part = "plan" => Plans!PlanIsComplete /\ Plans!RepeatsAreAnswered

\* A root leaves the core whole, within the arena that was charged for it (RootExport:
\* ExportIsWhole, ArenaSuffices).
ExportIsWhole ==
    [][part = "export" => Exports!ExportIsWhole' /\ Exports!ArenaSuffices]_treeVars

\* The pages of a difference take a device from its base to the target, across formats,
\* purges and rollbacks; a format change keeps every file (VaultHistory:
\* PagesReachTarget, FormatKeepsFiles).
PagesReachTarget ==
    [][part = "history" => History!PagesReachTarget /\ History!FormatKeepsFiles]_treeVars
==============================================================================
