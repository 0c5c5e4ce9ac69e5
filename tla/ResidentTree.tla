----------------------------- MODULE ResidentTree -----------------------------
(* The tree of format 2 a device keeps in memory (TransactionalTreeV2) over *)
(* its chunk store (MemoryChunkStore): one committed root, at most one     *)
(* candidate, and the generation in which each node was inserted.  Opening *)
(* a candidate pins the current generation as its cut.  What the host is   *)
(* told about memory is kept in counters beside the data: the payload of   *)
(* the store, the strings of both roots, and, when a candidate settles,    *)
(* the bytes that stay.                                                    *)
EXTENDS RangeTree, WorkMemory

CONSTANTS
    Sources,            \* row lists the tree is built from
    Changes, Deletes,   \* inputs of one mutation
    IdentitySize,       \* bytes of the vault's and of the device's name, each
    MaxGeneration,      \* the counter's last value
    MaxExact            \* the largest exact integer of the host

VARIABLES
    t,          \* the tree: roots, cut, store, counters
    report,     \* what the last settlement told the host; <<>> when none did
    resident    \* (history) the nodes in the store when the candidate was opened

vars == <<t, report, resident>>

------------------------------------------------------------------------------
(* The chunk store                                                         *)

NodeBytes(node) ==
    IF node.height = 0 THEN LeafHeader + Sum(node.items, EntryBytes)
    ELSE RangeHeader + Sum(node.items, RangeBytes)
PayloadOf(nodes) == FoldSet(LAMBDA node, n : n + NodeBytes(node), 0, nodes)

NewStore == [birth |-> <<>>, payload |-> 0, generation |-> 0, pinned |-> <<>>]
Resident(s) == DOMAIN s.birth

\* Mutant: replaced bytes stay in the count.
BugInsertChunk(s, node) ==
    [s EXCEPT !.birth = [n \in Resident(s) \cup {node} |->
                            IF n \in Resident(s) THEN s.birth[n] ELSE s.generation],
              !.payload = @ + NodeBytes(node)]

\* insert_chunk: replaced bytes leave the count before the new ones join it, and a node
\* keeps the generation it was born in.
InsertChunk(s, node) ==
    LET known == node \in Resident(s)
        left == IF known THEN s.payload - NodeBytes(node) ELSE s.payload
    IN  [s EXCEPT !.birth = [n \in Resident(s) \cup {node} |->
                                IF n \in Resident(s) THEN s.birth[n] ELSE s.generation],
                  !.payload = left + NodeBytes(node)]
InsertAll(s, nodes) == FoldSet(LAMBDA node, store : InsertChunk(store, node), s, nodes)

\* promote_prepared_candidate_chunks: none of them is resident.
MayPromote(s, staged) == staged \cap Resident(s) = {}
Promote(s, staged) ==
    [s EXCEPT !.birth = [n \in Resident(s) \cup staged |->
                            IF n \in Resident(s) THEN s.birth[n] ELSE s.generation],
              !.payload = @ + PayloadOf(staged)]

\* candidate_baseline_preflight, open_candidate_baseline, close_candidate_baseline
MayPin(s) == s.pinned = <<>> /\ s.generation < MaxGeneration
Pin(s, cut) == [s EXCEPT !.pinned = <<cut>>, !.generation = cut + 1]
MayUnpin(s, cut) == s.pinned = <<cut>>

\* retain_chunks, after unpinning
Sweep(s, marked) ==
    LET gone == Resident(s) \ marked
    IN  [s EXCEPT !.pinned = <<>>, !.birth = [n \in Resident(s) \cap marked |-> s.birth[n]],
                  !.payload = @ - PayloadOf(gone)]

IsFreshSince(s, node, cut) == s.birth[node] > cut

------------------------------------------------------------------------------
(* What the roots own                                                      *)

EndpointBytes(root) ==
    IF root.child = <<>> THEN 0
    ELSE PathBytes[root.child[1].min] + PathBytes[root.child[1].max]
NoRootMeter == [roots |-> 0, strings |-> NoStrings]
RootStrings(child) ==
    IF child = <<>> THEN NoStrings
    ELSE [strings |-> 2, bytes |-> PathBytes[child[1].min] + PathBytes[child[1].max]]
\* RootMetadataMemory::from_v2
RootMeter(root) ==
    [roots |-> 1,
     strings |-> AddStrings([strings |-> 2, bytes |-> 2 * IdentitySize], RootStrings(root.child))]

NewTree(s) ==
    [phase |-> "live", committed |-> <<>>, candidate |-> <<>>, cut |-> <<>>, store |-> s,
     committedMeter |-> NoRootMeter, candidateMeter |-> NoRootMeter,
     identities |-> [strings |-> 2, bytes |-> 2 * IdentitySize]]

\* The committed root is replaced together with its meter; a candidate is forgotten.
Installed(n, root, s) ==
    [n EXCEPT !.committed = <<root>>, !.committedMeter = RootMeter(root), !.candidate = <<>>,
              !.candidateMeter = NoRootMeter, !.cut = <<>>, !.store = s]

Init == t = NewTree(NewStore) /\ report = <<>> /\ resident = {}

Live == t.phase = "live"
Walkable(root, s) == Reachable(root) \subseteq Resident(s)

\* load_root_without_chunks
LoadRootWithoutChunks(rows) ==
    /\ Live
    /\ t' = Installed(t, BuildTree(rows), NewStore)
    /\ report' = <<>> /\ UNCHANGED resident

\* rebuild and from_verified_replacement
Rebuild(rows) ==
    /\ Live
    /\ LET root == BuildTree(rows)
       IN  t' = Installed(t, root, InsertAll(NewStore, Reachable(root)))
    /\ report' = <<>> /\ UNCHANGED resident

\* candidate_open_memory_plan
OpenPlan(root) == 2 * IdentitySize + EndpointBytes(root)

MayOpen ==
    /\ Live /\ t.candidate = <<>> /\ t.committed # <<>>
    /\ Walkable(t.committed[1], t.store)
    /\ MayPin(t.store) /\ OpenPlan(t.committed[1]) <= MaxExact

\* open_prepared_candidate, the root copied and not changed since
Opened(n) ==
    LET cut == n.store.generation
    IN  [n EXCEPT !.candidate = n.committed, !.candidateMeter = RootMeter(n.committed[1]),
                  !.cut = <<cut>>, !.store = Pin(@, cut)]

BeginCandidate ==
    /\ MayOpen
    /\ t' = Opened(t) /\ resident' = Resident(t.store)
    /\ report' = <<>>

Installing(n, root) ==
    [n EXCEPT !.candidate = <<root>>, !.candidateMeter = RootMeter(root)]
\* update_tree puts every node it makes, one after the other.
Updated(n, changed, deleted) ==
    LET root == UpdateTree(n.candidate[1], changed, deleted)
    IN  Installing([n EXCEPT !.store = InsertAll(@, Reachable(root))], root)

Nothing(changed, deleted) == changed = <<>> /\ deleted = <<>>

ApplyCandidate(changed, deleted) ==
    /\ Live /\ t.candidate # <<>> /\ ~Nothing(changed, deleted)
    /\ t' = Updated(t, changed, deleted)
    /\ UNCHANGED <<report, resident>>

\* finish_candidate_mutation: the staged nodes are promoted together (RangeMutation).
FinishCandidateMutation(changed, deleted) ==
    /\ Live /\ t.candidate # <<>> /\ ~Nothing(changed, deleted)
    /\ LET root == UpdateTree(t.candidate[1], changed, deleted)
           staged == Reachable(root) \ Resident(t.store)
       IN  /\ MayPromote(t.store, staged)
           /\ t' = Installing([t EXCEPT !.store = Promote(@, staged)], root)
    /\ UNCHANGED <<report, resident>>

------------------------------------------------------------------------------
(* Settling                                                                *)

Committed(n) ==
    [n EXCEPT !.committed = n.candidate, !.committedMeter = n.candidateMeter,
              !.candidate = <<>>, !.candidateMeter = NoRootMeter, !.cut = <<>>,
              !.store = Sweep(@, Reachable(n.candidate[1]))]
Aborted(n) ==
    [n EXCEPT !.candidate = <<>>, !.candidateMeter = NoRootMeter, !.cut = <<>>,
              !.store = Sweep(@, Reachable(n.committed[1]))]

\* preflight_output_settlement_v1 precedes the walk and the sweep.
MaySettle(root) ==
    /\ Live /\ t.candidate # <<>>
    /\ t.store.payload + EndpointBytes(root) <= MaxExact
    /\ Walkable(root, t.store) /\ MayUnpin(t.store, t.cut[1])
Report(s, endpoints) ==
    <<[payload |-> s.payload, endpoints |-> endpoints, admission |-> s.payload + endpoints]>>

CommitCandidate ==
    /\ MaySettle(t.candidate[1])
    /\ t' = Committed(t)
    /\ report' = Report(t'.store, EndpointBytes(t.candidate[1]))
    /\ UNCHANGED resident

AbortCandidate ==
    /\ MaySettle(t.committed[1])
    /\ t' = Aborted(t)
    /\ report' = Report(t'.store, EndpointBytes(t.committed[1]))
    /\ UNCHANGED resident

\* The three steps of a pull in one call; without a settlement report.
ApplyCommitted(changed, deleted) ==
    /\ MayOpen
    /\ LET open == Opened(t)
           next == IF Nothing(changed, deleted) THEN open ELSE Updated(open, changed, deleted)
       IN  t' = Committed(next)
    /\ resident' = Resident(t.store)
    /\ report' = <<>>

------------------------------------------------------------------------------
(* Giving the tree up, one owner per step (TreeRetirementV2)               *)

RootOwners(root) == [child |-> root.child, vault |-> TRUE, device |-> TRUE]

IntoRetirement ==
    /\ Live
    /\ t' = [t EXCEPT !.phase = "retiring",
                      !.committed = IF @ = <<>> THEN @ ELSE <<RootOwners(@[1])>>,
                      !.candidate = IF @ = <<>> THEN @ ELSE <<RootOwners(@[1])>>]
    /\ report' = <<>> /\ UNCHANGED resident

Owns(root) == root.child # <<>> \/ root.vault \/ root.device

\* RootRetirementV2::retire_one with clear_if_empty
RetireRootPart(field, meter) ==
    LET root == t[field][1]
        part == IF root.child # <<>> THEN "child" ELSE IF root.vault THEN "vault" ELSE "device"
        left == IF part = "child" THEN [root EXCEPT !.child = <<>>] ELSE [root EXCEPT ![part] = FALSE]
        gone == IF part = "child" THEN RootStrings(root.child) ELSE OneString(IdentitySize)
        metered == [t[meter] EXCEPT !.strings = SubtractStrings(@, gone)]
    IN  t' = [t EXCEPT ![field] = IF Owns(left) THEN <<left>> ELSE <<>>,
                       ![meter] = IF Owns(left) THEN metered ELSE NoRootMeter]

RetireCommitted ==
    /\ t.phase = "retiring" /\ t.committed # <<>>
    /\ RetireRootPart("committed", "committedMeter")
    /\ UNCHANGED <<report, resident>>

RetireCandidate ==
    /\ t.phase = "retiring" /\ t.committed = <<>> /\ t.candidate # <<>>
    /\ RetireRootPart("candidate", "candidateMeter")
    /\ UNCHANGED <<report, resident>>

\* ChunkRetirement::next; the cut goes first, without a step of its own.
RetireChunk ==
    /\ t.phase = "retiring" /\ t.committed = <<>> /\ t.candidate = <<>> /\ Resident(t.store) # {}
    /\ LET node == CHOOSE n \in Resident(t.store) : TRUE
       IN  t' = [t EXCEPT !.cut = <<>>,
                          !.store.birth = [n \in Resident(t.store) \ {node} |-> t.store.birth[n]],
                          !.store.payload = @ - NodeBytes(node)]
    /\ UNCHANGED <<report, resident>>

RetireIdentity ==
    /\ t.phase = "retiring" /\ t.committed = <<>> /\ t.candidate = <<>> /\ Resident(t.store) = {}
    /\ t.identities.strings > 0
    /\ t' = [t EXCEPT !.cut = <<>>, !.identities = SubtractStrings(@, OneString(IdentitySize))]
    /\ UNCHANGED <<report, resident>>

Retire == RetireCommitted \/ RetireCandidate \/ RetireChunk \/ RetireIdentity

Next ==
    \/ \E rows \in Sources : LoadRootWithoutChunks(rows) \/ Rebuild(rows)
    \/ BeginCandidate \/ CommitCandidate \/ AbortCandidate
    \/ \E changed \in Changes, deleted \in Deletes :
         \/ ApplyCandidate(changed, deleted) \/ FinishCandidateMutation(changed, deleted)
         \/ ApplyCommitted(changed, deleted)
    \/ IntoRetirement \/ Retire

Spec == Init /\ [][Next]_vars

------------------------------------------------------------------------------

\* What a settled candidate leaves is exactly the graph of the committed root, and the
\* bytes reported to the host, which it releases the rest of its admission by, are the
\* bytes of that graph and of the root's two paths.
SettlementExact ==
    report # <<>> =>
        /\ t.candidate = <<>> /\ t.store.pinned = <<>>
        /\ Resident(t.store) = Reachable(t.committed[1])
        /\ report[1].admission = PayloadOf(Reachable(t.committed[1])) + EndpointBytes(t.committed[1])

\* "Fresh" is what the candidate added: the generation counter tells exactly the nodes
\* that were not in the store when the candidate was opened, whether they were put or
\* promoted, and even at the counter's last value.
CutIsBaseline ==
    Live /\ t.candidate # <<>> =>
        /\ resident \subseteq Resident(t.store)
        /\ \A node \in Resident(t.store) : IsFreshSince(t.store, node, t.cut[1]) <=> node \notin resident

LiveMeter(root) == IF root = <<>> THEN NoRootMeter ELSE RootMeter(root[1])
RetiringMeter(root) ==
    IF root = <<>> THEN NoRootMeter
    ELSE [roots |-> 1,
          strings |-> LET names == (IF root[1].vault THEN 1 ELSE 0) + (IF root[1].device THEN 1 ELSE 0)
                      IN  AddStrings([strings |-> names, bytes |-> names * IdentitySize],
                                     RootStrings(root[1].child))]

\* The counters beside the data say what is owned, in a live tree and at every step of
\* giving it up.
ResidentMetersExact ==
    /\ t.store.payload = PayloadOf(Resident(t.store))
    /\ t.committedMeter = IF Live THEN LiveMeter(t.committed) ELSE RetiringMeter(t.committed)
    /\ t.candidateMeter = IF Live THEN LiveMeter(t.candidate) ELSE RetiringMeter(t.candidate)
==============================================================================
