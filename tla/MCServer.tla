------------------------------ MODULE MCServer ------------------------------
(***************************************************************************)
(* Parts of the server and of the wire to it that share no state, each on  *)
(* a small instance: the anti-replay window (SequenceTracker), devices and *)
(* their credentials (DeviceRegistry), the multiplexed lane (DataLane),    *)
(* the object store (PackStore), the line merge and the tree merge         *)
(* (TreeMerge).  `part` is the one a behaviour belongs to; the others stay *)
(* where they start.                                                       *)
(***************************************************************************)
EXTENDS SequenceTracker, DeviceRegistry, PackStore

CONSTANTS
    Absent,
    MaxLines   \* bound: lines of the base text

VARIABLES
    part,
    nextRequestId, pending, withdrawn, outcome, response, nextFragment,
    v2Control, v2Bulk, v2ControlBurst, controlFrames, pump, seqOut, clientUp,
    c2s, s2c, phase, assembling, rejected, queued, running, answers, controlReady,
    bulkReady, lastRequestId, fragmentBurst, dispatchBurst, seqIn, broke,
    base, local, remote, result,                      \* a text and two diffs of it
    old, a, b, v1, text, decided                      \* a tree and its two successors

lane ==
    <<nextRequestId, pending, withdrawn, outcome, response, nextFragment,
      v2Control, v2Bulk, v2ControlBurst, controlFrames, pump, seqOut, clientUp,
      c2s, s2c, phase, assembling, rejected, queued, running, answers, controlReady,
      bulkReady, lastRequestId, fragmentBurst, dispatchBurst, seqIn, broke>>

ASSUME DeviceRegistryAssumption /\ PackStoreAssumption

\* A bulk get with a long answer, a two-fragment put and a check.
Mux == INSTANCE DataLane WITH
    cancelled <- withdrawn, active <- running,
    MaxId <- 3, Kind <- <<"get", "put", "check">>, Urgent <- {}, ReqLen <- <<1, 2, 1>>,
    RespLen <- <<2, 1, 2>>, MaxRequests <- 2, MaxBytes <- 4, MaxPayload <- 2, MaxRunning <- 1,
    MaxBurst <- 1, MaxCancelled <- 2, Pressure <- TRUE, Timeouts <- TRUE, ReplyDuringSeal <- TRUE

texts == <<base, local, remote, result>>
trees == <<old, a, b, v1, text, decided>>

\* Directories are merged independently of each other: one is enough.
Paths == {"p1", "p2"}
Trees == INSTANCE TreeMerge WITH
    Path <- Paths, PrefixOf <- [p \in Paths |-> "notes"], Hash <- {"h1", "h2", "h3"},
    Mixed <- "mixed", MTime <- {0, 1}

-----------------------------------------------------------------------------
Undecided == [kind |-> "Pending", content |-> <<>>]

\* A line carries the text it comes from and its rank in it.
News(side) == {<<>>, <<<<side, 1>>>>, <<<<side, 1>>, <<side, 2>>>>}

\* Diffs of one or two operations: try_text_merge runs only when both sides
\* changed the file.
Diffs(lines, side) ==
    LET Fits == {d \in Trees!Op(lines, News(side)) : Trees!IsDiff(lines, {d})}
    IN  {ops \in {{o1, o2} : o1, o2 \in Fits} : Trees!IsDiff(lines, ops)}

NoTexts == base = <<>> /\ local = {} /\ remote = {}
SomeTexts ==
    \E n \in 0..MaxLines :
        /\ base = [i \in 1..n |-> <<"base", i>>]
        /\ local \in Diffs(n, "local")
        /\ remote \in Diffs(n, "remote")

MergeTexts ==
    /\ result = Undecided
    /\ result' = Trees!ThreeWayTextMerge(base, local, remote)
    /\ UNCHANGED <<base, local, remote>>

Plain == {t \in Trees!Tree : \A p \in Paths : t[p] # Absent => t[p].hash # "mixed"}

NoTrees == old = Trees!EmptyTree /\ a = old /\ b = old /\ v1 = FALSE
SomeTrees == old \in Plain /\ a \in Plain /\ b \in Plain /\ v1 \in BOOLEAN

MergeTrees ==
    /\ ~decided
    /\ decided' = TRUE
    /\ text' \in SUBSET Trees!TextTodo(old, a, b, v1)
    /\ UNCHANGED <<old, a, b, v1>>

RunInit ==
    /\ part \in {"window", "devices", "lane", "packs", "texts", "trees"}
    /\ Init /\ RegistryInit /\ Mux!Init /\ PackInit
    /\ part # "devices" => \A d \in Device : json[d] = "absent"
    /\ part # "packs" => loose = {}
    /\ IF part = "texts" THEN SomeTexts ELSE NoTexts
    /\ result = Undecided
    /\ IF part = "trees" THEN SomeTrees ELSE NoTrees
    /\ text = {} /\ decided = FALSE

RunNext ==
    /\ UNCHANGED part
    /\ \/ part = "window" /\ Next /\ UNCHANGED <<registryVars, lane, packVars, texts, trees>>
       \/ part = "devices" /\ RegistryNext /\ UNCHANGED <<vars, lane, packVars, texts, trees>>
       \/ part = "lane" /\ Mux!Next /\ UNCHANGED <<vars, registryVars, packVars, texts, trees>>
       \/ part = "packs" /\ PackNext /\ UNCHANGED <<vars, registryVars, lane, texts, trees>>
       \/ part = "texts" /\ MergeTexts /\ UNCHANGED <<vars, registryVars, lane, packVars, trees>>
       \/ part = "trees" /\ MergeTrees /\ UNCHANGED <<vars, registryVars, lane, packVars, texts>>

RunSpec == RunInit /\ [][RunNext]_<<part, vars, registryVars, lane, packVars, texts, trees>>

-----------------------------------------------------------------------------
\* The ledger's phase of a request names the one place that owns it, so credit is
\* neither leaked nor spent twice; and a caller gets a result only if the server ran
\* the whole request and never honoured a CANCEL for it (DataLane:
\* LedgerMatchesOwners, ResultsAreWhole).
LaneIsExact == [][part = "lane" => Mux!LedgerMatchesOwners' /\ Mux!ResultsAreWhole]_lane

Decided == result.kind = "Merged"

InsertsInside(ops) == \E d \in ops : d.len = 0 /\ d.at < Len(base)

\* Edits that replace, delete or append merge to exactly the base with both
\* edits applied (apply_non_overlapping_changes walks the base once and keeps
\* its place whatever the two diffs are).
ReplaceMergesExactly ==
    Decided /\ ~InsertsInside(local \cup remote) =>
        result.content = Trees!Edited(base, local \cup remote)

\* A base line that neither diff replaces or deletes is in the merged text
\* ("Neither side changed - keep base line", conflict.rs).
UntouchedLinesSurvive ==
    Decided => \A i \in 1..Len(base) :
        ~Trees!Covered(local \cup remote, i - 1) =>
            \E k \in 1..Len(result.content) : result.content[k] = base[i]

\* What either side of a merge wrote is in the merged tree, mixed into it or reported,
\* with either engine, and the engines agree on the files they keep (TreeMerge,
\* MergesKeepChanges).
MergesKeepChanges == decided => Trees!MergesKeepChanges(old, a, b, v1, text)
=============================================================================
