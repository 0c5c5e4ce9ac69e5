----------------------------- MODULE MCProgress -----------------------------
(***************************************************************************)
(* What must eventually happen, on small instances.  Between a device and  *)
(* the server: the storage writer answers (WriterQueue), a lane request    *)
(* settles (DataLane), the circuit closes again (TransportRouter), a       *)
(* sealed call returns (SealedChannel).  On the device: a file and its     *)
(* server copy agree (LocalChanges), and a tree job that failed is cleaned *)
(* up (TreeJobs).  `part` is the component a behaviour belongs to; the     *)
(* others stay where they start.                                           *)
(***************************************************************************)
EXTENDS SealedChannel, Sequences

CONSTANTS r1, r2, a, b, importer, c1, b1

VARIABLES
    part,
    st, queue, messages, sched, pc, group,
    nextRequestId, pending, cancelled, outcome, response, nextFragment,
    v2Control, v2Bulk, v2ControlBurst, controlFrames, pump, seqOut, clientUp,
    c2s, s2c, phase, assembling, rejected, queued, active, answers, controlReady,
    bulkReady, lastRequestId, fragmentBurst, dispatchBurst, seqIn, broke,
    wsFailures, openFor, halfOpen, recovery, call, samples, score,
    preferred, holdFor, sinceProbe, healthy,
    disk, versions, notices, handlers, latest, expected, dirty, journal, base, saved,
    head, published, heard, journaled, work, intent, session, scanDue, repair,
    misses, journalFaults, crashes,
    native, owner, ledger, engine, failures

writer == <<st, queue, messages, sched, pc, group>>
lane ==
    <<nextRequestId, pending, cancelled, outcome, response, nextFragment,
      v2Control, v2Bulk, v2ControlBurst, controlFrames, pump, seqOut, clientUp,
      c2s, s2c, phase, assembling, rejected, queued, active, answers, controlReady,
      bulkReady, lastRequestId, fragmentBurst, dispatchBurst, seqIn, broke>>
router ==
    <<wsFailures, openFor, halfOpen, recovery, call, samples, score,
      preferred, holdFor, sinceProbe, healthy>>
edits ==
    <<disk, versions, notices, handlers, latest, expected, dirty, journal, base, saved,
      head, published, heard, journaled, work, intent, session, scanDue, repair,
      misses, journalFaults, crashes>>
jobs == <<native, owner, ledger, engine, failures>>
all == <<part, writer, lane, router, vars, edits, jobs>>

-----------------------------------------------------------------------------
\* Two clients with both classes of requests, and the importer.
Messages ==
    {[owner |-> a, class |-> "control", n |-> 1], [owner |-> a, class |-> "bulk", n |-> 1],
     [owner |-> a, class |-> "bulk", n |-> 2], [owner |-> b, class |-> "bulk", n |-> 1],
     [owner |-> b, class |-> "bulk", n |-> 2],
     [owner |-> importer, class |-> "control", n |-> 1]}
OwnerOf(r) == r.owner
ClassOf(r) == r.class
SizeOf(r) == IF r.owner = importer THEN 2 ELSE r.n

Writer == INSTANCE WriterQueue WITH
    channel <- messages, Request <- Messages, Owner <- {a, b, importer}, Internal <- importer,
    ChannelMessages <- 4, QueueBytes <- 7, BulkMessages <- 3, BulkBytes <- 4,
    MaxActiveOwners <- 3, OwnerMessages <- 3, OwnerBulkMessages <- 2, OwnerBulkBytes <- 3,
    OwnerControlMessages <- 1, OwnerControlBytes <- 2, MaxControlBurst <- 1, GroupTarget <- 2

\* A bulk get with a long answer and a two-fragment put.
Mux == INSTANCE DataLane WITH
    MaxId <- 2, Kind <- <<"get", "put">>, Urgent <- {}, ReqLen <- <<1, 2>>, RespLen <- <<2, 1>>,
    MaxRequests <- 2, MaxBytes <- 4, MaxPayload <- 2, MaxRunning <- 1, MaxBurst <- 1,
    MaxCancelled <- 2, Pressure <- TRUE, Timeouts <- FALSE, ReplyDuringSeal <- TRUE

\* A control call and a bulk call.
Router == INSTANCE TransportRouter WITH
    failures <- wsFailures, Calls <- {c1, b1},
    Lane <- [c \in {c1, b1} |-> IF c = c1 THEN "control" ELSE "bulk"],
    Threshold <- 2, Extra <- 1, OpenBase <- 1, OpenMax <- 2, Hints <- {0},
    RecoveryThreshold <- 2, ProbeInterval <- 1, MinSamples <- 1, ProbeEvery <- 2, HoldTime <- 1

\* Convergence is claimed for a device that neither restarts nor loses its journal.
Edits == INSTANCE LocalChanges WITH
    phase <- session, faults <- misses,
    MaxVersion <- 3, MaxFaults <- 1, MaxJournalFaults <- 0, MaxCrashes <- 0

\* Both tree formats; the ledger holds two graphs and little more.
Jobs == INSTANCE TreeJobs WITH
    faults <- failures, Versions <- {1, 2}, GraphNodes <- 2, Capacity <- 12, MaxFaults <- 3

ASSUME Writer!WriterQueueAssumption /\ Jobs!TreeJobsAssumption

-----------------------------------------------------------------------------
RunInit ==
    /\ part \in {"writer", "lane", "router", "calls", "edits", "jobs"}
    /\ Writer!Init /\ Mux!Init /\ Router!Init /\ Init /\ Edits!Init /\ Jobs!Init
    /\ part # "jobs" => native.version = 1

OfWriter(A) == part = "writer" /\ A /\ UNCHANGED <<part, lane, router, vars, edits, jobs>>
OfLane(A) == part = "lane" /\ A /\ UNCHANGED <<part, writer, router, vars, edits, jobs>>
OfRouter(A) == part = "router" /\ A /\ UNCHANGED <<part, writer, lane, vars, edits, jobs>>
OfCalls(A) == part = "calls" /\ A /\ UNCHANGED <<part, writer, lane, router, edits, jobs>>
OfEdits(A) == part = "edits" /\ A /\ UNCHANGED <<part, writer, lane, router, vars, jobs>>
OfJobs(A) == part = "jobs" /\ A /\ UNCHANGED <<part, writer, lane, router, vars, edits>>

RunNext ==
    \/ OfWriter(Writer!Next) \/ OfLane(Mux!Next) \/ OfRouter(Router!Next)
    \/ OfCalls(Next) \/ OfEdits(Edits!Next) \/ OfJobs(Jobs!Next)

(* The fairness of each component, as its module gives it.  A behaviour has   *)
(* one part only, so one condition speaks for an action of each of them.      *)
WsEnds(c) == \E s \in Router!Scores, valid \in BOOLEAN : Router!WsSucceeds(c, valid, s)
HttpEnds(c) ==
    \E s \in Router!Scores, valid \in BOOLEAN, ok \in BOOLEAN : Router!HttpEnds(c, ok, valid, s)
CallsWs(c) == Router!Execute(c) /\ Router!BeginWsAttempt(c) # "none"
StartsJob == \E kind \in {"push", "pull"} : Jobs!Start(kind)

RunFairness ==
    /\ WF_all(\/ OfWriter(Writer!WriterProgress) \/ OfLane(Mux!Pump) \/ OfRouter(Router!Tick)
              \/ OfCalls(Client(r1)) \/ OfEdits(Edits!CallbackProgress) \/ OfJobs(Jobs!Work))
    /\ WF_all(\/ OfLane(Mux!ClientReceive) \/ OfRouter(HttpEnds(c1))
              \/ OfCalls(Client(r2)) \/ OfEdits(Edits!EngineProgress) \/ OfJobs(StartsJob))
    /\ WF_all(\/ OfLane(Mux!ClientFails /\ broke # "no") \/ OfRouter(HttpEnds(b1))
              \/ OfCalls(Server(r1)))
    /\ WF_all(OfLane(Mux!Deliver) \/ OfRouter(WsEnds(c1)) \/ OfCalls(Server(r2)))
    /\ WF_all(OfLane(Mux!Answer) \/ OfRouter(WsEnds(b1)) \/ OfCalls(Refresh))
    /\ WF_all(OfLane(Mux!SendControl) \/ OfRouter(CallsWs(c1)))
    /\ WF_all(OfLane(Mux!SendBulk))
    /\ \A id \in 1..2 : WF_all(OfLane(Mux!Execute(id, "result")))
    /\ SF_all(OfEdits(Edits!StartPush)) /\ SF_all(OfEdits(Edits!StartPull))

RunSpec == RunInit /\ [][RunNext]_all /\ RunFairness

-----------------------------------------------------------------------------
\* A message the writer accepted is answered (WriterQueue, EveryMessageAnswered).
EveryMessageAnswered == Writer!EveryMessageAnswered

\* Every lane request ends, and its tombstone drains (DataLane, RequestsSettle).
RequestsSettle == Mux!RequestsSettle

\* When the network is healthy for good, the circuit closes (TransportRouter,
\* CircuitRecovers).
CircuitRecovers == Router!CircuitRecovers

\* With the journal and the server available, the vault and the server come to agree
\* on the file and nothing stays queued (LocalChanges, Converges).
Converges == <>[](part = "edits" => Edits!InSync)

\* The resident ledger charges at least what the native tree holds, and between
\* operations a tree without a cleanup owner holds and is charged for its committed
\* graph alone (TreeJobs: ChargeCoversNative, IdleIsClean).
ChargeCoversNative == Jobs!ChargeCoversNative /\ Jobs!IdleIsClean

\* Whatever failed, every cleanup owner is drained in the end (TreeJobs,
\* CleanupCompletes).
CleanupCompletes == Jobs!CleanupCompletes

\* "The outbound AEAD sequence" the server reads has no gap (DataLane,
\* OutboundContiguous).
OutboundContiguous == Mux!OutboundContiguous
=============================================================================
