------------------------------ MODULE DataLane ------------------------------
(***************************************************************************)
(* The sealed WebSocket data lane in its fragmented wire version (OBW2):   *)
(* one connected session, the client's half (plugin/src/ws-data.ts) and    *)
(* the server's (sync-server/src/ws_data.rs) over two ordered streams.     *)
(*                                                                         *)
(* The client multiplexes requests.  Each is cut into fragments, a pump    *)
(* seals and sends one fragment at a time, and CANCEL frames overtake the  *)
(* fragments that are left.  Sealing takes the next number of the          *)
(* outbound AEAD sequence when it starts and finishes later; replies are   *)
(* handled meanwhile.  The server admits a request into a ledger,          *)
(* reassembles it, queues it, runs at most MaxRunning at once and sends    *)
(* the answers in fragments from two lanes.  A request it has no room for  *)
(* is answered Busy at its first fragment and the rest is drained.         *)
(*                                                                         *)
(* Lengths are counted in fragments: a request of length n is n fragments  *)
(* and costs n units of every byte budget.                                 *)
(***************************************************************************)
EXTENDS Naturals, Sequences, SequencesExt, FiniteSets, FiniteSetsExt

CONSTANTS
    MaxId,            \* requests are numbered 1..MaxId in the order issued
    Kind,             \* [1..MaxId -> {"check", "put", "get"}]
    Urgent,           \* small puts the caller marked "urgent-file"
    ReqLen, RespLen,  \* fragments of the request and of its full answer
    MaxRequests,      \* negotiated max_inflight_requests
    MaxBytes,         \* negotiated max_inflight_bytes
    MaxPayload,       \* negotiated max_payload_bytes, what a GET is charged
    MaxRunning,       \* MAX_RUNNING_REQUESTS
    MaxBurst,         \* MAX_CONTROL_FRAGMENT_BURST of both ends
    MaxCancelled,     \* MAX_CANCELLED_REQUESTS
    Pressure,         \* other sessions may exhaust the process memory budget
    Timeouts,         \* the client's send, ACK and drain deadlines may expire
    ReplyDuringSeal   \* a reply may be handled while the pump awaits a seal

Ids == 1..MaxId

VARIABLES
    \* the client
    nextRequestId, pending, cancelled, outcome, response, nextFragment,
    v2Control, v2Bulk, v2ControlBurst, controlFrames, pump, seqOut, clientUp,
    \* the socket
    c2s, s2c,
    \* the server
    phase, assembling, rejected, queued, active, answers, controlReady,
    bulkReady, lastRequestId, fragmentBurst, dispatchBurst, seqIn, broke

client == <<nextRequestId, pending, cancelled, outcome, response, nextFragment,
            v2Control, v2Bulk, v2ControlBurst, controlFrames, pump, seqOut, clientUp>>
server == <<phase, assembling, rejected, queued, active, answers, controlReady,
            bulkReady, lastRequestId, fragmentBurst, dispatchBurst, seqIn, broke>>
vars == <<client, c2s, s2c, server>>

NoPump == [kind |-> "idle", id |-> 0, seq |-> 0]
NoResponse == [type |-> "none", next |-> 0]

\* What the server owes an answer for, and where it is.
Owed == {"assembling", "queued", "running", "sending"}

Init ==
    /\ nextRequestId = 1 /\ pending = {} /\ cancelled = {}
    /\ outcome = [id \in Ids |-> "none"]
    /\ response = [id \in Ids |-> NoResponse]
    /\ nextFragment = [id \in Ids |-> 0]
    /\ v2Control = <<>> /\ v2Bulk = <<>> /\ v2ControlBurst = 0
    /\ controlFrames = <<>> /\ pump = NoPump /\ seqOut = 0 /\ clientUp = TRUE
    /\ c2s = <<>> /\ s2c = <<>>
    /\ phase = [id \in Ids |-> "none"]
    /\ assembling = [id \in Ids |-> 0] /\ rejected = [id \in Ids |-> 0]
    /\ queued = <<>> /\ active = [id \in Ids |-> "no"] /\ answers = <<>>
    /\ controlReady = <<>> /\ bulkReady = <<>>
    /\ lastRequestId = 0 /\ fragmentBurst = 0 /\ dispatchBurst = 0
    /\ seqIn = 0 /\ broke = "no"

Total(f, S) == FoldFunctionOnSet(LAMBDA a, b : a + b, 0, f, S)

-----------------------------------------------------------------------------
(* The client.                                                             *)

\* failCurrent: the socket is gone; every caller that still waits is told so.
FailCurrent ==
    /\ clientUp' = FALSE
    /\ outcome' = [id \in Ids |-> IF id \in pending THEN "lost" ELSE outcome[id]]
    /\ pending' = {} /\ cancelled' = {}
    /\ v2Control' = <<>> /\ v2Bulk' = <<>> /\ v2ControlBurst' = 0
    /\ controlFrames' = <<>> /\ pump' = NoPump
    /\ response' = [id \in Ids |-> NoResponse]
    /\ UNCHANGED <<nextRequestId, nextFragment, seqOut>>

SchedulingLane(id) ==
    IF Kind[id] = "check" THEN "control" ELSE IF id \in Urgent THEN "urgent-file" ELSE "bulk"

\* enqueueV2Request: anything but bulk starts in the control queue.
EnqueueV2Request(id) ==
    IF SchedulingLane(id) # "bulk"
    THEN v2Control' = Append(v2Control, id) /\ UNCHANGED v2Bulk
    ELSE v2Bulk' = Append(v2Bulk, id) /\ UNCHANGED v2Control

\* request: acquireCredit reserves a request and its bytes, then the request
\* takes the next id and enters the pump's queue of its lane.
LaneRequest ==
    LET id == nextRequestId IN
    /\ clientUp /\ id \in Ids
    /\ Cardinality(pending) < MaxRequests
    /\ Total(ReqLen, pending) + ReqLen[id] <= MaxBytes
    /\ nextRequestId' = id + 1
    /\ pending' = pending \cup {id}
    /\ EnqueueV2Request(id)
    /\ UNCHANGED <<cancelled, outcome, response, nextFragment, v2ControlBurst,
                   controlFrames, pump, seqOut, clientUp, c2s, s2c, server>>

\* cancelPending: pending.sent || pending.sealing.
LeavesTombstone(id) == nextFragment[id] > 0 \/ (pump.kind = "fragment" /\ pump.id = id)

\* cancelPending: the caller's signal aborts.  The caller is answered and its
\* credit returned at once; if any of it was (or is being) sealed, a tombstone
\* keeps waiting for the terminal reply and a CANCEL frame is queued.
Abort(id) ==
    /\ clientUp /\ id \in pending
    /\ IF LeavesTombstone(id) /\ Cardinality(cancelled) >= MaxCancelled
       THEN FailCurrent /\ UNCHANGED <<c2s, s2c, server>>
       ELSE /\ pending' = pending \ {id}
            /\ outcome' = [outcome EXCEPT ![id] = "aborted"]
            /\ cancelled' = IF LeavesTombstone(id) THEN cancelled \cup {id} ELSE cancelled
            /\ controlFrames' = IF LeavesTombstone(id) THEN Append(controlFrames, id)
                                ELSE controlFrames
            /\ UNCHANGED <<nextRequestId, response, nextFragment, v2Control, v2Bulk,
                           v2ControlBurst, pump, seqOut, clientUp, c2s, s2c, server>>

Unstarted == {id \in ToSet(v2Control) \cup ToSet(v2Bulk) : nextFragment[id] = 0}

\* nextV2Request: control first, at most MaxBurst in a row while bulk waits; a
\* request that has sent nothing yet never starts before an older such request.
NextV2Request ==
    LET controlPreferred == v2Control # <<>> /\ (v2Bulk = <<>> \/ v2ControlBurst < MaxBurst)
        selected == IF controlPreferred \/ v2Bulk = <<>> THEN v2Control[1] ELSE v2Bulk[1]
    IN  IF nextFragment[selected] = 0 THEN Min(Unstarted) ELSE selected

\* runV2Pump, up to the await: drain one CANCEL frame, else take a fragment.
\* A frame whose request needs no CANCEL any more, or a fragment whose request
\* is no longer pending, is dropped; any other is sealed under the next number.
PumpCancel ==
    /\ clientUp /\ pump = NoPump /\ controlFrames # <<>>
    /\ controlFrames' = Tail(controlFrames)
    /\ IF controlFrames[1] \in cancelled
       THEN /\ pump' = [kind |-> "cancel", id |-> controlFrames[1], seq |-> seqOut]
            /\ seqOut' = seqOut + 1
       ELSE UNCHANGED <<pump, seqOut>>
    /\ UNCHANGED <<nextRequestId, pending, cancelled, outcome, response, nextFragment,
                   v2Control, v2Bulk, v2ControlBurst, clientUp, c2s, s2c, server>>

PumpFragment ==
    /\ clientUp /\ pump = NoPump /\ controlFrames = <<>>
    /\ v2Control # <<>> \/ v2Bulk # <<>>
    /\ LET id == NextV2Request IN
       /\ v2Control' = SelectSeq(v2Control, LAMBDA r : r # id)
       /\ v2Bulk' = SelectSeq(v2Bulk, LAMBDA r : r # id)
       /\ v2ControlBurst' = IF SchedulingLane(id) = "bulk" THEN 0
                            ELSE Min({MaxBurst, v2ControlBurst + 1})
       /\ IF id \in pending
          THEN /\ pump' = [kind |-> "fragment", id |-> id, seq |-> seqOut]
               /\ seqOut' = seqOut + 1
          ELSE UNCHANGED <<pump, seqOut>>
    /\ UNCHANGED <<nextRequestId, pending, cancelled, outcome, response, nextFragment,
                   controlFrames, clientUp, c2s, s2c, server>>

\* runV2Pump and drainControlFrames, after the await.  A sealed fragment is
\* sent while its request is pending, and also (sendCancelledSealedBoundary)
\* when the request was aborted meanwhile; a sealed CANCEL is sent while the
\* tombstone stands.  When the terminal reply arrived during the seal, the
\* sealed frame is dropped although its sequence number is spent.
PumpSend ==
    LET id == pump.id
        frame == IF pump.kind = "cancel" THEN [seq |-> pump.seq, t |-> "cancel", id |-> id, idx |-> 0]
                 ELSE [seq |-> pump.seq, t |-> "request", id |-> id, idx |-> nextFragment[id]]
        more == pump.kind = "fragment" /\ id \in pending /\ nextFragment[id] + 1 < ReqLen[id]
    IN
    /\ clientUp /\ pump # NoPump
    /\ pump' = NoPump
    /\ c2s' = IF id \in cancelled \/ (pump.kind = "fragment" /\ id \in pending)
              THEN Append(c2s, frame) ELSE c2s
    /\ nextFragment' = IF pump.kind = "fragment" /\ id \in pending
                       THEN [nextFragment EXCEPT ![id] = @ + 1] ELSE nextFragment
    /\ v2Control' = IF more /\ Kind[id] = "check" THEN Append(v2Control, id) ELSE v2Control
    /\ v2Bulk' = IF more /\ Kind[id] # "check" THEN Append(v2Bulk, id) ELSE v2Bulk
    /\ UNCHANGED <<nextRequestId, pending, cancelled, outcome, response, v2ControlBurst,
                   controlFrames, seqOut, clientUp, s2c, server>>

\* handleResponseFragment: only the Error that a CANCEL produced may restart
\* an answer that is already partly received.
RestartAllowed(id, m) == id \in cancelled /\ m.type = "error" /\ response[id].type # "error"

\* The fragment continues, starts or legally restarts its request's answer.
FragmentFits(m) ==
    LET r == response[m.id] IN
    /\ m.id \in pending \cup cancelled
    /\ IF m.idx = 0 THEN r = NoResponse \/ RestartAllowed(m.id, m)
       ELSE r.type = m.type /\ r.next = m.idx

\* onmessage, handleResponseFragment, handleResponse: the next fragment of
\* some answer.  The last one settles the caller, or clears the tombstone; one
\* that does not fit throws, and the lane is closed.
ClientReceive ==
    LET m == s2c[1]
        last == m.idx + 1 = m.count
    IN
    /\ clientUp /\ s2c # <<>>
    /\ ReplyDuringSeal \/ pump = NoPump
    /\ s2c' = Tail(s2c)
    /\ IF FragmentFits(m)
       THEN /\ response' = [response EXCEPT ![m.id] =
                              IF last THEN NoResponse ELSE [type |-> m.type, next |-> m.idx + 1]]
            /\ pending' = IF last THEN pending \ {m.id} ELSE pending
            /\ cancelled' = IF last THEN cancelled \ {m.id} ELSE cancelled
            /\ outcome' = IF last /\ m.id \in pending THEN [outcome EXCEPT ![m.id] = m.type]
                          ELSE outcome
            /\ UNCHANGED <<nextRequestId, nextFragment, v2Control, v2Bulk, v2ControlBurst,
                           controlFrames, pump, seqOut, clientUp>>
       ELSE FailCurrent
    /\ UNCHANGED <<c2s, server>>

\* The socket's close reaches the client, or one of its deadlines expires.
ClientFails ==
    /\ clientUp
    /\ broke # "no" \/ (Timeouts /\ pending \cup cancelled # {})
    /\ FailCurrent
    /\ s2c' = <<>>
    /\ UNCHANGED <<c2s, server>>

-----------------------------------------------------------------------------
(* The server: run_session.                                                *)

\* The session ends: every owner, queue and task is dropped.
Break(reason) ==
    /\ broke' = reason
    /\ phase' = [id \in Ids |-> "none"]
    /\ assembling' = [id \in Ids |-> 0] /\ rejected' = [id \in Ids |-> 0]
    /\ queued' = <<>> /\ active' = [id \in Ids |-> "no"] /\ answers' = <<>>
    /\ controlReady' = <<>> /\ bulkReady' = <<>>
    /\ c2s' = <<>>
    /\ UNCHANGED <<client, s2c, lastRequestId, fragmentBurst, dispatchBurst, seqIn>>

\* rpc_reservation_bytes: the larger of the request and what its answer may need.
Reservation == [id \in Ids |-> IF Kind[id] = "get" THEN MaxPayload ELSE ReqLen[id]]

Admitted == {id \in Ids : phase[id] \in Owed}

\* AdmissionLedger::admit.
Admits(id) ==
    /\ Cardinality(Admitted) < MaxRequests
    /\ Total(Reservation, Admitted) + Reservation[id] <= MaxBytes

\* take_next_queued: the position to run next and the burst counter after it.
TakeNextQueued(d) ==
    LET control == {i \in 1..Len(d.queued) : Kind[d.queued[i]] = "check"}
        bulk == 1..Len(d.queued) \ control
    IN  IF control # {} /\ (bulk = {} \/ d.burst < MaxBurst)
        THEN [pos |-> Min(control), burst |-> Min({MaxBurst, d.burst + 1})]
        ELSE [pos |-> Min(bulk), burst |-> 0]

\* dispatch_queued: start queued requests while a running slot is free.
Dispatch(d) ==
    LET start(e) ==
            IF Cardinality({id \in Ids : e.active[id] # "no"}) >= MaxRunning \/ e.queued = <<>>
            THEN e
            ELSE LET n == TakeNextQueued(e)
                     id == e.queued[n.pos]
                 IN  [queued |-> RemoveAt(e.queued, n.pos), burst |-> n.burst,
                      active |-> [e.active EXCEPT ![id] = "running"],
                      phase |-> [e.phase EXCEPT ![id] = "running"]]
        run[n \in 0..MaxRunning] == IF n = 0 THEN d ELSE start(run[n - 1])
    IN  run[MaxRunning]

Install(d) ==
    /\ queued' = d.queued /\ dispatchBurst' = d.burst
    /\ active' = d.active /\ phase' = d.phase

Ready(id, type, priority) ==
    [id |-> id, type |-> type, priority |-> priority, next |-> 0,
     count |-> IF type = "result" THEN RespLen[id] ELSE 1]

TakeReady(lane, id) == SelectSeq(lane, LAMBDA r : r.id # id)
CancelledFirst(id) == <<Ready(id, "error", "urgent")>> \o TakeReady(controlReady, id)

\* Mutant: a CANCEL that finds a half-sent answer lets the answer run on and
\* queues the Error beside it.
BugCancelRequest(id) ==
    /\ IF phase[id] \in {"assembling", "queued", "sending"}
       THEN /\ phase' = [phase EXCEPT ![id] = "sending"]
            /\ assembling' = [assembling EXCEPT ![id] = 0]
            /\ queued' = SelectSeq(queued, LAMBDA r : r # id)
            /\ controlReady' = CancelledFirst(id)
            /\ UNCHANGED <<bulkReady, active>>
       ELSE /\ active' = IF active[id] = "no" THEN active ELSE [active EXCEPT ![id] = "cancelling"]
            /\ UNCHANGED <<phase, assembling, queued, controlReady, bulkReady>>

\* cancel_request: what waits, or is half sent, is replaced by an urgent Error;
\* a running request is told to stop and is answered when it does.
CancelRequest(id) ==
    /\ IF phase[id] \in {"assembling", "queued", "sending"}
       THEN /\ phase' = [phase EXCEPT ![id] = "sending"]
            /\ assembling' = [assembling EXCEPT ![id] = 0]
            /\ queued' = SelectSeq(queued, LAMBDA r : r # id)
            /\ controlReady' = CancelledFirst(id)
            /\ bulkReady' = TakeReady(bulkReady, id)
            /\ UNCHANGED active
       ELSE /\ active' = IF active[id] = "no" THEN active ELSE [active EXCEPT ![id] = "cancelling"]
            /\ UNCHANGED <<phase, assembling, queued, controlReady, bulkReady>>

\* next_outbound_lane: an urgent Error first, then control for at most MaxBurst
\* fragments in a row while a bulk answer waits.
NextOutboundLane ==
    IF controlReady # <<>> /\ \/ controlReady[1].priority = "urgent"
                              \/ bulkReady = <<>>
                              \/ fragmentBurst < MaxBurst
    THEN "control"
    ELSE IF bulkReady # <<>> THEN "bulk" ELSE "none"

\* The select is biased: a frame is read only when no control fragment is due.
Incoming == broke = "no" /\ NextOutboundLane # "control" /\ c2s # <<>>

\* A frame that does not open under the next sequence number, that gaps or
\* repeats a request, or that exceeds the drain capacity ends the session.
FrameFault(m) ==
    IF m.seq # seqIn THEN "gap"
    ELSE IF m.t = "cancel" THEN "no"
    ELSE IF rejected[m.id] > 0 THEN (IF m.idx = rejected[m.id] THEN "no" ELSE "fragment")
    ELSE IF assembling[m.id] > 0 THEN (IF m.idx = assembling[m.id] THEN "no" ELSE "fragment")
    ELSE IF m.idx # 0 THEN "fragment"
    ELSE IF m.id <= lastRequestId THEN "id"
    ELSE "no"

\* decode failures, seal.open failure and the protocol checks: break.
ReceiveFault ==
    /\ Incoming /\ FrameFault(c2s[1]) # "no"
    /\ Break(FrameFault(c2s[1]))

ReceiveCancel ==
    /\ Incoming /\ FrameFault(c2s[1]) = "no" /\ c2s[1].t = "cancel"
    /\ c2s' = Tail(c2s) /\ seqIn' = seqIn + 1
    /\ LET id == c2s[1].id IN
       IF rejected[id] > 0
       THEN /\ rejected' = [rejected EXCEPT ![id] = 0]
            /\ UNCHANGED <<phase, assembling, queued, active, controlReady, bulkReady>>
       ELSE CancelRequest(id) /\ UNCHANGED rejected
    /\ UNCHANGED <<client, s2c, answers, lastRequestId, fragmentBurst, dispatchBurst,
                   broke>>

\* drain_rejected_fragment.
ReceiveRejected ==
    LET m == c2s[1] IN
    /\ Incoming /\ FrameFault(m) = "no" /\ m.t = "request" /\ rejected[m.id] > 0
    /\ c2s' = Tail(c2s) /\ seqIn' = seqIn + 1
    /\ rejected' = [rejected EXCEPT ![m.id] = IF m.idx + 1 = ReqLen[m.id] THEN 0 ELSE @ + 1]
    /\ UNCHANGED <<client, s2c, phase, assembling, queued, active, answers, controlReady,
                   bulkReady, lastRequestId, fragmentBurst, dispatchBurst, broke>>

\* Mutant: a request counts as whole one fragment early.
BugAccept(m) ==
    LET whole == m.idx + 2 >= ReqLen[m.id]
        admitted == [phase EXCEPT ![m.id] = IF whole THEN "queued" ELSE "assembling"]
    IN
    /\ assembling' = [assembling EXCEPT ![m.id] = IF whole THEN 0 ELSE m.idx + 1]
    /\ Install(Dispatch([queued |-> IF whole THEN Append(queued, m.id) ELSE queued,
                         burst |-> dispatchBurst, active |-> active, phase |-> admitted]))

\* The fragment joins its reassembly; a whole request is queued, and dispatched.
Accept(m) ==
    LET whole == m.idx + 1 = ReqLen[m.id]
        admitted == [phase EXCEPT ![m.id] = IF whole THEN "queued" ELSE "assembling"]
    IN
    /\ assembling' = [assembling EXCEPT ![m.id] = IF whole THEN 0 ELSE m.idx + 1]
    /\ Install(Dispatch([queued |-> IF whole THEN Append(queued, m.id) ELSE queued,
                         burst |-> dispatchBurst, active |-> active, phase |-> admitted]))

\* Reassembly::push on a request already admitted.
ReceiveNext ==
    LET m == c2s[1] IN
    /\ Incoming /\ FrameFault(m) = "no" /\ m.t = "request"
    /\ rejected[m.id] = 0 /\ assembling[m.id] > 0
    /\ c2s' = Tail(c2s) /\ seqIn' = seqIn + 1
    /\ Accept(m)
    /\ UNCHANGED <<client, s2c, rejected, answers, controlReady, bulkReady, lastRequestId,
                   fragmentBurst, broke>>

\* The first fragment of a request: both budgets are asked before anything is
\* kept.  Refused, it is answered Busy at once and its other fragments drain.
First(m) ==
    /\ Incoming /\ FrameFault(m) = "no" /\ m.t = "request"
    /\ rejected[m.id] = 0 /\ assembling[m.id] = 0

ReceiveFirst ==
    LET m == c2s[1] IN
    /\ First(m) /\ Admits(m.id)
    /\ c2s' = Tail(c2s) /\ seqIn' = seqIn + 1 /\ lastRequestId' = m.id
    /\ Accept(m)
    /\ UNCHANGED <<client, s2c, rejected, answers, controlReady, bulkReady,
                   fragmentBurst, broke>>

\* start_rejected_reassembly and the Busy reply.
ReceiveBusy ==
    LET m == c2s[1]
        draining == {id \in Ids : rejected[id] > 0}
    IN
    /\ First(m) /\ (Pressure \/ ~Admits(m.id))
    /\ IF ReqLen[m.id] > 1 /\ Cardinality(draining) >= MaxRequests
       THEN Break("capacity")
       ELSE /\ c2s' = Tail(c2s) /\ seqIn' = seqIn + 1 /\ lastRequestId' = m.id
            /\ rejected' = IF ReqLen[m.id] > 1 THEN [rejected EXCEPT ![m.id] = 1] ELSE rejected
            /\ s2c' = Append(s2c, [id |-> m.id, type |-> "error", idx |-> 0, count |-> 1])
            /\ UNCHANGED <<client, phase, assembling, queued, active, answers, controlReady,
                           bulkReady, fragmentBurst, dispatchBurst, broke>>

\* execute_rpc ends, by itself or because its token was cancelled.
Execute(id, type) ==
    /\ broke = "no" /\ active[id] # "no" /\ id \notin {answers[i].id : i \in DOMAIN answers}
    /\ answers' = Append(answers, [id |-> id, type |-> type])
    /\ UNCHANGED <<client, c2s, s2c, phase, assembling, rejected, queued, active, controlReady,
                   bulkReady, lastRequestId, fragmentBurst, dispatchBurst, seqIn, broke>>

\* honor_cancel.
HonorCancel(a) == IF active[a.id] = "cancelling" THEN "error" ELSE a.type

\* response_rx: the answer moves to the lane of its priority.
Answer ==
    /\ broke = "no" /\ NextOutboundLane # "control" /\ answers # <<>>
    /\ LET answer == answers[1]
           type == HonorCancel(answer)
           priority == IF active[answer.id] = "cancelling" THEN "urgent"
                       ELSE IF type = "error" \/ Kind[answer.id] = "check" THEN "control" ELSE "bulk"
           ready == Ready(answer.id, type, priority)
       IN  /\ active' = [active EXCEPT ![answer.id] = "no"]
           /\ phase' = [phase EXCEPT ![answer.id] = "sending"]
           /\ controlReady' = IF priority = "urgent" THEN <<ready>> \o controlReady
                              ELSE IF priority = "control" THEN Append(controlReady, ready)
                              ELSE controlReady
           /\ bulkReady' = IF priority = "bulk" THEN Append(bulkReady, ready) ELSE bulkReady
    /\ answers' = Tail(answers)
    /\ UNCHANGED <<client, c2s, s2c, assembling, rejected, queued, lastRequestId,
                   fragmentBurst, dispatchBurst, seqIn, broke>>

\* Mutant: finishing an answer does not look for queued work.
BugSendHead(lane) ==
    LET r == lane[1]
        frame == [id |-> r.id, type |-> r.type, idx |-> r.next, count |-> r.count]
    IN
    /\ s2c' = Append(s2c, frame)
    /\ phase' = IF r.next + 1 = r.count THEN [phase EXCEPT ![r.id] = "none"] ELSE phase
    /\ UNCHANGED <<queued, dispatchBurst, active>>

\* send_ready_head, and finish_ready_head with dispatch_queued after the last
\* fragment: the ledger entry goes only when the whole answer has been sent.
SendHead(lane) ==
    LET r == lane[1]
        frame == [id |-> r.id, type |-> r.type, idx |-> r.next, count |-> r.count]
    IN
    /\ s2c' = Append(s2c, frame)
    /\ IF r.next + 1 = r.count
       THEN Install(Dispatch([queued |-> queued, burst |-> dispatchBurst, active |-> active,
                              phase |-> [phase EXCEPT ![r.id] = "none"]]))
       ELSE UNCHANGED <<queued, dispatchBurst, active, phase>>

\* The head moves to its next fragment, or leaves the lane after its last.
Advanced(lane) ==
    IF lane[1].next + 1 = lane[1].count THEN Tail(lane) ELSE [lane EXCEPT ![1].next = @ + 1]

SendControl ==
    /\ broke = "no" /\ NextOutboundLane = "control"
    /\ SendHead(controlReady) /\ controlReady' = Advanced(controlReady)
    /\ fragmentBurst' = IF controlReady[1].priority = "control" THEN Min({MaxBurst, fragmentBurst + 1})
                        ELSE fragmentBurst
    /\ UNCHANGED <<client, c2s, assembling, rejected, answers, bulkReady, lastRequestId, seqIn, broke>>

SendBulk ==
    /\ broke = "no" /\ NextOutboundLane = "bulk" /\ answers = <<>>
    /\ SendHead(bulkReady) /\ bulkReady' = Advanced(bulkReady)
    /\ fragmentBurst' = 0
    /\ UNCHANGED <<client, c2s, assembling, rejected, answers, controlReady, lastRequestId, seqIn, broke>>

\* The client's close, or the device's session token, ends the session.
SessionCloses == broke = "no" /\ ~clientUp /\ Break("closed")

Deliver ==
    \/ ReceiveFault \/ ReceiveCancel \/ ReceiveRejected \/ ReceiveNext
    \/ ReceiveFirst \/ ReceiveBusy

\* The pump is one loop: it takes a cancellation, else a fragment, and sends it.
Pump == PumpCancel \/ PumpFragment \/ PumpSend

Next ==
    \/ LaneRequest \/ Pump \/ ClientReceive \/ ClientFails
    \/ \E id \in Ids : Abort(id)
    \/ Deliver \/ Answer \/ SendControl \/ SendBulk \/ SessionCloses
    \/ \E id \in Ids, type \in {"result", "error"} : Execute(id, type)

(* The event loop of the plugin runs every ready callback and every settled   *)
(* seal; the server's loop polls whenever something is ready; storage answers *)
(* every call.  Nothing obliges a caller to abort or a deadline to expire.    *)
Fairness ==
    /\ WF_vars(Pump) /\ WF_vars(ClientReceive) /\ WF_vars(ClientFails /\ broke # "no")
    /\ WF_vars(Deliver) /\ WF_vars(Answer) /\ WF_vars(SendControl) /\ WF_vars(SendBulk)
    /\ \A id \in Ids : WF_vars(Execute(id, "result"))

Spec == Init /\ [][Next]_vars /\ Fairness

-----------------------------------------------------------------------------
TypeOK ==
    /\ nextRequestId \in 1..MaxId + 1
    /\ pending \subseteq Ids /\ cancelled \subseteq Ids
    /\ outcome \in [Ids -> {"none", "result", "error", "aborted", "lost"}]
    /\ response \in [Ids -> [type : {"none", "result", "error"}, next : 0..MaxPayload]]
    /\ nextFragment \in [Ids -> 0..MaxPayload]
    /\ v2Control \in Seq(Ids) /\ v2Bulk \in Seq(Ids) /\ v2ControlBurst \in 0..MaxBurst
    /\ controlFrames \in Seq(Ids)
    /\ pump \in [kind : {"idle", "fragment", "cancel"}, id : 0..MaxId, seq : Nat]
    /\ seqOut \in Nat /\ seqIn \in 0..seqOut /\ clientUp \in BOOLEAN
    /\ c2s \in Seq([seq : Nat, t : {"request", "cancel"}, id : Ids, idx : 0..MaxPayload])
    /\ s2c \in Seq([id : Ids, type : {"result", "error"}, idx : 0..MaxPayload, count : 1..MaxPayload])
    /\ phase \in [Ids -> Owed \cup {"none"}]
    /\ assembling \in [Ids -> 0..MaxPayload] /\ rejected \in [Ids -> 0..MaxPayload]
    /\ queued \in Seq(Ids) /\ active \in [Ids -> {"no", "running", "cancelling"}]
    /\ answers \in Seq([id : Ids, type : {"result", "error"}])
    /\ \A lane \in {controlReady, bulkReady} : lane \in
          Seq([id : Ids, type : {"result", "error"}, priority : {"urgent", "control", "bulk"},
               next : 0..MaxPayload, count : 1..MaxPayload])
    /\ lastRequestId \in 0..MaxId /\ fragmentBurst \in 0..MaxBurst /\ dispatchBurst \in 0..MaxBurst
    /\ broke \in {"no", "gap", "fragment", "id", "capacity", "closed"}

Count(seq, id) == Cardinality({i \in DOMAIN seq : seq[i] = id})
CountReady(id) == Cardinality({i \in DOMAIN controlReady : controlReady[i].id = id})
                  + Cardinality({i \in DOMAIN bulkReady : bulkReady[i].id = id})

\* The ledger's phase of a request names the one place that owns it: the
\* lookups ws_data.rs `expect`s ("RPC must retain admission across phases",
\* "assembling admission must own a reassembly") never miss, and no answer is
\* owned twice.  An entry is never left behind without an owner.
LedgerMatchesOwners ==
    \A id \in Ids :
        /\ (phase[id] = "assembling") <=> (assembling[id] > 0)
        /\ Count(queued, id) = (IF phase[id] = "queued" THEN 1 ELSE 0)
        /\ (phase[id] = "running") <=> (active[id] # "no")
        /\ CountReady(id) = (IF phase[id] = "sending" THEN 1 ELSE 0)
        /\ phase[id] # "none" => rejected[id] = 0

\* Of a step: a caller gets a result only if the server ran the whole request and never
\* honoured a CANCEL for it; an aborted caller is never answered twice.
ResultsAreWhole ==
    \A id \in Ids :
        /\ outcome[id] # "none" => outcome'[id] = outcome[id]
        /\ outcome'[id] = "result" /\ outcome[id] = "none" => nextFragment[id] = ReqLen[id]

\* Every request ends: with its answer, an error, the caller's abort or the
\* loss of the session, and its tombstone drains.
RequestsSettle ==
    \A id \in Ids : []<>(id \notin pending \cup cancelled)

\* The outbound AEAD sequence the server reads has no gap.
OutboundContiguous == broke # "gap"

=============================================================================
