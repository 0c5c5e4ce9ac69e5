--------------------------- MODULE TransportRouter ---------------------------
(***************************************************************************)
(* plugin/src/transport-router.ts: which carrier an object RPC takes (the  *)
(* WebSocket data lane or bulk HTTP), the circuit breaker over the         *)
(* WebSocket, and the single fallback to HTTP.                             *)
(*                                                                         *)
(* Several calls of execute() are in flight at once and finish in any      *)
(* order.  Instants are kept as time left (openFor for openUntil - now), a *)
(* carrier's moving averages as one score that is good or bad.             *)
(***************************************************************************)
EXTENDS Naturals, FiniteSets, FiniteSetsExt

CONSTANTS
    Calls,        \* concurrent callers of execute()
    Lane,         \* [Calls -> {"control", "bulk"}]; urgent calls are "control"
    Threshold,    \* failureThreshold
    Extra,        \* failures counted beyond the threshold (16 in the code)
    OpenBase, OpenMax, Hints,
    RecoveryThreshold, ProbeInterval,
    MinSamples, ProbeEvery, HoldTime

Carriers == {"ws", "http"}

VARIABLES
    failures,    \* consecutiveWsFailures
    openFor,     \* openUntil - now, 0 when past
    halfOpen,    \* halfOpenInFlight
    recovery,    \* recoveryWsSuccesses
    call,        \* what each call of execute() is doing
    samples,     \* throughputSamples of the bulk lane, per carrier
    score,       \* the carrier's score, per carrier
    preferred,   \* bulkPreferredCarrier
    holdFor,     \* bulkPreferenceHoldUntil - now
    sinceProbe,  \* bulkRequestsSinceProbe
    healthy      \* the environment: every WebSocket attempt succeeds from now on

vars == <<failures, openFor, halfOpen, recovery, call, samples, score,
          preferred, holdFor, sinceProbe, healthy>>

\* at: idle, on one of the carriers, or returned; mode: the circuit's mode of
\* the WebSocket attempt; current: no reset happened since the attempt began.
Idle == [at |-> "idle", mode |-> "none", current |-> TRUE]

Init ==
    /\ failures = 0 /\ openFor = 0 /\ halfOpen = FALSE /\ recovery = 0
    /\ call = [c \in Calls |-> Idle]
    /\ samples = [x \in Carriers |-> 0] /\ score = [x \in Carriers |-> "bad"]
    /\ preferred = "ws" /\ holdFor = 0 /\ sinceProbe = 0
    /\ healthy = FALSE

Other(x) == IF x = "ws" THEN "http" ELSE "ws"
Scored(x) == samples[x] >= MinSamples

ProbeDue(n) == n >= ProbeEvery

\* selectBulkCarrier: learn the WebSocket first, then HTTP at the cadence; with
\* both scored keep the preferred one unless the other is clearly better and
\* the hold has run out, and try the other at the cadence.
SelectBulkCarrier ==
    LET n == Min({ProbeEvery, sinceProbe + 1})
        better == score[Other(preferred)] = "good" /\ score[preferred] = "bad"
        switch == holdFor = 0 /\ better
        keeps == IF switch THEN Other(preferred) ELSE preferred
        count == IF switch THEN 0 ELSE n
    IN  IF ~Scored("ws")
        THEN [carrier |-> "ws", preferred |-> preferred, hold |-> holdFor, since |-> n]
        ELSE IF ~Scored("http")
        THEN [carrier |-> IF ProbeDue(n) THEN "http" ELSE "ws", preferred |-> preferred,
              hold |-> holdFor, since |-> IF ProbeDue(n) THEN 0 ELSE n]
        ELSE [carrier |-> IF ProbeDue(count) THEN Other(keeps) ELSE keeps,
              preferred |-> keeps, hold |-> IF switch THEN HoldTime ELSE holdFor,
              since |-> IF ProbeDue(count) THEN 0 ELSE count]

\* beginWsAttempt with probeEligible.
BeginWsAttempt(c) ==
    IF openFor > 0 THEN "none"
    ELSE IF failures < Threshold THEN "closed"
    ELSE IF Lane[c] = "bulk" \/ halfOpen THEN "none" ELSE "half-open"

\* execute, up to the first await: the carrier is chosen and dispatched.
Execute(c) ==
    LET chosen == IF Lane[c] = "bulk" THEN SelectBulkCarrier
                  ELSE [carrier |-> "ws", preferred |-> preferred, hold |-> holdFor,
                        since |-> sinceProbe]
        mode == IF chosen.carrier = "ws" THEN BeginWsAttempt(c) ELSE "none"
        carrier == IF mode = "none" THEN "http" ELSE "ws"
    IN
    /\ call[c].at = "idle"
    /\ call' = [call EXCEPT ![c] = [at |-> carrier, mode |-> mode, current |-> TRUE]]
    /\ halfOpen' = (halfOpen \/ mode = "half-open")
    /\ preferred' = chosen.preferred /\ holdFor' = chosen.hold /\ sinceProbe' = chosen.since
    /\ UNCHANGED <<failures, openFor, recovery, samples, score, healthy>>

\* recordPerformanceSample: a bulk attempt's measurement counts unless the
\* clock, a reset or the page's visibility made it invalid.
RecordSample(c, x, valid, s) ==
    IF valid /\ call[c].current /\ Lane[c] = "bulk"
    THEN /\ samples' = [samples EXCEPT ![x] = Min({MinSamples, @ + 1})]
         /\ score' = [score EXCEPT ![x] = s]
    ELSE UNCHANGED <<samples, score>>

\* closeCircuit
CloseCircuit == failures' = 0 /\ recovery' = 0 /\ openFor' = 0

\* Mutant: a successful probe waits for the next one without counting.
BugRecordProbeSuccess ==
    /\ openFor' = ProbeInterval
    /\ UNCHANGED <<failures, recovery>>

\* recordProbeSuccess: the circuit closes after RecoveryThreshold probes.
RecordProbeSuccess ==
    IF recovery + 1 >= RecoveryThreshold THEN CloseCircuit
    ELSE recovery' = recovery + 1 /\ openFor' = ProbeInterval /\ UNCHANGED failures

\* The WebSocket attempt returned a result.
WsSucceeds(c, valid, s) ==
    /\ call[c].at = "ws"
    /\ RecordSample(c, "ws", valid, s)
    /\ IF call[c].mode = "half-open" THEN RecordProbeSuccess ELSE CloseCircuit
    /\ halfOpen' = (halfOpen /\ call[c].mode # "half-open")
    /\ call' = [call EXCEPT ![c] = Idle]
    /\ UNCHANGED <<preferred, holdFor, sinceProbe, healthy>>

\* recordWsFailure: exponential backoff with jitter, or the server's hint.
RecordWsFailure(hint) ==
    LET n == Min({Threshold + Extra, failures + 1})
        backoff == Min({OpenMax, OpenBase * 2 ^ (n - Threshold)})
    IN
    /\ failures' = n /\ recovery' = 0
    /\ IF n < Threshold THEN UNCHANGED openFor
       ELSE \E jittered \in {backoff, Min({OpenMax, backoff + 1})} :
               openFor' = Max({jittered, hint})

\* A retryable failure: the same operation is replayed once over HTTP.
WsFails(c, hint) ==
    /\ call[c].at = "ws" /\ ~healthy
    /\ RecordWsFailure(hint)
    /\ halfOpen' = (halfOpen /\ call[c].mode # "half-open")
    /\ call' = [call EXCEPT ![c] = [at |-> "http", mode |-> "none", current |-> TRUE]]
    /\ UNCHANGED <<samples, score, preferred, holdFor, sinceProbe, healthy>>

\* classifyWsFailure: an aborted caller or a request the server refused as
\* invalid is not replayed, and says nothing about the WebSocket.
WsRefuses(c) ==
    /\ call[c].at = "ws" /\ ~healthy
    /\ halfOpen' = (halfOpen /\ call[c].mode # "half-open")
    /\ call' = [call EXCEPT ![c] = Idle]
    /\ UNCHANGED <<failures, openFor, recovery, samples, score, preferred, holdFor,
                   sinceProbe, healthy>>

\* The HTTP attempt returns or throws; only a success is a sample.
HttpEnds(c, ok, valid, s) ==
    /\ call[c].at = "http"
    /\ IF ok THEN RecordSample(c, "http", valid, s) ELSE UNCHANGED <<samples, score>>
    /\ call' = [call EXCEPT ![c] = Idle]
    /\ UNCHANGED <<failures, openFor, halfOpen, recovery, preferred, holdFor, sinceProbe,
                   healthy>>

\* resetMeasurements, by a capability change or a clock that went backwards:
\* the comparison is forgotten, the circuit is kept.
ResetMeasurements ==
    /\ samples' = [x \in Carriers |-> 0] /\ score' = [x \in Carriers |-> "bad"]
    /\ preferred' = "ws" /\ holdFor' = 0 /\ sinceProbe' = 0
    /\ call' = [c \in Calls |-> [call[c] EXCEPT !.current = FALSE]]
    /\ UNCHANGED <<failures, openFor, halfOpen, recovery, healthy>>

Tick ==
    /\ openFor > 0 \/ holdFor > 0
    /\ openFor' = IF openFor > 0 THEN openFor - 1 ELSE 0
    /\ holdFor' = IF holdFor > 0 THEN holdFor - 1 ELSE 0
    /\ UNCHANGED <<failures, halfOpen, recovery, call, samples, score, preferred, sinceProbe,
                   healthy>>

\* The network recovers for good.
Heal ==
    /\ ~healthy /\ healthy' = TRUE
    /\ UNCHANGED <<failures, openFor, halfOpen, recovery, call, samples, score, preferred,
                   holdFor, sinceProbe>>

Scores == {"good", "bad"}

Next ==
    \/ \E c \in Calls : Execute(c) \/ WsRefuses(c)
    \/ \E c \in Calls, valid \in BOOLEAN, s \in Scores :
          \/ WsSucceeds(c, valid, s)
          \/ \E ok \in BOOLEAN : HttpEnds(c, ok, valid, s)
    \/ \E c \in Calls, hint \in Hints : WsFails(c, hint)
    \/ ResetMeasurements \/ Tick \/ Heal

(* Time passes; attempts end (their timeouts see to it); callers of the      *)
(* control lane keep coming.                                                 *)
Fairness ==
    /\ WF_vars(Tick)
    /\ \A c \in Calls :
          /\ WF_vars(\E s \in Scores, valid \in BOOLEAN, ok \in BOOLEAN : HttpEnds(c, ok, valid, s))
          /\ WF_vars(\E s \in Scores, valid \in BOOLEAN : WsSucceeds(c, valid, s))
          /\ Lane[c] = "control" => WF_vars(Execute(c) /\ BeginWsAttempt(c) # "none")

Spec == Init /\ [][Next]_vars /\ Fairness

-----------------------------------------------------------------------------
TypeOK ==
    /\ failures \in 0..Threshold + Extra /\ openFor \in 0..Max({OpenMax, ProbeInterval})
    /\ halfOpen \in BOOLEAN /\ recovery \in 0..RecoveryThreshold - 1
    /\ call \in [Calls -> [at : {"idle", "ws", "http"}, mode : {"none", "closed", "half-open"},
                           current : BOOLEAN]]
    /\ samples \in [Carriers -> 0..MinSamples] /\ score \in [Carriers -> Scores]
    /\ preferred \in Carriers /\ holdFor \in 0..HoldTime /\ sinceProbe \in 0..ProbeEvery
    /\ healthy \in BOOLEAN

\* When the network is healthy for good, the circuit closes.
CircuitRecovers == []<>(healthy => failures < Threshold)

=============================================================================
