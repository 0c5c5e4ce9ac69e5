------------------------------ MODULE RootSync ------------------------------
(***************************************************************************)
(* One device publishing its edits through the durable root protocol: the  *)
(* plugin's RootSyncRuntime, RootRecoveryCoordinator, RootIntentStore and  *)
(* RootSettlementCoordinator (plugin/src/root-*.ts) against the receipt    *)
(* stream the server keeps for the device (RootServer, RootHead).          *)
(*                                                                         *)
(* A request, once sent, may reach the server late, twice or never; a      *)
(* reply reaches the call that waits for it or nobody.  The plugin may be  *)
(* killed between any two of its durable writes and the server may be      *)
(* restarted at any time.                                                  *)
(***************************************************************************)
EXTENDS Naturals, FiniteSets

CONSTANTS
    MaxEdits,     \* bound: edits recorded by the device
    MaxSequence,  \* capability maxSequence
    MaxFaults     \* bound: failed calls, refusals, crashes and restarts

ASSUME RootSyncAssumption == {MaxEdits, MaxSequence, MaxFaults} \subseteq Nat

Edit == 1..MaxEdits
Sequence == 1..MaxSequence
None == [none |-> TRUE]

\* The terminal outcomes of an operation.
Outcome == {"accepted", "cancelled"}

VARIABLES
    \* the device's storage
    journal,       \* recorded edits not acknowledged yet
    edits,         \* number of edits recorded so far
    lastSequence,  \* RootIntentStore.lastSequence
    intent,        \* the pending intent, or None
    base,          \* operations whose publication the sync base has taken over
    copies,        \* operations whose conflict copies exist in the vault
    \* the running coordinator
    pc,            \* what it is about to do
    caps,          \* the negotiated server incarnation
    answer,        \* the reply the current call received
    \* the network
    sent,          \* commits and cancellations sent so far
    \* the server
    incarnation,
    receipt,       \* the device's retained receipt
    effects,       \* ghost: the edits each accepted operation brought in
    faults

device == <<journal, edits, lastSequence, intent, base, copies>>
run    == <<pc, caps, answer>>
server == <<incarnation, receipt, effects>>
vars   == <<device, run, sent, server, faults>>

Steps == {"idle", "selected", "prepared", "send", "commit", "query", "asked",
          "cancel", "cancelling", "record", "settle", "preserve", "copied", "ack", "retire"}

Intent == [sequence : Sequence, incarnation : Nat, cut : SUBSET Edit,
           terminal : Outcome \cup {"none"}, conflict : BOOLEAN, copied : BOOLEAN]

Message == [kind : {"commit", "cancel"}, sequence : Sequence, incarnation : Nat, cut : SUBSET Edit]

Receipt == [sequence : 0..MaxSequence, outcome : Outcome \cup {"none"}, conflict : BOOLEAN]

TypeOK ==
    /\ journal \subseteq Edit /\ edits \in 0..MaxEdits
    /\ lastSequence \in 0..MaxSequence
    /\ intent \in Intent \cup {None}
    /\ base \subseteq Sequence /\ copies \subseteq Sequence
    /\ pc \in Steps /\ caps \in Nat
    /\ answer \in [status : Outcome \cup {"unknown", "expired", "none"}, conflict : BOOLEAN,
                   last : 0..MaxSequence, incarnation : Nat]
    /\ sent \subseteq Message
    /\ incarnation \in Nat /\ receipt \in Receipt
    /\ effects \in [Sequence -> SUBSET Edit]
    /\ faults \in 0..MaxFaults

NoAnswer == [status |-> "none", conflict |-> FALSE, last |-> 0, incarnation |-> 0]

Init ==
    /\ journal = {} /\ edits = 0 /\ lastSequence = 0 /\ intent = None
    /\ base = {} /\ copies = {}
    /\ pc = "idle" /\ caps = 0 /\ answer = NoAnswer
    /\ sent = {}
    /\ incarnation = 0
    /\ receipt = [sequence |-> 0, outcome |-> "none", conflict |-> FALSE]
    /\ effects = [n \in Sequence |-> {}]
    /\ faults = 0

\* The coordinator returns or throws: its locals are gone.
Rest == pc' = "idle" /\ caps' = 0 /\ answer' = NoAnswer

-----------------------------------------------------------------------------
(* Preparing an operation.                                                 *)

\* The user edits a file; the journal records it.
RecordEdit ==
    /\ edits < MaxEdits
    /\ edits' = edits + 1
    /\ journal' = journal \cup {edits + 1}
    /\ UNCHANGED <<lastSequence, intent, base, copies, run, sent, server, faults>>

\* selectMode: with no pending intent and the server's high-water equal to the
\* local one, remember the server process the next operation is prepared for.
SelectMode ==
    /\ pc = "idle" /\ intent = None /\ journal # {}
    /\ receipt.sequence = lastSequence
    /\ lastSequence < MaxSequence
    /\ caps' = incarnation
    /\ pc' = "selected"
    /\ UNCHANGED <<device, answer, sent, server, faults>>

\* publish, RootIntentStore.prepare: the next sequence number, owned by a
\* durable intent that covers the journal as it is now.
Prepare ==
    /\ pc = "selected"
    /\ intent' = [sequence |-> lastSequence + 1, incarnation |-> caps, cut |-> journal,
                  terminal |-> "none", conflict |-> FALSE, copied |-> FALSE]
    /\ lastSequence' = lastSequence + 1
    /\ pc' = "prepared"
    /\ UNCHANGED <<journal, edits, base, copies, caps, answer, sent, server, faults>>

\* prepareAndSend: only this invocation's fresh intent, and only to the server
\* process it was prepared for, is sent; anything else is asked about.
NegotiateFresh ==
    /\ pc = "prepared"
    /\ pc' = IF intent.incarnation = incarnation THEN "send" ELSE "query"
    /\ UNCHANGED <<device, caps, answer, sent, server, faults>>

\* resolvePending: settle a recorded outcome, ask about an open intent.
ResolvePending ==
    /\ pc = "idle" /\ intent # None
    /\ pc' = IF intent.terminal # "none" THEN "settle" ELSE "query"
    /\ UNCHANGED <<device, caps, answer, sent, server, faults>>

CommitOf(i) == [kind |-> "commit", sequence |-> i.sequence,
                incarnation |-> i.incarnation, cut |-> i.cut]

\* The cancellation names the incarnation the query observed.
CancelOf(i, observed) == [kind |-> "cancel", sequence |-> i.sequence,
                          incarnation |-> observed, cut |-> i.cut]

\* sendPrepared
Send ==
    /\ pc = "send"
    /\ sent' = sent \cup {CommitOf(intent)}
    /\ pc' = "commit"
    /\ UNCHANGED <<device, caps, answer, server, faults>>

-----------------------------------------------------------------------------
(* The server's side of the stream (publish_root, post_root_cancel,        *)
(* post_root_outcome and replay_or_admit, in full in RootServer).          *)

Admits(m) == m.sequence = receipt.sequence + 1 /\ m.incarnation = incarnation
Replays(m) == m.sequence = receipt.sequence /\ receipt.outcome # "none"

\* The call that waits for the reply to m.
Waits(m) == \/ pc = "commit" /\ m = CommitOf(intent)
            \/ pc = "cancelling" /\ m = CancelOf(intent, answer.incarnation)

\* The outcome reaches the waiting call, or nobody.
Reply(m, outcome, conflict, heard) ==
    IF heard /\ Waits(m)
    THEN /\ answer' = [status |-> outcome, conflict |-> conflict,
                       last |-> m.sequence, incarnation |-> incarnation]
         /\ pc' = "record"
    ELSE UNCHANGED <<answer, pc>>

\* A commit takes effect, with or without conflicts to preserve.
ServeCommit(m, conflict, heard) ==
    /\ m \in sent /\ m.kind = "commit" /\ Admits(m)
    /\ receipt' = [sequence |-> m.sequence, outcome |-> "accepted", conflict |-> conflict]
    /\ effects' = [effects EXCEPT ![m.sequence] = m.cut]
    /\ Reply(m, "accepted", conflict, heard)
    /\ UNCHANGED <<device, caps, sent, incarnation, faults>>

\* Mutant: a cancellation does not look at the receipt first.
BugServeCancel(m, heard) ==
    /\ m \in sent /\ m.kind = "cancel"
    /\ m.sequence \in {receipt.sequence, receipt.sequence + 1} /\ m.incarnation = incarnation
    /\ receipt' = [sequence |-> m.sequence, outcome |-> "cancelled", conflict |-> FALSE]
    /\ Reply(m, "cancelled", FALSE, heard)
    /\ UNCHANGED <<device, caps, sent, incarnation, effects, faults>>

\* A cancellation of an operation that is still open.
ServeCancel(m, heard) ==
    /\ m \in sent /\ m.kind = "cancel" /\ Admits(m)
    /\ receipt' = [sequence |-> m.sequence, outcome |-> "cancelled", conflict |-> FALSE]
    /\ Reply(m, "cancelled", FALSE, heard)
    /\ UNCHANGED <<device, caps, sent, incarnation, effects, faults>>

\* Either kind, for an operation already decided: its outcome is repeated.
ServeReplay(m, heard) ==
    /\ m \in sent /\ Replays(m)
    /\ Reply(m, receipt.outcome, receipt.conflict, heard)
    /\ UNCHANGED <<device, caps, sent, server, faults>>

\* A request of another server process, or out of its turn: the call fails.
ServeRefusal(m) ==
    /\ m \in sent /\ ~Admits(m) /\ ~Replays(m) /\ Waits(m)
    /\ Rest
    /\ UNCHANGED <<device, sent, server, faults>>

\* The query is answered from the receipt as it is at that moment.
ServeQuery ==
    /\ pc = "query"
    /\ answer' = [status |-> IF receipt.sequence = intent.sequence THEN receipt.outcome
                             ELSE IF intent.sequence < receipt.sequence THEN "expired" ELSE "unknown",
                  conflict |-> receipt.conflict, last |-> receipt.sequence,
                  incarnation |-> incarnation]
    /\ pc' = "asked"
    /\ UNCHANGED <<device, caps, sent, server, faults>>

-----------------------------------------------------------------------------
(* Resolving and settling.                                                 *)

\* Mutant: an unknown outcome is waited for.
BugResolveNetwork ==
    /\ pc = "asked"
    /\ pc' = IF answer.status \in Outcome THEN "record" ELSE "idle"
    /\ UNCHANGED <<device, caps, answer, sent, server, faults>>

\* resolveNetwork on the answer: a terminal outcome is recorded, an unknown
\* operation that is next in the stream is cancelled, the rest is deferred.
ResolveNetwork ==
    /\ pc = "asked"
    /\ pc' = IF answer.status \in Outcome THEN "record"
             ELSE IF answer.status = "unknown" /\ answer.last + 1 = intent.sequence THEN "cancel"
             ELSE "idle"
    /\ UNCHANGED <<device, caps, answer, sent, server, faults>>

SendCancel ==
    /\ pc = "cancel"
    /\ sent' = sent \cup {CancelOf(intent, answer.incarnation)}
    /\ pc' = "cancelling"
    /\ UNCHANGED <<device, caps, answer, server, faults>>

\* recordAndSettle: the outcome is durable before anything local moves.
RecordTerminal ==
    /\ pc = "record"
    /\ intent' = [intent EXCEPT !.terminal = answer.status, !.conflict = answer.conflict]
    /\ pc' = "settle"
    /\ UNCHANGED <<journal, edits, lastSequence, base, copies, caps, answer, sent, server, faults>>

\* Mutant: a cancelled operation is settled like an accepted one.
BugSettle ==
    /\ pc = "settle"
    /\ base' = base \cup {intent.sequence}
    /\ pc' = IF intent.conflict /\ ~intent.copied THEN "preserve" ELSE "ack"
    /\ UNCHANGED <<journal, edits, lastSequence, intent, copies, caps, answer, sent, server, faults>>

\* settleInside up to commitRootPublication: a cancellation touches neither
\* base nor journal.
Settle ==
    /\ pc = "settle"
    /\ IF intent.terminal = "cancelled"
       THEN base' = base /\ pc' = "retire"
       ELSE /\ base' = base \cup {intent.sequence}
            /\ pc' = IF intent.conflict /\ ~intent.copied THEN "preserve" ELSE "ack"
    /\ UNCHANGED <<journal, edits, lastSequence, intent, copies, caps, answer, sent, server, faults>>

\* Mutant: the copy is recorded first and written afterwards, if at all.
BugPreserve ==
    /\ pc = "preserve"
    /\ pc' = "copied"
    /\ UNCHANGED <<device, caps, answer, sent, server, faults>>

\* preserveVerifiedConflictCopy: a visible copy, written or found verified.
Preserve ==
    /\ pc = "preserve"
    /\ copies' = copies \cup {intent.sequence}
    /\ pc' = "copied"
    /\ UNCHANGED <<journal, edits, lastSequence, intent, base, caps, answer, sent, server, faults>>

RecordConflictCopy ==
    /\ pc = "copied"
    /\ intent' = [intent EXCEPT !.copied = TRUE]
    /\ pc' = "ack"
    /\ UNCHANGED <<journal, edits, lastSequence, base, copies, caps, answer, sent, server, faults>>

\* acknowledgeOwned: the edits of the intent's cut, no later ones.
Acknowledge ==
    /\ pc = "ack"
    /\ journal' = journal \ intent.cut
    /\ pc' = "retire"
    /\ UNCHANGED <<edits, lastSequence, intent, base, copies, caps, answer, sent, server, faults>>

\* retire, assertRetirable
Retire ==
    /\ pc = "retire"
    /\ intent' = None
    /\ Rest
    /\ UNCHANGED <<journal, edits, lastSequence, base, copies, sent, server, faults>>

-----------------------------------------------------------------------------
\* The plugin is killed, a call times out or is refused, a local write fails:
\* what is durable stays, the coordinator starts over.
Interrupt ==
    /\ pc # "idle" /\ faults < MaxFaults
    /\ Rest
    /\ faults' = faults + 1
    /\ UNCHANGED <<device, sent, server>>

RestartServer ==
    /\ faults < MaxFaults
    /\ incarnation' = incarnation + 1
    /\ faults' = faults + 1
    /\ UNCHANGED <<device, run, sent, receipt, effects>>

DeviceStep ==
    \/ SelectMode \/ Prepare \/ NegotiateFresh \/ ResolvePending \/ Send
    \/ ServeQuery \/ ResolveNetwork \/ SendCancel \/ RecordTerminal
    \/ Settle \/ Preserve \/ RecordConflictCopy \/ Acknowledge \/ Retire

ServerStep(heard) ==
    \E m \in sent :
        \/ \E conflict \in BOOLEAN : ServeCommit(m, conflict, heard)
        \/ ServeCancel(m, heard) \/ ServeReplay(m, heard) \/ ServeRefusal(m)

Next ==
    \/ RecordEdit \/ DeviceStep
    \/ \E heard \in BOOLEAN : ServerStep(heard)
    \/ Interrupt \/ RestartServer

\* A waiting call is eventually served and heard (requests are retried with
\* the same bytes), and the engine's timers keep running the coordinator.
Served == ServerStep(TRUE) /\ pc \in {"commit", "cancelling"} /\ pc' # pc
Fairness == WF_vars(DeviceStep) /\ WF_vars(Served)

Spec == Init /\ [][Next]_vars /\ Fairness

-----------------------------------------------------------------------------
(* Properties.                                                             *)

\* No edit enters the vault by two operations: an unresolved operation is
\* cancelled or found accepted before its edits are offered again.
EditsAppliedOnce ==
    \A m, n \in Sequence : m # n => effects[m] \cap effects[n] = {}

\* The losing side of every conflict the server reported exists as a visible
\* copy before its operation is forgotten.
ConflictsPreserved ==
    receipt.outcome = "accepted" /\ receipt.conflict /\ intent = None
        => receipt.sequence \in copies

Delivery == INSTANCE EditDelivery WITH
    made <- 1..edits,
    applied <- UNION {effects[n] : n \in Sequence},
    acked <- 1..edits \ journal

\* Durable root publication delivers every edit exactly once, in the sense of
\* EditDelivery.
ImplementsDelivery == Delivery!Spec

\* With finitely many failures and sequence numbers left, every recorded edit
\* reaches the vault and leaves the journal.
EditsDelivered == Delivery!Delivered
=============================================================================
