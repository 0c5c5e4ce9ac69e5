------------------------------ MODULE TreeJobs ------------------------------
(***************************************************************************)
(* Who owns the native tree's memory.  The WASM wrapper runs one job at a  *)
(* time in one slot (sync-core wasm.rs); the host drives the job across    *)
(* turns and, whatever fails in between, has to retire it step by step     *)
(* (plugin tree-candidate-job.ts, tree-candidate-mutation-job.ts,          *)
(* root-tree-repair.ts), abort the candidate it leaves behind and give the *)
(* bytes back to the resident ledger (root-tree-resident-admission.ts,     *)
(* tree-output-settlement.ts).                                             *)
(*                                                                         *)
(* One wrapper, and one operation at a time: a push, a pull or the final   *)
(* free.  An action is the code between two host turns.  Every place where *)
(* the code checks its signal, awaits a turn, calls a native step or the   *)
(* network can fail, MaxFaults times in all.  Bytes are counted in units:  *)
(* a graph is GraphNodes, a root clone one of identity and one of          *)
(* endpoints.  Revisions are compared, never read, so each witness keeps   *)
(* how far the native revision has moved past it.                          *)
(***************************************************************************)
EXTENDS Naturals, FiniteSets

CONSTANTS
  Versions,     \* tree formats the wrapper may have: a subset of {1, 2}
  GraphNodes,   \* bytes of a committed graph
  Capacity,     \* bytes the resident ledger admits
  MaxFaults     \* bound: failures

TreeJobsAssumption ==
  /\ Versions \subseteq {1, 2}
  /\ {GraphNodes, Capacity, MaxFaults} \subseteq Nat

VARIABLES
  native,   \* the wrapper: candidate, node and root bytes, the job slot
  owner,    \* the registered cleanup owner of each registry, or NoOwner
  ledger,   \* RootTreeResidentAdmission for this wrapper
  engine,   \* the running operation, its step and whether repair is due
  faults    \* failures so far

jobVars == <<native, owner, ledger, engine, faults>>

Registry == {"reach", "mut", "rep"}
NoOwner == [kind |-> "none"]
Identity == 1     \* bytes of a root clone's vault and device names
Endpoint == 1     \* bytes of a root's range endpoints
RetireTurns == 2  \* host turns one retirement takes

-----------------------------------------------------------------------------
(* The native wrapper: WasmTree's slot, candidate and settlements.         *)

IdleSlot == [job |-> "idle", from |-> "none", bytes |-> 0, left |-> 0]

\* Every begin: the slot is empty.
BeginJob(n, job) == [n EXCEPT !.slot = [IdleSlot EXCEPT !.job = job]]

\* The same job, from now on holding its output.
Resume(n, bytes) == [n EXCEPT !.slot.bytes = bytes]

\* The slot's job becomes its own retirement; `kept` bytes die with it.
ToRetirement(n, r, kept) ==
  [n EXCEPT !.slot = [job |-> "retire", from |-> r, bytes |-> kept, left |-> RetireTurns]]

\* A deferred cancel; on a slot that is already a retirement it does nothing.
CancelDeferred(n, r) ==
  IF n.slot.job = "retire" THEN n ELSE ToRetirement(n, r, n.slot.bytes)

\* One retirement step.  A finished reachability retirement waits for its
\* acknowledgement; the others empty the slot themselves.
StepRetirement(n) ==
  CASE n.slot.left > 1 -> [n EXCEPT !.slot.left = @ - 1]
    [] n.slot.left = 1 /\ n.slot.from = "reach" -> [n EXCEPT !.slot.left = 0, !.slot.bytes = 0]
    [] OTHER -> [n EXCEPT !.slot = IdleSlot]

Retired(n) == n.slot.left = 0

\* finish_reachability_retirement
Acknowledge(n) == [n EXCEPT !.slot = IdleSlot]

\* finish_candidate_job_deferred: the prepared clone becomes the candidate.
FinishBegin(n) ==
  ToRetirement([n EXCEPT !.cand = TRUE, !.kroot = n.slot.bytes], "reach", 0)

\* finish_candidate_mutation_deferred: new nodes join the store, and the
\* candidate's root (in format 2 its endpoints) is replaced.
FinishMutation(n, fresh) ==
  ToRetirement([n EXCEPT !.nodes = @ + fresh, !.kroot = Identity + Endpoint], "mut", 0)

\* finish_replacement_rebuild_deferred: the old graph is what retires.
FinishReplacement(n) ==
  ToRetirement([n EXCEPT !.cand = FALSE, !.nodes = GraphNodes, !.croot = Endpoint, !.kroot = 0],
               "rep", n.nodes + n.croot + n.kroot)

\* commit_candidate and abort_candidate sweep down to the surviving graph.
Sweep(n, outcome) ==
  [n EXCEPT !.cand = FALSE, !.nodes = GraphNodes, !.kroot = 0,
            !.croot = IF outcome = "commit" THEN n.kroot ELSE n.croot]

-----------------------------------------------------------------------------
(* The resident ledger.                                                    *)

NoAttempt == [kind |-> "none", bytes |-> 0]
NotRetiring == [on |-> FALSE, bytes |-> 0]

Charge(l) == l.attempt.bytes + l.retiring.bytes + l.resident

\* reserveOutput: refuse what does not fit beside everything still charged.
Admits(l, peak) == Charge(l) + peak <= Capacity

ReserveOutput(l, kind, peak) == [l EXCEPT !.attempt = [kind |-> kind, bytes |-> peak]]

\* readyOutput: the peak-only buffers are gone.
ReadyOutput(l, bytes) == [l EXCEPT !.attempt.bytes = bytes]

\* releaseBeforeOutput: the native output never began.
ReleaseBeforeOutput(l) == [l EXCEPT !.attempt = NoAttempt]

\* detachPrivate: the charge waits for the native cancellation.
DetachPrivate(l) ==
  [l EXCEPT !.attempt = NoAttempt, !.retiring = [on |-> TRUE, bytes |-> l.attempt.bytes]]

ReleaseRetired(l) == [l EXCEPT !.retiring = NotRetiring]

\* publish: a replacement is resident, and what was resident retires.
Publish(l) ==
  [l EXCEPT !.attempt = NoAttempt, !.resident = l.attempt.bytes,
            !.retiring = [on |-> TRUE, bytes |-> l.resident],
            !.cand = 0, !.com = 0, !.proof = "none"]

\* attachOutput
AttachOutput(l) ==
  [l EXCEPT !.attempt = NoAttempt, !.resident = @ + l.attempt.bytes]

AttachCandidateRoot(l) == [AttachOutput(l) EXCEPT !.cand = l.attempt.bytes]

\* attachV1CandidateMutation: the new root takes the old one's place.
AttachV1Mutation(l) ==
  IF l.cand = 0 THEN AttachOutput(l)
  ELSE [AttachOutput(l) EXCEPT !.resident = @ - l.cand, !.cand = Identity + Endpoint]

AttachMutation(l, version) == IF version = 1 THEN AttachV1Mutation(l) ELSE AttachOutput(l)

\* A native revision moved: a witness of the graph is now one behind, and
\* one that was behind already is of no use.
Moved(l) ==
  [l EXCEPT !.proof = CASE @ = "current" -> "behind" [] @ = "behind" -> "lost" [] OTHER -> @]

\* advanceV2CandidateRevision, or invalidateV2Graph when it refuses.
Advance(l) ==
  [l EXCEPT !.proof = IF @ \in {"current", "behind"} THEN "current" ELSE "none"]

\* markV2GraphComplete
MarkComplete(l, version) == [l EXCEPT !.proof = IF version = 2 THEN "current" ELSE "none"]

\* terminalRoot: drop the charge of the root the outcome destroyed.
TerminalRoot(l, outcome) ==
  [l EXCEPT !.resident = @ - (IF outcome = "commit" THEN l.com ELSE l.cand),
            !.com = IF outcome = "commit" THEN l.cand ELSE @,
            !.cand = 0]

\* prepareV2Settlement: a ticket needs a quiet ledger and something to settle.
HasTicket(l) ==
  /\ l.attempt = NoAttempt /\ ~l.retiring.on
  /\ l.proof = "current" \/ l.cand > 0 \/ l.com > 0

\* settleAfterV2Sweep with the native receipt, abandonV2SettlementAfterSweep
\* and the call without a ticket.
Settled(l, version, outcome) ==
  LET t == TerminalRoot(l, outcome)
      surviving == IF t.com > 0 THEN Identity ELSE 0
      receipt == GraphNodes + Endpoint + (IF version = 1 THEN Identity ELSE 0)
  IN  CASE ~HasTicket(l) -> [l EXCEPT !.proof = "none"]
        [] HasTicket(l) /\ version = 1 ->
             [t EXCEPT !.resident = IF receipt < @ THEN receipt ELSE @, !.proof = "none"]
        [] HasTicket(l) /\ version = 2 /\ l.proof = "current" /\ receipt + surviving <= t.resident ->
             [t EXCEPT !.resident = receipt + surviving, !.com = surviving]
        [] OTHER -> [t EXCEPT !.proof = "none"]

\* releaseResidentAfterFree
Freed(l) == [l EXCEPT !.resident = 0, !.cand = 0, !.com = 0, !.proof = "none"]

-----------------------------------------------------------------------------
(* The running operation.                                                  *)

At(pc) == engine.pc = pc /\ engine.drain = "none"
Goto(pc) == engine' = [engine EXCEPT !.pc = pc]
Pending(r) == owner[r] # NoOwner

\* Await the drain of registry r, then go on at pc.
Drain(pc, r) == [engine EXCEPT !.pc = pc, !.drain = r, !.turn = FALSE]

\* The operation returns or throws.
Over(due) ==
  [engine EXCEPT !.kind = "idle", !.pc = "idle", !.drain = "none", !.turn = FALSE,
                 !.round = 0, !.due = due]

\* A cleanup owner: does its native job need a cancel first, is the job still
\* being driven, is the native part over, does it hold an admission (and the
\* transition the admission has to make), does it owe the candidate's abort.
Owner(cancel, active, output) ==
  [kind |-> "owner", cancel |-> cancel, active |-> active, done |-> FALSE,
   output |-> output, owes |-> FALSE]

Fault == faults < MaxFaults /\ faults' = faults + 1

-----------------------------------------------------------------------------
(* Draining a registry: cancel, move the admission, retire turn by turn,   *)
(* then settle what is owed.                                               *)

\* One retirement step, up to the await of the next host turn.
RetireStep ==
  \E r \in Registry :
    LET o == owner[r]
        n == StepRetirement(IF o.cancel THEN CancelDeferred(native, r) ELSE native)
    IN  /\ engine.drain = r /\ Pending(r) /\ ~o.active /\ ~o.done
        /\ native' = n
        /\ ledger' = IF o.output = "detach" THEN DetachPrivate(ledger) ELSE ledger
        /\ owner' = [owner EXCEPT ![r].cancel = FALSE, ![r].done = Retired(n),
                                  ![r].output = IF @ = "detach" THEN "retiring" ELSE @]
        /\ engine' = [engine EXCEPT !.turn = TRUE]
        /\ UNCHANGED faults

Released(l, o) == IF o.output = "retiring" THEN ReleaseRetired(l) ELSE l

\* Mutant: the owed abort runs before the retired output leaves the ledger.
BugRetireDone ==
  \E r \in Registry :
    LET o == owner[r]
        n == IF r = "reach" THEN Acknowledge(native) ELSE native
        aborts == o.owes /\ n.cand
    IN  /\ engine.drain = r /\ Pending(r) /\ o.done
        /\ native' = IF aborts THEN Sweep(n, "abort") ELSE n
        /\ ledger' = Released(IF aborts THEN Settled(ledger, native.version, "abort")
                              ELSE ledger, o)
        /\ owner' = [owner EXCEPT ![r] = NoOwner]
        /\ engine' = [engine EXCEPT !.drain = "none", !.turn = FALSE]
        /\ UNCHANGED faults

\* The last step's turn is over: acknowledge, release the admission, abort
\* the candidate if that is owed, forget the owner.
RetireDone ==
  \E r \in Registry :
    LET o == owner[r]
        n == IF r = "reach" THEN Acknowledge(native) ELSE native
        l == Released(ledger, o)
        aborts == o.owes /\ n.cand
    IN  /\ engine.drain = r /\ Pending(r) /\ o.done
        /\ native' = IF aborts THEN Sweep(n, "abort") ELSE n
        /\ ledger' = IF aborts THEN Settled(l, native.version, "abort") ELSE l
        /\ owner' = [owner EXCEPT ![r] = NoOwner]
        /\ engine' = [engine EXCEPT !.drain = "none", !.turn = FALSE]
        /\ UNCHANGED faults

\* A failed host turn rejects the drain.  A finished native part still
\* releases its admission in the finalizer, except a reachability one, which
\* is not acknowledged yet.
AfterFailedTurn(r) ==
  LET o == owner[r] IN
    CASE r = "reach" \/ ~o.done -> o
      [] r # "reach" /\ o.done /\ o.owes -> [o EXCEPT !.output = "none"]
      [] OTHER -> NoOwner

\* Where the operation goes when the drain it awaits is rejected.  A push drains
\* inside recoverRootBeforeWork, whose catch makes repair due; a pull drains
\* before it calls that (pullRemoteInner), and a rejection leaves the flag alone.
AfterRejection ==
  CASE engine.pc = "recover" -> Over(engine.due \/ engine.kind = "push")
    [] engine.pc \in {"repair", "repaired", "unrepaired"} -> Over(TRUE)
    [] engine.pc \in {"dropping", "settling"} -> Over(engine.due)
    [] engine.pc = "opened" -> Drain("dropping", "reach")
    [] engine.pc = "listed" -> Drain("unlisted", "reach")
    [] engine.pc \in {"mutated", "cleaning", "unlisted"} ->
         [engine EXCEPT !.pc = "aborting", !.drain = "none", !.turn = FALSE]

RetireFails ==
  \E r \in Registry :
    LET o == AfterFailedTurn(r) IN
      /\ engine.drain = r /\ engine.turn /\ Fault
      /\ owner' = [owner EXCEPT ![r] =
           IF engine.pc = "opened" THEN [o EXCEPT !.owes = TRUE] ELSE o]
      /\ ledger' = IF r # "reach" /\ owner[r].done THEN Released(ledger, owner[r]) ELSE ledger
      /\ engine' = AfterRejection
      /\ UNCHANGED native

-----------------------------------------------------------------------------
(* Recovery, and the replacement of the whole graph from the sync base.    *)

Start(kind) ==
  /\ engine.kind = "idle" /\ ~engine.freed
  /\ engine' = [engine EXCEPT !.kind = kind, !.pc = "recover"]
  /\ UNCHANGED <<native, owner, ledger, faults>>

\* What an operation drains before it touches the tree, in order.
Order == IF engine.kind = "free" THEN <<"reach", "mut", "rep">> ELSE <<"mut", "reach">>

Undrained == {i \in DOMAIN Order : Pending(Order[i])}

RecoverDrain ==
  /\ At("recover")
  /\ \E i \in Undrained :
       /\ \A j \in Undrained : i <= j
       /\ engine' = Drain("recover", Order[i])
  /\ UNCHANGED <<native, owner, ledger, faults>>

\* recoverRootBeforeWork: repair first when it is due or was left half done.
Recovered ==
  /\ At("recover") /\ engine.kind # "free" /\ Undrained = {}
  /\ Goto(IF engine.due \/ Pending("rep") THEN "repair" ELSE "begin")
  /\ UNCHANGED <<native, owner, ledger, faults>>

RepairDrain ==
  /\ At("repair") /\ Pending("rep")
  /\ engine' = Drain("repair", "rep")
  /\ UNCHANGED <<native, owner, ledger, faults>>

\* The owner is registered before the native job exists.
BeginRepair ==
  /\ At("repair") /\ ~Pending("rep") /\ native.slot = IdleSlot
  /\ owner' = [owner EXCEPT !["rep"] = Owner(TRUE, TRUE, "none")]
  /\ native' = BeginJob(native, "replace")
  /\ Goto("feeding")
  /\ UNCHANGED <<ledger, faults>>

\* The rows of the sync base, page by page, then the sort over an admitted workspace.
FeedReplacement ==
  /\ At("feeding")
  /\ Goto("sorting")
  /\ UNCHANGED <<native, owner, ledger, faults>>

SortReplacement ==
  /\ At("sorting")
  /\ Goto("building")
  /\ UNCHANGED <<native, owner, ledger, faults>>

ReplacementBytes == GraphNodes + Endpoint
ReplacementPeak == ReplacementBytes + Endpoint

\* The output is planned: admit it, then let native build it.
AdmitReplacement ==
  /\ At("building") /\ Admits(ledger, ReplacementPeak)
  /\ ledger' = ReserveOutput(ledger, "replacement", ReplacementPeak)
  /\ native' = Resume(native, ReplacementPeak)
  /\ Goto("filling")
  /\ UNCHANGED <<owner, faults>>

LeaveRepair(output) ==
  /\ owner' = [owner EXCEPT !["rep"].active = FALSE, !["rep"].output = output]
  /\ engine' = Drain("unrepaired", "rep")

RepairDenied ==
  /\ At("building") /\ ~Admits(ledger, ReplacementPeak)
  /\ LeaveRepair("none")
  /\ UNCHANGED <<native, ledger, faults>>

\* Mutant: a throwing resume is taken to have left nothing behind.
BugRepairFails ==
  \/ /\ At("feeding") \/ At("sorting") \/ At("building")
     /\ Fault
     /\ LeaveRepair("none")
     /\ UNCHANGED <<native, ledger>>
  \/ /\ At("filling") /\ Fault
     /\ LeaveRepair("none") /\ ledger' = ReleaseBeforeOutput(ledger)
     /\ UNCHANGED native

\* Before the resume nothing is charged; from the resume on, even a throwing
\* one, the charge stays until the native part has retired.
RepairFails ==
  \/ /\ At("feeding") \/ At("sorting") \/ At("building")
     /\ Fault
     /\ LeaveRepair("none")
     /\ UNCHANGED <<native, ledger>>
  \/ /\ At("building") /\ Admits(ledger, ReplacementPeak) /\ Fault
     /\ LeaveRepair("retiring")
     /\ ledger' = DetachPrivate(ReserveOutput(ledger, "replacement", ReplacementPeak))
     /\ UNCHANGED native
  \/ /\ At("filling") /\ Fault
     /\ LeaveRepair("retiring") /\ ledger' = DetachPrivate(ledger)
     /\ UNCHANGED native

\* Publish the new graph; the old one retires in the same slot.
FinishRepair ==
  /\ At("filling")
  /\ native' = FinishReplacement(native)
  /\ ledger' = Publish(ReadyOutput(ledger, ReplacementBytes))
  /\ owner' = [owner EXCEPT !["rep"].cancel = FALSE, !["rep"].active = FALSE,
                            !["rep"].output = "retiring"]
  /\ engine' = Drain("repaired", "rep")
  /\ UNCHANGED faults

\* Every fence still holds: the graph is known exactly, repair is over.
Repaired ==
  /\ At("repaired")
  /\ ledger' = MarkComplete(ledger, native.version)
  /\ engine' = [engine EXCEPT !.pc = "begin", !.due = FALSE]
  /\ UNCHANGED <<native, owner, faults>>

RepairStale ==
  /\ At("repaired") /\ Fault /\ engine' = Over(TRUE)
  /\ UNCHANGED <<native, owner, ledger>>

RepairAbandoned ==
  /\ At("unrepaired") /\ engine' = Over(TRUE)
  /\ UNCHANGED <<native, owner, ledger, faults>>

-----------------------------------------------------------------------------
(* beginTreeCandidate.                                                     *)

RootBytes == Identity + Endpoint

BeginCandidate ==
  /\ At("begin") /\ ~native.cand /\ native.slot = IdleSlot
  /\ native' = BeginJob(native, "begin")
  /\ Goto("opening")
  /\ UNCHANGED <<owner, ledger, faults>>

\* The graph is validated: plan, register, admit, clone and publish in one
\* turn; the cursor that validated it retires.
OpenCandidate ==
  /\ At("opening") /\ Admits(ledger, RootBytes)
  /\ native' = FinishBegin(Resume(native, RootBytes))
  /\ ledger' = Moved(AttachCandidateRoot(ReserveOutput(ledger, "root", RootBytes)))
  /\ owner' = [owner EXCEPT !["reach"] = Owner(FALSE, FALSE, "none")]
  /\ engine' = Drain("opened", "reach")
  /\ UNCHANGED faults

LeaveBegin(output) ==
  /\ owner' = [owner EXCEPT !["reach"] = Owner(TRUE, FALSE, output)]
  /\ engine' = Drain("dropping", "reach")

OpenDenied ==
  /\ At("opening") /\ ~Admits(ledger, RootBytes)
  /\ LeaveBegin("none")
  /\ UNCHANGED <<native, ledger, faults>>

\* A turn that fails, a native step that fails (its job is a retirement
\* already), and a clone that failed or whose check failed.
OpenFails ==
  \/ /\ At("opening") /\ Fault /\ LeaveBegin("none")
     /\ native' \in {native, ToRetirement(native, "reach", 0)}
     /\ UNCHANGED ledger
  \/ /\ At("opening") /\ Admits(ledger, RootBytes) /\ Fault /\ LeaveBegin("detach")
     /\ native' \in {native, Resume(native, RootBytes)}
     /\ ledger' = ReserveOutput(ledger, "root", RootBytes)

\* onCandidateOpened: from here on the operation owns the candidate.
HandOff ==
  /\ At("opened")
  /\ ledger' = Advance(ledger)
  /\ Goto("mutate")
  /\ UNCHANGED <<native, owner, faults>>

\* The operation went stale while the cursor retired: the finalized owner
\* takes the abort and settles it at once.
Withdraw ==
  /\ At("opened") /\ Fault
  /\ native' = Sweep(native, "abort")
  /\ ledger' = Settled(ledger, native.version, "abort")
  /\ engine' = Over(engine.due)
  /\ UNCHANGED owner

Dropped ==
  /\ At("dropping") /\ engine' = Over(engine.due)
  /\ UNCHANGED <<native, owner, ledger, faults>>

-----------------------------------------------------------------------------
(* applyTreeCandidateMutation: once for deletes, once for upserts.         *)

MutationRoot == IF native.version = 1 THEN RootBytes ELSE Endpoint
MutationPeak == 1 + MutationRoot + Endpoint

BeginMutation ==
  /\ At("mutate") /\ native.slot = IdleSlot
  /\ owner' = [owner EXCEPT !["mut"] = Owner(TRUE, TRUE, "none")]
  /\ native' = BeginJob(native, "mutation")
  /\ Goto("planning")
  /\ UNCHANGED <<ledger, faults>>

\* A rejected begin leaves no native job and no owner.
MutationRefused ==
  /\ At("mutate") /\ Fault
  /\ Goto("aborting")
  /\ UNCHANGED <<native, owner, ledger>>

AdmitMutation ==
  /\ At("planning") /\ Admits(ledger, MutationPeak)
  /\ ledger' = ReserveOutput(ledger, "mutation", MutationPeak)
  /\ native' = Resume(native, MutationPeak)
  /\ owner' = [owner EXCEPT !["mut"].output = "attempt"]
  /\ Goto("writing")
  /\ UNCHANGED faults

\* Mutant: the owner stays active, and its drain is refused for ever.
BugLeaveMutation(output) ==
  /\ owner' = [owner EXCEPT !["mut"].output = output]
  /\ engine' = Drain("cleaning", "mut")

LeaveMutation(output) ==
  /\ owner' = [owner EXCEPT !["mut"].active = FALSE, !["mut"].output = output]
  /\ engine' = Drain("cleaning", "mut")

MutationDenied ==
  /\ At("planning") /\ ~Admits(ledger, MutationPeak)
  /\ LeaveMutation("none")
  /\ UNCHANGED <<native, ledger, faults>>

MutationFails ==
  \/ /\ At("planning") /\ Fault /\ LeaveMutation("none")
     /\ native' \in {native, ToRetirement(native, "mut", 0)}
     /\ UNCHANGED ledger
  \/ /\ At("planning") /\ Admits(ledger, MutationPeak) /\ Fault /\ LeaveMutation("detach")
     /\ ledger' = ReserveOutput(ledger, "mutation", MutationPeak)
     /\ UNCHANGED native
  \/ /\ At("writing") /\ Fault /\ LeaveMutation("detach")
     /\ native' \in {native, ToRetirement(native, "mut", native.slot.bytes)}
     /\ UNCHANGED ledger

\* Ready, finish, attach, record the new revision; `fresh` nodes were not in
\* the store yet.
FinishMutating(fresh) ==
  /\ At("writing")
  /\ native' = FinishMutation(native, fresh)
  /\ ledger' = Advance(Moved(AttachMutation(ReadyOutput(ledger, fresh + MutationRoot),
                                            native.version)))
  /\ owner' = [owner EXCEPT !["mut"].cancel = FALSE, !["mut"].active = FALSE,
                            !["mut"].output = "none"]
  /\ engine' = [Drain("mutated", "mut") EXCEPT !.round = @ + 1]
  /\ UNCHANGED faults

Mutated ==
  /\ At("mutated")
  /\ \/ engine.round < 2 /\ Goto("mutate")
     \/ Goto(IF engine.kind = "push" THEN "chunks" ELSE "commit")
  /\ UNCHANGED <<native, owner, ledger, faults>>

Cleaned ==
  /\ At("cleaning") /\ Goto("aborting")
  /\ UNCHANGED <<native, owner, ledger, faults>>

-----------------------------------------------------------------------------
(* Push: the chunk pages, the root's bytes, submission.  Both: settlement. *)

BeginChunks ==
  /\ At("chunks") /\ native.slot = IdleSlot
  /\ native' = BeginJob(native, "chunks")
  /\ Goto("listing")
  /\ UNCHANGED <<owner, ledger, faults>>

ListChunks ==
  /\ At("listing")
  /\ native' = ToRetirement(native, "reach", 0)
  /\ owner' = [owner EXCEPT !["reach"] = Owner(FALSE, FALSE, "none")]
  /\ engine' = Drain("listed", "reach")
  /\ UNCHANGED <<ledger, faults>>

\* A failed step, page, request or turn.
ListFails ==
  /\ At("listing") /\ Fault
  /\ native' \in {native, ToRetirement(native, "reach", 0)}
  /\ owner' = [owner EXCEPT !["reach"] = Owner(TRUE, FALSE, "none")]
  /\ engine' = Drain("unlisted", "reach")
  /\ UNCHANGED ledger

Listed ==
  /\ At("listed") /\ Goto("export")
  /\ UNCHANGED <<native, owner, ledger, faults>>

Unlisted ==
  /\ At("unlisted") /\ Goto("aborting")
  /\ UNCHANGED <<native, owner, ledger, faults>>

BeginExport ==
  /\ At("export") /\ native.slot = IdleSlot
  /\ native' = BeginJob(native, "export")
  /\ Goto("exporting")
  /\ UNCHANGED <<owner, ledger, faults>>

FinishExport ==
  /\ At("exporting")
  /\ native' = [native EXCEPT !.slot = IdleSlot]
  /\ Goto("commit")
  /\ UNCHANGED <<owner, ledger, faults>>

\* A failed step drops the job, anything else cancels it.
ExportFails ==
  /\ At("exporting") /\ Fault
  /\ native' = [native EXCEPT !.slot = IdleSlot]
  /\ Goto("aborting")
  /\ UNCHANGED <<owner, ledger>>

\* A failed check or submission; an unknown outcome makes repair due.
SubmitFails ==
  /\ engine.pc \in {"mutated", "listed", "commit"} /\ engine.drain = "none" /\ Fault
  /\ \E due \in {engine.due, engine.kind = "push"} :
       engine' = [engine EXCEPT !.pc = "aborting", !.due = @ \/ due]
  /\ UNCHANGED <<native, owner, ledger>>

Commit ==
  /\ At("commit")
  /\ native' = Sweep(native, "commit")
  /\ ledger' = Settled(ledger, native.version, "commit")
  /\ engine' = Over(engine.due)
  /\ UNCHANGED <<owner, faults>>

\* The operation's catch: hand the abort to the owner that still holds the
\* slot, or settle it now.
Abort ==
  /\ At("aborting")
  /\ IF Pending("mut") \/ Pending("reach")
     THEN LET r == IF Pending("mut") THEN "mut" ELSE "reach" IN
            /\ owner' = [owner EXCEPT ![r].owes = TRUE]
            /\ engine' = Drain("settling", r)
            /\ UNCHANGED <<native, ledger>>
     ELSE /\ native.slot = IdleSlot
          /\ native' = Sweep(native, "abort")
          /\ ledger' = Settled(ledger, native.version, "abort")
          /\ engine' = Over(engine.due)
          /\ UNCHANGED owner
  /\ UNCHANGED faults

SettlementDone ==
  /\ At("settling") /\ engine' = Over(engine.due)
  /\ UNCHANGED <<native, owner, ledger, faults>>

\* retireTree: every registry is drained, the wrapper is freed.
Free ==
  /\ At("recover") /\ engine.kind = "free" /\ Undrained = {}
  /\ native' = [native EXCEPT !.cand = FALSE, !.nodes = 0, !.croot = 0, !.kroot = 0,
                              !.slot = IdleSlot]
  /\ ledger' = Freed(ledger)
  /\ engine' = [Over(engine.due) EXCEPT !.freed = TRUE]
  /\ UNCHANGED <<owner, faults>>

-----------------------------------------------------------------------------
Init ==
  /\ \E v \in Versions : native = [version |-> v, cand |-> FALSE, nodes |-> 0, croot |-> 0,
                                   kroot |-> 0, slot |-> IdleSlot]
  /\ owner = [r \in Registry |-> NoOwner]
  /\ ledger = [attempt |-> NoAttempt, retiring |-> NotRetiring, resident |-> 0,
               cand |-> 0, com |-> 0, proof |-> "none"]
  /\ engine = [kind |-> "idle", pc |-> "idle", drain |-> "none", turn |-> FALSE,
               round |-> 0, due |-> TRUE, freed |-> FALSE]
  /\ faults = 0

\* The steps of an operation that is running.
Work ==
  \/ RetireStep \/ RetireDone
  \/ RecoverDrain \/ Recovered \/ RepairDrain \/ BeginRepair
  \/ FeedReplacement \/ SortReplacement \/ AdmitReplacement
  \/ RepairDenied \/ FinishRepair \/ Repaired \/ RepairAbandoned
  \/ BeginCandidate \/ OpenCandidate \/ OpenDenied \/ HandOff \/ Dropped
  \/ BeginMutation \/ AdmitMutation \/ MutationDenied
  \/ \E fresh \in 0..1 : FinishMutating(fresh)
  \/ Mutated \/ Cleaned \/ BeginChunks \/ ListChunks \/ Listed \/ Unlisted
  \/ BeginExport \/ FinishExport \/ Commit \/ Abort \/ SettlementDone \/ Free

Failure ==
  \/ RetireFails \/ RepairFails \/ RepairStale \/ OpenFails \/ Withdraw
  \/ MutationRefused \/ MutationFails \/ ListFails \/ ExportFails \/ SubmitFails

Next ==
  \/ \E kind \in {"push", "pull", "free"} : Start(kind)
  \/ Work
  \/ Failure

\* Timers start operations for ever, and a started one runs on.
Fairness ==
  /\ WF_jobVars(Work)
  /\ WF_jobVars(\E kind \in {"push", "pull"} : Start(kind))

Spec == Init /\ [][Next]_jobVars
FairSpec == Spec /\ Fairness

-----------------------------------------------------------------------------
(* Properties.                                                             *)

\* The ledger never charges less than the native tree holds: committed and
\* candidate graph, the output of the job in the slot, and what is still
\* retiring (reserve before allocation, release only after the last step).
ChargeCoversNative ==
  native.nodes + native.croot + native.kroot + native.slot.bytes <= Charge(ledger)

\* Between operations, a wrapper without a registered owner is clean: empty
\* slot, no candidate, and no attempt, retirement or candidate root charged.
\* While the graph is known exactly the charge is its size, to the byte.
IdleIsClean ==
  engine.kind = "idle" =>
    \/ \E r \in Registry : Pending(r) /\ ~owner[r].active
    \/ /\ native.slot = IdleSlot /\ ~native.cand
       /\ ledger.attempt = NoAttempt /\ ~ledger.retiring.on /\ ledger.cand = 0
       /\ ledger.proof = "current" => ledger.resident = native.nodes + native.croot

\* Whatever failed, every cleanup owner is drained in the end.
CleanupCompletes == []<>(\A r \in Registry : ~Pending(r))
=============================================================================
