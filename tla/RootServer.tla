----------------------------- MODULE RootServer -----------------------------
(***************************************************************************)
(* The request handlers of one vault that change its current root          *)
(* (crates/sync-server/src/api.rs, root_outcome.rs, admin.rs): pushes by   *)
(* the outcome route and by the legacy route, cancellations, rollbacks,    *)
(* the stale-tree guard (guard.rs) and its one-time deletion bypass.       *)
(*                                                                         *)
(* A handler runs under the per-vault lock and gives the thread up at its  *)
(* awaits (validation walk, merge, guard scan, bypass claim); at an await  *)
(* its client may disconnect, which drops the handler and the lock.  A     *)
(* root is identified with its tree.  RootHead models how one publication  *)
(* reaches the disk; here it succeeds, fails, or takes effect and still    *)
(* reports an error.                                                       *)
(***************************************************************************)
EXTENDS TreeMerge

CONSTANTS
    Client,         \* the devices of the vault
    Slot,           \* bound: concurrent requests
    Nothing,        \* absence of a root, a receipt, a lock or a handler
    GuardMode,      \* OBSETYNC_GUARD: "enforce", "warn" or "off"
    RegressionMax,  \* OBSETYNC_GUARD_MTIME_K
    SkewMs,         \* OBSETYNC_GUARD_MTIME_SKEW_MS
    BlastPct,       \* OBSETYNC_GUARD_BLAST_PCT
    BlastMin,       \* OBSETYNC_GUARD_BLAST_MIN
    SequenceLimit,  \* MAX_ROOT_SEQUENCE
    ReceiptLimit,   \* MAX_ROOT_RECEIPT_DEVICES
    MaxRequests,    \* bound: requests and server restarts of one behaviour
    MaxGrants       \* bound: deletion bypasses granted

VARIABLES
    root,         \* the current root, or Nothing
    receipts,     \* the terminal receipt of each device
    roots,        \* roots readable from the root history
    incarnation,  \* root_incarnation: one per server process
    bypass,       \* the guard-bypass marker of each device
    lock,         \* the slot whose handler holds the vault lock
    req,          \* the running handlers
    detached,     \* devices whose bypass claim outlived its handler
    notified,     \* the root of the last change notification
    unreported,   \* ghost: a publication took effect and reported an error
    overrides,    \* ghost: published pushes over the ceiling of the guard
    requests, grants  \* counters behind the bounds

handlerVars == <<root, receipts, roots, incarnation, bypass, lock, req, detached,
                 notified, unreported, overrides, requests, grants>>
server == <<root, receipts, roots, notified, unreported, overrides>>

\* mutation_id and request_hash: the identity binds the body it was made for.
Id == [parent : Tree \cup {Nothing}, tree : Tree]

PushReceipt == [sequence : 1..SequenceLimit, id : Id, cancelled : BOOLEAN,
                root : Tree \cup {Nothing}, conflicts : SUBSET Path]

Awaits == {"validate", "merge", "guard", "bypass"}

Request == [kind : {"commit", "legacy"}, device : Client, sequence : 0..SequenceLimit,
            incarnation : Nat, id : Id, at : Awaits \cup {"arrived", "publish"},
            seen : Tree \cup {Nothing}, result : Tree \cup {Nothing}, conflicts : SUBSET Path]

\* The sets of a vault's devices and connections are finite, times are naturals, and
\* the markers of absence are not values.
RootServerAssumption ==
    /\ IsFiniteSet(Client) /\ IsFiniteSet(Slot)
    /\ MTime \subseteq Nat
    /\ {SequenceLimit, MaxRequests, MaxGrants} \subseteq Nat
    /\ Absent \notin Entry
    /\ Nothing \notin Tree \cup Slot \cup Request \cup PushReceipt

HandlersTypeOK ==
    /\ root \in Tree \cup {Nothing}
    /\ receipts \in [Client -> PushReceipt \cup {Nothing}]
    /\ roots \subseteq Tree
    /\ incarnation \in Nat
    /\ bypass \in [Client -> {"none", "granted", "expired"}]
    /\ lock \in Slot \cup {Nothing}
    /\ req \in [Slot -> Request \cup {Nothing}]
    /\ detached \subseteq Client
    /\ notified \in Tree \cup {Nothing}
    /\ unreported \in BOOLEAN
    /\ overrides \in Nat
    /\ requests \in 0..MaxRequests
    /\ grants \in 0..MaxGrants

HandlersInit ==
    /\ root = Nothing
    /\ receipts = [d \in Client |-> Nothing]
    /\ roots = {}
    /\ incarnation = 0
    /\ bypass = [d \in Client |-> "none"]
    /\ lock = Nothing
    /\ req = [s \in Slot |-> Nothing]
    /\ detached = {}
    /\ notified = Nothing
    /\ unreported = FALSE
    /\ overrides = 0
    /\ requests = 0
    /\ grants = 0

-----------------------------------------------------------------------------
(* The guard (guard.rs): what a push would delete, change and move back in *)
(* time, and when that is too much.                                        *)

\* scan_inner, compare_entries: the paths of the current tree that the
\* candidate drops, rewrites, and rewrites with an mtime out of the allowance.
Deletions(cur, cand) == {p \in Path : cur[p] # Absent /\ cand[p] = Absent}

ContentChanges(cur, cand) ==
    {p \in Path : cur[p] # Absent /\ cand[p] # Absent /\ cur[p].hash # cand[p].hash}

MTimeRegressions(cur, cand) ==
    {p \in ContentChanges(cur, cand) : cand[p].mtime + SkewMs < cur[p].mtime}

BlastRadius(cur, cand) == Cardinality(Deletions(cur, cand) \cup ContentChanges(cur, cand))

TotalFiles(t) == Cardinality({p \in Path : t[p] # Absent})

Ceiling(cur) ==
    LET share == (TotalFiles(cur) * BlastPct) \div 100
    IN  IF share < BlastMin THEN BlastMin ELSE share

\* GuardScan::triggered
Triggered(cur, cand) ==
    \/ Cardinality(MTimeRegressions(cur, cand)) > RegressionMax
    \/ BlastRadius(cur, cand) > Ceiling(cur)
-----------------------------------------------------------------------------
(* root_outcome.rs                                                         *)

LastSequence(d) == IF receipts[d] = Nothing THEN 0 ELSE receipts[d].sequence

\* replay_or_admit, exact replay: answered from the receipt, whatever the
\* incarnation the request was prepared under.
Replayed(d, seq, id) ==
    receipts[d] # Nothing /\ receipts[d].sequence = seq /\ receipts[d].id = id

\* replay_or_admit, a new operation: the next of its stream, prepared against
\* this server process.
Admitted(d, seq, inc) ==
    seq = LastSequence(d) + 1 /\ inc = incarnation

\* prepare_receipt_head / validate_head: room for this device's stream.
HasRoom(d) ==
    receipts[d] # Nothing \/ Cardinality({e \in Client : receipts[e] # Nothing}) < ReceiptLimit

-----------------------------------------------------------------------------
(* Pushes.                                                                 *)

BaseTree(parent) == IF parent = Nothing THEN EmptyTree ELSE parent

\* A device sends the tree it built from the root it last applied; a repeated
\* request carries the identity of the first.
Arrive(s, kind, d, seq, inc, id) ==
    /\ req[s] = Nothing /\ requests < MaxRequests
    /\ kind = "legacy" => seq = 0
    /\ req' = [req EXCEPT ![s] =
                 [kind |-> kind, device |-> d, sequence |-> seq, incarnation |-> inc,
                  id |-> id, at |-> "arrived", seen |-> Nothing, result |-> Nothing, conflicts |-> {}]]
    /\ requests' = requests + 1
    /\ UNCHANGED <<server, incarnation, bypass, lock, detached, grants>>

Finish(s) == req' = [req EXCEPT ![s] = Nothing]

\* Mutant: the lock is keyed by connection, not by vault.
BugAcquire(s) ==
    /\ req[s] # Nothing /\ req[s].at = "arrived"
    /\ req[s].kind = "commit" => Admitted(req[s].device, req[s].sequence, req[s].incarnation)
    /\ lock' = s
    /\ req' = [req EXCEPT ![s].at = "validate", ![s].seen = root]
    /\ UNCHANGED <<server, incarnation, bypass, detached, requests, grants>>

\* publish_root up to its first await: the vault lock, replay_or_admit, the
\* current root.
Acquire(s) ==
    /\ req[s] # Nothing /\ req[s].at = "arrived"
    /\ lock = Nothing
    /\ req[s].kind = "commit" => Admitted(req[s].device, req[s].sequence, req[s].incarnation)
    /\ lock' = s
    /\ req' = [req EXCEPT ![s].at = "validate", ![s].seen = root]
    /\ UNCHANGED <<server, incarnation, bypass, detached, requests, grants>>

\* The exact replay, and the expired, gapped, mismatched or foreign request.
AnswerFromReceipt(s) ==
    /\ req[s] # Nothing /\ req[s].at = "arrived" /\ req[s].kind = "commit"
    /\ lock = Nothing
    /\ \/ Replayed(req[s].device, req[s].sequence, req[s].id)
       \/ ~Admitted(req[s].device, req[s].sequence, req[s].incarnation)
    /\ Finish(s)
    /\ UNCHANGED <<server, incarnation, bypass, lock, detached, requests, grants>>

Holds(s, at) == req[s] # Nothing /\ req[s].at = at

\* validate_root_result: the receipt can be retained (no receipt: nothing to
\* retain).
Retainable(s) == req[s].kind = "commit" => HasRoom(req[s].device)

\* Validated, and nothing is there yet: publish as it is.
FirstPush(s) ==
    /\ Holds(s, "validate") /\ req[s].seen = Nothing
    /\ req' = [req EXCEPT ![s].at = "publish", ![s].result = req[s].id.tree]
    /\ UNCHANGED <<server, incarnation, bypass, lock, detached, requests, grants>>

\* Validated, and the claimed parent is the current root.
FastForward(s) ==
    /\ Holds(s, "validate") /\ req[s].seen # Nothing
    /\ req[s].id.parent = req[s].seen
    /\ Retainable(s)
    /\ req' = [req EXCEPT ![s].at = "guard", ![s].result = req[s].id.tree]
    /\ UNCHANGED <<server, incarnation, bypass, lock, detached, requests, grants>>

\* Validated, diverged, and the parent is in history: merge.
Diverge(s) ==
    /\ Holds(s, "validate") /\ req[s].seen # Nothing
    /\ req[s].id.parent \notin {req[s].seen, Nothing}
    /\ req[s].id.parent \in roots
    /\ req' = [req EXCEPT ![s].at = "merge"]
    /\ UNCHANGED <<server, incarnation, bypass, lock, detached, requests, grants>>

\* Mutant: the conflicts of the merge do not reach the receipt.
BugMerge(s) ==
    /\ Holds(s, "merge")
    /\ \E text \in SUBSET TextTodo(req[s].id.parent, req[s].seen, req[s].id.tree, TRUE) :
          req' = [req EXCEPT ![s].at = "guard",
                    ![s].result = MergeTrees(req[s].id.parent, req[s].seen, req[s].id.tree, TRUE, text)]
    /\ Retainable(s)
    /\ UNCHANGED <<server, incarnation, bypass, lock, detached, requests, grants>>

\* run_versioned_merge with the claimed parent as base, then the retention
\* check, which comes before the guard may consume a bypass.
Merge(s) ==
    /\ Holds(s, "merge")
    /\ \E text \in SUBSET TextTodo(req[s].id.parent, req[s].seen, req[s].id.tree, TRUE) :
          req' = [req EXCEPT ![s].at = "guard",
                    ![s].result = MergeTrees(req[s].id.parent, req[s].seen, req[s].id.tree, TRUE, text),
                    ![s].conflicts = Conflicts(req[s].id.parent, req[s].seen, req[s].id.tree, TRUE, text)]
    /\ Retainable(s)
    /\ UNCHANGED <<server, incarnation, bypass, lock, detached, requests, grants>>

\* enforce_guard: scan; pass, or go and claim the device's bypass.
GuardScan(s) ==
    /\ Holds(s, "guard")
    /\ req' = [req EXCEPT ![s].at =
                 IF GuardMode = "enforce" /\ Triggered(req[s].seen, req[s].result)
                 THEN "bypass" ELSE "publish"]
    /\ UNCHANGED <<server, incarnation, bypass, lock, detached, requests, grants>>

\* Mutant: a claimed bypass is left in place.
BugConsumeBypass(d) == UNCHANGED bypass

\* consume_deletion_bypass: the marker goes, expired or not.
ConsumeBypass(d) == bypass' = [bypass EXCEPT ![d] = "none"]

\* The claim, run to its end on the control pool: a valid one lets the push
\* through, any other refuses it.
ClaimBypass(s) ==
    /\ Holds(s, "bypass")
    /\ ConsumeBypass(req[s].device)
    /\ IF bypass[req[s].device] = "granted"
       THEN req' = [req EXCEPT ![s].at = "publish"] /\ lock' = lock
       ELSE Finish(s) /\ lock' = Nothing
    /\ UNCHANGED <<server, incarnation, detached, requests, grants>>

\* store_root for the pushed and the selected root, set_current_root(_with_receipt),
\* notify_root_changed; `reported` is FALSE when the head was replaced and the
\* call still failed (the directory sync of the rename).
Publish(s, reported) ==
    /\ Holds(s, "publish") /\ Retainable(s)
    /\ roots' = roots \cup {req[s].id.tree, req[s].result}
    /\ root' = req[s].result
    /\ receipts' =
          IF req[s].kind = "legacy" THEN receipts
          ELSE [receipts EXCEPT ![req[s].device] =
                  [sequence |-> req[s].sequence, id |-> req[s].id, cancelled |-> FALSE,
                   root |-> req[s].result, conflicts |-> req[s].conflicts]]
    /\ notified' = IF reported THEN root' ELSE notified
    /\ unreported' = ~reported
    /\ overrides' = IF root # Nothing /\ Triggered(root, req[s].result) THEN overrides + 1 ELSE overrides
    /\ Finish(s)
    /\ lock' = Nothing
    /\ UNCHANGED <<incarnation, bypass, detached, requests, grants>>

\* The head was not replaced: no room for the receipt, or an I/O error; the
\* root history may have grown.
FailPublish(s) ==
    /\ Holds(s, "publish")
    /\ roots' \in {roots, roots \cup {req[s].id.tree},
                     roots \cup {req[s].id.tree, req[s].result}}
    /\ Finish(s)
    /\ lock' = Nothing
    /\ UNCHANGED <<root, receipts, notified, unreported, overrides, incarnation, bypass, detached,
                   requests, grants>>

\* Every early return of a push before its publication: an invalid root, missing
\* content, an unknown parent, no room for the receipt, a failed merge or scan.
Refuse(s) ==
    /\ req[s] # Nothing /\ req[s].at \in {"validate", "merge", "guard"}
    /\ Finish(s)
    /\ lock' = Nothing
    /\ UNCHANGED <<server, incarnation, bypass, detached, requests, grants>>

\* The client went away: the handler is dropped at its await.  A bypass claim
\* already handed to the pool runs on.
Disconnect(s) ==
    /\ req[s] # Nothing /\ req[s].at # "publish"
    /\ lock' = IF lock = s THEN Nothing ELSE lock
    /\ detached' = IF req[s].at = "bypass" THEN detached \cup {req[s].device} ELSE detached
    /\ Finish(s)
    /\ UNCHANGED <<server, incarnation, bypass, requests, grants>>

DetachedClaim(d) ==
    /\ d \in detached
    /\ ConsumeBypass(d)
    /\ detached' = detached \ {d}
    /\ UNCHANGED <<server, incarnation, lock, req, requests, grants>>

-----------------------------------------------------------------------------
(* The other writers of the head.                                          *)

\* post_root_cancel: no await under the lock, so one step; a replay or a
\* refusal changes nothing and is not a step.
Cancel(d, seq, inc, id) ==
    /\ lock = Nothing /\ requests < MaxRequests
    /\ Admitted(d, seq, inc) /\ HasRoom(d)
    /\ receipts' = [receipts EXCEPT ![d] = [sequence |-> seq, id |-> id, cancelled |-> TRUE,
                                            root |-> Nothing, conflicts |-> {}]]
    /\ requests' = requests + 1
    /\ UNCHANGED <<root, roots, notified, unreported, overrides, incarnation, bypass, lock,
                   req, detached, grants>>

\* post_rollback and the admin's rollback_vault: the target is a root of the
\* history, the guard is not asked, the receipts are carried over.
RollBack(target) ==
    /\ lock = Nothing /\ requests < MaxRequests
    /\ target \in roots
    /\ root' = target /\ notified' = target /\ unreported' = FALSE
    /\ requests' = requests + 1
    /\ UNCHANGED <<receipts, roots, overrides, incarnation, bypass, lock, req, detached, grants>>

\* grant_deletion_bypass by an administrator, and the end of its lifetime.
GrantBypass(d) ==
    /\ grants < MaxGrants
    /\ bypass' = [bypass EXCEPT ![d] = "granted"]
    /\ grants' = grants + 1
    /\ UNCHANGED <<server, incarnation, lock, req, detached, requests>>

ExpireBypass(d) ==
    /\ bypass[d] = "granted"
    /\ bypass' = [bypass EXCEPT ![d] = "expired"]
    /\ UNCHANGED <<server, incarnation, lock, req, detached, requests, grants>>

\* A new server process: memory is gone, the disk is as it was.
Restart ==
    /\ requests < MaxRequests
    /\ requests' = requests + 1
    /\ incarnation' = incarnation + 1
    /\ lock' = Nothing
    /\ req' = [s \in Slot |-> Nothing]
    /\ detached' = {}
    /\ notified' = root /\ unreported' = FALSE
    /\ UNCHANGED <<root, receipts, roots, overrides, bypass, grants>>

-----------------------------------------------------------------------------
\* The identities devices make: one path of the parent edited.
Edits(parent) ==
    {[parent |-> parent, tree |-> [BaseTree(parent) EXCEPT ![p] = e]] :
        p \in Path, e \in [hash : Hash, mtime : MTime] \cup {Absent}}

Ids == UNION {Edits(parent) : parent \in roots \cup {Nothing}}

HandlersNext ==
    \/ \E s \in Slot :
         \/ \E d \in Client, seq \in 1..SequenceLimit, inc \in 0..incarnation, id \in Ids :
               Arrive(s, "commit", d, seq, inc, id)
         \/ \E d \in Client, id \in Ids : Arrive(s, "legacy", d, 0, 0, id)
         \/ Acquire(s) \/ AnswerFromReceipt(s)
         \/ FirstPush(s) \/ FastForward(s) \/ Diverge(s) \/ Merge(s)
         \/ GuardScan(s) \/ ClaimBypass(s)
         \/ \E reported \in BOOLEAN : Publish(s, reported)
         \/ FailPublish(s) \/ Refuse(s) \/ Disconnect(s)
    \/ \E d \in Client :
         \/ DetachedClaim(d) \/ GrantBypass(d) \/ ExpireBypass(d)
         \/ \E seq \in 1..SequenceLimit, inc \in 0..incarnation, id \in Ids : Cancel(d, seq, inc, id)
    \/ \E target \in roots : RollBack(target)
    \/ Restart

HandlersSpec == HandlersInit /\ [][HandlersNext]_handlerVars

-----------------------------------------------------------------------------
(* Properties.                                                             *)

\* The slot whose publication this step is, if any.
Publishes(s) ==
    Holds(s, "publish") /\ req'[s] = Nothing /\ <<root, receipts>>' # <<root, receipts>>

\* A push never reverts what other devices did since its parent: on every file
\* it did not touch the new root has the current content (or brings back a file
\* the current root had deleted together with its whole directory), and a file
\* the current root changed is kept, line-merged, or reported as a conflict.
NoLostUpdate ==
    [][\A s \in Slot : Publishes(s) /\ root # Nothing =>
          LET parent == BaseTree(req[s].id.parent)  tree == req[s].id.tree
          IN  \A p \in Path :
                 /\ SameContent(tree[p], parent[p]) /\ root[p] # Absent =>
                       SameContent(root'[p], root[p])
                 /\ root[p] # Absent /\ ~SameContent(root[p], parent[p]) =>
                       root'[p] # Absent /\ root'[p].hash \in {root[p].hash, Mixed}]_handlerVars

\* Of a step: what the pushing device wrote is in the published root, mixed into it, or
\* named in the conflicts of its receipt.
PushedContentAccounted ==
    \A s \in Slot : Publishes(s) =>
        \A p \in Path :
            LET written == req[s].id.tree[p]
            IN  written # Absent /\ ~SameContent(written, BaseTree(req[s].id.parent)[p]) =>
                    \/ root'[p] # Absent /\ root'[p].hash \in {written.hash, Mixed}
                    \/ p \in req[s].conflicts

\* An enforcing guard lets a push over its ceiling through only against a
\* bypass, and one bypass lets at most one push through, whatever handlers are
\* dropped, refused or race for the marker.
BypassIsSpentOnce ==
    GuardMode = "enforce" =>
        overrides + Cardinality({d \in Client : bypass[d] = "granted"})
                  + Cardinality({s \in Slot : Holds(s, "publish") /\ req[s].seen # Nothing
                                              /\ Triggered(req[s].seen, req[s].result)}) <= grants

\* Both, over a behaviour.
PushesAccounted == [][PushedContentAccounted /\ BypassIsSpentOnce']_handlerVars

=============================================================================
