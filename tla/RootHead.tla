------------------------------ MODULE RootHead ------------------------------
(***************************************************************************)
(* The authority file of one vault on the server's disk: the `current`     *)
(* head (selected root plus one terminal receipt per device), the root     *)
(* history beside it, and the calls of VaultStore that read and replace    *)
(* them (crates/sync-server/src/storage.rs, root_head.rs).                 *)
(*                                                                         *)
(* The per-vault mutex of state.rs admits one call at a time, so `call`    *)
(* holds the one running call; its file-system steps are separate actions  *)
(* and an I/O error, a process exit or a power loss may fall between any   *)
(* two of them.  A process exit keeps what the kernel has seen; a power    *)
(* loss keeps only what a completed fsync covers, plus any part of the     *)
(* rest.  Directories are taken to exist (ensure_durable_directories).     *)
(***************************************************************************)
EXTENDS Naturals, FiniteSets

CONSTANTS
    Device,       \* enrolled devices of the vault
    Root,         \* root hashes
    Mutation,     \* operation identities: mutation_id with its request_hash
    None,         \* absence of a file, a root or a receipt
    Torn,         \* a file whose bytes were not all written
    Cancelled,    \* the result {"cancelled": true}
    MaxSequence,  \* MAX_ROOT_SEQUENCE
    MaxDevices,   \* MAX_ROOT_RECEIPT_DEVICES
    MaxFaults     \* bound: I/O errors, exits and power losses of one behaviour

ASSUME RootHeadAssumption ==
    /\ MaxSequence \in Nat \ {0}
    /\ MaxDevices \in Nat
    /\ MaxFaults \in Nat
    /\ None \notin Root /\ Cancelled \notin Root /\ None # Torn

-----------------------------------------------------------------------------
(* root_head.rs: what a head holds and when it can be written.             *)

Receipt == [sequence : 1..MaxSequence, id : Mutation, result : Root \cup {Cancelled}]

Heads == [root : Root \cup {None}, receipts : [Device -> Receipt \cup {None}]]

\* is_cancelled
IsCancelled(receipt) == receipt.result = Cancelled

Retained(head) == {d \in Device : head.receipts[d] # None}

\* validate_head, and encode's refusal of a head with neither root nor receipt:
\* a null root is legal only above a nonempty history of cancellations.
ValidateHead(head) ==
    /\ Cardinality(Retained(head)) <= MaxDevices
    /\ head.root = None =>
          /\ Retained(head) # {}
          /\ \A d \in Retained(head) : IsCancelled(head.receipts[d])

EmptyHead == [root |-> None, receipts |-> [d \in Device |-> None]]

-----------------------------------------------------------------------------
VARIABLES
    current,     \* the visible file `current`: None, Torn or a head
    survives,    \* what `current` may be after a power loss
    temp,        \* the visible file `current.tmp`
    tempSynced,  \* file.sync_all() has covered the bytes of `current.tmp`
    history,     \* roots readable in the vault's root history
    durable,     \* roots of the history that a power loss cannot remove
    rolledTo,    \* ghost: roots selected by a rollback
    call,        \* the call that holds the vault lock, or None
    replied,     \* ghost: the last receipt each device was told is terminal
    faults       \* faults so far

vars == <<current, survives, temp, tempSynced, history, durable, rolledTo, call, replied, faults>>
disk == <<current, survives, temp, tempSynced, history, durable>>

Steps == {"store", "blobSync", "encode", "open", "write", "sync", "rename", "dirSync", "replaySync"}

\* root: the root to store and select (None: cancellation, lookup);
\* receipt: the receipt to retain (None: legacy push, rollback, lookup).
Call == [at : Steps, device : Device, root : Root \cup {None},
         receipt : Receipt \cup {None}, head : Heads]

\* The markers are not values of the types they mark the absence of.
ASSUME MarkerAssumption ==
    /\ None \notin Receipt /\ None \notin Heads /\ None \notin Call
    /\ Torn \notin Heads

TypeOK ==
    /\ current \in Heads \cup {None, Torn}
    /\ survives \subseteq Heads \cup {None, Torn}
    /\ temp \in Heads \cup {None, Torn}
    /\ tempSynced \in BOOLEAN
    /\ history \subseteq Root
    /\ durable \subseteq Root
    /\ rolledTo \subseteq Root
    /\ call \in Call \cup {None}
    /\ replied \in [Device -> Receipt \cup {None}]
    /\ faults \in 0..MaxFaults

Init ==
    /\ current = None
    /\ survives = {None}
    /\ temp = None
    /\ tempSynced = FALSE
    /\ history = {}
    /\ durable = {}
    /\ rolledTo = {}
    /\ call = None
    /\ replied = [d \in Device |-> None]
    /\ faults = 0

-----------------------------------------------------------------------------
(* Reading the head.                                                       *)

\* read_root_head: a damaged head is an error, and so is a missing head
\* beside a leftover temporary; only a proven absence reads as empty.
Readable == current \in Heads \/ (current = None /\ temp = None)

ReadHead == IF current = None THEN EmptyHead ELSE current

\* prepare_receipt_head: the receipt must be the next of its device's stream.
NextSequence(head, d) ==
    IF head.receipts[d] = None THEN 1 ELSE head.receipts[d].sequence + 1

WithReceipt(head, d, receipt) ==
    [head EXCEPT !.receipts[d] = receipt]

-----------------------------------------------------------------------------
(* The calls.  Each takes the vault lock, reads the head and fixes the     *)
(* head it will publish; the later steps carry that head to the disk.      *)

Idle == call = None

\* publish_root with a commit: store_root, then set_current_root_with_receipt.
\* prepare_root_receipt refuses a receipt whose result is not the new root.
CommitRoot(d, root, receipt) ==
    /\ Idle /\ Readable
    /\ receipt.result = root
    /\ receipt.sequence = NextSequence(ReadHead, d)
    /\ call' = [at |-> "store", device |-> d, root |-> root, receipt |-> receipt,
                head |-> [WithReceipt(ReadHead, d, receipt) EXCEPT !.root = root]]
    /\ UNCHANGED <<disk, rolledTo, replied, faults>>

\* publish_root of the legacy route: store_root, then set_current_root, which
\* carries every retained receipt over.
LegacyPush(d, root) ==
    /\ Idle /\ Readable
    /\ call' = [at |-> "store", device |-> d, root |-> root, receipt |-> None,
                head |-> [ReadHead EXCEPT !.root = root]]
    /\ UNCHANGED <<disk, rolledTo, replied, faults>>

\* post_rollback and the admin rollback: select a root readable in history.
Rollback(d, root) ==
    /\ Idle /\ Readable
    /\ root \in history
    /\ call' = [at |-> "encode", device |-> d, root |-> root, receipt |-> None,
                head |-> [ReadHead EXCEPT !.root = root]]
    /\ rolledTo' = rolledTo \cup {root}
    /\ UNCHANGED <<disk, replied, faults>>

\* Mutant: a cancellation goes through the commit's path and selects its result.
BugCancelRoot(d, receipt) ==
    /\ Idle /\ Readable
    /\ IsCancelled(receipt)
    /\ receipt.sequence = NextSequence(ReadHead, d)
    /\ call' = [at |-> "encode", device |-> d, root |-> None, receipt |-> receipt,
                head |-> [WithReceipt(ReadHead, d, receipt) EXCEPT !.root = receipt.result]]
    /\ UNCHANGED <<disk, rolledTo, replied, faults>>

\* cancel_root_with_receipt: retain a cancelled receipt, keep the root.
CancelRoot(d, receipt) ==
    /\ Idle /\ Readable
    /\ IsCancelled(receipt)
    /\ receipt.sequence = NextSequence(ReadHead, d)
    /\ call' = [at |-> "encode", device |-> d, root |-> None, receipt |-> receipt,
                head |-> WithReceipt(ReadHead, d, receipt)]
    /\ UNCHANGED <<disk, rolledTo, replied, faults>>

\* get_root_receipt: a retained receipt is returned only behind a barrier.
GetReceipt(d) ==
    /\ Idle
    /\ current \in Heads
    /\ current.receipts[d] # None
    /\ call' = [at |-> "replaySync", device |-> d, root |-> None,
                receipt |-> current.receipts[d], head |-> current]
    /\ UNCHANGED <<disk, rolledTo, replied, faults>>

-----------------------------------------------------------------------------
(* store_root: root history.                                               *)

At(step) == call # None /\ call.at = step
Goto(step) == call' = [call EXCEPT !.at = step]

\* Mutant: readable history is taken to be durable history.
BugReuseHistory ==
    /\ At("store")
    /\ call.root \in history
    /\ Goto("encode")
    /\ UNCHANGED <<disk, rolledTo, replied, faults>>

\* A root already readable is not rewritten, but its earlier rename may be
\* visible without being durable: the file and its directory are synced again.
ReuseHistory ==
    /\ At("store")
    /\ call.root \in history
    /\ durable' = history
    /\ Goto("encode")
    /\ UNCHANGED <<current, survives, temp, tempSynced, history, rolledTo, replied, faults>>

\* write_blob: temporary file, sync_all, rename ...
WriteHistory ==
    /\ At("store")
    /\ call.root \notin history
    /\ history' = history \cup {call.root}
    /\ Goto("blobSync")
    /\ UNCHANGED <<current, survives, temp, tempSynced, durable, rolledTo, replied, faults>>

\* ... and the sync of its directory.
SyncHistory ==
    /\ At("blobSync")
    /\ durable' = history
    /\ Goto("encode")
    /\ UNCHANGED <<current, survives, temp, tempSynced, history, rolledTo, replied, faults>>

-----------------------------------------------------------------------------
(* publish_current_head.                                                   *)

\* encode: every ceiling is checked before any file is touched.
EncodeHead ==
    /\ At("encode")
    /\ ValidateHead(call.head)
    /\ Goto("open")
    /\ UNCHANGED <<disk, rolledTo, replied, faults>>

\* root_head_input_error: the typed refusal, answered 413.
RefuseHead ==
    /\ At("encode")
    /\ ~ValidateHead(call.head)
    /\ call' = None
    /\ UNCHANGED <<disk, rolledTo, replied, faults>>

\* File::create truncates whatever temporary a failed call left behind.
OpenTemp ==
    /\ At("open")
    /\ temp' = Torn /\ tempSynced' = FALSE
    /\ Goto("write")
    /\ UNCHANGED <<current, survives, history, durable, rolledTo, replied, faults>>

WriteTemp ==
    /\ At("write")
    /\ temp' = call.head
    /\ Goto("sync")
    /\ UNCHANGED <<current, survives, tempSynced, history, durable, rolledTo, replied, faults>>

SyncTemp ==
    /\ At("sync")
    /\ tempSynced' = TRUE
    /\ Goto("rename")
    /\ UNCHANGED <<current, survives, temp, history, durable, rolledTo, replied, faults>>

\* The rename is visible at once; a power loss may keep or drop it until the
\* directory is synced, and exposes unwritten bytes if the file was not synced.
RenameHead ==
    /\ At("rename")
    /\ current' = temp
    /\ survives' = survives \cup {temp} \cup (IF tempSynced THEN {} ELSE {Torn})
    /\ temp' = None /\ tempSynced' = FALSE
    /\ Goto("dirSync")
    /\ UNCHANGED <<history, durable, rolledTo, replied, faults>>

\* sync_directory_ancestors, after which the call returns Ok.
SyncHead ==
    /\ At("dirSync")
    /\ survives' = {current} \cup (survives \cap {Torn})
    /\ replied' = IF call.receipt = None THEN replied
                  ELSE [replied EXCEPT ![call.device] = call.receipt]
    /\ call' = None
    /\ UNCHANGED <<current, temp, tempSynced, history, durable, rolledTo, faults>>

\* Mutant: a receipt is replayed without the durability barrier.
BugReplayReceipt ==
    /\ At("replaySync")
    /\ replied' = [replied EXCEPT ![call.device] = call.receipt]
    /\ call' = None
    /\ UNCHANGED <<disk, rolledTo, faults>>

\* The replay barrier of get_root_receipt: file, then directories, then Ok.
ReplayReceipt ==
    /\ At("replaySync")
    /\ survives' = {current}
    /\ replied' = [replied EXCEPT ![call.device] = call.receipt]
    /\ call' = None
    /\ UNCHANGED <<current, temp, tempSynced, history, durable, rolledTo, faults>>

-----------------------------------------------------------------------------
(* Faults.                                                                 *)

\* An I/O error returns from the call where it stands and leaves its files;
\* the exit of the process does the same to every file the kernel has seen.
Fail ==
    /\ faults < MaxFaults /\ faults' = faults + 1
    /\ call # None
    /\ call' = None
    /\ UNCHANGED <<disk, rolledTo, replied>>

\* A power loss: any surviving head, any surviving temporary, the durable
\* history and any part of the rest.
PowerLoss ==
    /\ faults < MaxFaults /\ faults' = faults + 1
    /\ call' = None
    /\ \E h \in survives : current' = h /\ survives' = {h}
    /\ \E t \in {None, Torn, temp} : temp' = t
    /\ tempSynced' = FALSE
    /\ \E kept \in SUBSET (history \ durable) : history' = durable \cup kept
    /\ durable' = history'
    /\ UNCHANGED <<rolledTo, replied>>

-----------------------------------------------------------------------------
Begin ==
    \E d \in Device :
        \/ \E root \in Root :
              \/ LegacyPush(d, root)
              \/ Rollback(d, root)
              \/ \E receipt \in Receipt : CommitRoot(d, root, receipt)
        \/ \E receipt \in Receipt : CancelRoot(d, receipt)
        \/ GetReceipt(d)

Next ==
    \/ Begin
    \/ ReuseHistory \/ WriteHistory \/ SyncHistory
    \/ EncodeHead \/ RefuseHead
    \/ OpenTemp \/ WriteTemp \/ SyncTemp \/ RenameHead \/ SyncHead \/ ReplayReceipt
    \/ Fail \/ PowerLoss

Spec == Init /\ [][Next]_vars

-----------------------------------------------------------------------------
(* Properties.                                                             *)

\* No fault, at any of publish_current_head's boundaries, leaves a power loss
\* able to uncover a partly written head: the bytes are synced before the
\* rename that selects them.
NoTornHead == current # Torn /\ Torn \notin survives

\* A receipt the server has answered with, fresh or replayed, is still in every
\* head a power loss can leave, unless its device's stream has moved past it:
\* set_current_root_with_receipt answers after the directory sync, and
\* get_root_receipt repeats the sync for a rename whose own sync failed.
AnsweredReceiptSurvives ==
    \A d \in Device : replied[d] # None =>
        \A h \in survives :
            /\ h \in Heads
            /\ h.receipts[d] # None
            /\ \/ h.receipts[d] = replied[d]
               \/ h.receipts[d].sequence > replied[d].sequence

\* Every head a power loss can leave names a root whose bytes are durable in
\* history (store_root syncs before the head is published, also when it reuses
\* bytes an earlier failed call renamed), except one a rollback selected:
\* post_rollback only checks that the bytes are readable.
SelectedRootSurvives ==
    \A h \in survives \cap Heads :
        h.root # None => h.root \in durable \cup rolledTo

\* Replacing the head changes at most the receipt of the calling device, and
\* that one only to the next sequence: legacy pushes, rollbacks and the other
\* devices' commits carry every receipt over (set_current_root).
ReceiptsCarriedOver ==
    [][current' # current /\ call' # None =>
          \A d \in Device :
              LET old == ReadHead.receipts[d]
                  new == current'.receipts[d]
              IN  new # old => /\ d = call.device
                               /\ new.sequence = NextSequence(ReadHead, d)]_vars
=============================================================================
