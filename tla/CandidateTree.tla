--------------------------- MODULE CandidateTree ---------------------------
(***************************************************************************)
(* The device's Merkle index as content: which index chunks its in-memory  *)
(* store holds, which of them a push uploads, and whether the server can   *)
(* walk the root it is then given (sync-core transactional_tree.rs,        *)
(* store.rs and tree.rs; plugin push.ts, pull.ts and sync.ts; server       *)
(* api.rs).                                                                *)
(*                                                                         *)
(* A tree maps every path to a row (Absent: no file).  Its index is one    *)
(* chunk per leaf that holds a file and one node over the leaves; a chunk  *)
(* is named by what it holds, which stands for its hash.  The store keeps  *)
(* for every chunk the generation in which it was first inserted; opening  *)
(* a candidate pins the current generation (cut), and the chunks born      *)
(* after the cut are the `fresh' ones.  A push uploads the fresh chunks    *)
(* only, unless it has no base root.                                       *)
(***************************************************************************)
EXTENDS Naturals, FiniteSets

CONSTANTS
  Path, LeafName, LeafOf,   \* the files, and the leaf chunk each one falls in
  Row, Absent,              \* index rows: hash, size and mtime of a file; no file
  NoTree,                   \* no root
  MaxPushes,                \* bound: candidates this device opens for a push
  MaxPulls,                 \* bound: pulls of this device that apply a change
  MaxRemote,                \* bound: roots other devices publish
  MaxRebuilds               \* bound: rebuilds of the tree from the sync base

CandidateTreeAssumption ==
  /\ LeafOf \in [Path -> LeafName]
  /\ Absent \in Row
  /\ NoTree \notin [Path -> Row]
  /\ {MaxPushes, MaxPulls, MaxRemote, MaxRebuilds} \subseteq Nat

VARIABLES
  native,   \* TransactionalTree: committed and candidate root, chunk store
  client,   \* sync engine: base root, push block, step of the push, plan
  remote,   \* server: current root and the index chunks it stores
  spent     \* how much of each bound is used

candidateVars == <<native, client, remote, spent>>

Tree == [Path -> Row]
Empty == [p \in Path |-> Absent]

-----------------------------------------------------------------------------
(* The index of a tree and the chunk store.                                *)

\* The leaf chunk of leaf l: the rows of the files in it.
LeafChunk(t, l) ==
  [rows |-> {<<p, t[p]>> : p \in {q \in Path : LeafOf[q] = l /\ t[q] # Absent}}]

Leaves(t) == {LeafChunk(t, l) : l \in {LeafOf[p] : p \in {q \in Path : t[q] # Absent}}}

\* The node over the leaves names them by hash.
InternalNode(t) == [leaves |-> Leaves(t)]

\* Every chunk a walk from the root reads (mark_reachable_chunks).
Reachable(t) ==
  IF t = NoTree \/ t = Empty THEN {} ELSE Leaves(t) \cup {InternalNode(t)}

\* Insert chunks; one that is resident keeps its birth generation.
Insert(store, gen, chunks) ==
  [c \in DOMAIN store \cup chunks |-> IF c \in DOMAIN store THEN store[c] ELSE gen]

\* Drop every chunk that is not marked.
Retain(store, marked) == [c \in DOMAIN store \cap marked |-> store[c]]

\* Chunks of the candidate born after its cut.
Fresh(n) == {c \in Reachable(n.candidate) : n.store[c] > n.cut}

-----------------------------------------------------------------------------
(* TransactionalTree: one candidate over one committed root.               *)

\* A store freshly built from entries, in generation 0.
Rebuilt(t) ==
  [committed |-> t, candidate |-> NoTree, gen |-> 0, cut |-> 0,
   store |-> Insert(<<>>, 0, Reachable(t))]

\* Validate the committed graph, pin the generation, copy the root.
CanOpen(n) ==
  /\ n.candidate = NoTree
  /\ n.committed # NoTree
  /\ Reachable(n.committed) \subseteq DOMAIN n.store

OpenCandidate(n) ==
  [n EXCEPT !.candidate = n.committed, !.cut = n.gen, !.gen = @ + 1]

\* Stage the new nodes beside the store and promote them together.
Mutated(n, rows) ==
  LET t == [p \in Path |-> IF p \in DOMAIN rows THEN rows[p] ELSE n.candidate[p]]
  IN  [n EXCEPT !.candidate = t, !.store = Insert(@, n.gen, Reachable(t))]

\* Mutant: commit sweeps before it promotes, keeping the old graph.
BugCommitCandidate(n) ==
  [n EXCEPT !.committed = n.candidate, !.candidate = NoTree,
            !.store = Retain(@, Reachable(n.committed))]

CommitCandidate(n) ==
  [n EXCEPT !.committed = n.candidate, !.candidate = NoTree,
            !.store = Retain(@, Reachable(n.candidate))]

\* Mutant: an aborted candidate leaves its chunks in the store.
BugAbortCandidate(n) == [n EXCEPT !.candidate = NoTree]

AbortCandidate(n) ==
  [n EXCEPT !.candidate = NoTree, !.store = Retain(@, Reachable(n.committed))]

\* Pull: the same three steps in one owner turn.
ApplyCommitted(n, rows) == CommitCandidate(Mutated(OpenCandidate(n), rows))

-----------------------------------------------------------------------------
(* Push: open, mutate, plan, upload the index, submit, settle.             *)

Spend(bound) == spent' = [spent EXCEPT ![bound] = @ + 1]

\* pushPendingInner's guards: pushes blocked, or a server root is known and
\* there is no verified base to name as its parent.
MayPush == ~client.blocked /\ (client.base = NoTree => ~client.known)

Open ==
  /\ client.push = "idle" /\ MayPush /\ CanOpen(native)
  /\ spent.pushes < MaxPushes
  /\ native' = OpenCandidate(native)
  /\ client' = [client EXCEPT !.push = "delete"]
  /\ Spend("pushes")
  /\ UNCHANGED remote

\* candidate_delete_batch, skipped when there is nothing to delete.
DeleteBatch(paths) ==
  /\ client.push = "delete"
  /\ paths \subseteq {p \in Path : native.candidate[p] # Absent}
  /\ native' = Mutated(native, [p \in paths |-> Absent])
  /\ client' = [client EXCEPT !.push = "upsert"]
  /\ UNCHANGED <<remote, spent>>

\* candidate_update_batch; the change set is not empty.
UpsertBatch(rows) ==
  /\ client.push = "upsert"
  /\ \A p \in DOMAIN rows : rows[p] # Absent
  /\ native' = Mutated(native, rows)
  /\ native'.candidate # native.committed
  /\ client' = [client EXCEPT !.push = "plan"]
  /\ UNCHANGED <<remote, spent>>

\* Check the page of index hashes; without a base root, every one of them.
PlanIndex ==
  /\ client.push = "plan"
  /\ LET wanted == IF client.base = NoTree THEN Reachable(native.candidate)
                   ELSE Fresh(native)
     IN client' = [client EXCEPT !.push = "upload", !.need = wanted \ remote.chunks]
  /\ UNCHANGED <<native, remote, spent>>

UploadChunk(c) ==
  /\ client.push = "upload" /\ c \in client.need
  /\ remote' = [remote EXCEPT !.chunks = @ \cup {c}]
  /\ client' = [client EXCEPT !.need = @ \ {c}]
  /\ UNCHANGED <<native, spent>>

Uploaded ==
  /\ client.push = "upload" /\ client.need = {}
  /\ client' = [client EXCEPT !.push = "submit"]
  /\ UNCHANGED <<native, remote, spent>>

\* The server's three-way merge, path by path; on a conflict its own side
\* keeps the path (the other one becomes a conflict copy, see TreeMerge).
Merged(base, ours, theirs) ==
  [p \in Path |-> IF theirs[p] = base[p] THEN ours[p] ELSE theirs[p]]

\* publish_root: the walk over the candidate's index, then the parent.
Publishable ==
  /\ Reachable(native.candidate) \subseteq remote.chunks
  /\ remote.root # NoTree => client.base # NoTree

\* The published root becomes the device's base, and its tree commits.
Accept ==
  /\ client.push = "submit" /\ Publishable
  /\ LET root == IF remote.root \in {NoTree, client.base} THEN native.candidate
                 ELSE Merged(client.base, native.candidate, remote.root)
     IN remote' = [root |-> root, chunks |-> remote.chunks \cup Reachable(root)]
  /\ client' = [client EXCEPT !.push = "idle", !.base = native.candidate, !.known = TRUE]
  /\ native' = CommitCandidate(native)
  /\ UNCHANGED spent

Reject ==
  /\ client.push = "submit" /\ ~Publishable
  /\ client' = [client EXCEPT !.push = "idle"]
  /\ native' = AbortCandidate(native)
  /\ UNCHANGED <<remote, spent>>

\* A failed read, request or turn check: the push's catch aborts.
PushFails ==
  /\ client.push # "idle"
  /\ client' = [client EXCEPT !.push = "idle", !.need = {}]
  /\ native' = AbortCandidate(native)
  /\ UNCHANGED <<remote, spent>>

-----------------------------------------------------------------------------
(* Pull, repair and the other devices.                                     *)

\* The paths the server's diff from the device's base names.
Delta ==
  LET base == IF client.base = NoTree THEN Empty ELSE client.base
  IN  {p \in Path : remote.root[p] # base[p]}

\* adoptPullResult, after every delta was applied: on parity the server's
\* root is the new base; without it, downloaded content blocks pushes and
\* a pull that only verified local files adopts the root all the same.
Adopted(tree, applied, downloaded) ==
  CASE tree = remote.root -> [client EXCEPT !.base = remote.root, !.blocked = FALSE]
    [] tree # remote.root /\ applied # {} /\ downloaded -> [client EXCEPT !.blocked = TRUE]
    [] tree # remote.root /\ (applied # {} => ~downloaded)
         /\ (client.base = NoTree \/ applied # {}) ->
         [client EXCEPT !.base = remote.root, !.blocked = FALSE]
    [] OTHER -> client

\* Apply the deltas in `applied`; the others wait for a local edit, a failed
\* download or the sync rules, and hold the base root where it is.
Pull(applied, downloaded) ==
  /\ client.push = "idle" /\ remote.root # NoTree
  /\ spent.pulls < MaxPulls
  /\ applied \subseteq Delta
  /\ native' = IF applied = {} THEN native
               ELSE ApplyCommitted(native, [p \in applied |-> remote.root[p]])
  /\ client' = [(IF applied = Delta THEN Adopted(native'.committed, applied, downloaded)
                 ELSE client) EXCEPT !.known = TRUE]
  /\ Spend("pulls")
  /\ UNCHANGED remote

\* Restart or repair: the tree is rebuilt from the sync base, which moves in
\* lockstep with the committed tree; an open push is lost.
Rebuild ==
  /\ spent.rebuilds < MaxRebuilds
  /\ native' = Rebuilt(native.committed)
  /\ client' = [client EXCEPT !.push = "idle", !.need = {}, !.blocked = FALSE]
  /\ Spend("rebuilds")
  /\ UNCHANGED remote

\* Another device publishes a root.
RemotePublish(t) ==
  /\ spent.remote < MaxRemote
  /\ t # remote.root
  /\ remote' = [root |-> t, chunks |-> remote.chunks \cup Reachable(t)]
  /\ Spend("remote")
  /\ UNCHANGED <<native, client>>

-----------------------------------------------------------------------------
CandidateInit ==
  /\ native = Rebuilt(Empty)
  /\ client = [base |-> NoTree, known |-> FALSE, blocked |-> FALSE,
               push |-> "idle", need |-> {}]
  /\ remote = [root |-> NoTree, chunks |-> {}]
  /\ spent = [pushes |-> 0, pulls |-> 0, remote |-> 0, rebuilds |-> 0]

PushStep ==
  \/ Open \/ PlanIndex \/ Uploaded \/ Accept \/ Reject \/ PushFails
  \/ \E paths \in SUBSET Path : DeleteBatch(paths)
  \/ \E paths \in SUBSET Path : \E rows \in [paths -> Row] : UpsertBatch(rows)
  \/ \E c \in client.need : UploadChunk(c)

CandidateNext ==
  \/ PushStep
  \/ \E applied \in SUBSET Path, downloaded \in BOOLEAN : Pull(applied, downloaded)
  \/ Rebuild
  \/ \E t \in Tree : RemotePublish(t)

CandidateSpec == CandidateInit /\ [][CandidateNext]_candidateVars

-----------------------------------------------------------------------------
(* What the index upload owes the server.                                  *)

\* Uploading only the chunks born after the candidate's cut is enough: if
\* the server holds the committed tree's index, then at submission it holds
\* every chunk of the candidate (push.ts onPage, store.rs is_fresh_since).
FreshCompletes ==
  client.push = "submit" /\ Reachable(native.committed) \subseteq remote.chunks =>
    Reachable(native.candidate) \subseteq remote.chunks

\* A sweep never takes a chunk of a live root, and outside a candidate it
\* leaves nothing but the committed graph (commit_candidate, abort_candidate).
GraphsAreResident ==
  /\ Reachable(native.committed) \cup Reachable(native.candidate) \subseteq DOMAIN native.store
  /\ native.candidate = NoTree => DOMAIN native.store = Reachable(native.committed)

\* Both: sending only the chunks a candidate made is enough when the server has the
\* tree it was made from, and no sweep takes one of them or leaves another.
FreshSuffices == FreshCompletes /\ GraphsAreResident
============================================================================
