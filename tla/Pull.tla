-------------------------------- MODULE Pull --------------------------------
(***************************************************************************)
(* A device catches up with the vault's root (plugin pull.ts, the pull and *)
(* adoption parts of sync.ts; server diff.rs, diff_page.rs and post_diff). *)
(*                                                                         *)
(* A root is a function from paths to versions (0: no file); a version is  *)
(* an entry with its content hash and its time, so two versions may have   *)
(* the same hash.  A file on the disk has a content and a stamp, which     *)
(* stands for its modification time and size: every write gives it a new   *)
(* one.  The local Merkle tree is rebased with the base at the end of      *)
(* every page and rebuilt from it after a restart: it is TreeOf(mem.base). *)
(*                                                                         *)
(* `waiting` are the paths with unsynced local changes (dirty set and      *)
(* journal), `typing` those whose editor changed during this pull.         *)
(***************************************************************************)
EXTENDS Integers, FiniteSets

CONSTANTS
    Path,            \* paths, as numbers: pages are in path order
    Root,            \* the roots the server may publish or be rolled back to
    ContentOf,       \* the content hash of a version
    Mine,            \* the contents the user writes, and nobody else
    Ignored,         \* paths the ignore rules exclude
    Big,             \* paths whose files cannot be read to be hashed (large, on mobile)
    PageSize,        \* records in a page of the diff
    Starts,          \* the roots the device may start from (NoRoot: never synced)
    Modes,           \* {TRUE}: the server pages its diffs; {FALSE}: it does not
    NoRoot,
    MaxMoves, MaxEdits, MaxCrashes,
    MaxStamp         \* bound: stamps; there are more than can be in use at once

Versions == {0} \cup DOMAIN ContentOf

ASSUME PullAssumption ==
    /\ Path \subseteq Nat \ {0}
    /\ \A S \in SUBSET Path : S # {} => \E p \in S : \A q \in S : q <= p
    /\ DOMAIN ContentOf \subseteq Nat
    /\ Root \subseteq [Path -> Versions]
    /\ NoRoot \notin Root /\ Starts \subseteq Root \cup {NoRoot}
    /\ "none" \notin Mine /\ \A v \in DOMAIN ContentOf : ContentOf[v] \notin Mine
    /\ Modes \subseteq BOOLEAN

VARIABLES
    head,            \* the server's current root
    paged,           \* supportsPagedDiff
    vault,           \* the vault: [h, s] per path
    copies,          \* contents moved aside as conflict copies
    markers,         \* rename checkpoints on the disk
    mem, saved,      \* the sync base in memory and on the disk
    pull,            \* the pull under way
    waiting, typing, blocked, up,
    moves, edits, crashes

device == <<vault, copies, markers, mem, saved, pull, waiting, typing, blocked, up>>
pullVars == <<head, paged, device, moves, edits, crashes>>

Zero == [p \in Path |-> 0]
Hash(v) == IF v = 0 THEN "none" ELSE ContentOf[v]
NoFile == [h |-> "none", s |-> 0]
NoEntry == [v |-> 0, s |-> 0]

\* A modification time and size no record of the path mentions.
Stamps == {vault[p].s : p \in Path} \cup {mem.base[p].s : p \in Path} \cup {saved.base[p].s : p \in Path}
FreeStamps == (1 .. MaxStamp) \ Stamps
Fresh == CHOOSE s \in FreeStamps : TRUE

TreeOf(base) == [p \in Path |-> base[p].v]

-----------------------------------------------------------------------------
(* The server's diff.                                                       *)

Upsert(p, v) == [kind |-> "upsert", path |-> p, old |-> p, v |-> v]
Delete(p) == [kind |-> "delete", path |-> p, old |-> p, v |-> 0]
Renaming(o, p, v) == [kind |-> "rename", path |-> p, old |-> o, v |-> v]

\* diff_entries and detect_renames: one deletion and one addition that share a
\* hash with no other become a rename.
Diff(f, t) ==
    LET gone == {p \in Path : f[p] # 0 /\ t[p] = 0}
        new == {p \in Path : f[p] = 0 /\ t[p] # 0}
        same(o, p) == Hash(f[o]) = Hash(t[p])
        moved == {m \in gone \X new :
                    /\ same(m[1], m[2])
                    /\ \A o \in gone \ {m[1]} : ~same(o, m[2])
                    /\ \A p \in new \ {m[2]} : ~same(m[1], p)}
    IN  {Renaming(m[1], m[2], t[m[2]]) : m \in moved}
        \cup {Delete(o) : o \in gone \ {m[1] : m \in moved}}
        \cup {Upsert(p, t[p]) : p \in new \ {m[2] : m \in moved}}
        \cup {Upsert(p, t[p]) : p \in {q \in Path : f[q] # 0 /\ t[q] # 0 /\ f[q] # t[q]}}

\* encode_page: the records after the cursor, at most PageSize of them.
PageAfter(deltas, cursor) ==
    LET rest == {d \in deltas : d.path > cursor}
        upTo(d) == {e \in rest : e.path <= d.path}
    IN  {d \in rest : \A e \in upTo(d) : Cardinality(upTo(e)) <= PageSize}

\* splitIgnored: what is applied, what is only untracked, and whether an upsert
\* was left out.
Kept(deltas) ==
    {d \in deltas : d.path \notin Ignored /\ d.old \notin Ignored}
    \cup {Upsert(d.path, d.v) : d \in {e \in deltas : e.kind = "rename" /\ e.old \in Ignored
                                                    /\ e.path \notin Ignored}}
Untracked(deltas) ==
    {d.old : d \in {e \in deltas : e.path \in Ignored /\ e.kind # "upsert"}}
Omits(deltas) == \E d \in deltas : d.path \in Ignored /\ d.kind # "delete"

-----------------------------------------------------------------------------
NoPull == [pc |-> "idle", st |-> <<>>]

\* DiffPageCheckpoint.
NoCheckpoint == [from |-> NoRoot, to |-> NoRoot, cursor |-> 0, complete |-> FALSE,
                 applied |-> FALSE, downloaded |-> FALSE]

PullInit ==
    /\ head \in Root
    /\ paged \in Modes
    /\ \E r \in Starts :
         LET t == IF r = NoRoot THEN Zero ELSE r
         IN  /\ vault = [p \in Path |-> IF t[p] = 0 THEN NoFile ELSE [h |-> Hash(t[p]), s |-> 1]]
             /\ mem = [base |-> [p \in Path |-> IF t[p] = 0 THEN NoEntry ELSE [v |-> t[p], s |-> 1]],
                       treeBase |-> r, checkpoint |-> NoCheckpoint, fence |-> FALSE]
    /\ saved = mem
    /\ copies = {} /\ markers = {} /\ pull = NoPull
    /\ waiting = {} /\ typing = {} /\ blocked = FALSE /\ up = TRUE
    /\ moves = 0 /\ edits = 0 /\ crashes = 0

\* PullPathGuard.
Guarded(d) == {d.path, d.old} \cap (waiting \cup typing) # {}

\* pullRemoteInner, pull, pullPagedIfSupported: diff from the verified base, and
\* resume the durable cursor if it belongs to that base.
StartPull ==
    LET cp == mem.checkpoint
        resumes == paged /\ cp # NoCheckpoint /\ cp.from = mem.treeBase
    IN  /\ up /\ pull = NoPull
        /\ pull' = [pc |-> IF resumes /\ cp.complete THEN "root" ELSE "fetch",
                    from |-> mem.treeBase,
                    to |-> IF resumes THEN cp.to ELSE NoRoot, root |-> NoRoot,
                    cursor |-> IF resumes THEN cp.cursor ELSE 0,
                    complete |-> resumes /\ cp.complete,
                    st |-> <<>>, last |-> 0,
                    retried |-> {}, deferred |-> FALSE, omitted |-> FALSE,
                    applied |-> resumes /\ cp.applied, downloaded |-> resumes /\ cp.downloaded]
        /\ mem' = IF resumes THEN mem ELSE [mem EXCEPT !.checkpoint = NoCheckpoint]
        /\ saved' = IF resumes \/ cp = NoCheckpoint THEN saved ELSE mem'
        /\ typing' = {}
        /\ UNCHANGED <<vault, copies, markers, waiting, blocked, up>>

\* getDiffPage or getDiff answers.  The first page fixes the target; a device that
\* never synced persists its fence before any file work.
Fetch ==
    /\ pull.pc = "fetch"
    /\ LET to == IF pull.to = NoRoot THEN head ELSE pull.to
           all == Diff(IF pull.from = NoRoot THEN Zero ELSE pull.from, to)
           page == IF paged THEN PageAfter(all, pull.cursor) ELSE all
           left == {d \in all : d.path > pull.cursor} \ page
           fenced == [mem EXCEPT !.fence = @ \/ (pull.from = NoRoot /\ (paged \/ all # {}))]
       IN  /\ pull' = [pull EXCEPT !.pc = "apply", !.to = to,
                         !.st = [d \in Kept(page) |-> "new"],
                         !.last = IF page = {} THEN pull.cursor
                                  ELSE (CHOOSE d \in page : \A e \in page : e.path <= d.path).path,
                         !.complete = left = {}, !.retried = {},
                         !.omitted = @ \/ Omits(page)]
           /\ saved' = IF fenced = mem THEN saved ELSE fenced
           /\ mem' = [fenced EXCEPT !.base = [p \in Path |-> IF p \in Untracked(page)
                                                            THEN NoEntry ELSE @[p]]]
    /\ UNCHANGED <<vault, copies, markers, waiting, typing, blocked, up>>

\* A request of the pull fails: the pull ends, what it applied stays.
FailPull ==
    /\ pull.pc = "fetch" \/ (pull.pc = "root" /\ paged)
    /\ pull' = NoPull
    /\ typing' = {}
    /\ UNCHANGED <<vault, copies, markers, mem, saved, waiting, blocked, up>>

-----------------------------------------------------------------------------
(* applyDeltas: renames, deletions, small files in a batch, large files one  *)
(* by one, then once more what failed.                                       *)

Settled == {"done", "deferred"}
Busy == {"ready", "keep", "clear", "written"}
Pass(d) ==
    CASE d.kind = "rename" -> 1
      [] d.kind = "delete" -> 2
      [] d \in pull.retried -> 5
      [] d.path \in Big -> 4
      [] OTHER -> 3

\* A pass starts when the one before has settled; only the small files of a batch
\* are under way together.
Turn(d, status) ==
    /\ pull.pc = "apply" /\ d \in DOMAIN pull.st /\ pull.st[d] = status
    /\ \A e \in DOMAIN pull.st \ {d} :
          CASE Pass(e) < Pass(d) -> pull.st[e] \in Settled
            [] Pass(e) > Pass(d) \/ Pass(d) = 3 -> TRUE
            [] Pass(d) = 5 -> pull.st[e] \notin Busy
            [] OTHER -> e.path < d.path => pull.st[e] \in Settled
Becomes(d, status) == pull' = [pull EXCEPT !.st[d] = status]

\* The checkpoint after the last member of a pass, and after every large file and
\* every retry.
SaveAfter(d) ==
    LET over == \A e \in DOMAIN pull.st : Pass(e) = Pass(d) => pull'.st[e] \in Settled
        deleted == \E e \in DOMAIN pull.st : Pass(e) = 2 /\ pull'.st[e] = "done"
    IN  saved' = IF CASE Pass(d) = 2 -> over /\ deleted
                      [] Pass(d) = 3 -> over
                      [] OTHER -> pull'.st[d] = "done" \/ (Pass(d) = 4 /\ over)
                 THEN mem' ELSE saved

\* oldBase.mtime = stat.mtime and size, and the recorded hash is the wanted one.
StatMatches(p, entry) == vault[p] # NoFile /\ entry # NoEntry /\ vault[p].s = entry.s
Hashes(p, h) == p \notin Big /\ vault[p] # NoFile /\ vault[p].h = h
Marker(d) == [old |-> d.old, path |-> d.path, h |-> Hash(d.v)]

\* The source is there and unchanged, the target free: write the marker, or find
\* that an interrupted run has moved the file already.
CheckRename(d) ==
    LET old == mem.base[d.old]
        source == \/ StatMatches(d.old, old) /\ Hash(old.v) = Hash(d.v)
                  \/ Hashes(d.old, Hash(d.v))
        target == \/ StatMatches(d.path, mem.base[d.path]) /\ Hash(mem.base[d.path].v) = Hash(d.v)
                  \/ Hashes(d.path, Hash(d.v))
                  \/ /\ Marker(d) \in markers
                     /\ StatMatches(d.path, old) /\ Hash(old.v) = Hash(d.v)
        present == vault[d.old] # NoFile
    IN  /\ Turn(d, "new") /\ d.kind = "rename"
        /\ IF Guarded(d) \/ (present /\ ~(vault[d.path] = NoFile /\ source)) \/ (~present /\ ~target)
           THEN Becomes(d, "deferred") /\ UNCHANGED markers
           ELSE /\ Becomes(d, IF present THEN "marked" ELSE "moved")
                /\ markers' = IF present THEN markers \cup {Marker(d)} ELSE markers
        /\ UNCHANGED <<vault, copies, mem, saved, waiting, typing, blocked, up>>

\* The guard and the target are looked at again, then the file is moved.
MoveFile(d) ==
    /\ Turn(d, "marked")
    /\ IF Guarded(d) \/ vault[d.path] # NoFile
       THEN /\ Becomes(d, "deferred")
            /\ markers' = markers \ {Marker(d)}
            /\ UNCHANGED vault
       ELSE /\ vault' = [vault EXCEPT ![d.path] = vault[d.old], ![d.old] = NoFile]
            /\ Becomes(d, "moved")
            /\ UNCHANGED markers
    /\ UNCHANGED <<copies, mem, saved, waiting, typing, blocked, up>>

\* The base follows and is checkpointed at once; then the marker goes.
RecordRename(d) ==
    /\ Turn(d, "moved")
    /\ mem' = [mem EXCEPT !.base = [@ EXCEPT ![d.old] = NoEntry,
                                             ![d.path] = [v |-> d.v, s |-> vault[d.path].s]]]
    /\ saved' = mem'
    /\ markers' = markers \ {Marker(d)}
    /\ pull' = [pull EXCEPT !.st[d] = "done", !.applied = TRUE]
    /\ UNCHANGED <<vault, copies, waiting, typing, blocked, up>>

\* diskStillMatchesDeleteBase.
DiskStillMatchesDeleteBase(p) ==
    \/ vault[p] = NoFile
    \/ mem.base[p] # NoEntry /\ (StatMatches(p, mem.base[p]) \/ Hashes(p, Hash(mem.base[p].v)))

CheckDelete(d) ==
    /\ Turn(d, "new") /\ d.kind = "delete"
    /\ Becomes(d, IF ~Guarded(d) /\ DiskStillMatchesDeleteBase(d.path) THEN "verified" ELSE "deferred")
    /\ UNCHANGED <<vault, copies, markers, mem, waiting, typing, blocked, up>>
    /\ SaveAfter(d)

DeleteFile(d) ==
    /\ Turn(d, "verified")
    /\ IF Guarded(d)
       THEN Becomes(d, "deferred") /\ UNCHANGED <<vault, mem>>
       ELSE /\ vault' = [vault EXCEPT ![d.path] = NoFile]
            /\ mem' = [mem EXCEPT !.base[d.path] = NoEntry]
            /\ pull' = [pull EXCEPT !.st[d] = "done", !.applied = TRUE]
    /\ UNCHANGED <<copies, markers, waiting, typing, blocked, up>>
    /\ SaveAfter(d)

\* preserveExisting: the file is there and is not the one the base describes.
\* Mutant: a file that is not the base's is overwritten like one that is.
BugPreserveExisting(p) == FALSE
PreserveExisting(p) ==
    /\ vault[p] # NoFile
    /\ ~Hashes(p, Hash(mem.base[p].v))
    /\ ~(p \in Big /\ StatMatches(p, mem.base[p]))

\* prepareContentDelta: the base and the disk agree with the delta, or the file on
\* the disk does; else download.
Prepare(d) ==
    LET entry == mem.base[d.path]
        hit == \/ StatMatches(d.path, entry) /\ Hash(entry.v) = Hash(d.v)
               \/ Hashes(d.path, Hash(d.v))
    IN  /\ Turn(d, "new") /\ d.kind = "upsert"
        /\ IF Guarded(d) \/ ~hit
           THEN /\ Becomes(d, IF Guarded(d) THEN "deferred"
                              ELSE IF PreserveExisting(d.path) THEN "keep" ELSE "ready")
                /\ UNCHANGED mem
           ELSE /\ mem' = [mem EXCEPT !.base[d.path] = [v |-> d.v, s |-> vault[d.path].s]]
                /\ pull' = [pull EXCEPT !.st[d] = "done", !.applied = TRUE]
        /\ UNCHANGED <<vault, copies, markers, waiting, typing, blocked, up>>
        /\ SaveAfter(d)

\* All of a batch is prepared before any of it is downloaded.
Downloaded(d) == Pass(d) = 3 => \A e \in DOMAIN pull.st : Pass(e) = 3 => pull.st[e] # "new"

\* finishContentDownload and applyLargeFile: look at the guard again, move a file
\* that must be kept aside, write.
MoveAside(d) ==
    /\ Turn(d, "keep") /\ Downloaded(d)
    /\ IF Guarded(d)
       THEN Becomes(d, "deferred") /\ UNCHANGED <<vault, copies>>
       ELSE /\ copies' = copies \cup ({vault[d.path].h} \ {"none"})
            /\ vault' = [vault EXCEPT ![d.path] = NoFile]
            /\ Becomes(d, "clear")
    /\ UNCHANGED <<markers, mem, waiting, typing, blocked, up>>
    /\ SaveAfter(d)

Write(d) ==
    /\ Turn(d, "ready") \/ Turn(d, "clear")
    /\ Downloaded(d)
    /\ IF Guarded(d) /\ pull.st[d] = "ready"
       THEN Becomes(d, "deferred") /\ UNCHANGED vault
       ELSE /\ FreeStamps # {}
            /\ vault' = [vault EXCEPT ![d.path] = [h |-> Hash(d.v), s |-> Fresh]]
            /\ pull' = [pull EXCEPT !.st[d] = "written", !.downloaded = TRUE]
    /\ UNCHANGED <<copies, markers, mem, waiting, typing, blocked, up>>
    /\ SaveAfter(d)

\* The base records the new hash with whatever stat the file has by now.
SetEntry(d) ==
    /\ Turn(d, "written")
    /\ mem' = [mem EXCEPT !.base[d.path] = [v |-> d.v, s |-> vault[d.path].s]]
    /\ pull' = [pull EXCEPT !.st[d] = "done", !.applied = TRUE]
    /\ UNCHANGED <<vault, copies, markers, waiting, typing, blocked, up>>
    /\ SaveAfter(d)

\* The download of a batch fails, or the work on one file; it is tried once more.
Fails(batch) ==
    /\ pull' = [pull EXCEPT !.st = [d \in DOMAIN @ |-> IF d \notin batch THEN @[d]
                                                       ELSE IF d \in pull.retried THEN "deferred"
                                                       ELSE "new"],
                            !.retried = @ \cup batch]
    /\ saved' = IF \E d \in batch : Pass(d) \in {3, 4}
                   /\ \A e \in DOMAIN pull.st \ batch : Pass(e) = Pass(d) => pull.st[e] \in Settled
                THEN mem ELSE saved
    /\ UNCHANGED <<vault, copies, markers, mem, waiting, typing, blocked, up>>
BatchFails ==
    LET batch == {d \in DOMAIN pull.st : Pass(d) = 3 /\ pull.st[d] \in {"ready", "keep"}}
    IN  /\ pull.pc = "apply" /\ batch # {}
        /\ \A d \in DOMAIN pull.st : Pass(d) = 3 => pull.st[d] \in {"ready", "keep"} \cup Settled
        /\ Fails(batch)
FileFails(d) ==
    /\ \E status \in {"ready", "keep", "clear"} : Turn(d, status)
    /\ Downloaded(d) /\ Fails({d})

-----------------------------------------------------------------------------
CheckpointOfPage ==
    [from |-> pull.from, to |-> pull.to, cursor |-> pull.last, complete |-> pull.complete,
     applied |-> pull.applied, downloaded |-> pull.downloaded]

\* Mutant: a page with deferred files moves the durable cursor all the same.
BugDurableCursorAllowed(late) == TRUE
DurableCursorAllowed(late) == ~late /\ ~pull.deferred /\ ~pull.omitted

\* The page is settled: the tree is rebased, and the cursor goes to the disk with
\* the entries it covers, unless something was left out.
EndPage ==
    LET late == \E d \in DOMAIN pull.st : pull.st[d] = "deferred"
    IN  /\ pull.pc = "apply" /\ \A d \in DOMAIN pull.st : pull.st[d] \in Settled
        /\ pull' = [pull EXCEPT !.pc = IF pull.complete \/ ~paged THEN "root" ELSE "fetch",
                                !.cursor = pull.last, !.deferred = @ \/ late]
        /\ mem' = IF paged /\ DurableCursorAllowed(late)
                  THEN [mem EXCEPT !.checkpoint = CheckpointOfPage] ELSE mem
        /\ saved' = mem'
        /\ UNCHANGED <<vault, copies, markers, waiting, typing, blocked, up>>

\* getRootAt names the pinned root; getRoot, on a server without pages, whatever
\* root is current by now, and if it fails the old one stands in.  A pull that left
\* something out forgets its cursor.
ReadRoot ==
    /\ pull.pc = "root"
    /\ \E r \in IF paged THEN {pull.to} ELSE {head, pull.from} :
          pull' = [pull EXCEPT !.pc = "adopt", !.root = r]
    /\ mem' = IF pull.deferred \/ pull.omitted THEN [mem EXCEPT !.checkpoint = NoCheckpoint] ELSE mem
    /\ saved' = mem'
    /\ UNCHANGED <<vault, copies, markers, waiting, typing, blocked, up>>

\* adoptPullResult: the verified base moves to a root the tree reproduces, or to one
\* whose content was all found on the disk; the cursor is cleared with it.
AdoptPullResult ==
    LET whole == ~pull.deferred /\ ~pull.omitted /\ pull.root # NoRoot
        parity == pull.root = TreeOf(mem.base)
        adopts == /\ whole
                  /\ \/ parity
                     \/ ~pull.downloaded /\ (mem.treeBase = NoRoot \/ pull.applied)
        diverged == whole /\ ~parity /\ pull.applied /\ pull.downloaded
    IN  /\ pull.pc = "adopt"
        /\ mem' = IF adopts
                  THEN [mem EXCEPT !.treeBase = pull.root, !.checkpoint = NoCheckpoint, !.fence = FALSE]
                  ELSE [mem EXCEPT !.checkpoint = NoCheckpoint]
        /\ saved' = mem'
        /\ blocked' = IF adopts THEN FALSE ELSE blocked \/ diverged
        /\ pull' = NoPull /\ typing' = {}
        /\ UNCHANGED <<vault, copies, markers, waiting, up>>

-----------------------------------------------------------------------------
\* Another device publishes, or the vault is rolled back.
MoveHead(r) ==
    /\ moves < MaxMoves /\ r # head
    /\ head' = r /\ moves' = moves + 1
    /\ UNCHANGED <<paged, device, edits, crashes>>

\* The user saves a file: its event puts the path under the guard at once.
UserSaves(p, m) ==
    /\ edits < MaxEdits /\ up /\ FreeStamps # {}
    /\ m \notin {vault[q].h : q \in Path} \cup copies
    /\ vault' = [vault EXCEPT ![p] = [h |-> m, s |-> Fresh]]
    /\ waiting' = waiting \cup {p} /\ edits' = edits + 1
    /\ UNCHANGED <<head, paged, copies, markers, mem, saved, pull, typing, blocked, up, moves, crashes>>

\* A file changes while the plugin is not running: nothing records it.
EditOffline(p, m) ==
    /\ edits < MaxEdits /\ ~up /\ FreeStamps # {}
    /\ m \notin {vault[q].h : q \in Path} \cup copies
    /\ vault' = [vault EXCEPT ![p] = [h |-> m, s |-> Fresh]]
    /\ edits' = edits + 1
    /\ UNCHANGED <<head, paged, copies, markers, mem, saved, pull, waiting, typing, blocked, up,
                   moves, crashes>>

\* EditorPullGuard: a change in an editor protects its path until the pull ends.
Type(p) ==
    /\ pull # NoPull /\ p \notin typing /\ edits < MaxEdits
    /\ typing' = typing \cup {p} /\ edits' = edits + 1
    /\ UNCHANGED <<head, paged, vault, copies, markers, mem, saved, pull, waiting, blocked, up,
                   moves, crashes>>

\* The renderer is killed: the journal keeps the pending paths, the base on the disk
\* is the one of the last checkpoint.
Crash ==
    /\ crashes < MaxCrashes /\ up
    /\ up' = FALSE /\ crashes' = crashes + 1
    /\ pull' = NoPull /\ typing' = {} /\ mem' = saved /\ blocked' = FALSE
    /\ UNCHANGED <<head, paged, vault, copies, markers, saved, waiting, moves, edits>>

Restart ==
    /\ ~up /\ up' = TRUE
    /\ UNCHANGED <<head, paged, vault, copies, markers, mem, saved, pull, waiting, typing, blocked,
                   moves, edits, crashes>>

Step ==
    \/ StartPull \/ Fetch \/ FailPull \/ BatchFails \/ EndPage \/ ReadRoot \/ AdoptPullResult
    \/ pull.pc = "apply" /\ \E d \in DOMAIN pull.st :
         \/ CheckRename(d) \/ MoveFile(d) \/ RecordRename(d)
         \/ CheckDelete(d) \/ DeleteFile(d)
         \/ Prepare(d) \/ MoveAside(d) \/ Write(d) \/ SetEntry(d) \/ FileFails(d)

PullNext ==
    \/ Step /\ UNCHANGED <<head, paged, moves, edits, crashes>>
    \/ \E r \in Root : MoveHead(r)
    \/ \E p \in Path : Type(p) \/ \E m \in Mine : UserSaves(p, m) \/ EditOffline(p, m)
    \/ Crash \/ Restart

PullSpec == PullInit /\ [][PullNext]_pullVars

-----------------------------------------------------------------------------
(* Properties.                                                             *)

\* Only the user replaces what the user wrote: a pull never overwrites, deletes or
\* misplaces bytes that exist nowhere else, also when they were written while the
\* plugin was not running (pull.ts: "Any third hash is an unjournaled/local
\* collision and must be preserved first").  A file the user creates after the old
\* one was moved aside and before the new one is written is outside the promise:
\* the guard is not looked at between the two.
UserBytesSurvive ==
    [][\A p \in Path : vault[p].h \in Mine =>
          \/ vault[p].h \in {vault'[q].h : q \in Path} \cup copies'
          \/ edits' # edits
          \/ \E d \in DOMAIN pull.st : d.path = p /\ pull.st[d] = "clear"]_pullVars

\* What a renderer kill leaves is a safe place to go on from: a durable cursor covers
\* only records whose result is in the durable base (sync-base.ts: "so a cursor can
\* never outrun local state"), and a device that never synced has its fence before
\* it has a file.
ResumesSafely ==
    LET cp == saved.checkpoint
        from == IF cp.from = NoRoot THEN Zero ELSE cp.from
    IN  /\ cp # NoCheckpoint =>
             \A d \in Kept(Diff(from, cp.to)) :
                d.path <= cp.cursor =>
                   TreeOf(saved.base)[d.path] = d.v /\ (d.old # d.path => saved.base[d.old] = NoEntry)
        /\ saved.treeBase = NoRoot /\ saved.base # [p \in Path |-> NoEntry] => saved.fence

\* "Devices converge on their next pull" (api.rs, post_rollback): a pull of the
\* current root that leaves nothing out gives the device the content of that root,
\* or blocks its pushes.
NextPullConverges ==
    [][pull.pc = "adopt" /\ pull' = NoPull /\ up' /\ ~pull.deferred /\ ~pull.omitted /\ pull.to = head
          => \/ blocked'
             \/ \A p \in Path \ Ignored : Hash(mem'.base[p].v) = Hash(head[p])]_pullVars
=============================================================================
