------------------------------ MODULE TreeMerge ------------------------------
(***************************************************************************)
(* The three-way merge of two vault states (crates/sync-core/src/merge.rs) *)
(* and of the lines of one file (conflict.rs).                             *)
(*                                                                         *)
(* A tree gives every path an entry (content hash and mtime) or Absent.    *)
(* Tree v1 groups paths under their top-level directory and compares whole *)
(* directories by the hash of their chunks, which covers the mtimes; Tree  *)
(* v2 trees are flattened and compared file by file.                       *)
(***************************************************************************)
EXTENDS Naturals, Sequences, FiniteSets

CONSTANTS
    Path,      \* file paths
    PrefixOf,  \* top_level_prefix: the directory of each path
    Hash,      \* content hashes of what devices wrote
    MTime,     \* modification times, a set of naturals
    Mixed,     \* content hash of a successful line merge
    Absent     \* no entry at this path

Entry == [hash : Hash \cup {Mixed}, mtime : MTime]

Tree == [Path -> Entry \cup {Absent}]

EmptyTree == [p \in Path |-> Absent]

\* Content equality: entries are compared by hash, never by mtime.
SameContent(x, y) ==
    \/ x = Absent /\ y = Absent
    \/ x # Absent /\ y # Absent /\ x.hash = y.hash

-----------------------------------------------------------------------------
(* merge_entry_lists: one path, three entries.                             *)

\* The entry the merged list takes: the changed one, side A when both changed,
\* the base's own (mtime included) when neither content changed.
MergeEntry(base, a, b) ==
    IF base = Absent THEN (IF a # Absent THEN a ELSE b)
    ELSE IF a = Absent THEN (IF SameContent(base, b) THEN Absent ELSE b)
    ELSE IF b = Absent THEN (IF SameContent(base, a) THEN Absent ELSE a)
    ELSE IF a.hash = base.hash /\ b.hash # base.hash THEN b
    ELSE IF a.hash = base.hash THEN base ELSE a

\* Mutant: two different additions of one path are not compared.
BugAddAdd(base, a, b) == FALSE

\* Both sides added the path with different bytes: an immediate conflict.
AddAdd(base, a, b) ==
    base = Absent /\ a # Absent /\ b # Absent /\ a.hash # b.hash

\* Both sides changed the file to different bytes: a text_todo.
ModifyModify(base, a, b) ==
    /\ base # Absent /\ a # Absent /\ b # Absent
    /\ a.hash # base.hash /\ b.hash # base.hash /\ a.hash # b.hash

MaxTime(s, t) == IF s < t THEN t ELSE s

\* try_text_merge on success: merged content under the later mtime.
TextMerged(a, b) == [hash |-> Mixed, mtime |-> MaxTime(a.mtime, b.mtime)]

-----------------------------------------------------------------------------
(* The prefix level of Tree v1.                                            *)

Under(x) == {p \in Path : PrefixOf[p] = x}

\* The chunk hash of a directory: equal iff every entry is, mtimes included.
SameDir(t, u, x) == \A p \in Under(x) : t[p] = u[p]

NoDir(t, x) == \A p \in Under(x) : t[p] = Absent

\* Mutant: the directory of the side that did not change is taken.
BugDirChoice(base, a, b, x) ==
    IF NoDir(base, x)
    THEN (IF NoDir(b, x) THEN "a" ELSE IF NoDir(a, x) THEN "b" ELSE "entries")
    ELSE IF NoDir(a, x) /\ NoDir(b, x) THEN "drop"
    ELSE IF SameDir(base, a, x) THEN "a"
    ELSE IF SameDir(base, b, x) THEN "b"
    ELSE "entries"

\* Whole directories are taken where at most one side touched them or one side
\* removed them; "entries" sends the directory to the file level.
DirChoice(base, a, b, x) ==
    IF NoDir(base, x)
    THEN (IF NoDir(b, x) THEN "a" ELSE IF NoDir(a, x) THEN "b" ELSE "entries")
    ELSE IF NoDir(a, x) /\ NoDir(b, x) THEN "drop"
    ELSE IF NoDir(a, x) THEN (IF SameDir(base, b, x) THEN "drop" ELSE "b")
    ELSE IF NoDir(b, x) THEN (IF SameDir(base, a, x) THEN "drop" ELSE "a")
    ELSE IF SameDir(base, b, x) THEN "a"
    ELSE IF SameDir(base, a, x) THEN "b"
    ELSE "entries"

\* Paths decided file by file: all of them once a v2 tree is involved.
ByEntry(base, a, b, v1) ==
    {p \in Path : ~v1 \/ DirChoice(base, a, b, PrefixOf[p]) = "entries"}

TextTodo(base, a, b, v1) ==
    {p \in ByEntry(base, a, b, v1) : ModifyModify(base[p], a[p], b[p])}

\* merge_versioned_trees, with the paths `text` line-merged by the post-pass
\* (a subset of TextTodo: extension, size, UTF-8 and overlap decide which).
MergeTrees(base, a, b, v1, text) ==
    [p \in Path |->
        IF p \in text THEN TextMerged(a[p], b[p])
        ELSE IF p \in ByEntry(base, a, b, v1) THEN MergeEntry(base[p], a[p], b[p])
        ELSE CASE DirChoice(base, a, b, PrefixOf[p]) = "a" -> a[p]
               [] DirChoice(base, a, b, PrefixOf[p]) = "b" -> b[p]
               [] DirChoice(base, a, b, PrefixOf[p]) = "drop" -> Absent]

\* file_conflicts: what the pushing client must preserve as conflict copies.
Conflicts(base, a, b, v1, text) ==
    (TextTodo(base, a, b, v1) \ text)
        \cup {p \in ByEntry(base, a, b, v1) : AddAdd(base[p], a[p], b[p])}

-----------------------------------------------------------------------------
(* Properties of one merge.                                                *)

Changed(base, side, p) == side[p] # Absent /\ ~SameContent(base[p], side[p])
Kept(merged, side, p) == merged[p] # Absent /\ merged[p].hash \in {side[p].hash, Mixed}

\* A file one side wrote (new or edited) is in the merged tree, is mixed into
\* it line by line, or is reported as a conflict; side A, the tree other devices
\* already see, never loses its slot to an unreported overwrite; and a file
\* disappears only when one side deleted it.
ChangesSurvive(base, a, b, v1, text) ==
    LET merged == MergeTrees(base, a, b, v1, text)
    IN  \A p \in Path :
            /\ Changed(base, a, p) => Kept(merged, a, p)
            /\ Changed(base, b, p) => Kept(merged, b, p) \/ p \in Conflicts(base, a, b, v1, text)
            /\ base[p] # Absent /\ merged[p] = Absent => a[p] = Absent \/ b[p] = Absent

\* The prefix engine of Tree v1 and the flattened engine of v2 agree on every
\* file the flattened one keeps: directory-level shortcuts may bring a deleted
\* file back, and change nothing else.
EnginesAgreeOnKeptFiles(base, a, b, text) ==
    \A p \in Path :
        LET flat == MergeTrees(base, a, b, FALSE, text)[p]
        IN  flat # Absent => SameContent(MergeTrees(base, a, b, TRUE, text)[p], flat)

\* A merge keeps what both sides wrote, with either engine.
MergesKeepChanges(base, a, b, v1, text) ==
    /\ ChangesSurvive(base, a, b, v1, text)
    /\ v1 => EnginesAgreeOnKeptFiles(base, a, b, text)

-----------------------------------------------------------------------------
(* conflict.rs, three_way_text_merge: the line merge of a small text file  *)
(* that both sides changed.  A text is the sequence of its lines.  A diff  *)
(* against the base is the set of its non-equal operations, as the         *)
(* `similar` crate reports them: `at` and `len` are the replaced lines of  *)
(* the base (old_index, counted from 0, and old_len), `new` the lines put  *)
(* in their place.  An Insert has len = 0, a Delete has new = <<>>, a      *)
(* Replace neither.                                                        *)

\* TextMergeResult
Merged(content) == [kind |-> "Merged", content |-> content]
Overlap == [kind |-> "Overlap", content |-> <<>>]

Op(lines, news) == [at : 0..lines, len : 0..lines, new : news]

\* External (similar::TextDiff::from_lines): the operations stay inside the
\* base, do something, and have an equal line between any two of them.
IsDiff(lines, ops) ==
    /\ \A op \in ops : op.at + op.len <= lines /\ (op.len > 0 \/ op.new # <<>>)
    /\ \A o1, o2 \in ops : o1 # o2 => o1.at + o1.len < o2.at \/ o2.at + o2.len < o1.at

\* collect_changed_ranges: the base lines an operation touches.
ChangeRange(op) == [start |-> op.at, end |-> op.at + op.len]

\* An insertion point counts as the line after it.
RangeEnd(r) == IF r.start = r.end THEN r.end + 1 ELSE r.end

\* ranges_overlap
RangesOverlap(local, remote) ==
    \E l \in local, r \in remote :
        /\ ChangeRange(l).start < RangeEnd(ChangeRange(r))
        /\ ChangeRange(r).start < RangeEnd(ChangeRange(l))

\* collect_ops: the operation that starts at base line i, if any.
OpsAt(ops, i) == {op \in ops : op.at = i}

\* Mutant: the lines appended at the end of the file are forgotten.
BugTrailingInserts(lines, local, remote) == <<>>

\* The insertions behind the last base line, local before remote.
TrailingInserts(lines, local, remote) ==
    LET NewAtEnd(ops) == IF OpsAt(ops, lines) = {} THEN <<>>
                         ELSE (CHOOSE op \in OpsAt(ops, lines) : TRUE).new
    IN  NewAtEnd(local) \o NewAtEnd(remote)

\* apply_non_overlapping_changes: one pass over the base.  An operation of one
\* side emits its new lines and skips max(old_len, 1) lines of the base.
ApplyNonOverlapping(base, local, remote) ==
    LET n == Len(base)
        walk[i \in 0..n] ==
            LET here == OpsAt(local, i) \cup OpsAt(remote, i)
                op   == CHOOSE o \in here : TRUE
                step == IF op.len > 1 THEN op.len ELSE 1
            IN  IF i = n THEN TrailingInserts(n, local, remote)
                ELSE IF here = {} THEN <<base[i + 1]>> \o walk[i + 1]
                ELSE op.new \o walk[i + step]
    IN  walk[0]

\* Two operations at the same base line: the walk gives up.
SameLine(base, local, remote) ==
    \E l \in local, r \in remote : l.at = r.at /\ l.at < Len(base)

\* three_way_text_merge
ThreeWayTextMerge(base, local, remote) ==
    IF RangesOverlap(local, remote) \/ SameLine(base, local, remote) THEN Overlap
    ELSE Merged(ApplyNonOverlapping(base, local, remote))

\* The reference: what a set of edits that touch different lines means.

Covered(ops, i) == \E op \in ops : op.at <= i /\ i < op.at + op.len

\* The base with every edit of `ops` applied, each where it belongs.
Edited(base, ops) ==
    LET n == Len(base)
        from[i \in 0..n] ==
            LET new  == IF OpsAt(ops, i) = {} THEN <<>>
                        ELSE (CHOOSE op \in OpsAt(ops, i) : TRUE).new
                line == IF i = n \/ Covered(ops, i) THEN <<>> ELSE <<base[i + 1]>>
            IN  new \o line \o (IF i = n THEN <<>> ELSE from[i + 1])
    IN  from[0]
=============================================================================
