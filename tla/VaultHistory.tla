----------------------------- MODULE VaultHistory -----------------------------
(* The roots of one vault on the server, in both tree formats, and the     *)
(* differences devices read from them page by page.  An administrator      *)
(* moves the vault between the formats, purges paths or rolls back while a *)
(* device reads; a device whose base has one format reads a difference to  *)
(* a root of the other (admin.rs, bridge.rs, versioned_root.rs, diff.rs,   *)
(* diff_page.rs, the diff handlers of api.rs).  How the head is stored is  *)
(* RootHead; how a device applies the pages is Pull.                       *)
(*                                                                         *)
(* A root is named by its place in `roots`; 0 is the all-zero root of a    *)
(* device that has nothing.  HashOf gives the content hash of a row, which *)
(* also stands for size and modification time.                             *)
EXTENDS RangeTree, PrefixTree, FiniteSets

CONSTANTS
    HashOf,                       \* row -> content hash
    FirstEntries,                 \* the vault's first snapshot
    Edits,                        \* [changed, deleted]: what pushes do
    Patterns,                     \* sets of paths purge patterns match
    PageHeader, CursorOverhead, RecordOverhead,   \* encoded sizes without paths
    RecordCap, ByteCap,           \* what a page of this device may hold
    MaxRoots                      \* bound: roots in the history

VARIABLES
    roots,     \* the history, oldest first
    current,   \* the current root
    ready,     \* every enrolled device reported the range tree
    device     \* [at, reading]: its base, and the pages it has of one difference

vars == <<roots, current, ready, device>>

------------------------------------------------------------------------------
(* Roots of either format                                                  *)

BuildRoot(entries, version) ==
    [version |-> version,
     tree |-> IF version = 1 THEN BuildPrefixTree(entries) ELSE BuildTree(entries)]
EmptyVersioned(version) ==
    [version |-> version, tree |-> IF version = 1 THEN EmptyPrefixRoot ELSE EmptyRoot]
Entries(root) == IF root.version = 1 THEN EntriesOf(root.tree) ELSE LoadAllEntries(root.tree)

\* A push publishes the tree its device updated in place.
Updated(root, edit) ==
    [root EXCEPT !.tree = IF root.version = 1
                            THEN UpdatePrefixTree(root.tree, edit.changed, edit.deleted)
                            ELSE UpdateTree(root.tree, edit.changed, edit.deleted)]

\* A root's hash covers its children and not its history metadata.
SameHash(r, s) ==
    /\ r.version = s.version
    /\ IF r.version = 1 THEN r.tree.children = s.tree.children ELSE r.tree = s.tree

\* store_root and set_current_root: a root that is in the history already is reused.
Places(root) == {i \in DOMAIN roots : SameHash(roots[i], root)}
StoreRoot(root) ==
    /\ Places(root) # {} \/ Len(roots) < MaxRoots
    /\ roots' = IF Places(root) = {} THEN Append(roots, root) ELSE roots
    /\ current' = IF Places(root) = {} THEN Len(roots) + 1 ELSE Least(Places(root))

------------------------------------------------------------------------------
(* Changing the current root                                               *)

Publish(edit) == StoreRoot(Updated(roots[current], edit)) /\ UNCHANGED <<ready, device>>

\* project_tree_version: activation needs the whole fleet; the same format is left alone.
ProjectTreeVersion(version) ==
    /\ version = 2 => ready
    /\ roots[current].version # version
    /\ StoreRoot(BuildRoot(Entries(roots[current]), version))
    /\ UNCHANGED <<ready, device>>

\* purge_vault: without a match no root is made.
PurgeVault(pattern) ==
    /\ \E e \in ToSet(Entries(roots[current])) : e.path \in pattern
    /\ StoreRoot(BuildRoot(SelectSeq(Entries(roots[current]), LAMBDA e : e.path \notin pattern),
                           roots[current].version))
    /\ UNCHANGED <<ready, device>>

RollbackVault(place) ==
    /\ roots[place].version = 2 => ready
    /\ current' = place
    /\ UNCHANGED <<roots, ready, device>>

\* A device reports the range tree, or another one is enrolled.
FleetChanges == ready' = ~ready /\ UNCHANGED <<roots, current, device>>

------------------------------------------------------------------------------
(* The difference of two roots                                             *)

Added(e) == [kind |-> "added", path |-> e.path, row |-> e.row, old |-> EmptyPath]
Modified(e) == [kind |-> "modified", path |-> e.path, row |-> e.row, old |-> EmptyPath]
\* A deletion keeps the row's hash to recognise renames.
Deleted(e) == [kind |-> "deleted", path |-> e.path, row |-> e.row, old |-> EmptyPath]
Renamed(from, to) == [kind |-> "renamed", path |-> to.path, row |-> to.row, old |-> from.path]

DiffEntries(from, to) ==
    LET at(side, path) == {e \in side : e.path = path}
    IN  {Modified(e) : e \in {e \in to \ from : at(from, e.path) # {}}}
          \cup {Added(e) : e \in {e \in to : at(from, e.path) = {}}}
          \cup {Deleted(e) : e \in {e \in from : at(to, e.path) = {}}}

\* compute_deltas of format 1: directories with the same node are skipped.
ChildAt(root, prefix) == SelectSeq(root.children, LAMBDA c : c.prefix = prefix)
UnderPrefix(root, prefix) ==
    IF ChildAt(root, prefix) = <<>> THEN {} ELSE ToSet(LoadEntries(ChildAt(root, prefix)[1].node))
PrefixDeltas(from, to) ==
    UNION {IF ChildAt(from, p) = ChildAt(to, p) THEN {}
           ELSE DiffEntries(UnderPrefix(from, p), UnderPrefix(to, p))
             : p \in {c.prefix : c \in ToSet(from.children \o to.children)}}

\* compute_deltas of format 2: RangeTree finds the entries that differ.
RangeDeltas(from, to) ==
    LET differ == ComputeDeltas(from, to)
    IN  DiffEntries({d[2] : d \in {d \in differ : d[1] = "old"}},
                    {d[2] : d \in {d \in differ : d[1] = "new"}})

\* Mutant: a deletion is paired with any addition of its hash.
BugDetectRenames(raw) ==
    LET alike(kind, d) == {e \in raw : e.kind = kind /\ HashOf[e.row] = HashOf[d.row]}
        moved == {d \in raw : d.kind = "deleted" /\ alike("added", d) # {}}
        target(d) == CHOOSE e \in alike("added", d) : TRUE
    IN  (raw \ (moved \cup {target(d) : d \in moved})) \cup {Renamed(d, target(d)) : d \in moved}

\* detect_renames: one deletion and one addition share a hash with no other.
DetectRenames(raw) ==
    LET alike(kind, d) == {e \in raw : e.kind = kind /\ HashOf[e.row] = HashOf[d.row]}
        moved == {d \in raw : d.kind = "deleted" /\ Cardinality(alike("deleted", d)) = 1
                                /\ Cardinality(alike("added", d)) = 1}
        target(d) == CHOOSE e \in alike("added", d) : TRUE
    IN  (raw \ (moved \cup {target(d) : d \in moved})) \cup {Renamed(d, target(d)) : d \in moved}

\* compute_versioned_deltas: two formats meet as lists of entries.
Deltas(from, to) ==
    DetectRenames(
      CASE from.version = 1 /\ to.version = 1 -> PrefixDeltas(from.tree, to.tree)
        [] from.version = 2 /\ to.version = 2 -> RangeDeltas(from.tree, to.tree)
        [] from.version # to.version -> DiffEntries(ToSet(Entries(from)), ToSet(Entries(to))))
SortDeltas(deltas) == FoldSet(LAMBDA d, s : Placed(s, d, PathOf), <<>>, deltas)

------------------------------------------------------------------------------
(* Pages                                                                   *)

RecordBytes(d) ==
    PathBytes[d.path] + PathBytes[d.old] + IF d.kind = "deleted" THEN 1 ELSE RecordOverhead
CursorBytes(d) == CursorOverhead + PathBytes[d.path] + PathBytes[d.old]

\* encode_page: records from `start` on while the page, with the cursor it then needs,
\* stays within the caps.
PageBytes(sorted, start, count) ==
    PageHeader + Sum(SubSeq(sorted, start, start + count - 1), RecordBytes)
      + IF start + count - 1 < Len(sorted) THEN CursorBytes(sorted[start + count - 1]) ELSE 0
PageCount(sorted, start) ==
    Greatest({n \in 0..RecordCap :
                /\ start + n - 1 <= Len(sorted)
                /\ \A k \in 1..n : PageBytes(sorted, start, k) <= ByteCap})

\* The page after the cursor's record; the record must be in the recomputed list.
StartAfter(sorted, cursor) ==
    IF cursor = <<>> THEN 1
    ELSE 1 + CHOOSE i \in 1..Len(sorted) : /\ sorted[i].path = cursor[1].path
                                           /\ sorted[i].kind = cursor[1].kind
                                           /\ sorted[i].old = cursor[1].old
EncodePage(sorted, cursor) ==
    LET start == StartAfter(sorted, cursor)
        count == PageCount(sorted, start)
        records == SubSeq(sorted, start, start + count - 1)
    IN  [records |-> records,
         cursor |-> IF start + count - 1 < Len(sorted) THEN <<Last(records)>> ELSE <<>>,
         bytes |-> IF count = 0 THEN PageHeader ELSE PageBytes(sorted, start, count),
         stuck |-> count = 0 /\ start <= Len(sorted)]

Base(place, version) == IF place = 0 THEN EmptyVersioned(version) ELSE roots[place]
PageOf(from, to, cursor) ==
    EncodePage(SortDeltas(Deltas(Base(from, roots[to].version), roots[to])), cursor)

\* post_diff_page: the first page picks the current root as target, the next ones name it.
\* require_tree_access refuses a range tree to a device that cannot read it.
NotReading == [active |-> FALSE, to |-> 0, got |-> <<>>, cursor |-> <<>>, pages |-> 0,
               bytes |-> 0, stuck |-> FALSE]
Receive(to, page, got, pages) ==
    device' = [device EXCEPT !.reading =
                 [active |-> TRUE, to |-> to, got |-> got \o page.records, cursor |-> page.cursor,
                  pages |-> pages + 1, bytes |-> page.bytes, stuck |-> page.stuck]]
MayRead(to) == roots[to].version = 2 => ready

FirstPage ==
    /\ ~device.reading.active /\ MayRead(current)
    /\ Receive(current, PageOf(device.at, current, <<>>), <<>>, 0)
    /\ UNCHANGED <<roots, current, ready>>
NextPage ==
    /\ device.reading.active /\ device.reading.cursor # <<>> /\ MayRead(device.reading.to)
    /\ LET r == device.reading
       IN  Receive(r.to, PageOf(device.at, r.to, r.cursor), r.got, r.pages)
    /\ UNCHANGED <<roots, current, ready>>

\* post_diff: the whole difference to the current root at once; the same root has none.
PostDiff ==
    /\ ~device.reading.active /\ MayRead(current) /\ device.at # current
    /\ device' = [device EXCEPT !.reading =
         [NotReading EXCEPT !.active = TRUE, !.to = current,
            !.got = SortDeltas(Deltas(Base(device.at, roots[current].version), roots[current]))]]
    /\ UNCHANGED <<roots, current, ready>>

\* The device has applied everything, or gives up.
Adopt ==
    /\ device.reading.active /\ device.reading.cursor = <<>>
    /\ device' = [at |-> device.reading.to, reading |-> NotReading]
    /\ UNCHANGED <<roots, current, ready>>
Abandon ==
    /\ device.reading.active
    /\ device' = [device EXCEPT !.reading = NotReading]
    /\ UNCHANGED <<roots, current, ready>>

Init ==
    /\ roots = <<BuildRoot(FirstEntries, 1)>> /\ current = 1 /\ ready \in BOOLEAN
    /\ device = [at |-> 0, reading |-> NotReading]

Next ==
    \/ \E edit \in Edits : Publish(edit)
    \/ \E version \in {1, 2} : ProjectTreeVersion(version)
    \/ \E pattern \in Patterns : PurgeVault(pattern)
    \/ \E place \in DOMAIN roots : RollbackVault(place)
    \/ FleetChanges \/ FirstPage \/ NextPage \/ PostDiff \/ Adopt \/ Abandon

Spec == Init /\ [][Next]_vars

------------------------------------------------------------------------------

Applied(entries, deltas) ==
    {e \in entries : \A d \in deltas : e.path # d.path /\ e.path # d.old}
      \cup {[path |-> d.path, row |-> d.row] : d \in {d \in deltas : d.kind # "deleted"}}

\* However the head, the format or the fleet changes between two pages, the pages a device
\* has add up to exactly the difference between its base and the root it was first shown:
\* applied to the base they give that root's files.  No page exceeds its byte cap, and
\* every page but an empty difference's carries a record.
PagesReachTarget ==
    LET r == device.reading
        from == IF device.at = 0 THEN {} ELSE ToSet(Entries(roots[device.at]))
    IN  r.active =>
          /\ r.cursor = <<>> => Applied(from, ToSet(r.got)) = ToSet(Entries(roots[r.to]))
          /\ \A i, j \in DOMAIN r.got : i < j => r.got[i].path < r.got[j].path
          /\ r.bytes <= ByteCap /\ ~r.stuck

\* Moving between the formats keeps every file and a rollback restores one: whatever is
\* done to the vault, no root leaves the history or changes, and a change of format alone
\* changes no file.
FormatKeepsFiles ==
    /\ IsPrefix(roots, roots')
    /\ \A version \in {1, 2} :
         ProjectTreeVersion(version) => Entries(roots'[current']) = Entries(roots[current])
==============================================================================
