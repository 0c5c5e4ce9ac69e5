----------------------------- MODULE TreeEntries -----------------------------
(* What both tree formats share: entries in path order and the merge of a  *)
(* list of entries with upserts and deletions.  An entry is a record with  *)
(* a path, a number in path order, and a row, which stands for the file's  *)
(* hash, size and time.                                                    *)
EXTENDS Integers, Sequences, FiniteSets, SequencesExt

Sum(seq, Value(_)) == FoldLeft(LAMBDA total, x : total + Value(x), 0, seq)

Rest(s) == SubSeq(s, 2, Len(s))
Shorter(s) == IF s = <<>> THEN s ELSE Front(s)
Put(f, k, v) == [x \in DOMAIN f \cup {k} |-> IF x = k THEN v ELSE f[x]]
Without(f, k) == [x \in DOMAIN f \ {k} |-> f[x]]
Least(S) == CHOOSE x \in S : \A y \in S : x <= y
Greatest(S) == CHOOSE x \in S : \A y \in S : x >= y

\* An item takes its place after those with the same key: the sort is stable.
Placed(seq, x, Key(_)) ==
    SelectSeq(seq, LAMBDA y : Key(y) <= Key(x)) \o <<x>>
      \o SelectSeq(seq, LAMBDA y : Key(y) > Key(x))
StablySorted(seq, Key(_)) == FoldLeft(LAMBDA s, x : Placed(s, x, Key), <<>>, seq)

PathOf(entry) == entry.path
ByPath(entries) == FoldSet(LAMBDA e, s : Placed(s, e, PathOf), <<>>, entries)

\* The final state of every path named: deletions come first, the last upsert of a path
\* wins.  <<>> stands for a deletion.
Operations(changed, deleted) ==
    LET upserted == {changed[i].path : i \in DOMAIN changed}
        latest(p) == Greatest({i \in DOMAIN changed : changed[i].path = p})
    IN  [p \in upserted \cup {deleted[i] : i \in DOMAIN deleted} |->
           IF p \in upserted THEN <<changed[latest(p)]>> ELSE <<>>]

MergeEntries(entries, changed, deleted) ==
    LET ops == Operations(changed, deleted)
        kept == {e \in ToSet(entries) : e.path \notin DOMAIN ops}
        put == UNION {ToSet(ops[p]) : p \in DOMAIN ops}
    IN  ByPath(kept \cup put)
==============================================================================
