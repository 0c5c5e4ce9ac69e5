----------------------------- MODULE PullProofs -----------------------------
(***************************************************************************)
(* Proofs about Pull, for every set of paths, any history of roots, and    *)
(* any number of user edits, failed pulls, process exits and restarts:     *)
(*                                                                         *)
(*   KillsLeaveASafePlace  wherever a pull is cut off, the saved cursor    *)
(*                         covers only what the saved base has;            *)
(*   PullsKeepUserBytes    a pull takes away no bytes the user wrote, but  *)
(*                         for a file created after the old one was moved  *)
(*                         aside and before the new one is written.        *)
(*                                                                         *)
(* Both rest on PullInv.  A cursor is true of the base it is saved with    *)
(* (Resumable), the finished records of the pull under way are in the base *)
(* in memory (Position), a stamp tells the user's bytes from every file a  *)
(* base recorded (Stamped), and so what a step verified to be the server's *)
(* is not the user's, unless its path is waiting to be pushed (Verified).  *)
(***************************************************************************)
EXTENDS Pull, TLAPS

-----------------------------------------------------------------------------
(* The inductive invariant.                                                *)

Roots == Root \cup {NoRoot}
Bytes == {Hash(v) : v \in Versions} \cup Mine
Deltas == [kind : {"upsert", "delete", "rename"}, path : Path, old : Path, v : Versions]
Entries == [v : Versions, s : Nat]
Checkpoints ==
    [from : Roots, to : Roots, cursor : Nat, complete : BOOLEAN, applied : BOOLEAN, downloaded : BOOLEAN]
Bases == [base : [Path -> Entries], treeBase : Roots, checkpoint : Checkpoints, fence : BOOLEAN]
Status == {"new", "marked", "moved", "verified", "ready", "keep", "clear", "written", "done", "deferred"}
StatusMaps == UNION {[D -> Status] : D \in SUBSET Deltas}
Pulls ==
    [pc : {"fetch", "apply", "root", "adopt"}, from : Roots, to : Roots, root : Roots, cursor : Nat,
     complete : BOOLEAN, st : StatusMaps, last : Nat, retried : SUBSET Deltas, deferred : BOOLEAN,
     omitted : BOOLEAN, applied : BOOLEAN, downloaded : BOOLEAN]

PullTypes ==
    /\ head \in Root /\ paged \in BOOLEAN /\ up \in BOOLEAN
    /\ vault \in [Path -> [h : Bytes, s : Nat]]
    /\ mem \in Bases /\ saved \in Bases
    /\ pull = NoPull \/ (pull \in Pulls /\ up)

\* The records a pull from one root to another applies.
Work(from, to) == Kept(Diff(IF from = NoRoot THEN Zero ELSE from, to))

Applied(base, d) == base[d.path].v = d.v /\ (d.old # d.path => base[d.old] = NoEntry)

Covers(base, from, to, cursor) ==
    \A d \in Work(from, to) : d.path <= cursor => Applied(base, d)

\* A base a pull may resume from: the cursor in it covers only what it has, and a device
\* that never synced has its fence before it has a file.
Resumable(b) ==
    /\ b.checkpoint # NoCheckpoint =>
          /\ b.checkpoint.to \in Root
          /\ Covers(b.base, b.checkpoint.from, b.checkpoint.to, b.checkpoint.cursor)
    /\ b.treeBase = NoRoot /\ b.base # [p \in Path |-> NoEntry] => b.fence

\* The pull under way works on the records of its two roots, those it is done with are in
\* the base in memory, and the cursor it would write is true of that base.
Position ==
    pull # NoPull =>
        /\ pull.from = mem.treeBase
        /\ mem.checkpoint # NoCheckpoint =>
              mem.checkpoint.from = pull.from /\ mem.checkpoint.to = pull.to
        /\ pull.to = NoRoot => pull.pc = "fetch" /\ pull.cursor = 0 /\ DOMAIN pull.st = {}
        /\ pull.to # NoRoot =>
              /\ DOMAIN pull.st \subseteq Work(pull.from, pull.to)
              /\ \A d \in DOMAIN pull.st : pull.st[d] = "done" => Applied(mem.base, d)
              /\ paged /\ ~pull.deferred => Covers(mem.base, pull.from, pull.to, pull.cursor)
              /\ paged /\ pull.pc = "apply" =>
                    \A d \in Work(pull.from, pull.to) :
                        d.path > pull.cursor /\ d.path <= pull.last => d \in DOMAIN pull.st
        /\ mem.treeBase = NoRoot /\ DOMAIN pull.st # {} => mem.fence

\* A stamp tells the user's bytes from every other file, and from what a base recorded
\* unless the path is waiting to be pushed.
Stamped ==
    /\ \A p \in Path : vault[p] # NoFile => vault[p].s # 0
    /\ \A p \in Path : vault[p].h \in Mine => \A q \in Path \ {p} : vault[q].s # vault[p].s
    /\ \A p \in Path \ waiting : vault[p].h \in Mine =>
          \A q \in Path : mem.base[q].s # vault[p].s /\ saved.base[q].s # vault[p].s

\* The file a record's next step will take away or account for.
Subject(d) == IF pull.st[d] = "marked" THEN d.old ELSE d.path

\* What was verified to be the server's is not the user's unless the path is waiting.
Verified ==
    pull # NoPull => \A d \in DOMAIN pull.st :
        /\ pull.st[d] \in {"marked", "moved"} => d.kind = "rename"
        /\ pull.st[d] = "verified" => d.kind = "delete"
        /\ pull.st[d] \in {"ready", "keep", "clear", "written"} => d.kind = "upsert"
        /\ pull.st[d] \in {"marked", "moved", "verified", "ready", "written"} /\ Subject(d) \notin waiting =>
              vault[Subject(d)].h \notin Mine

PullInv == PullTypes /\ Resumable(mem) /\ Resumable(saved) /\ Position /\ Stamped /\ Verified
-----------------------------------------------------------------------------
(* The records of a diff.                                                  *)

Moves(f, t, o, p) ==
    /\ o \in Path /\ f[o] # 0 /\ t[o] = 0
    /\ p \in Path /\ f[p] = 0 /\ t[p] # 0
    /\ Hash(f[o]) = Hash(t[p])
    /\ \A q \in Path \ {o} : f[q] # 0 /\ t[q] = 0 => Hash(f[q]) # Hash(t[p])
    /\ \A q \in Path \ {p} : f[q] = 0 /\ t[q] # 0 => Hash(f[o]) # Hash(t[q])

\* A record is a rename of one lost path to one new path, or one path's own.
LEMMA DiffCases ==
    ASSUME NEW f, NEW t, NEW d \in Diff(f, t)
    PROVE  \/ \E o, p \in Path : Moves(f, t, o, p) /\ d = Renaming(o, p, t[p])
           \/ \E p \in Path : /\ d = Delete(p) /\ f[p] # 0 /\ t[p] = 0
                              /\ \A q \in Path : ~Moves(f, t, p, q)
           \/ \E p \in Path : /\ d = Upsert(p, t[p]) /\ t[p] # 0
                              /\ \A q \in Path : ~Moves(f, t, q, p)
<1> DEFINE gone == {p \in Path : f[p] # 0 /\ t[p] = 0}
           new == {p \in Path : f[p] = 0 /\ t[p] # 0}
           same(o, p) == Hash(f[o]) = Hash(t[p])
           moved == {m \in gone \X new :
                       /\ same(m[1], m[2])
                       /\ \A o \in gone \ {m[1]} : ~same(o, m[2])
                       /\ \A p \in new \ {m[2]} : ~same(m[1], p)}
<1>1. \A m \in moved : Moves(f, t, m[1], m[2])
  BY Zenon DEF Moves
<1>2. \A o, p : Moves(f, t, o, p) => <<o, p>> \in moved
  BY Zenon DEF Moves
<1>3. \/ d \in {Renaming(m[1], m[2], t[m[2]]) : m \in moved}
      \/ d \in {Delete(o) : o \in gone \ {m[1] : m \in moved}}
      \/ d \in {Upsert(p, t[p]) : p \in new \ {m[2] : m \in moved}}
      \/ d \in {Upsert(p, t[p]) : p \in {q \in Path : f[q] # 0 /\ t[q] # 0 /\ f[q] # t[q]}}
  BY Zenon DEF Diff
<1>4. CASE d \in {Renaming(m[1], m[2], t[m[2]]) : m \in moved}
  <2>1. PICK m \in moved : d = Renaming(m[1], m[2], t[m[2]])
    BY Zenon, <1>4
  <2>2. Moves(f, t, m[1], m[2]) /\ m[1] \in Path /\ m[2] \in Path
    BY Zenon, <1>1
  <2> QED BY Zenon, <2>1, <2>2
<1>5. CASE d \in {Delete(o) : o \in gone \ {m[1] : m \in moved}}
  <2>1. PICK o \in gone : o \notin {m[1] : m \in moved} /\ d = Delete(o)
    BY Zenon, <1>5
  <2>2. \A q \in Path : ~Moves(f, t, o, q)
    <3>1. ASSUME NEW q \in Path, Moves(f, t, o, q) PROVE FALSE
      <4>1. <<o, q>> \in moved
        BY Zenon, <1>2, <3>1
      <4>2. <<o, q>>[1] = o
        BY Zenon
      <4> HIDE DEF moved
      <4> QED BY Zenon, <2>1, <4>1, <4>2
    <3> QED BY Zenon, <3>1
  <2>3. o \in Path /\ f[o] # 0 /\ t[o] = 0
    BY Zenon
  <2> HIDE DEF moved, gone
  <2> QED BY Zenon, <2>1, <2>2, <2>3
<1>6. CASE d \in {Upsert(p, t[p]) : p \in new \ {m[2] : m \in moved}}
  <2>1. PICK p \in new : p \notin {m[2] : m \in moved} /\ d = Upsert(p, t[p])
    BY Zenon, <1>6
  <2>2. \A q \in Path : ~Moves(f, t, q, p)
    <3>1. ASSUME NEW q \in Path, Moves(f, t, q, p) PROVE FALSE
      <4>1. <<q, p>> \in moved
        BY Zenon, <1>2, <3>1
      <4>2. <<q, p>>[2] = p
        BY Zenon
      <4> HIDE DEF moved
      <4> QED BY Zenon, <2>1, <4>1, <4>2
    <3> QED BY Zenon, <3>1
  <2>3. p \in Path /\ t[p] # 0
    BY Zenon
  <2> HIDE DEF moved, new
  <2> QED BY Zenon, <2>1, <2>2, <2>3
<1>7. CASE d \in {Upsert(p, t[p]) : p \in {q \in Path : f[q] # 0 /\ t[q] # 0 /\ f[q] # t[q]}}
  <2>1. PICK p \in Path : f[p] # 0 /\ t[p] # 0 /\ d = Upsert(p, t[p])
    BY Zenon, <1>7
  <2>2. \A q \in Path : ~Moves(f, t, q, p)
    BY Zenon, <2>1 DEF Moves
  <2> QED BY Zenon, <2>1, <2>2
<1> HIDE DEF moved, gone, new
<1> QED BY Zenon, <1>3, <1>4, <1>5, <1>6, <1>7

RootLike == [Path -> Versions]

LEMMA DiffIsDelta ==
    ASSUME NEW f \in RootLike, NEW t \in RootLike, NEW d \in Diff(f, t)
    PROVE  /\ d \in Deltas /\ d.v = t[d.path]
           /\ d.kind = "rename" <=> d.old # d.path
<1>1. CASE \E o, p \in Path : Moves(f, t, o, p) /\ d = Renaming(o, p, t[p])
  BY SMTT(30), <1>1 DEF Moves, Renaming, Deltas, RootLike
<1>2. CASE \E p \in Path : d = Delete(p) /\ f[p] # 0 /\ t[p] = 0
  BY SMTT(30), <1>2 DEF Delete, Deltas, Versions
<1>3. CASE \E p \in Path : d = Upsert(p, t[p])
  BY SMTT(30), <1>3 DEF Upsert, Deltas, RootLike
<1> QED BY SMTT(30), <1>1, <1>2, <1>3, DiffCases

\* Two records of a diff touch different paths.
LEMMA DiffDisjoint ==
    ASSUME NEW f \in RootLike, NEW t \in RootLike, NEW d \in Diff(f, t), NEW e \in Diff(f, t), d # e
    PROVE  {d.path, d.old} \cap {e.path, e.old} = {}
<1> DEFINE Ren(x) == \E o, p \in Path : Moves(f, t, o, p) /\ x = Renaming(o, p, t[p])
           Del(x) == \E p \in Path : /\ x = Delete(p) /\ f[p] # 0 /\ t[p] = 0
                                     /\ \A q \in Path : ~Moves(f, t, p, q)
           Ups(x) == \E p \in Path : /\ x = Upsert(p, t[p]) /\ t[p] # 0
                                     /\ \A q \in Path : ~Moves(f, t, q, p)
<1>1. (Ren(d) \/ Del(d) \/ Ups(d)) /\ (Ren(e) \/ Del(e) \/ Ups(e))
  BY Zenon, DiffCases
<1>2. \A x : Ren(x) => \E o, p \in Path : /\ Moves(f, t, o, p) /\ x = Renaming(o, p, t[p])
                                          /\ x.path = p /\ x.old = o
  BY SMTT(30) DEF Renaming
<1>3. \A x : Del(x) => \E p \in Path : /\ x = Delete(p) /\ f[p] # 0 /\ t[p] = 0 /\ x.path = p /\ x.old = p
                                       /\ \A q \in Path : ~Moves(f, t, p, q)
  BY SMTT(30) DEF Delete
<1>4. \A x : Ups(x) => \E p \in Path : /\ x = Upsert(p, t[p]) /\ t[p] # 0 /\ x.path = p /\ x.old = p
                                       /\ \A q \in Path : ~Moves(f, t, q, p)
  BY SMTT(30) DEF Upsert
<1>5. \A o, p, q, r : Moves(f, t, o, p) /\ Moves(f, t, q, r) => /\ o # r /\ p # q /\ (o = q <=> p = r)
  BY SMTT(30) DEF Moves
<1>6. \A o, p : Moves(f, t, o, p) => /\ f[o] # 0 /\ t[o] = 0 /\ f[p] = 0 /\ t[p] # 0 /\ o \in Path /\ p \in Path
  BY Zenon DEF Moves
<1> HIDE DEF Ren, Del, Ups
<1>7. CASE Ren(d) /\ Ren(e)
  BY SMTT(30), <1>2, <1>5, <1>7
<1>8. CASE Ren(d) /\ ~Ren(e)
  BY SMTT(30), <1>1, <1>2, <1>3, <1>4, <1>6, <1>8
<1>9. CASE ~Ren(d) /\ Ren(e)
  BY SMTT(30), <1>1, <1>2, <1>3, <1>4, <1>6, <1>9
<1>10. CASE ~Ren(d) /\ ~Ren(e)
  BY SMTT(30), <1>1, <1>3, <1>4, <1>10
<1> QED BY Zenon, <1>7, <1>8, <1>9, <1>10

\* A record that is applied stands for one record of the diff.
LEMMA KeptOf ==
    ASSUME NEW f \in RootLike, NEW t \in RootLike, NEW page \in SUBSET Diff(f, t), NEW d \in Kept(page)
    PROVE  \E e \in page : /\ e.path \notin Ignored /\ d.path = e.path /\ d.v = e.v /\ d.old \in {e.path, e.old}
                           /\ \/ d = e /\ e.old \notin Ignored
                              \/ d = Upsert(e.path, e.v) /\ e.old \in Ignored /\ e.kind = "rename"
<1>1. CASE d \in {e \in page : e.path \notin Ignored /\ e.old \notin Ignored}
  BY Zenon, <1>1
<1>2. CASE d \in {Upsert(e.path, e.v) : e \in {x \in page : x.kind = "rename" /\ x.old \in Ignored
                                                            /\ x.path \notin Ignored}}
  BY SMTT(30), <1>2 DEF Upsert
<1> QED BY Zenon, <1>1, <1>2 DEF Kept

LEMMA KeptIsDelta ==
    ASSUME NEW f \in RootLike, NEW t \in RootLike, NEW page \in SUBSET Diff(f, t), NEW d \in Kept(page)
    PROVE  d \in Deltas /\ (d.kind = "rename" <=> d.old # d.path)
<1>1. PICK e \in page : \/ d = e
                        \/ d = Upsert(e.path, e.v) /\ e.kind = "rename"
  BY SMTT(30), KeptOf
<1>2. e \in Deltas /\ (e.kind = "rename" <=> e.old # e.path)
  BY Zenon, DiffIsDelta
<1> QED BY SMTT(30), <1>1, <1>2 DEF Upsert, Deltas

LEMMA KeptDisjoint ==
    ASSUME NEW f \in RootLike, NEW t \in RootLike, NEW d \in Kept(Diff(f, t)), NEW e \in Kept(Diff(f, t)),
           d # e
    PROVE  {d.path, d.old} \cap {e.path, e.old} = {}
<1>1. PICK x \in Diff(f, t) : /\ d.path = x.path /\ d.old \in {x.path, x.old}
                              /\ \/ d = x /\ x.old \notin Ignored
                                 \/ d = Upsert(x.path, x.v) /\ x.old \in Ignored /\ x.kind = "rename"
  BY SMTT(30), KeptOf
<1>2. PICK y \in Diff(f, t) : /\ e.path = y.path /\ e.old \in {y.path, y.old}
                              /\ \/ e = y /\ y.old \notin Ignored
                                 \/ e = Upsert(y.path, y.v) /\ y.old \in Ignored /\ y.kind = "rename"
  BY SMTT(30), KeptOf
<1>3. x # y
  BY SMTT(30), <1>1, <1>2
<1>4. {x.path, x.old} \cap {y.path, y.old} = {}
  BY Zenon, <1>3, DiffDisjoint
<1> QED BY Zenon, <1>1, <1>2, <1>4

\* What a page only untracks is none of the paths a record is applied to.
LEMMA UntrackedDisjoint ==
    ASSUME NEW f \in RootLike, NEW t \in RootLike, NEW page \in SUBSET Diff(f, t),
           NEW p \in Untracked(page), NEW d \in Kept(Diff(f, t))
    PROVE  p \notin {d.path, d.old}
<1>1. PICK x \in Diff(f, t) : /\ x.path \notin Ignored /\ d.path = x.path /\ d.old \in {x.path, x.old}
  BY SMTT(30), KeptOf
<1>2. PICK y \in page : y.path \in Ignored /\ p = y.old
  BY Zenon DEF Untracked
<1>3. {x.path, x.old} \cap {y.path, y.old} = {}
  BY Zenon, <1>1, <1>2, DiffDisjoint
<1> QED BY Zenon, <1>1, <1>2, <1>3

\* A page has a last record, and every record before it.
LEMMA HasLast ==
    ASSUME NEW f \in RootLike, NEW t \in RootLike, NEW page \in SUBSET Diff(f, t), page # {}
    PROVE  \E d \in page : \A e \in page : e.path <= d.path
<1> DEFINE S == {d.path : d \in page}
<1>1. S \in SUBSET Path /\ S # {}
  BY Zenon, DiffIsDelta DEF Deltas
<1>2. PICK p \in S : \A q \in S : q <= p
  BY Zenon, <1>1, PullAssumption
<1> QED BY Zenon, <1>2

LEMMA PageIsPrefix ==
    ASSUME NEW f \in RootLike, NEW t \in RootLike, NEW cursor \in Nat,
           NEW d \in Diff(f, t), NEW e \in PageAfter(Diff(f, t), cursor), d.path > cursor, d.path <= e.path
    PROVE  d \in PageAfter(Diff(f, t), cursor)
<1>1. \A x \in Diff(f, t) : x.path \in Path
  BY Zenon, DiffIsDelta DEF Deltas
<1>2. \A x \in Diff(f, t) : x.path \in Nat
  BY Zenon, <1>1, PullAssumption
<1>3. e \in Diff(f, t)
  BY Zenon DEF PageAfter
<1>4. ASSUME NEW x \in Diff(f, t), x.path <= d.path PROVE x.path <= e.path
  BY SMTT(30), <1>2, <1>3, <1>4
<1> QED BY Zenon, <1>4 DEF PageAfter

LEMMA KeptOfPage ==
    ASSUME NEW f \in RootLike, NEW t \in RootLike, NEW page \in SUBSET Diff(f, t), NEW low, NEW high,
           \A d \in Diff(f, t) : d.path > low /\ d.path <= high => d \in page
    PROVE  /\ Kept(page) \subseteq Kept(Diff(f, t))
           /\ \A d \in Kept(Diff(f, t)) : d.path > low /\ d.path <= high => d \in Kept(page)
<1>1. Kept(page) \subseteq Kept(Diff(f, t))
  BY Zenon DEF Kept
<1>2. ASSUME NEW d \in Kept(Diff(f, t)), d.path > low, d.path <= high PROVE d \in Kept(page)
  <2>1. PICK e \in Diff(f, t) : /\ e.path \notin Ignored /\ d.path = e.path
                                /\ \/ d = e /\ e.old \notin Ignored
                                   \/ d = Upsert(e.path, e.v) /\ e.old \in Ignored /\ e.kind = "rename"
    BY SMTT(30), KeptOf
  <2>2. e \in page
    BY Zenon, <1>2, <2>1
  <2> QED BY Zenon, <2>1, <2>2 DEF Kept
<1> QED BY Zenon, <1>1, <1>2

-----------------------------------------------------------------------------
(* Stamps.                                                                 *)

\* A new stamp is in no record.
LEMMA FreshIsNew ==
    FreeStamps # {} => /\ Fresh \in Nat /\ Fresh # 0
                 /\ \A p \in Path : Fresh # vault[p].s /\ Fresh # mem.base[p].s /\ Fresh # saved.base[p].s
<1> SUFFICES ASSUME FreeStamps # {} PROVE Fresh \in Nat /\ Fresh # 0 /\ Fresh \notin Stamps
  BY Zenon DEF Stamps
<1>1. Fresh \in FreeStamps
  BY Zenon DEF Fresh
<1> QED BY SMTT(30), <1>1 DEF FreeStamps

-----------------------------------------------------------------------------
(* One record of the page takes a step.                                    *)

Rest(q) == <<q.pc, q.from, q.to, q.root, q.cursor, q.complete, q.last, q.deferred, q.omitted>>

\* The status of one record changes, and nothing else the invariant speaks of.
StatusStep(d, status) ==
    /\ pull' \in Pulls /\ Rest(pull') = Rest(pull)
    /\ DOMAIN pull'.st = DOMAIN pull.st /\ pull'.st[d] = status
    /\ \A e \in DOMAIN pull.st \ {d} : pull'.st[e] = pull.st[e]

LEMMA StatusMapStep ==
    ASSUME NEW st \in StatusMaps, NEW d \in DOMAIN st, NEW x \in Status
    PROVE  /\ [st EXCEPT ![d] = x] \in StatusMaps /\ DOMAIN [st EXCEPT ![d] = x] = DOMAIN st
           /\ [st EXCEPT ![d] = x][d] = x
           /\ \A e \in DOMAIN st \ {d} : [st EXCEPT ![d] = x][e] = st[e]
<1>1. PICK D \in SUBSET Deltas : st \in [D -> Status]
  BY Zenon DEF StatusMaps
<1>2. [st EXCEPT ![d] = x] \in [D -> Status]
  BY Zenon, <1>1
<1> QED BY Zenon, <1>1, <1>2 DEF StatusMaps

\* What the steps of applyDeltas assign to the pull.
Marks(d, x) ==
    \/ Becomes(d, x)
    \/ pull' = [pull EXCEPT !.st[d] = x, !.applied = TRUE]
    \/ pull' = [pull EXCEPT !.st[d] = x, !.downloaded = TRUE]

LEMMA MarksIsStep ==
    ASSUME pull \in Pulls, NEW d \in DOMAIN pull.st, NEW x \in Status, Marks(d, x)
    PROVE  StatusStep(d, x)
<1> DEFINE st == [pull.st EXCEPT ![d] = x]
           next(a, b) == [pull EXCEPT !.st = st, !.applied = a, !.downloaded = b]
<1>1. /\ st \in StatusMaps /\ DOMAIN st = DOMAIN pull.st /\ st[d] = x
      /\ \A e \in DOMAIN pull.st \ {d} : st[e] = pull.st[e]
  <2>1. pull.st \in StatusMaps
    BY Zenon DEF Pulls
  <2> QED BY Zenon, <2>1, StatusMapStep
<1>2. \/ pull' = next(pull.applied, pull.downloaded) \/ pull' = next(TRUE, pull.downloaded)
      \/ pull' = next(pull.applied, TRUE)
  BY Zenon DEF Marks, Becomes, Pulls
<1>3. pull.applied \in BOOLEAN /\ pull.downloaded \in BOOLEAN /\ TRUE \in BOOLEAN
  BY Zenon DEF Pulls
<1> HIDE DEF next
<1>4. PICK a \in BOOLEAN, b \in BOOLEAN : pull' = next(a, b)
  BY <1>2, <1>3, Zenon
<1> HIDE DEF st
<1>5. pull' \in Pulls /\ pull'.st = st /\ Rest(pull') = Rest(pull)
  BY Zenon, <1>1, <1>4 DEF Pulls, Rest, next
<1> QED BY Zenon, <1>1, <1>5 DEF StatusStep

LEMMA BecomesIsStep ==
    ASSUME pull \in Pulls, NEW d \in DOMAIN pull.st, NEW x \in Status, Becomes(d, x)
    PROVE  StatusStep(d, x)
<1>1. Marks(d, x)
  BY Zenon DEF Marks
<1> QED BY Zenon, <1>1, MarksIsStep

\* The root a pull starts from, as a function on paths.
Origin(from) == IF from = NoRoot THEN Zero ELSE from

LEMMA RootsAreMaps ==
    ASSUME NEW from \in Roots, NEW to \in Root
    PROVE  /\ Origin(from) \in RootLike /\ to \in RootLike /\ to # NoRoot
           /\ Work(from, to) = Kept(Diff(Origin(from), to))
BY Zenon, PullAssumption DEF Roots, Origin, RootLike, Zero, Versions, Work

LEMMA WorkDisjoint==
    ASSUME NEW from \in Roots, NEW to \in Root, NEW d \in Work(from, to)
    PROVE  /\ d \in Deltas /\ (d.kind = "rename" <=> d.old # d.path)
           /\ \A e \in Work(from, to) \ {d} : {d.path, d.old} \cap {e.path, e.old} = {}
<1>1. /\ Origin(from) \in RootLike /\ to \in RootLike
      /\ Work(from, to) = Kept(Diff(Origin(from), to))
  BY Zenon, RootsAreMaps
<1>2. d \in Deltas /\ (d.kind = "rename" <=> d.old # d.path)
  BY Zenon, <1>1, KeptIsDelta
<1>3. ASSUME NEW e \in Work(from, to), e # d PROVE {d.path, d.old} \cap {e.path, e.old} = {}
  BY SMTT(30), <1>1, <1>3, KeptDisjoint
<1> QED BY Zenon, <1>2, <1>3

\* What holds of a record of the page in work.
LEMMA RecordFacts ==
    ASSUME PullInv, pull # NoPull, pull.pc = "apply", NEW d \in DOMAIN pull.st
    PROVE  /\ pull \in Pulls /\ up /\ pull.from \in Roots /\ pull.to \in Root /\ pull.from = mem.treeBase
           /\ d \in Work(pull.from, pull.to) /\ d \in Deltas /\ d.path \in Path /\ d.old \in Path
           /\ d.kind = "rename" <=> d.old # d.path
           /\ \A e \in Work(pull.from, pull.to) \ {d} : {d.path, d.old} \cap {e.path, e.old} = {}
           /\ \A e \in DOMAIN pull.st \ {d} : {d.path, d.old} \cap {e.path, e.old} = {}
<1>1. pull \in Pulls /\ up /\ pull.from \in Roots /\ pull.to \in Roots /\ pull.from = mem.treeBase
  BY Zenon DEF PullInv, PullTypes, Position, Pulls
<1>2. pull.to # NoRoot /\ pull.to \in Root
  BY Zenon, <1>1 DEF PullInv, Position, Roots
<1>3. DOMAIN pull.st \subseteq Work(pull.from, pull.to)
  BY Zenon, <1>2 DEF PullInv, Position
<1>4. d \in Work(pull.from, pull.to)
  BY Zenon, <1>3
<1> QED BY Zenon, <1>1, <1>2, <1>3, <1>4, WorkDisjoint DEF Deltas

\* A step on one record keeps the invariant if it leaves the other paths alone, records in
\* the base only what it is done with, and keeps what stamps tell.
LEMMA RecordStep ==
    ASSUME PullInv, pull # NoPull, pull.pc = "apply",
           NEW d \in DOMAIN pull.st, NEW x \in Status, StatusStep(d, x),
           UNCHANGED <<head, paged, waiting, up>>,
           vault' \in [Path -> [h : Bytes, s : Nat]],
           \A p \in Path \ {d.path, d.old} : vault'[p] = vault[p],
           mem' \in Bases, mem'.treeBase = mem.treeBase, mem'.checkpoint = mem.checkpoint,
           mem'.fence = mem.fence,
           \A p \in Path \ {d.path, d.old} : mem'.base[p] = mem.base[p],
           mem'.base = mem.base \/ Applied(mem'.base, d),
           x = "done" => Applied(mem'.base, d),
           saved' \in {saved, mem'},
           Stamped',
           x \in {"marked", "moved"} => d.kind = "rename",
           x = "verified" => d.kind = "delete",
           x \in {"ready", "keep", "clear", "written"} => d.kind = "upsert",
           x \in {"marked", "moved", "verified", "ready", "written"} =>
               LET p == IF x = "marked" THEN d.old ELSE d.path
               IN  p \notin waiting => vault'[p].h \notin Mine
    PROVE  PullInv'
<1>1. /\ pull \in Pulls /\ up /\ pull.from \in Roots /\ pull.to \in Root /\ pull.to # NoRoot
      /\ d \in Work(pull.from, pull.to) /\ d.path \in Path /\ d.old \in Path
      /\ \A e \in Work(pull.from, pull.to) \ {d} : {d.path, d.old} \cap {e.path, e.old} = {}
      /\ \A e \in DOMAIN pull.st \ {d} : {d.path, d.old} \cap {e.path, e.old} = {}
  BY Zenon, RecordFacts, RootsAreMaps
<1>2. \A e \in Work(pull.from, pull.to) : e.path \in Path /\ e.old \in Path
  BY SMTT(30), <1>1, WorkDisjoint DEF Deltas
<1>3. \A e \in Work(pull.from, pull.to) : Applied(mem.base, e) => Applied(mem'.base, e)
  <2> TAKE e \in Work(pull.from, pull.to)
  <2>1. CASE e = d
    BY Zenon, <2>1
  <2>2. CASE e # d
    <3>1. {d.path, d.old} \cap {e.path, e.old} = {}
      BY Zenon, <1>1, <2>2
    <3>2. mem'.base[e.path] = mem.base[e.path] /\ mem'.base[e.old] = mem.base[e.old]
      BY Zenon, <1>2, <3>1
    <3> QED BY Zenon, <3>2 DEF Applied
  <2> QED BY Zenon, <2>1, <2>2
<1>4. /\ pull' \in Pulls /\ pull'.pc = pull.pc /\ pull'.from = pull.from /\ pull'.to = pull.to
      /\ pull'.cursor = pull.cursor /\ pull'.last = pull.last /\ pull'.deferred = pull.deferred
      /\ DOMAIN pull'.st = DOMAIN pull.st /\ pull'.st[d] = x
      /\ \A e \in DOMAIN pull.st \ {d} : pull'.st[e] = pull.st[e]
  BY Zenon DEF StatusStep, Rest
<1>5. pull' # NoPull
  BY SMTT(30), <1>4 DEF NoPull, Pulls
<1>6. PullTypes'
  BY Zenon, <1>1, <1>4 DEF PullInv, PullTypes
<1>7. Resumable(mem')
  <2>1. mem.checkpoint # NoCheckpoint =>
          /\ mem.checkpoint.to \in Root
          /\ Covers(mem'.base, mem.checkpoint.from, mem.checkpoint.to, mem.checkpoint.cursor)
    BY Zenon, <1>3 DEF PullInv, Resumable, Position, Covers
  <2>2. mem.treeBase = NoRoot => mem.fence
    BY Zenon DEF PullInv, Position
  <2> QED BY Zenon, <2>1, <2>2 DEF Resumable
<1>8. Resumable(saved')
  BY Zenon, <1>7 DEF PullInv
<1>9. Position'
  <2>1. \A e \in DOMAIN pull.st : pull'.st[e] = "done" => Applied(mem'.base, e)
    <3> TAKE e \in DOMAIN pull.st
    <3>1. CASE e = d
      BY Zenon, <1>4, <3>1
    <3>2. CASE e # d
      BY Zenon, <1>1, <1>3, <1>4, <3>2 DEF PullInv, Position
    <3> QED BY Zenon, <3>1, <3>2
  <2>2. paged /\ ~pull.deferred => Covers(mem'.base, pull.from, pull.to, pull.cursor)
    BY Zenon, <1>1, <1>3 DEF PullInv, Position, Covers
  <2> QED BY Zenon, <1>1, <1>4, <1>5, <2>1, <2>2 DEF PullInv, Position
<1>10. Verified'
  <2> SUFFICES ASSUME NEW e \in DOMAIN pull.st
               PROVE  /\ pull'.st[e] \in {"marked", "moved"} => e.kind = "rename"
                      /\ pull'.st[e] = "verified" => e.kind = "delete"
                      /\ pull'.st[e] \in {"ready", "keep", "clear", "written"} => e.kind = "upsert"
                      /\ pull'.st[e] \in {"marked", "moved", "verified", "ready", "written"}
                         /\ Subject(e)' \notin waiting => vault'[Subject(e)'].h \notin Mine
    BY Zenon, <1>4, <1>5 DEF Verified
  <2>1. CASE e = d
    BY Zenon, <1>4, <2>1 DEF Subject
  <2>2. CASE e # d
    <3>1. pull'.st[e] = pull.st[e] /\ Subject(e)' = Subject(e)
      BY Zenon, <1>4, <2>2 DEF Subject
    <3>2. vault'[Subject(e)] = vault[Subject(e)]
      <4>1. e \in Work(pull.from, pull.to)
        BY Zenon, <1>1 DEF PullInv, Position
      <4>2. {d.path, d.old} \cap {e.path, e.old} = {} /\ Subject(e) \in {e.path, e.old}
        BY Zenon, <1>1, <2>2 DEF Subject
      <4> QED BY Zenon, <1>2, <4>1, <4>2
    <3> QED BY Zenon, <3>1, <3>2 DEF PullInv, Verified
  <2> QED BY Zenon, <2>1, <2>2
<1> QED BY Zenon, <1>6, <1>7, <1>8, <1>9, <1>10 DEF PullInv

LEMMA DeletesAreZero ==
    ASSUME NEW from \in Roots, NEW to \in Root, NEW d \in Work(from, to), d.kind = "delete"
    PROVE  d.v = 0
<1>1. /\ Origin(from) \in RootLike /\ to \in RootLike
      /\ Work(from, to) = Kept(Diff(Origin(from), to))
  BY Zenon, RootsAreMaps
<1>2. PICK e \in Diff(Origin(from), to) : d = e \/ d = Upsert(e.path, e.v)
  BY SMTT(30), <1>1, KeptOf
<1>3. e = d
  BY SMTT(30), <1>2 DEF Upsert
<1> QED BY SMTT(30), <1>2, <1>3, DiffCases DEF Renaming, Delete, Upsert

LEMMA ServerBytesAreNotMine ==
    "none" \notin Mine /\ \A v \in Versions : Hash(v) \notin Mine /\ Hash(v) \in Bytes
BY Zenon, PullAssumption DEF Versions, Hash, Bytes

\* A file that has the stamp of an entry, or the hash of a version, is not the user's.
LEMMA MatchedIsNotMine ==
    ASSUME PullInv, NEW p \in Path, p \notin waiting,
           \/ \E q \in Path : StatMatches(p, mem.base[q])
           \/ \E v \in Versions : Hashes(p, Hash(v))
           \/ vault[p] = NoFile
    PROVE  vault[p].h \notin Mine
<1>1. CASE \E q \in Path : StatMatches(p, mem.base[q])
  BY Zenon, <1>1 DEF PullInv, Stamped, StatMatches
<1>2. CASE \E v \in Versions : Hashes(p, Hash(v))
  BY Zenon, <1>2, ServerBytesAreNotMine DEF Hashes
<1>3. CASE vault[p] = NoFile
  BY SMTT(30), <1>3, ServerBytesAreNotMine DEF NoFile
<1> QED BY Zenon, <1>1, <1>2, <1>3

LEMMA NotGuarded ==
    ASSUME NEW d \in Deltas, ~Guarded(d)
    PROVE  d.path \notin waiting /\ d.old \notin waiting
BY Zenon DEF Guarded

LEMMA SaveAfterSaves ==
    ASSUME NEW d, SaveAfter(d)
    PROVE  saved' \in {saved, mem'}
BY Zenon DEF SaveAfter

LEMMA EntryIsSet ==
    ASSUME mem \in Bases, NEW p \in Path, NEW entry \in Entries, mem' = [mem EXCEPT !.base[p] = entry]
    PROVE  /\ mem' \in Bases /\ mem'.treeBase = mem.treeBase /\ mem'.checkpoint = mem.checkpoint
           /\ mem'.fence = mem.fence /\ mem'.base[p] = entry
           /\ \A q \in Path \ {p} : mem'.base[q] = mem.base[q]
<1>1. [mem.base EXCEPT ![p] = entry] \in [Path -> Entries]
  BY Zenon DEF Bases
<1> QED BY Zenon, <1>1 DEF Bases

LEMMA NoEntryIsEntry == NoEntry \in Entries /\ NoEntry.s = 0 /\ NoEntry.v = 0
BY Zenon DEF NoEntry, Entries, Versions

\* A base may record the stamp of a file that is not the user's.
LEMMA StampsRecorded ==
    ASSUME PullInv, NEW f \in Path, f \notin waiting => vault[f].h \notin Mine,
           \A q \in Path : mem'.base[q].s \in {mem.base[q].s, vault[f].s, 0},
           saved' \in {saved, mem'}, UNCHANGED <<vault, waiting>>
    PROVE  Stamped'
<1>1. \A p \in Path : vault[p].h \in Mine => vault[p].s # 0
  BY SMTT(30), ServerBytesAreNotMine DEF PullInv, Stamped, NoFile
<1>2. \A p \in Path \ waiting : vault[p].h \in Mine => \A q \in Path : mem'.base[q].s # vault[p].s
  BY Zenon, <1>1 DEF PullInv, Stamped
<1>3. \A p \in Path \ waiting : vault[p].h \in Mine => \A q \in Path : saved'.base[q].s # vault[p].s
  BY Zenon, <1>2 DEF PullInv, Stamped
<1> QED BY Zenon, <1>2, <1>3 DEF PullInv, Stamped

\* A file that is gone, or is not the user's, may take any stamp nobody else has.
LEMMA StampsWritten ==
    ASSUME PullInv,
           \A p \in Path : vault'[p] = vault[p] \/ vault'[p] = NoFile
                           \/ (vault'[p].h \notin Mine /\ vault'[p].s # 0
                               /\ \A q \in Path : vault[q].h \in Mine => vault'[p].s # vault[q].s),
           \A q \in Path : mem'.base[q].s \in {mem.base[q].s, 0},
           saved' \in {saved, mem'}, waiting' = waiting
    PROVE  Stamped'
<1> USE ServerBytesAreNotMine
<1>1. \A p \in Path : vault[p].h \in Mine => vault[p].s # 0
  BY SMTT(30) DEF PullInv, Stamped, NoFile
<1>2. \A p \in Path : vault'[p].h \in Mine => vault'[p] = vault[p]
  BY SMTT(30) DEF NoFile
<1>3. \A p \in Path : vault'[p] # NoFile => vault'[p].s # 0
  BY Zenon DEF PullInv, Stamped
<1>4. \A p \in Path : vault'[p].h \in Mine => \A q \in Path \ {p} : vault'[q].s # vault'[p].s
  BY SMTT(30), <1>1, <1>2 DEF PullInv, Stamped, NoFile
<1>5. \A p \in Path \ waiting : vault[p].h \in Mine => \A q \in Path : mem'.base[q].s # vault[p].s
  BY Zenon, <1>1 DEF PullInv, Stamped
<1>6. \A p \in Path \ waiting : vault[p].h \in Mine => \A q \in Path : saved'.base[q].s # vault[p].s
  BY Zenon, <1>5 DEF PullInv, Stamped
<1> QED BY SMTT(30), <1>2, <1>3, <1>4, <1>5, <1>6 DEF Stamped

\* A step that only changes a record's status, and may save the base.
LEMMA StatusOnly ==
    ASSUME PullInv, pull # NoPull, pull.pc = "apply",
           NEW d \in DOMAIN pull.st, NEW x \in Status \ {"done"}, StatusStep(d, x),
           UNCHANGED <<head, paged, waiting, up, vault, mem>>, saved' \in {saved, mem'},
           x \in {"marked", "moved"} => d.kind = "rename",
           x = "verified" => d.kind = "delete",
           x \in {"ready", "keep", "clear", "written"} => d.kind = "upsert",
           x \in {"marked", "moved", "verified", "ready", "written"} =>
               LET p == IF x = "marked" THEN d.old ELSE d.path
               IN  p \notin waiting => vault[p].h \notin Mine
    PROVE  PullInv'
<1>1. Stamped'
  BY Zenon DEF PullInv, Stamped
<1>2. mem' \in Bases /\ vault' \in [Path -> [h : Bytes, s : Nat]]
  BY Zenon DEF PullInv, PullTypes
<1> QED BY Zenon, <1>1, <1>2, RecordStep

-----------------------------------------------------------------------------
(* The steps of applyDeltas.                                               *)

Applying(d) == PullInv /\ pull # NoPull /\ d \in DOMAIN pull.st /\ UNCHANGED <<head, paged>>

LEMMA CheckRenameStep == \A d : Applying(d) /\ CheckRename(d) => PullInv'
<1> SUFFICES ASSUME PullInv, pull # NoPull, NEW d \in DOMAIN pull.st, CheckRename(d), UNCHANGED <<head, paged>>
             PROVE  PullInv'
  BY Zenon DEF Applying
<1>1. pull.pc = "apply" /\ d.kind = "rename" /\ UNCHANGED <<vault, mem, saved, waiting, up>>
  BY Zenon DEF CheckRename, Turn
<1>2. pull \in Pulls /\ d \in Deltas /\ d.path \in Path /\ d.old \in Path /\ d.v \in Versions
  BY Zenon, <1>1, RecordFacts DEF Deltas
<1>3. CASE Becomes(d, "deferred")
  BY Zenon, <1>1, <1>2, <1>3, BecomesIsStep, StatusOnly DEF Status
<1>4. CASE ~Becomes(d, "deferred")
  <2>1. /\ ~Guarded(d)
        /\ \/ /\ Becomes(d, "marked")
              /\ StatMatches(d.old, mem.base[d.old]) \/ Hashes(d.old, Hash(d.v))
           \/ /\ Becomes(d, "moved")
              /\ \/ StatMatches(d.path, mem.base[d.path]) \/ StatMatches(d.path, mem.base[d.old])
                 \/ Hashes(d.path, Hash(d.v))
    BY Zenon, <1>4 DEF CheckRename
  <2>2. d.path \notin waiting /\ d.old \notin waiting
    BY Zenon, <1>2, <2>1, NotGuarded
  <2>3. CASE Becomes(d, "marked") /\ (StatMatches(d.old, mem.base[d.old]) \/ Hashes(d.old, Hash(d.v)))
    <3>1. vault[d.old].h \notin Mine
      BY Zenon, <1>2, <2>2, <2>3, MatchedIsNotMine
    <3> QED BY Zenon, <1>1, <1>2, <2>3, <3>1, BecomesIsStep, StatusOnly DEF Status
  <2>4. CASE /\ Becomes(d, "moved")
             /\ \/ StatMatches(d.path, mem.base[d.path]) \/ StatMatches(d.path, mem.base[d.old])
                \/ Hashes(d.path, Hash(d.v))
    <3>1. vault[d.path].h \notin Mine
      BY Zenon, <1>2, <2>2, <2>4, MatchedIsNotMine
    <3> QED BY Zenon, <1>1, <1>2, <2>4, <3>1, BecomesIsStep, StatusOnly DEF Status
  <2> QED BY Zenon, <2>1, <2>3, <2>4
<1> QED BY Zenon, <1>3, <1>4

LEMMA MoveFileStep == \A d : Applying(d) /\ MoveFile(d) => PullInv'
<1> SUFFICES ASSUME PullInv, pull # NoPull, NEW d \in DOMAIN pull.st, MoveFile(d), UNCHANGED <<head, paged>>
             PROVE  PullInv'
  BY Zenon DEF Applying
<1>1. pull.pc = "apply" /\ pull.st[d] = "marked" /\ UNCHANGED <<mem, saved, waiting, up>>
  BY Zenon DEF MoveFile, Turn
<1>2. pull \in Pulls /\ d \in Deltas /\ d.path \in Path /\ d.old \in Path
  BY Zenon, <1>1, RecordFacts
<1>3. CASE Becomes(d, "deferred") /\ vault' = vault
  BY Zenon, <1>1, <1>2, <1>3, BecomesIsStep, StatusOnly DEF Status
<1>4. CASE /\ ~Guarded(d) /\ vault[d.path] = NoFile /\ Becomes(d, "moved")
           /\ vault' = [vault EXCEPT ![d.path] = vault[d.old], ![d.old] = NoFile]
  <2>1. d.kind = "rename" /\ d.old # d.path /\ vault[d.old].h \notin Mine
    <3>1. d.kind = "rename" /\ (d.old \notin waiting => vault[d.old].h \notin Mine)
      BY Zenon, <1>1 DEF PullInv, Verified, Subject
    <3> QED BY Zenon, <1>1, <1>2, <1>4, <3>1, NotGuarded, RecordFacts
  <2>2. vault \in [Path -> [h : Bytes, s : Nat]] /\ mem \in Bases
    BY Zenon DEF PullInv, PullTypes
  <2>3. NoFile \in [h : Bytes, s : Nat]
    BY Zenon, <1>2, <1>4, <2>2
  <2>4. /\ vault'[d.path] = vault[d.old] /\ vault'[d.old] = NoFile
        /\ \A p \in Path \ {d.path, d.old} : vault'[p] = vault[p]
        /\ vault' \in [Path -> [h : Bytes, s : Nat]]
    BY Zenon, <1>2, <1>4, <2>1, <2>2, <2>3
  <2>5. \/ vault'[d.path] = NoFile
        \/ vault'[d.path].s # 0 /\ \A q \in Path : vault[q].h \in Mine => vault'[d.path].s # vault[q].s
    <3>1. vault[d.old] # NoFile => vault[d.old].s # 0
      BY Zenon, <1>2 DEF PullInv, Stamped
    <3>2. \A q \in Path : vault[q].h \in Mine => vault[d.old].s # vault[q].s
      BY Zenon, <1>2, <2>1 DEF PullInv, Stamped
    <3> QED BY Zenon, <2>4, <3>1, <3>2
  <2>6. Stamped'
    BY Zenon, <1>1, <2>1, <2>4, <2>5, StampsWritten
  <2>7. StatusStep(d, "moved") /\ "moved" \in Status
    BY Zenon, <1>2, <1>4, BecomesIsStep DEF Status
  <2>8. vault'[d.path].h \notin Mine
    BY Zenon, <2>1, <2>4
  <2>9. mem' \in Bases /\ mem'.base = mem.base /\ saved' \in {saved, mem'}
    BY Zenon, <1>1, <2>2
  <2> QED BY Zenon, <1>1, <2>1, <2>4, <2>6, <2>7, <2>8, <2>9, RecordStep
<1> QED BY Zenon, <1>3, <1>4 DEF MoveFile

LEMMA RecordRenameStep == \A d : Applying(d) /\ RecordRename(d) => PullInv'
<1> SUFFICES ASSUME PullInv, pull # NoPull, NEW d \in DOMAIN pull.st, RecordRename(d), UNCHANGED <<head, paged>>
             PROVE  PullInv'
  BY Zenon DEF Applying
<1>1. pull.pc = "apply" /\ pull.st[d] = "moved" /\ saved' = mem' /\ UNCHANGED <<vault, waiting, up>>
  BY Zenon DEF RecordRename, Turn
<1>2. /\ pull \in Pulls /\ d \in Deltas /\ d.path \in Path /\ d.old \in Path /\ d.v \in Versions
      /\ d.kind = "rename" <=> d.old # d.path
  BY Zenon, <1>1, RecordFacts DEF Deltas
<1>3. d.kind = "rename" /\ d.old # d.path /\ (d.path \notin waiting => vault[d.path].h \notin Mine)
  BY Zenon, <1>1, <1>2 DEF PullInv, Verified, Subject
<1>4. vault \in [Path -> [h : Bytes, s : Nat]] /\ mem \in Bases
  BY Zenon DEF PullInv, PullTypes
<1> DEFINE entry == [v |-> d.v, s |-> vault[d.path].s]
           base == [mem.base EXCEPT ![d.old] = NoEntry, ![d.path] = entry]
<1>5. entry \in Entries /\ entry.v = d.v /\ entry.s = vault[d.path].s
  BY Zenon, <1>2, <1>4 DEF Entries
<1> HIDE DEF entry
<1>6. /\ base \in [Path -> Entries] /\ base[d.path] = entry /\ base[d.old] = NoEntry
      /\ \A p \in Path \ {d.path, d.old} : base[p] = mem.base[p]
  BY Zenon, <1>2, <1>3, <1>4, <1>5, NoEntryIsEntry DEF Bases
<1>7. mem' = [mem EXCEPT !.base = base]
  BY Zenon DEF RecordRename, entry
<1> HIDE DEF base
<1>8. /\ mem' \in Bases /\ mem'.base = base /\ mem'.treeBase = mem.treeBase
      /\ mem'.checkpoint = mem.checkpoint /\ mem'.fence = mem.fence
  BY Zenon, <1>4, <1>6, <1>7 DEF Bases
<1>9. Applied(mem'.base, d)
  BY Zenon, <1>5, <1>6, <1>8 DEF Applied
<1>10. \A q \in Path : mem'.base[q].s \in {mem.base[q].s, vault[d.path].s, 0}
  BY Zenon, <1>5, <1>6, <1>8, NoEntryIsEntry
<1>11. Stamped'
  BY Zenon, <1>1, <1>2, <1>3, <1>10, StampsRecorded
<1>12. StatusStep(d, "done") /\ "done" \in Status
  BY Zenon, <1>2, MarksIsStep DEF RecordRename, Status, Marks
<1> QED BY Zenon, <1>1, <1>4, <1>6, <1>8, <1>9, <1>11, <1>12, RecordStep

LEMMA CheckDeleteStep == \A d : Applying(d) /\ CheckDelete(d) => PullInv'
<1> SUFFICES ASSUME PullInv, pull # NoPull, NEW d \in DOMAIN pull.st, CheckDelete(d), UNCHANGED <<head, paged>>
             PROVE  PullInv'
  BY Zenon DEF Applying
<1>1. /\ pull.pc = "apply" /\ d.kind = "delete" /\ saved' \in {saved, mem'}
      /\ UNCHANGED <<vault, mem, waiting, up>>
  BY Zenon, SaveAfterSaves DEF CheckDelete, Turn
<1>2. pull \in Pulls /\ d \in Deltas /\ d.path \in Path /\ d.old \in Path
  BY Zenon, <1>1, RecordFacts
<1>3. CASE Becomes(d, "deferred")
  BY Zenon, <1>1, <1>2, <1>3, BecomesIsStep, StatusOnly DEF Status
<1>4. CASE Becomes(d, "verified") /\ ~Guarded(d) /\ DiskStillMatchesDeleteBase(d.path)
  <2>1. mem.base[d.path].v \in Versions
    BY Zenon, <1>2 DEF PullInv, PullTypes, Bases, Entries
  <2>2. vault[d.path].h \notin Mine
    BY Zenon, <1>2, <1>4, <2>1, NotGuarded, MatchedIsNotMine DEF DiskStillMatchesDeleteBase
  <2> QED BY Zenon, <1>1, <1>2, <1>4, <2>2, BecomesIsStep, StatusOnly DEF Status
<1> QED BY Zenon, <1>3, <1>4 DEF CheckDelete

\* The file is gone.
LEMMA FileIsGone ==
    ASSUME PullInv, NEW p \in Path, vault' = [vault EXCEPT ![p] = NoFile],
           waiting' = waiting, saved' \in {saved, mem'},
           \A q \in Path : mem'.base[q].s \in {mem.base[q].s, 0}
    PROVE  /\ Stamped' /\ vault' \in [Path -> [h : Bytes, s : Nat]]
           /\ \A q \in Path \ {p} : vault'[q] = vault[q]
<1>1. vault \in [Path -> [h : Bytes, s : Nat]]
  BY Zenon DEF PullInv, PullTypes
<1>2. NoFile \in [h : Bytes, s : Nat]
  <2>1. "none" \in Bytes
    BY Zenon DEF Bytes, Versions, Hash
  <2> QED BY Zenon, <2>1 DEF NoFile
<1>3. /\ vault' \in [Path -> [h : Bytes, s : Nat]] /\ vault'[p] = NoFile
      /\ \A q \in Path \ {p} : vault'[q] = vault[q]
  BY Zenon, <1>1, <1>2
<1>4. Stamped'
  BY Zenon, <1>3, StampsWritten
<1> QED BY Zenon, <1>3, <1>4

LEMMA DeleteFileStep == \A d : Applying(d) /\ DeleteFile(d) => PullInv'
<1> SUFFICES ASSUME PullInv, pull # NoPull, NEW d \in DOMAIN pull.st, DeleteFile(d), UNCHANGED <<head, paged>>
             PROVE  PullInv'
  BY Zenon DEF Applying
<1>1. /\ pull.pc = "apply" /\ pull.st[d] = "verified" /\ saved' \in {saved, mem'}
      /\ UNCHANGED <<waiting, up>>
  BY Zenon, SaveAfterSaves DEF DeleteFile, Turn
<1>2. /\ pull \in Pulls /\ pull.from \in Roots /\ pull.to \in Root /\ d \in Work(pull.from, pull.to)
      /\ d \in Deltas /\ d.path \in Path /\ d.old \in Path
      /\ d.kind = "rename" <=> d.old # d.path
  BY Zenon, <1>1, RecordFacts
<1>3. CASE Becomes(d, "deferred") /\ UNCHANGED <<vault, mem>>
  BY Zenon, <1>1, <1>2, <1>3, BecomesIsStep, StatusOnly DEF Status
<1>4. CASE /\ vault' = [vault EXCEPT ![d.path] = NoFile]
           /\ mem' = [mem EXCEPT !.base[d.path] = NoEntry]
           /\ Marks(d, "done")
  <2>1. d.kind = "delete" /\ d.v = 0 /\ d.old = d.path
    <3>1. d.kind = "delete"
      BY Zenon, <1>1 DEF PullInv, Verified
    <3> QED BY Zenon, <1>2, <3>1, DeletesAreZero
  <2>2. /\ mem' \in Bases /\ mem'.treeBase = mem.treeBase /\ mem'.checkpoint = mem.checkpoint
        /\ mem'.fence = mem.fence /\ mem'.base[d.path] = NoEntry
        /\ \A q \in Path \ {d.path} : mem'.base[q] = mem.base[q]
    BY Zenon, <1>2, <1>4, NoEntryIsEntry, EntryIsSet DEF PullInv, PullTypes
  <2>3. Applied(mem'.base, d)
    BY Zenon, <2>1, <2>2, NoEntryIsEntry DEF Applied
  <2>4. \A q \in Path : mem'.base[q].s \in {mem.base[q].s, 0}
    BY Zenon, <2>2, NoEntryIsEntry
  <2>5. /\ Stamped' /\ vault' \in [Path -> [h : Bytes, s : Nat]]
        /\ \A q \in Path \ {d.path} : vault'[q] = vault[q]
    BY Zenon, <1>1, <1>2, <1>4, <2>4, FileIsGone
  <2>6. StatusStep(d, "done") /\ "done" \in Status
    BY Zenon, <1>2, <1>4, MarksIsStep DEF Status
  <2> QED BY Zenon, <1>1, <2>2, <2>3, <2>5, <2>6, RecordStep
<1> QED BY Zenon, <1>3, <1>4 DEF DeleteFile, Marks

\* The base records a version with the stamp the file has by now.
LEMMA EntryRecorded ==
    ASSUME PullInv, pull # NoPull, pull.pc = "apply", NEW d \in DOMAIN pull.st,
           d.kind = "upsert", d.path \notin waiting => vault[d.path].h \notin Mine,
           mem' = [mem EXCEPT !.base[d.path] = [v |-> d.v, s |-> vault[d.path].s]],
           Marks(d, "done"),
           UNCHANGED <<vault, waiting, up, head, paged>>, saved' \in {saved, mem'}
    PROVE  PullInv'
<1>1. /\ pull \in Pulls /\ d \in Deltas /\ d.path \in Path /\ d.old = d.path /\ d.v \in Versions
  BY Zenon, RecordFacts DEF Deltas
<1> DEFINE entry == [v |-> d.v, s |-> vault[d.path].s]
<1>2. entry \in Entries /\ entry.v = d.v /\ entry.s = vault[d.path].s
  BY Zenon, <1>1 DEF Entries, PullInv, PullTypes
<1>3. mem' = [mem EXCEPT !.base[d.path] = entry]
  BY Zenon
<1> HIDE DEF entry
<1>4. /\ mem' \in Bases /\ mem'.treeBase = mem.treeBase /\ mem'.checkpoint = mem.checkpoint
      /\ mem'.fence = mem.fence /\ mem'.base[d.path] = entry
      /\ \A q \in Path \ {d.path} : mem'.base[q] = mem.base[q]
  BY Zenon, <1>1, <1>2, <1>3, EntryIsSet DEF PullInv, PullTypes
<1>5. Applied(mem'.base, d)
  BY Zenon, <1>1, <1>2, <1>4 DEF Applied
<1>6. Stamped'
  <2>1. \A q \in Path : mem'.base[q].s \in {mem.base[q].s, vault[d.path].s, 0}
    BY Zenon, <1>2, <1>4
  <2> QED BY Zenon, <1>1, <2>1, StampsRecorded
<1>7. StatusStep(d, "done") /\ "done" \in Status
  BY Zenon, <1>1, MarksIsStep DEF Status
<1>8. vault' \in [Path -> [h : Bytes, s : Nat]]
  BY Zenon DEF PullInv, PullTypes
<1> QED BY Zenon, <1>1, <1>4, <1>5, <1>6, <1>7, <1>8, RecordStep

LEMMA PrepareStep == \A d : Applying(d) /\ Prepare(d) => PullInv'
<1> SUFFICES ASSUME PullInv, pull # NoPull, NEW d \in DOMAIN pull.st, Prepare(d), UNCHANGED <<head, paged>>
             PROVE  PullInv'
  BY Zenon DEF Applying
<1>1. /\ pull.pc = "apply" /\ d.kind = "upsert" /\ saved' \in {saved, mem'}
      /\ UNCHANGED <<vault, waiting, up>>
  BY Zenon, SaveAfterSaves DEF Prepare, Turn
<1>2. pull \in Pulls /\ d \in Deltas /\ d.path \in Path /\ d.v \in Versions
  BY Zenon, <1>1, RecordFacts DEF Deltas
<1>3. CASE mem' = mem /\ (Becomes(d, "deferred") \/ Becomes(d, "keep"))
  BY Zenon, <1>1, <1>2, <1>3, BecomesIsStep, StatusOnly DEF Status
<1>4. CASE mem' = mem /\ ~Guarded(d) /\ ~PreserveExisting(d.path) /\ Becomes(d, "ready")
  <2>1. mem.base[d.path].v \in Versions
    BY Zenon, <1>2 DEF PullInv, PullTypes, Bases, Entries
  <2>2. \/ vault[d.path] = NoFile \/ Hashes(d.path, Hash(mem.base[d.path].v))
        \/ StatMatches(d.path, mem.base[d.path])
    BY Zenon, <1>4 DEF PreserveExisting
  <2>3. vault[d.path].h \notin Mine
    BY Zenon, <1>2, <1>4, <2>1, <2>2, NotGuarded, MatchedIsNotMine
  <2> QED BY Zenon, <1>1, <1>2, <1>4, <2>3, BecomesIsStep, StatusOnly DEF Status
<1>5. CASE /\ ~Guarded(d) /\ (StatMatches(d.path, mem.base[d.path]) \/ Hashes(d.path, Hash(d.v)))
           /\ mem' = [mem EXCEPT !.base[d.path] = [v |-> d.v, s |-> vault[d.path].s]]
           /\ Marks(d, "done")
  <2>1. vault[d.path].h \notin Mine
    BY Zenon, <1>2, <1>5, NotGuarded, MatchedIsNotMine
  <2> QED BY Zenon, <1>1, <1>5, <2>1, EntryRecorded
<1> QED BY Zenon, <1>3, <1>4, <1>5 DEF Prepare, Marks

LEMMA MoveAsideStep == \A d : Applying(d) /\ MoveAside(d) => PullInv'
<1> SUFFICES ASSUME PullInv, pull # NoPull, NEW d \in DOMAIN pull.st, MoveAside(d), UNCHANGED <<head, paged>>
             PROVE  PullInv'
  BY Zenon DEF Applying
<1>1. /\ pull.pc = "apply" /\ pull.st[d] = "keep" /\ saved' \in {saved, mem'}
      /\ UNCHANGED <<mem, waiting, up>>
  BY Zenon, SaveAfterSaves DEF MoveAside, Turn
<1>2. pull \in Pulls /\ d \in Deltas /\ d.path \in Path /\ d.kind = "upsert"
  BY Zenon, <1>1, RecordFacts DEF PullInv, Verified
<1>3. CASE Becomes(d, "deferred") /\ UNCHANGED vault
  BY Zenon, <1>1, <1>2, <1>3, BecomesIsStep, StatusOnly DEF Status
<1>4. CASE vault' = [vault EXCEPT ![d.path] = NoFile] /\ Becomes(d, "clear")
  <2>1. /\ Stamped' /\ vault' \in [Path -> [h : Bytes, s : Nat]]
        /\ \A q \in Path \ {d.path} : vault'[q] = vault[q]
    BY Zenon, <1>1, <1>2, <1>4, FileIsGone
  <2>2. mem' \in Bases
    BY Zenon, <1>1 DEF PullInv, PullTypes
  <2>3. StatusStep(d, "clear") /\ "clear" \in Status
    BY Zenon, <1>2, <1>4, BecomesIsStep DEF Status
  <2> QED BY Zenon, <1>1, <1>2, <2>1, <2>2, <2>3, RecordStep
<1> QED BY Zenon, <1>3, <1>4 DEF MoveAside

LEMMA WriteStep == \A d : Applying(d) /\ Write(d) => PullInv'
<1> SUFFICES ASSUME PullInv, pull # NoPull, NEW d \in DOMAIN pull.st, Write(d), UNCHANGED <<head, paged>>
             PROVE  PullInv'
  BY Zenon DEF Applying
<1>1. /\ pull.pc = "apply" /\ pull.st[d] \in {"ready", "clear"} /\ saved' \in {saved, mem'}
      /\ UNCHANGED <<mem, waiting, up>>
  BY Zenon, SaveAfterSaves DEF Write, Turn
<1>2. pull \in Pulls /\ d \in Deltas /\ d.path \in Path /\ d.v \in Versions /\ d.kind = "upsert"
  BY Zenon, <1>1, RecordFacts DEF PullInv, Verified, Deltas
<1>3. CASE Becomes(d, "deferred") /\ UNCHANGED vault
  BY Zenon, <1>1, <1>2, <1>3, BecomesIsStep, StatusOnly DEF Status
<1>4. CASE /\ FreeStamps # {} /\ vault' = [vault EXCEPT ![d.path] = [h |-> Hash(d.v), s |-> Fresh]]
           /\ Marks(d, "written")
  <2>1. /\ Fresh \in Nat /\ Fresh # 0
        /\ \A p \in Path : Fresh # vault[p].s
    BY Zenon, <1>4, FreshIsNew
  <2>2. Hash(d.v) \in Bytes /\ Hash(d.v) \notin Mine
    BY Zenon, <1>2, ServerBytesAreNotMine
  <2>3. /\ vault'[d.path].h = Hash(d.v) /\ vault'[d.path].s = Fresh
        /\ \A q \in Path \ {d.path} : vault'[q] = vault[q]
        /\ vault' \in [Path -> [h : Bytes, s : Nat]]
    BY Zenon, <1>2, <1>4, <2>1, <2>2 DEF PullInv, PullTypes
  <2>4. Stamped'
    BY Zenon, <1>1, <2>1, <2>2, <2>3, StampsWritten
  <2>5. mem' \in Bases
    BY Zenon, <1>1 DEF PullInv, PullTypes
  <2>6. StatusStep(d, "written") /\ "written" \in Status
    BY Zenon, <1>2, <1>4, MarksIsStep DEF Status
  <2> QED BY Zenon, <1>1, <1>2, <2>2, <2>3, <2>4, <2>5, <2>6, RecordStep
<1> QED BY Zenon, <1>3, <1>4 DEF Write, Marks

LEMMA SetEntryStep == \A d : Applying(d) /\ SetEntry(d) => PullInv'
<1> SUFFICES ASSUME PullInv, pull # NoPull, NEW d \in DOMAIN pull.st, SetEntry(d), UNCHANGED <<head, paged>>
             PROVE  PullInv'
  BY Zenon DEF Applying
<1>1. pull.pc = "apply" /\ pull.st[d] = "written"
  BY Zenon DEF SetEntry, Turn
<1>2. d.kind = "upsert" /\ (d.path \notin waiting => vault[d.path].h \notin Mine)
  BY Zenon, <1>1 DEF PullInv, Verified, Subject
<1> QED BY Zenon, <1>1, <1>2, EntryRecorded, SaveAfterSaves DEF SetEntry, Marks

-----------------------------------------------------------------------------
(* The other steps.                                                        *)

LEMMA NoPullIsIdle ==
    /\ NoPull \notin Pulls /\ NoPull.pc = "idle"
    /\ pull.pc \in {"fetch", "apply", "root", "adopt"} => pull # NoPull
BY SMTT(30) DEF NoPull, Pulls

\* Stamps a base takes over from the base in memory or on the disk.
LEMMA StampsKept ==
    ASSUME PullInv, UNCHANGED <<vault, waiting>>,
           \A q \in Path : mem'.base[q].s \in {mem.base[q].s, saved.base[q].s, 0},
           \A q \in Path : saved'.base[q].s \in {mem.base[q].s, saved.base[q].s, 0}
    PROVE  Stamped'
<1>1. \A p \in Path : vault[p].h \in Mine => vault[p].s # 0
  BY SMTT(30), ServerBytesAreNotMine DEF PullInv, Stamped, NoFile
<1>2. \A p \in Path \ waiting : vault[p].h \in Mine =>
         \A q \in Path : mem'.base[q].s # vault[p].s /\ saved'.base[q].s # vault[p].s
  BY Zenon, <1>1 DEF PullInv, Stamped
<1> QED BY Zenon, <1>2 DEF PullInv, Stamped

LEMMA PullEnds ==
    ASSUME PullInv, pull' = NoPull, UNCHANGED <<head, paged, vault, waiting>>,
           up' \in BOOLEAN, mem' \in Bases, saved' \in Bases, Resumable(mem'), Resumable(saved'),
           mem'.base \in {mem.base, saved.base}, saved'.base \in {mem.base, saved.base}
    PROVE  PullInv'
<1>1. Stamped'
  BY Zenon, StampsKept
<1>2. PullTypes' /\ Position' /\ Verified'
  BY Zenon DEF PullInv, PullTypes, Position, Verified
<1> QED BY Zenon, <1>1, <1>2 DEF PullInv

LEMMA CheckpointCleared ==
    ASSUME PullInv, mem' = [mem EXCEPT !.checkpoint = NoCheckpoint]
    PROVE  /\ mem' \in Bases /\ Resumable(mem') /\ mem'.base = mem.base /\ mem'.treeBase = mem.treeBase
           /\ mem'.checkpoint = NoCheckpoint /\ mem'.fence = mem.fence
<1>1. mem \in Bases /\ Resumable(mem)
  BY Zenon DEF PullInv, PullTypes
<1>2. NoCheckpoint \in Checkpoints
  BY Zenon DEF NoCheckpoint, Checkpoints, Roots
<1>3. /\ mem' \in Bases /\ mem'.base = mem.base /\ mem'.treeBase = mem.treeBase
      /\ mem'.checkpoint = NoCheckpoint /\ mem'.fence = mem.fence
  BY Zenon, <1>1, <1>2 DEF Bases
<1> QED BY Zenon, <1>1, <1>3 DEF Resumable

LEMMA StartPullStep == PullInv /\ StartPull /\ UNCHANGED <<head, paged>> => PullInv'
<1> SUFFICES ASSUME PullInv, StartPull, UNCHANGED <<head, paged>> PROVE PullInv'
  BY Zenon
<1> DEFINE cp == mem.checkpoint
           resumes == paged /\ cp # NoCheckpoint /\ cp.from = mem.treeBase
<1>1. /\ up /\ pull = NoPull /\ UNCHANGED <<vault, waiting, up>>
      /\ mem' = IF resumes THEN mem ELSE [mem EXCEPT !.checkpoint = NoCheckpoint]
      /\ saved' = IF resumes \/ cp = NoCheckpoint THEN saved ELSE mem'
  BY Zenon DEF StartPull
<1>2. /\ mem \in Bases /\ saved \in Bases /\ Resumable(mem) /\ Resumable(saved)
      /\ mem.treeBase \in Roots /\ cp \in Checkpoints
  BY Zenon DEF PullInv, PullTypes, Bases
<1>3. PICK c \in BOOLEAN, a \in BOOLEAN, b \in BOOLEAN :
         pull' = [pc |-> IF resumes /\ cp.complete THEN "root" ELSE "fetch",
                  from |-> mem.treeBase,
                  to |-> IF resumes THEN cp.to ELSE NoRoot, root |-> NoRoot,
                  cursor |-> IF resumes THEN cp.cursor ELSE 0,
                  complete |-> c, st |-> <<>>, last |-> 0,
                  retried |-> {}, deferred |-> FALSE, omitted |-> FALSE,
                  applied |-> a, downloaded |-> b]
  <2>1. /\ (resumes /\ cp.complete) \in BOOLEAN /\ (resumes /\ cp.applied) \in BOOLEAN
        /\ (resumes /\ cp.downloaded) \in BOOLEAN
    BY Zenon
  <2> QED BY <2>1, Zenon DEF StartPull
<1>4. /\ mem' \in Bases /\ Resumable(mem') /\ mem'.base = mem.base /\ mem'.treeBase = mem.treeBase
      /\ mem'.checkpoint = IF resumes THEN cp ELSE NoCheckpoint
      /\ mem'.fence = mem.fence
  BY Zenon, <1>1, <1>2, CheckpointCleared
<1>5. saved' \in Bases /\ Resumable(saved') /\ saved'.base \in {saved.base, mem.base}
  BY Zenon, <1>1, <1>2, <1>4
<1>6. Stamped'
  BY Zenon, <1>1, <1>4, <1>5, StampsKept
<1>7. <<>> \in StatusMaps /\ DOMAIN <<>> = {}
  <2>1. <<>> \in [{} -> Status] /\ {} \in SUBSET Deltas
    BY SMTT(30)
  <2> QED BY Zenon, <2>1 DEF StatusMaps
<1>8. resumes => cp.to \in Root /\ cp.from = mem.treeBase /\ Covers(mem.base, cp.from, cp.to, cp.cursor)
  BY Zenon, <1>2 DEF Resumable
<1>9. CASE resumes
  <2>1. /\ cp.to \in Roots /\ cp.cursor \in Nat /\ NoRoot \in Roots /\ cp.to # NoRoot
    BY Zenon, <1>2, <1>8, <1>9, PullAssumption DEF Checkpoints, Roots
  <2> DEFINE pc == IF cp.complete THEN "root" ELSE "fetch"
  <2>2. pc \in {"root", "fetch"}
    BY Zenon
  <2>3. pull' = [pc |-> pc, from |-> mem.treeBase, to |-> cp.to, root |-> NoRoot, cursor |-> cp.cursor,
                 complete |-> c, st |-> <<>>, last |-> 0, retried |-> {}, deferred |-> FALSE,
                 omitted |-> FALSE, applied |-> a, downloaded |-> b]
    BY Zenon, <1>3, <1>9
  <2> HIDE DEF pc
  <2>4. pull' \in Pulls /\ pull'.pc # "apply" /\ pull'.from = mem.treeBase /\ pull'.to = cp.to
        /\ pull'.cursor = cp.cursor /\ DOMAIN pull'.st = {}
    BY Zenon, <1>2, <1>7, <2>1, <2>2, <2>3 DEF Pulls
  <2> HIDE DEF resumes, cp
  <2>5. PullTypes' /\ Verified'
    BY Zenon, <1>1, <1>4, <1>5, <2>4 DEF PullInv, PullTypes, Verified
  <2>6. Position'
    BY Zenon, <1>4, <1>8, <1>9, <2>1, <2>4 DEF Position
  <2> QED BY Zenon, <1>4, <1>5, <1>6, <2>5, <2>6 DEF PullInv
<1>10. CASE ~resumes
  <2>1. NoRoot \in Roots
    BY Zenon DEF Roots
  <2>2. pull' = [pc |-> "fetch", from |-> mem.treeBase, to |-> NoRoot, root |-> NoRoot, cursor |-> 0,
                 complete |-> c, st |-> <<>>, last |-> 0, retried |-> {}, deferred |-> FALSE,
                 omitted |-> FALSE, applied |-> a, downloaded |-> b]
    BY Zenon, <1>3, <1>10
  <2>3. pull' \in Pulls /\ pull'.pc = "fetch" /\ pull'.from = mem.treeBase /\ pull'.to = NoRoot
        /\ pull'.cursor = 0 /\ DOMAIN pull'.st = {}
    BY Zenon, <1>2, <1>7, <2>1, <2>2 DEF Pulls
  <2> HIDE DEF resumes, cp
  <2>4. PullTypes' /\ Verified'
    BY Zenon, <1>1, <1>4, <1>5, <2>3 DEF PullInv, PullTypes, Verified
  <2>5. Position'
    BY Zenon, <1>4, <1>10, <2>3 DEF Position
  <2> QED BY Zenon, <1>4, <1>5, <1>6, <2>4, <2>5 DEF PullInv
<1> QED BY Zenon, <1>9, <1>10

LEMMA FailPullStep == PullInv /\ FailPull /\ UNCHANGED <<head, paged>> => PullInv'
<1> SUFFICES ASSUME PullInv, FailPull, UNCHANGED <<head, paged>> PROVE PullInv'
  BY Zenon
<1>1. pull' = NoPull /\ UNCHANGED <<vault, mem, saved, waiting, up>>
  BY Zenon DEF FailPull
<1>2. mem' \in Bases /\ saved' \in Bases /\ Resumable(mem') /\ Resumable(saved') /\ up' \in BOOLEAN
  BY Zenon, <1>1 DEF PullInv, PullTypes
<1> QED BY Zenon, <1>1, <1>2, PullEnds

LEMMA FailsStep ==
    ASSUME PullInv, pull # NoPull, NEW batch \in SUBSET DOMAIN pull.st, Fails(batch),
           UNCHANGED <<head, paged>>
    PROVE  PullInv'
<1> DEFINE st == [d \in DOMAIN pull.st |-> IF d \notin batch THEN pull.st[d]
                                           ELSE IF d \in pull.retried THEN "deferred" ELSE "new"]
<1>1. /\ pull' = [pull EXCEPT !.st = st, !.retried = pull.retried \cup batch]
      /\ saved' \in {saved, mem} /\ UNCHANGED <<vault, mem, waiting, up>>
  BY Zenon DEF Fails
<1>2. pull \in Pulls /\ up
  BY Zenon DEF PullInv, PullTypes
<1>3. PICK D \in SUBSET Deltas : pull.st \in [D -> Status]
  BY Zenon, <1>2 DEF Pulls, StatusMaps
<1>4. st \in [D -> Status] /\ DOMAIN st = DOMAIN pull.st /\ batch \subseteq Deltas
  BY Zenon, <1>3 DEF Status
<1>5. \A d \in DOMAIN pull.st : st[d] \notin {"new", "deferred"} => st[d] = pull.st[d]
  BY Zenon
<1> HIDE DEF st
<1>6. st \in StatusMaps
  BY Zenon, <1>4 DEF StatusMaps
<1>7. pull' \in Pulls /\ pull'.st = st /\ Rest(pull') = Rest(pull)
  BY Zenon, <1>1, <1>2, <1>4, <1>6 DEF Pulls, Rest
<1>8. PullTypes'
  BY Zenon, <1>1, <1>2, <1>7 DEF PullInv, PullTypes
<1>9. Stamped' /\ Resumable(mem)' /\ Resumable(saved)'
  BY Zenon, <1>1 DEF PullInv, Stamped, Resumable
<1>10. Position'
  <2>1. \A d \in DOMAIN pull.st : st[d] = "done" => pull.st[d] = "done"
    BY Zenon, <1>5
  <2> QED BY Zenon, <1>1, <1>4, <1>7, <2>1 DEF PullInv, Position, Rest
<1>11. Verified'
  BY SMTT(30), <1>1, <1>4, <1>5, <1>7 DEF PullInv, Verified, Subject
<1> QED BY Zenon, <1>8, <1>9, <1>10, <1>11 DEF PullInv

\* The page of a pull that is settled without a deferred record extends what the base covers.
LEMMA PageCovered ==
    ASSUME PullInv, pull # NoPull, pull.pc = "apply", paged, ~pull.deferred,
           \A d \in DOMAIN pull.st : pull.st[d] = "done"
    PROVE  Covers(mem.base, pull.from, pull.to, pull.last)
<1>1. /\ pull \in Pulls /\ pull.to # NoRoot /\ pull.from \in Roots /\ pull.to \in Root
      /\ pull.cursor \in Nat /\ pull.last \in Nat
  BY Zenon DEF PullInv, PullTypes, Position, Pulls, Roots
<1>2. /\ \A d \in DOMAIN pull.st : Applied(mem.base, d)
      /\ \A d \in Work(pull.from, pull.to) : d.path <= pull.cursor => Applied(mem.base, d)
      /\ \A d \in Work(pull.from, pull.to) : d.path > pull.cursor /\ d.path <= pull.last => d \in DOMAIN pull.st
  BY Zenon, <1>1 DEF PullInv, Position, Covers
<1>3. \A d \in Work(pull.from, pull.to) : d.path \in Nat
  <2>1. \A d \in Work(pull.from, pull.to) : d.path \in Path
    BY SMTT(30), <1>1, WorkDisjoint DEF Deltas
  <2> QED BY Zenon, <2>1, PullAssumption
<1> QED BY SMTT(30), <1>1, <1>2, <1>3 DEF Covers

LEMMA EndPageStep == PullInv /\ EndPage /\ UNCHANGED <<head, paged>> => PullInv'
<1> SUFFICES ASSUME PullInv, EndPage, UNCHANGED <<head, paged>> PROVE PullInv'
  BY Zenon
<1> DEFINE late == \E d \in DOMAIN pull.st : pull.st[d] = "deferred"
           allowed == paged /\ DurableCursorAllowed(late)
<1>1. /\ pull.pc = "apply" /\ pull # NoPull /\ UNCHANGED <<vault, waiting, up>> /\ saved' = mem'
      /\ \A d \in DOMAIN pull.st : pull.st[d] \in Settled
      /\ mem' = IF allowed THEN [mem EXCEPT !.checkpoint = CheckpointOfPage] ELSE mem
  BY Zenon, NoPullIsIdle DEF EndPage
<1>2. /\ pull \in Pulls /\ up /\ pull.from \in Roots /\ pull.to \in Root /\ pull.to # NoRoot
      /\ pull.from = mem.treeBase
  BY Zenon, <1>1 DEF PullInv, PullTypes, Position, Pulls, Roots
<1>3. PICK c \in {"root", "fetch"}, b \in BOOLEAN :
         /\ pull' = [pull EXCEPT !.pc = c, !.cursor = pull.last, !.deferred = b]
         /\ ~b => ~pull.deferred /\ ~late
  <2> DEFINE b0 == pull.deferred \/ late
             c0 == IF pull.complete \/ ~paged THEN "root" ELSE "fetch"
  <2>1. b0 \in BOOLEAN /\ (~b0 => ~pull.deferred /\ ~late)
    BY Zenon
  <2>2. c0 \in {"root", "fetch"}
    BY Zenon
  <2>3. pull' = [pull EXCEPT !.pc = c0, !.cursor = pull.last, !.deferred = b0]
    BY Zenon DEF EndPage
  <2> QED BY <2>1, <2>2, <2>3, Zenon
<1>4. allowed => paged /\ ~pull.deferred /\ ~late
  BY Zenon DEF DurableCursorAllowed
<1>5. ~late => \A d \in DOMAIN pull.st : pull.st[d] = "done"
  BY Zenon, <1>1 DEF Settled
<1>6. paged /\ ~pull.deferred /\ ~late => Covers(mem.base, pull.from, pull.to, pull.last)
  BY Zenon, <1>1, <1>5, PageCovered
<1> HIDE DEF late, allowed
<1>7. mem \in Bases /\ Resumable(mem)
  BY Zenon DEF PullInv, PullTypes
<1>8. /\ mem' \in Bases /\ Resumable(mem') /\ mem'.base = mem.base /\ mem'.treeBase = mem.treeBase
      /\ mem'.fence = mem.fence
      /\ mem'.checkpoint # NoCheckpoint => mem'.checkpoint.from = pull.from /\ mem'.checkpoint.to = pull.to
  <2>1. CASE allowed
    <3>1. /\ CheckpointOfPage \in Checkpoints /\ CheckpointOfPage.from = pull.from
          /\ CheckpointOfPage.to = pull.to /\ CheckpointOfPage.cursor = pull.last
      BY Zenon, <1>2 DEF CheckpointOfPage, Checkpoints, Pulls
    <3>2. mem' = [mem EXCEPT !.checkpoint = CheckpointOfPage]
      BY Zenon, <1>1, <2>1
    <3>3. /\ mem' \in Bases /\ mem'.base = mem.base /\ mem'.treeBase = mem.treeBase
          /\ mem'.fence = mem.fence /\ mem'.checkpoint = CheckpointOfPage
      BY Zenon, <1>7, <3>1, <3>2 DEF Bases
    <3> QED BY Zenon, <1>2, <1>4, <1>6, <1>7, <2>1, <3>1, <3>3 DEF Resumable
  <2>2. CASE ~allowed
    BY Zenon, <1>1, <1>7, <2>2 DEF PullInv, Position
  <2> QED BY Zenon, <2>1, <2>2
<1>9. /\ pull' \in Pulls /\ pull'.pc # "apply" /\ pull'.from = pull.from /\ pull'.to = pull.to
      /\ pull'.cursor = pull.last /\ pull'.st = pull.st /\ pull'.deferred = b
  BY Zenon, <1>2, <1>3 DEF Pulls
<1>10. PullTypes' /\ Stamped'
  BY Zenon, <1>1, <1>2, <1>8, <1>9, StampsKept DEF PullInv, PullTypes
<1>11. Position'
  <2>1. paged' /\ ~pull'.deferred => Covers(mem'.base, pull'.from, pull'.to, pull'.cursor)
    BY Zenon, <1>3, <1>6, <1>8, <1>9
  <2> QED BY Zenon, <1>1, <1>2, <1>8, <1>9, <2>1 DEF PullInv, Position
<1>12. Verified'
  BY Zenon, <1>1, <1>9 DEF PullInv, Verified, Subject
<1> QED BY Zenon, <1>1, <1>8, <1>10, <1>11, <1>12 DEF PullInv

LEMMA ReadRootStep == PullInv /\ ReadRoot /\ UNCHANGED <<head, paged>> => PullInv'
<1> SUFFICES ASSUME PullInv, ReadRoot, UNCHANGED <<head, paged>> PROVE PullInv'
  BY Zenon
<1>1. /\ pull.pc = "root" /\ pull # NoPull /\ UNCHANGED <<vault, waiting, up>> /\ saved' = mem'
      /\ mem' \in {mem, [mem EXCEPT !.checkpoint = NoCheckpoint]}
  BY Zenon, NoPullIsIdle DEF ReadRoot
<1>2. /\ pull \in Pulls /\ up /\ head \in Roots /\ pull.from \in Roots /\ pull.to \in Roots
      /\ mem \in Bases /\ Resumable(mem)
  BY Zenon, <1>1 DEF PullInv, PullTypes, Pulls, Roots
<1>3. PICK r \in Roots : pull' = [pull EXCEPT !.pc = "adopt", !.root = r]
  BY Zenon, <1>2 DEF ReadRoot
<1>4. /\ mem' \in Bases /\ Resumable(mem') /\ mem'.base = mem.base /\ mem'.treeBase = mem.treeBase
      /\ mem'.fence = mem.fence /\ mem'.checkpoint \in {mem.checkpoint, NoCheckpoint}
  BY Zenon, <1>1, <1>2, CheckpointCleared
<1>5. /\ pull' \in Pulls /\ pull'.pc = "adopt" /\ pull'.from = pull.from /\ pull'.to = pull.to
      /\ pull'.cursor = pull.cursor /\ pull'.st = pull.st /\ pull'.deferred = pull.deferred
  BY Zenon, <1>2, <1>3 DEF Pulls
<1>6. PullTypes' /\ Stamped'
  BY Zenon, <1>1, <1>2, <1>4, <1>5, StampsKept DEF PullInv, PullTypes
<1>7. Position'
  BY Zenon, <1>1, <1>4, <1>5 DEF PullInv, Position
<1>8. Verified'
  BY SMTT(30), <1>1, <1>5 DEF PullInv, Verified, Subject
<1> QED BY Zenon, <1>1, <1>4, <1>6, <1>7, <1>8 DEF PullInv

LEMMA AdoptPullResultStep == PullInv /\ AdoptPullResult /\ UNCHANGED <<head, paged>> => PullInv'
<1> SUFFICES ASSUME PullInv, AdoptPullResult, UNCHANGED <<head, paged>> PROVE PullInv'
  BY Zenon
<1>1. /\ pull.pc = "adopt" /\ pull # NoPull /\ pull' = NoPull /\ UNCHANGED <<vault, waiting, up>>
      /\ saved' = mem'
      /\ \/ /\ pull.root # NoRoot
            /\ mem' = [mem EXCEPT !.treeBase = pull.root, !.checkpoint = NoCheckpoint, !.fence = FALSE]
         \/ mem' = [mem EXCEPT !.checkpoint = NoCheckpoint]
  BY Zenon, NoPullIsIdle DEF AdoptPullResult
<1>2. pull.root \in Roots /\ mem \in Bases /\ up \in BOOLEAN /\ NoCheckpoint \in Checkpoints
  BY Zenon, <1>1 DEF PullInv, PullTypes, Pulls, NoCheckpoint, Checkpoints, Roots
<1>3. mem' \in Bases /\ Resumable(mem') /\ mem'.base = mem.base
  <2>1. CASE /\ pull.root # NoRoot
             /\ mem' = [mem EXCEPT !.treeBase = pull.root, !.checkpoint = NoCheckpoint, !.fence = FALSE]
    <3>1. /\ mem' \in Bases /\ mem'.base = mem.base /\ mem'.treeBase = pull.root
          /\ mem'.checkpoint = NoCheckpoint
      BY Zenon, <1>2, <2>1 DEF Bases
    <3> QED BY Zenon, <2>1, <3>1 DEF Resumable
  <2>2. CASE mem' = [mem EXCEPT !.checkpoint = NoCheckpoint]
    BY Zenon, <2>2, CheckpointCleared
  <2> QED BY Zenon, <1>1, <2>1, <2>2
<1> QED BY Zenon, <1>1, <1>2, <1>3, PullEnds

LEMMA MoveHeadStep ==
    ASSUME PullInv, NEW r \in Root, MoveHead(r)
    PROVE  PullInv'
BY Zenon DEF PullInv, MoveHead, device, PullTypes, Resumable, Position, Stamped, Verified, Subject

LEMMA TypeStep ==
    ASSUME PullInv, NEW p \in Path, Type(p)
    PROVE  PullInv'
BY Zenon DEF PullInv, Type, PullTypes, Resumable, Position, Stamped, Verified, Subject

LEMMA RestartStep ==
    ASSUME PullInv, Restart
    PROVE  PullInv'
BY Zenon DEF PullInv, Restart, PullTypes, Resumable, Position, Stamped, Verified, Subject

LEMMA CrashStep ==
    ASSUME PullInv, Crash
    PROVE  PullInv'
<1>1. /\ pull' = NoPull /\ mem' = saved /\ saved' = saved /\ up' \in BOOLEAN
      /\ UNCHANGED <<head, paged, vault, waiting>>
  BY Zenon DEF Crash
<1>2. mem' \in Bases /\ saved' \in Bases /\ Resumable(mem') /\ Resumable(saved')
  BY Zenon, <1>1 DEF PullInv, PullTypes
<1> QED BY Zenon, <1>1, <1>2, PullEnds

\* A file the user writes has a stamp of its own.
LEMMA EditStamped ==
    ASSUME PullInv, NEW p \in Path, NEW m \in Mine, FreeStamps # {},
           vault' = [vault EXCEPT ![p] = [h |-> m, s |-> Fresh]],
           waiting \subseteq waiting', UNCHANGED <<mem, saved>>
    PROVE  /\ Stamped' /\ vault' \in [Path -> [h : Bytes, s : Nat]]
           /\ \A q \in Path \ {p} : vault'[q] = vault[q]
<1>1. /\ Fresh \in Nat /\ Fresh # 0
      /\ \A q \in Path : Fresh # vault[q].s /\ Fresh # mem.base[q].s /\ Fresh # saved.base[q].s
  BY Zenon, FreshIsNew
<1>2. /\ vault' \in [Path -> [h : Bytes, s : Nat]] /\ vault'[p].h = m /\ vault'[p].s = Fresh
      /\ \A q \in Path \ {p} : vault'[q] = vault[q]
  BY Zenon, <1>1 DEF PullInv, PullTypes, Bytes
<1>3. Stamped'
  BY Zenon, <1>1, <1>2 DEF PullInv, Stamped
<1> QED BY Zenon, <1>2, <1>3

LEMMA UserSavesStep ==
    ASSUME PullInv, NEW p \in Path, NEW m \in Mine, UserSaves(p, m)
    PROVE  PullInv'
<1>1. /\ FreeStamps # {} /\ vault' = [vault EXCEPT ![p] = [h |-> m, s |-> Fresh]] /\ waiting' = waiting \cup {p}
      /\ UNCHANGED <<head, paged, mem, saved, pull, up>>
  BY Zenon DEF UserSaves
<1>2. /\ Stamped' /\ vault' \in [Path -> [h : Bytes, s : Nat]]
      /\ \A q \in Path \ {p} : vault'[q] = vault[q]
  BY Zenon, <1>1, EditStamped
<1>3. PullTypes' /\ Resumable(mem)' /\ Resumable(saved)' /\ Position'
  BY Zenon, <1>1, <1>2 DEF PullInv, PullTypes, Resumable, Position
<1>4. Verified'
  <2>1. ASSUME pull # NoPull, NEW d \in DOMAIN pull.st PROVE Subject(d) \in Path
    <3>1. d \in Deltas
      BY Zenon, <2>1 DEF PullInv, PullTypes, Pulls, StatusMaps
    <3> QED BY Zenon, <3>1 DEF Subject, Deltas
  <2> QED BY Zenon, <1>1, <1>2, <2>1 DEF PullInv, Verified, Subject
<1> QED BY Zenon, <1>2, <1>3, <1>4 DEF PullInv

LEMMA EditOfflineStep ==
    ASSUME PullInv, NEW p \in Path, NEW m \in Mine, EditOffline(p, m)
    PROVE  PullInv'
<1>1. /\ FreeStamps # {} /\ vault' = [vault EXCEPT ![p] = [h |-> m, s |-> Fresh]] /\ ~up
      /\ UNCHANGED <<head, paged, mem, saved, pull, up, waiting>>
  BY Zenon DEF EditOffline
<1>2. Stamped' /\ vault' \in [Path -> [h : Bytes, s : Nat]]
  BY Zenon, <1>1, EditStamped
<1>3. pull = NoPull
  BY Zenon, <1>1 DEF PullInv, PullTypes
<1>4. PullTypes' /\ Resumable(mem)' /\ Resumable(saved)' /\ Position' /\ Verified'
  BY Zenon, <1>1, <1>2, <1>3 DEF PullInv, PullTypes, Resumable, Position, Verified
<1> QED BY Zenon, <1>2, <1>4 DEF PullInv

\* A page: the records after the cursor up to the last one, and what they untrack.
PageOf(f, t, cursor) == IF paged THEN PageAfter(Diff(f, t), cursor) ELSE Diff(f, t)
LastOf(page, cursor) ==
    IF page = {} THEN cursor ELSE (CHOOSE d \in page : \A e \in page : e.path <= d.path).path

LEMMA PageFacts ==
    ASSUME NEW f \in RootLike, NEW t \in RootLike, NEW cursor \in Nat,
           NEW page, page = PageOf(f, t, cursor)
    PROVE  /\ page \subseteq Diff(f, t) /\ Kept(page) \subseteq Kept(Diff(f, t)) /\ Kept(page) \in SUBSET Deltas
           /\ LastOf(page, cursor) \in Nat
           /\ paged => \A d \in Kept(Diff(f, t)) :
                          d.path > cursor /\ d.path <= LastOf(page, cursor) => d \in Kept(page)
           /\ Kept(page) # {} => Diff(f, t) # {}
           /\ \A p \in Untracked(page) : \A d \in Kept(Diff(f, t)) : p \notin {d.path, d.old}
<1> DEFINE last == LastOf(page, cursor)
<1> USE DEF LastOf
<1>1. page \subseteq Diff(f, t)
  BY Zenon DEF PageOf, PageAfter
<1>2. last \in Nat
  <2>1. CASE page = {}
    BY Zenon, <2>1
  <2>2. CASE page # {}
    <3>1. \E d \in page : \A e \in page : e.path <= d.path
      BY Zenon, <1>1, <2>2, HasLast
    <3>2. PICK d \in page : last = d.path
      BY Zenon, <2>2, <3>1
    <3>3. d.path \in Path
      BY Zenon, <1>1, DiffIsDelta DEF Deltas
    <3> QED BY Zenon, <3>2, <3>3, PullAssumption
  <2> QED BY Zenon, <2>1, <2>2
<1>3. Kept(page) \subseteq Kept(Diff(f, t))
  BY Zenon, <1>1 DEF Kept
<1>4. ASSUME paged PROVE \A d \in Kept(Diff(f, t)) : d.path > cursor /\ d.path <= last => d \in Kept(page)
  <2>1. CASE page = {}
    <3>1. \A d \in Kept(Diff(f, t)) : d.path \in Path
      BY SMTT(30), KeptIsDelta DEF Deltas
    <3>2. \A d \in Kept(Diff(f, t)) : d.path \in Nat
      BY Zenon, <3>1, PullAssumption
    <3> QED BY SMTT(30), <2>1, <3>2
  <2>2. CASE page # {}
    <3>1. page = PageAfter(Diff(f, t), cursor)
      BY Zenon, <1>4 DEF PageOf
    <3>2. PICK e \in page : last = e.path
      <4>1. \E d \in page : \A x \in page : x.path <= d.path
        BY Zenon, <1>1, <2>2, HasLast
      <4> QED BY Zenon, <2>2, <4>1
    <3>3. \A d \in Diff(f, t) : d.path > cursor /\ d.path <= last => d \in page
      BY Zenon, <3>1, <3>2, PageIsPrefix
    <3> QED BY Zenon, <1>1, <3>3, KeptOfPage
  <2> QED BY Zenon, <2>1, <2>2
<1>5. Kept(page) # {} => Diff(f, t) # {}
  BY Zenon, <1>1 DEF Kept
<1>6. \A p \in Untracked(page) : \A d \in Kept(Diff(f, t)) : p \notin {d.path, d.old}
  BY Zenon, <1>1, UntrackedDisjoint
<1>7. Kept(page) \in SUBSET Deltas
  BY Zenon, <1>1, KeptIsDelta
<1> QED BY Zenon, <1>1, <1>2, <1>3, <1>4, <1>5, <1>6, <1>7

LEMMA FetchStep == PullInv /\ Fetch /\ UNCHANGED <<head, paged>> => PullInv'
<1> SUFFICES ASSUME PullInv, Fetch, UNCHANGED <<head, paged>> PROVE PullInv'
  BY Zenon
<1> DEFINE to == IF pull.to = NoRoot THEN head ELSE pull.to
           all == Diff(Origin(pull.from), to)
           page == PageOf(Origin(pull.from), to, pull.cursor)
           last == LastOf(page, pull.cursor)
           fenced == [mem EXCEPT !.fence = @ \/ (pull.from = NoRoot /\ (paged \/ all # {}))]
           base == [p \in Path |-> IF p \in Untracked(page) THEN NoEntry ELSE mem.base[p]]
           st == [d \in Kept(page) |-> "new"]
<1>1. pull.pc = "fetch" /\ pull # NoPull /\ UNCHANGED <<vault, waiting, up>>
  BY Zenon, NoPullIsIdle DEF Fetch
<1>2. /\ pull \in Pulls /\ up /\ paged \in BOOLEAN /\ pull.from \in Roots /\ pull.cursor \in Nat
      /\ pull.from = mem.treeBase /\ to \in Root /\ to \in Roots /\ to # NoRoot
      /\ pull.to # NoRoot => pull.to = to
      /\ pull.to = NoRoot => pull.cursor = 0
  BY Zenon, <1>1, PullAssumption DEF PullInv, PullTypes, Position, Pulls, Roots
<1>3. mem \in Bases /\ saved \in Bases /\ Resumable(mem) /\ Resumable(saved)
  BY Zenon DEF PullInv, PullTypes
<1>4. /\ saved' = IF fenced = mem THEN saved ELSE fenced
      /\ mem' = [fenced EXCEPT !.base = [p \in Path |-> IF p \in Untracked(page) THEN NoEntry ELSE @[p]]]
  BY Zenon DEF Fetch, Origin, PageOf
<1>5. PICK c \in BOOLEAN, o \in BOOLEAN :
         pull' = [pull EXCEPT !.pc = "apply", !.to = to, !.st = st, !.last = last,
                              !.complete = c, !.retried = {}, !.omitted = o]
  <2> DEFINE c0 == ({d \in all : d.path > pull.cursor} \ page) = {}
             o0 == pull.omitted \/ Omits(page)
  <2>1. c0 \in BOOLEAN /\ o0 \in BOOLEAN
    BY Zenon
  <2>2. pull' = [pull EXCEPT !.pc = "apply", !.to = to, !.st = st, !.last = last,
                              !.complete = c0, !.retried = {}, !.omitted = o0]
    BY Zenon DEF Fetch, Origin, PageOf, LastOf
  <2> HIDE DEF c0, o0, to, st, last
  <2> QED BY <2>1, <2>2, Zenon
<1>6. PICK f \in BOOLEAN : /\ fenced = [mem EXCEPT !.fence = f] /\ (mem.fence => f)
                           /\ pull.from = NoRoot /\ all # {} => f
  <2> DEFINE f0 == mem.fence \/ (pull.from = NoRoot /\ (paged \/ all # {}))
  <2>1. f0 \in BOOLEAN /\ (mem.fence => f0) /\ (pull.from = NoRoot /\ all # {} => f0)
    BY Zenon
  <2>2. fenced = [mem EXCEPT !.fence = f0]
    BY Zenon
  <2> HIDE DEF f0, fenced, all
  <2> QED BY <2>1, <2>2, Zenon
<1>7. Origin(pull.from) \in RootLike /\ to \in RootLike /\ Work(pull.from, to) = Kept(all)
  BY Zenon, <1>2, RootsAreMaps
<1>8. /\ page \subseteq all /\ last \in Nat /\ Kept(page) \subseteq Kept(all)
      /\ paged => \A d \in Kept(all) : d.path > pull.cursor /\ d.path <= last => d \in Kept(page)
      /\ Kept(page) # {} => all # {}
      /\ \A p \in Untracked(page) : \A d \in Kept(all) : p \notin {d.path, d.old}
      /\ Kept(page) \in SUBSET Deltas
  <2>1. pull.cursor \in Nat
    BY Zenon, <1>2
  <2>2. last = LastOf(page, pull.cursor) /\ page = PageOf(Origin(pull.from), to, pull.cursor)
    BY Zenon
  <2> HIDE DEF to, page, last
  <2> QED BY SMTT(30), <1>7, <2>1, <2>2, PageFacts
<1>9. /\ fenced \in Bases /\ fenced.base = mem.base /\ fenced.treeBase = mem.treeBase
      /\ fenced.checkpoint = mem.checkpoint /\ fenced.fence = f
  <2> HIDE DEF fenced
  <2> QED BY Zenon, <1>3, <1>6 DEF Bases
<1>10. base \in [Path -> Entries] /\ mem' = [fenced EXCEPT !.base = base]
  <2>1. base \in [Path -> Entries]
    BY Zenon, <1>3, NoEntryIsEntry DEF Bases
  <2> HIDE DEF fenced, page
  <2> QED BY Zenon, <1>4, <1>9, <2>1
<1>11. \A p \in Path : base[p] = IF p \in Untracked(page) THEN NoEntry ELSE mem.base[p]
  BY Zenon
<1>12. st \in StatusMaps /\ DOMAIN st = Kept(page) /\ \A d \in DOMAIN st : st[d] = "new"
  <2> HIDE DEF page
  <2>1. st \in [Kept(page) -> Status]
    BY Zenon DEF Status
  <2> QED BY Zenon, <1>8, <2>1 DEF StatusMaps
<1> HIDE DEF to, all, page, last, fenced, base, st
<1>13. /\ mem' \in Bases /\ mem'.base = base /\ mem'.treeBase = mem.treeBase
       /\ mem'.checkpoint = mem.checkpoint /\ mem'.fence = f
  BY Zenon, <1>9, <1>10 DEF Bases
<1>14. Resumable(fenced)
  BY Zenon, <1>3, <1>6, <1>9 DEF Resumable
<1>15. saved' \in Bases /\ Resumable(saved') /\ saved'.base \in {saved.base, mem.base}
  BY Zenon, <1>3, <1>4, <1>9, <1>14
<1>16. \A d \in Work(pull.from, to) : Applied(mem.base, d) => Applied(base, d)
  <2> TAKE d \in Work(pull.from, to)
  <2>1. d.path \in Path /\ d.old \in Path
    BY SMTT(30), <1>2, WorkDisjoint DEF Deltas
  <2>2. base[d.path] = mem.base[d.path] /\ base[d.old] = mem.base[d.old]
    BY Zenon, <1>7, <1>8, <1>11, <2>1
  <2> QED BY Zenon, <2>2 DEF Applied
<1>17. mem.checkpoint # NoCheckpoint => mem.checkpoint.from = pull.from /\ mem.checkpoint.to = to
  BY Zenon, <1>1, <1>2, <1>3, PullAssumption DEF PullInv, Position, Resumable
<1>18. Resumable(mem')
  <2>1. mem.checkpoint # NoCheckpoint =>
           Covers(base, mem.checkpoint.from, mem.checkpoint.to, mem.checkpoint.cursor)
    BY Zenon, <1>3, <1>16, <1>17 DEF Resumable, Covers
  <2>2. mem.treeBase = NoRoot /\ base # [p \in Path |-> NoEntry] => f
    <3>1. mem.base = [p \in Path |-> NoEntry] => base = [p \in Path |-> NoEntry]
      BY Zenon, <1>10, <1>11
    <3> QED BY Zenon, <1>3, <1>6, <3>1 DEF Resumable
  <2> QED BY Zenon, <1>2, <1>13, <1>17, <2>1, <2>2 DEF Resumable
<1>19. /\ pull' \in Pulls /\ pull'.pc = "apply" /\ pull'.from = pull.from /\ pull'.to = to
       /\ pull'.cursor = pull.cursor /\ pull'.st = st /\ pull'.last = last
       /\ pull'.deferred = pull.deferred
  BY Zenon, <1>2, <1>5, <1>8, <1>12 DEF Pulls
<1>20. PullTypes'
  BY Zenon, <1>1, <1>2, <1>13, <1>15, <1>19 DEF PullInv, PullTypes
<1>21. Stamped'
  BY Zenon, <1>1, <1>11, <1>13, <1>15, NoEntryIsEntry, StampsKept
<1>22. paged /\ ~pull.deferred => Covers(base, pull.from, to, pull.cursor)
  <2>1. CASE pull.to = NoRoot
    <3>1. \A d \in Work(pull.from, to) : d.path \in Path
      BY Zenon, <1>2, WorkDisjoint DEF Deltas
    <3>2. \A p \in Path : ~(p <= 0)
      BY SMTT(30), PullAssumption
    <3> QED BY Zenon, <1>2, <2>1, <3>1, <3>2 DEF Covers
  <2>2. CASE pull.to # NoRoot
    BY Zenon, <1>1, <1>2, <1>16, <2>2 DEF PullInv, Position, Covers
  <2> QED BY Zenon, <2>1, <2>2
<1>23. Position'
  <2>1. mem.treeBase = NoRoot /\ DOMAIN st # {} => f
    BY Zenon, <1>2, <1>6, <1>8, <1>12
  <2> QED BY Zenon, <1>2, <1>7, <1>8, <1>12, <1>13, <1>17, <1>19, <1>22, <2>1 DEF Position
<1>24. Verified'
  BY Zenon, <1>12, <1>19 DEF Verified
<1> QED BY Zenon, <1>15, <1>18, <1>20, <1>21, <1>23, <1>24 DEF PullInv

LEMMA PullInitHolds ==
    ASSUME PullInit
    PROVE  PullInv
<1>1. PICK r \in Starts :
         LET t == IF r = NoRoot THEN Zero ELSE r
         IN  /\ vault = [p \in Path |-> IF t[p] = 0 THEN NoFile ELSE [h |-> Hash(t[p]), s |-> 1]]
             /\ mem = [base |-> [p \in Path |-> IF t[p] = 0 THEN NoEntry ELSE [v |-> t[p], s |-> 1]],
                       treeBase |-> r, checkpoint |-> NoCheckpoint, fence |-> FALSE]
  BY Zenon DEF PullInit
<1> DEFINE t == Origin(r)
           files == [p \in Path |-> IF t[p] = 0 THEN NoFile ELSE [h |-> Hash(t[p]), s |-> 1]]
           base == [p \in Path |-> IF t[p] = 0 THEN NoEntry ELSE [v |-> t[p], s |-> 1]]
<1>2. r \in Roots /\ head \in Root /\ paged \in BOOLEAN
  BY Zenon, PullAssumption DEF PullInit, Roots
<1>3. t \in [Path -> Versions]
  BY Zenon, <1>2, PullAssumption DEF Roots, Origin, Zero, Versions
<1>4. /\ vault = files
      /\ mem = [base |-> base, treeBase |-> r, checkpoint |-> NoCheckpoint, fence |-> FALSE]
  BY Zenon, <1>1 DEF Origin
<1>5. base \in [Path -> Entries]
  BY Zenon, <1>3, NoEntryIsEntry DEF Entries
<1>6. files \in [Path -> [h : Bytes, s : Nat]]
  BY Zenon, <1>3, ServerBytesAreNotMine DEF NoFile, Bytes, Versions, Hash
<1>7. \A p \in Path : files[p].h \notin Mine /\ (files[p] # NoFile => files[p].s # 0)
  BY SMTT(30), <1>3, ServerBytesAreNotMine DEF NoFile
<1>8. NoCheckpoint \in Checkpoints
  BY Zenon DEF NoCheckpoint, Checkpoints, Roots
<1>9. r = NoRoot => base = [p \in Path |-> NoEntry]
  BY Zenon DEF Origin, Zero
<1> HIDE DEF base, files, t
<1>10. /\ mem \in Bases /\ mem.base = base /\ mem.treeBase = r /\ mem.checkpoint = NoCheckpoint
  BY Zenon, <1>2, <1>4, <1>5, <1>8 DEF Bases
<1>11. Resumable(mem)
  BY Zenon, <1>9, <1>10 DEF Resumable
<1>12. saved = mem /\ pull = NoPull /\ up = TRUE
  BY Zenon DEF PullInit
<1>13. PullTypes /\ Position /\ Verified
  BY Zenon, <1>2, <1>4, <1>6, <1>10, <1>12 DEF PullTypes, Position, Verified
<1>14. Stamped
  BY Zenon, <1>4, <1>7 DEF Stamped
<1> QED BY Zenon, <1>11, <1>12, <1>13, <1>14 DEF PullInv

LEMMA PullInvStep ==
    ASSUME PullInv, [PullNext]_pullVars
    PROVE  PullInv'
<1>1. CASE UNCHANGED pullVars
  BY Zenon, <1>1 DEF pullVars, device, PullInv, PullTypes, Resumable, Position, Stamped, Verified, Subject
<1>2. CASE Step /\ UNCHANGED <<head, paged, moves, edits, crashes>>
  <2>1. CASE pull.pc = "apply" /\ \E d \in DOMAIN pull.st :
               \/ CheckRename(d) \/ MoveFile(d) \/ RecordRename(d)
               \/ CheckDelete(d) \/ DeleteFile(d)
               \/ Prepare(d) \/ MoveAside(d) \/ Write(d) \/ SetEntry(d) \/ FileFails(d)
    <3>1. pull # NoPull
      BY Zenon, <2>1, NoPullIsIdle
    <3>2. PICK d \in DOMAIN pull.st :
               \/ CheckRename(d) \/ MoveFile(d) \/ RecordRename(d)
               \/ CheckDelete(d) \/ DeleteFile(d)
               \/ Prepare(d) \/ MoveAside(d) \/ Write(d) \/ SetEntry(d) \/ FileFails(d)
      BY Zenon, <2>1
    <3>3. FileFails(d) => Fails({d}) /\ {d} \in SUBSET DOMAIN pull.st
      BY Zenon DEF FileFails
    <3>4. Applying(d)
      BY Zenon, <1>2, <3>1 DEF Applying
    <3> QED BY Zenon, <1>2, <3>1, <3>2, <3>3, <3>4, CheckRenameStep, MoveFileStep, RecordRenameStep, CheckDeleteStep,
               DeleteFileStep, PrepareStep, MoveAsideStep, WriteStep, SetEntryStep, FailsStep
  <2>2. CASE BatchFails
    <3>1. pull # NoPull
      BY Zenon, <2>2, NoPullIsIdle DEF BatchFails
    <3>2. PICK batch \in SUBSET DOMAIN pull.st : Fails(batch)
      BY Zenon, <2>2 DEF BatchFails
    <3> QED BY Zenon, <1>2, <3>1, <3>2, FailsStep
  <2> QED BY Zenon, <1>2, <2>1, <2>2, StartPullStep, FetchStep, FailPullStep, EndPageStep, ReadRootStep,
             AdoptPullResultStep DEF Step
<1>3. CASE (\E r \in Root : MoveHead(r)) \/ Crash \/ Restart
  BY Zenon, <1>3, MoveHeadStep, CrashStep, RestartStep
<1>4. CASE \E p \in Path : Type(p) \/ \E m \in Mine : UserSaves(p, m) \/ EditOffline(p, m)
  BY Zenon, <1>4, TypeStep, UserSavesStep, EditOfflineStep
<1> QED BY Zenon, <1>1, <1>2, <1>3, <1>4 DEF PullNext

LEMMA PullInvariant == PullSpec => []PullInv
<1>1. PullInit => PullInv
  BY Zenon, PullInitHolds
<1>2. PullInv /\ [PullNext]_pullVars => PullInv'
  BY Zenon, PullInvStep
<1> QED BY <1>1, <1>2, PTL DEF PullSpec

\* A renderer kill at any moment of any pull leaves a base the next pull may go on from: the
\* durable cursor (sync-base.ts) covers only records whose result is in the durable base,
\* and a device that never synced has its fence on the disk before it has an entry.
THEOREM KillsLeaveASafePlace == PullSpec => []ResumesSafely
<1>1. ASSUME PullInv PROVE ResumesSafely
  <2>1. saved \in Bases /\ Resumable(saved)
    BY Zenon, <1>1 DEF PullInv, PullTypes
  <2>2. ASSUME saved.checkpoint # NoCheckpoint,
               NEW d \in Work(saved.checkpoint.from, saved.checkpoint.to), d.path <= saved.checkpoint.cursor
        PROVE  /\ TreeOf(saved.base)[d.path] = d.v
               /\ d.old # d.path => saved.base[d.old] = NoEntry
    <3>1. Applied(saved.base, d)
      BY Zenon, <2>1, <2>2 DEF Resumable, Covers
    <3>2. d.path \in Path
      <4>1. saved.checkpoint.from \in Roots /\ saved.checkpoint.to \in Root
        BY Zenon, <2>1, <2>2 DEF Bases, Checkpoints, Resumable
      <4> QED BY Zenon, <4>1, <2>2, WorkDisjoint DEF Deltas
    <3> QED BY Zenon, <3>1, <3>2 DEF Applied, TreeOf
  <2>3. saved.treeBase = NoRoot /\ saved.base # [p \in Path |-> NoEntry] => saved.fence
    BY Zenon, <2>1 DEF Resumable
  <2> QED BY Zenon, <2>2, <2>3 DEF ResumesSafely, Work
<1> QED BY <1>1, PullInvariant, PTL

-----------------------------------------------------------------------------
(* What a step does to the files.                                          *)

\* What UserBytesSurvive says of one step.
BytesKept ==
    \A p \in Path : vault[p].h \in Mine =>
          \/ vault[p].h \in {vault'[q].h : q \in Path} \cup copies'
          \/ edits' # edits
          \/ \E d \in DOMAIN pull.st : d.path = p /\ pull.st[d] = "clear"

LEMMA FilesLeft ==
    ASSUME vault' = vault
    PROVE  BytesKept
BY Zenon DEF BytesKept

LEMMA MoveFileKeeps ==
    ASSUME PullInv, pull # NoPull, NEW d \in DOMAIN pull.st, MoveFile(d)
    PROVE  BytesKept
<1>1. /\ pull.pc = "apply" /\ pull.st[d] = "marked"
  BY Zenon DEF MoveFile, Turn
<1>2. CASE vault' = vault
  BY Zenon, <1>2, FilesLeft
<1>3. CASE vault[d.path] = NoFile /\ vault' = [vault EXCEPT ![d.path] = vault[d.old], ![d.old] = NoFile]
  <2>1. d.path \in Path /\ d.old \in Path /\ d.old # d.path
    <3>1. d.kind = "rename"
      BY Zenon, <1>1 DEF PullInv, Verified
    <3> QED BY Zenon, <1>1, <3>1, RecordFacts
  <2>2. vault \in [Path -> [h : Bytes, s : Nat]]
    BY Zenon DEF PullInv, PullTypes
  <2>3. /\ vault'[d.path] = vault[d.old] /\ vault[d.path].h \notin Mine
        /\ \A p \in Path \ {d.path, d.old} : vault'[p] = vault[p]
    BY SMTT(30), <1>3, <2>1, <2>2, ServerBytesAreNotMine DEF NoFile
  <2> QED BY Zenon, <2>1, <2>3 DEF BytesKept
<1> QED BY Zenon, <1>2, <1>3 DEF MoveFile

\* The one file that changes is not the user's.
LEMMA OtherFilesLeft ==
    ASSUME NEW f \in Path, NEW file, vault \in [Path -> [h : Bytes, s : Nat]],
           vault' = [vault EXCEPT ![f] = file],
           vault[f].h \notin Mine \/ vault[f].h \in copies'
                 \/ \E d \in DOMAIN pull.st : d.path = f /\ pull.st[d] = "clear"
    PROVE  BytesKept
<1>1. \A p \in Path \ {f} : vault'[p] = vault[p]
  BY Zenon
<1> QED BY Zenon, <1>1 DEF BytesKept

LEMMA RecordKeeps ==
    ASSUME PullInv, pull # NoPull, NEW d \in DOMAIN pull.st,
           DeleteFile(d) \/ MoveAside(d) \/ Write(d)
    PROVE  BytesKept
<1>1. pull.pc = "apply" /\ vault \in [Path -> [h : Bytes, s : Nat]]
  BY Zenon DEF PullInv, PullTypes, DeleteFile, MoveAside, Write, Turn
<1>2. d.path \in Path /\ d \in Deltas
  BY Zenon, <1>1, RecordFacts
<1>3. CASE vault' = vault
  BY Zenon, <1>3, FilesLeft
<1>4. CASE DeleteFile(d) /\ vault' # vault
  <2>1. ~Guarded(d) /\ pull.st[d] = "verified" /\ vault' = [vault EXCEPT ![d.path] = NoFile]
    BY Zenon, <1>4 DEF DeleteFile, Turn
  <2>2. vault[d.path].h \notin Mine
    BY Zenon, <1>2, <2>1, NotGuarded DEF PullInv, Verified, Subject
  <2> QED BY Zenon, <1>1, <1>2, <2>1, <2>2, OtherFilesLeft
<1>5. CASE MoveAside(d) /\ vault' # vault
  <2>1. /\ vault' = [vault EXCEPT ![d.path] = NoFile]
        /\ copies' = copies \cup ({vault[d.path].h} \ {"none"})
    BY Zenon, <1>5 DEF MoveAside
  <2>2. vault[d.path].h \notin Mine \/ vault[d.path].h \in copies'
    BY Zenon, <2>1, ServerBytesAreNotMine
  <2> QED BY Zenon, <1>1, <1>2, <2>1, <2>2, OtherFilesLeft
<1>6. CASE Write(d) /\ vault' # vault
  <2>1. /\ vault' = [vault EXCEPT ![d.path] = [h |-> Hash(d.v), s |-> Fresh]]
        /\ pull.st[d] = "clear" \/ (pull.st[d] = "ready" /\ ~Guarded(d))
    BY Zenon, <1>6 DEF Write, Turn
  <2>2. CASE pull.st[d] = "clear"
    BY Zenon, <1>1, <1>2, <2>1, <2>2, OtherFilesLeft
  <2>3. CASE pull.st[d] = "ready" /\ ~Guarded(d)
    <3>1. vault[d.path].h \notin Mine
      BY Zenon, <1>2, <2>3, NotGuarded DEF PullInv, Verified, Subject
    <3> QED BY Zenon, <1>1, <1>2, <2>1, <3>1, OtherFilesLeft
  <2> QED BY Zenon, <2>1, <2>2, <2>3
<1> QED BY Zenon, <1>3, <1>4, <1>5, <1>6

LEMMA EditsAreCounted == PullSpec => [](edits \in Nat)
<1>1. PullInit => edits \in Nat
  BY SMTT(30) DEF PullInit
<1>2. edits \in Nat /\ [PullNext]_pullVars => (edits \in Nat)'
  BY SMTT(30) DEF PullNext, pullVars, MoveHead, Type, UserSaves, EditOffline, Crash, Restart
<1> QED BY <1>1, <1>2, PTL DEF PullSpec

LEMMA StepKeepsBytes ==
    ASSUME PullInv, edits \in Nat, [PullNext]_pullVars
    PROVE  BytesKept
<1>1. CASE vault' = vault
  BY Zenon, <1>1, FilesLeft
<1>2. CASE vault' # vault
  <2>1. CASE Step
    <3>1. /\ pull.pc = "apply"
          /\ \E d \in DOMAIN pull.st : MoveFile(d) \/ DeleteFile(d) \/ MoveAside(d) \/ Write(d)
      BY Zenon, <1>2, <2>1 DEF Step, StartPull, Fetch, FailPull, BatchFails, EndPage, ReadRoot, AdoptPullResult,
         CheckRename, RecordRename, CheckDelete, Prepare, SetEntry, FileFails, Fails
    <3>2. pull # NoPull
      BY Zenon, <3>1, NoPullIsIdle
    <3> QED BY Zenon, <3>1, <3>2, MoveFileKeeps, RecordKeeps
  <2>2. CASE \E p \in Path : \E m \in Mine : UserSaves(p, m) \/ EditOffline(p, m)
    <3>1. edits' = edits + 1
      BY Zenon, <2>2 DEF UserSaves, EditOffline
    <3> QED BY SMTT(30), <2>2, <3>1 DEF BytesKept
  <2> QED BY Zenon, <1>2, <2>1, <2>2 DEF PullNext, pullVars, device, MoveHead, Type, Crash, Restart
<1> QED BY Zenon, <1>1, <1>2

\* Whatever a pull does, and wherever it is interrupted, only the user replaces what the user
\* wrote (pull.ts, preserveExisting, diskStillMatchesDeleteBase and PullPathGuard), but for a
\* file created between moving the old one aside and writing the new one.
THEOREM PullsKeepUserBytes == PullSpec => UserBytesSurvive
<1>1. PullInv /\ edits \in Nat /\ [PullNext]_pullVars => [BytesKept]_pullVars
  BY Zenon, StepKeepsBytes
<1>2. PullSpec => [][BytesKept]_pullVars
  BY <1>1, PullInvariant, EditsAreCounted, PTL DEF PullSpec
<1> QED BY Zenon, <1>2 DEF UserBytesSurvive, BytesKept
====
