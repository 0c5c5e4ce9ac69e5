----------------------------- MODULE PushProofs -----------------------------
(***************************************************************************)
(* Preparing and publishing a root (Push), for every list of paths,        *)
(* history of contents, set of renames, capacity and number of failures:   *)
(* no edit is lost, no entry mixes two versions of a file, and a rename is *)
(* published whole or not at all.                                          *)
(*                                                                         *)
(* A version is known to be published only if what was read is what is     *)
(* recorded: the hint and the reads of a batch are versions of their files *)
(* (Hashed), and a slice cuts the list of sources between groups only      *)
(* (CutBetweenGroups), which is an induction over the places of the list.  *)
(***************************************************************************)
EXTENDS Push, FiniteSetTheorems, SequenceTheorems, WellFoundedInduction, TLAPS

-----------------------------------------------------------------------------
(* Induction and least elements: the facts about numbers the rest needs.   *)

\* A non-empty set of natural numbers has a least element.
LEMMA LeastNatural ==
    ASSUME NEW T \in SUBSET Nat, T # {}
    PROVE  \E n \in T : \A m \in T : n <= m
<1> DEFINE R == OpToRel(<, Nat)
<1>1. IsWellFoundedOn(R, Nat)
  BY Zenon, NatLessThanWellFounded
<1> HIDE DEF R
<1>2. PICK n \in T : \A m \in T : ~(<<m, n>> \in R)
  BY Zenon, <1>1, WFMin
<1>3. \A m \in T : ~(m < n)
  BY Zenon, <1>2 DEF R, OpToRel
<1> QED
  BY SMTT(30), <1>3

\* A set that has 0 and the successor of each member has every natural number.
LEMMA NaturalsIn ==
    ASSUME NEW S, 0 \in S, \A n \in Nat : n \in S => n + 1 \in S
    PROVE  \A n \in Nat : n \in S
<1> DEFINE T == Nat \ S
<1>1. SUFFICES ASSUME T # {} PROVE FALSE
  BY Zenon
<1>2. PICK n \in T : \A m \in T : n <= m
  <2> HIDE DEF T
  <2>1. T \in SUBSET Nat
    BY Zenon DEF T
  <2> QED
    BY Zenon, <1>1, <2>1, LeastNatural
<1>3. n # 0 /\ n - 1 \in Nat /\ n - 1 \notin T
  BY SMTT(30), <1>2
<1> QED
  BY SMTT(30), <1>2, <1>3

\* Appending adds one member to the range.
LEMMA RangeAppend ==
    ASSUME NEW X, NEW s \in Seq(X), NEW e \in X
    PROVE  Range(Append(s, e)) = Range(s) \cup {e}
<1>1. Len(Append(s, e)) = Len(s) + 1 /\ Append(s, e) \in Seq(X)
  BY SMTT(30)
<1>2. \A i \in 1..Len(s) : Append(s, e)[i] = s[i]
  BY SMTT(30)
<1>3. Append(s, e)[Len(s) + 1] = e
  BY SMTT(30)
<1>4. 1..Len(s) + 1 = (1..Len(s)) \cup {Len(s) + 1}
  BY SMTT(30)
<1>5. DOMAIN Append(s, e) = 1..Len(s) + 1 /\ DOMAIN s = 1..Len(s)
  BY SMTT(30), <1>1
<1> QED BY Zenon, <1>2, <1>3, <1>4, <1>5 DEF Range

-----------------------------------------------------------------------------
(* What Select keeps.                                                      *)

\* f is the table of the prefixes of Select(s, S), up to length n.
Selects(s, S, n, f) ==
    /\ f = [i \in 0..n |-> f[i]]
    /\ f[0] = <<>>
    /\ \A i \in 1..n : f[i] = IF s[i] \in S THEN Append(f[i - 1], s[i]) ELSE f[i - 1]

\* The table exists for every length.
LEMMA SelectsExists ==
    ASSUME NEW s, NEW S
    PROVE  \A n \in Nat : \E f : Selects(s, S, n, f)
<1> DEFINE P == {n \in Nat : \E f : Selects(s, S, n, f)}
<1>1. 0 \in P
  <2>1. Selects(s, S, 0, [i \in 0..0 |-> <<>>])
    BY SMTT(30) DEF Selects
  <2> QED BY Zenon, <2>1
<1>2. \A n \in Nat : n \in P => n + 1 \in P
  <2> TAKE n \in Nat
  <2> HAVE n \in P
  <2>1. PICK f : Selects(s, S, n, f)
    BY Zenon
  <2> DEFINE last == IF s[n + 1] \in S THEN Append(f[n], s[n + 1]) ELSE f[n]
             g == [i \in 0..n + 1 |-> IF i <= n THEN f[i] ELSE last]
  <2>2. \A i \in 0..n : g[i] = f[i]
    BY SMTT(30)
  <2>3. g[n + 1] = last
    BY SMTT(30)
  <2>4. g = [i \in 0..n + 1 |-> g[i]]
    BY Zenon
  <2>5. \A i \in 1..n : g[i] = IF s[i] \in S THEN Append(g[i - 1], s[i]) ELSE g[i - 1]
    <3> TAKE i \in 1..n
    <3>1. i \in 0..n /\ i - 1 \in 0..n
      BY SMTT(30)
    <3> HIDE DEF g
    <3> QED BY Zenon, <2>1, <2>2, <3>1 DEF Selects
  <2>6. g[n + 1] = IF s[n + 1] \in S THEN Append(g[(n + 1) - 1], s[n + 1]) ELSE g[(n + 1) - 1]
    <3>1. (n + 1) - 1 = n /\ n \in 0..n
      BY SMTT(30)
    <3> HIDE DEF g
    <3> QED BY Zenon, <2>2, <2>3, <3>1
  <2>7. Selects(s, S, n + 1, g)
    <3>1. \A i \in 1..n + 1 : i \in 1..n \/ i = n + 1
      BY SMTT(30)
    <3>2. g[0] = <<>>
      BY SMTT(30), <2>1, <2>2 DEF Selects
    <3> HIDE DEF g
    <3> QED BY Zenon, <2>4, <2>5, <2>6, <3>1, <3>2 DEF Selects
  <2> QED BY SMTT(30), <2>7
<1> HIDE DEF P
<1>3. \A n \in Nat : n \in P
  BY Zenon, <1>1, <1>2, NaturalsIn
<1> QED BY Zenon, <1>3 DEF P

\* Select(s, S) is the last entry of its table.
LEMMA SelectTable ==
    ASSUME NEW s, NEW S, Len(s) \in Nat
    PROVE  \E f : Selects(s, S, Len(s), f) /\ Select(s, S) = f[Len(s)]
<1> DEFINE Is(f) == f = [i \in 0..Len(s) |->
                           IF i = 0 THEN <<>>
                           ELSE IF s[i] \in S THEN Append(f[i - 1], s[i]) ELSE f[i - 1]]
<1>1. \A f : Is(f) <=> Selects(s, S, Len(s), f)
  <2> TAKE f
  <2>1. ASSUME Is(f) PROVE Selects(s, S, Len(s), f)
    <3>1. f = [i \in 0..Len(s) |-> f[i]]
      BY Zenon, <2>1
    <3>2. f[0] = <<>>
      BY SMTT(30), <2>1
    <3>3. \A i \in 1..Len(s) : i # 0 /\ i \in 0..Len(s)
      BY SMTT(30)
    <3>4. \A i \in 1..Len(s) : f[i] = IF s[i] \in S THEN Append(f[i - 1], s[i]) ELSE f[i - 1]
      BY Zenon, <2>1, <3>3
    <3> QED BY Zenon, <3>1, <3>2, <3>4 DEF Selects
  <2>2. ASSUME Selects(s, S, Len(s), f) PROVE Is(f)
    BY SMTT(30), <2>2 DEF Selects
  <2> QED BY Zenon, <2>1, <2>2
<1>2. \E f : Is(f)
  <2> HIDE DEF Is
  <2> QED BY Zenon, <1>1, SelectsExists
<1>3. Is(CHOOSE f : Is(f))
  <2> HIDE DEF Is
  <2> QED BY Zenon, <1>2
<1>4. Select(s, S) = (CHOOSE f : Is(f))[Len(s)]
  BY Zenon DEF Select
<1> HIDE DEF Is
<1> QED BY Zenon, <1>1, <1>3, <1>4

\* Select(s, S) is a sequence of the members of s that are in S.
LEMMA SelectKeeps ==
    ASSUME NEW X, NEW s \in Seq(X), NEW S
    PROVE  /\ Select(s, S) \in Seq(X)
           /\ Range(Select(s, S)) = Range(s) \cap S
<1>1. PICK f : Selects(s, S, Len(s), f) /\ Select(s, S) = f[Len(s)]
  BY SMTT(30), SelectTable
<1> DEFINE P == {n \in Nat : n <= Len(s) =>
                    /\ f[n] \in Seq(X)
                    /\ Range(f[n]) = {s[i] : i \in 1..n} \cap S}
<1>2. 0 \in P
  <2>1. f[0] = <<>>
    BY Zenon, <1>1 DEF Selects
  <2>2. Range(<<>>) = {} /\ 1..0 = {} /\ <<>> \in Seq(X)
    BY SMTT(30) DEF Range
  <2> QED BY Zenon, <2>1, <2>2
<1>3. \A n \in Nat : n \in P => n + 1 \in P
  <2> TAKE n \in Nat
  <2> HAVE n \in P
  <2>1. SUFFICES ASSUME n + 1 <= Len(s)
                 PROVE  /\ f[n + 1] \in Seq(X)
                        /\ Range(f[n + 1]) = {s[i] : i \in 1..n + 1} \cap S
    BY SMTT(30)
  <2>2. f[n] \in Seq(X) /\ Range(f[n]) = {s[i] : i \in 1..n} \cap S
    BY SMTT(30), <2>1
  <2>3. f[n + 1] = IF s[n + 1] \in S THEN Append(f[n], s[n + 1]) ELSE f[n]
    <3>1. n + 1 \in 1..Len(s) /\ (n + 1) - 1 = n
      BY SMTT(30), <2>1
    <3> HIDE DEF P
    <3> QED BY Zenon, <1>1, <3>1 DEF Selects
  <2>4. s[n + 1] \in X
    BY SMTT(30), <2>1
  <2>5. {s[i] : i \in 1..n + 1} = {s[i] : i \in 1..n} \cup {s[n + 1]}
    <3>1. 1..n + 1 = (1..n) \cup {n + 1}
      BY SMTT(30)
    <3> QED BY Zenon, <3>1
  <2>6. Range(Append(f[n], s[n + 1])) = Range(f[n]) \cup {s[n + 1]}
    BY SMTT(30), <2>2, <2>4, RangeAppend
  <2> QED BY SMTT(30), <2>2, <2>3, <2>4, <2>5, <2>6
<1>4. Len(s) \in P
  <2> HIDE DEF P
  <2> QED BY SMTT(30), <1>2, <1>3, NaturalsIn
<1>5. Range(s) = {s[i] : i \in 1..Len(s)}
  BY SMTT(30) DEF Range
<1> QED BY SMTT(30), <1>1, <1>4, <1>5

-----------------------------------------------------------------------------
(* The invariant of a push.                                                *)

Sources == {p \in sel : ~Deletion(p)}
Members(ss) == UNION {Range(ss[i]) : i \in DOMAIN ss}

\* Versions only grow: what was journaled is on disk, what was claimed was on disk.
World ==
    /\ pending \subseteq Paths
    /\ disk \in [Paths -> Nat] /\ live \in [Paths -> Nat]
    /\ claim \in [Paths -> [gen : Nat, ver : Nat]]
    /\ \A p \in Paths : /\ live[p] <= disk[p]
                        /\ claim[p].gen <= claim[p].ver /\ claim[p].ver <= disk[p]

\* The batches hold claimed files.
Shape ==
    /\ sel \subseteq Paths /\ links \subseteq Links
    /\ queue \in Seq(Sources) /\ batch \in Seq(Sources) /\ splits \in Seq(Seq(Sources))
    /\ DOMAIN ready \subseteq Range(batch) /\ DOMAIN done \subseteq Sources

\* A prepared or uploaded file has the content of the version that was claimed.
Hashed ==
    /\ \A p \in DOMAIN ready : ready[p] = HashOf(p)
    /\ \A p \in DOMAIN done : done[p] = [hash |-> HashOf(p), mtime |-> claim[p].ver]

Looping == {"select", "reserve", "prepare", "check", "read", "upload", "after"}
Publishing == {"update", "index", "publish"}

\* Every claimed file is uploaded, deferred or still in some batch.
Accounted ==
    pc \in Looping =>
        /\ Sources \subseteq DOMAIN done \cup deferred \cup Range(queue) \cup Members(splits)
                                \cup Range(batch)
        /\ cont = {}
        /\ pc = "select" => batch = <<>>
        /\ pc \in {"check", "read", "upload"} =>
              Range(batch) \subseteq DOMAIN ready \cup DOMAIN done \cup deferred
        /\ pc = "after" => Range(batch) \subseteq DOMAIN done \cup deferred

\* What is left to a later root is cut off between groups.
CutBetweenGroups ==
    pc \in {"settle"} \cup Publishing =>
        /\ Sources \ Suffix \subseteq DOMAIN done \cup deferred
        /\ \A g \in Groups : g \cap deferred = {} => g \subseteq Suffix \/ g \cap Suffix = {}

Candidate ==
    [p \in Paths |-> IF p \in Deleted THEN Gone ELSE IF p \in Upserts THEN done[p] ELSE tree[p]]

\* The candidate is the tree and, once updated, the outcome of this push.
Outcome ==
    /\ pc \in Publishing => published = Upserts \cup Deleted
    /\ pc \notin {"index", "publish", "joining"} => cand = tree
    /\ pc \in {"index", "publish"} => cand = Candidate

PushInv ==
    /\ World /\ Shape /\ Hashed /\ Accounted /\ CutBetweenGroups /\ Outcome
    /\ NoLostEdit /\ EntriesConsistent

-----------------------------------------------------------------------------
(* Sequences of files, cut and joined.                                     *)

\* A sequence is the members before a position and the members after it.
LEMMA RangeSplit ==
    ASSUME NEW X, NEW s \in Seq(X), NEW k \in 0..Len(s)
    PROVE  /\ SubSeq(s, 1, k) \in Seq(X) /\ SubSeq(s, k + 1, Len(s)) \in Seq(X)
           /\ Len(SubSeq(s, 1, k)) = k
           /\ Range(s) = Range(SubSeq(s, 1, k)) \cup Range(SubSeq(s, k + 1, Len(s)))
<1> DEFINE a == SubSeq(s, 1, k)
           b == SubSeq(s, k + 1, Len(s))
<1>1. a \in Seq(X) /\ Len(a) = k /\ \A i \in 1..k : a[i] = s[i]
  BY SMTT(30)
<1>2. b \in Seq(X) /\ Len(b) = Len(s) - k /\ \A i \in 1..(Len(s) - k) : b[i] = s[k + i]
  BY SMTT(30)
<1>3. \A i \in 1..Len(s) : i \in 1..k \/ i - k \in 1..(Len(s) - k)
  BY SMTT(30)
<1>4. \A i \in 1..k : i \in 1..Len(s)
  BY SMTT(30)
<1>5. \A i \in 1..(Len(s) - k) : k + i \in 1..Len(s)
  BY SMTT(30)
<1>6. \A i \in 1..Len(s) : k + (i - k) = i
  BY SMTT(30)
<1>7. DOMAIN s = 1..Len(s) /\ DOMAIN a = 1..k /\ DOMAIN b = 1..(Len(s) - k)
  BY SMTT(30), <1>1, <1>2
<1> HIDE DEF a, b
<1>8. ASSUME NEW x \in Range(s) PROVE x \in Range(a) \cup Range(b)
  <2>1. PICK i \in 1..Len(s) : s[i] = x
    BY Zenon, <1>7 DEF Range
  <2>2. CASE i \in 1..k
    BY Zenon, <1>1, <1>7, <2>1, <2>2 DEF Range
  <2>3. CASE i - k \in 1..(Len(s) - k)
    <3>1. b[i - k] = x
      BY Zenon, <1>2, <1>6, <2>1, <2>3
    <3> QED BY Zenon, <1>7, <2>3, <3>1 DEF Range
  <2> QED BY Zenon, <1>3, <2>2, <2>3
<1>9. ASSUME NEW x \in Range(a) PROVE x \in Range(s)
  BY Zenon, <1>1, <1>4, <1>7 DEF Range
<1>10. ASSUME NEW x \in Range(b) PROVE x \in Range(s)
  <2>1. PICK i \in 1..(Len(s) - k) : b[i] = x
    BY Zenon, <1>7 DEF Range
  <2> QED BY Zenon, <1>2, <1>5, <1>7, <2>1 DEF Range
<1> QED BY Zenon, <1>1, <1>2, <1>8, <1>9, <1>10 DEF a, b

\* One more sequence, or one less.
LEMMA MembersAppend ==
    ASSUME NEW X, NEW ss \in Seq(Seq(X)), NEW s \in Seq(X)
    PROVE  Append(ss, s) \in Seq(Seq(X)) /\ Members(Append(ss, s)) = Members(ss) \cup Range(s)
<1>1. Append(ss, s) \in Seq(Seq(X))
  BY SMTT(30)
<1>2. \A i \in 1..Len(ss) : Append(ss, s)[i] = ss[i]
  BY SMTT(30)
<1>3. Append(ss, s)[Len(ss) + 1] = s
  BY SMTT(30)
<1>4. 1..Len(ss) + 1 = (1..Len(ss)) \cup {Len(ss) + 1}
  BY SMTT(30)
<1>5. DOMAIN Append(ss, s) = 1..Len(ss) + 1 /\ DOMAIN ss = 1..Len(ss)
  BY SMTT(30), <1>1
<1> QED BY Zenon, <1>1, <1>2, <1>3, <1>4, <1>5 DEF Members

LEMMA MembersLast ==
    ASSUME NEW X, NEW ss \in Seq(Seq(X)), ss # <<>>
    PROVE  /\ SubSeq(ss, 1, Len(ss) - 1) \in Seq(Seq(X)) /\ ss[Len(ss)] \in Seq(X)
           /\ Members(ss) = Members(SubSeq(ss, 1, Len(ss) - 1)) \cup Range(ss[Len(ss)])
<1>1. Len(ss) \in Nat /\ Len(ss) # 0
  BY SMTT(30)
<1> DEFINE front == SubSeq(ss, 1, Len(ss) - 1)
<1>2. front \in Seq(Seq(X)) /\ Len(front) = Len(ss) - 1
  <2>1. Len(ss) - 1 \in 0..Len(ss)
    BY SMTT(30), <1>1
  <2> QED BY Zenon, <2>1, RangeSplit
<1>3. \A i \in 1..Len(ss) - 1 : front[i] = ss[i]
  BY SMTT(30), <1>1
<1>4. ss[Len(ss)] \in Seq(X)
  BY SMTT(30), <1>1
<1>5. 1..Len(ss) = (1..Len(ss) - 1) \cup {Len(ss)}
  BY SMTT(30), <1>1
<1>6. DOMAIN front = 1..Len(ss) - 1 /\ DOMAIN ss = 1..Len(ss)
  BY SMTT(30), <1>1, <1>2
<1> HIDE DEF front
<1>7. Members(ss) = Members(front) \cup Range(ss[Len(ss)])
  BY Zenon, <1>3, <1>5, <1>6 DEF Members
<1> QED BY Zenon, <1>2, <1>4, <1>7 DEF front

LEMMA MembersPair ==
    ASSUME NEW X, NEW ss \in Seq(Seq(X)), NEW s \in Seq(X), NEW t \in Seq(X)
    PROVE  /\ ss \o <<s, t>> \in Seq(Seq(X))
           /\ Members(ss \o <<s, t>>) = Members(ss) \cup Range(s) \cup Range(t)
<1>1. ss \o <<s, t>> = Append(Append(ss, s), t)
  BY SMTT(30)
<1>2. Append(ss, s) \in Seq(Seq(X)) /\ Members(Append(ss, s)) = Members(ss) \cup Range(s)
  BY Zenon, MembersAppend
<1>3. /\ Append(Append(ss, s), t) \in Seq(Seq(X))
      /\ Members(Append(Append(ss, s), t)) = Members(Append(ss, s)) \cup Range(t)
  BY Zenon, <1>2, MembersAppend
<1> QED BY Zenon, <1>1, <1>2, <1>3

LEMMA MembersNone == Members(<<>>) = {}
BY SMTT(30) DEF Members

LEMMA RangeNone == Range(<<>>) = {}
BY SMTT(30) DEF Range

-----------------------------------------------------------------------------
(* The boundary of a slice.                                                *)

\* A least index exists, and Min finds it.
LEMMA MinIsLeast ==
    ASSUME NEW T \in SUBSET Nat, T # {}
    PROVE  Min(T) \in T /\ \A m \in T : Min(T) <= m
<1>1. PICK n \in T : \A m \in T : n <= m
  BY Zenon, LeastNatural
<1>2. \E x \in T : \A y \in T : x <= y
  BY Zenon, <1>1
<1> QED BY Zenon, <1>2 DEF Min

\* Every claimed file that is neither processed nor deferred is behind the cut.
LEMMA BoundaryHolds ==
    ASSUME PushAssumption, sel \subseteq Paths, NEW processed,
           NEW p \in Sources, p \notin processed \cup deferred
    PROVE  /\ p \in SafeBoundary(processed).held
           /\ p \in SafeBoundary(processed).continuation
<1> DEFINE open == {i \in 1..Len(Changes) : ~Deletion(Changes[i]) /\ Changes[i] \notin processed \cup deferred}
           cut == IF open = {} THEN Len(Changes) + 1 ELSE Min(open)
           rest == {Changes[i] : i \in cut..Len(Changes)}
<1>1. Changes \in Seq(Paths) /\ Range(Changes) = sel
  <2>1. Changes \in Seq(Paths) /\ Range(Changes) = Range(Order) \cap sel
    BY Zenon, SelectKeeps DEF PushAssumption, Changes
  <2> QED BY Zenon, <2>1 DEF Paths
<1>2. PICK i \in 1..Len(Changes) : Changes[i] = p
  BY SMTT(30), <1>1 DEF Range, Sources
<1>3. i \in open
  BY Zenon, <1>2 DEF Sources
<1>4. open \in SUBSET Nat
  BY SMTT(30), <1>1
<1> HIDE DEF open
<1>5. cut \in Nat /\ cut <= i
  BY Zenon, <1>3, <1>4, MinIsLeast
<1>6. i \in cut..Len(Changes)
  BY SMTT(30), <1>2, <1>5, <1>1
<1> HIDE DEF cut
<1>7. p \in rest
  BY Zenon, <1>2, <1>6
<1>8. SafeBoundary(processed).held = rest /\ SafeBoundary(processed).continuation = rest \ deferred
  BY Zenon DEF SafeBoundary, cut, open
<1> QED BY Zenon, <1>7, <1>8

\* A safe boundary has no undeferred group on both of its sides.
LEMMA BoundarySafe ==
    ASSUME NEW processed, SafeBoundary(processed).safe,
           NEW g \in Groups, g \cap deferred = {}
    PROVE  \/ g \subseteq SafeBoundary(processed).held
           \/ g \cap SafeBoundary(processed).held = {}
BY Zenon DEF SafeBoundary

LEMMA BoundaryContinues ==
    ASSUME NEW processed
    PROVE  SafeBoundary(processed).continuation = SafeBoundary(processed).held \ deferred
BY Zenon DEF SafeBoundary

-----------------------------------------------------------------------------
(* One lemma per action of a push.                                         *)

LEMMA PushInit == PushAssumption /\ Init => PushInv
<1> SUFFICES ASSUME PushAssumption, Init PROVE PushInv
  BY Zenon
<1>1. World
  BY SMTT(30) DEF Init, World
<1>2. Shape
  <2>1. sel = {} /\ links = Links /\ queue = <<>> /\ batch = <<>> /\ splits = <<>>
        /\ ready = <<>> /\ done = <<>>
    BY Zenon DEF Init
  <2> QED BY SMTT(30), <2>1 DEF Shape, Range
<1>3. Hashed
  BY SMTT(30) DEF Init, Hashed
<1>4. Accounted /\ CutBetweenGroups /\ Outcome
  BY Zenon DEF Init, Accounted, CutBetweenGroups, Outcome, Looping, Publishing
<1>5. NoLostEdit
  BY Zenon DEF Init, NoLostEdit
<1>6. EntriesConsistent
  <2>1. \A p \in Paths : tree[p].mtime = 0
    BY Zenon DEF Init, Gone
  <2>2. cand = tree
    BY Zenon DEF Init
  <2> QED BY SMTT(30), <2>1, <2>2 DEF EntriesConsistent
<1> QED BY Zenon, <1>1, <1>2, <1>3, <1>4, <1>5, <1>6 DEF PushInv

pushed == <<sel, claim, queue, splits, batch, ready, done, deferred, held, cont, links>>

\* A step that leaves the push alone keeps what is known of it.
LEMMA PushFrame ==
    ASSUME PushInv, UNCHANGED <<pushed, cand, published, tree, pc>>, World', NoLostEdit'
    PROVE  PushInv'
<1> USE DEF pushed, PushInv
<1>1. Sources' = Sources /\ \A p : HashOf(p)' = HashOf(p)
  BY Zenon DEF Sources, Deletion, HashOf
<1>2. Shape'
  BY Zenon, <1>1 DEF Shape
<1>3. Hashed'
  BY Zenon, <1>1 DEF Hashed
<1>4. Accounted'
  BY Zenon, <1>1 DEF Accounted
<1>5. Groups' = Groups /\ Suffix' = Suffix /\ Deleted' = Deleted /\ Upserts' = Upserts
  BY SMTT(30) DEF Groups, Suffix, Deleted, Upserts, Deletes, Withheld, Deletion
<1>6. CutBetweenGroups'
  BY Zenon, <1>1, <1>5 DEF CutBetweenGroups
<1>7. Outcome'
  BY Zenon, <1>5 DEF Outcome, Candidate
<1>8. EntriesConsistent'
  BY Zenon DEF EntriesConsistent
<1> QED BY Zenon, <1>2, <1>3, <1>4, <1>6, <1>7, <1>8

LEMMA EditStep ==
    ASSUME PushInv, NEW p \in Paths, Edit(p)
    PROVE  PushInv'
<1>1. World'
  BY SMTT(30) DEF PushInv, World, Edit, work, owed
<1>2. NoLostEdit'
  <2> SUFFICES ASSUME NEW q \in Paths, Content[q][disk'[q]] # tree[q].hash
               PROVE  q \in pending \/ live[q] # disk'[q]
    BY Zenon DEF NoLostEdit, Edit, owed
  <2>1. CASE q = p
    BY SMTT(30), <2>1 DEF PushInv, World, Edit
  <2>2. CASE q # p
    BY Zenon, <2>2 DEF PushInv, NoLostEdit, World, Edit
  <2> QED BY Zenon, <2>1, <2>2
<1> QED BY Zenon, <1>1, <1>2, PushFrame DEF Edit, pushed, owed, work, loop, out

LEMMA NoticeStep ==
    ASSUME PushInv, NEW p \in Paths, Notice(p)
    PROVE  PushInv'
<1>1. World'
  BY SMTT(30) DEF PushInv, World, Notice, work
<1>2. NoLostEdit'
  BY Zenon DEF PushInv, NoLostEdit, World, Notice
<1> QED BY Zenon, <1>1, <1>2, PushFrame DEF Notice, pushed, work, loop, out

\* Steps of the environment that only the server's or the memory's state sees, and the
\* speculative read of the next window.
LEMMA QuietStep ==
    ASSUME PushInv, UNCHANGED <<pushed, cand, published, tree, pc, disk, live, pending>>
    PROVE  PushInv'
<1>1. World' /\ NoLostEdit'
  BY Zenon DEF PushInv, World, NoLostEdit, pushed
<1> QED BY Zenon, <1>1, PushFrame

\* A push that stops keeps the tree; its candidate is dropped later.
LEMMA StopStep ==
    ASSUME PushInv, pc' = "joining", UNCHANGED <<pushed, tree, cand, disk, live, pending>>
    PROVE  PushInv'
<1> USE DEF pushed, PushInv
<1>1. World' /\ NoLostEdit' /\ EntriesConsistent'
  BY Zenon DEF World, NoLostEdit, EntriesConsistent
<1>2. Sources' = Sources /\ \A p : HashOf(p)' = HashOf(p)
  BY Zenon DEF Sources, Deletion, HashOf
<1>3. Shape' /\ Hashed'
  BY Zenon, <1>2 DEF Shape, Hashed
<1>4. Accounted' /\ CutBetweenGroups' /\ Outcome'
  BY Zenon DEF Accounted, CutBetweenGroups, Outcome, Looping, Publishing
<1> QED BY Zenon, <1>1, <1>3, <1>4

LEMMA JoinStep ==
    ASSUME PushInv, Join
    PROVE  PushInv'
<1> USE DEF PushInv
<1>0. UNCHANGED pushed /\ UNCHANGED <<tree, disk, live, pending>> /\ pc' = "idle" /\ cand' = tree
  BY Zenon DEF Join, pushed, env, owed, work, loop
<1> USE DEF pushed
<1>1. World' /\ NoLostEdit' /\ EntriesConsistent'
  BY Zenon, <1>0 DEF World, NoLostEdit, EntriesConsistent
<1>2. Sources' = Sources /\ \A p : HashOf(p)' = HashOf(p)
  BY Zenon, <1>0 DEF Sources, Deletion, HashOf
<1>3. Shape' /\ Hashed'
  BY Zenon, <1>0, <1>2 DEF Shape, Hashed
<1>4. Accounted' /\ CutBetweenGroups' /\ Outcome'
  BY Zenon, <1>0 DEF Accounted, CutBetweenGroups, Outcome, Looping, Publishing
<1> QED BY Zenon, <1>1, <1>3, <1>4

LEMMA StartStep ==
    ASSUME PushAssumption, PushInv, Start
    PROVE  PushInv'
<1> USE DEF PushInv
<1>0. /\ UNCHANGED <<disk, live, pending, links, tree>>
      /\ pc' = "select" /\ cand' = tree /\ cont' = {} /\ held' = {} /\ deferred' = {}
      /\ ready' = <<>> /\ done' = <<>> /\ batch' = <<>> /\ splits' = <<>>
      /\ sel' = Runnable /\ pc = "idle"
      /\ claim' = [p \in Paths |-> [gen |-> live[p], ver |-> disk[p]]]
      /\ queue' = Select(Order, {p \in Runnable : Content[p][disk[p]] # "none"})
  BY Zenon DEF Start, env, owed
<1>1. World'
  BY SMTT(30), <1>0 DEF World
<1>2. NoLostEdit' /\ EntriesConsistent'
  BY Zenon, <1>0 DEF NoLostEdit, EntriesConsistent
<1>3. Runnable \subseteq Paths
  BY Zenon DEF Runnable, World
<1>4. Sources' = {p \in Runnable : Content[p][disk[p]] # "none"}
  BY Zenon, <1>0, <1>3 DEF Sources, Deletion
<1>5. queue' \in Seq(Paths) /\ Range(queue') = Sources'
  <2>1. /\ Select(Order, Sources') \in Seq(Paths)
        /\ Range(Select(Order, Sources')) = Range(Order) \cap Sources'
    BY Zenon, SelectKeeps DEF PushAssumption
  <2> QED BY Zenon, <1>0, <1>3, <1>4, <2>1 DEF Paths
<1>6. queue' \in Seq(Sources')
  BY Zenon, <1>5, SeqOfRange
<1>7. Shape'
  BY SMTT(30), <1>0, <1>3, <1>6 DEF Shape, Range
<1>8. Hashed'
  BY SMTT(30), <1>0 DEF Hashed
<1>9. Accounted'
  BY Zenon, <1>0, <1>5 DEF Accounted
<1>10. CutBetweenGroups' /\ Outcome'
  BY Zenon, <1>0 DEF CutBetweenGroups, Outcome, Publishing
<1> QED BY Zenon, <1>1, <1>2, <1>7, <1>8, <1>9, <1>10

\* What every step of the batch loop leaves alone.
looped == <<disk, live, pending, links, tree, cand, sel, claim>>

LEMMA LoopFrame ==
    ASSUME PushInv, pc \in Looping, UNCHANGED looped, pc' \in Looping \cup {"settle"}
    PROVE  /\ World' /\ NoLostEdit' /\ EntriesConsistent' /\ Outcome'
           /\ Sources' = Sources /\ \A p : HashOf(p)' = HashOf(p)
<1> USE DEF looped, PushInv, Looping
<1>1. World' /\ NoLostEdit' /\ EntriesConsistent'
  BY Zenon DEF World, NoLostEdit, EntriesConsistent
<1>2. Outcome'
  BY Zenon DEF Outcome, Publishing
<1>3. Sources' = Sources /\ \A p : HashOf(p)' = HashOf(p)
  BY Zenon DEF Sources, Deletion, HashOf
<1> QED BY Zenon, <1>1, <1>2, <1>3

LEMMA SmallerOf ==
    ASSUME NEW m \in Nat, NEW n \in Nat, n >= 1, NEW k \in 1..Min({m, Max({1, n})})
    PROVE  k \in 0..n
<1>1. Max({1, n}) = n
  BY SMTT(30) DEF Max
<1>2. {m, n} \in SUBSET Nat /\ {m, n} # {}
  BY Zenon
<1>3. Min({m, n}) \in {m, n} /\ Min({m, n}) <= n
  BY Zenon, <1>2, MinIsLeast
<1> QED BY SMTT(30), <1>1, <1>3

LEMMA SelectBatchStep ==
    ASSUME PushAssumption, PushInv, SelectBatch
    PROVE  PushInv'
<1> USE DEF PushInv
<1>0. /\ pc = "select" /\ (splits # <<>> \/ queue # <<>>) /\ UNCHANGED looped
      /\ UNCHANGED <<cont, held, ready, done>>
  BY Zenon DEF SelectBatch, looped, env, owed, out
<1>1. PICK k \in 1..Min({MaxFiles, Max({1, Len(queue)})}) :
         LET b == IF splits # <<>> THEN splits[Len(splits)] ELSE SubSeq(queue, 1, k)
             rest == IF splits # <<>> THEN SubSeq(splits, 1, Len(splits) - 1) ELSE <<>>
             mid == (Len(b) + 1) \div 2
         IN  /\ queue' = IF splits # <<>> THEN queue ELSE SubSeq(queue, k + 1, Len(queue))
             /\ \/ /\ batch' = b /\ splits' = rest /\ pc' = "reserve"
                   /\ UNCHANGED deferred
                \/ /\ Len(b) > 1
                   /\ splits' = rest \o <<SubSeq(b, mid + 1, Len(b)), SubSeq(b, 1, mid)>>
                   /\ UNCHANGED <<batch, pc, deferred>>
                \/ /\ splits' = rest /\ deferred' = deferred \cup Range(b)
                   /\ UNCHANGED <<batch, pc>>
  BY Zenon DEF SelectBatch
<1> DEFINE b == IF splits # <<>> THEN splits[Len(splits)] ELSE SubSeq(queue, 1, k)
           rest == IF splits # <<>> THEN SubSeq(splits, 1, Len(splits) - 1) ELSE <<>>
           mid == (Len(b) + 1) \div 2
<1>2. /\ World' /\ NoLostEdit' /\ EntriesConsistent'
      /\ pc' \in {"select", "reserve"}
      /\ Outcome' /\ Sources' = Sources /\ \A p : HashOf(p)' = HashOf(p)
  <2>1. pc' \in {"select", "reserve"}
    BY Zenon, <1>0, <1>1
  <2> QED BY Zenon, <1>0, <2>1, LoopFrame DEF Looping
<1>3. queue \in Seq(Sources) /\ splits \in Seq(Seq(Sources)) /\ batch = <<>>
  BY Zenon, <1>0 DEF Shape, Accounted, Looping
<1>4. /\ b \in Seq(Sources) /\ rest \in Seq(Seq(Sources)) /\ queue' \in Seq(Sources)
      /\ Members(splits) \cup Range(queue) = Members(rest) \cup Range(b) \cup Range(queue')
  <2>1. CASE splits # <<>>
    BY Zenon, <1>1, <1>3, <2>1, MembersLast
  <2>2. CASE splits = <<>>
    <3>1. Len(queue) \in Nat /\ Len(queue) >= 1
      BY SMTT(30), <1>0, <1>3, <2>2
    <3>2. k \in 0..Len(queue)
      BY Zenon, <3>1, SmallerOf DEF PushAssumption
    <3>3. b = SubSeq(queue, 1, k) /\ rest = <<>> /\ queue' = SubSeq(queue, k + 1, Len(queue))
      BY Zenon, <1>1, <2>2
    <3>4. <<>> \in Seq(Seq(Sources))
      BY SMTT(30)
    <3> QED BY Zenon, <1>3, <2>2, <3>2, <3>3, <3>4, RangeSplit, MembersNone
  <2> QED BY Zenon, <2>1, <2>2
<1>5. \/ /\ batch' = b /\ splits' = rest /\ pc' = "reserve" /\ deferred' = deferred
      \/ /\ Len(b) > 1 /\ batch' = batch /\ pc' = "select" /\ deferred' = deferred
         /\ splits' = rest \o <<SubSeq(b, mid + 1, Len(b)), SubSeq(b, 1, mid)>>
      \/ /\ splits' = rest /\ deferred' = deferred \cup Range(b)
         /\ batch' = batch /\ pc' = "select"
  BY Zenon, <1>0, <1>1
<1>6. /\ batch' \in Seq(Sources) /\ splits' \in Seq(Seq(Sources))
      /\ pc' = "select" => batch' = <<>>
      /\ Members(splits) \cup Range(queue) \cup deferred
             \subseteq Members(splits') \cup Range(batch') \cup Range(queue') \cup deferred'
  <2>1. CASE batch' = b /\ splits' = rest /\ pc' = "reserve" /\ deferred' = deferred
    <3> HIDE DEF b, rest
    <3> QED BY Zenon, <1>4, <2>1
  <2>2. CASE /\ Len(b) > 1 /\ batch' = batch /\ pc' = "select" /\ deferred' = deferred
             /\ splits' = rest \o <<SubSeq(b, mid + 1, Len(b)), SubSeq(b, 1, mid)>>
    <3> HIDE DEF b, rest
    <3>1. mid \in 0..Len(b)
      BY SMTT(30), <1>4, <2>2
    <3> HIDE DEF mid
    <3> DEFINE low == SubSeq(b, 1, mid)
               high == SubSeq(b, mid + 1, Len(b))
    <3>2. low \in Seq(Sources) /\ high \in Seq(Sources) /\ Range(b) = Range(low) \cup Range(high)
      BY Zenon, <1>4, <3>1, RangeSplit
    <3>3. splits' = rest \o <<high, low>>
      BY Zenon, <2>2
    <3> HIDE DEF low, high
    <3>4. /\ splits' \in Seq(Seq(Sources))
          /\ Members(splits') = Members(rest) \cup Range(high) \cup Range(low)
      BY SMTT(30), <1>4, <3>2, <3>3, MembersPair
    <3>5. batch' \in Seq(Sources) /\ batch' = <<>> /\ deferred' = deferred
      BY SMTT(30), <1>3, <2>2
    <3> QED BY Zenon, <1>4, <3>2, <3>4, <3>5
  <2>3. CASE /\ splits' = rest /\ deferred' = deferred \cup Range(b)
             /\ batch' = batch /\ pc' = "select"
    <3> HIDE DEF b, rest
    <3> QED BY SMTT(30), <1>3, <1>4, <2>3
  <2> QED BY Zenon, <1>5, <2>1, <2>2, <2>3
<1> HIDE DEF b, rest, mid
<1>7. Shape'
  <2>1. ready = ready' /\ DOMAIN ready = {}
    BY Zenon, <1>0, <1>3, RangeNone DEF Shape
  <2> QED BY Zenon, <1>0, <1>2, <1>4, <1>6, <2>1 DEF Shape, looped
<1>8. Hashed'
  BY Zenon, <1>0, <1>2 DEF Hashed, looped
<1>9. Accounted'
  <2>1. Range(batch) = {}
    BY SMTT(30), <1>3 DEF Range
  <2> QED BY Zenon, <1>0, <1>2, <1>6, <2>1 DEF Accounted, Looping
<1>10. CutBetweenGroups'
  BY Zenon, <1>2 DEF CutBetweenGroups, Publishing
<1> QED BY Zenon, <1>2, <1>7, <1>8, <1>9, <1>10

LEMMA ReserveStep ==
    ASSUME PushInv, Reserve
    PROVE  PushInv'
<1> USE DEF PushInv
<1>0. /\ pc = "reserve" /\ UNCHANGED looped /\ UNCHANGED <<cont, held, done, queue, deferred>>
      /\ ready' = <<>>
      /\ \/ pc' = "prepare" /\ UNCHANGED <<splits, batch>>
         \/ pc' = "select" /\ splits' = Append(splits, batch) /\ batch' = <<>>
  BY Zenon DEF Reserve, looped, env, owed, out, work
<1>1. /\ World' /\ NoLostEdit' /\ EntriesConsistent'
      /\ Outcome' /\ Sources' = Sources /\ \A p : HashOf(p)' = HashOf(p)
  BY Zenon, <1>0, LoopFrame DEF Looping
<1>2. batch \in Seq(Sources) /\ splits \in Seq(Seq(Sources)) /\ queue \in Seq(Sources)
  BY Zenon DEF Shape
<1>3. /\ batch' \in Seq(Sources) /\ splits' \in Seq(Seq(Sources))
      /\ Members(splits) \cup Range(batch) = Members(splits') \cup Range(batch')
  <2>1. CASE UNCHANGED <<splits, batch>>
    BY Zenon, <1>2, <2>1
  <2>2. CASE splits' = Append(splits, batch) /\ batch' = <<>>
    <3>1. <<>> \in Seq(Sources)
      BY SMTT(30)
    <3> QED BY SMTT(30), <1>2, <2>2, <3>1, MembersAppend, RangeNone
  <2> QED BY Zenon, <1>0, <2>1, <2>2
<1>4. DOMAIN ready' = {}
  BY SMTT(30), <1>0
<1>5. Shape'
  BY Zenon, <1>0, <1>1, <1>2, <1>3, <1>4 DEF Shape, looped
<1>6. Hashed'
  BY Zenon, <1>0, <1>1, <1>4 DEF Hashed, looped
<1>7. Accounted'
  BY Zenon, <1>0, <1>1, <1>3 DEF Accounted, Looping
<1>8. CutBetweenGroups'
  BY Zenon, <1>0 DEF CutBetweenGroups, Publishing
<1> QED BY Zenon, <1>1, <1>5, <1>6, <1>7, <1>8

\* A look at the slice limits moves files between the batch and the splits, and drops
\* none.
LEMMA SliceKeeps ==
    ASSUME Shape, NEW rd, NEW ks, NEW urgent, Slice(rd, ks, urgent),
           DOMAIN rd \subseteq Range(batch), \A p \in DOMAIN rd : rd[p] = HashOf(p)
    PROVE  /\ batch' \in Seq(Sources) /\ splits' \in Seq(Seq(Sources))
           /\ DOMAIN ready' \subseteq Range(batch')
           /\ \A p \in DOMAIN ready' : ready'[p] = HashOf(p)
           /\ Range(batch') \subseteq Range(batch)
           /\ Range(batch') \cap DOMAIN rd \subseteq DOMAIN ready'
           /\ Members(splits) \cup Range(batch)
                  \subseteq Members(splits') \cup Range(batch') \cup deferred
<1>1. batch \in Seq(Sources) /\ splits \in Seq(Seq(Sources))
  BY Zenon DEF Shape
<1>2. CASE ready' = rd /\ UNCHANGED <<batch, splits>>
  BY Zenon, <1>1, <1>2
<1>3. ASSUME NEW H, ready' = Restrict(rd, DOMAIN rd \ H), batch' = Select(batch, Range(batch) \ H),
             splits' = Append(splits, Select(batch, H \ deferred))
      PROVE  /\ batch' \in Seq(Sources) /\ splits' \in Seq(Seq(Sources))
             /\ DOMAIN ready' \subseteq Range(batch')
             /\ \A p \in DOMAIN ready' : ready'[p] = HashOf(p)
             /\ Range(batch') \subseteq Range(batch)
             /\ Range(batch') \cap DOMAIN rd \subseteq DOMAIN ready'
             /\ Members(splits) \cup Range(batch)
                    \subseteq Members(splits') \cup Range(batch') \cup deferred
  <2>1. batch' \in Seq(Sources) /\ Range(batch') = Range(batch) \ H
    BY SMTT(30), <1>1, <1>3, SelectKeeps
  <2>2. DOMAIN ready' = DOMAIN rd \ H /\ \A p \in DOMAIN ready' : ready'[p] = rd[p]
    BY Zenon, <1>3 DEF Restrict
  <2> DEFINE back == Select(batch, H \ deferred)
  <2>3. back \in Seq(Sources) /\ Range(back) = Range(batch) \cap (H \ deferred)
    BY Zenon, <1>1, SelectKeeps
  <2> HIDE DEF back
  <2>4. splits' \in Seq(Seq(Sources)) /\ Members(splits') = Members(splits) \cup Range(back)
    BY Zenon, <1>1, <1>3, <2>3, MembersAppend DEF back
  <2> QED BY Zenon, <2>1, <2>2, <2>3, <2>4
<1> QED BY Zenon, <1>2, <1>3 DEF Slice

\* The number of the prepared files is at most the length of their list.
LEMMA PreparedFit ==
    ASSUME NEW X, NEW s \in Seq(X), NEW S, S \subseteq Range(s)
    PROVE  Cardinality(S) \in 0..Len(Select(s, S))
<1> DEFINE names == Select(s, S)
<1>1. names \in Seq(X) /\ Range(names) = S
  <2>1. names \in Seq(X) /\ Range(names) = Range(s) \cap S
    BY Zenon, SelectKeeps
  <2> QED BY Zenon, <2>1
<1> HIDE DEF names
<1>2. Len(names) \in Nat /\ DOMAIN names = 1..Len(names)
  BY SMTT(30), <1>1
<1>3. IsFiniteSet(1..Len(names)) /\ Cardinality(1..Len(names)) = Len(names)
  <2>1. 1 \in Int /\ Len(names) \in Int
    BY SMTT(30), <1>2
  <2>2. /\ IsFiniteSet(1..Len(names))
        /\ Cardinality(1..Len(names)) = IF 1 > Len(names) THEN 0 ELSE Len(names) - 1 + 1
    BY Zenon, <2>1, FS_Interval
  <2> QED BY SMTT(30), <1>2, <2>2
<1>4. {names[i] : i \in 1..Len(names)} = S
  BY Zenon, <1>1, <1>2 DEF Range
<1>5. names \in Surjection(1..Len(names), S)
  BY SMTT(30), <1>1, <1>2, <1>4 DEF Surjection
<1>6. IsFiniteSet(S) /\ Cardinality(S) <= Len(names)
  BY SMTT(30), <1>3, <1>5, FS_Surjection
<1> QED BY SMTT(30), <1>2, <1>6, FS_CardinalityType DEF names

\* When the files prepared so far close a slice, the batch that is left is prepared.
LEMMA CutIsPrepared ==
    ASSUME PushAssumption, Shape, NEW rd, NEW urgent, Slice(rd, AllReady(rd), urgent),
           DOMAIN rd \subseteq Range(batch), batch' # batch
    PROVE  Range(batch') \subseteq DOMAIN rd \cup DOMAIN done \cup deferred
<1> DEFINE names == Select(batch, DOMAIN rd)
           n == Cardinality(DOMAIN rd)
<1>0. batch \in Seq(Sources)
  BY Zenon DEF Shape
<1>1. names \in Seq(Sources) /\ Range(names) = DOMAIN rd /\ n \in 0..Len(names)
  <2>1. names \in Seq(Sources) /\ Range(names) = Range(batch) \cap DOMAIN rd
    BY SMTT(30), <1>0, SelectKeeps
  <2>2. n \in 0..Len(names)
    BY Zenon, <1>0, PreparedFit
  <2> QED BY Zenon, <2>1, <2>2
<1>2. DOMAIN Prefix(rd, n) \subseteq DOMAIN rd
  <2>1. DOMAIN Prefix(rd, n) = Range(SubSeq(names, 1, n))
    BY Zenon DEF Prefix, Restrict
  <2> HIDE DEF names, n
  <2> QED BY SMTT(30), <1>1, <2>1, RangeSplit
<1>3. batch' = Select(batch, Range(batch) \ PrefixBoundary(Prefix(rd, n)).held)
  <2>1. PICK k \in AllReady(rd) : batch' = Select(batch, Range(batch) \ PrefixBoundary(Prefix(rd, k)).held)
    <3> DEFINE now == decided \/ (urgent /\ \E k \in AllReady(rd) : Remaining(Prefix(rd, k)))
               cutting == {k \in AllReady(rd) : now /\ k > 0 /\ Cuts(Prefix(rd, k))}
    <3>1. cutting # {} /\ batch' = Select(batch, Range(batch) \ PrefixBoundary(Prefix(rd, Min(cutting))).held)
      BY Zenon DEF Slice
    <3>2. cutting \in SUBSET Nat
      BY SMTT(30), <1>1 DEF AllReady
    <3>3. Min(cutting) \in cutting
      <4> HIDE DEF cutting
      <4> QED BY Zenon, <3>1, <3>2, MinIsLeast
    <3>4. cutting \subseteq AllReady(rd)
      BY Zenon
    <3> HIDE DEF cutting
    <3> QED BY Zenon, <3>1, <3>3, <3>4
  <2> QED BY Zenon, <2>1 DEF AllReady
<1> HIDE DEF names, n
<1> DEFINE processed == DOMAIN done \cup DOMAIN Prefix(rd, n)
<1>4. Range(batch') = Range(batch) \ SafeBoundary(processed).held
  <2> DEFINE kept == Range(batch) \ SafeBoundary(processed).held
  <2>1. batch' = Select(batch, kept)
    BY Zenon, <1>3 DEF PrefixBoundary
  <2> HIDE DEF kept
  <2>2. Range(Select(batch, kept)) = Range(batch) \cap kept
    BY SMTT(30), <1>0, SelectKeeps
  <2> QED BY Zenon, <2>1, <2>2 DEF kept
<1>5. Range(batch) \subseteq Sources
  BY SMTT(30), <1>0 DEF Range
<1>6. sel \subseteq Paths
  BY Zenon DEF Shape
<1>7. \A p \in Range(batch') : p \in processed \cup deferred
  <2> HIDE DEF processed
  <2> QED BY Zenon, <1>4, <1>5, <1>6, BoundaryHolds
<1> QED BY Zenon, <1>2, <1>7

\* A step of the loop after which the files are still accounted for.
LEMMA BatchStep ==
    ASSUME PushInv, pc \in Looping, pc' \in Looping, UNCHANGED looped, UNCHANGED <<queue, cont>>,
           batch' \in Seq(Sources), splits' \in Seq(Seq(Sources)),
           DOMAIN ready' \subseteq Range(batch'), \A p \in DOMAIN ready' : ready'[p] = HashOf(p),
           DOMAIN done \subseteq DOMAIN done', DOMAIN done' \subseteq Sources,
           \A p \in DOMAIN done' : done'[p] = [hash |-> HashOf(p), mtime |-> claim[p].ver],
           Members(splits) \cup Range(batch) \cup deferred
               \subseteq Members(splits') \cup Range(batch') \cup deferred' \cup DOMAIN done',
           pc' = "select" => batch' = <<>>,
           pc' \in {"check", "read", "upload"} =>
               Range(batch') \subseteq DOMAIN ready' \cup DOMAIN done' \cup deferred',
           pc' = "after" => Range(batch') \subseteq DOMAIN done' \cup deferred'
    PROVE  PushInv'
<1>1. /\ World' /\ NoLostEdit' /\ EntriesConsistent'
      /\ Outcome' /\ Sources' = Sources /\ \A p : HashOf(p)' = HashOf(p)
  BY Zenon, LoopFrame
<1>2. Shape'
  BY Zenon, <1>1 DEF PushInv, Shape, looped
<1>3. Hashed'
  BY Zenon, <1>1 DEF Hashed, looped
<1>4. Accounted'
  BY Zenon, <1>1 DEF PushInv, Accounted
<1>5. CutBetweenGroups'
  BY Zenon DEF CutBetweenGroups, Publishing, Looping
<1> QED BY Zenon, <1>1, <1>2, <1>3, <1>4, <1>5 DEF PushInv

LEMMA FailStep ==
    ASSUME PushInv, Fail
    PROVE  PushInv'
BY Zenon, StopStep DEF Fail, pushed, env, owed, work, loop, out

LEMMA PrepareWindowStep ==
    ASSUME PushAssumption, PushInv, PrepareWindow
    PROVE  PushInv'
<1> DEFINE read == {p \in Window : ~KnownHash(p)}
           rd == [p \in DOMAIN ready \cup Window |->
                     IF p \in DOMAIN ready THEN ready[p]
                     ELSE IF p \in read THEN Content[p][disk[p]] ELSE HashOf(p)]
<1>1. CASE Fail
  BY Zenon, <1>1, FailStep
<1>2. CASE /\ \A p \in read : Unchanged(p)
           /\ \E urgent \in Preempt : Slice(rd, AllReady(rd), urgent)
           /\ pc' = IF DOMAIN rd = Range(batch) \/ batch' # batch THEN "check" ELSE "prepare"
           /\ UNCHANGED <<env, owed, objects, confirmed, sel, claim, deferred, held, cont,
                          queue, needed, done, ahead, out>>
  <2>1. UNCHANGED looped /\ UNCHANGED <<queue, cont, done, deferred>>
    BY Zenon, <1>2 DEF looped, env, owed, out
  <2>2. Shape /\ Hashed /\ batch \in Seq(Sources)
    BY Zenon DEF PushInv, Shape
  <2>3. Window \subseteq Range(batch)
    BY SMTT(30), <2>2 DEF Window, Range
  <2>4. DOMAIN rd \subseteq Range(batch)
    BY Zenon, <2>2, <2>3 DEF Shape
  <2>5. \A p \in DOMAIN rd : rd[p] = HashOf(p)
    BY Zenon, <1>2, <2>2 DEF Hashed, HashOf, Unchanged
  <2> HIDE DEF rd, read
  <2>6. PICK urgent \in Preempt : Slice(rd, AllReady(rd), urgent)
    BY Zenon, <1>2
  <2>7. /\ batch' \in Seq(Sources) /\ splits' \in Seq(Seq(Sources))
        /\ DOMAIN ready' \subseteq Range(batch')
        /\ \A p \in DOMAIN ready' : ready'[p] = HashOf(p)
        /\ Range(batch') \subseteq Range(batch)
        /\ Range(batch') \cap DOMAIN rd \subseteq DOMAIN ready'
        /\ Members(splits) \cup Range(batch)
               \subseteq Members(splits') \cup Range(batch') \cup deferred
    BY Zenon, <2>2, <2>4, <2>5, <2>6, SliceKeeps
  <2>8. pc' = "check" => Range(batch') \subseteq DOMAIN rd \cup DOMAIN done \cup deferred
    <3>1. CASE batch' # batch
      BY Zenon, <2>2, <2>4, <2>6, <3>1, CutIsPrepared
    <3>2. CASE DOMAIN rd = Range(batch)
      BY Zenon, <2>7, <3>2
    <3> QED BY Zenon, <1>2, <3>1, <3>2
  <2>9. pc = "prepare" /\ pc' \in {"check", "prepare"}
    BY Zenon, <1>2 DEF PrepareWindow
  <2>10. DOMAIN done \subseteq Sources
         /\ \A p \in DOMAIN done : done[p] = [hash |-> HashOf(p), mtime |-> claim[p].ver]
    BY Zenon, <2>2 DEF Shape, Hashed
  <2> QED BY Zenon, <2>1, <2>7, <2>8, <2>9, <2>10, BatchStep DEF Looping
<1> QED BY Zenon, <1>1, <1>2 DEF PrepareWindow

\* A look at the slice limits once the batch is prepared.
LEMMA PreparedStep ==
    ASSUME PushInv, pc \in {"check", "read"}, pc' \in {"read", "upload"},
           NEW ks, NEW urgent, Slice(ready, ks, urgent),
           UNCHANGED looped, UNCHANGED <<queue, cont, done, deferred>>
    PROVE  PushInv'
<1>1. Shape /\ Hashed /\ Accounted
  BY Zenon DEF PushInv
<1>2. /\ DOMAIN ready \subseteq Range(batch) /\ \A p \in DOMAIN ready : ready[p] = HashOf(p)
      /\ DOMAIN done \subseteq Sources
      /\ \A p \in DOMAIN done : done[p] = [hash |-> HashOf(p), mtime |-> claim[p].ver]
  BY Zenon, <1>1 DEF Shape, Hashed
<1>3. Range(batch) \subseteq DOMAIN ready \cup DOMAIN done \cup deferred
  BY Zenon, <1>1 DEF Accounted, Looping
<1>4. /\ batch' \in Seq(Sources) /\ splits' \in Seq(Seq(Sources))
      /\ DOMAIN ready' \subseteq Range(batch')
      /\ \A p \in DOMAIN ready' : ready'[p] = HashOf(p)
      /\ Range(batch') \subseteq Range(batch)
      /\ Range(batch') \cap DOMAIN ready \subseteq DOMAIN ready'
      /\ Members(splits) \cup Range(batch)
             \subseteq Members(splits') \cup Range(batch') \cup deferred
  BY Zenon, <1>1, <1>2, SliceKeeps
<1>5. Range(batch') \subseteq DOMAIN ready' \cup DOMAIN done \cup deferred
  BY Zenon, <1>3, <1>4
<1> QED BY Zenon, <1>2, <1>4, <1>5, BatchStep DEF Looping

LEMMA CheckBatchStep ==
    ASSUME PushInv, CheckBatch
    PROVE  PushInv'
<1>1. /\ pc = "check" /\ pc' = "read" /\ UNCHANGED looped
      /\ UNCHANGED <<queue, cont, done, deferred>>
  BY Zenon DEF CheckBatch, looped, env, owed, out
<1>2. \E ks, urgent : Slice(ready, ks, urgent)
  BY Zenon DEF CheckBatch
<1> QED BY Zenon, <1>1, <1>2, PreparedStep

LEMMA ReadMissingStep ==
    ASSUME PushInv, ReadMissing
    PROVE  PushInv'
<1>1. CASE Fail
  BY Zenon, <1>1, FailStep
<1>2. CASE ~Fail
  <2>1. /\ pc = "read" /\ pc' = "upload" /\ UNCHANGED looped
        /\ UNCHANGED <<queue, cont, done, deferred>>
    BY Zenon, <1>2 DEF ReadMissing, looped, env, owed, out
  <2>2. \E ks, urgent : Slice(ready, ks, urgent)
    BY Zenon, <1>2 DEF ReadMissing
  <2> QED BY Zenon, <2>1, <2>2, PreparedStep
<1> QED BY Zenon, <1>1, <1>2

LEMMA RangeUnavailableStep ==
    ASSUME PushInv, RangeUnavailable
    PROVE  PushInv'
<1>1. PICK p \in Paths : batch = <<p>> /\ deferred' = deferred \cup {p}
  BY Zenon DEF RangeUnavailable
<1>2. /\ pc = "prepare" /\ pc' = "after" /\ UNCHANGED looped
      /\ UNCHANGED <<queue, cont, done, batch, splits, ready>>
  BY Zenon DEF RangeUnavailable, looped, loop, owed, out
<1>3. Range(batch) = {p}
  <2>1. DOMAIN <<p>> = {1} /\ <<p>>[1] = p
    BY SMTT(30)
  <2> QED BY Zenon, <1>1, <2>1 DEF Range
<1>4. /\ batch \in Seq(Sources) /\ splits \in Seq(Seq(Sources)) /\ DOMAIN ready \subseteq Range(batch)
      /\ \A q \in DOMAIN ready : ready[q] = HashOf(q)
      /\ DOMAIN done \subseteq Sources
      /\ \A q \in DOMAIN done : done[q] = [hash |-> HashOf(q), mtime |-> claim[q].ver]
  BY Zenon DEF PushInv, Shape, Hashed
<1> QED BY Zenon, <1>1, <1>2, <1>3, <1>4, BatchStep DEF Looping

LEMMA UploadStep ==
    ASSUME PushInv, Upload
    PROVE  PushInv'
<1>1. CASE Fail
  BY Zenon, <1>1, FailStep
<1>2. CASE ~Fail
  <2>1. /\ pc = "upload" /\ pc' = "after" /\ UNCHANGED looped
        /\ UNCHANGED <<queue, cont, deferred, batch, splits, ready>>
        /\ done' = [p \in DOMAIN done \cup DOMAIN ready |->
                       IF p \in DOMAIN ready
                       THEN [hash |-> ready[p], mtime |-> claim[p].ver] ELSE done[p]]
    BY Zenon, <1>2 DEF Upload, looped, env, owed, out, work
  <2>2. /\ batch \in Seq(Sources) /\ splits \in Seq(Seq(Sources)) /\ DOMAIN ready \subseteq Range(batch)
        /\ \A q \in DOMAIN ready : ready[q] = HashOf(q)
        /\ DOMAIN done \subseteq Sources
        /\ \A q \in DOMAIN done : done[q] = [hash |-> HashOf(q), mtime |-> claim[q].ver]
    BY Zenon DEF PushInv, Shape, Hashed
  <2>3. Range(batch) \subseteq Sources
    BY SMTT(30), <2>2 DEF Range
  <2>4. DOMAIN done' = DOMAIN done \cup DOMAIN ready
    BY Zenon, <2>1
  <2>5. \A p \in DOMAIN done' : done'[p] = [hash |-> HashOf(p), mtime |-> claim[p].ver]
    BY Zenon, <2>1, <2>2
  <2>6. Range(batch) \subseteq DOMAIN ready \cup DOMAIN done \cup deferred
    BY Zenon, <2>1 DEF PushInv, Accounted, Looping
  <2> QED BY Zenon, <2>1, <2>2, <2>3, <2>4, <2>5, <2>6, BatchStep DEF Looping
<1> QED BY Zenon, <1>1, <1>2

LEMMA AfterBatchStep ==
    ASSUME PushAssumption, PushInv, AfterBatch
    PROVE  PushInv'
<1> DEFINE b == SafeBoundary(DOMAIN done)
<1>1. /\ pc = "after" /\ UNCHANGED looped /\ UNCHANGED <<queue, splits, done, deferred>>
      /\ batch' = <<>> /\ ready' = <<>>
      /\ \/ UNCHANGED <<held, cont>> /\ pc' = "select"
         \/ b.safe /\ held' = b.held /\ cont' = b.continuation /\ pc' = "settle"
  BY Zenon DEF AfterBatch, looped, env, owed, out
<1>2. Shape /\ Hashed /\ Accounted /\ splits \in Seq(Seq(Sources)) /\ queue \in Seq(Sources)
  BY Zenon DEF PushInv, Shape
<1>3. Range(batch) \subseteq DOMAIN done \cup deferred
  BY Zenon, <1>1, <1>2 DEF Accounted, Looping
<1>4. batch' \in Seq(Sources) /\ DOMAIN ready' = {} /\ Range(batch') = {}
  BY SMTT(30), <1>1, RangeNone
<1>5. /\ DOMAIN done \subseteq Sources /\ sel \subseteq Paths
      /\ \A q \in DOMAIN done : done[q] = [hash |-> HashOf(q), mtime |-> claim[q].ver]
  BY Zenon, <1>2 DEF Shape, Hashed
<1>6. CASE UNCHANGED <<held, cont>> /\ pc' = "select"
  BY Zenon, <1>1, <1>2, <1>3, <1>4, <1>5, <1>6, BatchStep DEF Looping
<1>7. CASE b.safe /\ held' = b.held /\ cont' = b.continuation /\ pc' = "settle"
  <2>1. /\ World' /\ NoLostEdit' /\ EntriesConsistent'
        /\ Outcome' /\ Sources' = Sources /\ \A p : HashOf(p)' = HashOf(p)
    BY Zenon, <1>1, <1>7, LoopFrame DEF Looping
  <2>2. Shape'
    BY Zenon, <1>1, <1>2, <1>4, <2>1 DEF Shape, looped
  <2>3. Hashed'
    BY Zenon, <1>1, <1>2, <1>4, <2>1 DEF Hashed, looped
  <2>4. Accounted'
    BY Zenon, <1>7 DEF Accounted, Looping
  <2>5. Groups' = Groups
    BY Zenon, <1>1 DEF Groups, looped
  <2>6. Suffix' = IF cont' = {} THEN {} ELSE b.held
    BY Zenon, <1>7 DEF Suffix
  <2>7. \A p \in Sources : p \in DOMAIN done \cup deferred \/ (p \in b.held /\ p \in b.continuation)
    BY Zenon, <1>5, BoundaryHolds
  <2>8. \A g \in Groups : g \cap deferred = {} => g \subseteq b.held \/ g \cap b.held = {}
    BY Zenon, <1>7, BoundarySafe
  <2> HIDE DEF b
  <2>9. Sources' \ Suffix' \subseteq DOMAIN done' \cup deferred'
    BY Zenon, <1>1, <1>7, <2>1, <2>6, <2>7
  <2>10. \A g \in Groups' : g \cap deferred' = {} => g \subseteq Suffix' \/ g \cap Suffix' = {}
    BY Zenon, <1>1, <2>5, <2>6, <2>8
  <2>11. CutBetweenGroups'
    BY Zenon, <2>9, <2>10 DEF CutBetweenGroups
  <2> QED BY Zenon, <2>1, <2>2, <2>3, <2>4, <2>11 DEF PushInv
<1> QED BY Zenon, <1>1, <1>6, <1>7

LEMMA LeaveLoopStep ==
    ASSUME PushInv, LeaveLoop
    PROVE  PushInv'
<1>1. /\ pc = "select" /\ pc' = "settle" /\ splits = <<>> /\ queue = <<>> /\ UNCHANGED looped
      /\ UNCHANGED pushed
  BY Zenon DEF LeaveLoop, looped, pushed, env, owed, work, loop, out
<1>2. Sources \subseteq DOMAIN done \cup deferred /\ cont = {}
  BY Zenon, <1>1, MembersNone, RangeNone DEF PushInv, Accounted, Looping
<1>3. /\ World' /\ NoLostEdit' /\ EntriesConsistent'
      /\ Outcome' /\ Sources' = Sources /\ \A p : HashOf(p)' = HashOf(p)
  BY Zenon, <1>1, LoopFrame DEF Looping
<1>4. Shape'
  BY Zenon, <1>1, <1>3 DEF PushInv, Shape, pushed
<1>5. Hashed'
  BY Zenon, <1>1, <1>3 DEF PushInv, Hashed, pushed
<1>6. Accounted'
  BY Zenon, <1>1 DEF Accounted, Looping
<1>7. CutBetweenGroups'
  BY Zenon, <1>1, <1>2, <1>3 DEF CutBetweenGroups, Suffix, pushed
<1> QED BY Zenon, <1>3, <1>4, <1>5, <1>6, <1>7 DEF PushInv

LEMMA ThrowStep ==
    ASSUME PushInv, Throw
    PROVE  PushInv'
BY Zenon, StopStep DEF Throw, pushed, owed, work, loop, out

\* What the later steps of a publication compute from the push is settled.
LEMMA SettledFrame ==
    ASSUME UNCHANGED <<pushed, tree>>
    PROVE  /\ Groups' = Groups /\ Suffix' = Suffix /\ Deleted' = Deleted /\ Upserts' = Upserts
           /\ Sources' = Sources /\ Candidate' = Candidate
<1>1. Groups' = Groups /\ Suffix' = Suffix /\ Deleted' = Deleted /\ Upserts' = Upserts
  BY SMTT(30) DEF pushed, Groups, Suffix, Deleted, Upserts, Deletes, Withheld, Deletion
<1>2. Sources' = Sources
  BY Zenon DEF pushed, Sources, Deletion
<1>3. Candidate' = Candidate
  BY Zenon, <1>1 DEF Candidate, pushed
<1> QED BY Zenon, <1>1, <1>2, <1>3

\* A step of the publication that leaves the push and the tree alone.
LEMMA PublishingStep ==
    ASSUME PushInv, UNCHANGED <<pushed, tree, disk, live, pending>>,
           pc \in {"settle"} \cup Publishing, pc' \in Publishing, EntriesConsistent',
           Outcome'
    PROVE  PushInv'
<1>1. World' /\ NoLostEdit'
  BY Zenon DEF PushInv, World, NoLostEdit, pushed
<1>2. /\ Groups' = Groups /\ Suffix' = Suffix /\ Sources' = Sources
  BY Zenon, SettledFrame
<1>3. Shape'
  BY Zenon, <1>2 DEF PushInv, Shape, pushed
<1>4. Hashed'
  BY Zenon DEF PushInv, Hashed, HashOf, pushed
<1>5. Accounted'
  BY Zenon DEF Accounted, Looping, Publishing
<1>6. CutBetweenGroups'
  BY Zenon, <1>2 DEF PushInv, CutBetweenGroups, pushed
<1> QED BY Zenon, <1>1, <1>3, <1>4, <1>5, <1>6 DEF PushInv

\* A push that ends without a publication leaves the tree as it was.
LEMMA RestStep ==
    ASSUME PushInv, UNCHANGED <<pushed, tree, disk, live, pending>>, pc' = "idle", cand' = tree
    PROVE  PushInv'
<1> USE DEF pushed, PushInv
<1>1. World' /\ NoLostEdit' /\ EntriesConsistent'
  BY Zenon DEF World, NoLostEdit, EntriesConsistent
<1>2. Sources' = Sources /\ \A p : HashOf(p)' = HashOf(p)
  BY Zenon DEF Sources, Deletion, HashOf
<1>3. Shape' /\ Hashed'
  BY Zenon, <1>2 DEF Shape, Hashed
<1>4. Accounted' /\ CutBetweenGroups' /\ Outcome'
  BY Zenon DEF Accounted, CutBetweenGroups, Outcome, Looping, Publishing
<1> QED BY Zenon, <1>1, <1>3, <1>4

LEMMA SettleStep ==
    ASSUME PushInv, Settle
    PROVE  PushInv'
<1>1. /\ pc = "settle" /\ UNCHANGED <<pushed, tree, disk, live, pending>>
      /\ \/ pc' = "idle" /\ cand' = tree
         \/ pc' = "joining" /\ cand' = cand
         \/ published' = Upserts \cup Deleted /\ pc' = "update" /\ cand' = cand
  BY Zenon DEF Settle, Cool, pushed, env, owed, work, loop, out
<1>2. CASE pc' = "idle" /\ cand' = tree
  BY Zenon, <1>1, <1>2, RestStep
<1>3. CASE pc' = "joining" /\ cand' = cand
  BY Zenon, <1>1, <1>3, StopStep
<1>4. CASE published' = Upserts \cup Deleted /\ pc' = "update" /\ cand' = cand
  <2>1. EntriesConsistent'
    BY Zenon, <1>1, <1>4 DEF PushInv, EntriesConsistent
  <2>2. Upserts' = Upserts /\ Deleted' = Deleted
    BY Zenon, <1>1, SettledFrame
  <2>3. Outcome'
    BY Zenon, <1>1, <1>4, <2>2 DEF PushInv, Outcome, Publishing
  <2> QED BY Zenon, <1>1, <1>4, <2>1, <2>3, PublishingStep DEF Publishing
<1> QED BY Zenon, <1>1, <1>2, <1>3, <1>4

LEMMA UpdateStep ==
    ASSUME PushInv, Update
    PROVE  PushInv'
<1>1. CASE Fail
  BY Zenon, <1>1, FailStep
<1>2. CASE ~Fail
  <2>1. /\ pc = "update" /\ pc' = "index" /\ UNCHANGED <<pushed, tree, disk, live, pending>>
        /\ published' = published
        /\ cand' = [p \in Paths |-> IF p \in Deleted THEN Gone
                                    ELSE IF p \in Upserts THEN done[p] ELSE cand[p]]
    BY Zenon, <1>2 DEF Update, pushed, env, owed, work, loop
  <2>2. cand = tree /\ published = Upserts \cup Deleted
    BY Zenon, <2>1 DEF PushInv, Outcome, Publishing
  <2>3. /\ Upserts' = Upserts /\ Deleted' = Deleted /\ Candidate' = Candidate
    BY Zenon, <2>1, SettledFrame
  <2>4. cand' = Candidate
    BY Zenon, <2>1, <2>2 DEF Candidate
  <2>5. Outcome'
    BY Zenon, <2>1, <2>2, <2>3, <2>4 DEF Outcome, Publishing
  <2>6. ASSUME NEW p \in Paths, cand'[p].mtime > 0
        PROVE  cand'[p].hash = Content[p][cand'[p].mtime]
    <3>1. CASE p \in Deleted
      BY SMTT(30), <2>1, <2>6, <3>1 DEF Gone
    <3>2. CASE p \notin Deleted /\ p \in Upserts
      BY SMTT(30), <2>1, <3>2 DEF PushInv, Hashed, HashOf, Upserts
    <3>3. CASE p \notin Deleted /\ p \notin Upserts
      <4>1. cand'[p] = tree[p]
        BY Zenon, <2>1, <2>2, <3>3
      <4> QED BY Zenon, <2>6, <4>1 DEF PushInv, EntriesConsistent
    <3> QED BY Zenon, <3>1, <3>2, <3>3
  <2>7. EntriesConsistent'
    BY Zenon, <2>1, <2>6 DEF PushInv, EntriesConsistent
  <2> QED BY Zenon, <2>1, <2>5, <2>7, PublishingStep DEF Publishing
<1> QED BY Zenon, <1>1, <1>2

LEMMA UploadIndexStep ==
    ASSUME PushInv, UploadIndex
    PROVE  PushInv'
<1>1. CASE Fail
  BY Zenon, <1>1, FailStep
<1>2. CASE ~Fail
  <2>1. /\ pc = "index" /\ pc' = "publish" /\ UNCHANGED <<pushed, tree, disk, live, pending>>
        /\ published' = published /\ cand' = cand
    BY Zenon, <1>2 DEF UploadIndex, pushed, env, owed, work, loop, out
  <2>2. /\ Upserts' = Upserts /\ Deleted' = Deleted /\ Candidate' = Candidate
    BY Zenon, <2>1, SettledFrame
  <2>3. Outcome'
    BY Zenon, <2>1, <2>2 DEF PushInv, Outcome, Publishing
  <2>4. EntriesConsistent'
    BY Zenon, <2>1 DEF PushInv, EntriesConsistent
  <2> QED BY Zenon, <2>1, <2>3, <2>4, PublishingStep DEF Publishing
<1> QED BY Zenon, <1>1, <1>2

\* The publication covers every edit it acknowledges: a path of it is at the version the
\* push claimed, or its event has not arrived.
LEMMA AcceptStep ==
    ASSUME PushInv, Accept
    PROVE  PushInv'
<1>1. /\ pc = "publish" /\ pc' = "idle" /\ Current
      /\ UNCHANGED <<disk, live, sel, claim, queue, splits, batch, ready, done, cand>>
      /\ tree' = cand /\ links' \subseteq links
      /\ pending' = {p \in pending : p \in published => ~Applicable(p)}
  BY Zenon DEF Accept, env, work, loop, out
<1>2. cand = Candidate /\ published = Upserts \cup Deleted
  BY Zenon, <1>1 DEF PushInv, Outcome, Publishing
<1>3. World'
  BY Zenon, <1>1 DEF PushInv, World
<1>4. Sources' = Sources /\ \A p : HashOf(p)' = HashOf(p)
  BY Zenon, <1>1 DEF Sources, Deletion, HashOf
<1>5. Shape'
  BY Zenon, <1>1, <1>4 DEF PushInv, Shape
<1>6. Hashed'
  BY Zenon, <1>1, <1>4 DEF PushInv, Hashed
<1>7. Accounted' /\ CutBetweenGroups' /\ Outcome'
  BY Zenon, <1>1 DEF Accounted, CutBetweenGroups, Outcome, Looping, Publishing
<1>8. EntriesConsistent'
  BY Zenon, <1>1 DEF PushInv, EntriesConsistent
<1>9. published \subseteq sel \ Suffix
  BY Zenon, <1>2 DEF PushInv, Shape, Upserts, Deleted, Deletes, Sources
<1>10. ASSUME NEW p \in Paths, Content[p][disk[p]] # cand[p].hash, live[p] = disk[p]
       PROVE  p \in pending'
  <2>1. CASE p \in published
    <3>1. Applicable(p)
      BY Zenon, <1>1, <1>9, <2>1 DEF Current
    <3>2. claim[p].ver = disk[p]
      <4>1. disk[p] \in Nat /\ claim[p].ver \in Nat
        BY Zenon DEF PushInv, World
      <4>2. disk[p] <= claim[p].ver /\ claim[p].ver <= disk[p]
        BY Zenon, <1>10, <3>1 DEF PushInv, World, Applicable
      <4> QED BY SMTT(30), <4>1, <4>2
    <3>3. CASE p \in Deleted
      <4>1. Content[p][claim[p].ver] = "none"
        BY Zenon, <3>3 DEF Deleted, Deletes, Deletion
      <4>2. cand[p].hash = "none"
        BY Zenon, <1>2, <3>3 DEF Candidate, Gone
      <4> QED BY Zenon, <1>10, <3>2, <4>1, <4>2
    <3>4. CASE p \notin Deleted /\ p \in Upserts
      <4>1. cand[p] = done[p] /\ p \in DOMAIN done
        BY Zenon, <1>2, <3>4 DEF Candidate, Upserts
      <4>2. cand[p].hash = Content[p][claim[p].ver]
        BY SMTT(30), <4>1 DEF PushInv, Hashed, HashOf
      <4> QED BY Zenon, <1>10, <3>2, <4>2
    <3> QED BY Zenon, <1>2, <2>1, <3>3, <3>4
  <2>2. CASE p \notin published
    <3>1. cand[p] = tree[p]
      BY Zenon, <1>2, <2>2 DEF Candidate
    <3>2. p \in pending
      BY Zenon, <1>10, <3>1 DEF PushInv, NoLostEdit
    <3> QED BY Zenon, <1>1, <2>2, <3>2
  <2> QED BY Zenon, <2>1, <2>2
<1>11. NoLostEdit'
  BY Zenon, <1>1, <1>10 DEF NoLostEdit
<1> QED BY Zenon, <1>3, <1>5, <1>6, <1>7, <1>8, <1>11 DEF PushInv

LEMMA PushNext ==
    ASSUME PushAssumption, PushInv, [Next]_vars
    PROVE  PushInv'
<1>1. ASSUME NEW c \in Capacities, Resize(c) PROVE PushInv'
  BY Zenon, <1>1, QuietStep DEF Resize, pushed, work, loop, out
<1>2. ASSUME NEW o \in objects, Lose(o) PROVE PushInv'
  BY Zenon, <1>2, QuietStep DEF Lose, pushed, owed, work, loop, out
<1>3. ASSUME Lookahead PROVE PushInv'
  BY Zenon, <1>3, QuietStep DEF Lookahead, pushed, env, owed, work, loop, out
<1>4. ASSUME Reject PROVE PushInv'
  BY Zenon, <1>4, FailStep DEF Reject
<1>5. ASSUME UNCHANGED vars PROVE PushInv'
  BY Zenon, <1>5, QuietStep DEF vars, pushed, env, owed, work, loop, out
<1>6. CASE Environment
  BY Zenon, <1>1, <1>2, <1>6, EditStep, RangeUnavailableStep, ThrowStep DEF Environment
<1>7. CASE Progress
  BY Zenon, <1>3, <1>4, <1>7, NoticeStep, StartStep, SelectBatchStep, ReserveStep, PrepareWindowStep,
     CheckBatchStep, ReadMissingStep, UploadStep, AfterBatchStep, LeaveLoopStep, JoinStep,
     SettleStep, UpdateStep, UploadIndexStep, AcceptStep
     DEF Progress
<1> QED BY Zenon, <1>5, <1>6, <1>7 DEF Next

\* One deferral withholds every group it touches, and a slice is cut between groups.
LEMMA GroupsMoveAsOne ==
    ASSUME PushAssumption, PushInv
    PROVE  GroupsAtomic
<1> SUFFICES ASSUME pc \in Publishing, NEW g \in Groups
             PROVE  g \subseteq published \/ g \cap published = {}
  BY Zenon DEF GroupsAtomic, Publishing
<1> DEFINE own == IF deferred = {} THEN {} ELSE deferred \cup Deletes
<1>1. published = Upserts \cup Deleted
  BY Zenon DEF PushInv, Outcome
<1>2. /\ Sources \ Suffix \subseteq DOMAIN done \cup deferred
      /\ g \cap deferred = {} => g \subseteq Suffix \/ g \cap Suffix = {}
  BY Zenon DEF PushInv, CutBetweenGroups
<1>3. g \in Links /\ g \subseteq sel /\ Groups \subseteq Links
  BY Zenon DEF PushInv, Shape, Groups
<1>4. Withheld = own \cup UNION {h \in Groups : h \cap own # {}}
  BY Zenon DEF Withheld
<1>5. CASE g \cap own # {}
  <2>1. g \subseteq Withheld
    BY Zenon, <1>4, <1>5
  <2>2. Deleted = {}
    BY Zenon, <1>5 DEF Deleted
  <2> QED BY Zenon, <1>1, <2>1, <2>2 DEF Upserts
<1>6. CASE g \cap own = {}
  <2>1. g \cap Withheld = {}
    <3>1. \A h \in Groups : h \cap own # {} => h \cap g = {}
      BY Zenon, <1>3, <1>6 DEF PushAssumption
    <3> HIDE DEF own
    <3> QED BY Zenon, <1>4, <1>6, <3>1
  <2>2. g \cap deferred = {}
    BY Zenon, <1>6
  <2>3. CASE g \subseteq Suffix
    BY Zenon, <1>1, <2>3 DEF Upserts, Deleted, Deletes
  <2>4. CASE g \cap Suffix = {}
    <3>1. ASSUME NEW p \in g PROVE p \in published
      <4>1. CASE Deletion(p)
        <5>1. p \in Deletes
          BY Zenon, <1>3, <2>4, <4>1 DEF Deletes
        <5> QED BY Zenon, <1>1, <1>6, <5>1 DEF Deleted
      <4>2. CASE ~Deletion(p)
        <5>1. p \in DOMAIN done
          BY Zenon, <1>2, <1>3, <2>2, <2>4, <4>2 DEF Sources
        <5> QED BY Zenon, <1>1, <2>1, <2>4, <5>1 DEF Upserts
      <4> QED BY Zenon, <4>1, <4>2
    <3> QED BY Zenon, <3>1
  <2> QED BY Zenon, <1>2, <2>2, <2>3, <2>4
<1> QED BY Zenon, <1>5, <1>6

\* The inductive invariant holds in every state a push can reach.
LEMMA PushInvariant == Spec => []PushInv
<1>1. Init => PushInv
  BY Zenon, PushInit, PushAssumption
<1>2. PushInv /\ [Next]_vars => PushInv'
  BY Zenon, PushNext, PushAssumption
<1> QED BY <1>1, <1>2, PTL DEF Spec

\* A file whose content is not the one in the published tree is owed to the server or
\* its event has not arrived: no acknowledgement, slice, deferral, cooldown or failure
\* of prepare-push.ts and push.ts drops it.
THEOREM NoEditIsLost == Spec => []NoLostEdit
<1>1. PushInv => NoLostEdit
  BY Zenon DEF PushInv
<1> QED BY <1>1, PushInvariant, PTL

\* What a push publishes is one version of every file, and all of a rename group or
\* none of it, however the batch was sliced and whatever was deferred late.
THEOREM PublicationsAreConsistent == Spec => []PublishedIsConsistent
<1>1. PushInv => PublishedIsConsistent
  BY Zenon, PushAssumption, GroupsMoveAsOne DEF PushInv, PublishedIsConsistent
<1> QED BY <1>1, PushInvariant, PTL
=============================================================================
