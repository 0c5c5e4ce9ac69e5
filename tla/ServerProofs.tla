---------------------------- MODULE ServerProofs ----------------------------
(***************************************************************************)
(* Proofs about what the server keeps besides roots: packed objects        *)
(* (PackStore) and devices (DeviceRegistry).                               *)
(***************************************************************************)
EXTENDS PackStore, DeviceRegistry, SequenceTheorems, FiniteSetTheorems, TLAPS

-----------------------------------------------------------------------------
(* The object store, for every set of objects, any segment size and any    *)
(* number of crashes, power losses, failed writes and decayed records: an  *)
(* object answered Stored stays on the disk until its record decays, and   *)
(* the store always opens again.                                           *)
(*                                                                         *)
(* An object is answered for after the sync that covers its record, and no *)
(* step ever gives up a synced record: Kept, SyncedSurvives.  A start      *)
(* refuses damage in a sealed segment only, and the last segment is        *)
(* damaged only while it has no sidecar: Framed, WriterOwns.               *)

Records == Seq([key : Key, ok : BOOLEAN])

\* A segment file has its five parts, and its sync does not run ahead of it.
IsSegment(s) ==
    /\ s \in [header : {"whole", "short"}, recs : Records, synced : Nat, torn : {s.torn},
               sidecar : {s.sidecar}]
    /\ s.synced <= Len(s.recs)
    /\ s.header = "short" => s.recs = <<>>

SegmentsTyped ==
    /\ seg \in Seq({seg[i] : i \in DOMAIN seg})
    /\ \A i \in DOMAIN seg : IsSegment(seg[i])

WriterTyped ==
    /\ writer = [pc |-> writer.pc, group |-> writer.group, also |-> writer.also,
                 sealed |-> writer.sealed]
    /\ writer.group \in Seq(Key)

Typed == SegmentsTyped /\ WriterTyped

\* Only the last segment may be damaged or unsynced, and only without a sidecar.
Framed ==
    \A i \in DOMAIN seg :
        /\ i # Len(seg) => seg[i].header = "whole" /\ ~seg[i].torn
        /\ seg[i].sidecar.present => /\ seg[i].header = "whole" /\ ~seg[i].torn
                                     /\ i = Len(seg) => seg[i].synced = Len(seg[i].recs)

\* What the writer thread knows of the segment it owns.
WriterOwns ==
    /\ writer.pc \notin {"none", "ended"} => seg # <<>> /\ ~seg[Len(seg)].torn
    /\ writer.pc \notin {"none", "ended", "header"} => seg[Len(seg)].header = "whole"
    /\ writer.pc \notin {"none", "ended", "create"} => ~seg[Len(seg)].sidecar.present
    /\ writer.pc \in {"publish", "seal", "sidecar", "create"} =>
          seg[Len(seg)].synced = Len(seg[Len(seg)].recs)

\* A record of k that a power loss keeps, unless it decayed.
Holds(k, i, p) ==
    /\ seg[i].recs[p].key = k
    /\ seg[i].recs[p].ok \/ <<i, p>> \in rotten
Kept(k) == \E i \in DOMAIN seg : \E p \in 1..seg[i].synced : Holds(k, i, p)

\* The group is in the file once it is appended, and kept once it is synced.
GroupKept ==
    /\ writer.pc = "sync" =>
          \A n \in DOMAIN writer.group : \E p \in DOMAIN seg[Len(seg)].recs :
             Holds(writer.group[n], Len(seg), p)
    /\ writer.pc \in {"publish", "seal", "sidecar", "create", "header", "reply"} =>
          \A n \in DOMAIN writer.group : Kept(writer.group[n])

StoredKept == \A k \in stored : Kept(k)

IInv == Typed /\ Framed /\ WriterOwns /\ GroupKept /\ StoredKept /\ proc \in {"down", "up"}

-----------------------------------------------------------------------------
(* Segments and the records in them.                                       *)

\* A function on 1..n is the sequence of its values.
LEMMA Listed ==
    ASSUME NEW n \in Nat, NEW f, f = [j \in 1..n |-> f[j]]
    PROVE  f \in Seq({f[j] : j \in DOMAIN f}) /\ Len(f) = n /\ DOMAIN f = 1..n
<1> DEFINE T == {f[j] : j \in DOMAIN f}
<1>1. DOMAIN f = 1..n
  BY Zenon
<1>2. f \in [1..n -> T]
  BY Zenon, <1>1
<1> HIDE DEF T
<1>3. f \in Seq(T)
  BY Zenon, <1>2, SeqDef
<1>4. Len(f) = n
  BY SMTT(30), <1>1, <1>3, LenProperties
<1>5. QED
  BY Zenon, <1>1, <1>3, <1>4 DEF T

\* One segment is replaced.
LEMMA Updated ==
    ASSUME SegmentsTyped, NEW i \in DOMAIN seg, NEW new, IsSegment(new), seg' = [seg EXCEPT ![i] = new]
    PROVE  /\ SegmentsTyped'
           /\ DOMAIN seg' = DOMAIN seg /\ Len(seg') = Len(seg)
           /\ seg'[i] = new
           /\ \A j \in DOMAIN seg : j # i => seg'[j] = seg[j]
<1> DEFINE S == {seg[j] : j \in DOMAIN seg}
<1>1. seg \in Seq(S) /\ \A j \in DOMAIN seg : IsSegment(seg[j])
  BY Zenon DEF SegmentsTyped
<1>2. Len(seg) \in Nat /\ DOMAIN seg = 1..Len(seg) /\ seg = [j \in 1..Len(seg) |-> seg[j]]
  BY SMTT(30), <1>1
<1>3. DOMAIN seg' = 1..Len(seg) /\ seg' = [j \in 1..Len(seg) |-> IF j = i THEN new ELSE seg[j]]
  BY <1>2, Zenon
<1>4. PICK t : t = seg'
  BY Zenon
<1>5. t = [j \in 1..Len(seg) |-> t[j]]
  BY Zenon, <1>3, <1>4
<1>6. t \in Seq({t[j] : j \in DOMAIN t}) /\ Len(t) = Len(seg)
  BY Zenon, <1>2, <1>5, Listed
<1>7. seg' \in Seq({seg'[j] : j \in DOMAIN seg'}) /\ Len(seg') = Len(seg)
  BY Zenon, <1>4, <1>6
<1>8. \A j \in DOMAIN seg' : IsSegment(seg'[j])
  BY Zenon, <1>1, <1>2, <1>3
<1>9. QED
  BY <1>2, <1>3, <1>7, <1>8, Zenon DEF SegmentsTyped

\* A segment is added.
LEMMA Extended ==
    ASSUME NEW old, old \in Seq({old[j] : j \in DOMAIN old}), \A j \in DOMAIN old : IsSegment(old[j]),
           NEW new, IsSegment(new), seg' = Append(old, new)
    PROVE  /\ SegmentsTyped'
           /\ Len(old) \in Nat /\ Len(seg') = Len(old) + 1 /\ DOMAIN seg' = 1..Len(seg')
           /\ DOMAIN old = 1..Len(old)
           /\ seg'[Len(seg')] = new
           /\ \A j \in DOMAIN old : seg'[j] = old[j]
<1> DEFINE S == {old[j] : j \in DOMAIN old} \cup {new}
<1>1. old \in Seq(S)
  BY SMTT(30)
<1>2. /\ seg' \in Seq(S) /\ Len(seg') = Len(old) + 1
      /\ \A j \in 1..Len(old) : seg'[j] = old[j]
      /\ seg'[Len(old) + 1] = new
  BY SMTT(30), <1>1, AppendProperties
<1>3. Len(old) \in Nat /\ DOMAIN old = 1..Len(old) /\ DOMAIN seg' = 1..Len(seg')
  BY Zenon, <1>1, <1>2, LenProperties
<1>4. seg' = [j \in 1..Len(seg') |-> seg'[j]]
  BY <1>2, LenProperties, Zenon
<1>5. seg' \in Seq({seg'[j] : j \in DOMAIN seg'})
  BY SMTT(30), <1>2, <1>3, <1>4, Listed
<1>6. \A j \in DOMAIN seg' : IsSegment(seg'[j])
  BY SMTT(30), <1>2, <1>3
<1>7. QED
  BY Zenon, <1>2, <1>3, <1>5, <1>6 DEF SegmentsTyped

\* No synced record is given up.
SyncedSurvives ==
    \A i \in DOMAIN seg :
        /\ i \in DOMAIN seg' /\ seg[i].synced <= seg'[i].synced
        /\ \A p \in 1..seg[i].synced :
              /\ seg'[i].recs[p].key = seg[i].recs[p].key
              /\ seg[i].recs[p].ok \/ <<i, p>> \in rotten =>
                    seg'[i].recs[p].ok \/ <<i, p>> \in rotten'

LEMMA KeptStays ==
    ASSUME SegmentsTyped, SegmentsTyped', SyncedSurvives, NEW k, Kept(k)
    PROVE  Kept(k)'
<1>1. PICK i \in DOMAIN seg : \E p \in 1..seg[i].synced : Holds(k, i, p)
  BY Zenon DEF Kept
<1>2. PICK p \in 1..seg[i].synced : Holds(k, i, p)
  BY Zenon, <1>1
<1>3. i \in DOMAIN seg' /\ p \in 1..seg'[i].synced
  <2>1. seg[i].synced \in Int
    BY SMTT(30) DEF SegmentsTyped, IsSegment
  <2>2. i \in DOMAIN seg' /\ seg[i].synced <= seg'[i].synced
    BY Zenon DEF SyncedSurvives
  <2>3. seg'[i].synced \in Int
    BY SMTT(30), <2>2 DEF SegmentsTyped, IsSegment
  <2>4. QED
    BY SMTT(30), <2>1, <2>2, <2>3
<1>4. Holds(k, i, p)'
  BY Zenon, <1>2, <1>3 DEF Holds, SyncedSurvives
<1>5. QED
  BY Zenon, <1>3, <1>4 DEF Kept

\* The last segment is replaced and keeps its synced records.
LEMMA LastUpdated ==
    ASSUME SegmentsTyped, Framed, seg # <<>>, UNCHANGED rotten,
           NEW new, IsSegment(new), seg' = [seg EXCEPT ![Len(seg)] = new],
           seg[Len(seg)].synced <= new.synced,
           \A p \in 1..seg[Len(seg)].synced : new.recs[p] = seg[Len(seg)].recs[p],
           new.sidecar.present => new.header = "whole" /\ ~new.torn /\ new.synced = Len(new.recs)
    PROVE  /\ SegmentsTyped' /\ Framed' /\ seg' # <<>> /\ Len(seg') = Len(seg)
           /\ seg'[Len(seg')] = new
           /\ \A k : Kept(k) => Kept(k)'
<1>1. Len(seg) \in DOMAIN seg /\ Len(seg) \in Nat
  BY SMTT(30), EmptySeq, LenProperties DEF SegmentsTyped
<1>2. /\ SegmentsTyped' /\ DOMAIN seg' = DOMAIN seg /\ Len(seg') = Len(seg)
      /\ seg'[Len(seg)] = new
      /\ \A j \in DOMAIN seg : j # Len(seg) => seg'[j] = seg[j]
  BY <1>1, Updated, Zenon
<1>3. Framed'
  BY Zenon, <1>2 DEF Framed
<1>4. SyncedSurvives
  <2> SUFFICES ASSUME NEW i \in DOMAIN seg
               PROVE  /\ i \in DOMAIN seg' /\ seg[i].synced <= seg'[i].synced
                      /\ \A p \in 1..seg[i].synced :
                            /\ seg'[i].recs[p].key = seg[i].recs[p].key
                            /\ seg[i].recs[p].ok \/ <<i, p>> \in rotten =>
                                  seg'[i].recs[p].ok \/ <<i, p>> \in rotten'
    BY Zenon DEF SyncedSurvives
  <2>1. CASE i = Len(seg)
    BY Zenon, <1>2, <2>1
  <2>2. CASE i # Len(seg)
    <3>1. seg'[i] = seg[i] /\ seg[i].synced \in Int
      BY SMTT(30), <1>2, <2>2 DEF SegmentsTyped, IsSegment
    <3>2. QED
      BY SMTT(30), <1>2, <3>1
  <2>3. QED
    BY Zenon, <2>1, <2>2
<1>5. QED
  BY SMTT(30), <1>1, <1>2, <1>3, <1>4, KeptStays

LEMMA SameSegments ==
    ASSUME Typed, Framed, UNCHANGED <<seg, rotten>>
    PROVE  SegmentsTyped' /\ Framed' /\ \A k : Kept(k) => Kept(k)'
<1>1. SegmentsTyped'
  BY Zenon DEF SegmentsTyped, Typed
<1>2. Framed'
  BY Zenon DEF Framed
<1>3. \A k : Kept(k) => Kept(k)'
  BY Zenon DEF Kept, Holds
<1>4. QED
  BY Zenon, <1>1, <1>2, <1>3

-----------------------------------------------------------------------------
(* The writer thread.                                                      *)

\* The steps of the writer that leave the files alone.
LEMMA SubmitStep ==
    ASSUME PackStoreAssumption, IInv, NEW G \in SUBSET Key, Submit(G)
    PROVE  IInv'
<1> DEFINE S == {k \in G : index[k] = NoLocation}
<1>1. PICK order \in Bijection(1 .. Cardinality(S), S) :
         writer' = [writer EXCEPT !.pc = IF order = <<>> THEN "reply" ELSE "append",
                                  !.group = order, !.also = G \ S]
  BY Zenon DEF Submit
<1>2. order \in Seq(Key)
  <2>1. IsFiniteSet(S)
    BY Zenon, FS_Subset DEF PackStoreAssumption
  <2>2. Cardinality(S) \in Nat
    BY Zenon, <2>1, FS_CardinalityType
  <2>3. PICK n \in Nat : n = Cardinality(S)
    BY Zenon, <2>2
  <2>4. order \in [1..n -> Key]
    BY Zenon, <2>3 DEF Bijection, Injection
  <2>5. QED
    BY SMTT(30), <2>4, SeqDef
<1>3. /\ writer'.pc = (IF order = <<>> THEN "reply" ELSE "append") /\ writer'.group = order
      /\ WriterTyped'
  BY <1>1, <1>2, Zenon DEF IInv, Typed, WriterTyped
<1>4. UNCHANGED <<seg, rotten, stored, proc>> /\ writer.pc = "idle"
  BY Zenon DEF Submit, disk, ghost
<1>5. SegmentsTyped' /\ Framed' /\ \A k : Kept(k) => Kept(k)'
  BY Zenon, <1>4, SameSegments DEF IInv
<1>6. WriterOwns'
  BY Zenon, <1>3, <1>4 DEF IInv, WriterOwns
<1>7. GroupKept'
  BY SMTT(30), <1>3 DEF GroupKept
<1>8. QED
  BY Zenon, <1>3, <1>4, <1>5, <1>6, <1>7 DEF IInv, Typed, StoredKept

LEMMA QuietStep ==
    ASSUME IInv, UNCHANGED <<seg, rotten, stored, proc>>, WriterTyped',
           writer'.group = writer.group,
           \/ writer'.pc = writer.pc
           \/ writer.pc = "publish" /\ writer'.pc \in {"seal", "reply"}
           \/ writer.pc = "seal" /\ writer'.pc = "sidecar"
           \/ writer'.pc \in {"none", "ended"}
    PROVE  IInv'
<1>1. SegmentsTyped' /\ Framed' /\ \A k : Kept(k) => Kept(k)'
  BY Zenon, SameSegments DEF IInv
<1>2. WriterOwns'
  BY Zenon DEF IInv, WriterOwns
<1>3. GroupKept'
  <2>1. CASE writer'.pc = "sync"
    BY Zenon, <2>1 DEF IInv, GroupKept, Holds
  <2>2. CASE writer'.pc # "sync"
    BY Zenon, <1>1, <2>2 DEF IInv, GroupKept
  <2>3. QED
    BY Zenon, <2>1, <2>2
<1>4. QED
  BY Zenon, <1>1, <1>2, <1>3 DEF IInv, Typed, StoredKept

LEMMA ReplyStep ==
    ASSUME IInv, Reply
    PROVE  IInv'
<1>1. /\ UNCHANGED <<seg, rotten, proc>> /\ writer.pc = "reply"
      /\ stored' = stored \cup Range(writer.group)
      /\ writer' = [NoWriter EXCEPT !.pc = "idle"]
  BY Zenon DEF Reply, disk
<1>2. writer'.pc = "idle" /\ WriterTyped'
  BY <1>1, EmptySeq, Zenon DEF NoWriter, WriterTyped
<1>3. SegmentsTyped' /\ Framed' /\ \A k : Kept(k) => Kept(k)'
  BY Zenon, <1>1, SameSegments DEF IInv
<1>4. StoredKept'
  BY Zenon, <1>1, <1>3 DEF IInv, StoredKept, GroupKept, Range
<1>5. WriterOwns' /\ GroupKept'
  BY Zenon, <1>1, <1>2 DEF IInv, WriterOwns, GroupKept
<1>6. QED
  BY Zenon, <1>1, <1>2, <1>3, <1>4, <1>5 DEF IInv, Typed

\* What the first n records of the group add to the file.
IsPart(more, n) == more = [m \in 1..n |-> PackRecord(writer.group[m])]

AddsPart(all, recs, n) ==
    /\ all \in Records /\ Len(all) = Len(recs) + n
    /\ \A p \in 1..Len(recs) : all[p] = recs[p]
    /\ \A m \in 1..n : Len(recs) + m \in DOMAIN all /\ all[Len(recs) + m] = PackRecord(writer.group[m])

LEMMA Appended ==
    ASSUME WriterTyped, NEW n \in 0..Len(writer.group), NEW recs \in Records,
           NEW more, IsPart(more, n)
    PROVE  AddsPart(recs \o more, recs, n)
<1> DEFINE R == [key : Key, ok : BOOLEAN]
<1>1. \A k \in Key : PackRecord(k) \in R
  BY Zenon DEF PackRecord
<1>2. Len(writer.group) \in Nat /\ \A m \in 1..Len(writer.group) : writer.group[m] \in Key
  BY Zenon, LenProperties, ElementOfSeq DEF WriterTyped
<1>3. n \in Nat
  BY SMTT(30), <1>2
<1>4. more = [m \in 1..n |-> more[m]] /\ \A m \in 1..n : more[m] = PackRecord(writer.group[m])
  BY Zenon DEF IsPart
<1>5. \A m \in 1..n : more[m] \in R
  BY SMTT(30), <1>1, <1>2, <1>3, <1>4
<1>6. recs \in Seq(R)
  BY Zenon DEF Records
<1> HIDE DEF R
<1>7. more \in Seq(R) /\ Len(more) = n
  <2>1. more \in [1..n -> R]
    BY Zenon, <1>4, <1>5
  <2>2. more \in Seq(R)
    BY SMTT(30), <1>3, <2>1, SeqDef
  <2>3. QED
    BY SMTT(30), <1>3, <2>1, <2>2, LenProperties
<1>8. PICK all : all = recs \o more
  BY Zenon
<1>9. /\ all \in Seq(R) /\ Len(all) = Len(recs) + n
      /\ \A i \in 1..Len(recs) + n : all[i] = IF i <= Len(recs) THEN recs[i] ELSE more[i - Len(recs)]
  BY <1>6, <1>7, <1>8, ConcatProperties, Zenon
<1>10. Len(recs) \in Nat /\ DOMAIN all = 1..(Len(recs) + n)
  BY Zenon, <1>6, <1>9, LenProperties
<1>11. \A m \in 1..n : Len(recs) + m \in DOMAIN all /\ all[Len(recs) + m] = PackRecord(writer.group[m])
  <2> TAKE m \in 1..n
  <2>1. all[Len(recs) + m] = more[m]
    BY SMTT(30), <1>3, <1>9, <1>10
  <2>2. QED
    BY SMTT(30), <1>3, <1>4, <1>10, <2>1
<1>12. \A p \in 1..Len(recs) : all[p] = recs[p]
  BY SMTT(30), <1>3, <1>9, <1>10
<1>13. QED
  BY Zenon, <1>8, <1>9, <1>11, <1>12 DEF R, Records, AddsPart

\* A segment made of its parts.
IsMade(s, h, r, n, t, c) == s = [header |-> h, recs |-> r, synced |-> n, torn |-> t, sidecar |-> c]

LEMMA Made ==
    ASSUME NEW h \in {"whole", "short"}, NEW r \in Records, NEW n \in Nat, NEW t, NEW c,
           n <= Len(r), h = "short" => r = <<>>,
           NEW s, IsMade(s, h, r, n, t, c)
    PROVE  /\ s.header = h /\ s.recs = r /\ s.synced = n /\ s.torn = t /\ s.sidecar = c
           /\ IsSegment(s)
<1>1. s.header = h /\ s.recs = r /\ s.synced = n /\ s.torn = t /\ s.sidecar = c
  BY Zenon DEF IsMade
<1>2. s \in [header : {"whole", "short"}, recs : Records, synced : Nat, torn : {t}, sidecar : {c}]
  BY Zenon DEF IsMade
<1>3. QED
  BY Zenon, <1>1, <1>2 DEF IsSegment

\* A segment with some of its parts changed.
LEMMA Parts ==
    ASSUME NEW s, IsSegment(s), NEW x, NEW y, NEW z
    PROVE  /\ IsMade([s EXCEPT !.header = x], x, s.recs, s.synced, s.torn, s.sidecar)
           /\ IsMade([s EXCEPT !.recs = x], s.header, x, s.synced, s.torn, s.sidecar)
           /\ IsMade([s EXCEPT !.sidecar = x], s.header, s.recs, s.synced, s.torn, x)
           /\ IsMade([s EXCEPT !.torn = x, !.recs = y], s.header, y, s.synced, x, s.sidecar)
           /\ IsMade([s EXCEPT !.torn = x, !.synced = y], s.header, s.recs, y, x, s.sidecar)
           /\ IsMade([s EXCEPT !.torn = x, !.synced = y, !.recs = z], s.header, z, y, x, s.sidecar)
<1>1. PICK H, R, N, T, C : s \in [header : H, recs : R, synced : N, torn : T, sidecar : C]
  BY Zenon DEF IsSegment
<1>2. [s EXCEPT !.header = x] = [header |-> x, recs |-> s.recs, synced |-> s.synced,
                                 torn |-> s.torn, sidecar |-> s.sidecar]
  BY SMTT(30), <1>1
<1>3. [s EXCEPT !.recs = x] = [header |-> s.header, recs |-> x, synced |-> s.synced,
                               torn |-> s.torn, sidecar |-> s.sidecar]
  BY SMTT(30), <1>1
<1>4. [s EXCEPT !.sidecar = x] = [header |-> s.header, recs |-> s.recs, synced |-> s.synced,
                                  torn |-> s.torn, sidecar |-> x]
  BY SMTT(30), <1>1
<1>5. PICK u : u = [s EXCEPT !.torn = x]
  BY Zenon
<1>6. u = [header |-> s.header, recs |-> s.recs, synced |-> s.synced, torn |-> x, sidecar |-> s.sidecar]
  BY Zenon, <1>1, <1>5
<1>7. u \in [header : H, recs : R, synced : N, torn : {x}, sidecar : C]
  BY Zenon, <1>1, <1>6
<1>8. PICK v : v = [u EXCEPT !.synced = y]
  BY Zenon
<1>9. v = [header |-> s.header, recs |-> s.recs, synced |-> y, torn |-> x, sidecar |-> s.sidecar]
  BY Zenon, <1>6, <1>7, <1>8
<1>10. v \in [header : H, recs : R, synced : {y}, torn : {x}, sidecar : C]
  BY Zenon, <1>1, <1>9
<1>11. [u EXCEPT !.recs = y] = [header |-> u.header, recs |-> y, synced |-> u.synced,
                                torn |-> u.torn, sidecar |-> u.sidecar]
  BY SMTT(30), <1>7
<1>12. [v EXCEPT !.recs = z] = [header |-> v.header, recs |-> z, synced |-> v.synced,
                                torn |-> v.torn, sidecar |-> v.sidecar]
  BY SMTT(30), <1>10
<1>13. /\ u.header = s.header /\ u.synced = s.synced /\ u.torn = x /\ u.sidecar = s.sidecar
       /\ v.header = s.header /\ v.synced = y /\ v.torn = x /\ v.sidecar = s.sidecar
  BY Zenon, <1>6, <1>9
<1>14. QED
  BY <1>2, <1>3, <1>4, <1>5, <1>8, <1>9, <1>11, <1>12, <1>13, Zenon DEF IsMade

\* The segment with the first n records of the group added to it.
Grows(new, s, n, t) ==
    /\ IsSegment(new) /\ new.header = "whole" /\ new.torn = t /\ new.sidecar = s.sidecar
    /\ new.synced = s.synced
    /\ \A p \in 1..s.synced : new.recs[p] = s.recs[p]
    /\ \A m \in 1..n : \E p \in DOMAIN new.recs :
          new.recs[p].key = writer.group[m] /\ new.recs[p].ok

LEMMA Grown ==
    ASSUME WriterTyped, NEW s, IsSegment(s), s.header = "whole", NEW n \in 0..Len(writer.group),
           NEW more, IsPart(more, n), NEW t,
           NEW new, IsMade(new, s.header, s.recs \o more, s.synced, t, s.sidecar)
    PROVE  Grows(new, s, n, t)
<1>1. s.recs \in Records /\ s.synced \in Nat /\ s.synced <= Len(s.recs)
  BY Zenon DEF IsSegment
<1>2. PICK r : r = s.recs \o more
  BY Zenon
<1>3. AddsPart(r, s.recs, n)
  BY Zenon, <1>1, <1>2, Appended
<1>4. Len(s.recs) \in Nat /\ n \in Nat
  BY SMTT(30), <1>1, LenProperties DEF Records, WriterTyped
<1>5. s.synced <= Len(r) /\ r \in Records
  BY SMTT(30), <1>1, <1>3, <1>4 DEF AddsPart
<1>6. /\ IsSegment(new) /\ new.header = "whole" /\ new.torn = t /\ new.sidecar = s.sidecar
      /\ new.synced = s.synced /\ new.recs = r
  <2>1. s.header \in {"whole", "short"} /\ (s.header = "short" => r = <<>>)
    BY Zenon
  <2>2. IsMade(new, s.header, r, s.synced, t, s.sidecar)
    BY Zenon, <1>2
  <2>3. QED
    BY SMTT(30), <1>1, <1>5, <2>1, <2>2, Made
<1>7. \A p \in 1..s.synced : new.recs[p] = s.recs[p]
  <2>1. \A p \in 1..Len(s.recs) : r[p] = s.recs[p]
    BY Zenon, <1>3 DEF AddsPart
  <2>2. \A p \in 1..s.synced : p \in 1..Len(s.recs)
    BY SMTT(30), <1>1, <1>4
  <2>3. QED
    BY Zenon, <1>6, <2>1, <2>2
<1>8. ASSUME NEW m \in 1..n
      PROVE  \E p \in DOMAIN new.recs : new.recs[p].key = writer.group[m] /\ new.recs[p].ok
  <2>1. PackRecord(writer.group[m]).key = writer.group[m] /\ PackRecord(writer.group[m]).ok
    BY Zenon DEF PackRecord
  <2>2. PICK p : p = Len(s.recs) + m
    BY Zenon
  <2>3. p \in DOMAIN new.recs /\ new.recs[p] = PackRecord(writer.group[m])
    BY Zenon, <1>3, <1>6, <2>2 DEF AddsPart
  <2>4. QED
    BY Zenon, <2>1, <2>3
<1>9. QED
  BY Zenon, <1>6, <1>7, <1>8 DEF Grows

LEMMA AppendStep ==
    ASSUME IInv, AppendRecords
    PROVE  IInv'
<1> DEFINE last == seg[Len(seg)]
           more == [n \in DOMAIN writer.group |-> PackRecord(writer.group[n])]
           new == [last EXCEPT !.recs = last.recs \o more]
<1>1. /\ writer.pc = "append" /\ seg' = [seg EXCEPT ![Len(seg)] = new]
      /\ writer' = [writer EXCEPT !.pc = "sync"] /\ UNCHANGED <<rotten, stored, proc>>
  BY Zenon DEF AppendRecords, active, ghost
<1>2. writer'.pc = "sync" /\ writer'.group = writer.group /\ WriterTyped'
  BY Zenon, <1>1 DEF IInv, Typed, WriterTyped
<1>3. /\ seg # <<>> /\ last.header = "whole" /\ ~last.torn /\ ~last.sidecar.present
      /\ Len(seg) \in DOMAIN seg /\ IsSegment(last)
  BY SMTT(30), <1>1, EmptySeq, LenProperties DEF IInv, Typed, SegmentsTyped, WriterOwns
<1>4. DOMAIN writer.group = 1..Len(writer.group) /\ Len(writer.group) \in 0..Len(writer.group)
  BY SMTT(30), LenProperties DEF IInv, Typed, WriterTyped
<1>5. IsPart(more, Len(writer.group))
  BY Zenon, <1>4 DEF IsPart
<1> HIDE DEF more
<1>6. IsMade(new, last.header, last.recs \o more, last.synced, last.torn, last.sidecar)
  BY <1>3, Parts, Zenon
<1> HIDE DEF new
<1>7. Grows(new, last, Len(writer.group), last.torn)
  <2>1. WriterTyped
    BY Zenon DEF IInv, Typed
  <2>2. QED
    BY Zenon, <1>3, <1>4, <1>5, <1>6, <2>1, Grown
<1>h. /\ SegmentsTyped /\ Framed /\ seg[Len(seg)].synced <= new.synced
      /\ \A p \in 1..seg[Len(seg)].synced : new.recs[p] = seg[Len(seg)].recs[p]
      /\ new.sidecar.present => new.header = "whole" /\ ~new.torn /\ new.synced = Len(new.recs)
  BY SMTT(30), <1>3, <1>7 DEF IInv, Typed, IsSegment, Grows
<1>8. /\ SegmentsTyped' /\ Framed' /\ seg' # <<>> /\ Len(seg') = Len(seg)
      /\ seg'[Len(seg')] = new
      /\ \A k : Kept(k) => Kept(k)'
  <2>1. IsSegment(new)
    BY Zenon, <1>7 DEF Grows
  <2>2. QED
    BY <1>1, <1>3, <1>h, <2>1, LastUpdated, Zenon
<1>9. WriterOwns'
  BY Zenon, <1>2, <1>3, <1>7, <1>8 DEF WriterOwns, Grows
<1>10. GroupKept'
  BY SMTT(30), <1>2, <1>4, <1>7, <1>8 DEF GroupKept, Holds, Grows
<1>11. QED
  BY Zenon, <1>1, <1>2, <1>8, <1>9, <1>10 DEF IInv, Typed, StoredKept

LEMMA SyncStep ==
    ASSUME IInv, SyncSegment
    PROVE  IInv'
<1> DEFINE last == seg[Len(seg)]
           new == [last EXCEPT !.synced = Len(last.recs)]
<1>1. /\ writer.pc = "sync" /\ seg' = [seg EXCEPT ![Len(seg)] = new]
      /\ writer' = [writer EXCEPT !.pc = "publish"] /\ UNCHANGED <<rotten, stored, proc>>
  BY Zenon DEF SyncSegment, active, ghost
<1>2. writer'.pc = "publish" /\ writer'.group = writer.group /\ WriterTyped'
  BY Zenon, <1>1 DEF IInv, Typed, WriterTyped
<1>3. /\ seg # <<>> /\ last.header = "whole" /\ ~last.torn /\ ~last.sidecar.present
      /\ Len(seg) \in DOMAIN seg /\ IsSegment(last)
  BY SMTT(30), <1>1, EmptySeq, LenProperties DEF IInv, Typed, SegmentsTyped, WriterOwns
<1>4. Len(last.recs) \in Nat /\ last.synced \in 0..Len(last.recs) /\ DOMAIN last.recs = 1..Len(last.recs)
  BY SMTT(30), <1>3, LenProperties DEF IsSegment, Records
<1>5. /\ new.recs = last.recs /\ new.synced = Len(last.recs) /\ new.header = last.header
      /\ new.torn = last.torn /\ new.sidecar = last.sidecar
      /\ IsSegment(new)
  BY SMTT(30), <1>3, <1>4 DEF IsSegment
<1> HIDE DEF new
<1>h. /\ SegmentsTyped /\ Framed /\ seg[Len(seg)].synced <= new.synced
      /\ \A p \in 1..seg[Len(seg)].synced : new.recs[p] = seg[Len(seg)].recs[p]
      /\ new.sidecar.present => new.header = "whole" /\ ~new.torn /\ new.synced = Len(new.recs)
  BY SMTT(30), <1>3, <1>4, <1>5 DEF IInv, Typed
<1>6. /\ SegmentsTyped' /\ Framed' /\ seg' # <<>> /\ Len(seg') = Len(seg)
      /\ seg'[Len(seg')] = new
      /\ \A k : Kept(k) => Kept(k)'
  BY <1>1, <1>3, <1>5, <1>h, LastUpdated, Zenon
<1>7. WriterOwns'
  BY Zenon, <1>2, <1>3, <1>5, <1>6 DEF WriterOwns
<1>8. GroupKept'
  <2> SUFFICES ASSUME NEW n \in DOMAIN writer.group
               PROVE  Kept(writer.group[n])'
    BY Zenon, <1>2 DEF GroupKept
  <2>1. PICK p \in DOMAIN last.recs : Holds(writer.group[n], Len(seg), p)
    BY Zenon, <1>1 DEF IInv, GroupKept
  <2>2. Len(seg) \in DOMAIN seg' /\ p \in 1..seg'[Len(seg)].synced
    BY SMTT(30), <1>3, <1>4, <1>5, <1>6, Updated DEF IInv, Typed
  <2>3. seg'[Len(seg)].recs[p] = seg[Len(seg)].recs[p]
    BY Zenon, <1>5, <1>6
  <2>4. seg'[Len(seg)].recs[p].key = writer'.group[n]
        /\ (seg'[Len(seg)].recs[p].ok \/ <<Len(seg), p>> \in rotten')
    BY Zenon, <1>1, <1>2, <2>1, <2>3 DEF Holds
  <2>5. QED
    BY Zenon, <1>2, <2>2, <2>4 DEF Kept, Holds
<1>9. QED
  BY Zenon, <1>1, <1>2, <1>6, <1>7, <1>8 DEF IInv, Typed, StoredKept

LEMMA SidecarStep ==
    ASSUME IInv, WriteSidecar
    PROVE  IInv'
<1> DEFINE last == seg[Len(seg)]
           side == Sidecar(last, writer.sealed)
           new == [last EXCEPT !.sidecar = side]
<1>1. /\ writer.pc = "sidecar" /\ seg' = [seg EXCEPT ![Len(seg)] = new]
      /\ writer' = [writer EXCEPT !.pc = "create", !.sealed = {}] /\ UNCHANGED <<rotten, stored, proc>>
  BY Zenon DEF WriteSidecar, active, ghost
<1>2. writer'.pc = "create" /\ writer'.group = writer.group /\ WriterTyped'
  BY <1>1, Zenon DEF IInv, Typed, WriterTyped
<1>3. /\ seg # <<>> /\ last.header = "whole" /\ ~last.torn /\ last.synced = Len(last.recs)
      /\ Len(seg) \in DOMAIN seg /\ IsSegment(last)
  BY SMTT(30), <1>1, EmptySeq, LenProperties DEF IInv, Typed, SegmentsTyped, WriterOwns
<1> HIDE DEF side
<1>4. IsMade(new, last.header, last.recs, last.synced, last.torn, side)
  BY <1>3, Parts, Zenon
<1> HIDE DEF new
<1>5. /\ new.header = last.header /\ new.recs = last.recs /\ new.synced = last.synced
      /\ new.torn = last.torn /\ IsSegment(new)
  <2>1. /\ last.header \in {"whole", "short"} /\ last.recs \in Records /\ last.synced \in Nat
        /\ last.synced <= Len(last.recs) /\ (last.header = "short" => last.recs = <<>>)
    BY Zenon, <1>3 DEF IsSegment
  <2>2. QED
    BY SMTT(30), <1>4, <2>1, Made
<1>h. /\ SegmentsTyped /\ Framed /\ seg[Len(seg)].synced <= new.synced
      /\ \A p \in 1..seg[Len(seg)].synced : new.recs[p] = seg[Len(seg)].recs[p]
      /\ new.sidecar.present => new.header = "whole" /\ ~new.torn /\ new.synced = Len(new.recs)
  BY Zenon, <1>3, <1>5 DEF IInv, Typed, IsSegment
<1>6. /\ SegmentsTyped' /\ Framed' /\ seg' # <<>> /\ Len(seg') = Len(seg)
      /\ seg'[Len(seg')] = new
      /\ \A k : Kept(k) => Kept(k)'
  BY <1>1, <1>3, <1>5, <1>h, LastUpdated, Zenon
<1>7. WriterOwns'
  BY Zenon, <1>2, <1>3, <1>5, <1>6 DEF WriterOwns
<1>8. GroupKept'
  BY Zenon, <1>1, <1>2, <1>6 DEF IInv, GroupKept
<1>9. QED
  BY Zenon, <1>1, <1>2, <1>6, <1>7, <1>8 DEF IInv, Typed, StoredKept

LEMMA HeaderStep ==
    ASSUME IInv, SyncHeader
    PROVE  IInv'
<1> DEFINE last == seg[Len(seg)]
           new == [last EXCEPT !.header = "whole"]
<1>1. /\ writer.pc = "header" /\ seg' = [seg EXCEPT ![Len(seg)] = new]
      /\ writer' = [writer EXCEPT !.pc = "reply"] /\ UNCHANGED <<rotten, stored, proc>>
  BY Zenon DEF SyncHeader, active, ghost
<1>2. writer'.pc = "reply" /\ writer'.group = writer.group /\ WriterTyped'
  BY Zenon, <1>1 DEF IInv, Typed, WriterTyped
<1>3. /\ seg # <<>> /\ ~last.torn /\ ~last.sidecar.present
      /\ Len(seg) \in DOMAIN seg /\ IsSegment(last)
  BY SMTT(30), <1>1, EmptySeq, LenProperties DEF IInv, Typed, SegmentsTyped, WriterOwns
<1>4. IsMade(new, "whole", last.recs, last.synced, last.torn, last.sidecar)
  BY <1>3, Parts, Zenon
<1> HIDE DEF new
<1>5. /\ new.header = "whole" /\ new.recs = last.recs /\ new.synced = last.synced
      /\ new.torn = last.torn /\ new.sidecar = last.sidecar /\ IsSegment(new)
  <2>1. /\ "whole" \in {"whole", "short"} /\ last.recs \in Records /\ last.synced \in Nat
        /\ last.synced <= Len(last.recs) /\ ("whole" = "short" => last.recs = <<>>)
    BY Zenon, <1>3 DEF IsSegment
  <2>2. QED
    BY SMTT(30), <1>4, <2>1, Made
<1>h. /\ SegmentsTyped /\ Framed /\ seg[Len(seg)].synced <= new.synced
      /\ \A p \in 1..seg[Len(seg)].synced : new.recs[p] = seg[Len(seg)].recs[p]
      /\ new.sidecar.present => new.header = "whole" /\ ~new.torn /\ new.synced = Len(new.recs)
  BY SMTT(30), <1>3, <1>5 DEF IInv, Typed, IsSegment
<1>6. /\ SegmentsTyped' /\ Framed' /\ seg' # <<>> /\ Len(seg') = Len(seg)
      /\ seg'[Len(seg')] = new
      /\ \A k : Kept(k) => Kept(k)'
  BY <1>1, <1>3, <1>5, <1>h, LastUpdated, Zenon
<1>7. WriterOwns'
  BY Zenon, <1>2, <1>3, <1>5, <1>6 DEF WriterOwns
<1>8. GroupKept'
  BY Zenon, <1>1, <1>2, <1>6 DEF IInv, GroupKept
<1>9. QED
  BY Zenon, <1>1, <1>2, <1>6, <1>7, <1>8 DEF IInv, Typed, StoredKept

\* Two updates of one segment are one update of the segment.
LEMMA TornWith ==
    ASSUME NEW f, f \in Seq({f[j] : j \in DOMAIN f}), NEW a \in DOMAIN f, IsSegment(f[a]),
           NEW t, NEW more
    PROVE  [f EXCEPT ![a].torn = t, ![a].recs = @ \o more] =
               [f EXCEPT ![a] = [f[a] EXCEPT !.torn = t, !.recs = f[a].recs \o more]]
<1>1. PICK g : g = [f EXCEPT ![a].torn = t]
  BY Zenon
<1>2. PICK u : u = [f[a] EXCEPT !.torn = t]
  BY Zenon
<1>3. g = [j \in DOMAIN f |-> IF j = a THEN u ELSE f[j]]
  BY <1>1, <1>2, Zenon
<1>4. u.recs = f[a].recs
  <2>1. PICK H, R, N, T, C : f[a] \in [header : H, recs : R, synced : N, torn : T, sidecar : C]
    BY Zenon DEF IsSegment
  <2>2. PICK s : s = f[a]
    BY Zenon
  <2>3. QED
    BY Zenon, <1>2, <2>1, <2>2
<1>5. PICK v : v = [u EXCEPT !.recs = f[a].recs \o more]
  BY Zenon
<1>6. [g EXCEPT ![a] = [g[a] EXCEPT !.recs = g[a].recs \o more]] =
         [j \in DOMAIN f |-> IF j = a THEN v ELSE f[j]]
  <2>1. g[a] = u /\ DOMAIN g = DOMAIN f
    BY Zenon, <1>3
  <2>2. [g[a] EXCEPT !.recs = g[a].recs \o more] = v
    BY <1>4, <1>5, <2>1, Zenon
  <2>3. QED
    BY <1>3, <2>1, <2>2, Zenon
<1>7. [f EXCEPT ![a] = v] = [j \in DOMAIN f |-> IF j = a THEN v ELSE f[j]]
  BY Zenon
<1>8. QED
  BY <1>1, <1>2, <1>5, <1>6, <1>7, Zenon

\* An append that is cut short adds some records of the group and a torn one.
CutShort ==
    IF writer.pc = "append"
    THEN \E n \in 0..Len(writer.group) - 1, torn \in BOOLEAN :
            seg' = [seg EXCEPT ![active].torn = torn,
                      ![active].recs = @ \o [m \in 1..n |-> PackRecord(writer.group[m])]]
    ELSE seg' = seg

LEMMA CutShortKeeps ==
    ASSUME IInv, CutShort, UNCHANGED rotten
    PROVE  SegmentsTyped' /\ Framed' /\ \A k : Kept(k) => Kept(k)'
<1>1. CASE writer.pc # "append"
  BY Zenon, <1>1, SameSegments DEF IInv, CutShort
<1>2. CASE writer.pc = "append"
  <2> DEFINE last == seg[Len(seg)]
  <2>1. PICK n \in 0..Len(writer.group) - 1, torn \in BOOLEAN :
           seg' = [seg EXCEPT ![Len(seg)].torn = torn,
                     ![Len(seg)].recs = @ \o [m \in 1..n |-> PackRecord(writer.group[m])]]
    BY <1>2, Zenon DEF CutShort, active
  <2> DEFINE more == [m \in 1..n |-> PackRecord(writer.group[m])]
             new == [last EXCEPT !.torn = torn, !.recs = last.recs \o more]
  <2>2. /\ seg # <<>> /\ last.header = "whole" /\ ~last.sidecar.present
        /\ Len(seg) \in DOMAIN seg /\ IsSegment(last) /\ SegmentsTyped /\ WriterTyped /\ Framed
    BY SMTT(30), <1>2, EmptySeq, LenProperties DEF IInv, Typed, SegmentsTyped, WriterOwns
  <2>3. IsPart(more, n) /\ n \in 0..Len(writer.group)
    BY SMTT(30), <2>2, LenProperties DEF IsPart, WriterTyped
  <2>4. seg' = [seg EXCEPT ![Len(seg)].torn = torn, ![Len(seg)].recs = @ \o more]
    BY Zenon, <2>1
  <2> HIDE DEF more
  <2>5. seg' = [seg EXCEPT ![Len(seg)] = new]
    BY <2>2, <2>4, TornWith, Zenon DEF SegmentsTyped
  <2>6. IsMade(new, last.header, last.recs \o more, last.synced, torn, last.sidecar)
    BY <2>2, Parts, Zenon
  <2> HIDE DEF new
  <2>7. Grows(new, last, n, torn)
    BY Zenon, <2>2, <2>3, <2>6, Grown
  <2>8. IsSegment(new) /\ new.sidecar = last.sidecar
    BY Zenon, <2>7 DEF Grows
  <2>9. /\ seg[Len(seg)].synced <= new.synced
        /\ \A p \in 1..seg[Len(seg)].synced : new.recs[p] = seg[Len(seg)].recs[p]
        /\ new.sidecar.present => new.header = "whole" /\ ~new.torn /\ new.synced = Len(new.recs)
    BY SMTT(30), <2>2, <2>7 DEF IsSegment, Grows
  <2>10. QED
    BY <2>2, <2>5, <2>8, <2>9, LastUpdated, Zenon
<1>3. QED
  BY Zenon, <1>1, <1>2

LEMMA FailsStep ==
    ASSUME IInv, WriterFails
    PROVE  IInv'
<1>1. CutShort /\ writer' = [NoWriter EXCEPT !.pc = "ended"] /\ UNCHANGED <<rotten, stored, proc>>
  BY Zenon DEF WriterFails, CutShort, ghost
<1>2. writer'.pc = "ended" /\ WriterTyped'
  BY <1>1, EmptySeq, Zenon DEF NoWriter, WriterTyped
<1>3. SegmentsTyped' /\ Framed' /\ \A k : Kept(k) => Kept(k)'
  BY Zenon, <1>1, CutShortKeeps
<1>4. WriterOwns' /\ GroupKept'
  BY Zenon, <1>2 DEF WriterOwns, GroupKept
<1>5. QED
  BY Zenon, <1>1, <1>2, <1>3, <1>4 DEF IInv, Typed, StoredKept

LEMMA CrashStep ==
    ASSUME IInv, Crash
    PROVE  IInv'
<1>1. CutShort /\ writer' = NoWriter /\ proc' = "down" /\ UNCHANGED <<rotten, stored>>
  BY Zenon DEF Crash, MemoryLost, CutShort, ghost
<1>2. writer'.pc = "none" /\ WriterTyped'
  BY Zenon, <1>1, EmptySeq DEF NoWriter, WriterTyped
<1>3. SegmentsTyped' /\ Framed' /\ \A k : Kept(k) => Kept(k)'
  BY Zenon, <1>1, CutShortKeeps
<1>4. WriterOwns' /\ GroupKept'
  BY Zenon, <1>2 DEF WriterOwns, GroupKept
<1>5. QED
  BY Zenon, <1>1, <1>2, <1>3, <1>4 DEF IInv, Typed, StoredKept

-----------------------------------------------------------------------------
(* The environment and start-up.                                           *)

LEMMA LostWith ==
    ASSUME NEW f, f \in Seq({f[j] : j \in DOMAIN f}), NEW a \in DOMAIN f, IsSegment(f[a]),
           NEW t, NEW n, NEW r
    PROVE  [f EXCEPT ![a].torn = t, ![a].synced = n, ![a].recs = r] =
               [f EXCEPT ![a] = [f[a] EXCEPT !.torn = t, !.synced = n, !.recs = r]]
<1>1. PICK g : g = [f EXCEPT ![a].torn = t]
  BY Zenon
<1>2. PICK u : u = [f[a] EXCEPT !.torn = t]
  BY Zenon
<1>3. g = [j \in DOMAIN f |-> IF j = a THEN u ELSE f[j]]
  BY <1>1, <1>2, Zenon
<1>4. PICK h : h = [g EXCEPT ![a].synced = n]
  BY Zenon
<1>5. PICK v : v = [u EXCEPT !.synced = n]
  BY Zenon
<1>6. h = [j \in DOMAIN f |-> IF j = a THEN v ELSE f[j]]
  BY Zenon, <1>3, <1>4, <1>5
<1>7. PICK w : w = [v EXCEPT !.recs = r]
  BY Zenon
<1>8. [h EXCEPT ![a].recs = r] = [j \in DOMAIN f |-> IF j = a THEN w ELSE f[j]]
  BY Zenon, <1>6, <1>7
<1>9. [f EXCEPT ![a] = w] = [j \in DOMAIN f |-> IF j = a THEN w ELSE f[j]]
  BY Zenon
<1>10. QED
  BY <1>1, <1>2, <1>4, <1>5, <1>7, <1>8, <1>9, Zenon

\* The records that a power loss leaves of a segment.
Leaves(r, recs, n, kept, good) ==
    r = [p \in 1..n |-> IF p <= kept \/ p \in good THEN recs[p] ELSE [recs[p] EXCEPT !.ok = FALSE]]

LEMMA LossLeaves ==
    ASSUME NEW recs \in Records, NEW n \in 0..Len(recs), NEW kept \in 0..n, NEW good,
           NEW r, Leaves(r, recs, n, kept, good)
    PROVE  /\ r \in Records /\ Len(r) = n /\ (recs = <<>> => r = <<>>)
           /\ \A p \in 1..kept : r[p] = recs[p]
<1> DEFINE R == [key : Key, ok : BOOLEAN]
<1>1. recs \in Seq(R) /\ Len(recs) \in Nat /\ n \in Nat
  BY SMTT(30), LenProperties DEF Records
<1>2. \A p \in 1..n : recs[p] \in R /\ [recs[p] EXCEPT !.ok = FALSE] \in R
  <2> TAKE p \in 1..n
  <2>1. PICK x \in R : x = recs[p]
    <3>1. p \in 1..Len(recs)
      BY SMTT(30), <1>1
    <3> HIDE DEF R
    <3>2. recs[p] \in R
      BY Zenon, <1>1, <3>1, ElementOfSeq
    <3>3. QED
      BY Zenon, <3>2
  <2>2. [x EXCEPT !.ok = FALSE] \in R
    BY Zenon
  <2>3. QED
    BY Zenon, <2>1, <2>2
<1>3. r = [p \in 1..n |-> r[p]] /\ \A p \in 1..n : r[p] \in R
  BY Zenon, <1>2 DEF Leaves
<1>4. \A p \in 1..kept : r[p] = recs[p]
  BY SMTT(30), <1>1 DEF Leaves
<1> HIDE DEF R
<1>5. r \in [1..n -> R]
  BY Zenon, <1>3
<1>6. r \in Seq(R)
  BY SMTT(30), <1>1, <1>5, SeqDef
<1>7. Len(r) = n
  BY SMTT(30), <1>1, <1>5, <1>6, LenProperties
<1>8. recs = <<>> => r = <<>>
  BY SMTT(30), <1>1, <1>6, <1>7, EmptySeq
<1>9. QED
  BY Zenon, <1>4, <1>6, <1>7, <1>8 DEF R, Records

LEMMA PowerStep ==
    ASSUME IInv, PowerLoss
    PROVE  IInv'
<1> DEFINE last == seg[Len(seg)]
<1>1. PICK n \in last.synced..Len(last.recs), torn \in BOOLEAN :
         /\ torn => n < Len(last.recs) \/ writer.pc = "append" \/ last.torn
         /\ \E good \in SUBSET ((last.synced + 1)..n) :
              seg' = [seg EXCEPT ![Len(seg)].torn = torn, ![Len(seg)].synced = n,
                        ![Len(seg)].recs = [p \in 1..n |->
                           IF p <= last.synced \/ p \in good THEN last.recs[p]
                           ELSE [last.recs[p] EXCEPT !.ok = FALSE]]]
  BY Zenon DEF PowerLoss, active
<1>2. PICK good :
         seg' = [seg EXCEPT ![Len(seg)].torn = torn, ![Len(seg)].synced = n,
                   ![Len(seg)].recs = [p \in 1..n |->
                      IF p <= last.synced \/ p \in good THEN last.recs[p]
                      ELSE [last.recs[p] EXCEPT !.ok = FALSE]]]
  BY <1>1, Zenon
<1>3. writer' = NoWriter /\ proc' = "down" /\ UNCHANGED <<rotten, stored>> /\ seg # <<>>
  BY Zenon DEF PowerLoss, MemoryLost, ghost
<1>4. /\ Len(seg) \in DOMAIN seg /\ IsSegment(last) /\ SegmentsTyped /\ Framed
  BY SMTT(30), <1>3, EmptySeq, LenProperties DEF IInv, Typed, SegmentsTyped
<1>5. /\ last.recs \in Records /\ last.synced \in Nat /\ Len(last.recs) \in Nat
      /\ last.synced <= Len(last.recs) /\ last.header \in {"whole", "short"}
      /\ last.header = "short" => last.recs = <<>>
  BY Zenon, <1>4, LenProperties DEF IsSegment, Records
<1> DEFINE r == [p \in 1..n |-> IF p <= last.synced \/ p \in good THEN last.recs[p]
                                ELSE [last.recs[p] EXCEPT !.ok = FALSE]]
           new == [last EXCEPT !.torn = torn, !.synced = n, !.recs = r]
<1>6. /\ seg' = [seg EXCEPT ![Len(seg)].torn = torn, ![Len(seg)].synced = n, ![Len(seg)].recs = r]
      /\ Leaves(r, last.recs, n, last.synced, good)
  BY Zenon, <1>2 DEF Leaves
<1> HIDE DEF r
<1>7. seg' = [seg EXCEPT ![Len(seg)] = new]
  BY <1>4, <1>6, LostWith, Zenon DEF SegmentsTyped
<1>8. IsMade(new, last.header, r, n, torn, last.sidecar)
  BY <1>4, Parts, Zenon
<1> HIDE DEF new
<1>9. /\ n \in 0..Len(last.recs) /\ last.synced \in 0..n /\ n \in Nat
  BY SMTT(30), <1>5
<1>10. /\ r \in Records /\ Len(r) = n /\ (last.recs = <<>> => r = <<>>)
       /\ \A p \in 1..last.synced : r[p] = last.recs[p]
  BY SMTT(30), <1>5, <1>6, <1>9, LossLeaves
<1>11. /\ new.header = last.header /\ new.recs = r /\ new.synced = n /\ new.torn = torn
       /\ new.sidecar = last.sidecar /\ IsSegment(new)
  <2>1. n <= Len(r) /\ (last.header = "short" => r = <<>>)
    BY SMTT(30), <1>5, <1>9, <1>10
  <2>2. QED
    BY SMTT(30), <1>5, <1>8, <1>9, <1>10, <2>1, Made
<1>12. last.sidecar.present => last.header = "whole" /\ ~torn
  <2> SUFFICES ASSUME last.sidecar.present PROVE last.header = "whole" /\ ~torn
    BY Zenon
  <2>1. last.header = "whole" /\ ~last.torn /\ last.synced = Len(last.recs)
    BY Zenon, <1>4 DEF Framed
  <2>2. writer.pc # "append"
    BY Zenon DEF IInv, WriterOwns
  <2>3. ~(n < Len(last.recs))
    BY SMTT(30), <1>5, <1>9, <2>1
  <2>4. QED
    BY Zenon, <1>1, <2>1, <2>2, <2>3
<1>13. /\ seg[Len(seg)].synced <= new.synced
       /\ \A p \in 1..seg[Len(seg)].synced : new.recs[p] = seg[Len(seg)].recs[p]
       /\ new.sidecar.present => new.header = "whole" /\ ~new.torn /\ new.synced = Len(new.recs)
  BY SMTT(30), <1>9, <1>10, <1>11, <1>12
<1>14. SegmentsTyped' /\ Framed' /\ \A k : Kept(k) => Kept(k)'
  BY <1>3, <1>4, <1>7, <1>11, <1>13, LastUpdated, Zenon
<1>15. writer'.pc = "none" /\ WriterTyped'
  BY Zenon, <1>3, EmptySeq DEF NoWriter, WriterTyped
<1>16. WriterOwns' /\ GroupKept'
  BY Zenon, <1>15 DEF WriterOwns, GroupKept
<1>17. QED
  BY Zenon, <1>3, <1>14, <1>15, <1>16 DEF IInv, Typed, StoredKept

\* A segment is replaced by one with the same frame and the same keys.
LEMMA Reframed ==
    ASSUME IInv, NEW i \in DOMAIN seg, NEW new, IsSegment(new), seg' = [seg EXCEPT ![i] = new],
           new.header = seg[i].header, new.torn = seg[i].torn, new.synced = seg[i].synced,
           new.sidecar.present => seg[i].sidecar.present,
           Len(new.recs) = Len(seg[i].recs), DOMAIN new.recs = DOMAIN seg[i].recs,
           \A p \in DOMAIN seg[i].recs :
              /\ new.recs[p].key = seg[i].recs[p].key
              /\ seg[i].recs[p].ok \/ <<i, p>> \in rotten => new.recs[p].ok \/ <<i, p>> \in rotten',
           rotten \subseteq rotten', UNCHANGED <<writer, stored, proc>>
    PROVE  IInv'
<1>1. SegmentsTyped /\ WriterTyped
  BY Zenon DEF IInv, Typed
<1>2. /\ SegmentsTyped' /\ DOMAIN seg' = DOMAIN seg /\ Len(seg') = Len(seg)
      /\ seg'[i] = new
      /\ \A j \in DOMAIN seg : j # i => seg'[j] = seg[j]
  BY <1>1, Updated, Zenon
<1>3. Framed'
  BY SMTT(30), <1>2 DEF IInv, Framed
<1>4. \A k : Kept(k) => Kept(k)'
  <2>1. ASSUME NEW j \in DOMAIN seg
        PROVE  /\ j \in DOMAIN seg' /\ seg[j].synced <= seg'[j].synced
               /\ \A p \in 1..seg[j].synced :
                     /\ seg'[j].recs[p].key = seg[j].recs[p].key
                     /\ seg[j].recs[p].ok \/ <<j, p>> \in rotten =>
                           seg'[j].recs[p].ok \/ <<j, p>> \in rotten'
    <3>1. IsSegment(seg[j])
      BY Zenon, <1>1 DEF SegmentsTyped
    <3>2. seg[j].synced \in Nat /\ \A p \in 1..seg[j].synced : p \in DOMAIN seg[j].recs
      BY SMTT(30), <3>1, LenProperties DEF IsSegment, Records
    <3>3. CASE j = i
      BY SMTT(30), <1>2, <3>2, <3>3
    <3>4. CASE j # i
      BY SMTT(30), <1>2, <3>2, <3>4
    <3>5. QED
      BY Zenon, <3>3, <3>4
  <2>2. SyncedSurvives
    BY Zenon, <2>1 DEF SyncedSurvives
  <2>3. QED
    BY Zenon, <1>1, <1>2, <2>2, KeptStays
<1>5. seg = <<>> <=> seg' = <<>>
  BY Zenon, <1>1, <1>2, EmptySeq DEF SegmentsTyped
<1>6. WriterOwns'
  <2>1. seg # <<>> => Len(seg) \in DOMAIN seg
    BY SMTT(30), <1>1, EmptySeq, LenProperties DEF SegmentsTyped
  <2>2. CASE i = Len(seg)
    BY Zenon, <1>2, <1>5, <2>1, <2>2 DEF IInv, WriterOwns
  <2>3. CASE i # Len(seg)
    BY Zenon, <1>2, <1>5, <2>1, <2>3 DEF IInv, WriterOwns
  <2>4. QED
    BY Zenon, <2>2, <2>3
<1>7. GroupKept'
  <2>1. CASE writer.pc = "sync"
    <3>1. Len(seg) \in DOMAIN seg
      BY SMTT(30), <1>1, <2>1, EmptySeq, LenProperties DEF SegmentsTyped, IInv, WriterOwns
    <3> SUFFICES ASSUME NEW n \in DOMAIN writer.group
                 PROVE  \E p \in DOMAIN seg'[Len(seg)].recs :
                           /\ seg'[Len(seg)].recs[p].key = writer.group[n]
                           /\ seg'[Len(seg)].recs[p].ok \/ <<Len(seg), p>> \in rotten'
      BY SMTT(30), <1>2, <2>1 DEF GroupKept, Holds
    <3>2. PICK p \in DOMAIN seg[Len(seg)].recs :
             /\ seg[Len(seg)].recs[p].key = writer.group[n]
             /\ seg[Len(seg)].recs[p].ok \/ <<Len(seg), p>> \in rotten
      BY Zenon, <2>1 DEF IInv, GroupKept, Holds
    <3>3. CASE i = Len(seg)
      BY <1>2, <3>1, <3>2, <3>3, Zenon
    <3>4. CASE i # Len(seg)
      BY Zenon, <1>2, <3>1, <3>2, <3>4
    <3>5. QED
      BY <3>3, <3>4, Zenon
  <2>2. CASE writer.pc # "sync"
    BY Zenon, <1>4, <2>2 DEF IInv, GroupKept
  <2>3. QED
    BY Zenon, <2>1, <2>2
<1>8. WriterTyped'
  BY Zenon, <1>1 DEF WriterTyped
<1>9. QED
  BY Zenon, <1>2, <1>3, <1>4, <1>6, <1>7, <1>8 DEF IInv, Typed, StoredKept

LEMMA UnlinkStep ==
    ASSUME IInv, NEW r \in Reader, UnlinkSidecar(r)
    PROVE  IInv'
<1>1. PICK i : i = reader[r].loc[1]
  BY Zenon
<1>2. seg' = [seg EXCEPT ![i].sidecar = NoSidecar] /\ UNCHANGED <<writer, stored, rotten, proc>>
  BY Zenon, <1>1 DEF UnlinkSidecar
<1>3. SegmentsTyped /\ WriterTyped
  BY Zenon DEF IInv, Typed
<1>4. CASE i \notin DOMAIN seg
  <2>1. seg = [j \in DOMAIN seg |-> seg[j]]
    BY Zenon, <1>3, LenProperties DEF SegmentsTyped
  <2>2. seg' = seg
    BY Zenon, <1>2, <1>4, <2>1
  <2>3. WriterTyped'
    BY Zenon, <1>2, <1>3 DEF WriterTyped
  <2>4. QED
    BY Zenon, <1>2, <2>2, <2>3, QuietStep
<1>5. CASE i \in DOMAIN seg
  <2> DEFINE s == seg[i]
             new == [s EXCEPT !.sidecar = NoSidecar]
  <2>1. seg' = [seg EXCEPT ![i] = new]
    BY Zenon, <1>2
  <2>2. IsSegment(s)
    BY Zenon, <1>3, <1>5 DEF SegmentsTyped
  <2>3. IsMade(new, s.header, s.recs, s.synced, s.torn, NoSidecar)
    BY <2>2, Parts, Zenon
  <2> HIDE DEF new
  <2>4. /\ s.header \in {"whole", "short"} /\ s.recs \in Records /\ s.synced \in Nat
        /\ s.synced <= Len(s.recs) /\ (s.header = "short" => s.recs = <<>>)
    BY Zenon, <2>2 DEF IsSegment
  <2>5. /\ new.header = s.header /\ new.recs = s.recs /\ new.synced = s.synced
        /\ new.torn = s.torn /\ new.sidecar = NoSidecar /\ IsSegment(new)
    BY SMTT(30), <2>3, <2>4, Made
  <2>6. ~NoSidecar.present
    BY Zenon DEF NoSidecar
  <2>7. QED
    BY <1>2, <1>5, <2>1, <2>5, <2>6, Reframed, Zenon
<1>6. QED
  BY Zenon, <1>4, <1>5

LEMMA RotStep ==
    ASSUME IInv, NEW i \in DOMAIN seg, NEW p \in DOMAIN seg[i].recs, Rot(i, p)
    PROVE  IInv'
<1> DEFINE s == seg[i]
           x == [s.recs[p] EXCEPT !.ok = FALSE]
           r == [s.recs EXCEPT ![p] = x]
           new == [s EXCEPT !.recs = r]
<1>1. /\ seg' = [seg EXCEPT ![i] = new] /\ rotten' = rotten \cup {<<i, p>>}
      /\ UNCHANGED <<writer, stored, proc>>
  BY Zenon DEF Rot
<1>2. IsSegment(s) /\ SegmentsTyped
  BY Zenon DEF IInv, Typed, SegmentsTyped
<1>3. /\ s.header \in {"whole", "short"} /\ s.recs \in Records /\ s.synced \in Nat
      /\ s.synced <= Len(s.recs) /\ (s.header = "short" => s.recs = <<>>)
  BY Zenon, <1>2 DEF IsSegment
<1>4. s.recs[p] \in [key : Key, ok : BOOLEAN]
  <2>1. PICK R : R = [key : Key, ok : BOOLEAN]
    BY Zenon
  <2>2. s.recs \in Seq(R)
    BY Zenon, <1>3, <2>1 DEF Records
  <2>3. p \in 1..Len(s.recs)
    BY Zenon, <2>2, LenProperties
  <2>4. QED
    BY <2>1, <2>2, <2>3, ElementOfSeq, Zenon
<1>5. x \in [key : Key, ok : BOOLEAN] /\ x.key = s.recs[p].key
  <2>1. PICK y \in [key : Key, ok : BOOLEAN] : y = s.recs[p]
    BY Zenon, <1>4
  <2>2. [y EXCEPT !.ok = FALSE] \in [key : Key, ok : BOOLEAN] /\ [y EXCEPT !.ok = FALSE].key = y.key
    BY Zenon
  <2>3. QED
    BY Zenon, <2>1, <2>2
<1> HIDE DEF x
<1>6. /\ r \in Records /\ Len(r) = Len(s.recs) /\ DOMAIN r = DOMAIN s.recs
      /\ r[p] = x /\ \A q \in DOMAIN s.recs : q # p => r[q] = s.recs[q]
  <2>1. PICK t \in Records : t = s.recs
    BY Zenon, <1>3
  <2>2. t \in Seq([key : Key, ok : BOOLEAN]) /\ p \in 1..Len(t)
    BY Zenon, <2>1, LenProperties DEF Records
  <2>3. [t EXCEPT ![p] = x] \in Seq([key : Key, ok : BOOLEAN]) /\ Len([t EXCEPT ![p] = x]) = Len(t)
    BY SMTT(30), <1>5, <2>2, ExceptSeq
  <2>4. /\ DOMAIN [t EXCEPT ![p] = x] = DOMAIN t /\ [t EXCEPT ![p] = x][p] = x
        /\ \A q \in DOMAIN t : q # p => [t EXCEPT ![p] = x][q] = t[q]
    BY Zenon, <2>1
  <2>5. QED
    BY Zenon, <2>1, <2>3, <2>4 DEF Records
<1> HIDE DEF r
<1>7. IsMade(new, s.header, r, s.synced, s.torn, s.sidecar)
  BY <1>2, Parts, Zenon
<1> HIDE DEF new
<1>8. s.recs # <<>>
  BY SMTT(30), EmptySeq
<1>9. /\ new.header = s.header /\ new.recs = r /\ new.synced = s.synced
      /\ new.torn = s.torn /\ new.sidecar = s.sidecar /\ IsSegment(new)
  <2>1. s.synced <= Len(r) /\ (s.header = "short" => r = <<>>)
    BY Zenon, <1>3, <1>6, <1>8
  <2>2. QED
    BY SMTT(30), <1>3, <1>6, <1>7, <2>1, Made
<1>10. \A q \in DOMAIN s.recs :
          /\ new.recs[q].key = s.recs[q].key
          /\ s.recs[q].ok \/ <<i, q>> \in rotten => new.recs[q].ok \/ <<i, q>> \in rotten'
  BY Zenon, <1>1, <1>5, <1>6, <1>9
<1>11. rotten \subseteq rotten'
  BY Zenon, <1>1
<1>12. QED
  BY <1>1, <1>6, <1>9, <1>10, <1>11, Reframed, Zenon

\* A new segment file.
LEMMA NewSegment ==
    ASSUME NEW h \in {"whole", "short"}
    PROVE  /\ IsSegment(Segment(h)) /\ Segment(h).header = h /\ ~Segment(h).torn
           /\ ~Segment(h).sidecar.present
           /\ Segment(h).recs = <<>> /\ Segment(h).synced = 0
<1>1. PICK c : c = NoSidecar
  BY Zenon
<1>2. PICK t : t = FALSE
  BY Zenon
<1>3. IsMade(Segment(h), h, <<>>, 0, t, c)
  BY <1>1, <1>2, Zenon DEF Segment, IsMade
<1>4. <<>> \in Records /\ 0 \in Nat /\ 0 <= Len(<<>>)
  BY SMTT(30), EmptySeq DEF Records
<1>5. /\ Segment(h).header = h /\ Segment(h).recs = <<>> /\ Segment(h).synced = 0
      /\ Segment(h).torn = t /\ Segment(h).sidecar = c /\ IsSegment(Segment(h))
  BY SMTT(30), <1>3, <1>4, Made
<1>6. ~c.present
  BY <1>1, Zenon DEF NoSidecar
<1>7. QED
  BY Zenon, <1>2, <1>5, <1>6

LEMMA CreateStep ==
    ASSUME IInv, CreateSegment
    PROVE  IInv'
<1>1. PICK new : new = Segment("short")
  BY Zenon
<1>2. /\ writer.pc = "create" /\ seg' = Append(seg, new)
      /\ writer' = [writer EXCEPT !.pc = "header"] /\ UNCHANGED <<rotten, stored, proc>>
  BY Zenon, <1>1 DEF CreateSegment, ghost
<1>3. writer'.pc = "header" /\ writer'.group = writer.group /\ WriterTyped'
  BY Zenon, <1>2 DEF IInv, Typed, WriterTyped
<1>4. /\ IsSegment(new) /\ ~new.torn /\ ~new.sidecar.present
  BY Zenon, <1>1, NewSegment
<1>5. /\ SegmentsTyped /\ Framed
      /\ seg \in Seq({seg[j] : j \in DOMAIN seg}) /\ \A j \in DOMAIN seg : IsSegment(seg[j])
      /\ seg[Len(seg)].header = "whole" /\ ~seg[Len(seg)].torn
  BY Zenon, <1>2 DEF IInv, Typed, SegmentsTyped, WriterOwns
<1>6. /\ SegmentsTyped'
      /\ Len(seg) \in Nat /\ Len(seg') = Len(seg) + 1 /\ DOMAIN seg' = 1..Len(seg')
      /\ DOMAIN seg = 1..Len(seg)
      /\ seg'[Len(seg')] = new
      /\ \A j \in DOMAIN seg : seg'[j] = seg[j]
  BY Zenon, <1>2, <1>4, <1>5, Extended
<1>7. \A i \in DOMAIN seg' : i # Len(seg') => i \in DOMAIN seg /\ seg'[i] = seg[i]
  BY SMTT(30), <1>6
<1>8. Framed'
  BY Zenon, <1>4, <1>5, <1>6, <1>7 DEF Framed
<1>9. \A k : Kept(k) => Kept(k)'
  <2>1. \A i \in DOMAIN seg : seg[i].synced <= seg[i].synced /\ i \in DOMAIN seg'
    BY SMTT(30), <1>5, <1>6 DEF IsSegment
  <2>2. SyncedSurvives
    BY Zenon, <1>2, <1>6, <2>1 DEF SyncedSurvives
  <2>3. QED
    BY Zenon, <1>5, <1>6, <2>2, KeptStays
<1>10. seg' # <<>>
  BY SMTT(30), <1>6, EmptySeq
<1>11. WriterOwns'
  BY Zenon, <1>3, <1>4, <1>6, <1>10 DEF WriterOwns
<1>12. GroupKept'
  BY Zenon, <1>2, <1>3, <1>9 DEF IInv, GroupKept
<1>13. QED
  BY Zenon, <1>2, <1>3, <1>6, <1>8, <1>9, <1>11, <1>12 DEF IInv, Typed, StoredKept

\* What recovery makes of segment i.
Repaired(new, i) ==
    /\ IsSegment(new) /\ new.header = "whole" /\ ~new.torn /\ new.recs = seg[i].recs
    /\ seg[i].synced <= new.synced
    /\ new.sidecar.present /\ i = Len(seg) => new.synced = Len(new.recs)

LEMMA RecoveryRepairs ==
    ASSUME SegmentsTyped, Framed, NEW i \in DOMAIN seg
    PROVE  Repaired(Recovered(i), i)
<1> DEFINE s == seg[i]
<1>1. IsSegment(s)
  BY Zenon DEF SegmentsTyped
<1>2. /\ s.header \in {"whole", "short"} /\ s.recs \in Records /\ s.synced \in Nat
      /\ Len(s.recs) \in Nat
      /\ s.synced <= Len(s.recs) /\ (s.header = "short" => s.recs = <<>>)
  BY Zenon, <1>1, LenProperties DEF IsSegment, Records
<1>3. CASE s.header = "short"
  <2>1. Recovered(i) = Segment("whole")
    BY Zenon, <1>3 DEF Recovered
  <2>2. s.recs = <<>> /\ s.synced = 0
    BY SMTT(30), <1>2, <1>3, EmptySeq
  <2>3. QED
    BY SMTT(30), <2>1, <2>2, NewSegment DEF Repaired
<1>4. CASE s.header = "whole" /\ IsActive(i) /\ s.torn
  <2> DEFINE new == [s EXCEPT !.torn = FALSE, !.synced = Len(s.recs)]
  <2>1. Recovered(i) = new
    BY Zenon, <1>4 DEF Recovered
  <2>2. IsMade(new, s.header, s.recs, Len(s.recs), FALSE, s.sidecar)
    BY <1>1, Parts, Zenon
  <2> HIDE DEF new
  <2>3. PICK t : t = FALSE
    BY Zenon
  <2>4. /\ new.header = s.header /\ new.recs = s.recs /\ new.synced = Len(s.recs)
        /\ new.torn = t /\ IsSegment(new)
    <3>1. IsMade(new, s.header, s.recs, Len(s.recs), t, s.sidecar)
      BY <2>2, <2>3, Zenon
    <3>2. Len(s.recs) <= Len(s.recs)
      BY SMTT(30), <1>2
    <3>3. QED
      BY SMTT(30), <1>2, <3>1, <3>2, Made
  <2>5. QED
    BY Zenon, <1>2, <1>4, <2>1, <2>3, <2>4 DEF Repaired
<1>5. CASE s.header = "whole" /\ ((IsActive(i) /\ ~s.torn) \/ (~IsActive(i) /\ Usable(s)))
  <2>1. Recovered(i) = s
    BY Zenon, <1>5 DEF Recovered
  <2>2. ~s.torn /\ (s.sidecar.present /\ i = Len(seg) => s.synced = Len(s.recs))
    BY Zenon, <1>5 DEF Framed, IsActive
  <2>3. QED
    BY SMTT(30), <1>1, <1>2, <1>5, <2>1, <2>2 DEF Repaired
<1>6. CASE s.header = "whole" /\ ~IsActive(i) /\ ~Usable(s)
  <2> DEFINE side == Sidecar(s, Scan(s))
             new == [s EXCEPT !.sidecar = side]
  <2>1. Recovered(i) = new
    BY Zenon, <1>6 DEF Recovered
  <2> HIDE DEF side
  <2>2. IsMade(new, s.header, s.recs, s.synced, s.torn, side)
    BY <1>1, Parts, Zenon
  <2> HIDE DEF new
  <2>3. /\ new.header = s.header /\ new.recs = s.recs /\ new.synced = s.synced
        /\ new.torn = s.torn /\ IsSegment(new)
    BY SMTT(30), <1>2, <2>2, Made
  <2>4. ~s.torn /\ (i = Len(seg) => s.synced = Len(s.recs))
    BY Zenon, <1>6 DEF Framed, IsActive
  <2>5. QED
    BY SMTT(30), <1>2, <1>6, <2>1, <2>3, <2>4 DEF Repaired
<1>7. s.header = "short" \/ s.header = "whole"
  BY Zenon, <1>2
<1>8. CASE s.header = "whole"
  <2>1. CASE IsActive(i)
    <3>1. CASE s.torn
      BY Zenon, <1>4, <1>8, <2>1, <3>1
    <3>2. CASE ~s.torn
      BY Zenon, <1>5, <1>8, <2>1, <3>2
    <3>3. QED
      BY Zenon, <3>1, <3>2
  <2>2. CASE ~IsActive(i)
    BY Zenon, <1>5, <1>6, <1>8, <2>2
  <2>3. QED
    BY Zenon, <2>1, <2>2
<1>9. QED
  BY Zenon, <1>3, <1>7, <1>8

LEMMA OpenStep ==
    ASSUME IInv, Open
    PROVE  IInv'
<1> DEFINE recovered == [i \in DOMAIN seg |-> Recovered(i)]
           fresh == recovered = <<>> \/ recovered[Len(recovered)].sidecar.present
<1>1. SegmentsTyped /\ Framed
  BY Zenon DEF IInv, Typed
<1>2. Openable
  BY Zenon, <1>1 DEF Framed, Openable, IsActive, SegmentsTyped, IsSegment
<1>3. /\ seg' = IF fresh THEN Append(recovered, Segment("whole")) ELSE recovered
      /\ writer' = [NoWriter EXCEPT !.pc = "idle"] /\ proc' = "up" /\ UNCHANGED <<rotten, stored>>
  BY Zenon, <1>2 DEF Open, ghost
<1>4. writer'.pc = "idle" /\ WriterTyped'
  BY <1>3, EmptySeq, Zenon DEF NoWriter, WriterTyped
<1>5. Len(seg) \in Nat /\ DOMAIN seg = 1..Len(seg)
  BY Zenon, <1>1, LenProperties DEF SegmentsTyped
<1>6. PICK old : old = recovered
  BY Zenon
<1>7. DOMAIN old = DOMAIN seg /\ \A i \in DOMAIN seg : Repaired(old[i], i)
  BY Zenon, <1>1, <1>6, RecoveryRepairs
<1>8. /\ old \in Seq({old[j] : j \in DOMAIN old}) /\ Len(old) = Len(seg)
  <2>1. old = [j \in 1..Len(seg) |-> old[j]]
    BY Zenon, <1>5, <1>6
  <2>2. QED
    BY Zenon, <1>5, <2>1, Listed
<1>9. \A i \in DOMAIN old : IsSegment(old[i])
  BY Zenon, <1>7 DEF Repaired
<1>10. PICK new : new = Segment("whole")
  BY Zenon
<1>11. seg' = IF old = <<>> \/ old[Len(old)].sidecar.present THEN Append(old, new) ELSE old
  BY Zenon, <1>3, <1>6, <1>10
<1> HIDE DEF recovered, fresh
<1>12. /\ SegmentsTyped' /\ \A i \in DOMAIN seg : i \in DOMAIN seg' /\ seg'[i] = old[i]
  <2>1. CASE old = <<>> \/ old[Len(old)].sidecar.present
    <3>1. seg' = Append(old, new) /\ IsSegment(new)
      BY Zenon, <1>10, <1>11, <2>1, NewSegment
    <3>2. /\ SegmentsTyped'
          /\ Len(old) \in Nat /\ Len(seg') = Len(old) + 1 /\ DOMAIN seg' = 1..Len(seg')
          /\ \A j \in DOMAIN old : seg'[j] = old[j]
      BY Zenon, <1>8, <1>9, <3>1, Extended
    <3>3. QED
      BY SMTT(30), <1>5, <1>7, <1>8, <3>2
  <2>2. CASE ~(old = <<>> \/ old[Len(old)].sidecar.present)
    BY Zenon, <1>7, <1>8, <1>9, <1>11, <2>2 DEF SegmentsTyped
  <2>3. QED
    BY Zenon, <2>1, <2>2
<1>13. \A k : Kept(k) => Kept(k)'
  <2>1. SyncedSurvives
    BY Zenon, <1>3, <1>7, <1>12 DEF SyncedSurvives, Repaired
  <2>2. QED
    BY Zenon, <1>1, <1>12, <2>1, KeptStays
<1>14. Framed' /\ WriterOwns'
  <2>1. CASE old = <<>> \/ old[Len(old)].sidecar.present
    <3>1. /\ seg' = Append(old, new) /\ IsSegment(new) /\ new.header = "whole" /\ ~new.torn
          /\ ~new.sidecar.present
      BY Zenon, <1>10, <1>11, <2>1, NewSegment
    <3>2. /\ Len(old) \in Nat /\ Len(seg') = Len(old) + 1 /\ DOMAIN seg' = 1..Len(seg')
          /\ seg'[Len(seg')] = new /\ DOMAIN old = 1..Len(old)
          /\ \A j \in DOMAIN old : seg'[j] = old[j]
      BY Zenon, <1>8, <1>9, <3>1, Extended
    <3>3. \A i \in DOMAIN seg' : i # Len(seg') => i \in DOMAIN seg /\ seg'[i] = old[i]
      BY SMTT(30), <1>7, <3>2
    <3>4. \A i \in DOMAIN seg : old[i].header = "whole" /\ ~old[i].torn
      BY Zenon, <1>7 DEF Repaired
    <3>5. Framed'
      BY Zenon, <3>1, <3>2, <3>3, <3>4 DEF Framed
    <3>6. seg' # <<>>
      BY SMTT(30), <3>2, EmptySeq
    <3>7. WriterOwns'
      BY Zenon, <1>4, <3>1, <3>2, <3>6 DEF WriterOwns
    <3>8. QED
      BY Zenon, <3>5, <3>7
  <2>2. CASE ~(old = <<>> \/ old[Len(old)].sidecar.present)
    <3>1. seg' = old
      BY Zenon, <1>11, <2>2
    <3>2. Framed'
      BY Zenon, <1>7, <1>8, <3>1 DEF Framed, Repaired
    <3>3. Len(old) \in DOMAIN seg
      BY SMTT(30), <1>5, <1>8, <2>2, EmptySeq
    <3>4. WriterOwns'
      BY Zenon, <1>4, <1>7, <2>2, <3>1, <3>3 DEF WriterOwns, Repaired
    <3>5. QED
      BY Zenon, <3>2, <3>4
  <2>3. QED
    BY Zenon, <2>1, <2>2
<1>15. GroupKept'
  BY Zenon, <1>4 DEF GroupKept
<1>16. QED
  BY Zenon, <1>3, <1>4, <1>12, <1>13, <1>14, <1>15 DEF IInv, Typed, StoredKept

-----------------------------------------------------------------------------
(* The invariant and the theorem.                                          *)

LEMMA InitIInv ==
    ASSUME PackInit
    PROVE  IInv
<1>1. seg = <<>> /\ writer = NoWriter /\ proc = "down" /\ stored = {}
  BY Zenon DEF PackInit
<1>2. DOMAIN seg = {} /\ SegmentsTyped
  BY SMTT(30), <1>1, EmptySeq DEF SegmentsTyped
<1>3. writer.pc = "none" /\ WriterTyped
  BY Zenon, <1>1, EmptySeq DEF NoWriter, WriterTyped
<1>4. QED
  BY Zenon, <1>1, <1>2, <1>3 DEF IInv, Typed, Framed, WriterOwns, GroupKept, StoredKept

LEMMA NextIInv ==
    ASSUME PackStoreAssumption, IInv, [PackNext]_packVars
    PROVE  IInv'
<1>1. CASE Open
  BY Zenon, <1>1, OpenStep
<1>2. ASSUME NEW G \in SUBSET Key \ {{}}, Submit(G) PROVE IInv'
  BY Zenon, <1>2, SubmitStep
<1>3. CASE AppendRecords
  BY Zenon, <1>3, AppendStep
<1>4. CASE SyncSegment
  BY Zenon, <1>4, SyncStep
<1>5. CASE PublishGroup
  <2>1. /\ writer.pc = "publish" /\ UNCHANGED <<seg, rotten, stored, proc>>
        /\ writer' = [writer EXCEPT !.pc = IF Len(seg[active].recs) >= SegmentTarget
                                           THEN "seal" ELSE "reply"]
    BY <1>5, Zenon DEF PublishGroup, disk, ghost
  <2>2. PICK pc \in {"seal", "reply"} : writer' = [writer EXCEPT !.pc = pc]
    BY Zenon, <2>1
  <2>3. writer'.pc = pc /\ writer'.group = writer.group /\ WriterTyped'
    BY Zenon, <2>2 DEF IInv, Typed, WriterTyped
  <2>4. QED
    BY Zenon, <2>1, <2>2, <2>3, QuietStep
<1>6. CASE CollectSidecar
  <2>1. PICK sealed : /\ writer.pc = "seal" /\ UNCHANGED <<seg, rotten, stored, proc>>
                      /\ writer' = [writer EXCEPT !.pc = "sidecar", !.sealed = sealed]
    BY <1>6, Zenon DEF CollectSidecar, disk, ghost
  <2>2. writer'.pc = "sidecar" /\ writer'.group = writer.group /\ WriterTyped'
    BY <2>1, Zenon DEF IInv, Typed, WriterTyped
  <2>3. QED
    BY Zenon, <2>1, <2>2, QuietStep
<1>7. CASE WriteSidecar
  BY Zenon, <1>7, SidecarStep
<1>8. CASE CreateSegment
  BY Zenon, <1>8, CreateStep
<1>9. CASE SyncHeader
  BY Zenon, <1>9, HeaderStep
<1>10. CASE Reply
  BY Zenon, <1>10, ReplyStep
<1>11. CASE WriterFails
  BY Zenon, <1>11, FailsStep
<1>12. ASSUME UNCHANGED <<seg, rotten, stored, proc, writer>> PROVE IInv'
  <2>1. WriterTyped'
    BY Zenon, <1>12 DEF IInv, Typed, WriterTyped
  <2>2. QED
    BY Zenon, <1>12, <2>1, QuietStep
<1>13. ASSUME NEW r \in Reader, (\E k \in Key : StartRead(r, k)) \/ FinishRead(r) PROVE IInv'
  BY Zenon, <1>12, <1>13 DEF StartRead, FinishRead, disk, ghost
<1>14. ASSUME NEW r \in Reader, UnlinkSidecar(r) PROVE IInv'
  BY Zenon, <1>14, UnlinkStep
<1>15. ASSUME NEW k \in Key, RemoveLoose(k) PROVE IInv'
  BY Zenon, <1>12, <1>15 DEF RemoveLoose, ghost
<1>16. ASSUME NEW i \in DOMAIN seg, NEW p \in DOMAIN seg[i].recs, Rot(i, p) PROVE IInv'
  BY Zenon, <1>16, RotStep
<1>17. CASE Crash
  BY Zenon, <1>17, CrashStep
<1>18. CASE PowerLoss
  BY Zenon, <1>18, PowerStep
<1>19. CASE UNCHANGED packVars
  BY Zenon, <1>12, <1>19 DEF packVars, disk, ghost
<1>20. QED
  BY Zenon, <1>1, <1>2, <1>3, <1>4, <1>5, <1>6, <1>7, <1>8, <1>9, <1>10, <1>11, <1>13, <1>14, <1>15,
     <1>16, <1>17, <1>18, <1>19, Zenon DEF PackNext

\* A record that is kept is readable or has decayed.
LEMMA IInvSurvives ==
    ASSUME IInv
    PROVE  StoreSurvives
<1>1. ASSUME NEW k \in stored PROVE Durable(k) \/ Decayed(k)
  <2>1. PICK i \in DOMAIN seg : \E p \in 1..seg[i].synced : Holds(k, i, p)
    BY Zenon DEF IInv, StoredKept, Kept
  <2>2. PICK p \in 1..seg[i].synced : Holds(k, i, p)
    BY Zenon, <2>1
  <2>3. CASE seg[i].recs[p].ok
    BY Zenon, <2>2, <2>3 DEF Holds, Durable
  <2>4. CASE <<i, p>> \in rotten
    BY Zenon, <2>2, <2>4 DEF Holds, Decayed, RecordAt
  <2>5. QED
    BY Zenon, <2>2, <2>3, <2>4 DEF Holds
<1>2. proc # "refused"
  BY Zenon DEF IInv
<1>3. QED
  BY Zenon, <1>1, <1>2 DEF StoreSurvives, StoredIsDurable, AlwaysOpens

\* An object answered Stored is readable after any crash or power loss until
\* its record decays, and no start refuses the segments (commit_objects,
\* append_group, seal_active, PackStore::open), for any objects and bounds.
THEOREM StoreAlwaysSurvives == PackStoreAssumption => (PackSpec => []StoreSurvives)
<1> SUFFICES ASSUME PackStoreAssumption PROVE PackSpec => []StoreSurvives
  BY Zenon
<1>1. PackInit => IInv
  BY Zenon, InitIInv
<1>2. IInv /\ [PackNext]_packVars => IInv'
  BY Zenon, NextIInv
<1>3. IInv => StoreSurvives
  BY Zenon, IInvSurvives
<1>4. QED
  BY <1>1, <1>2, <1>3, PTL DEF PackSpec

-----------------------------------------------------------------------------
(* The devices (DeviceRegistry), for every set of devices, claimers and    *)
(* sessions and any number of restarts and failed file operations: a       *)
(* confirmed revocation stays in force unless an exit cuts the purge of    *)
(* the device short, and an enrollment code hands out its credentials      *)
(* once.  The parts of the inductive invariant.                            *)

\* No claim for d is running and none can start: its code is spent or too old.
Closed(d) == code[d] \in {"late", "gone"} /\ claim.dev # d

\* The operation under the registry lock: a revocation works on a device of the
\* registry, a registration that goes on to write on one that is not there.
OpOwns ==
    /\ op.kind # "none" => up /\ op.dev \in Device
    /\ op.kind = "register" => op.dev = claim.dev
    /\ op.kind = "register" /\ op.step \in {"json", "maps"} => op.dev \notin known
    /\ op.kind = "register" /\ op.step = "maps" => json[op.dev] = "whole"
    /\ op.kind = "revoke" => op.dev \in known
    /\ op.kind = "revoke" /\ op.step \in {"flag", "cancel"} => op.dev \in marker
    /\ op.kind = "revoke" /\ op.step = "cancel" => op.dev \in revoked
    /\ op.kind = "purge" => purging[op.dev] = "begun"

\* A claim works on the code of its device; once past the removal, the code is gone.
ClaimOwns ==
    /\ claim.at # "none" =>
          up /\ claim.dev \in Device /\ claim.who \in Claimer /\ code[claim.dev] # "none"
    /\ claim.at = "sync" => code[claim.dev] = "gone"

\* Only an enrolled device has files and is known; one that could not be loaded again
\* can no longer be enrolled either.
FilesFollowCodes ==
    /\ \A d \in Device : json[d] # "absent" => code[d] # "none"
    /\ \A d \in known : code[d] # "none" /\ (Loadable(d) \/ Closed(d))

\* A confirmed revocation has its marker, in memory and on disk, and neither a restart
\* nor a registration makes a device of it that is not revoked.  From the begin of a
\* purge its files come and go, but memory keeps the flag as long as the server runs.
RevokedStays ==
    \A d \in Device :
        /\ purging[d] = "begun" => up /\ d \in revoked /\ Closed(d)
        /\ told[d] = "confirmed" /\ purging[d] = "no" =>
              /\ d \in marker
              /\ d \in known => d \in revoked
              /\ (Loadable(d) /\ (up => d \in known)) \/ Closed(d)

\* Credentials handed out leave a code that is gone, and no claim for it.
SpentCodes ==
    \A c \in Claimer : got[c] # NoDevice => code[got[c]] = "gone" /\ claim.dev # got[c]

RegistryInv ==
    /\ RegistryTypeOK /\ OpOwns /\ ClaimOwns /\ FilesFollowCodes /\ RevokedStays
    /\ SpentCodes /\ OneClaimer

-----------------------------------------------------------------------------
LEMMA InitRegistryInv == DeviceRegistryAssumption /\ RegistryInit => RegistryInv
<1> SUFFICES ASSUME DeviceRegistryAssumption, RegistryInit PROVE RegistryInv
  BY Zenon
<1> USE DEF DeviceRegistryAssumption, NoOp, NoClaim, NoSession
<1>1. RegistryTypeOK
  BY Zenon DEF RegistryInit, RegistryTypeOK
<1>2. OpOwns /\ ClaimOwns
  BY Zenon DEF RegistryInit, OpOwns, ClaimOwns
<1>3. FilesFollowCodes
  BY Zenon DEF RegistryInit, FilesFollowCodes
<1>4. RevokedStays
  BY Zenon DEF RegistryInit, RevokedStays, Closed, Loadable
<1>5. SpentCodes /\ OneClaimer
  BY Zenon DEF RegistryInit, SpentCodes, OneClaimer
<1>6. QED
  BY Zenon, <1>1, <1>2, <1>3, <1>4, <1>5 DEF RegistryInv

\* Every step keeps the types.
LEMMA RegistryTypeStep == RegistryInv /\ [RegistryNext]_registryVars => RegistryTypeOK'
<1> SUFFICES ASSUME RegistryTypeOK, OpOwns, ClaimOwns, [RegistryNext]_registryVars PROVE RegistryTypeOK'
  BY Zenon DEF RegistryInv
<1> USE DEF files, memory, bounds, At, Then
<1>1. CASE Start
  <2>1. up' = TRUE /\ up' \in BOOLEAN
    BY Zenon, <1>1 DEF Start
  <2>2. json' \in [Device -> {"absent", "empty", "whole"}]
    BY Zenon, <1>1 DEF Start, RegistryTypeOK
  <2>3. known' \subseteq Device /\ revoked' \subseteq known' /\ touched' \subseteq known'
    BY Zenon, <1>1 DEF Start, RegistryTypeOK
  <2>4. QED
    BY Zenon, <1>1, <2>1, <2>2, <2>3 DEF Start, RegistryTypeOK
<1>2. CASE ServerExits
  <2>1. code' \in [Device -> {"none", "open", "late", "gone"}]
    BY SMTT(30), <1>2 DEF ServerExits, RegistryTypeOK
  <2>2. ticket' \in [Device -> {"none", "there", "taken"}]
    BY SMTT(30), <1>2 DEF ServerExits, RegistryTypeOK
  <2>3. session' \in [Session -> [state : {"none", "claimed", "checked", "open", "closed", "refused"},
                                  dev : Device \cup {NoDevice}]]
    BY SMTT(30), <1>2 DEF ServerExits, RegistryTypeOK
  <2>4. QED
    BY <1>2, <2>1, <2>2, <2>3, Zenon DEF ServerExits, RegistryTypeOK, NoOp, NoClaim
<1>3. ASSUME NEW d \in Device, CreateEnrollment(d) PROVE RegistryTypeOK'
  BY Zenon, <1>3 DEF CreateEnrollment, RegistryTypeOK
<1>4. ASSUME NEW d \in Device, Expire(d) PROVE RegistryTypeOK'
  BY SMTT(30), <1>4 DEF Expire, RegistryTypeOK
<1>5. ASSUME NEW d \in Device, StartRevoke(d) PROVE RegistryTypeOK'
  BY Zenon, <1>5 DEF StartRevoke, Begin, RegistryTypeOK, NoOp
<1>6. ASSUME NEW d \in Device, Flush(d) PROVE RegistryTypeOK'
  BY SMTT(30), <1>6 DEF Flush, RegistryTypeOK
<1>6a. ASSUME NEW d \in Device, ReportCapabilities(d) PROVE RegistryTypeOK'
  BY SMTT(30), <1>6a DEF ReportCapabilities, RegistryTypeOK
<1>7. ASSUME NEW d \in Device, StartPurge(d) PROVE RegistryTypeOK'
  BY Zenon, <1>7 DEF StartPurge, Begin, RegistryTypeOK, NoOp
<1>8. ASSUME NEW d \in Device, Authenticate(d) PROVE RegistryTypeOK'
  BY Zenon, <1>8 DEF Authenticate, Authenticates, RegistryTypeOK
<1>9. ASSUME NEW d \in Device, Mint(d) PROVE RegistryTypeOK'
  BY Zenon, <1>9 DEF Mint, RegistryTypeOK
<1>10. ASSUME NEW d \in Device, NEW c \in Claimer, StartClaim(c, d) PROVE RegistryTypeOK'
  BY SMTT(30), <1>10 DEF StartClaim, RegistryTypeOK, NoClaim
<1>11. ASSUME NEW d \in Device, NEW s \in Session, ClaimTicket(s, d) PROVE RegistryTypeOK'
  BY Zenon, <1>11 DEF ClaimTicket, RegistryTypeOK
<1>12. CASE StartRegister
  BY Zenon, <1>12 DEF StartRegister, Begin, RegistryTypeOK, NoOp
<1>13. CASE RegisterToken
  BY SMTT(30), <1>13 DEF RegisterToken, Registered, NotRegistered, RegistryTypeOK, OpOwns, NoOp, NoClaim
<1>14. CASE RegisterJson
  BY Zenon, <1>14 DEF RegisterJson, RegistryTypeOK, OpOwns, NoOp
<1>15. CASE RegisterMaps
  BY Zenon, <1>15 DEF RegisterMaps, Registered, RegistryTypeOK, OpOwns, NoOp, NoClaim
<1>16. CASE RegisterFails
  BY SMTT(30), <1>16 DEF RegisterFails, NotRegistered, RegistryTypeOK, OpOwns, NoOp, NoClaim
<1>17. CASE RemoveCode
  BY Zenon, <1>17 DEF RemoveCode, RegistryTypeOK, ClaimOwns, NoClaim
<1>18. CASE FinishClaim
  BY Zenon, <1>18 DEF FinishClaim, RegistryTypeOK, ClaimOwns, NoClaim
<1>19. CASE ClaimFails
  BY Zenon, <1>19 DEF ClaimFails, RegistryTypeOK, NoClaim
<1>20. CASE RevokeMarker
  BY SMTT(30), <1>20 DEF RevokeMarker, RegistryTypeOK, OpOwns, NoOp
<1>21. CASE RevokeFlag
  BY SMTT(30), <1>21 DEF RevokeFlag, RegistryTypeOK, OpOwns, NoOp
<1>22. CASE RevokeCancel
  BY Zenon, <1>22 DEF RevokeCancel, RegistryTypeOK, OpOwns, NoOp
<1>23. CASE PurgeToken
  BY SMTT(30), <1>23 DEF PurgeToken, RegistryTypeOK, NoOp
<1>24. CASE PurgeFile
  BY Zenon, <1>24 DEF PurgeFile, RegistryTypeOK
<1>25. CASE PurgeMaps
  BY SMTT(30), <1>25 DEF PurgeMaps, RegistryTypeOK, OpOwns, NoOp
<1>26. CASE PurgeFails
  BY Zenon, <1>26 DEF PurgeFails, RegistryTypeOK, NoOp
<1>27. ASSUME NEW s \in Session, CheckSession(s) \/ OpenSession(s) \/ CloseSession(s)
       PROVE RegistryTypeOK'
  BY SMTT(30), <1>27 DEF CheckSession, OpenSession, CloseSession, RegistryTypeOK
<1>28. CASE UNCHANGED registryVars
  BY SMTT(30), <1>28 DEF registryVars, RegistryTypeOK
<1>29. QED
  BY Zenon, <1>1, <1>2, <1>3, <1>4, <1>5, <1>6, <1>7, <1>8, <1>9, <1>10, <1>11, <1>12, <1>13, <1>14,
     <1>15, <1>16, <1>17, <1>18, <1>19, <1>20, <1>21, <1>22, <1>23, <1>24, <1>25, <1>26, <1>27,
     <1>28, <1>6a DEF RegistryNext

\* Every step keeps the invariant.
LEMMA RegistryInvStep == DeviceRegistryAssumption /\ RegistryInv /\ [RegistryNext]_registryVars => RegistryInv'
<1> SUFFICES ASSUME DeviceRegistryAssumption, RegistryInv, [RegistryNext]_registryVars PROVE RegistryInv'
  BY Zenon
<1> USE DEF DeviceRegistryAssumption, files, memory, bounds, At, Then, NoOp, NoClaim
<1> DEFINE Goal == OpOwns /\ ClaimOwns /\ FilesFollowCodes /\ RevokedStays /\ SpentCodes /\ OneClaimer
<1>0. RegistryTypeOK /\ Goal /\ RegistryTypeOK'
  BY Zenon, RegistryTypeStep DEF RegistryInv
<1> SUFFICES Goal'
  BY Zenon, <1>0 DEF RegistryInv
<1> USE <1>0 DEF RegistryTypeOK, OpOwns, ClaimOwns, FilesFollowCodes, RevokedStays, Closed, Loadable,
                 SpentCodes, OneClaimer
<1>1. CASE Start
  BY SMTT(30), <1>1 DEF Start
<1>2. CASE ServerExits
  BY SMTT(30), <1>2 DEF ServerExits
<1>3. ASSUME NEW d \in Device, CreateEnrollment(d) PROVE Goal'
  BY SMTT(30), <1>3 DEF CreateEnrollment
<1>4. ASSUME NEW d \in Device, Expire(d) PROVE Goal'
  BY SMTT(30), <1>4 DEF Expire
<1>5. ASSUME NEW d \in Device, StartRevoke(d) PROVE Goal'
  BY SMTT(30), <1>5 DEF StartRevoke, Begin
<1>6. ASSUME NEW d \in Device, Flush(d) PROVE Goal'
  BY SMTT(30), <1>6 DEF Flush
<1>6a. ASSUME NEW d \in Device, ReportCapabilities(d) PROVE Goal'
  BY SMTT(30), <1>6a DEF ReportCapabilities, Authenticates
<1>7. ASSUME NEW d \in Device, StartPurge(d) PROVE Goal'
  BY SMTT(30), <1>7 DEF StartPurge, Begin
<1>8. ASSUME NEW d \in Device, NEW c \in Claimer, StartClaim(c, d) PROVE Goal'
  BY SMTT(30), <1>8 DEF StartClaim
<1>9. CASE StartRegister
  BY SMTT(30), <1>9 DEF StartRegister, Begin
<1>10. CASE RegisterToken
  BY SMTT(30), <1>10 DEF RegisterToken, Registered, NotRegistered
<1>11. CASE RegisterJson
  BY SMTT(30), <1>11 DEF RegisterJson
<1>12. CASE RegisterMaps
  BY SMTT(30), <1>12 DEF RegisterMaps, Registered
<1>13. CASE RegisterFails
  BY SMTT(30), <1>13 DEF RegisterFails, NotRegistered
<1>14. CASE RemoveCode
  BY SMTT(30), <1>14 DEF RemoveCode
<1>15. CASE FinishClaim
  BY SMTT(30), <1>15 DEF FinishClaim
<1>16. CASE ClaimFails
  BY SMTT(30), <1>16 DEF ClaimFails
<1>17. CASE RevokeMarker
  BY SMTT(30), <1>17 DEF RevokeMarker
<1>18. CASE RevokeFlag
  BY SMTT(30), <1>18 DEF RevokeFlag
<1>19. CASE RevokeCancel
  BY SMTT(30), <1>19 DEF RevokeCancel
<1>20. CASE PurgeToken
  BY SMTT(30), <1>20 DEF PurgeToken
<1>21. CASE PurgeFile
  BY SMTT(30), <1>21 DEF PurgeFile
<1>22. CASE PurgeMaps
  BY SMTT(30), <1>22 DEF PurgeMaps
<1>23. CASE PurgeFails
  BY SMTT(30), <1>23 DEF PurgeFails
<1>24. ASSUME NEW d \in Device, Authenticate(d) \/ Mint(d) PROVE Goal'
  BY SMTT(30), <1>24 DEF Authenticate, Mint
<1>25. ASSUME NEW s \in Session,
              \/ \E d \in Device : ClaimTicket(s, d)
              \/ CheckSession(s) \/ OpenSession(s) \/ CloseSession(s)
       PROVE Goal'
  BY SMTT(30), <1>25 DEF ClaimTicket, CheckSession, OpenSession, CloseSession
<1>26. CASE UNCHANGED registryVars
  BY SMTT(30), <1>26 DEF registryVars
<1>27. QED
  BY Zenon, <1>1, <1>2, <1>3, <1>4, <1>5, <1>6, <1>7, <1>8, <1>9, <1>10, <1>11, <1>12, <1>13, <1>14,
     <1>15, <1>16, <1>17, <1>18, <1>19, <1>20, <1>21, <1>22, <1>23, <1>24, <1>25, <1>26, <1>6a, Zenon DEF RegistryNext

LEMMA RegistryInvariance == DeviceRegistryAssumption => (RegistrySpec => []RegistryInv)
<1> SUFFICES ASSUME DeviceRegistryAssumption PROVE RegistrySpec => []RegistryInv
  BY Zenon
<1>1. RegistryInit => RegistryInv
  BY Zenon, InitRegistryInv
<1>2. RegistryInv /\ [RegistryNext]_registryVars => RegistryInv'
  BY Zenon, RegistryInvStep
<1>3. QED
  BY <1>1, <1>2, PTL DEF RegistrySpec

\* A device whose revocation was confirmed does not authenticate until it is purged,
\* whatever restarts, recovered metadata, repeated enrollments and failed purges lie
\* between, except after an exit of the server inside a purge of the device; and two
\* claimers never both receive the credentials of one enrollment code.
THEOREM CredentialsAlwaysHold == DeviceRegistryAssumption => (RegistrySpec => []CredentialsHold)
<1> SUFFICES ASSUME DeviceRegistryAssumption PROVE RegistrySpec => []CredentialsHold
  BY Zenon
<1>1. RegistryInv => CredentialsHold
  BY Zenon DEF RegistryInv, RegistryTypeOK, RevokedStays, CredentialsHold, RevocationHolds, Authenticates
<1>2. QED
  BY RegistryInvariance, <1>1, PTL
=============================================================================
