------------------------- MODULE LocalChangesProofs -------------------------
(***************************************************************************)
(* Proofs about LocalChanges, for any number of edits, notices, failed     *)
(* pushes and process exits:                                               *)
(*                                                                         *)
(*   EditsAreRemembered  bytes only this device has are noticed, queued,   *)
(*                       being pushed or journaled until the server has    *)
(*                       them, after a restart if they were journaled;     *)
(*   PullsKeepEdits      a pull overwrites no bytes the plugin had heard   *)
(*                       of when the pull last asked for local work,       *)
(*                       unless the server or a conflict copy has them.    *)
(*                                                                         *)
(* Both rest on EditInv.  A told edit is queued, in a push, or pending in  *)
(* the journal that the next start replays (ToldIsQueued, JournalHolds).   *)
(* A callback taken for an echo, and an intent that retires hints, concern *)
(* older bytes than the ones on disk (Hashing, RetiresOlder).  A pull that *)
(* passed its checks found no edit it knew of (OverwritesKnown).           *)
(***************************************************************************)
EXTENDS LocalChanges, TLAPS

-----------------------------------------------------------------------------
(* The inductive invariant.                                                *)

Hints == [jid : Nat, own : Nat, entry : Nat]
Callbacks ==
    [n : Nat, stage : {"append", "hash", "queue", "ack"}, jid : Nat, hash : Nat,
     echo : BOOLEAN, seen : Nat]
Journals == [pending : Nat, next : Nat, writable : BOOLEAN]
Intents == [version : Nat, through : Nat, accepted : BOOLEAN]
WorkStates ==
    [kind : {"none", "push", "pull", "scan", "recover"},
     stage : {"none", "read", "prepare", "dispatch", "settle", "resolve", "skip", "overwrite",
              "preserve", "aside", "clear", "write", "stat", "drain", "queue"},
     hint : Hints, version : Nat, epoch : BOOLEAN, knew : SUBSET Nat]

Types ==
    /\ {disk, versions, notices, latest, expected, head, crashes} \subseteq Nat
    /\ published \cup journaled \cup heard \subseteq Nat
    /\ handlers \subseteq Callbacks
    /\ dirty \in Hints /\ work \in WorkStates
    /\ journal \in Journals
    /\ base \in [hash : Nat, stat : Nat] /\ saved \in [hash : Nat, stat : Nat]
    /\ intent \in Intents
    /\ phase \in {"replay", "live"} /\ repair \in BOOLEAN

\* Versions and journal ids in use are older than the next ones.
Bounds ==
    /\ disk <= versions /\ disk # 0
    /\ \A v \in published \cup journaled \cup heard : v <= versions /\ v # 0
    /\ work.version <= versions /\ intent.version <= versions
    /\ journal.pending < journal.next /\ dirty.jid < journal.next
    /\ work.hint.jid < journal.next /\ intent.through < journal.next
    /\ \A h \in handlers : h.n <= latest /\ h.jid < journal.next /\ h.seen \in heard

\* What is expected, pulled or recorded in the base is published.
Known ==
    /\ expected # 0 => expected \in published
    /\ base.hash \in published /\ saved.hash \in published /\ head \in published
    /\ work.kind = "pull" => work.version \in published
    /\ intent.accepted => intent.version \in published

\* One operation at a time; an intent that is not settled is recovered before the next
\* one, and no callback of the claimed events is left when it is made.
Engine ==
    /\ phase = "replay" => crashes # 0 /\ work = Idle
    /\ work.kind = "push" => /\ work.hint # NoHint /\ phase = "live"
                             /\ work.stage \in {"read", "prepare", "dispatch", "settle"}
                             /\ work.stage # "read" => work.version # 0
    /\ work.kind = "push" /\ work.stage \in {"dispatch", "settle"} =>
          intent.version = work.version /\ intent.through = work.hint.jid
    /\ work.kind = "push" /\ work.stage = "settle" => intent.accepted
    /\ work.kind = "recover" => repair
    /\ work.kind = "push" => ~repair
    /\ work.kind = "scan" => work.version # 0
    /\ work.kind = "recover" /\ work.hint # NoHint =>
          /\ intent # NoIntent /\ work.hint.own # 0
          /\ work.hint.own <= intent.through /\ work.hint.jid <= intent.through
    /\ intent # NoIntent =>
          /\ intent.version # 0
          /\ repair \/ (work.kind = "push" /\ work.stage \in {"dispatch", "settle"})
          /\ \A h \in handlers : h.jid = 0 \/ h.jid > intent.through

\* A callback hashes bytes it was told of, or newer ones: while they are on disk and
\* only there, its hash is theirs; and the newest callback has the hash of what is on
\* disk unless that was replaced since without an event.
Hashing ==
    \A h \in handlers :
        /\ h.stage \in {"append", "hash"} => h.hash = 0
        /\ h.seen = disk /\ disk \notin published /\ h.hash # 0 => h.hash = disk
        /\ IsCurrent(h) /\ h.hash \notin {0, disk} => disk \in published \/ disk \notin heard

\* A callback that was, or may be, taken for the echo of older bytes.
Echoes(h) == h.stage = "ack" \/ (IsCurrent(h) /\ h.hash \notin {0, disk})

Queued == dirty # NoHint \/ \E h \in handlers : ~Echoes(h)

\* The plugin was told of the bytes on disk and nobody else has them.
Told == disk \notin published /\ (disk \in journaled \/ (disk \in heard /\ crashes = 0))

ToldIsQueued ==
    Told => \/ Queued
            \/ work.kind = "push" /\ work.version \in {0, disk}
            \/ phase = "replay" /\ journal.pending # 0

UntoldIsNoticed == disk \notin published \cup heard /\ crashes = 0 => notices > 0

\* A journaled edit that is not published stays pending, above every cut that may
\* still be acknowledged for older bytes.
JournalHolds ==
    disk \in journaled \ published =>
        /\ journal.pending # 0
        /\ intent # NoIntent /\ intent.version # disk => journal.pending > intent.through
        /\ \A h \in handlers : Echoes(h) => journal.pending > h.jid

Seen == \E h \in handlers : h.seen = disk
Watched == \E h \in handlers : IsCurrent(h) /\ h.seen = disk /\ h.stage # "ack"

\* A hint the pending intent may retire, now or once a failed push or the replay has put
\* it back, is not what stands for newer bytes: their callback is still to leave one.
RetiresOlder ==
    intent # NoIntent /\ intent.version # disk /\ disk \notin published =>
        /\ Seen /\ (dirty = NoHint \/ Retirable(intent.through)) => Watched
        /\ Told /\ (Retirable(intent.through) \/ (dirty = NoHint /\ work.kind = "push")) => Watched

\* Bytes a pull has decided to overwrite are published or unheard of, or a callback or
\* a hint stops it; after its last question they are published or were unheard of then.
OverwritesKnown ==
    /\ work.knew \subseteq heard
    /\ work.kind = "pull" /\ work.stage = "overwrite" =>
          disk \in published \/ disk \notin heard \/ Queued
    /\ work.kind = "pull" /\ work.stage \in {"clear", "write"} =>
          disk \in published \/ disk \notin work.knew

EditInv ==
    /\ Types /\ Bounds /\ Known /\ Engine /\ Hashing /\ ToldIsQueued /\ UntoldIsNoticed
    /\ JournalHolds /\ RetiresOlder /\ OverwritesKnown

-----------------------------------------------------------------------------
(* Hints.                                                                  *)

\* A new entry is none of the entries in use.
LEMMA FreshEntryIsNew ==
    ASSUME dirty \in Hints, work \in WorkStates
    PROVE  /\ FreshEntry \in Nat /\ FreshEntry # 0
           /\ FreshEntry # dirty.entry /\ FreshEntry # work.hint.entry
<1>1. \A x, y : \E n \in 1 .. 3 : n \notin {x, y}
  <2>1. \A x, y : 1 \notin {x, y} \/ 2 \notin {x, y} \/ 3 \notin {x, y}
    BY SMTT(30)
  <2> QED BY SMTT(30), <2>1
<1>2. FreshEntry \in 1 .. 3 /\ FreshEntry \notin {dirty.entry, work.hint.entry}
  BY Zenon, <1>1 DEF FreshEntry
<1> QED BY SMTT(30), <1>2

\* A hint that was added or restored is a hint, with the larger watermark.
LEMMA AddedIsHint ==
    ASSUME dirty \in Hints, work \in WorkStates, NEW jid \in Nat
    PROVE  /\ Added(jid) \in Hints /\ Added(jid) # NoHint /\ Added(jid).own = jid
           /\ Added(jid).jid \in {dirty.jid, jid} /\ Added(jid).jid >= jid
           /\ Added(jid).entry # work.hint.entry
BY SMTT(30), FreshEntryIsNew DEF Added, Larger, Hints, NoHint

LEMMA RestoredIsHint ==
    ASSUME dirty \in Hints, work \in WorkStates, NEW hint \in Hints, hint # NoHint
    PROVE  /\ Restored(hint) \in Hints /\ Restored(hint) # NoHint
           /\ \/ dirty = NoHint /\ Restored(hint) = hint
              \/ dirty # NoHint /\ Restored(hint) = dirty
              \/ /\ dirty # NoHint /\ hint.jid > dirty.jid
                 /\ Restored(hint).jid = hint.jid /\ Restored(hint).own = dirty.own
<1>1. CASE dirty = NoHint
  BY Zenon, <1>1 DEF Restored
<1>2. CASE dirty # NoHint /\ hint.jid <= dirty.jid
  BY Zenon, <1>2 DEF Restored
<1>3. CASE dirty # NoHint /\ ~(hint.jid <= dirty.jid)
  <2>1. Restored(hint) = [dirty EXCEPT !.jid = hint.jid, !.entry = FreshEntry]
    BY Zenon, <1>3 DEF Restored
  <2>2. hint.jid \in Nat /\ dirty.jid \in Nat /\ FreshEntry \in Nat /\ FreshEntry # 0
    BY Zenon, FreshEntryIsNew DEF Hints
  <2>3. /\ Restored(hint) \in Hints /\ Restored(hint).jid = hint.jid
        /\ Restored(hint).own = dirty.own /\ Restored(hint).entry = FreshEntry
    BY Zenon, <2>1, <2>2 DEF Hints
  <2> QED BY SMTT(30), <1>3, <2>2, <2>3 DEF NoHint
<1> QED BY Zenon, <1>1, <1>2, <1>3

\* The journal takes one more row, or acknowledges some.
LEMMA JournalAppends ==
    ASSUME NEW j \in Journals, NEW k, k = [j EXCEPT !.pending = j.next, !.next = @ + 1]
    PROVE  k \in Journals /\ k.pending = j.next /\ k.next = j.next + 1
<1>1. k = [pending |-> j.next, next |-> j.next + 1, writable |-> j.writable]
  BY Zenon DEF Journals
<1> QED BY SMTT(30), <1>1 DEF Journals

LEMMA JournalAcks ==
    ASSUME journal \in Journals, NEW through \in Nat
    PROVE  /\ AckJournal(through) \in Journals /\ AckJournal(through).next = journal.next
           /\ \/ AckJournal(through).pending = journal.pending /\ journal.pending > through
              \/ AckJournal(through).pending = 0 /\ journal.pending <= through
BY SMTT(30) DEF Journals, AckJournal

LEMMA JournalOpens ==
    ASSUME NEW j \in Journals, NEW b \in BOOLEAN, NEW k, k = [j EXCEPT !.writable = b]
    PROVE  k \in Journals /\ k.pending = j.pending /\ k.next = j.next
BY Zenon DEF Journals

\* The server's acceptance changes nothing else of an intent.
LEMMA IntentAccepts ==
    ASSUME NEW i \in Intents, NEW b \in BOOLEAN, NEW k, k = [i EXCEPT !.accepted = b]
    PROVE  k \in Intents /\ k.version = i.version /\ k.through = i.through /\ k.accepted = b
BY Zenon DEF Intents

LEMMA UserEditStep ==
    ASSUME EditInv, UserEdit
    PROVE  EditInv'
<1> USE DEF EditInv, UserEdit, engine, capture, environment, history, Advance, Idle, NoHint, NoIntent
<1>1. Types'
  BY SMTT(30) DEF Types
<1>2. Bounds'
  BY SMTT(30) DEF Types, Journals, Intents, Bounds, Callbacks, WorkStates, Hints
<1>3. Known'
  BY Zenon DEF Known
<1>4. Engine'
  BY Zenon DEF Engine
<1>5. Hashing'
  BY SMTT(30) DEF Bounds, Types, Hashing, IsCurrent
<1>6. ToldIsQueued'
  BY SMTT(30) DEF Bounds, Types, ToldIsQueued, Told, Queued, Echoes, IsCurrent, JournalHolds, Engine
<1>7. UntoldIsNoticed'
  BY SMTT(30) DEF Types, UntoldIsNoticed
<1>8. JournalHolds'
  BY SMTT(30) DEF Bounds, Types, JournalHolds, IsCurrent, Echoes
<1>9. RetiresOlder'
  BY SMTT(30) DEF Bounds, Types, RetiresOlder, Retirable, Told, Seen, Watched, IsCurrent, Engine
<1>10. OverwritesKnown'
  BY SMTT(30) DEF Bounds, Types, OverwritesKnown, Queued, Echoes, IsCurrent
<1> QED BY Zenon, <1>1, <1>2, <1>3, <1>4, <1>5, <1>6, <1>7, <1>8, <1>9, <1>10

LEMMA RemoteEditStep ==
    ASSUME EditInv, RemoteEdit
    PROVE  EditInv'
<1> USE DEF EditInv, RemoteEdit, engine, capture, environment, history, Advance, Idle, NoHint, NoIntent
<1>1. Types'
  BY SMTT(30) DEF Types
<1>2. Bounds'
  BY SMTT(30) DEF Types, Journals, Intents, Bounds, Callbacks, WorkStates, Hints
<1>3. Known'
  BY Zenon DEF Known
<1>4. Engine'
  BY Zenon DEF Engine
<1>5. Hashing'
  BY Zenon DEF Hashing, IsCurrent
<1>6. ToldIsQueued'
  BY Zenon DEF ToldIsQueued, Told, Queued, Echoes, IsCurrent, JournalHolds, Engine
<1>7. UntoldIsNoticed'
  BY Zenon DEF UntoldIsNoticed
<1>8. JournalHolds'
  BY Zenon DEF JournalHolds, IsCurrent, Echoes
<1>9. RetiresOlder'
  BY Zenon DEF RetiresOlder, Retirable, Told, Seen, Watched, IsCurrent, Engine
<1>10. OverwritesKnown'
  BY Zenon DEF OverwritesKnown, Queued, Echoes, IsCurrent
<1> QED BY Zenon, <1>1, <1>2, <1>3, <1>4, <1>5, <1>6, <1>7, <1>8, <1>9, <1>10

LEMMA DeliverStep ==
    ASSUME EditInv, Deliver
    PROVE  EditInv'
<1> USE DEF EditInv
<1> DEFINE new == [n |-> latest', stage |-> "append", jid |-> 0, hash |-> 0,
                   echo |-> expected # 0, seen |-> disk]
<1>1. /\ UNCHANGED <<expected, dirty, journal, environment, engine, journaled, crashes>>
      /\ handlers' = handlers \cup {new} /\ heard' = heard \cup {disk}
      /\ notices' = notices - 1 /\ notices > 0
  BY Zenon DEF Deliver
<1>2. latest' \in Nat /\ \A h \in handlers : h.n < latest'
  <2>1. latest \in Nat /\ \A h \in handlers : h.n \in Nat /\ h.n <= latest
    BY Zenon DEF Types, Bounds, Callbacks
  <2>2. latest' = IF handlers = {} THEN 1 ELSE latest + 1
    BY Zenon DEF Deliver
  <2> QED BY SMTT(30), <2>1, <2>2
<1>3. /\ new \in Callbacks /\ new.n = latest' /\ new.stage = "append"
      /\ new.jid = 0 /\ new.hash = 0 /\ new.seen = disk
  BY Zenon, <1>2 DEF Types, Callbacks
<1> HIDE DEF new
<1> USE DEF engine, environment
<1> USE <1>1, <1>2, <1>3
<1>11. Types'
  BY SMTT(30) DEF Types
<1>12. Bounds'
  BY SMTT(30) DEF Types, Journals, Intents, Bounds, Callbacks, WorkStates, Hints
<1>13. Known'
  BY Zenon DEF Known
<1>14. Engine'
  BY Zenon DEF Engine
<1>15. Hashing'
  BY SMTT(30) DEF Hashing, IsCurrent
<1>16. ToldIsQueued'
  BY Zenon DEF ToldIsQueued, Told, Queued, Echoes, IsCurrent, JournalHolds, Engine
<1>17. UntoldIsNoticed'
  BY Zenon DEF UntoldIsNoticed
<1>18. JournalHolds'
  BY SMTT(30) DEF JournalHolds, IsCurrent, Echoes
<1>19. RetiresOlder'
  BY Zenon DEF RetiresOlder, Retirable, Told, Seen, Watched, IsCurrent, Engine
<1>20. OverwritesKnown'
  BY Zenon DEF OverwritesKnown, Queued, Echoes, IsCurrent
<1> QED BY Zenon, <1>11, <1>12, <1>13, <1>14, <1>15, <1>16, <1>17, <1>18, <1>19, <1>20

LEMMA ExpireEchoStep ==
    ASSUME EditInv, ExpireEcho
    PROVE  EditInv'
<1> USE DEF EditInv, ExpireEcho, engine, capture, environment, history, Advance, Idle, NoHint, NoIntent
<1>1. Types'
  BY SMTT(30) DEF Types
<1>2. Bounds'
  BY Zenon DEF Bounds
<1>3. Known'
  BY Zenon DEF Known
<1>4. Engine'
  BY Zenon DEF Engine
<1>5. Hashing'
  BY Zenon DEF Hashing, IsCurrent
<1>6. ToldIsQueued'
  BY Zenon DEF ToldIsQueued, Told, Queued, Echoes, IsCurrent, JournalHolds, Engine
<1>7. UntoldIsNoticed'
  BY Zenon DEF UntoldIsNoticed
<1>8. JournalHolds'
  BY Zenon DEF JournalHolds, IsCurrent, Echoes
<1>9. RetiresOlder'
  BY Zenon DEF RetiresOlder, Retirable, Told, Seen, Watched, IsCurrent, Engine
<1>10. OverwritesKnown'
  BY Zenon DEF OverwritesKnown, Queued, Echoes, IsCurrent
<1> QED BY Zenon, <1>1, <1>2, <1>3, <1>4, <1>5, <1>6, <1>7, <1>8, <1>9, <1>10

LEMMA AppendNoticeStep ==
    ASSUME EditInv, NEW h \in handlers, AppendNotice(h)
    PROVE  EditInv'
<1> USE DEF EditInv
<1>1. /\ UNCHANGED <<notices, latest, expected, dirty, environment, engine, heard, crashes>>
      /\ h.stage = "append"
  BY Zenon DEF AppendNotice
<1>2. PICK g \in Callbacks :
        /\ handlers' = (handlers \ {h}) \cup {g}
        /\ g.n = h.n /\ g.hash = h.hash /\ g.seen = h.seen /\ g.stage \in {"hash", "queue"}
        /\ \/ /\ g.jid = journal.next /\ journaled' = journaled \cup {h.seen}
              /\ journal' = [journal EXCEPT !.pending = journal.next, !.next = @ + 1]
           \/ /\ g.jid = 0 /\ journaled' = journaled
              /\ \/ journal' = [pending |-> journal.next, next |-> journal.next + 1, writable |-> FALSE]
                 \/ journal' = [journal EXCEPT !.writable = FALSE]
                 \/ journal' = journal
  <2> DEFINE next(jid) == [h EXCEPT !.jid = jid,
                                    !.stage = IF h.echo /\ IsCurrent(h) THEN "hash" ELSE "queue"]
  <2>1. \A jid \in Nat : /\ next(jid) \in Callbacks /\ next(jid).jid = jid /\ next(jid).n = h.n
                         /\ next(jid).hash = h.hash /\ next(jid).seen = h.seen
                         /\ next(jid).stage \in {"hash", "queue"}
    BY Zenon DEF Types, Callbacks
  <2>2. journal.next \in Nat /\ 0 \in Nat
    BY Zenon DEF Types, Journals
  <2>3. \/ /\ handlers' = (handlers \ {h}) \cup {next(journal.next)}
           /\ journaled' = journaled \cup {h.seen}
           /\ journal' = [journal EXCEPT !.pending = journal.next, !.next = @ + 1]
        \/ /\ handlers' = (handlers \ {h}) \cup {next(0)} /\ journaled' = journaled
           /\ \/ journal' = [pending |-> journal.next, next |-> journal.next + 1, writable |-> FALSE]
              \/ journal' = [journal EXCEPT !.writable = FALSE]
              \/ journal' = journal
    BY Zenon DEF AppendNotice, Advance
  <2> HIDE DEF next
  <2> QED BY Zenon, <2>1, <2>2, <2>3
<1>3. /\ journal' \in Journals
      /\ \/ /\ g.jid = journal.next /\ journaled' = journaled \cup {h.seen}
            /\ journal'.pending = journal.next /\ journal'.next = journal.next + 1
         \/ /\ g.jid = 0 /\ journaled' = journaled
            /\ \/ journal'.pending = journal.next /\ journal'.next = journal.next + 1
               \/ journal'.pending = journal.pending /\ journal'.next = journal.next
  <2>1. journal \in Journals
    BY Zenon DEF Types
  <2>2. CASE /\ g.jid = journal.next /\ journaled' = journaled \cup {h.seen}
             /\ journal' = [journal EXCEPT !.pending = journal.next, !.next = @ + 1]
    BY Zenon, <2>1, <2>2, JournalAppends
  <2>3. CASE /\ g.jid = 0 /\ journaled' = journaled
             /\ \/ journal' = [pending |-> journal.next, next |-> journal.next + 1, writable |-> FALSE]
                \/ journal' = [journal EXCEPT !.writable = FALSE]
                \/ journal' = journal
    <3> DEFINE new(p, n, b) == [pending |-> p, next |-> n, writable |-> b]
               shut(b) == [journal EXCEPT !.writable = b]
    <3>1. \A p, n \in Nat, b \in BOOLEAN :
            new(p, n, b) \in Journals /\ new(p, n, b).pending = p /\ new(p, n, b).next = n
      BY Zenon DEF Journals
    <3>2. {journal.next, journal.next + 1} \subseteq Nat /\ FALSE \in BOOLEAN
      BY SMTT(30), <2>1 DEF Journals
    <3>3. \A b \in BOOLEAN : /\ shut(b) \in Journals
                             /\ shut(b).pending = journal.pending /\ shut(b).next = journal.next
      BY Zenon, <2>1 DEF Journals
    <3>4. journal' = new(journal.next, journal.next + 1, FALSE) \/ journal' = shut(FALSE) \/ journal' = journal
      BY Zenon, <2>3
    <3> HIDE DEF new, shut
    <3>5. /\ shut(FALSE) \in Journals
          /\ shut(FALSE).pending = journal.pending /\ shut(FALSE).next = journal.next
      BY <3>2, <3>3, Zenon
    <3>6. /\ new(journal.next, journal.next + 1, FALSE) \in Journals
          /\ new(journal.next, journal.next + 1, FALSE).pending = journal.next
          /\ new(journal.next, journal.next + 1, FALSE).next = journal.next + 1
      BY <3>1, <3>2, Zenon
    <3> QED BY <2>1, <2>3, <3>4, <3>5, <3>6, Zenon
  <2> QED BY Zenon, <1>2, <2>2, <2>3
<1>4. h \in Callbacks /\ h.hash = 0 /\ g.hash = 0
  BY Zenon, <1>1, <1>2 DEF Types, Hashing
<1>5. /\ handlers' = (handlers \ {h}) \cup {g} /\ g \in Callbacks
      /\ g.n = h.n /\ g.seen = h.seen /\ g.stage \in {"hash", "queue"}
  BY Zenon, <1>2
<1> USE DEF engine, environment
<1> USE <1>1, <1>3, <1>4, <1>5
<1>11. Types'
  BY Zenon DEF Types, Callbacks, WorkStates, Hints
<1>12. Bounds'
  BY SMTT(30) DEF Types, Journals, Intents, Bounds, Callbacks, WorkStates, Hints
<1>13. Known'
  BY Zenon DEF Known
<1>14. Engine'
  BY Zenon DEF Bounds, Types, Engine
<1>15. Hashing'
  BY Zenon DEF Hashing, IsCurrent
<1>16. ToldIsQueued'
  BY Zenon DEF ToldIsQueued, Told, Queued, Echoes, IsCurrent, JournalHolds, Engine
<1>17. UntoldIsNoticed'
  BY Zenon DEF UntoldIsNoticed
<1>18. JournalHolds'
  BY SMTT(30) DEF Bounds, Types, Journals, Intents, JournalHolds, IsCurrent, Echoes
<1>19. RetiresOlder'
  BY SMTT(30) DEF RetiresOlder, Retirable, Told, Seen, Watched, IsCurrent, Engine
<1>20. OverwritesKnown'
  BY Zenon DEF OverwritesKnown, Queued, Echoes, IsCurrent
<1> QED BY Zenon, <1>11, <1>12, <1>13, <1>14, <1>15, <1>16, <1>17, <1>18, <1>19, <1>20

LEMMA HashEchoStep ==
    ASSUME EditInv, NEW h \in handlers, HashEcho(h)
    PROVE  EditInv'
<1> USE DEF EditInv
<1>1. /\ UNCHANGED <<notices, latest, expected, dirty, journal, environment, engine, history>>
      /\ h.stage = "hash" /\ h \in Callbacks
  BY Zenon DEF HashEcho, Types
<1>2. PICK g \in Callbacks :
        /\ handlers' = (handlers \ {h}) \cup {g}
        /\ g.n = h.n /\ g.jid = h.jid /\ g.seen = h.seen /\ g.stage = "queue" /\ g.hash \in {disk, 0}
  <2>1. PICK hash \in {disk, 0} :
           handlers' = (handlers \ {h}) \cup {[h EXCEPT !.hash = hash, !.stage = "queue"]}
    BY Zenon DEF HashEcho, Advance
  <2> DEFINE g == [h EXCEPT !.hash = hash, !.stage = "queue"]
  <2>2. /\ g \in Callbacks /\ g.n = h.n /\ g.jid = h.jid /\ g.seen = h.seen
        /\ g.stage = "queue" /\ g.hash = hash
    <3>1. hash \in Nat
      BY SMTT(30), <2>1 DEF Types
    <3> QED BY Zenon, <1>1, <3>1 DEF Callbacks
  <2> HIDE DEF g
  <2> QED BY Zenon, <2>1, <2>2 DEF g
<1> USE DEF engine, environment, history
<1> USE <1>1, <1>2
<1>11. Types'
  BY Zenon DEF Types
<1>12. Bounds'
  BY Zenon DEF Bounds
<1>13. Known'
  BY Zenon DEF Known
<1>14. Engine'
  BY Zenon DEF Engine
<1>15. Hashing'
  BY Zenon DEF Hashing, IsCurrent
<1>16. ToldIsQueued'
  BY Zenon DEF ToldIsQueued, Told, Queued, Echoes, IsCurrent, JournalHolds, Engine
<1>17. UntoldIsNoticed'
  BY Zenon DEF UntoldIsNoticed
<1>18. JournalHolds'
  BY Zenon DEF JournalHolds, IsCurrent, Echoes
<1>19. RetiresOlder'
  BY Zenon DEF RetiresOlder, Retirable, Told, Seen, Watched, IsCurrent, Engine
<1>20. OverwritesKnown'
  BY Zenon DEF OverwritesKnown, Queued, Echoes, IsCurrent
<1> QED BY Zenon, <1>11, <1>12, <1>13, <1>14, <1>15, <1>16, <1>17, <1>18, <1>19, <1>20

LEMMA QueueNoticeStep ==
    ASSUME EditInv, NEW h \in handlers, QueueNotice(h)
    PROVE  EditInv'
<1> USE DEF EditInv
<1>1. /\ UNCHANGED <<notices, latest, journal, environment, engine, history>>
      /\ h.stage = "queue" /\ h \in Callbacks /\ expected' \in {0, expected}
  BY Zenon DEF QueueNotice, Types
<1>2. \/ /\ IsCurrent(h) /\ h.hash # 0 /\ h.hash = expected /\ dirty' = dirty
         /\ handlers' = (handlers \ {h}) \cup {[h EXCEPT !.stage = "ack"]}
      \/ /\ ~(IsCurrent(h) /\ h.hash # 0 /\ h.hash = expected)
         /\ handlers' = handlers \ {h}
         /\ dirty' = IF IsCurrent(h) THEN Added(h.jid)
                     ELSE Restored([jid |-> h.jid, own |-> 0, entry |-> FreshEntry])
  BY Zenon, <1>1 DEF QueueNotice, Advance, IsEcho, Types, Callbacks
<1>3. CASE /\ IsCurrent(h) /\ h.hash # 0 /\ h.hash = expected /\ dirty' = dirty
           /\ handlers' = (handlers \ {h}) \cup {[h EXCEPT !.stage = "ack"]}
  <2>1. h.hash \in published /\ (disk # h.hash /\ disk \notin published => disk \notin heard)
    BY Zenon, <1>3 DEF Known, Hashing
  <2> DEFINE g == [h EXCEPT !.stage = "ack"]
  <2>2. /\ g \in Callbacks /\ g.n = h.n /\ g.jid = h.jid /\ g.seen = h.seen
        /\ g.hash = h.hash /\ g.stage = "ack"
    BY Zenon, <1>1 DEF Callbacks
  <2>3. handlers' = (handlers \ {h}) \cup {g}
    BY Zenon, <1>3
  <2> HIDE DEF g
  <2> USE <1>1, <1>3, <2>1, <2>2, <2>3
  <2>11. Types'
    BY SMTT(30) DEF Types, NoHint, NoIntent, Idle, engine, environment, history
  <2>12. Bounds'
    BY Zenon DEF Types, Bounds, NoHint, NoIntent, Idle, engine, environment, history
  <2>13. Known'
    BY Zenon DEF Types, Known, NoHint, NoIntent, Idle, engine, environment, history
  <2>14. Engine'
    BY Zenon DEF Types, Engine, NoHint, NoIntent, Idle, engine, environment, history
  <2>15. Hashing'
    BY Zenon DEF Types, Hashing, IsCurrent, NoHint, NoIntent, Idle, engine, environment, history
  <2>16. ToldIsQueued'
    BY Zenon DEF Types, ToldIsQueued, Told, Queued, Echoes, IsCurrent, JournalHolds, Engine, NoHint, NoIntent, Idle, engine, environment, history
  <2>17. UntoldIsNoticed'
    BY Zenon DEF Types, UntoldIsNoticed, NoHint, NoIntent, Idle, engine, environment, history
  <2>18. JournalHolds'
    BY Zenon DEF Types, JournalHolds, IsCurrent, Echoes, NoHint, NoIntent, Idle, engine, environment, history
  <2>19. RetiresOlder'
    BY Zenon DEF Bounds, Types, RetiresOlder, Retirable, Told, Seen, Watched, IsCurrent, Engine, NoHint, NoIntent, Idle, engine, environment, history
  <2>20. OverwritesKnown'
    BY Zenon DEF Types, OverwritesKnown, Queued, Echoes, IsCurrent, NoHint, NoIntent, Idle, engine, environment, history
  <2> QED BY Zenon, <2>11, <2>12, <2>13, <2>14, <2>15, <2>16, <2>17, <2>18, <2>19, <2>20
<1>4. CASE /\ ~(IsCurrent(h) /\ h.hash # 0 /\ h.hash = expected)
           /\ handlers' = handlers \ {h}
           /\ dirty' = IF IsCurrent(h) THEN Added(h.jid)
                       ELSE Restored([jid |-> h.jid, own |-> 0, entry |-> FreshEntry])
  <2>1. h.jid \in Nat /\ dirty \in Hints /\ work \in WorkStates /\ h.jid < journal.next
    BY Zenon, <1>1 DEF Types, Bounds, Callbacks
  <2>2. CASE IsCurrent(h)
    <3>1. /\ dirty' \in Hints /\ dirty' # NoHint /\ dirty'.own = h.jid
          /\ dirty'.jid \in {dirty.jid, h.jid} /\ dirty'.jid >= h.jid
      BY Zenon, <1>4, <2>1, <2>2, AddedIsHint
    <3> USE <1>1, <1>4, <2>1, <2>2, <3>1
    <3>11. Types'
      BY SMTT(30) DEF Types, NoHint, NoIntent, Idle, engine, environment, history
    <3>12. Bounds'
      BY Zenon DEF Types, Bounds, NoHint, NoIntent, Idle, engine, environment, history
    <3>13. Known'
      BY Zenon DEF Types, Known, NoHint, NoIntent, Idle, engine, environment, history
    <3>14. Engine'
      BY Zenon DEF Types, Engine, NoHint, NoIntent, Idle, engine, environment, history
    <3>15. Hashing'
      BY Zenon DEF Types, Hashing, IsCurrent, NoHint, NoIntent, Idle, engine, environment, history
    <3>16. ToldIsQueued'
      BY Zenon DEF ToldIsQueued, Told, Queued, Echoes, IsCurrent, JournalHolds, Engine
    <3>17. UntoldIsNoticed'
      BY Zenon DEF Types, UntoldIsNoticed, NoHint, NoIntent, Idle, engine, environment, history
    <3>18. JournalHolds'
      BY Zenon DEF Types, JournalHolds, IsCurrent, Echoes, NoHint, NoIntent, Idle, engine, environment, history
    <3>19. RetiresOlder'
      BY SMTT(30) DEF Types, Journals, Intents, RetiresOlder, Retirable, Told, Seen, Watched, IsCurrent, Engine, NoHint, NoIntent, Idle, engine, environment, history
    <3>20. OverwritesKnown'
      BY Zenon DEF OverwritesKnown, Queued, Echoes, IsCurrent, engine, environment, history
    <3> QED BY Zenon, <3>11, <3>12, <3>13, <3>14, <3>15, <3>16, <3>17, <3>18, <3>19, <3>20
  <2>3. CASE ~IsCurrent(h)
    <3> DEFINE hint == [jid |-> h.jid, own |-> 0, entry |-> FreshEntry]
    <3>0. hint \in Hints /\ hint # NoHint /\ hint.jid = h.jid /\ hint.own = 0
      BY Zenon, <2>1, FreshEntryIsNew DEF Hints, NoHint
    <3>1. dirty' = Restored(hint)
      BY Zenon, <1>4, <2>3
    <3> HIDE DEF hint
    <3>2. /\ dirty' \in Hints /\ dirty' # NoHint
          /\ \/ dirty = NoHint /\ dirty'.jid = h.jid /\ dirty'.own = 0
             \/ dirty # NoHint /\ dirty' = dirty
             \/ /\ dirty # NoHint /\ h.jid > dirty.jid
                /\ dirty'.jid = h.jid /\ dirty'.own = dirty.own
      BY Zenon, <2>1, <3>0, <3>1, RestoredIsHint
    <3> USE <1>1, <1>4, <2>1, <2>3, <3>2
    <3>11. Types'
      BY SMTT(30) DEF Types, NoHint, NoIntent, Idle, engine, environment, history
    <3>12. Bounds'
      BY Zenon DEF Types, Bounds, NoHint, NoIntent, Idle, engine, environment, history
    <3>13. Known'
      BY Zenon DEF Types, Known, NoHint, NoIntent, Idle, engine, environment, history
    <3>14. Engine'
      BY Zenon DEF Types, Engine, NoHint, NoIntent, Idle, engine, environment, history
    <3>15. Hashing'
      BY Zenon DEF Types, Hashing, IsCurrent, NoHint, NoIntent, Idle, engine, environment, history
    <3>16. ToldIsQueued'
      BY Zenon DEF ToldIsQueued, Told, Queued, Echoes, IsCurrent, JournalHolds, Engine
    <3>17. UntoldIsNoticed'
      BY Zenon DEF Types, UntoldIsNoticed, NoHint, NoIntent, Idle, engine, environment, history
    <3>18. JournalHolds'
      BY Zenon DEF Types, JournalHolds, IsCurrent, Echoes, NoHint, NoIntent, Idle, engine, environment, history
    <3>19. RetiresOlder'
      BY SMTT(30) DEF Types, Journals, Intents, RetiresOlder, Retirable, Told, Seen, Watched, IsCurrent, Engine, Callbacks, WorkStates, Hints, NoHint, NoIntent, Idle, engine, environment, history
    <3>20. OverwritesKnown'
      BY Zenon DEF OverwritesKnown, Queued, Echoes, IsCurrent, engine, environment, history
    <3> QED BY Zenon, <3>11, <3>12, <3>13, <3>14, <3>15, <3>16, <3>17, <3>18, <3>19, <3>20
  <2> QED BY Zenon, <2>2, <2>3
<1> QED BY Zenon, <1>2, <1>3, <1>4

LEMMA AckEchoStep ==
    ASSUME EditInv, NEW h \in handlers, AckEcho(h)
    PROVE  EditInv'
<1> USE DEF EditInv
<1>1. /\ UNCHANGED <<notices, latest, expected, dirty, environment, engine, history>>
      /\ h.stage = "ack" /\ h \in Callbacks /\ handlers' = handlers \ {h}
  BY Zenon DEF AckEcho, Types
<1>2. /\ journal' \in Journals
      /\ journal'.next = journal.next
      /\ journal'.pending = journal.pending \/ (journal'.pending = 0 /\ journal.pending <= h.jid)
  BY Zenon, <1>1, JournalAcks DEF AckEcho, Types, Callbacks
<1> USE DEF engine, environment, history
<1> USE <1>1, <1>2
<1>11. Types'
  BY Zenon DEF Types
<1>12. Bounds'
  BY SMTT(30) DEF Types, Journals, Intents, Bounds
<1>13. Known'
  BY Zenon DEF Known
<1>14. Engine'
  BY Zenon DEF Engine
<1>15. Hashing'
  BY Zenon DEF Hashing, IsCurrent
<1>16. ToldIsQueued'
  BY SMTT(30) DEF Types, Journals, Intents, ToldIsQueued, Told, Queued, Echoes, IsCurrent, JournalHolds, Engine, Callbacks, WorkStates, Hints
<1>17. UntoldIsNoticed'
  BY Zenon DEF UntoldIsNoticed
<1>18. JournalHolds'
  BY SMTT(30) DEF Types, Journals, Intents, JournalHolds, IsCurrent, Echoes, Callbacks, WorkStates, Hints
<1>19. RetiresOlder'
  BY Zenon DEF RetiresOlder, Retirable, Told, Seen, Watched, IsCurrent, Engine
<1>20. OverwritesKnown'
  BY Zenon DEF OverwritesKnown, Queued, Echoes, IsCurrent
<1> QED BY Zenon, <1>11, <1>12, <1>13, <1>14, <1>15, <1>16, <1>17, <1>18, <1>19, <1>20

LEMMA StartPushStep ==
    ASSUME EditInv, StartPush
    PROVE  EditInv'
<1> USE DEF EditInv, StartPush, engine, capture, environment, history, Advance, Idle, NoHint, NoIntent, Free
<1>1. Types'
  BY Zenon DEF Types, Journals, Intents, Callbacks, WorkStates, Hints
<1>2. Bounds'
  BY Zenon DEF Bounds
<1>3. Known'
  BY Zenon DEF Known
<1>4. Engine'
  BY Zenon DEF Engine
<1>5. Hashing'
  BY Zenon DEF Hashing, IsCurrent
<1>6. ToldIsQueued'
  BY Zenon DEF ToldIsQueued, Told, Queued, Echoes, IsCurrent, JournalHolds, Engine
<1>7. UntoldIsNoticed'
  BY Zenon DEF UntoldIsNoticed
<1>8. JournalHolds'
  BY Zenon DEF JournalHolds, IsCurrent, Echoes
<1>9. RetiresOlder'
  BY Zenon DEF RetiresOlder, Retirable, Told, Seen, Watched, IsCurrent, Engine
<1>10. OverwritesKnown'
  BY Zenon DEF OverwritesKnown, Queued, Echoes, IsCurrent
<1> QED BY Zenon, <1>1, <1>2, <1>3, <1>4, <1>5, <1>6, <1>7, <1>8, <1>9, <1>10

LEMMA ReadSourceStep ==
    ASSUME EditInv, ReadSource
    PROVE  EditInv'
<1> USE DEF EditInv, ReadSource, engine, capture, environment, history, Advance, Idle, NoHint, NoIntent
<1>1. Types'
  BY Zenon DEF Types, Callbacks, WorkStates, Hints
<1>2. Bounds'
  BY SMTT(30) DEF Bounds
<1>3. Known'
  BY SMTT(30) DEF Known
<1>4. Engine'
  BY SMTT(30) DEF Bounds, Types, Engine
<1>5. Hashing'
  BY Zenon DEF Hashing, IsCurrent
<1>6. ToldIsQueued'
  BY SMTT(30) DEF ToldIsQueued, Told, Queued, Echoes, IsCurrent, JournalHolds, Engine
<1>7. UntoldIsNoticed'
  BY Zenon DEF UntoldIsNoticed
<1>8. JournalHolds'
  BY Zenon DEF JournalHolds, IsCurrent, Echoes
<1>9. RetiresOlder'
  BY Zenon DEF RetiresOlder, Retirable, Told, Seen, Watched, IsCurrent, Engine
<1>10. OverwritesKnown'
  BY SMTT(30) DEF OverwritesKnown, Queued, Echoes, IsCurrent
<1> QED BY Zenon, <1>1, <1>2, <1>3, <1>4, <1>5, <1>6, <1>7, <1>8, <1>9, <1>10

LEMMA PrepareRootStep ==
    ASSUME EditInv, PrepareRoot
    PROVE  EditInv'
<1> USE DEF EditInv, PrepareRoot, engine, capture, environment, history, Advance, Idle, NoHint, NoIntent, Applicable, Changed
<1>1. Types'
  BY Zenon DEF Types, Journals, Intents, Callbacks, WorkStates, Hints
<1>2. Bounds'
  BY SMTT(30) DEF Bounds
<1>3. Known'
  BY SMTT(30) DEF Known
<1>4. Engine'
  BY SMTT(30) DEF Engine
<1>5. Hashing'
  BY Zenon DEF Hashing, IsCurrent
<1>6. ToldIsQueued'
  BY SMTT(30) DEF ToldIsQueued, Told, Queued, Echoes, IsCurrent, JournalHolds, Engine
<1>7. UntoldIsNoticed'
  BY Zenon DEF UntoldIsNoticed
<1>8. JournalHolds'
  BY Zenon DEF JournalHolds, IsCurrent, Echoes, ToldIsQueued, Told, Queued, Engine
<1>9. RetiresOlder'
  BY Zenon DEF RetiresOlder, Retirable, Told, Seen, Watched, IsCurrent, Engine, ToldIsQueued, Queued
<1>10. OverwritesKnown'
  BY SMTT(30) DEF OverwritesKnown, Queued, Echoes, IsCurrent
<1> QED BY Zenon, <1>1, <1>2, <1>3, <1>4, <1>5, <1>6, <1>7, <1>8, <1>9, <1>10

LEMMA DispatchStep ==
    ASSUME EditInv, Dispatch
    PROVE  EditInv'
<1> USE DEF EditInv
<1>1. /\ work.kind = "push" /\ work.stage = "dispatch"
      /\ dirty = NoHint /\ handlers = {}
      /\ head' = (IF head = base.hash THEN intent.version ELSE head)
      /\ published' = published \cup {intent.version}
      /\ UNCHANGED <<disk, versions, capture, dirty, journal, phase, scanDue, repair, base, saved, history>>
  BY Zenon DEF Dispatch, Applicable, Changed, ServerAccepts
<1>2. /\ intent' \in Intents /\ intent'.version = intent.version
      /\ intent'.through = intent.through /\ intent'.accepted = TRUE
  <2>1. TRUE \in BOOLEAN /\ intent \in Intents /\ intent' = [intent EXCEPT !.accepted = TRUE]
    BY Zenon DEF Dispatch, Types
  <2> QED BY <2>1, IntentAccepts, Zenon
<1>3. /\ work' \in WorkStates /\ work'.kind = "push" /\ work'.stage = "settle"
      /\ work'.hint = work.hint /\ work'.version = work.version /\ work'.knew = work.knew
  BY Zenon, <1>1 DEF Dispatch, Types, WorkStates
<1>4. intent.version = work.version /\ intent.version # 0 /\ intent # NoIntent
  BY SMTT(30), <1>1 DEF Engine, NoIntent
<1> USE DEF capture, history
<1> USE <1>1, <1>2, <1>3, <1>4
<1>11. Types'
  BY SMTT(30) DEF Types, Journals, Intents
<1>12. Bounds'
  BY Zenon DEF Bounds
<1>13. Known'
  BY Zenon DEF Known
<1>14. Engine'
  BY Zenon DEF Engine
<1>15. Hashing'
  BY Zenon DEF Hashing, IsCurrent
<1>16. ToldIsQueued'
  BY Zenon DEF ToldIsQueued, Told, Queued, Echoes, IsCurrent, JournalHolds, Engine
<1>17. UntoldIsNoticed'
  BY Zenon DEF UntoldIsNoticed
<1>18. JournalHolds'
  BY Zenon DEF JournalHolds, IsCurrent, Echoes
<1>19. RetiresOlder'
  BY Zenon DEF RetiresOlder, Retirable, Told, Seen, Watched, IsCurrent, Engine
<1>20. OverwritesKnown'
  BY Zenon DEF OverwritesKnown, Queued, Echoes, IsCurrent
<1> QED BY Zenon, <1>11, <1>12, <1>13, <1>14, <1>15, <1>16, <1>17, <1>18, <1>19, <1>20

LEMMA SettlePushStep ==
    ASSUME EditInv, SettlePush
    PROVE  EditInv'
<1> USE DEF EditInv
<1>1. /\ work.kind = "push" /\ work.stage = "settle"
      /\ base' = [hash |-> intent.version, stat |-> intent.version] /\ saved' = base'
      /\ intent' = NoIntent /\ work' = Idle
      /\ UNCHANGED <<capture, dirty, environment, phase, scanDue, repair, history>>
  BY Zenon DEF SettlePush, Settled
<1>2. /\ journal' \in Journals /\ journal'.next = journal.next
      /\ \/ journal'.pending = journal.pending /\ journal.pending > intent.through
         \/ journal'.pending = 0 /\ journal.pending <= intent.through
  BY Zenon, JournalAcks DEF SettlePush, SettlementCut, Types, Intents
<1>3. /\ intent.accepted /\ intent.version \in published /\ intent # NoIntent
      /\ intent.version = work.version /\ intent.version # 0 /\ work.version \in published
  BY SMTT(30), <1>1 DEF Engine, NoIntent, Known
<1>4. \A h \in handlers : h.jid = 0 \/ h.jid > intent.through
  BY Zenon, <1>3 DEF Engine
<1>5. base' \in [hash : Nat, stat : Nat] /\ base'.hash = intent.version
  BY Zenon, <1>1 DEF Types, Intents
<1> USE DEF capture, environment, history
<1> USE <1>1, <1>2, <1>3, <1>4, <1>5
<1>11. Types'
  BY Zenon DEF Types, Journals, Intents, Callbacks, WorkStates, Hints, NoHint, NoIntent, Idle
<1>12. Bounds'
  BY SMTT(30) DEF Types, Journals, Intents, Bounds, NoHint, NoIntent, Idle
<1>13. Known'
  BY Zenon DEF Types, Known, NoHint, NoIntent, Idle
<1>14. Engine'
  BY Zenon DEF Types, Engine, NoHint, NoIntent, Idle
<1>15. Hashing'
  BY Zenon DEF Hashing, IsCurrent
<1>16. ToldIsQueued'
  BY Zenon DEF ToldIsQueued, Told, Queued, Echoes, IsCurrent, JournalHolds, Engine
<1>17. UntoldIsNoticed'
  BY Zenon DEF UntoldIsNoticed
<1>18. JournalHolds'
  BY SMTT(30) DEF Types, Journals, Intents, JournalHolds, IsCurrent, Echoes
<1>19. RetiresOlder'
  BY Zenon DEF RetiresOlder, Retirable, Told, Seen, Watched, IsCurrent, Engine
<1>20. OverwritesKnown'
  BY Zenon DEF Types, OverwritesKnown, Queued, Echoes, IsCurrent, NoHint, NoIntent, Idle
<1> QED BY Zenon, <1>11, <1>12, <1>13, <1>14, <1>15, <1>16, <1>17, <1>18, <1>19, <1>20

LEMMA FailPushStep ==
    ASSUME EditInv, FailPush
    PROVE  EditInv'
<1> USE DEF EditInv
<1>1. /\ work.kind = "push" /\ work' = Idle
      /\ repair' = (work.stage \in {"dispatch", "settle"})
      /\ UNCHANGED <<capture, journal, environment, intent, phase, scanDue, base, saved, heard, journaled, crashes>>
  BY Zenon DEF FailPush
<1>5. (work.stage \in {"dispatch", "settle"} /\ repair' = TRUE)
      \/ (work.stage \notin {"dispatch", "settle"} /\ repair' = FALSE)
  <2>1. repair' = (work.stage \in {"dispatch", "settle"})
    BY Zenon, <1>1
  <2>2. CASE work.stage \in {"dispatch", "settle"}
    BY ONLY <2>1, <2>2, Zenon
  <2>3. CASE work.stage \notin {"dispatch", "settle"}
    <3>1. (work.stage \in {"dispatch", "settle"}) = FALSE
      BY ONLY <2>3
    <3> QED BY ONLY <2>1, <2>3, <3>1, Zenon
  <2> QED BY Zenon, <2>2, <2>3
<1>2. repair' \in BOOLEAN
  BY Zenon, <1>5
<1>3. /\ work.hint \in Hints /\ work.hint # NoHint /\ work.hint.jid < journal.next
  BY Zenon, <1>1 DEF Engine, Types, WorkStates, Bounds
<1>4. /\ dirty' \in Hints /\ dirty' # NoHint
      /\ dirty' = Restored(work.hint)
  BY Zenon, <1>3, RestoredIsHint DEF FailPush, Types
<1> USE DEF capture, environment, history
<1> USE <1>1
<1>11. Types'
  BY Zenon, <1>2, <1>4 DEF Types, Idle, NoHint, WorkStates, Hints
<1>12. Bounds'
  BY SMTT(30), <1>2, <1>3, <1>4, <1>5, RestoredIsHint DEF Types, Journals, Intents, Bounds, NoHint, NoIntent, Idle
<1>13. Known'
  BY Zenon, <1>2, <1>3, <1>4, <1>5, RestoredIsHint DEF Types, Known, NoHint, NoIntent, Idle
<1>14. Engine'
  BY Zenon, <1>5 DEF Engine, Idle, NoHint
<1>15. Hashing'
  BY Zenon, <1>2, <1>3, <1>4, <1>5, RestoredIsHint DEF Hashing, IsCurrent
<1>16. ToldIsQueued'
  BY Zenon, <1>2, <1>3, <1>4, <1>5, RestoredIsHint DEF ToldIsQueued, Told, Queued, Echoes, IsCurrent, JournalHolds, Engine
<1>17. UntoldIsNoticed'
  BY Zenon, <1>2, <1>3, <1>4, <1>5, RestoredIsHint DEF UntoldIsNoticed
<1>18. JournalHolds'
  BY Zenon, <1>2, <1>3, <1>4, <1>5, RestoredIsHint DEF JournalHolds, IsCurrent, Echoes
<1>19. RetiresOlder'
  <2>1. SUFFICES ASSUME intent # NoIntent, intent.version # disk, disk \notin published,
                        Seen \/ Told, Retirable(intent.through)'
                 PROVE  Watched
    BY Zenon, <1>1, <1>4 DEF RetiresOlder, Seen, Watched, Told, IsCurrent, Idle
  <2>2. intent.version = work.version /\ intent.through = work.hint.jid
    BY Zenon, <1>1, <2>1 DEF Engine
  <2>3. dirty = NoHint \/ Retirable(intent.through)
    BY SMTT(30), <1>1, <1>3, <1>4, <2>1, <2>2, RestoredIsHint DEF Retirable, Types, Hints, WorkStates, Intents
  <2> QED BY Zenon, <1>1, <2>1, <2>3 DEF RetiresOlder
<1>20. OverwritesKnown'
  <2>1. work'.kind = "none" /\ work'.knew = {}
    BY SMTT(30), <1>1 DEF Idle
  <2> QED BY SMTT(30), <2>1 DEF OverwritesKnown
<1> QED BY Zenon, <1>11, <1>12, <1>13, <1>14, <1>15, <1>16, <1>17, <1>18, <1>19, <1>20

LEMMA StartRecoveryStep ==
    ASSUME EditInv, StartRecovery
    PROVE  EditInv'
<1> USE DEF EditInv, StartRecovery, engine, capture, environment, history, Advance, Idle, NoHint, NoIntent, Retirable
<1>1. Types'
  BY Zenon DEF Types, Journals, Intents, Callbacks, WorkStates, Hints
<1>2. Bounds'
  BY SMTT(30) DEF Bounds
<1>3. Known'
  BY Zenon DEF Known
<1>4. Engine'
  BY Zenon DEF Engine
<1>5. Hashing'
  BY Zenon DEF Hashing, IsCurrent
<1>6. ToldIsQueued'
  BY Zenon DEF ToldIsQueued, Told, Queued, Echoes, IsCurrent, JournalHolds, Engine
<1>7. UntoldIsNoticed'
  BY Zenon DEF UntoldIsNoticed
<1>8. JournalHolds'
  BY SMTT(30) DEF JournalHolds, IsCurrent, Echoes
<1>9. RetiresOlder'
  BY Zenon DEF RetiresOlder, Retirable, Told, Seen, Watched, IsCurrent, Engine
<1>10. OverwritesKnown'
  BY Zenon DEF OverwritesKnown, Queued, Echoes, IsCurrent
<1> QED BY Zenon, <1>1, <1>2, <1>3, <1>4, <1>5, <1>6, <1>7, <1>8, <1>9, <1>10

LEMMA AcceptLateStep ==
    ASSUME EditInv, AcceptLate
    PROVE  EditInv'
<1> USE DEF EditInv
<1>1. /\ work.kind = "recover" /\ intent # NoIntent
      /\ head' = (IF head = base.hash THEN intent.version ELSE head)
      /\ published' = published \cup {intent.version}
      /\ UNCHANGED <<disk, versions, capture, dirty, journal, work, phase, scanDue, repair, base, saved, history>>
  BY Zenon DEF AcceptLate, ServerAccepts
<1>2. /\ intent' \in Intents /\ intent'.version = intent.version
      /\ intent'.through = intent.through /\ intent'.accepted = TRUE
  <2>1. TRUE \in BOOLEAN /\ intent \in Intents /\ intent' = [intent EXCEPT !.accepted = TRUE]
    BY Zenon DEF AcceptLate, Types
  <2> QED BY <2>1, IntentAccepts, Zenon
<1>4. intent.version # 0
  BY Zenon, <1>1 DEF Engine, NoIntent
<1>5. intent' # NoIntent
  BY SMTT(30), <1>2, <1>4 DEF NoIntent
<1> USE DEF capture, history
<1> USE <1>1, <1>2, <1>4, <1>5
<1>11. Types'
  BY Zenon DEF Types, Journals, Intents
<1>12. Bounds'
  BY Zenon DEF Bounds
<1>13. Known'
  BY Zenon DEF Known
<1>14. Engine'
  BY Zenon DEF Engine, capture
<1>15. Hashing'
  BY Zenon DEF Hashing, IsCurrent
<1>16. ToldIsQueued'
  BY Zenon DEF ToldIsQueued, Told, Queued, Echoes, IsCurrent, JournalHolds, Engine
<1>17. UntoldIsNoticed'
  BY Zenon DEF UntoldIsNoticed
<1>18. JournalHolds'
  BY Zenon DEF JournalHolds, IsCurrent, Echoes
<1>19. RetiresOlder'
  BY Zenon DEF RetiresOlder, Retirable, Told, Seen, Watched, IsCurrent, Engine
<1>20. OverwritesKnown'
  BY Zenon DEF OverwritesKnown, Queued, Echoes, IsCurrent
<1> QED BY Zenon, <1>11, <1>12, <1>13, <1>14, <1>15, <1>16, <1>17, <1>18, <1>19, <1>20

LEMMA FinishRecoveryStep ==
    ASSUME EditInv, FinishRecovery
    PROVE  EditInv'
<1> USE DEF EditInv
<1>1. /\ work.kind = "recover" /\ intent' = NoIntent /\ work' = Idle /\ repair' = FALSE
      /\ UNCHANGED <<capture, environment, phase, scanDue, history>>
  BY Zenon DEF FinishRecovery
<1>2. intent.accepted => intent.version \in published /\ intent # NoIntent /\ intent.version # 0
  BY SMTT(30) DEF Engine, NoIntent, Known
<1>3. /\ journal' \in Journals /\ journal'.next = journal.next
      /\ \/ journal'.pending = journal.pending /\ (intent.accepted => journal.pending > intent.through)
         \/ journal'.pending = 0 /\ journal.pending <= intent.through /\ intent.accepted
  BY Zenon, JournalAcks DEF FinishRecovery, SettlementCut, Types, Intents
<1>4. /\ base' \in [hash : Nat, stat : Nat] /\ saved' \in [hash : Nat, stat : Nat]
      /\ base'.hash \in published /\ saved'.hash \in published
  BY SMTT(30), <1>2 DEF FinishRecovery, Settled, Types, Intents, Known
<1>5. \/ dirty' = dirty
      \/ dirty' = NoHint /\ intent.accepted /\ work.hint = dirty /\ dirty # NoHint
  BY Zenon DEF FinishRecovery
<1>7. NoHint \in Hints /\ Idle \in WorkStates /\ NoIntent \in Intents /\ FALSE \in BOOLEAN
  BY Zenon DEF Hints, WorkStates, Intents, NoHint, Idle, NoIntent
<1>6. dirty' # dirty => Retirable(intent.through)
  BY Zenon, <1>1, <1>5 DEF Engine, Retirable
<1> USE DEF capture, environment, history
<1> USE <1>1, <1>3, <1>4, <1>5
<1>11. Types'
  BY Zenon, <1>7 DEF Types
<1>12. Bounds'
  BY SMTT(30), <1>2, <1>6 DEF Types, Journals, Intents, Bounds, NoHint, NoIntent, Idle
<1>13. Known'
  BY Zenon, <1>2, <1>6 DEF Types, Known, NoHint, NoIntent, Idle
<1>14. Engine'
  BY Zenon, <1>2, <1>6 DEF Types, Engine, NoHint, NoIntent, Idle
<1>15. Hashing'
  BY Zenon, <1>2, <1>6 DEF Hashing, IsCurrent
<1>16. ToldIsQueued'
  <2>1. CASE dirty' = dirty
    BY SMTT(30), <1>1, <1>2, <1>3, <2>1 DEF ToldIsQueued, Told, Queued, Echoes, IsCurrent, JournalHolds, Engine, Types,
       Journals, Intents, Idle
  <2>2. CASE dirty' # dirty
    <3>1. Told => \E h \in handlers : IsCurrent(h) /\ h.seen = disk /\ h.stage # "ack"
      BY Zenon, <1>2, <1>5, <1>6, <2>2 DEF RetiresOlder, Told, Watched
    <3>2. Told => \E h \in handlers : ~Echoes(h)
      BY Zenon, <3>1 DEF Hashing, Told, Echoes
    <3> QED BY Zenon, <1>1, <3>2 DEF ToldIsQueued, Told, Queued, Echoes, IsCurrent
  <2> QED BY Zenon, <2>1, <2>2
<1> USE <1>1
<1>17. UntoldIsNoticed'
  BY Zenon, <1>2, <1>3, <1>4, <1>5, <1>6 DEF UntoldIsNoticed
<1>18. JournalHolds'
  BY SMTT(30), <1>2, <1>3, <1>4, <1>5, <1>6 DEF Types, Journals, Intents, JournalHolds, IsCurrent, Echoes
<1>19. RetiresOlder'
  BY Zenon, <1>2, <1>3, <1>4, <1>5, <1>6 DEF RetiresOlder, Retirable, Told, Seen, Watched, IsCurrent, Engine
<1>20. OverwritesKnown'
  BY SMTT(30) DEF OverwritesKnown, Idle
<1> QED BY Zenon, <1>11, <1>12, <1>13, <1>14, <1>15, <1>16, <1>17, <1>18, <1>19, <1>20

LEMMA FailRecoveryStep ==
    ASSUME EditInv, FailRecovery
    PROVE  EditInv'
<1> USE DEF EditInv, FailRecovery, engine, capture, environment, history, Advance, Idle, NoHint, NoIntent
<1>1. Types'
  BY Zenon DEF Types, Callbacks, WorkStates, Hints
<1>2. Bounds'
  BY SMTT(30) DEF Types, Journals, Intents, Bounds
<1>3. Known'
  BY Zenon DEF Known
<1>4. Engine'
  BY Zenon DEF Engine
<1>5. Hashing'
  BY Zenon DEF Hashing, IsCurrent
<1>6. ToldIsQueued'
  BY Zenon DEF ToldIsQueued, Told, Queued, Echoes, IsCurrent, JournalHolds, Engine
<1>7. UntoldIsNoticed'
  BY Zenon DEF UntoldIsNoticed
<1>8. JournalHolds'
  BY Zenon DEF JournalHolds, IsCurrent, Echoes
<1>9. RetiresOlder'
  BY Zenon DEF RetiresOlder, Retirable, Told, Seen, Watched, IsCurrent, Engine
<1>10. OverwritesKnown'
  BY Zenon DEF OverwritesKnown, Queued, Echoes, IsCurrent
<1> QED BY Zenon, <1>1, <1>2, <1>3, <1>4, <1>5, <1>6, <1>7, <1>8, <1>9, <1>10

LEMMA StartPullStep ==
    ASSUME EditInv, StartPull
    PROVE  EditInv'
<1> USE DEF EditInv, StartPull, engine, capture, environment, history, Advance, Idle, NoHint, NoIntent, Free
<1>1. Types'
  BY Zenon DEF Types, Callbacks, WorkStates, Hints
<1>2. Bounds'
  BY Zenon DEF Bounds, Known
<1>3. Known'
  BY Zenon DEF Known
<1>4. Engine'
  BY Zenon DEF Engine
<1>5. Hashing'
  BY Zenon DEF Hashing, IsCurrent
<1>6. ToldIsQueued'
  BY Zenon DEF ToldIsQueued, Told, Queued, Echoes, IsCurrent, JournalHolds, Engine
<1>7. UntoldIsNoticed'
  BY Zenon DEF UntoldIsNoticed
<1>8. JournalHolds'
  BY Zenon DEF JournalHolds, IsCurrent, Echoes
<1>9. RetiresOlder'
  BY Zenon DEF RetiresOlder, Retirable, Told, Seen, Watched, IsCurrent, Engine
<1>10. OverwritesKnown'
  BY Zenon DEF OverwritesKnown, Queued, Echoes, IsCurrent
<1> QED BY Zenon, <1>1, <1>2, <1>3, <1>4, <1>5, <1>6, <1>7, <1>8, <1>9, <1>10

LEMMA SkipPullStep ==
    ASSUME EditInv, SkipPull
    PROVE  EditInv'
<1> USE DEF EditInv, SkipPull, engine, capture, environment, history, Advance, Idle, NoHint, NoIntent
<1>1. Types'
  BY Zenon DEF Types, Callbacks, WorkStates, Hints
<1>2. Bounds'
  BY SMTT(30) DEF Types, Journals, Intents, Bounds
<1>3. Known'
  BY Zenon DEF Known
<1>4. Engine'
  BY Zenon DEF Engine
<1>5. Hashing'
  BY Zenon DEF Hashing, IsCurrent
<1>6. ToldIsQueued'
  BY Zenon DEF ToldIsQueued, Told, Queued, Echoes, IsCurrent, JournalHolds, Engine
<1>7. UntoldIsNoticed'
  BY Zenon DEF UntoldIsNoticed
<1>8. JournalHolds'
  BY Zenon DEF JournalHolds, IsCurrent, Echoes
<1>9. RetiresOlder'
  BY Zenon DEF RetiresOlder, Retirable, Told, Seen, Watched, IsCurrent, Engine
<1>10. OverwritesKnown'
  BY Zenon DEF OverwritesKnown, Queued, Echoes, IsCurrent
<1> QED BY Zenon, <1>1, <1>2, <1>3, <1>4, <1>5, <1>6, <1>7, <1>8, <1>9, <1>10

LEMMA PreparePullStep ==
    ASSUME EditInv, PreparePull
    PROVE  EditInv'
<1> USE DEF EditInv, PreparePull, engine, capture, environment, history, Advance, Idle, NoHint, NoIntent, Skips, Changed
<1>1. Types'
  BY SMTT(30) DEF Types, Callbacks, WorkStates, Hints
<1>2. Bounds'
  BY Zenon DEF Types, Bounds, Callbacks, WorkStates, Hints
<1>3. Known'
  BY SMTT(30) DEF Types, Known, Callbacks, WorkStates, Hints
<1>4. Engine'
  BY SMTT(30) DEF Types, Engine, Callbacks, WorkStates, Hints
<1>5. Hashing'
  BY Zenon DEF Hashing, IsCurrent
<1>6. ToldIsQueued'
  BY Zenon DEF ToldIsQueued, Told, Queued, Echoes, IsCurrent, JournalHolds, Engine
<1>7. UntoldIsNoticed'
  BY Zenon DEF UntoldIsNoticed
<1>8. JournalHolds'
  BY Zenon DEF JournalHolds, IsCurrent, Echoes
<1>9. RetiresOlder'
  BY Zenon DEF Types, RetiresOlder, Retirable, Told, Seen, Watched, IsCurrent, Engine, Callbacks, WorkStates, Hints
<1>10. OverwritesKnown'
  BY Zenon DEF Types, OverwritesKnown, Queued, Echoes, IsCurrent, Known, ToldIsQueued, Told, Engine, Callbacks, WorkStates, Hints
<1> QED BY Zenon, <1>1, <1>2, <1>3, <1>4, <1>5, <1>6, <1>7, <1>8, <1>9, <1>10

LEMMA CheckPullStep ==
    ASSUME EditInv, CheckPull
    PROVE  EditInv'
<1> USE DEF EditInv
<1>1. /\ work.kind = "pull" /\ dirty = NoHint /\ handlers = {}
      /\ UNCHANGED <<notices, handlers, latest, dirty, journal, environment, intent, phase, repair,
                     base, saved, history>>
  BY Zenon DEF CheckPull, Skips, Changed
<1>2. /\ work' \in WorkStates /\ work'.kind = "pull" /\ work'.knew = heard
      /\ work'.hint = work.hint /\ work'.version = work.version
      /\ \/ work.stage = "overwrite" /\ work'.stage = "write" /\ expected' = work.version
         \/ work'.stage = "aside" /\ expected' = expected
  <2>1. heard \in SUBSET Nat /\ work \in WorkStates
    BY Zenon DEF Types
  <2>2. CASE work.stage = "overwrite"
    BY Zenon, <1>1, <2>1, <2>2 DEF CheckPull, WorkStates
  <2>3. CASE work.stage # "overwrite"
    BY Zenon, <1>1, <2>1, <2>3 DEF CheckPull, WorkStates
  <2> QED BY Zenon, <2>2, <2>3
<1>3. phase # "replay"
  BY SMTT(30), <1>1 DEF Engine, Idle
<1> USE DEF environment, history
<1> USE <1>1, <1>2
<1>11. Types'
  BY SMTT(30) DEF Types, Known
<1>12. Bounds'
  BY Zenon DEF Bounds
<1>13. Known'
  BY Zenon DEF Known
<1>14. Engine'
  BY Zenon, <1>3 DEF Engine
<1>15. Hashing'
  BY Zenon DEF Hashing, IsCurrent
<1>16. ToldIsQueued'
  BY Zenon DEF ToldIsQueued, Told, Queued, Echoes, IsCurrent, Engine
<1>17. UntoldIsNoticed'
  BY Zenon DEF UntoldIsNoticed
<1>18. JournalHolds'
  BY Zenon DEF JournalHolds, IsCurrent, Echoes
<1>19. RetiresOlder'
  BY Zenon DEF RetiresOlder, Retirable, Told, Seen, Watched, IsCurrent
<1>20. OverwritesKnown'
  BY Zenon DEF OverwritesKnown, Queued
<1> QED BY Zenon, <1>11, <1>12, <1>13, <1>14, <1>15, <1>16, <1>17, <1>18, <1>19, <1>20

LEMMA MoveAsideStep ==
    ASSUME EditInv, MoveAside
    PROVE  EditInv'
<1> USE DEF EditInv, MoveAside, engine, capture, environment, history, Advance, Idle, NoHint, NoIntent, Skips, Changed
<1>1. Types'
  BY Zenon DEF Types, Callbacks, WorkStates, Hints
<1>2. Bounds'
  BY SMTT(30) DEF Bounds, Known
<1>3. Known'
  BY SMTT(30) DEF Known
<1>4. Engine'
  BY SMTT(30) DEF Engine
<1>5. Hashing'
  BY Zenon DEF Hashing, IsCurrent, Known
<1>6. ToldIsQueued'
  BY Zenon DEF ToldIsQueued, Told, Queued, Echoes, IsCurrent, JournalHolds, Engine, Known
<1>7. UntoldIsNoticed'
  BY Zenon DEF Types, UntoldIsNoticed
<1>8. JournalHolds'
  BY Zenon DEF JournalHolds, IsCurrent, Echoes, Known
<1>9. RetiresOlder'
  BY Zenon DEF RetiresOlder, Retirable, Told, Seen, Watched, IsCurrent, Engine, Known
<1>10. OverwritesKnown'
  BY SMTT(30) DEF OverwritesKnown, Queued, Echoes, IsCurrent
<1> QED BY Zenon, <1>1, <1>2, <1>3, <1>4, <1>5, <1>6, <1>7, <1>8, <1>9, <1>10

LEMMA RegisterEchoStep ==
    ASSUME EditInv, RegisterEcho
    PROVE  EditInv'
<1> USE DEF EditInv, RegisterEcho, engine, capture, environment, history, Advance, Idle, NoHint, NoIntent, Skips, Changed
<1>1. Types'
  BY SMTT(30) DEF Types, Callbacks, WorkStates, Hints
<1>2. Bounds'
  BY SMTT(30) DEF Bounds, Known
<1>3. Known'
  BY SMTT(30) DEF Known
<1>4. Engine'
  BY SMTT(30) DEF Engine
<1>5. Hashing'
  BY Zenon DEF Hashing, IsCurrent, Known
<1>6. ToldIsQueued'
  BY Zenon DEF ToldIsQueued, Told, Queued, Echoes, IsCurrent, JournalHolds, Engine, Known
<1>7. UntoldIsNoticed'
  BY Zenon DEF Types, UntoldIsNoticed
<1>8. JournalHolds'
  BY Zenon DEF JournalHolds, IsCurrent, Echoes, Known
<1>9. RetiresOlder'
  BY SMTT(30) DEF RetiresOlder, Retirable, Told, Seen, Watched, IsCurrent, Engine, Known
<1>10. OverwritesKnown'
  BY SMTT(30) DEF OverwritesKnown, Queued, Echoes, IsCurrent
<1> QED BY Zenon, <1>1, <1>2, <1>3, <1>4, <1>5, <1>6, <1>7, <1>8, <1>9, <1>10

LEMMA WritePullStep ==
    ASSUME EditInv, WritePull
    PROVE  EditInv'
<1> USE DEF EditInv, WritePull, engine, capture, environment, history, Advance, Idle, NoHint, NoIntent, Skips, Changed
<1>1. Types'
  BY SMTT(30) DEF Types, Callbacks, WorkStates, Hints
<1>2. Bounds'
  BY SMTT(30) DEF Bounds, Known
<1>3. Known'
  BY SMTT(30) DEF Known
<1>4. Engine'
  BY SMTT(30) DEF Engine
<1>5. Hashing'
  BY Zenon DEF Hashing, IsCurrent, Known
<1>6. ToldIsQueued'
  BY Zenon DEF ToldIsQueued, Told, Queued, Echoes, IsCurrent, JournalHolds, Engine, Known
<1>7. UntoldIsNoticed'
  BY SMTT(30) DEF Types, UntoldIsNoticed
<1>8. JournalHolds'
  BY Zenon DEF JournalHolds, IsCurrent, Echoes, Known
<1>9. RetiresOlder'
  BY Zenon DEF RetiresOlder, Retirable, Told, Seen, Watched, IsCurrent, Engine, Known
<1>10. OverwritesKnown'
  BY SMTT(30) DEF OverwritesKnown, Queued, Echoes, IsCurrent
<1> QED BY Zenon, <1>1, <1>2, <1>3, <1>4, <1>5, <1>6, <1>7, <1>8, <1>9, <1>10

LEMMA StatPullStep ==
    ASSUME EditInv, StatPull
    PROVE  EditInv'
<1> USE DEF EditInv, StatPull, engine, capture, environment, history, Advance, Idle, NoHint, NoIntent
<1>1. Types'
  BY Zenon DEF Types, Callbacks, WorkStates, Hints
<1>2. Bounds'
  BY SMTT(30) DEF Bounds
<1>3. Known'
  BY SMTT(30) DEF Known
<1>4. Engine'
  BY SMTT(30) DEF Engine
<1>5. Hashing'
  BY Zenon DEF Hashing, IsCurrent
<1>6. ToldIsQueued'
  BY Zenon DEF ToldIsQueued, Told, Queued, Echoes, IsCurrent, JournalHolds, Engine
<1>7. UntoldIsNoticed'
  BY Zenon DEF UntoldIsNoticed
<1>8. JournalHolds'
  BY Zenon DEF JournalHolds, IsCurrent, Echoes
<1>9. RetiresOlder'
  BY SMTT(30) DEF RetiresOlder, Retirable, Told, Seen, Watched, IsCurrent, Engine
<1>10. OverwritesKnown'
  BY SMTT(30) DEF OverwritesKnown, Queued, Echoes, IsCurrent
<1> QED BY Zenon, <1>1, <1>2, <1>3, <1>4, <1>5, <1>6, <1>7, <1>8, <1>9, <1>10

LEMMA CheckpointPullStep ==
    ASSUME EditInv, CheckpointPull
    PROVE  EditInv'
<1> USE DEF EditInv, CheckpointPull, engine, capture, environment, history, Advance, Idle, NoHint, NoIntent
<1>1. Types'
  BY Zenon DEF Types, Callbacks, WorkStates, Hints
<1>2. Bounds'
  BY SMTT(30) DEF Types, Journals, Intents, Bounds
<1>3. Known'
  BY Zenon DEF Known
<1>4. Engine'
  BY Zenon DEF Engine
<1>5. Hashing'
  BY Zenon DEF Hashing, IsCurrent
<1>6. ToldIsQueued'
  BY Zenon DEF ToldIsQueued, Told, Queued, Echoes, IsCurrent, JournalHolds, Engine
<1>7. UntoldIsNoticed'
  BY Zenon DEF UntoldIsNoticed
<1>8. JournalHolds'
  BY Zenon DEF JournalHolds, IsCurrent, Echoes
<1>9. RetiresOlder'
  BY Zenon DEF RetiresOlder, Retirable, Told, Seen, Watched, IsCurrent, Engine
<1>10. OverwritesKnown'
  BY Zenon DEF OverwritesKnown, Queued, Echoes, IsCurrent
<1> QED BY Zenon, <1>1, <1>2, <1>3, <1>4, <1>5, <1>6, <1>7, <1>8, <1>9, <1>10

LEMMA StartScanStep ==
    ASSUME EditInv, StartScan
    PROVE  EditInv'
<1> USE DEF EditInv
<1>1. /\ work = Idle /\ phase = "live" /\ ~repair
      /\ UNCHANGED <<capture, dirty, journal, environment, intent, phase, repair, history>>
  BY Zenon DEF StartScan, Free
<1>2. /\ base' \in [hash : Nat, stat : Nat] /\ saved' \in [hash : Nat, stat : Nat]
      /\ base'.hash = base.hash /\ saved'.hash \in {base.hash, saved.hash}
  BY Zenon DEF StartScan, Types
<1>3. /\ work' \in WorkStates
      /\ work' = work \/ (work'.kind = "scan" /\ work'.version = disk /\ work'.hint = NoHint /\ work'.knew = {})
  BY Zenon, <1>1 DEF StartScan, Types, WorkStates, Idle
<1> USE DEF capture, environment, history
<1> USE <1>1, <1>2, <1>3
<1>11. Types'
  BY Zenon DEF Types
<1>12. Bounds'
  BY Zenon DEF Types, Bounds, NoHint, NoIntent, Idle
<1>13. Known'
  BY Zenon DEF Known
<1>14. Engine'
  BY Zenon DEF Bounds, Types, Engine, NoHint, NoIntent, Idle
<1>15. Hashing'
  BY Zenon DEF Hashing, IsCurrent
<1>16. ToldIsQueued'
  BY Zenon DEF Types, ToldIsQueued, Told, Queued, Echoes, IsCurrent, JournalHolds, Engine, NoHint, NoIntent, Idle
<1>17. UntoldIsNoticed'
  BY Zenon DEF UntoldIsNoticed
<1>18. JournalHolds'
  BY Zenon DEF JournalHolds, IsCurrent, Echoes
<1>19. RetiresOlder'
  BY Zenon DEF RetiresOlder, Retirable, Told, Seen, Watched, IsCurrent, Engine
<1>20. OverwritesKnown'
  BY Zenon DEF OverwritesKnown, Queued, Echoes, IsCurrent
<1> QED BY Zenon, <1>11, <1>12, <1>13, <1>14, <1>15, <1>16, <1>17, <1>18, <1>19, <1>20

LEMMA QueueScanStep ==
    ASSUME EditInv, QueueScan
    PROVE  EditInv'
<1> USE DEF EditInv
<1>1. /\ work.kind = "scan" /\ work' = Idle
      /\ UNCHANGED <<capture, environment, intent, phase, scanDue, repair, base, saved, heard, crashes>>
  BY Zenon DEF QueueScan
<1>2. \/ UNCHANGED <<journal, journaled, dirty>>
      \/ /\ journaled' = journaled \cup {work.version}
         /\ dirty' = Added(journal.next)
         /\ journal' \in Journals /\ journal'.pending = journal.next /\ journal'.next = journal.next + 1
  BY Zenon, JournalAppends DEF QueueScan, Types
<1>3. /\ Added(journal.next) \in Hints /\ Added(journal.next) # NoHint
      /\ Added(journal.next).own = journal.next /\ Added(journal.next).jid = journal.next
  <2>1. journal.next \in Nat /\ dirty.jid \in Nat /\ dirty.jid < journal.next
    BY Zenon DEF Types, Journals, Hints, Bounds
  <2>2. /\ Added(journal.next) \in Hints /\ Added(journal.next) # NoHint
        /\ Added(journal.next).own = journal.next
        /\ Added(journal.next).jid \in {dirty.jid, journal.next} /\ Added(journal.next).jid >= journal.next
    BY Zenon, <2>1, AddedIsHint DEF Types
  <2> QED BY SMTT(30), <2>1, <2>2
<1>4. work.version <= versions /\ work.version \in Nat /\ work.version # 0
  BY Zenon, <1>1 DEF Bounds, Types, WorkStates, Engine
<1> USE DEF capture, environment
<1> USE <1>1, <1>2, <1>3, <1>4
<1>11. Types'
  BY Zenon DEF Types, Callbacks, WorkStates, Hints, NoHint, NoIntent, Idle
<1>12. Bounds'
  BY SMTT(30) DEF Types, Journals, Intents, Bounds, Callbacks, WorkStates, Hints, NoHint, NoIntent, Idle
<1>13. Known'
  BY Zenon DEF Types, Known, NoHint, NoIntent, Idle
<1>14. Engine'
  BY Zenon DEF Types, Engine, NoHint, NoIntent, Idle
<1>15. Hashing'
  BY Zenon DEF Hashing, IsCurrent
<1>16. ToldIsQueued'
  BY Zenon DEF ToldIsQueued, Told, Queued, Echoes, IsCurrent, JournalHolds, Engine
<1>17. UntoldIsNoticed'
  BY Zenon DEF UntoldIsNoticed
<1>18. JournalHolds'
  BY SMTT(30) DEF Bounds, Types, Journals, Intents, JournalHolds, IsCurrent, Echoes
<1>19. RetiresOlder'
  BY SMTT(30) DEF Bounds, Types, Journals, Intents, RetiresOlder, Retirable, Told, Seen, Watched, IsCurrent, Engine, NoHint, NoIntent, Idle
<1>20. OverwritesKnown'
  BY Zenon DEF Types, OverwritesKnown, Queued, Echoes, IsCurrent, NoHint, NoIntent, Idle
<1> QED BY Zenon, <1>11, <1>12, <1>13, <1>14, <1>15, <1>16, <1>17, <1>18, <1>19, <1>20

LEMMA CrashStep ==
    ASSUME EditInv, Crash
    PROVE  EditInv'
<1> USE DEF EditInv
<1>1. /\ crashes' = crashes + 1
      /\ notices' = 0 /\ handlers' = {} /\ latest' = 0 /\ expected' = 0
      /\ dirty' = NoHint /\ base' = saved /\ work' = Idle /\ phase' = "replay" /\ repair' = TRUE
      /\ UNCHANGED <<environment, saved, intent, heard, journaled>>
  BY Zenon DEF Crash
<1>2. /\ journal' \in Journals /\ journal'.pending = journal.pending /\ journal'.next = journal.next
  <2>1. TRUE \in BOOLEAN /\ journal \in Journals /\ journal' = [journal EXCEPT !.writable = TRUE]
    BY Zenon DEF Crash, Types
  <2> QED BY <2>1, JournalOpens, Zenon
<1>3. crashes' \in Nat /\ crashes' # 0
  BY SMTT(30), <1>1 DEF Types
<1>4. NoHint \in Hints /\ Idle \in WorkStates /\ TRUE \in BOOLEAN
  BY Zenon DEF Hints, WorkStates, NoHint, Idle
<1>5. /\ journal.next > 0 /\ dirty'.jid = 0 /\ work'.hint.jid = 0 /\ work'.version = 0
  BY SMTT(30), <1>1 DEF Bounds, Types, Journals, NoHint, Idle
<1> USE DEF environment
<1> USE <1>1, <1>2
<1>11. Types'
  BY SMTT(30), <1>3, <1>4 DEF Types
<1>12. Bounds'
  BY SMTT(30), <1>5 DEF Bounds, Types
<1>13. Known'
  BY Zenon, <1>3, <1>4, <1>5 DEF Types, Known, NoHint, NoIntent, Idle
<1>14. Engine'
  BY Zenon, <1>3, <1>4, <1>5 DEF Types, Engine, NoHint, NoIntent, Idle
<1>15. Hashing'
  BY Zenon, <1>3, <1>4, <1>5 DEF Hashing, IsCurrent
<1>16. ToldIsQueued'
  BY Zenon, <1>3, <1>4, <1>5 DEF ToldIsQueued, Told, Queued, Echoes, IsCurrent, JournalHolds, Engine
<1>17. UntoldIsNoticed'
  BY Zenon, <1>3, <1>4, <1>5 DEF UntoldIsNoticed
<1>18. JournalHolds'
  BY Zenon, <1>3, <1>4, <1>5 DEF JournalHolds, IsCurrent, Echoes
<1>19. RetiresOlder'
  BY Zenon, <1>3, <1>4, <1>5 DEF Types, RetiresOlder, Retirable, Told, Seen, Watched, IsCurrent, Engine, NoHint, NoIntent, Idle
<1>20. OverwritesKnown'
  BY Zenon, <1>3, <1>4, <1>5 DEF Types, OverwritesKnown, Queued, Echoes, IsCurrent, NoHint, NoIntent, Idle
<1> QED BY Zenon, <1>11, <1>12, <1>13, <1>14, <1>15, <1>16, <1>17, <1>18, <1>19, <1>20

LEMMA ReplayStep ==
    ASSUME EditInv, Replay
    PROVE  EditInv'
<1> USE DEF EditInv
<1>1. /\ phase = "replay" /\ phase' = "live"
      /\ UNCHANGED <<capture, journal, environment, work, intent, scanDue, repair, base, saved, history>>
  BY Zenon DEF Replay
<1>2. crashes # 0 /\ work = Idle
  BY Zenon, <1>1 DEF Engine
<1> DEFINE row == [jid |-> journal.pending, own |-> journal.pending, entry |-> FreshEntry]
<1>3. journal.pending # 0 => /\ row \in Hints /\ row # NoHint /\ row.jid = journal.pending /\ row.own = journal.pending
  BY Zenon, FreshEntryIsNew DEF Types, Journals, Hints, NoHint
<1>4. /\ journal.pending = 0 => dirty' = dirty
      /\ journal.pending # 0 => dirty' = Restored(row)
  BY Zenon DEF Replay
<1> HIDE DEF row
<1>5. dirty' \in Hints /\ (dirty' = NoHint => dirty = NoHint /\ journal.pending = 0)
  BY Zenon, <1>3, <1>4, RestoredIsHint DEF Types
<1>6. dirty'.jid < journal.next
  BY Zenon, <1>3, <1>4, RestoredIsHint DEF Types, Bounds, Journals, Hints
<1> USE DEF capture, environment, history
<1> USE <1>1
<1>11. Types'
  BY Zenon, <1>2, <1>3, <1>4, <1>5, RestoredIsHint DEF Types
<1>12. Bounds'
  BY Zenon, <1>6 DEF Bounds
<1>13. Known'
  BY Zenon, <1>2, <1>3, <1>4, <1>5, RestoredIsHint DEF Known
<1>14. Engine'
  BY Zenon, <1>2, <1>3, <1>4, <1>5, RestoredIsHint DEF Engine
<1>15. Hashing'
  BY Zenon, <1>2, <1>3, <1>4, <1>5, RestoredIsHint DEF Hashing, IsCurrent
<1>16. ToldIsQueued'
  BY Zenon, <1>2, <1>3, <1>4, <1>5, RestoredIsHint DEF ToldIsQueued, Told, Queued, Echoes, IsCurrent, JournalHolds, Engine
<1>17. UntoldIsNoticed'
  BY Zenon, <1>2, <1>3, <1>4, <1>5, RestoredIsHint DEF UntoldIsNoticed
<1>18. JournalHolds'
  BY Zenon, <1>2, <1>3, <1>4, <1>5, RestoredIsHint DEF JournalHolds, IsCurrent, Echoes
<1>19. RetiresOlder'
  <2>1. SUFFICES ASSUME intent # NoIntent, intent.version # disk, disk \notin published,
                        Seen \/ Told, dirty' = NoHint \/ Retirable(intent.through)'
                 PROVE  Watched
    BY Zenon, <1>1, <1>2 DEF RetiresOlder, Seen, Watched, Told, IsCurrent, Idle
  <2>2. Told => disk \in journaled /\ journal.pending # 0 /\ journal.pending > intent.through
    BY Zenon, <1>2, <2>1 DEF Told, JournalHolds
  <2>3. Told => Retirable(intent.through)
    BY SMTT(30), <1>1, <1>3, <1>4, <1>5, <2>1, <2>2, RestoredIsHint DEF Retirable, Types, Hints, Intents, Journals
  <2>4. dirty = NoHint \/ Retirable(intent.through)
    BY SMTT(30), <1>1, <1>3, <1>4, <2>1, RestoredIsHint DEF Retirable, Types, Hints, Intents, Journals
  <2> QED BY Zenon, <2>1, <2>3, <2>4 DEF RetiresOlder
<1>20. OverwritesKnown'
  BY Zenon, <1>1, <1>2, <1>3, <1>4, <1>5, RestoredIsHint DEF OverwritesKnown, Queued, Echoes, IsCurrent
<1> QED BY Zenon, <1>11, <1>12, <1>13, <1>14, <1>15, <1>16, <1>17, <1>18, <1>19, <1>20

-----------------------------------------------------------------------------
(* The theorems.                                                           *)

LEMMA InitHolds == Init => EditInv
<1> SUFFICES ASSUME Init PROVE EditInv
  BY Zenon
<1> USE DEF Init, NoHint, Idle, NoIntent
<1>1. base \in [hash : Nat, stat : Nat] /\ journal \in Journals /\ dirty \in Hints
  BY Zenon DEF Journals, Hints
<1>2. intent \in Intents /\ work \in WorkStates
  BY Zenon DEF Intents, WorkStates, Hints
<1>6. repair \in BOOLEAN /\ saved \in [hash : Nat, stat : Nat]
  BY <1>1, Zenon
<1>7. Types
  BY SMTT(30), <1>1, <1>2, <1>6 DEF Types
<1>8. Bounds /\ Known
  BY SMTT(30) DEF Bounds, Known
<1>4. Engine /\ Hashing /\ JournalHolds /\ RetiresOlder /\ OverwritesKnown
  BY Zenon DEF Engine, Hashing, JournalHolds, RetiresOlder, OverwritesKnown
<1>5. ToldIsQueued /\ UntoldIsNoticed
  BY Zenon DEF ToldIsQueued, Told, UntoldIsNoticed
<1> QED BY Zenon, <1>4, <1>5, <1>7, <1>8 DEF EditInv

LEMMA EditInvStep == EditInv /\ [Next]_vars => EditInv'
<1> SUFFICES ASSUME EditInv, [Next]_vars PROVE EditInv'
  BY Zenon
<1>1. CASE UNCHANGED vars
  BY SMTT(30), <1>1 DEF vars, EditInv, Types, Bounds, Known, Engine, Hashing, ToldIsQueued, Told, Queued, Echoes,
     IsCurrent, UntoldIsNoticed, JournalHolds, RetiresOlder, Seen, Watched, Retirable, OverwritesKnown
<1>2. CASE \E h \in handlers : AppendNotice(h) \/ HashEcho(h) \/ QueueNotice(h) \/ AckEcho(h)
  BY Zenon, <1>2, AppendNoticeStep, HashEchoStep, QueueNoticeStep, AckEchoStep
<1>3. CASE UserEdit \/ RemoteEdit \/ Deliver \/ ExpireEcho
  BY Zenon, <1>3, UserEditStep, RemoteEditStep, DeliverStep, ExpireEchoStep
<1>4. CASE StartPush \/ ReadSource \/ PrepareRoot \/ Dispatch \/ SettlePush \/ FailPush
  BY Zenon, <1>4, StartPushStep, ReadSourceStep, PrepareRootStep, DispatchStep, SettlePushStep, FailPushStep
<1>5. CASE StartRecovery \/ AcceptLate \/ FinishRecovery \/ FailRecovery
  BY Zenon, <1>5, StartRecoveryStep, AcceptLateStep, FinishRecoveryStep, FailRecoveryStep
<1>6. CASE StartPull \/ SkipPull \/ PreparePull \/ CheckPull \/ MoveAside \/ RegisterEcho
             \/ WritePull \/ StatPull \/ CheckpointPull
  BY Zenon, <1>6, StartPullStep, SkipPullStep, PreparePullStep, CheckPullStep, MoveAsideStep,
     RegisterEchoStep, WritePullStep, StatPullStep, CheckpointPullStep
<1>7. CASE StartScan \/ QueueScan \/ Crash \/ Replay
  BY Zenon, <1>7, StartScanStep, QueueScanStep, CrashStep, ReplayStep
<1> QED BY Zenon, <1>1, <1>2, <1>3, <1>4, <1>5, <1>6, <1>7 DEF Next

LEMMA EditInvariant == Spec => []EditInv
BY InitHolds, EditInvStep, PTL DEF Spec

\* A callback that is not taken for an echo is one that is still to leave a hint.
LEMMA InvTracks == EditInv => EditsRemembered
<1> SUFFICES ASSUME EditInv, disk \notin published, crashes = 0 \/ disk \in journaled PROVE Tracked
  BY Zenon DEF EditsRemembered, Unpublished
<1>1. CASE Told
  BY Zenon, <1>1 DEF EditInv, ToldIsQueued, Queued, Echoes, Tracked
<1>2. CASE ~Told
  <2>1. crashes = 0 /\ disk \notin heard
    BY Zenon, <1>2 DEF Told
  <2> QED BY Zenon, <2>1 DEF EditInv, UntoldIsNoticed, Tracked
<1> QED BY Zenon, <1>1, <1>2

\* An edit the server does not have is never forgotten by the session that was told of it
\* and, once journaled, not by the next one either (EditsRemembered), for any number of
\* edits, failures, callbacks in flight and restarts.
THEOREM EditsAreRemembered == Spec => []EditsRemembered
BY EditInvariant, InvTracks, PTL

\* A pull never overwrites bytes the plugin had been told of when the pull last asked for
\* local work, unless the server or a conflict copy has them (PullKeepsEdits).
THEOREM PullsKeepEdits == Spec => PullKeepsEdits
<1>1. EditInv /\ [Next]_vars => [WritePull => disk \in published \/ disk \notin work.knew]_vars
  BY Zenon DEF EditInv, WritePull, OverwritesKnown
<1> QED BY <1>1, EditInvariant, PTL DEF Spec, PullKeepsEdits

=============================================================================
