------------------------------ MODULE LocalChanges ------------------------------
(***************************************************************************)
(* How the plugin remembers a local edit of a file until the server has    *)
(* it (plugin/src/sync.ts, dirty-set.ts, local-event-guards.ts,            *)
(* pull-echo.ts).                                                          *)
(*                                                                         *)
(* One file is modelled: every structure involved is a map by path.  Its   *)
(* contents are version numbers, each user edit and each remote edit being *)
(* a new one; a hash and a stat of a version are the version.  Deleting    *)
(* the file is not modelled, nor a file large enough to be staged (Pull    *)
(* has both).  Vault events arrive late; their callbacks run concurrently  *)
(* with one push, pull, scan or root recovery at a time (`syncing`); the   *)
(* plugin may die at any point.  The journal is what Journal specifies,    *)
(* seen from one path: the highest pending id, and append and acknowledge. *)
(* The root transaction is what RootSync specifies: an intent that is      *)
(* accepted or cancelled, and settled.                                     *)
(***************************************************************************)
EXTENDS Integers

CONSTANTS
    MaxVersion,     \* bound: versions of the file
    MaxFaults,      \* bound: failed pushes
    MaxJournalFaults,   \* bound: failed journal appends
    MaxCrashes      \* bound: restarts

VARIABLES
    disk,       \* the version in the vault
    versions,   \* the newest version made so far
    notices,    \* vault events not delivered yet
    handlers,   \* callbacks in flight
    latest,     \* the newest callback, as LocalEventGuards knows it
    expected,   \* PullEchoTracker: the version a pull wrote, 0 for none
    dirty,      \* DirtyPathSet: the hint of the path
    journal,    \* the journal: highest pending id, next id, usable or not
    base,       \* sync-base in memory: the hash and the stat it recorded
    saved,      \* sync-base on disk
    head,       \* the server's version
    published,  \* history: versions the server was given, and local copies
    journaled,  \* history: versions whose event was durably journaled
    work,       \* the push, pull, scan or recovery holding `syncing`; `knew` is
                \* history: what had been heard of when a pull last asked for local work
    intent,     \* the persisted root intent
    phase,      \* "replay" until the journal was replayed, then "live"
    scanDue,    \* the session's metadata scan is still to come
    repair,     \* rootRepairRequired
    heard,      \* history: versions on disk when an event was delivered
    faults, journalFaults, crashes  \* history: failures

vars == <<disk, versions, notices, handlers, latest, expected, dirty, journal, base, saved,
          head, published, heard, journaled, work, intent, phase, scanDue, repair, faults, journalFaults, crashes>>

NoHint == [jid |-> 0, own |-> 0, entry |-> 0]
Idle == [kind |-> "none", stage |-> "none", hint |-> NoHint, version |-> 0, epoch |-> FALSE,
         knew |-> {}]
NoIntent == [version |-> 0, through |-> 0, accepted |-> FALSE]

Init ==
    /\ disk = 1 /\ versions = 1 /\ notices = 0
    /\ handlers = {} /\ latest = 0 /\ expected = 0
    /\ dirty = NoHint
    /\ journal = [pending |-> 0, next |-> 1, writable |-> TRUE]
    /\ base = [hash |-> 1, stat |-> 1] /\ saved = base
    /\ head = 1 /\ published = {1} /\ heard = {} /\ journaled = {}
    /\ work = Idle /\ intent = NoIntent
    /\ phase = "live" /\ scanDue = TRUE /\ repair = FALSE
    /\ faults = 0 /\ journalFaults = 0 /\ crashes = 0

engine == <<work, intent, phase, scanDue, repair, base, saved>>
capture == <<notices, handlers, latest, expected>>
environment == <<disk, versions, head, published>>
history == <<heard, journaled, faults, journalFaults, crashes>>

-----------------------------------------------------------------------------
(* DirtyPathSet on one path.                                               *)

Larger(m, n) == IF m > n THEN m ELSE n

\* The identity of a new entry object.
FreshEntry == CHOOSE n \in 1 .. 3 : n \notin {dirty.entry, work.hint.entry}

\* add: a new entry with its own journal id, inheriting the older watermark.
Added(jid) == [jid |-> Larger(dirty.jid, jid), own |-> jid, entry |-> FreshEntry]

\* Mutant: a failed transaction's hint replaces the newer one.
BugRestored(hint) == hint

\* restore: the hint comes back unless a newer one is there, which then only
\* inherits its watermark.
Restored(hint) ==
    IF dirty = NoHint THEN hint
    ELSE IF hint.jid <= dirty.jid THEN dirty
    ELSE [dirty EXCEPT !.jid = hint.jid, !.entry = FreshEntry]

\* Mutant: an inherited watermark is enough to retire a hint.
BugRetirable(through) == dirty # NoHint /\ dirty.jid <= through

\* captureRetirement: only a hint that was itself journaled up to the cut.
Retirable(through) ==
    dirty.own # 0 /\ dirty.own <= through /\ dirty.jid <= through

\* The journal acknowledges the path through an id.
AckJournal(through) ==
    [journal EXCEPT !.pending = IF @ <= through THEN 0 ELSE @]

-----------------------------------------------------------------------------
(* The vault: the user, other devices, and vault events.                   *)

UserEdit ==
    /\ versions < MaxVersion
    /\ versions' = versions + 1
    /\ disk' = versions'
    /\ notices' = notices + 1
    /\ UNCHANGED <<handlers, latest, expected, dirty, journal, head, published, engine, history>>

RemoteEdit ==
    /\ versions < MaxVersion
    /\ versions' = versions + 1
    /\ head' = versions'
    /\ published' = published \cup {versions'}
    /\ UNCHANGED <<disk, capture, dirty, journal, engine, history>>

\* queueLocalUpsert up to its first await: acquire the guard, ask for an
\* expected echo, request the journal append.
Deliver ==
    /\ notices > 0
    /\ notices' = notices - 1
    /\ latest' = IF handlers = {} THEN 1 ELSE latest + 1
    /\ heard' = heard \cup {disk}
    /\ handlers' = handlers \cup
          {[n |-> latest', stage |-> "append", jid |-> 0, hash |-> 0,
            echo |-> expected # 0, seen |-> disk]}
    /\ UNCHANGED <<expected, dirty, journal, environment, engine, journaled, faults, journalFaults, crashes>>

IsCurrent(h) == latest = h.n

Advance(h, changed) == handlers' = (handlers \ {h}) \cup {changed}

\* appendLocalJournal: appends resolve in the order they were requested.  A
\* failure leaves the journal unusable and the callback without an id.
AppendNotice(h) ==
    /\ h.stage = "append"
    /\ \A g \in handlers : g.stage = "append" => h.n <= g.n
    /\ LET next(jid) == [h EXCEPT !.jid = jid,
                                  !.stage = IF h.echo /\ IsCurrent(h) THEN "hash" ELSE "queue"]
       IN  \/ /\ journal.writable
              /\ journal' = [journal EXCEPT !.pending = journal.next, !.next = @ + 1]
              /\ journaled' = journaled \cup {h.seen}
              /\ Advance(h, next(journal.next))
              /\ UNCHANGED journalFaults
           \/ /\ journal.writable /\ journalFaults < MaxJournalFaults
              /\ journalFaults' = journalFaults + 1
              /\ \E tookEffect \in BOOLEAN :
                    journal' = IF tookEffect
                               THEN [pending |-> journal.next, next |-> journal.next + 1, writable |-> FALSE]
                               ELSE [journal EXCEPT !.writable = FALSE]
              /\ Advance(h, next(0))
              /\ UNCHANGED journaled
           \/ /\ ~journal.writable
              /\ Advance(h, next(0))
              /\ UNCHANGED <<journal, journaled, journalFaults>>
    /\ UNCHANGED <<notices, latest, expected, dirty, environment, engine, heard, faults, crashes>>

\* pullEchoHash: the hash of the bytes on disk, or none.
HashEcho(h) ==
    /\ h.stage = "hash"
    /\ \E hash \in {disk, 0} : Advance(h, [h EXCEPT !.hash = hash, !.stage = "queue"])
    /\ UNCHANGED <<notices, latest, expected, dirty, journal, environment, engine, history>>

\* consumeUpsert.
IsEcho(h) == expected = h.hash

\* queueLocalUpsert's end: a recognised echo is acknowledged, any other event
\* leaves a hint; a superseded callback only restores one.
QueueNotice(h) ==
    /\ h.stage = "queue"
    /\ LET consumes == IsCurrent(h) /\ h.hash # 0 /\ expected # 0
       IN  /\ expected' = IF consumes THEN 0 ELSE expected
           /\ IF consumes /\ IsEcho(h)
              THEN /\ Advance(h, [h EXCEPT !.stage = "ack"])
                   /\ UNCHANGED dirty
              ELSE /\ handlers' = handlers \ {h}
                   /\ dirty' = IF IsCurrent(h) THEN Added(h.jid)
                               ELSE Restored([jid |-> h.jid, own |-> 0, entry |-> FreshEntry])
    /\ UNCHANGED <<notices, latest, journal, environment, engine, history>>

\* The echo's own journal row is acknowledged.
AckEcho(h) ==
    /\ h.stage = "ack"
    /\ handlers' = handlers \ {h}
    /\ IF h.jid # 0 /\ journal.writable
       THEN journal' = AckJournal(h.jid)
       ELSE UNCHANGED journal
    /\ UNCHANGED <<notices, latest, expected, dirty, environment, engine, history>>

\* An expectation outlives its time.
ExpireEcho ==
    /\ expected # 0
    /\ expected' = 0
    /\ UNCHANGED <<notices, handlers, latest, dirty, journal, environment, engine, history>>

-----------------------------------------------------------------------------
(* Push.                                                                   *)

Changed == dirty # NoHint \/ handlers # {}

Free == work = Idle /\ phase = "live" /\ ~repair

\* pushPendingInner: claims the hint of its selection, and the journal epoch
\* its acknowledgement will need.
StartPush ==
    /\ Free
    /\ dirty # NoHint
    /\ work' = [Idle EXCEPT !.kind = "push", !.stage = "read", !.hint = dirty, !.epoch = journal.writable]
    /\ dirty' = NoHint
    /\ UNCHANGED <<capture, journal, environment, intent, phase, scanDue, repair, base, saved, history>>

\* The claimed source is read; the bytes are hashed as they are read.
ReadSource ==
    /\ work.kind = "push" /\ work.stage = "read"
    /\ work' = [work EXCEPT !.version = disk, !.stage = "prepare"]
    /\ UNCHANGED <<capture, dirty, journal, environment, intent, phase, scanDue, repair, base, saved, history>>

\* assertApplicable: no newer hint and no callback in flight.
Applicable == ~Changed

\* publish: persists the intent, with the journal cut of the claim.
PrepareRoot ==
    /\ work.kind = "push" /\ work.stage = "prepare"
    /\ Applicable /\ work.epoch
    /\ intent' = [version |-> work.version, through |-> work.hint.jid, accepted |-> FALSE]
    /\ work' = [work EXCEPT !.stage = "dispatch"]
    /\ UNCHANGED <<capture, dirty, journal, environment, phase, scanDue, repair, base, saved, history>>

\* The server accepts the intent: a fast-forward or, where its version moved
\* on, a merge that keeps the server's and preserves ours as a copy.
ServerAccepts ==
    /\ head' = IF head = base.hash THEN intent.version ELSE head
    /\ published' = published \cup {intent.version}

\* The last admission check, then the request.
Dispatch ==
    /\ work.kind = "push" /\ work.stage = "dispatch"
    /\ Applicable
    /\ ServerAccepts
    /\ intent' = [intent EXCEPT !.accepted = TRUE]
    /\ work' = [work EXCEPT !.stage = "settle"]
    /\ UNCHANGED <<disk, versions, capture, dirty, journal, phase, scanDue, repair, base, saved, history>>

Settled == [hash |-> intent.version, stat |-> intent.version]

\* The exact cut persisted with the intent.
SettlementCut == intent.through

\* Root settlement: the base and its journal cut, then the intent is retired.
SettlePush ==
    /\ work.kind = "push" /\ work.stage = "settle"
    /\ journal.writable
    /\ base' = Settled /\ saved' = Settled
    /\ journal' = AckJournal(SettlementCut)
    /\ intent' = NoIntent
    /\ work' = Idle
    /\ UNCHANGED <<capture, dirty, environment, phase, scanDue, repair, history>>

\* pushPendingInner's catch: a drifted source, a lost reply or a failed write.
\* The claim is restored; a root that was attempted needs recovery.
FailPush ==
    /\ work.kind = "push"
    /\ \/ /\ work.stage \in {"prepare", "dispatch"} /\ ~Applicable
          /\ UNCHANGED faults
       \/ /\ work.stage = "prepare" /\ ~work.epoch
          /\ UNCHANGED faults
       \/ /\ work.stage = "settle" /\ ~journal.writable
          /\ UNCHANGED faults
       \/ /\ faults < MaxFaults
          /\ faults' = faults + 1
    /\ dirty' = Restored(work.hint)
    /\ repair' = (work.stage \in {"dispatch", "settle"})
    /\ work' = Idle
    /\ UNCHANGED <<capture, journal, environment, intent, phase, scanDue, base, saved, heard, journaled, journalFaults, crashes>>

-----------------------------------------------------------------------------
(* Recovery of the last root.                                              *)

\* recoverRootBeforeWork up to resolvePending: stores are reloaded and the
\* hint the pending intent may retire is captured.
StartRecovery ==
    /\ work = Idle /\ phase = "live" /\ repair
    /\ base' = saved
    /\ journal' = [journal EXCEPT !.writable = TRUE]
    /\ work' = [Idle EXCEPT !.kind = "recover", !.stage = "resolve", !.epoch = TRUE,
                            !.hint = IF intent # NoIntent /\ Retirable(intent.through)
                                     THEN dirty ELSE NoHint]
    /\ UNCHANGED <<capture, dirty, environment, intent, phase, scanDue, repair, saved, history>>

\* A prepared intent may still be accepted when it is resolved.
AcceptLate ==
    /\ work.kind = "recover" /\ intent # NoIntent /\ ~intent.accepted
    /\ ServerAccepts
    /\ intent' = [intent EXCEPT !.accepted = TRUE]
    /\ UNCHANGED <<disk, versions, capture, dirty, journal, work, phase, scanDue, repair, base, saved, history>>

\* resolvePending and what follows: an accepted intent is settled and its
\* captured hint retired if it is still the same entry; any other is cancelled.
FinishRecovery ==
    /\ work.kind = "recover"
    /\ journal.writable
    /\ IF intent.accepted
       THEN /\ base' = Settled /\ saved' = Settled
            /\ journal' = AckJournal(SettlementCut)
            /\ dirty' = IF work.hint # NoHint /\ work.hint = dirty THEN NoHint ELSE dirty
       ELSE UNCHANGED <<base, saved, journal, dirty>>
    /\ intent' = NoIntent
    /\ repair' = FALSE
    /\ work' = Idle
    /\ UNCHANGED <<capture, environment, phase, scanDue, history>>

\* Recovery failed; it is tried again.
FailRecovery ==
    /\ work.kind = "recover" /\ ~journal.writable
    /\ work' = Idle
    /\ UNCHANGED <<capture, dirty, journal, environment, intent, phase, scanDue, repair, base, saved, history>>

-----------------------------------------------------------------------------
(* Pull.                                                                   *)

\* Mutant: only what the journal knew when the pull began is protected.
BugSkips == work.version = 0 \/ work.stage = "skip"

\* unsyncedLocalPaths: journaled when the pull began, or changed since.
Skips == work.stage = "skip" \/ Changed

\* pull: a delta for the path; the journal's pending paths are captured.
StartPull ==
    /\ Free
    /\ head # base.hash
    /\ work' = [Idle EXCEPT !.kind = "pull", !.version = head,
                            !.stage = IF journal.pending # 0 \/ ~journal.writable
                                      THEN "skip" ELSE "prepare"]
    /\ UNCHANGED <<capture, dirty, journal, environment, intent, phase, scanDue, repair, base, saved, history>>

\* A path with local work is left alone, and the base with it.
SkipPull ==
    /\ work.kind = "pull" /\ work.stage \in {"skip", "prepare", "overwrite", "preserve"}
    /\ Skips
    /\ work' = Idle
    /\ UNCHANGED <<capture, dirty, journal, environment, intent, phase, scanDue, repair, base, saved, history>>

\* prepareContentDelta: nothing to do, safe to overwrite the last-synced
\* bytes, or unknown bytes to move aside first.
PreparePull ==
    /\ work.kind = "pull" /\ work.stage = "prepare"
    /\ ~Skips
    /\ IF disk = work.version
       THEN /\ base' = [hash |-> work.version, stat |-> disk]
            /\ work' = [work EXCEPT !.stage = "drain"]
       ELSE /\ work' = [work EXCEPT !.stage = IF disk = base.hash THEN "overwrite" ELSE "preserve"]
            /\ UNCHANGED base
    /\ UNCHANGED <<capture, dirty, journal, environment, intent, phase, scanDue, repair, saved, history>>

\* finishContentDownload: the last question for local work.  Bytes that may be
\* overwritten have their echo registered in the same turn.
CheckPull ==
    /\ work.kind = "pull" /\ work.stage \in {"overwrite", "preserve"}
    /\ ~Skips
    /\ IF work.stage = "overwrite"
       THEN /\ expected' = work.version
            /\ work' = [work EXCEPT !.stage = "write", !.knew = heard]
       ELSE /\ work' = [work EXCEPT !.stage = "aside", !.knew = heard]
            /\ UNCHANGED expected
    /\ UNCHANGED <<notices, handlers, latest, dirty, journal, environment, intent, phase, scanDue, repair,
                   base, saved, history>>

\* renameFile: whatever the file holds by now becomes a conflict copy.  The path
\* is then free; until the write, only an edit can put bytes there.
MoveAside ==
    /\ work.kind = "pull" /\ work.stage = "aside"
    /\ published' = published \cup {disk}
    /\ work' = [work EXCEPT !.stage = "clear"]
    /\ UNCHANGED <<disk, versions, head, capture, dirty, journal, intent, phase, scanDue, repair, base, saved,
                   history>>

\* beforeWrite, once the rename has returned.
RegisterEcho ==
    /\ work.kind = "pull" /\ work.stage = "clear"
    /\ expected' = work.version
    /\ work' = [work EXCEPT !.stage = "write"]
    /\ UNCHANGED <<notices, handlers, latest, dirty, journal, environment, intent, phase, scanDue, repair,
                   base, saved, history>>

\* writeFile: the bytes reach the path after its directory was looked up.  Nobody
\* asks for local work again.
WritePull ==
    /\ work.kind = "pull" /\ work.stage = "write"
    /\ disk' = work.version
    /\ notices' = notices + 1
    /\ work' = [work EXCEPT !.stage = "stat"]
    /\ UNCHANGED <<versions, head, published, handlers, latest, expected, dirty, journal, intent, phase, scanDue,
                   repair, base, saved, history>>

\* The entry is recorded with the stat the file has now.
StatPull ==
    /\ work.kind = "pull" /\ work.stage = "stat"
    /\ base' = [hash |-> work.version, stat |-> disk]
    /\ work' = [work EXCEPT !.stage = "drain"]
    /\ UNCHANGED <<capture, dirty, journal, environment, intent, phase, scanDue, repair, saved, history>>

\* The batch's checkpoint, once the echo callbacks have settled.
CheckpointPull ==
    /\ work.kind = "pull" /\ work.stage = "drain"
    /\ \A h \in handlers : ~h.echo
    /\ saved' = base
    /\ work' = Idle
    /\ UNCHANGED <<capture, dirty, journal, environment, intent, phase, scanDue, repair, base, history>>

-----------------------------------------------------------------------------
(* Metadata scan, restart.                                                 *)

\* partialMtimeScan: a stat that differs from the base is hashed.
StartScan ==
    /\ Free /\ scanDue
    /\ scanDue' = FALSE
    /\ IF disk = base.stat THEN UNCHANGED <<base, saved, work>>
       ELSE IF disk = base.hash
       THEN /\ base' = [base EXCEPT !.stat = disk] /\ saved' = base'
            /\ UNCHANGED work
       ELSE /\ work' = [Idle EXCEPT !.kind = "scan", !.stage = "queue", !.version = disk]
            /\ UNCHANGED <<base, saved>>
    /\ UNCHANGED <<capture, dirty, journal, environment, intent, phase, repair, history>>

\* queueScanChangesDurably: journaled first, then queued.
QueueScan ==
    /\ work.kind = "scan"
    /\ IF journal.writable
       THEN /\ journal' = [journal EXCEPT !.pending = journal.next, !.next = @ + 1]
            /\ journaled' = journaled \cup {work.version}
            /\ dirty' = Added(journal.next)
       ELSE UNCHANGED <<journal, journaled, dirty>>
    /\ work' = Idle
    /\ UNCHANGED <<capture, environment, intent, phase, scanDue, repair, base, saved, heard, faults, journalFaults, crashes>>

\* The plugin dies and is started again; the user may have edited meanwhile.
Crash ==
    /\ crashes < MaxCrashes
    /\ crashes' = crashes + 1
    /\ notices' = 0 /\ handlers' = {} /\ latest' = 0 /\ expected' = 0
    /\ dirty' = NoHint
    /\ journal' = [journal EXCEPT !.writable = TRUE]
    /\ base' = saved
    /\ work' = Idle
    /\ phase' = "replay" /\ scanDue' = TRUE
    /\ repair' = TRUE
    /\ UNCHANGED <<environment, saved, intent, heard, journaled, faults, journalFaults>>

\* recoverFromJournal: pending rows become hints that own their journal id.
Replay ==
    /\ phase = "replay"
    /\ phase' = "live"
    /\ dirty' = IF journal.pending = 0 THEN dirty
                ELSE Restored([jid |-> journal.pending, own |-> journal.pending, entry |-> FreshEntry])
    /\ UNCHANGED <<capture, journal, environment, work, intent, scanDue, repair, base, saved, history>>

Next ==
    \/ UserEdit \/ RemoteEdit \/ Deliver \/ ExpireEcho
    \/ \E h \in handlers : AppendNotice(h) \/ HashEcho(h) \/ QueueNotice(h) \/ AckEcho(h)
    \/ StartPush \/ ReadSource \/ PrepareRoot \/ Dispatch \/ SettlePush \/ FailPush
    \/ StartRecovery \/ AcceptLate \/ FinishRecovery \/ FailRecovery
    \/ StartPull \/ SkipPull \/ PreparePull \/ CheckPull \/ MoveAside \/ RegisterEcho
    \/ WritePull \/ StatPull \/ CheckpointPull
    \/ StartScan \/ QueueScan \/ Crash \/ Replay

Spec == Init /\ [][Next]_vars

\* Events are delivered and their callbacks run.
CallbackProgress ==
    \/ Deliver
    \/ \E h \in handlers : AppendNotice(h) \/ HashEcho(h) \/ QueueNotice(h) \/ AckEcho(h)

\* Storage and network answers come back to the operation in progress.
EngineProgress ==
    \/ ReadSource \/ PrepareRoot \/ Dispatch \/ SettlePush \/ FailPush
    \/ StartRecovery \/ FinishRecovery \/ FailRecovery
    \/ SkipPull \/ PreparePull \/ CheckPull \/ MoveAside \/ RegisterEcho
    \/ WritePull \/ StatPull \/ CheckpointPull
    \/ QueueScan \/ Replay

\* The push coalescer and the pull timer keep firing; each operation that ends
\* triggers the push again when hints are left.
FairSpec ==
    /\ Spec
    /\ WF_vars(CallbackProgress) /\ WF_vars(EngineProgress)
    /\ SF_vars(StartPush) /\ SF_vars(StartPull)

-----------------------------------------------------------------------------
\* Shape of the state.
TypeOK ==
    /\ {disk, versions, head} \subseteq 1 .. MaxVersion
    /\ published \cup journaled \cup heard \subseteq 1 .. MaxVersion
    /\ disk <= versions /\ head <= versions
    /\ expected \in 0 .. MaxVersion
    /\ dirty.own <= dirty.jid /\ dirty.jid < journal.next
    /\ journal.pending < journal.next
    /\ \A h \in handlers : h.stage \in {"append", "hash", "queue", "ack"} /\ h.n <= latest
    /\ work.kind \in {"none", "push", "pull", "scan", "recover"}
    /\ phase \in {"replay", "live"}
    /\ intent.accepted => intent.version \in published

Unpublished == disk \notin published

\* Someone in this session will still act on what is on disk now.
Tracked ==
    \/ dirty # NoHint
    \/ notices > 0
    \/ \E h \in handlers : h.stage # "ack"
    \/ work.kind = "push" /\ work.version \in {0, disk}
    \/ work.kind = "scan"
    \/ phase = "replay" /\ journal.pending # 0

\* An edit the server does not have is never forgotten: not by an event taken for
\* a pull's echo, not by a push that read older bytes, not by a retired or
\* restored hint, and after a restart not if its event had been journaled.
EditsRemembered ==
    Unpublished /\ (crashes = 0 \/ disk \in journaled) => Tracked

\* A pull overwrites bytes only if the server or a conflict copy has them, or no
\* event had told the plugin about them when the pull last asked for local work.
\* The write is not made in the turn of that question: finishContentDownload awaits
\* the existence test, the rename and the directory lookup in between, and an edit
\* that is only heard of there is overwritten.
PullKeepsEdits ==
    [][WritePull => disk \in published \/ disk \notin work.knew]_vars

\* The vault and the server agree on the file, nothing is queued and no journal row
\* is left to hold back later pulls.
InSync == disk = head /\ disk \in published /\ dirty = NoHint /\ journal.pending = 0

\* With the journal and the server available, editing stops mattering: the file
\* comes to be in sync and stays so.
Converges == <>[]InSync
=============================================================================
