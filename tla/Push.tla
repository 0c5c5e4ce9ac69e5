-------------------------------- MODULE Push --------------------------------
(***************************************************************************)
(* plugin/src/push.ts: one device uploads the content behind its reviewed  *)
(* changes batch by batch, builds the candidate tree and publishes it.     *)
(* Files change on disk while it runs, the event of a change arrives       *)
(* later, memory ceilings move, requests fail, and the server may find an  *)
(* object it once confirmed unreadable.                                    *)
(*                                                                         *)
(* A version of a file stands for its mtime and size; Content[p][v] is the *)
(* content of version v of p, "none" when the file is absent.              *)
(***************************************************************************)
EXTENDS Naturals, Sequences, FiniteSets, FiniteSetsExt, Functions

CONSTANTS
    Order,       \* the paths in their reviewed order
    Content,     \* [Paths -> sequence of contents, one per version]
    Hinted,      \* paths whose dirty hint carries the hash of the small file
    Chunks,      \* [large contents -> set of their content chunks]
    Need,        \* [contents -> bytes a batch reserves for the file]
    Links,       \* the rename groups (sets of paths)
    MaxFiles,    \* files of one batch
    Boundary,    \* files between two looks at the slice limits
    Capacities,  \* ceilings the transient memory budget moves between
    MaxConfirmed,\* records the confirmation store keeps
    MaxFaults, MaxLosses, MaxResizes, MaxDisturbances, MaxUrgent

Paths == Range(Order)
Contents == UNION {Range(Content[p]) : p \in Paths} \ {"none"}
Large == DOMAIN Chunks

\* The batch plan hands out disjoint groups of the paths it selects.
ASSUME PushAssumption ==
    /\ Order \in Seq(Paths)
    /\ \A g \in Links : g \subseteq Paths
    /\ \A g, h \in Links : g = h \/ g \cap h = {}
    /\ {MaxFiles, Boundary} \subseteq Nat \ {0}

VARIABLES
    disk,      \* the version of each file on disk
    live,      \* the version whose event the plugin has journaled
    pending,   \* the paths the dirty set owes the server
    links,     \* rename groups not settled yet
    cooled,    \* sources refused by an earlier push
    tree,      \* the committed tree: path -> [hash, mtime]
    base,      \* the tree descends from a root of the server
    objects,   \* the objects the server can read
    confirmed, \* the durable presence confirmations
    capacity,  \* the memory ceiling
    pc,
    sel,       \* the changes of this push
    claim,     \* per path: the journaled version and the version stat saw
    queue,     \* changes not batched yet
    splits,    \* splitBatches, last one next
    batch, ready, needed, done, deferred,
    decided,   \* sliceDecision
    urgents,   \* urgent changes that have preempted a push
    held, cont,\* sliceSuffix
    look,      \* the lookahead promise
    hints,     \* lookaheadNeeded
    cand,      \* the candidate tree
    published, \* history: the paths of the publication under way
    faults, losses, resizes

env == <<disk, live, capacity, faults, losses, resizes>>
owed == <<pending, links, cooled, tree, base>>
work == <<sel, claim, deferred, decided, urgents, held, cont>>
loop == <<queue, splits, batch, ready, needed, done>>
ahead == <<look, hints>>
out == <<cand, published>>
vars == <<env, owed, objects, confirmed, pc, work, loop, ahead, out>>

\* The members of S in the sequence s, in its order.
Select(s, S) ==
    LET kept[i \in 0..Len(s)] ==
            IF i = 0 THEN <<>>
            ELSE IF s[i] \in S THEN Append(kept[i - 1], s[i]) ELSE kept[i - 1]
    IN  kept[Len(s)]

Gone == [hash |-> "none", mtime |-> 0]
Entry(p, v) ==
    IF Content[p][v] = "none" THEN Gone ELSE [hash |-> Content[p][v], mtime |-> v]

\* The objects a file's content is probed by, and all it is stored in.
Probed(h) == IF h \in Large THEN {<<"chunk", c>> : c \in Chunks[h]} ELSE {<<"content", h>>}
Manifest(h) == IF h \in Large THEN {<<"manifest", h>>} ELSE {}
Index(t) == <<"index", t>>

\* What the server walks before it accepts a root.
Backing(t) ==
    {Index(t)} \cup UNION {Probed(t[p].hash) \cup Manifest(t[p].hash) :
                           p \in {q \in Paths : t[q] # Gone}}

Init ==
    /\ disk = [p \in Paths |-> 1] /\ live = disk
    /\ base \in BOOLEAN
    /\ tree = [p \in Paths |-> IF base /\ Content[p][1] = "none"
                               THEN [hash |-> CHOOSE h \in Contents : h \notin Large, mtime |-> 0]
                               ELSE Gone]
    /\ pending = Paths /\ links = Links /\ cooled = {}
    /\ objects = IF base THEN Backing(tree) ELSE {}
    /\ confirmed = {} /\ capacity = Max(Capacities)
    /\ pc = "idle" /\ sel = {} /\ claim = [p \in Paths |-> [gen |-> 1, ver |-> 1]]
    /\ queue = <<>> /\ splits = <<>> /\ batch = <<>> /\ ready = <<>>
    /\ needed = {} /\ done = <<>> /\ deferred = {} /\ decided = FALSE /\ urgents = 0
    /\ held = {} /\ cont = {} /\ look = "none" /\ hints = {}
    /\ cand = tree /\ published = {}
    /\ faults = 0 /\ losses = 0 /\ resizes = 0

-----------------------------------------------------------------------------
(* The world around a push. *)

Edit(p) ==
    /\ disk[p] < Len(Content[p])
    /\ disk' = [disk EXCEPT ![p] = @ + 1]
    /\ UNCHANGED <<live, capacity, faults, losses, resizes, owed, objects, confirmed, pc,
                   work, loop, ahead, out>>

\* The vault event of an edit, or a scan, reaches the journal and the dirty set.
Notice(p) ==
    /\ live[p] # disk[p]
    /\ live' = [live EXCEPT ![p] = disk[p]]
    /\ pending' = pending \cup {p} /\ cooled' = cooled \ {p}
    /\ UNCHANGED <<disk, capacity, faults, losses, resizes, links, tree, base, objects,
                   confirmed, pc, work, loop, ahead, out>>

\* Fewer than MaxDisturbances faults, losses and ceilings so far.
Quiet == faults + losses + resizes < MaxDisturbances

\* The memory policy moves the ceiling; cooled sources are tried again when it grows.
Resize(c) ==
    /\ resizes < MaxResizes /\ Quiet /\ c # capacity
    /\ resizes' = resizes + 1 /\ capacity' = c
    /\ cooled' = IF c > capacity THEN {} ELSE cooled
    /\ UNCHANGED <<disk, live, faults, losses, pending, links, tree, base, objects, confirmed,
                   pc, work, loop, ahead, out>>

\* A stored object no published tree needs turns out unreadable.
Lose(o) ==
    /\ losses < MaxLosses /\ Quiet /\ o \in objects \ Backing(tree)
    /\ losses' = losses + 1 /\ objects' = objects \ {o}
    /\ UNCHANGED <<disk, live, capacity, faults, resizes, owed, confirmed, pc, work, loop,
                   ahead, out>>

-----------------------------------------------------------------------------
(* Claiming the changes. *)

Deletion(p) == Content[p][claim[p].ver] = "none"
Changes == Select(Order, sel)
HashOf(p) == Content[p][claim[p].ver]
Groups == {g \in links : g \subseteq sel}

\* While a source cools no deletion is claimed, and a group moves as one.
Free(p) ==
    /\ p \in pending \ cooled
    /\ (pending \cap cooled # {} => Content[p][disk[p]] # "none")
Runnable == {p \in pending : Free(p) /\ \A g \in links : p \in g => \A q \in g : Free(q)}

Start ==
    /\ pc = "idle" /\ Runnable # {}
    /\ sel' = Runnable
    /\ claim' = [p \in Paths |-> [gen |-> live[p], ver |-> disk[p]]]
    /\ queue' = Select(Order, {p \in Runnable : Content[p][disk[p]] # "none"})
    /\ splits' = <<>> /\ batch' = <<>> /\ ready' = <<>> /\ needed' = {} /\ done' = <<>>
    /\ deferred' = {} /\ decided' = FALSE /\ held' = {} /\ cont' = {}
    /\ cand' = tree /\ published' = {}
    /\ pc' = "select"
    /\ UNCHANGED <<env, owed, objects, confirmed, urgents, ahead>>

\* Mutant: a newer journaled edit does not stop the publication.
BugApplicable(p) == TRUE

\* rootContext.assertApplicable: no newer generation was journaled.
Applicable(p) == live[p] = claim[p].gen

\* Mutant: a read is not compared with the stat of the claim.
BugUnchanged(p) == TRUE

\* The stat comparison around every read of a source.
Unchanged(p) == disk[p] = claim[p].ver

\* The hint names the content without a read: same stat, small file.
KnownHash(p) == p \in Hinted /\ claim[p].gen = claim[p].ver /\ HashOf(p) \notin Large

\* retainDurableObjectConfirmations, bounded by the store; manifests are never kept.
Retain(os) ==
    LET kept == confirmed \cup {o \in os : o[1] # "manifest"}
    IN  IF Cardinality(kept) <= MaxConfirmed THEN kept ELSE confirmed

-----------------------------------------------------------------------------
(* Slices: the prefix of the changes a push may publish before the rest. *)

\* Mutant: the cut ignores groups that lie on both sides of it.
BugSafeBoundary(processed) ==
    LET open == {i \in 1..Len(Changes) : ~Deletion(Changes[i]) /\ Changes[i] \notin processed \cup deferred}
        cut == IF open = {} THEN Len(Changes) + 1 ELSE Min(open)
        rest == {Changes[i] : i \in cut..Len(Changes)}
    IN  [safe |-> TRUE, held |-> rest, continuation |-> rest \ deferred]

\* rootSliceSuffixAtSafeBoundary: everything from the first unprocessed upsert on,
\* unless a group without a deferred member lies across the cut.
SafeBoundary(processed) ==
    LET open == {i \in 1..Len(Changes) : ~Deletion(Changes[i]) /\ Changes[i] \notin processed \cup deferred}
        cut == IF open = {} THEN Len(Changes) + 1 ELSE Min(open)
        rest == {Changes[i] : i \in cut..Len(Changes)}
        crossing == {g \in Groups : /\ g \cap deferred = {}
                                    /\ g \cap rest # {} /\ g \ rest # {}}
    IN  [safe |-> crossing = {}, held |-> rest, continuation |-> rest \ deferred]

\* selectPreparedSlice: does the prepared prefix rd close a slice of this batch?
Remaining(rd) == (Range(batch) \ (DOMAIN rd \cup deferred) # {}) \/ splits # <<>> \/ queue # <<>>
PrefixBoundary(rd) == SafeBoundary(DOMAIN done \cup DOMAIN rd)
Cuts(rd) ==
    LET b == PrefixBoundary(rd)
    IN  /\ Remaining(rd) /\ b.safe /\ b.continuation # {}
        /\ Range(batch) \cap (b.held \ deferred) # {}

\* The first k prepared files of rd, in the order of the batch.
Prefix(rd, k) ==
    LET names == Select(batch, DOMAIN rd)
    IN  Restrict(rd, Range(SubSeq(names, 1, k)))
Windows(rd) == {Min({k * Boundary, Cardinality(DOMAIN rd)}) : k \in 1..Len(batch)}

\* rootSlice.shouldPreempt: an urgent change waits. A decision stands for the push.
Preempt == {FALSE} \cup {u \in {TRUE} : urgents < MaxUrgent}
Decide(now) ==
    /\ decided' = now
    /\ urgents' = IF now /\ ~decided THEN urgents + 1 ELSE urgents

\* One look at the limits with rd prepared. Once decided, the decision stands; the
\* held files return to the local iterator as a batch of their own.
Slice(rd, ks, urgent) ==
    LET now == decided \/ (urgent /\ \E k \in ks : Remaining(Prefix(rd, k)))
        cutting == {k \in ks : now /\ k > 0 /\ Cuts(Prefix(rd, k))}
        b == PrefixBoundary(Prefix(rd, Min(cutting)))
    IN  /\ Decide(now)
        /\ IF cutting = {}
           THEN ready' = rd /\ UNCHANGED <<batch, splits>>
           ELSE /\ ready' = Restrict(rd, DOMAIN rd \ b.held)
                /\ batch' = Select(batch, Range(batch) \ b.held)
                /\ splits' = Append(splits, Select(batch, b.held \ deferred))
AllReady(rd) == {Cardinality(DOMAIN rd)}

-----------------------------------------------------------------------------
(* The batch loop. *)

Bytes(b) == MapThenSumSet(LAMBDA p : Need[HashOf(p)], Range(b))

\* An awaited call rejects: the loop stops and joins its lookahead.
Fail == /\ pc' = "joining"
        /\ UNCHANGED <<env, owed, objects, confirmed, work, loop, ahead, out>>

\* The next batch: the last split, or a prefix of small files, or one large file.
\* Over the ceiling it is halved; a single file is deferred.
SelectBatch ==
    /\ pc = "select" /\ look = "none" /\ (splits # <<>> \/ queue # <<>>)
    /\ \E k \in 1..Min({MaxFiles, Max({1, Len(queue)})}) :
         LET b == IF splits # <<>> THEN splits[Len(splits)] ELSE SubSeq(queue, 1, k)
             rest == IF splits # <<>> THEN SubSeq(splits, 1, Len(splits) - 1) ELSE <<>>
             mid == (Len(b) + 1) \div 2
         IN  /\ splits # <<>> => k = 1
             /\ splits = <<>> /\ k > 1 => \A i \in 1..k : HashOf(queue[i]) \notin Large
             /\ queue' = IF splits # <<>> THEN queue ELSE SubSeq(queue, k + 1, Len(queue))
             /\ \/ /\ Bytes(b) <= capacity
                   /\ batch' = b /\ splits' = rest /\ pc' = "reserve"
                   /\ UNCHANGED deferred
                \/ /\ Bytes(b) > capacity /\ Len(b) > 1
                   /\ splits' = rest \o <<SubSeq(b, mid + 1, Len(b)), SubSeq(b, 1, mid)>>
                   /\ UNCHANGED <<batch, pc, deferred>>
                \/ /\ Bytes(b) > capacity /\ Len(b) = 1
                   /\ splits' = rest /\ deferred' = deferred \cup Range(b)
                   /\ UNCHANGED <<batch, pc>>
    /\ UNCHANGED <<env, owed, objects, confirmed, sel, claim, decided, urgents, held, cont,
                   ready, needed, done, ahead, out>>

\* The reservation waited; a ceiling that shrank meanwhile sends the batch back.
Reserve ==
    /\ pc = "reserve"
    /\ IF Bytes(batch) <= capacity
       THEN pc' = "prepare" /\ UNCHANGED <<splits, batch>>
       ELSE pc' = "select" /\ splits' = Append(splits, batch) /\ batch' = <<>>
    /\ ready' = <<>> /\ needed' = {}
    /\ UNCHANGED <<env, owed, objects, confirmed, work, queue, done, ahead, out>>

Window == {batch[i] : i \in {j \in 1..Len(batch) : /\ j > Cardinality(DOMAIN ready)
                                                   /\ j <= Cardinality(DOMAIN ready) + Boundary}}

\* Phase A, one window: the hash of each file, from the hint or from the source, then
\* a look at the slice limits.
PrepareWindow ==
    /\ pc = "prepare"
    /\ LET read == {p \in Window : ~KnownHash(p)}
           rd == [p \in DOMAIN ready \cup Window |->
                     IF p \in DOMAIN ready THEN ready[p]
                     ELSE IF p \in read THEN Content[p][disk[p]] ELSE HashOf(p)]
       IN  IF \E p \in read : ~Unchanged(p) THEN Fail
           ELSE /\ \E urgent \in Preempt : Slice(rd, AllReady(rd), urgent)
                /\ pc' = IF DOMAIN rd = Range(batch) \/ batch' # batch THEN "check" ELSE "prepare"
                /\ UNCHANGED <<env, owed, objects, confirmed, sel, claim, deferred, held, cont,
                               queue, needed, done, ahead, out>>

\* A large source whose ranges cannot be read is deferred after admission.
RangeUnavailable ==
    /\ pc = "prepare" /\ faults < MaxFaults /\ Quiet
    /\ \E p \in Paths : batch = <<p>> /\ HashOf(p) \in Large /\ deferred' = deferred \cup {p}
    /\ faults' = faults + 1 /\ pc' = "after"
    /\ UNCHANGED <<disk, live, capacity, losses, resizes, owed, objects, confirmed, sel, claim,
                   decided, urgents, held, cont, loop, ahead, out>>

\* Phase B: ask the server for what neither the lookahead nor a confirmation answers,
\* and speculate on the next window while the answer is awaited.
CheckBatch ==
    /\ pc = "check"
    /\ LET probed == UNION {Probed(ready[p]) : p \in DOMAIN ready}
           unchecked == probed \ (hints \cup confirmed)
       IN  /\ needed' = (probed \cap hints) \cup (unchecked \ objects)
           /\ hints' = hints \ probed
           /\ confirmed' = Retain(unchecked \cap objects)
    /\ look' = IF look = "none" /\ splits = <<>> /\ queue # <<>> THEN "running" ELSE look
    /\ \E urgent \in Preempt :
         Slice(ready, IF decided THEN AllReady(ready) ELSE Windows(ready), urgent)
    /\ pc' = "read"
    /\ UNCHANGED <<env, owed, objects, sel, claim, deferred, held, cont, queue, done, out>>

\* preparePushLookahead: the missing hashes of the next small window, or of one large
\* file; drift and failure only discard the window. Present is never cached.
Lookahead ==
    /\ look = "running" /\ look' = "none"
    /\ LET small == {k \in 1..Min({MaxFiles, Len(queue)}) :
                        \A i \in 1..k : HashOf(queue[i]) \notin Large}
           window == Range(SubSeq(queue, 1, Max(small \cup {1})))
           probed == UNION {Probed(HashOf(p)) : p \in window}
       IN  \/ /\ \A p \in window : (KnownHash(p) \/ Unchanged(p)) /\ Applicable(p)
              /\ hints' = hints \cup (probed \ objects)
           \/ UNCHANGED hints
    /\ UNCHANGED <<env, owed, objects, confirmed, pc, work, loop, out>>

\* Phase C: the needed small files the hint let phase A skip, first of each hash.
Lazy ==
    LET names == Select(batch, DOMAIN ready)
        first == {i \in 1..Len(names) : \A j \in 1..(i - 1) : ready[names[j]] # ready[names[i]]}
    IN  {p \in {names[i] : i \in first} :
            KnownHash(p) /\ ready[p] \notin Large /\ <<"content", ready[p]>> \in needed}

\* readMissingSmallSources and the last look before the pack is sent.
ReadMissing ==
    /\ pc = "read"
    /\ \/ /\ \E urgent \in Preempt, from \in Windows(ready) :
               /\ (Lazy = {} \/ decided) => from = Min(Windows(ready))
               /\ Slice(ready, IF decided /\ Lazy = {} THEN AllReady(ready)
                               ELSE {k \in Windows(ready) : k >= from}, urgent)
          /\ \A p \in Lazy \cap DOMAIN ready' : Unchanged(p)
          /\ pc' = "upload"
          /\ UNCHANGED <<env, owed, objects, confirmed, sel, claim, deferred, held, cont,
                         queue, needed, done, ahead, out>>
       \/ /\ \E p \in Lazy : ~Unchanged(p)
          /\ Fail

\* What the batch sends: the needed objects of its files, and every manifest.
Sent == UNION {(Probed(ready[p]) \cap needed) \cup Manifest(ready[p]) : p \in DOMAIN ready}

\* The pack is acknowledged and the tree updates are queued. A large source is verified
\* and must still be applicable when its manifest is sent.
Upload ==
    /\ pc = "upload"
    /\ IF \E p \in DOMAIN ready : ready[p] \in Large /\ ~(Unchanged(p) /\ Applicable(p))
       THEN Fail
       ELSE /\ objects' = objects \cup Sent
            /\ confirmed' = Retain(Sent)
            /\ done' = [p \in DOMAIN done \cup DOMAIN ready |->
                          IF p \in DOMAIN ready
                          THEN [hash |-> ready[p], mtime |-> claim[p].ver] ELSE done[p]]
            /\ pc' = "after"
            /\ UNCHANGED <<env, owed, work, queue, splits, batch, ready, needed, ahead, out>>

\* After the batch: the rest may be left to a later root at a safe boundary.
AfterBatch ==
    /\ pc = "after"
    /\ batch' = <<>> /\ ready' = <<>> /\ needed' = {}
    /\ \E urgent \in Preempt :
         LET rest == splits # <<>> \/ queue # <<>>
             now == decided \/ (rest /\ urgent)
             b == SafeBoundary(DOMAIN done)
         IN  /\ Decide(now)
             /\ IF rest /\ now /\ b.safe
                THEN held' = b.held /\ cont' = b.continuation /\ pc' = "settle"
                ELSE UNCHANGED <<held, cont>> /\ pc' = "select"
    /\ UNCHANGED <<env, owed, objects, confirmed, sel, claim, deferred, queue, splits, done,
                   ahead, out>>

LeaveLoop ==
    /\ pc = "select" /\ look = "none" /\ splits = <<>> /\ queue = <<>>
    /\ pc' = "settle"
    /\ UNCHANGED <<env, owed, objects, confirmed, work, loop, ahead, out>>

\* Any awaited call may reject, with part of a pack already stored.
Throw ==
    /\ pc \in {"select", "reserve", "prepare", "check", "read", "upload", "update", "index", "publish"}
    /\ faults < MaxFaults /\ Quiet /\ faults' = faults + 1
    /\ \E some \in SUBSET (IF pc = "upload" THEN Sent ELSE {}) : objects' = objects \cup some
    /\ pc' = "joining"
    /\ UNCHANGED <<disk, live, capacity, losses, resizes, owed, confirmed, work, loop, ahead, out>>

\* Mutant: the confirmations outlive the failure they may have caused.
BugJoin ==
    /\ pc = "joining" /\ look = "none"
    /\ hints' = {} /\ cand' = tree /\ pc' = "idle"
    /\ UNCHANGED <<env, owed, objects, confirmed, work, loop, look, published>>

\* The failed push joins its lookahead, aborts the candidate, drops the confirmations.
Join ==
    /\ pc = "joining" /\ look = "none"
    /\ hints' = {} /\ cand' = tree /\ confirmed' = {} /\ pc' = "idle"
    /\ UNCHANGED <<env, owed, objects, work, loop, look, published>>

-----------------------------------------------------------------------------
(* Publication. *)

\* A suffix without a continuation withholds nothing.
Suffix == IF cont = {} THEN {} ELSE held
Deletes == {p \in sel \ Suffix : Deletion(p)}

\* The deferred paths after closure: one deferral withholds every deletion, and every
\* group with a withheld member.
Withheld ==
    LET own == IF deferred = {} THEN {} ELSE deferred \cup Deletes
    IN  own \cup UNION {g \in Groups : g \cap own # {}}

Upserts == (DOMAIN done \ Suffix) \ Withheld
Deleted == IF deferred = {} THEN Deletes ELSE {}

\* The engine's settlement (sync.ts): it refuses a continuation that names a deferred
\* path before it records any cooldown.
Overlap == cont \cap Withheld # {}
Cool == cooled' = IF Overlap THEN cooled ELSE cooled \cup (deferred \cap pending)

\* After the loop the lookahead is joined. A push with nothing to publish returns.
Settle ==
    /\ pc = "settle" /\ look = "none" /\ hints' = {}
    /\ IF Upserts = {} /\ Deleted = {} /\ (Withheld # {} \/ cont # {})
       THEN /\ pc' = "idle" /\ cand' = tree /\ Cool
            /\ UNCHANGED <<env, pending, links, tree, base, objects, confirmed, work, loop, look,
                           published>>
       ELSE IF \E p \in sel \ Suffix : ~Applicable(p) THEN
            /\ pc' = "joining"
            /\ UNCHANGED <<env, owed, objects, confirmed, work, loop, look, out>>
       ELSE /\ published' = Upserts \cup Deleted /\ pc' = "update"
            /\ UNCHANGED <<env, owed, objects, confirmed, work, loop, look, cand>>

Current == \A p \in sel \ Suffix : Applicable(p)

\* The candidate's deletions and updates, each a job that ends in the same check.
Update ==
    /\ pc = "update"
    /\ IF ~Current THEN Fail
       ELSE /\ cand' = [p \in Paths |-> IF p \in Deleted THEN Gone
                                        ELSE IF p \in Upserts THEN done[p] ELSE cand[p]]
            /\ pc' = "index"
            /\ UNCHANGED <<env, owed, objects, confirmed, work, loop, ahead, published>>

\* The index nodes: the fresh ones, or all of them when the base is no server root.
UploadIndex ==
    /\ pc = "index"
    /\ IF ~Current THEN Fail
       ELSE LET fresh == IF ~base \/ cand # tree THEN {Index(cand)} \ confirmed ELSE {}
            IN  /\ objects' = objects \cup fresh
                /\ confirmed' = Retain(fresh) /\ pc' = "publish"
                /\ UNCHANGED <<env, owed, work, loop, ahead, out>>

\* The server takes a root whose objects it can read; the candidate becomes the tree and
\* the journal rows of the published paths are acknowledged up to the claim.
Accept ==
    /\ pc = "publish" /\ Current /\ Backing(cand) \subseteq objects
    /\ tree' = cand /\ base' = TRUE
    /\ pending' = {p \in pending : p \in published => ~Applicable(p)}
    /\ links' = {g \in links : ~(g \subseteq published)}
    /\ Cool /\ pc' = "idle"
    /\ UNCHANGED <<env, objects, confirmed, work, loop, ahead, out>>

\* A newer edit stops the request; a root with unreadable objects is an error.
Reject ==
    /\ pc = "publish" /\ (~Current \/ ~(Backing(cand) \subseteq objects))
    /\ Fail

-----------------------------------------------------------------------------
Environment ==
    \/ \E p \in Paths : Edit(p)
    \/ \E c \in Capacities : Resize(c)
    \/ \E o \in objects : Lose(o)
    \/ RangeUnavailable \/ Throw
Progress ==
    \/ \E p \in Paths : Notice(p)
    \/ Start \/ SelectBatch \/ Reserve \/ PrepareWindow \/ CheckBatch \/ Lookahead
    \/ ReadMissing \/ Upload \/ AfterBatch \/ LeaveLoop \/ Join
    \/ Settle \/ Update \/ UploadIndex \/ Accept \/ Reject
Next == Environment \/ Progress

Spec == Init /\ [][Next]_vars
\* Awaited calls return and vault events arrive: everything but the environment is fair.
FairSpec == Spec /\ WF_vars(Progress)

-----------------------------------------------------------------------------
\* Types of the state.
TypeOK ==
    /\ \A p \in Paths : disk[p] \in 1..Len(Content[p]) /\ live[p] \in 1..disk[p]
    /\ pending \subseteq Paths /\ cooled \subseteq Paths /\ links \subseteq Links
    /\ pc \in {"idle", "select", "reserve", "prepare", "check", "read", "upload", "after",
               "settle", "update", "index", "publish", "joining"}
    /\ sel \subseteq Paths /\ deferred \subseteq sel
    /\ held \subseteq sel /\ cont \subseteq held
    /\ DOMAIN ready \subseteq Range(batch) /\ Range(batch) \subseteq sel
    /\ DOMAIN done \subseteq sel
    /\ look \in {"none", "running"} /\ capacity \in Capacities
    /\ Cardinality(confirmed) <= MaxConfirmed

\* No edit is lost: a file whose content differs from the published tree is owed to the
\* server or its event has not arrived yet, however an acknowledgement, a slice, a
\* deferral or a failure raced it.
NoLostEdit ==
    \A p \in Paths : Content[p][disk[p]] # tree[p].hash => p \in pending \/ live[p] # disk[p]

\* A published entry is one version of its file: the hash is the content the file had at
\* the entry's mtime, whether it came from the hint, a read, or a re-read after a check.
EntriesConsistent ==
    \A t \in {tree, cand} : \A p \in Paths :
        t[p].mtime > 0 => t[p].hash = Content[p][t[p].mtime]

\* A rename moves as one: a publication takes all of a group or none of it, through
\* slices, late deferrals and retries.
GroupsAtomic ==
    pc \in {"update", "index", "publish"} =>
        \A g \in Groups : g \subseteq published \/ g \cap published = {}

\* No entry of a published root mixes two versions of a file, and no rename is
\* published by half, whatever slices, deferrals and edits came between.
PublishedIsConsistent == EntriesConsistent /\ GroupsAtomic

\* A path the outcome calls continued "receive[s] no cooldown": it is not deferred too.
ContinuationNotDeferred ==
    pc \in {"update", "index", "publish"} => cont \cap Withheld = {}

\* Once edits, faults, losses and ceilings settle, pushes drain everything but what a
\* cooled source holds: neither a stale confirmation of push's confirmedObjects nor a
\* deferral repeats a push for ever.
Drains == <>[](pc = "idle" /\ Runnable = {})
=============================================================================
