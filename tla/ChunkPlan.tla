------------------------------- MODULE ChunkPlan -------------------------------
(* The list of index nodes a push uploads (CandidateChunks jobs of         *)
(* wasm.rs): a cursor walks the candidate's graph (ReachabilityCursor of   *)
(* format 1, V2ReachabilityCursor of format 2),                            *)
(* the hashes it met are sorted by a radix sort whose two workspaces the   *)
(* host admits, and the host reads them in pages, each with its fresh      *)
(* hashes.  A finished, failed or cancelled job is dropped in bounded      *)
(* steps, which the host counts and acknowledges; every call names the     *)
(* job's token, and the host repeats a call whose answer it did not get.   *)
(*                                                                         *)
(* A hash is a short sequence of bytes.  A descriptor of the walk is named *)
(* by the hash it points to; different descriptors for one hash, which the *)
(* walk refuses, do not occur.                                             *)
EXTENDS TreeEntries, FiniteSets

CONSTANTS
    Byte, Width,      \* a hash is Width bytes
    Graphs,           \* [version, root, kids, store, fresh]: candidates to plan for
    MaxPageHashes,    \* the largest page
    RetireUnits,      \* owners the host lets one retirement step drop
    MaxJobs, MaxLost  \* bounds: jobs a behaviour starts, answers it loses

VARIABLES
    graph,    \* the candidate: fixed while a job is active
    job,      \* the job; <<>> when none is active
    tokens,   \* tokens given out
    settled,  \* the last retirement that was acknowledged: token and units
    host,     \* the job as the host knows it
    lost      \* answers lost so far

vars == <<graph, job, tokens, settled, host, lost>>

\* stage: idle -> reading -> retiring -> released -> idle
NoHost == [stage |-> "idle", all |-> <<>>, fresh |-> <<>>, done |-> FALSE, retired |-> 0]
Idle == job = <<>>
Job == job[1]
Active(phase) == ~Idle /\ Job.phase = phase

------------------------------------------------------------------------------
(* The walk                                                                *)

NewWalk(roots) ==
    [seeds |-> roots, pending |-> <<>>, expanding |-> <<>>, reached |-> {}, known |-> {},
     seeded |-> FALSE]
WalkDone(w) == w.seeded /\ w.pending = <<>> /\ w.expanding = <<>>

\* One unit: hand over one root child or one child, or read the node on top.
SeedChild(w) ==
    IF w.seeds = <<>> THEN [w EXCEPT !.seeded = TRUE]
    ELSE [w EXCEPT !.pending = Append(@, w.seeds[1]), !.seeds = Rest(@), !.seeded = Len(w.seeds) = 1]
\* Format 1 takes a node's last child first.
TakeChild(w) ==
    IF graph.version = 1
      THEN [w EXCEPT !.pending = Append(@, Last(w.expanding)), !.expanding = Front(@)]
      ELSE [w EXCEPT !.pending = Append(@, w.expanding[1]), !.expanding = Rest(@)]
\* Format 2 remembers the descriptor it met a hash by, format 1 the hash alone.
Met(w) == w.known \cup w.reached
ReadNode(w) ==
    LET hash == Last(w.pending)
        left == [w EXCEPT !.pending = Front(@)]
    IN  IF hash \in Met(w) \/ hash \notin graph.store THEN left
        ELSE [left EXCEPT !.expanding = graph.kids[hash], !.reached = @ \cup {hash},
                          !.known = IF graph.version = 1 THEN @ ELSE @ \cup {hash}]
Fails(w) == w.seeded /\ w.expanding = <<>> /\ Last(w.pending) \notin Met(w) \cup graph.store

NoSort == [input |-> {}, source |-> <<>>, scratch |-> <<>>, byte |-> Width, index |-> 1,
           counts |-> [b \in Byte |-> 0], offsets |-> [b \in Byte |-> 0], count |-> 0, page |-> 0]
\* retire: units still to drop, units dropped, and the answer of the last step.
NotRetiring == [left |-> 0, completed |-> 0, last |-> <<>>]

\* TreeRetirement::from_reachability: an owner with a backing is one unit more than its
\* content, in format 1's walk only its content.  The walk's vectors keep their backing
\* once used; the sort's two workspaces exist from its first step.
Owner(size, backed) == IF backed THEN size + 1 ELSE 0
WalkOwner(size, backed) == IF graph.version = 1 THEN size ELSE Owner(size, backed)
UnitsOf(j) ==
    LET w == j.walk
        s == j.sort
    IN  WalkOwner(Len(w.expanding), w.expanding # <<>>)
          + WalkOwner(Len(w.pending), w.seeds # graph.root)
          + WalkOwner(Cardinality(w.known), w.known # {})
          + WalkOwner(Cardinality(w.reached), w.reached # {})
          + Owner(Cardinality(s.input), s.input # {})
          + Owner(Len(s.source), s.count > 0) + Owner(Len(s.scratch), s.count > 0)
FromReachability(j) ==
    [j EXCEPT !.phase = "retiring", !.walk = NewWalk(<<>>), !.sort = NoSort,
              !.retire = [NotRetiring EXCEPT !.left = UnitsOf(j)]]

Starting(token) ==
    [token |-> token, phase |-> "walk", walk |-> NewWalk(graph.root), sort |-> NoSort,
     retire |-> NotRetiring]

Begin ==
    /\ Idle /\ host.stage = "idle" /\ tokens < MaxJobs
    /\ tokens' = tokens + 1
    /\ job' = <<Starting(tokens + 1)>>
    /\ host' = [NoHost EXCEPT !.stage = "reading"]
    /\ UNCHANGED <<graph, settled, lost>>

Keep(next) == job' = <<next>> /\ UNCHANGED <<graph, tokens, settled, host, lost>>

\* step_reachability_job_deferred: a failed read hands the job to its retirement.
WalkStep ==
    /\ Active("walk") /\ ~WalkDone(Job.walk)
    /\ LET w == Job.walk
           next == IF ~w.seeded THEN SeedChild(w)
                   ELSE IF w.expanding # <<>> THEN TakeChild(w) ELSE ReadNode(w)
           moved == [Job EXCEPT !.walk = next]
       IN  Keep(IF Fails(w) THEN FromReachability(moved) ELSE moved)

------------------------------------------------------------------------------
(* The sort                                                                *)

\* candidate_chunks_sort_memory_plan and resume: both workspaces are reserved before the
\* reached set leaves the walk; the walk's descriptors stay with the job.
ResumeSort ==
    /\ Active("walk") /\ WalkDone(Job.walk)
    /\ LET count == Cardinality(Job.walk.reached)
       IN  Keep([Job EXCEPT !.walk.reached = {},
                            !.sort = [NoSort EXCEPT !.input = Job.walk.reached, !.count = count],
                            !.phase = IF count = 0 THEN "ready" ELSE "collect"])

Zero == [i \in 1..Width |-> 0]

\* A hash leaves the set in the set's own order.
Collect ==
    /\ Active("collect")
    /\ LET hash == CHOOSE h \in Job.sort.input : TRUE
           s == [Job.sort EXCEPT !.input = @ \ {hash}, !.source = Append(@, hash)]
       IN  Keep([Job EXCEPT !.sort = s,
                            !.phase = IF Len(s.source) = s.count THEN "initialize" ELSE @])

InitializeScratch ==
    /\ Active("initialize")
    /\ LET s == [Job.sort EXCEPT !.scratch = Append(@, Zero)]
           full == Len(s.scratch) = s.count
       IN  Keep([Job EXCEPT !.sort = [s EXCEPT !.index = 1],
                            !.phase = IF full THEN "count" ELSE @])

\* Bucket b starts after the hashes with a smaller byte.
OffsetsOf(counts) ==
    [b \in Byte |-> FoldSet(LAMBDA c, n : n + counts[c], 0, {c \in Byte : c < b})]

CountByte ==
    /\ Active("count")
    /\ LET s == Job.sort
           counts == [s.counts EXCEPT ![s.source[s.index][s.byte]] = @ + 1]
           all == s.index = s.count
       IN  Keep([Job EXCEPT
                   !.sort = [s EXCEPT !.counts = counts, !.index = IF all THEN 1 ELSE @ + 1,
                                      !.offsets = IF all THEN OffsetsOf(counts) ELSE @],
                   !.phase = IF all THEN "scatter" ELSE @])

ScatterByte ==
    /\ Active("scatter")
    /\ LET s == Job.sort
           hash == s.source[s.index]
           bucket == hash[s.byte]
           placed == [s EXCEPT !.scratch[s.offsets[bucket] + 1] = hash, !.offsets[bucket] = @ + 1]
           swapped == [placed EXCEPT !.source = placed.scratch, !.scratch = s.source]
           again == [swapped EXCEPT !.byte = @ - 1, !.index = 1,
                                    !.counts = NoSort.counts, !.offsets = NoSort.offsets]
       IN  IF s.index < s.count THEN Keep([Job EXCEPT !.sort = [placed EXCEPT !.index = @ + 1]])
           ELSE IF s.byte = 1 THEN Keep([Job EXCEPT !.sort = swapped, !.phase = "ready"])
           ELSE Keep([Job EXCEPT !.sort = again, !.phase = "count"])

------------------------------------------------------------------------------
(* The pages                                                               *)

\* An answer reaches the host or is lost.
Answered(host2) ==
    \/ host' = host2 /\ lost' = lost
    \/ lost < MaxLost /\ lost' = lost + 1 /\ host' = host

\* Mutant: a page starts where the last one ended, whatever was asked for.
BugReadPage(token, offset, size) ==
    /\ Active("ready") /\ token = Job.token
    /\ LET s == Job.sort
           end == IF s.page + size < s.count THEN s.page + size ELSE s.count
           page == SubSeq(s.source, s.page + 1, end)
       IN  /\ job' = <<[Job EXCEPT !.sort.page = end]>>
           /\ Answered([host EXCEPT !.all = @ \o page,
                         !.fresh = @ \o SelectSeq(page, LAMBDA h : h \in graph.fresh)])
    /\ UNCHANGED <<graph, tokens, settled>>

\* read_candidate_chunks_page_v1: the offset must be where the last page ended.
ReadPage(token, offset, size) ==
    /\ Active("ready") /\ token = Job.token /\ offset = Job.sort.page
    /\ LET s == Job.sort
           end == IF offset + size < s.count THEN offset + size ELSE s.count
           page == SubSeq(s.source, offset + 1, end)
       IN  /\ job' = <<[Job EXCEPT !.sort.page = end]>>
           /\ Answered([host EXCEPT !.all = @ \o page,
                         !.fresh = @ \o SelectSeq(page, LAMBDA h : h \in graph.fresh)])
    /\ UNCHANGED <<graph, tokens, settled>>

\* The host asks for the page after the hashes it has.
HostReads ==
    /\ host.stage = "reading"
    /\ \E size \in 1..MaxPageHashes : ReadPage(tokens, Len(host.all), size)

\* finish_candidate_chunks_plan_v1
FinishPlan(token) ==
    /\ Active("ready") /\ token = Job.token /\ Job.sort.page = Job.sort.count
    /\ job' = <<FromReachability(Job)>>
    /\ Answered([host EXCEPT !.stage = "retiring", !.done = TRUE])
    /\ UNCHANGED <<graph, tokens, settled>>

HostFinishes == host.stage = "reading" /\ Active("ready") /\ Len(host.all) = Job.sort.count
                  /\ FinishPlan(tokens)

------------------------------------------------------------------------------
(* Dropping the job                                                        *)

\* cancel_reachability_job_deferred: idempotent once the job retires.
CancelDeferred(token) ==
    /\ ~Idle /\ token = Job.token
    /\ job' = IF Active("retiring") THEN job ELSE <<FromReachability(Job)>>
    /\ Answered([host EXCEPT !.stage = "retiring"])
    /\ UNCHANGED <<graph, tokens, settled>>
HostCancels == host.stage = "reading" /\ CancelDeferred(tokens)

\* step_reachability_retirement: a repeated call is answered as before; a new one drops
\* up to RetireUnits owners, and is the last when it runs out of them.
Replays(r, expected) == r.last # <<>> /\ expected = r.last[1].completed - r.last[1].units
MayRetire(r, expected) ==
    /\ expected = r.completed
    /\ r.last # <<>> => ~r.last[1].done
Retired(r) ==
    LET units == IF r.left < RetireUnits THEN r.left ELSE RetireUnits
        answer == [done |-> r.left < RetireUnits, units |-> units, completed |-> r.completed + units]
    IN  [left |-> r.left - units, completed |-> answer.completed, last |-> <<answer>>]

StepRetirement(token, expected) ==
    /\ Active("retiring") /\ token = Job.token
    /\ Replays(Job.retire, expected) \/ MayRetire(Job.retire, expected)
    /\ LET next == IF Replays(Job.retire, expected) THEN Job.retire ELSE Retired(Job.retire)
       IN  /\ job' = <<[Job EXCEPT !.retire = next]>>
           /\ Answered([host EXCEPT !.retired = next.last[1].completed,
                                    !.stage = IF next.last[1].done THEN "released" ELSE @])
    /\ UNCHANGED <<graph, tokens, settled>>
HostRetires == host.stage = "retiring" /\ StepRetirement(tokens, host.retired)

\* finish_reachability_retirement: the acknowledgement frees the slot, and may be repeated.
Acknowledge(token, completed) ==
    /\ \/ Idle /\ settled = [token |-> token, completed |-> completed] /\ UNCHANGED <<job, settled>>
       \/ /\ Active("retiring") /\ token = Job.token /\ completed = Job.retire.completed
          /\ Job.retire.last # <<>> /\ Job.retire.last[1].done
          /\ job' = <<>> /\ settled' = [token |-> token, completed |-> completed]
    /\ Answered([host EXCEPT !.stage = "idle"])
    /\ UNCHANGED <<graph, tokens>>
HostAcknowledges == host.stage = "released" /\ Acknowledge(tokens, host.retired)

Init ==
    /\ graph \in Graphs /\ job = <<>> /\ tokens = 0 /\ host = NoHost /\ lost = 0
    /\ settled = [token |-> 0, completed |-> 0]

Next ==
    \/ Begin \/ WalkStep \/ ResumeSort \/ Collect \/ InitializeScratch \/ CountByte \/ ScatterByte
    \/ HostReads \/ HostFinishes \/ HostCancels \/ HostRetires \/ HostAcknowledges

Spec == Init /\ [][Next]_vars

------------------------------------------------------------------------------

RECURSIVE Under(_)
Under(hashes) ==
    LET more == hashes \cup UNION {ToSet(graph.kids[h]) : h \in hashes}
    IN  IF more = hashes THEN hashes ELSE Under(more)

Before(g, h) == \E i \in 1..Width : g[i] < h[i] /\ \A j \in 1..(i - 1) : g[j] = h[j]

\* What the host has read is the ordered list of the candidate's nodes as far as it goes:
\* no node is missing, repeated or out of order however pages are sized and calls
\* repeated, every fresh one among them is marked, and a finished plan is complete.
PlanIsComplete ==
    LET all == Under(ToSet(graph.root))
    IN  /\ \A i, j \in DOMAIN host.all : i < j => Before(host.all[i], host.all[j])
        /\ \A h \in all \ ToSet(host.all) : \A i \in DOMAIN host.all : Before(host.all[i], h)
        /\ ToSet(host.all) \subseteq all
        /\ ToSet(host.fresh) = ToSet(host.all) \cap graph.fresh
        /\ host.done => ToSet(host.all) = all

\* Whatever answers were lost, the host's next call is accepted: a repeated retirement
\* step finds its answer, and a job that has dropped everything can be acknowledged, also
\* after its slot was freed.  A job is never left holding memory it cannot drop.
RepeatsAreAnswered ==
    /\ host.stage = "retiring" =>
         Active("retiring") /\ (Replays(Job.retire, host.retired) \/ MayRetire(Job.retire, host.retired))
    /\ host.stage = "released" =>
         \/ Idle /\ settled = [token |-> tokens, completed |-> host.retired]
         \/ Active("retiring") /\ Job.retire.left = 0 /\ Job.retire.completed = host.retired
    /\ host.stage = "idle" => Idle
==============================================================================
