----------------------------- MODULE WriterQueue -----------------------------
(***************************************************************************)
(* Admission to and scheduling of the storage writer                       *)
(* (crates/sync-server/src/storage_writer.rs): reservations under global,  *)
(* class and owner caps, taken before a request body is even validated;    *)
(* the bounded channel; the fair scheduler; the writer loop that collects  *)
(* a durability group, commits it and answers.                             *)
(*                                                                         *)
(* A request is reused once it is answered, which gives endless load.      *)
(* Time appears as choices: whether the oldest bulk message has aged, and  *)
(* whether the group's latency budget is over.                             *)
(***************************************************************************)
EXTENDS Integers, Sequences, SequencesExt, FiniteSets, FiniteSetsExt

CONSTANTS
    Owner, Internal,         \* WriterOwner, and the importer's
    Request,                 \* requests, each of one owner and one class
    OwnerOf(_), ClassOf(_),
    SizeOf(_),               \* bytes a request reserves
    ChannelMessages, QueueBytes,
    BulkMessages, BulkBytes,
    MaxActiveOwners,
    OwnerMessages, OwnerBulkMessages, OwnerBulkBytes,
    OwnerControlMessages, OwnerControlBytes,
    MaxControlBurst,
    GroupTarget              \* GROUP_OBJECT_TARGET

Class == {"control", "bulk"}

WriterQueueAssumption ==
    /\ Internal \in Owner
    /\ \A r \in Request : OwnerOf(r) \in Owner /\ ClassOf(r) \in Class /\ SizeOf(r) \in Nat \ {0}
    /\ BulkMessages < ChannelMessages /\ BulkBytes < QueueBytes
    /\ OwnerBulkMessages + OwnerControlMessages <= OwnerMessages
    /\ MaxControlBurst \in Nat \ {0} /\ GroupTarget \in Nat \ {0}

VARIABLES
    st,       \* where each request is: idle, admitted, sent
    queue,    \* QueueState
    channel,  \* the sync_channel
    sched,    \* FairScheduler
    pc,       \* writer thread: "recv", "fill", "commit" or "ended"
    group     \* messages of the group being collected

vars == <<st, queue, channel, sched, pc, group>>

NoUsage == [messages |-> 0, bytes |-> 0, bulkMessages |-> 0, bulkBytes |-> 0]
EmptyScheduler ==
    [fifo |-> [o \in Owner |-> [c \in Class |-> <<>>]],
     order |-> [c \in Class |-> <<>>],
     burst |-> 0]

Init ==
    /\ st = [r \in Request |-> "idle"]
    /\ queue = [total |-> NoUsage, owner |-> [o \in {} |-> NoUsage]]
    /\ channel = <<>>
    /\ sched = EmptyScheduler
    /\ pc = "recv"
    /\ group = <<>>

-----------------------------------------------------------------------------
(* Reservations.                                                           *)

UsageOf(o) == IF o \in DOMAIN queue.owner THEN queue.owner[o] ELSE NoUsage

Charge(usage, class, bytes, sign) ==
    [messages     |-> usage.messages + sign,
     bytes        |-> usage.bytes + sign * bytes,
     bulkMessages |-> usage.bulkMessages + (IF class = "bulk" THEN sign ELSE 0),
     bulkBytes    |-> usage.bulkBytes + (IF class = "bulk" THEN sign * bytes ELSE 0)]

\* QueueState::reserve without its updates; Busy when it does not hold.
Admits(o, class, bytes) ==
    LET mine == UsageOf(o) all == queue.total
    IN  /\ all.messages + 1 <= ChannelMessages /\ all.bytes + bytes <= QueueBytes
        /\ o \in DOMAIN queue.owner \/ Cardinality(DOMAIN queue.owner) < MaxActiveOwners
        /\ mine.messages < OwnerMessages /\ mine.bytes + bytes <= QueueBytes
        /\ IF class = "bulk"
           THEN /\ all.bulkMessages + 1 <= BulkMessages /\ all.bulkBytes + bytes <= BulkBytes
                /\ mine.bulkMessages < OwnerBulkMessages
                /\ mine.bulkBytes + bytes <= OwnerBulkBytes
           ELSE /\ mine.messages - mine.bulkMessages < OwnerControlMessages
                /\ mine.bytes - mine.bulkBytes + bytes
                      <= (IF o = Internal THEN QueueBytes ELSE OwnerControlBytes)

\* QueueState::reserve
Reserved(q, r) ==
    [total |-> Charge(q.total, ClassOf(r), SizeOf(r), 1),
     owner |-> [o \in DOMAIN q.owner \cup {OwnerOf(r)} |->
        IF o # OwnerOf(r) THEN q.owner[o]
        ELSE Charge(IF o \in DOMAIN q.owner THEN q.owner[o] ELSE NoUsage, ClassOf(r), SizeOf(r), 1)]]

\* QueueState::release: an owner without messages is forgotten.
Released(q, r) ==
    LET rest == [q.owner EXCEPT ![OwnerOf(r)] = Charge(@, ClassOf(r), SizeOf(r), -1)]
    IN  [total |-> Charge(q.total, ClassOf(r), SizeOf(r), -1),
         owner |-> [o \in {p \in DOMAIN rest : rest[p].messages # 0} |-> rest[o]]]

ReleasedAll(q, requests) == FoldSet(LAMBDA r, acc : Released(acc, r), q, requests)

\* admit_object_request, reserve_for
Admit(r) ==
    /\ st[r] = "idle" /\ Admits(OwnerOf(r), ClassOf(r), SizeOf(r))
    /\ queue' = Reserved(queue, r)
    /\ st' = [st EXCEPT ![r] = "admitted"]
    /\ UNCHANGED <<channel, sched, pc, group>>

\* Preprocessing failed, had nothing to store, outgrew its reservation, or was
\* cancelled with its connection: the admission is dropped.
DropAdmission(r) ==
    /\ st[r] = "admitted"
    /\ queue' = Released(queue, r)
    /\ st' = [st EXCEPT ![r] = "idle"]
    /\ UNCHANGED <<channel, sched, pc, group>>

\* store_admitted: try_send, or Closed once the writer thread has ended.
StoreAdmitted(r) ==
    /\ st[r] = "admitted"
    /\ IF pc = "ended"
       THEN /\ queue' = Released(queue, r)
            /\ st' = [st EXCEPT ![r] = "idle"]
            /\ UNCHANGED channel
       ELSE /\ channel' = Append(channel, r)
            /\ st' = [st EXCEPT ![r] = "sent"]
            /\ UNCHANGED queue
    /\ UNCHANGED <<sched, pc, group>>

-----------------------------------------------------------------------------
(* FairScheduler.                                                          *)

\* push: an owner joins its class's rotation with its first message.
Push(s, r) ==
    LET o == OwnerOf(r) c == ClassOf(r)
    IN  [s EXCEPT !.fifo[o][c] = Append(@, r),
                  !.order[c] = IF s.fifo[o][c] = <<>> THEN Append(@, o) ELSE @]

\* drain_writer_channel, one message; nothing is popped before it is empty.
Drain ==
    /\ pc \in {"recv", "fill"} /\ channel # <<>>
    /\ sched' = Push(sched, Head(channel))
    /\ channel' = Tail(channel)
    /\ UNCHANGED <<st, queue, pc, group>>

\* bulk_should_run
BulkShouldRun(s, aged) ==
    /\ s.order["bulk"] # <<>>
    /\ s.burst >= MaxControlBurst \/ (s.burst > 0 /\ aged)

\* pop: the class to serve.
NextClass(s, aged) ==
    IF s.order["control"] = <<>> \/ BulkShouldRun(s, aged) THEN "bulk" ELSE "control"

\* Mutant: an owner with more messages stays first.
BugPopped(s, c) ==
    LET o == Head(s.order[c]) rest == Tail(s.fifo[o][c])
    IN  [s EXCEPT !.fifo[o][c] = rest,
                  !.order[c] = IF rest = <<>> THEN Tail(@) ELSE @,
                  !.burst = IF c = "bulk" THEN 0
                            ELSE IF @ <= MaxControlBurst THEN @ + 1 ELSE @]

\* pop_selected, pop_class: the first owner's first message; the owner goes to
\* the end of the rotation.  Beyond its threshold the burst count says nothing.
Popped(s, c) ==
    LET o == Head(s.order[c]) rest == Tail(s.fifo[o][c])
    IN  [s EXCEPT !.fifo[o][c] = rest,
                  !.order[c] = IF rest = <<>> THEN Tail(@) ELSE Append(Tail(@), o),
                  !.burst = IF c = "bulk" THEN 0
                            ELSE IF @ <= MaxControlBurst THEN @ + 1 ELSE @]

FirstOf(s, c) == Head(s.fifo[Head(s.order[c])][c])
IsEmpty(s) == \A c \in Class : s.order[c] = <<>>

-----------------------------------------------------------------------------
(* writer_loop.                                                            *)

\* The first message of a group; a message with one object waits for company.
PopFirst ==
    /\ pc = "recv" /\ channel = <<>> /\ ~IsEmpty(sched)
    /\ \E aged \in BOOLEAN, single \in BOOLEAN :
         LET c == NextClass(sched, aged)
         IN  /\ group' = <<FirstOf(sched, c)>>
             /\ sched' = Popped(sched, c)
             /\ pc' = IF single /\ GroupTarget > 1 THEN "fill" ELSE "commit"
    /\ UNCHANGED <<st, queue, channel>>

\* Another message for the group; a group that began with control work takes
\* control work only (pop_control_for_group).
Coalesce ==
    /\ pc = "fill" /\ channel = <<>> /\ ~IsEmpty(sched)
    /\ \E aged \in BOOLEAN :
         LET control == ClassOf(Head(group)) = "control"
             c == IF control THEN "control" ELSE NextClass(sched, aged)
             stop == control /\ (sched.order["control"] = <<>> \/ BulkShouldRun(sched, aged))
         IN  IF stop
             THEN pc' = "commit" /\ UNCHANGED <<sched, group>>
             ELSE /\ group' = Append(group, FirstOf(sched, c))
                  /\ sched' = Popped(sched, c)
                  /\ pc' = IF Len(group) + 1 >= GroupTarget THEN "commit" ELSE "fill"
    /\ UNCHANGED <<st, queue, channel>>

\* recv_timeout: nothing came within GROUP_LATENCY.
GroupTimeout ==
    /\ pc = "fill" /\ channel = <<>> /\ IsEmpty(sched)
    /\ pc' = "commit"
    /\ UNCHANGED <<st, queue, channel, sched, group>>

\* commit_objects, then each reservation is dropped before its reply.
Commit ==
    /\ pc = "commit"
    /\ queue' = ReleasedAll(queue, ToSet(group))
    /\ st' = [r \in Request |-> IF r \in ToSet(group) THEN "idle" ELSE st[r]]
    /\ pc' = "recv" /\ group' = <<>>
    /\ UNCHANGED <<channel, sched>>

\* A failed group ends the thread: the channel and the scheduler are dropped
\* with their messages, whose callers get Closed.
CommitFails ==
    /\ pc = "commit"
    /\ LET lost == {r \in Request : st[r] = "sent"}
       IN  /\ queue' = ReleasedAll(queue, lost)
           /\ st' = [r \in Request |-> IF r \in lost THEN "idle" ELSE st[r]]
    /\ pc' = "ended" /\ group' = <<>> /\ channel' = <<>> /\ sched' = EmptyScheduler

Next ==
    \/ \E r \in Request : Admit(r) \/ DropAdmission(r) \/ StoreAdmitted(r)
    \/ Drain \/ PopFirst \/ Coalesce \/ GroupTimeout \/ Commit \/ CommitFails

WriterProgress == Drain \/ PopFirst \/ Coalesce \/ GroupTimeout \/ Commit

\* The writer is a thread of its own; nothing else is promised to run.
Spec == Init /\ [][Next]_vars /\ WF_vars(WriterProgress)

-----------------------------------------------------------------------------
(* Properties.                                                             *)

TypeOK ==
    /\ st \in [Request -> {"idle", "admitted", "sent"}]
    /\ queue.total \in [DOMAIN NoUsage -> Nat]
    /\ DOMAIN queue.owner \subseteq Owner
    /\ \A o \in DOMAIN queue.owner : queue.owner[o] \in [DOMAIN NoUsage -> Nat]
    /\ ToSet(channel) \cup ToSet(group) \subseteq Request
    /\ sched.burst \in 0..MaxControlBurst + 1
    /\ pc \in {"recv", "fill", "commit", "ended"}

\* No message waits forever, whatever its owner and class and however much other
\* work keeps arriving; a failing writer still answers.
EveryMessageAnswered == \A r \in Request : []<>(st[r] # "sent")
=============================================================================
