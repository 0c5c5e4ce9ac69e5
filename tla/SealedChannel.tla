---------------------------- MODULE SealedChannel ----------------------------
(***************************************************************************)
(* Sealed requests of one device, end to end: the retry loop `sealed` of   *)
(* plugin/src/api.ts with its shared channel and its shared key refresh,   *)
(* the sequence allocator (transport-sequence.ts), the server's rotating   *)
(* keys (eph_rotation.rs), its secure_envelope (api.rs) and its            *)
(* anti-replay window (SequenceTracker).                                   *)
(*                                                                         *)
(* Keys are generations: the server opens envelopes sealed for its current *)
(* or previous generation, a restart forgets both.  A request that finds   *)
(* its key unknown refreshes and retries once; one that finds its number   *)
(* refused moves past the server's ceiling and retries once; a second      *)
(* refusal of either kind asks the user to enroll the device again.        *)
(*                                                                         *)
(* A request the client gave up on (timeout, crash) may still be served:   *)
(* `out` is the client's view of a call, `pc` the place of its envelope.   *)
(***************************************************************************)
EXTENDS Integers, FiniteSets

CONSTANTS
    Request,        \* calls of sealed
    Idempotent,     \* the calls made as "application-idempotent"
    Window, Block,  \* WINDOW_BITS; block size of both reservations
    MaxSeq,         \* bound on sequence numbers
    MaxFaults       \* bound on restarts of either side, key rotations and lost answers

ASSUME ChannelAssumption ==
    /\ Window \in Nat \ {0} /\ Block \in Nat \ {0} /\ MaxSeq \in Nat \ {0}
    /\ MaxFaults \in Nat
    /\ "none" \notin Request

VARIABLES
    greatest, reserved, seen, disks, held, hits, boot,  \* SequenceTracker
    cur, prev,             \* EphState: current and previous key generation
    revoked,               \* the device was revoked
    nextValue, reservedThrough, durable,   \* DurableSequenceAllocator
    esPub, expired,        \* persisted server key; its validity has run out
    channel,               \* this.channel
    promise,               \* the call that owns channelPromise, or None
    refresh, refreshKey,   \* refreshPromise and the key it was answered
    rq,                    \* the calls
    faults

trackerVars == <<greatest, reserved, seen, disks, held, hits, boot>>
keyVars == <<cur, prev, revoked>>
allocVars == <<nextValue, reservedThrough, durable>>
chanVars == <<esPub, expired, channel, promise, refresh, refreshKey>>
faultVars == <<faults>>
vars == <<trackerVars, keyVars, allocVars, chanVars, rq, faultVars>>

T == INSTANCE SequenceTracker

None == "none"
NoChannel == [gen |-> 0, key |-> 0]

Places == {"idle", "channel", "channel2", "awaitBuild", "awaitRefresh",
           "build", "buildRefresh", "staleRefresh", "seq", "sent", "held",
           "answered", "over"}
Replies == {None, "decoy", "replay", "denied", "busy", "failed", "ok"}
Outcomes == {None, "ok", "busy", "failed", "error", "crashed", "reenroll"}

NewCall ==
    [pc |-> "idle", chan |-> NoChannel, on |-> None, seq |-> 0,
     refreshed |-> FALSE, recovered |-> FALSE, retried |-> FALSE,
     reply |-> None, last |-> 0, runs |-> 0, out |-> None]

Channel == [gen : Nat, key : Nat]

CallRecord ==
    [pc : Places, chan : Channel, on : Request \cup {None}, seq : 0..MaxSeq,
     refreshed : BOOLEAN, recovered : BOOLEAN, retried : BOOLEAN,
     reply : Replies, last : 0..MaxSeq, runs : Nat, out : Outcomes]

TypeOK ==
    /\ T!TypeOK
    /\ {cur, prev, esPub, refreshKey, faults} \subseteq Nat
    /\ revoked \in BOOLEAN /\ expired \in BOOLEAN
    /\ nextValue \in 1..(MaxSeq + 1)
    /\ reservedThrough \in 0..MaxSeq /\ durable \in 0..MaxSeq
    /\ channel \in Channel
    /\ promise \in Request \cup {None}
    /\ refresh \in {None, "asked", "served"}
    /\ rq \in [Request -> CallRecord]

Init ==
    /\ T!Init
    /\ cur = 1 /\ prev = 0 /\ revoked = FALSE
    /\ nextValue = 1 /\ reservedThrough = 0 /\ durable = 0
    /\ esPub = 1 /\ expired = FALSE
    /\ channel = NoChannel /\ promise = None
    /\ refresh = None /\ refreshKey = 0
    /\ rq = [r \in Request |-> NewCall]
    /\ faults = 0

Live(r) == rq[r].out = None
Move(r, place) == rq' = [rq EXCEPT ![r].pc = place]
Settle(r, outcome) == rq' = [rq EXCEPT ![r].pc = "over", ![r].out = outcome]

-----------------------------------------------------------------------------
(* The client: getChannel and refreshServerEphemeral.                      *)

Call(r) ==
    /\ Live(r) /\ rq[r].pc = "idle"
    /\ Move(r, "channel")
    /\ UNCHANGED <<trackerVars, keyVars, allocVars, chanVars, faultVars>>

Usable == channel.key # 0 /\ ~expired

UseChannel(r) ==
    /\ Live(r) /\ rq[r].pc \in {"channel", "channel2"}
    /\ Usable
    /\ rq' = [rq EXCEPT ![r].pc = "seq", ![r].chan = channel]
    /\ UNCHANGED <<trackerVars, keyVars, allocVars, chanVars, faultVars>>

(* Another call is building the channel, or refreshing the key: wait. *)
JoinBuild(r) ==
    /\ Live(r) /\ rq[r].pc = "channel"
    /\ ~Usable /\ promise # None
    /\ rq' = [rq EXCEPT ![r].pc = "awaitBuild", ![r].on = promise]
    /\ UNCHANGED <<trackerVars, keyVars, allocVars, chanVars, faultVars>>

JoinRefresh(r) ==
    /\ Live(r) /\ rq[r].pc = "channel"
    /\ ~Usable /\ promise = None /\ refresh # None
    /\ Move(r, "awaitRefresh")
    /\ UNCHANGED <<trackerVars, keyVars, allocVars, chanVars, faultVars>>

(* refreshServerEphemeral: join the refresh that runs, or start one. *)
AskRefresh == refresh' = IF refresh = None THEN "asked" ELSE refresh

StartBuild(r) ==
    /\ Live(r)
    /\ \/ rq[r].pc = "channel" /\ promise = None /\ refresh = None
       \/ rq[r].pc = "channel2"
    /\ ~Usable
    /\ promise' = r
    /\ IF esPub = 0 \/ expired
       THEN AskRefresh /\ Move(r, "buildRefresh")
       ELSE /\ rq' = [rq EXCEPT ![r].pc = "build", ![r].chan.key = esPub]
            /\ UNCHANGED refresh
    /\ UNCHANGED <<trackerVars, keyVars, allocVars, esPub, expired, channel,
                   refreshKey, faultVars>>

(* ObsetyncSecureChannel.create resolves: the owner and the calls that     *)
(* joined it go on with this channel.                                      *)
\* Mutant: the settled promise is not cleared.
BugBuild(r) ==
    /\ Live(r) /\ rq[r].pc = "build"
    /\ LET new == [gen |-> channel.gen + 1, key |-> rq[r].chan.key] IN
        /\ channel' = new
        /\ rq' = [q \in Request |->
                    IF q = r \/ (rq[q].pc = "awaitBuild" /\ rq[q].on = r)
                    THEN [rq[q] EXCEPT !.pc = "seq", !.chan = new, !.on = None]
                    ELSE rq[q]]
    /\ UNCHANGED <<trackerVars, keyVars, allocVars, esPub, expired, promise,
                   refresh, refreshKey, faultVars>>
Build(r) ==
    /\ Live(r) /\ rq[r].pc = "build"
    /\ LET new == [gen |-> channel.gen + 1, key |-> rq[r].chan.key] IN
        /\ channel' = new
        /\ rq' = [q \in Request |->
                    IF q = r \/ (rq[q].pc = "awaitBuild" /\ rq[q].on = r)
                    THEN [rq[q] EXCEPT !.pc = "seq", !.chan = new, !.on = None]
                    ELSE rq[q]]
    /\ promise' = None
    /\ UNCHANGED <<trackerVars, keyVars, allocVars, esPub, expired, refresh,
                   refreshKey, faultVars>>

(* The server answers the bootstrap request with its current key. *)
ServeRefresh ==
    /\ refresh = "asked"
    /\ refresh' = "served" /\ refreshKey' = cur
    /\ UNCHANGED <<trackerVars, keyVars, allocVars, esPub, expired, channel,
                   promise, rq, faultVars>>

Refreshing == {q \in Request : rq[q].pc \in {"awaitRefresh", "buildRefresh", "staleRefresh"}}

(* The new key is saved and this.channel is dropped; every waiter goes on. *)
FinishRefresh ==
    /\ refresh = "served"
    /\ esPub' = refreshKey
    /\ expired' = (expired /\ refreshKey = esPub)
    /\ channel' = [channel EXCEPT !.key = 0]
    /\ refresh' = None
    /\ rq' = [q \in Request |->
                CASE q \notin Refreshing -> rq[q]
                  [] rq[q].pc = "awaitRefresh" -> [rq[q] EXCEPT !.pc = "channel2"]
                  [] rq[q].pc = "staleRefresh" -> [rq[q] EXCEPT !.pc = "channel"]
                  [] rq[q].pc = "buildRefresh" ->
                        [rq[q] EXCEPT !.pc = "build", !.chan.key = refreshKey]]
    /\ UNCHANGED <<trackerVars, keyVars, allocVars, promise, refreshKey, faultVars>>

(* The refresh fails: every waiter throws, and so do the calls that joined *)
(* a build that was waiting for it.                                        *)
RefreshFails ==
    /\ refresh # None /\ faults < MaxFaults
    /\ refresh' = None
    /\ LET owners == {q \in Request : rq[q].pc = "buildRefresh"}
           failed == Refreshing \cup
                     {q \in Request : rq[q].pc = "awaitBuild" /\ rq[q].on \in owners}
       IN  /\ rq' = [q \in Request |->
                        IF q \in failed
                        THEN [rq[q] EXCEPT !.pc = "over", !.out = "error", !.on = None]
                        ELSE rq[q]]
           /\ promise' = IF owners = {} THEN promise ELSE None
    /\ faults' = faults + 1
    /\ UNCHANGED <<trackerVars, keyVars, allocVars, esPub, expired, channel,
                   refreshKey>>

-----------------------------------------------------------------------------
(* DurableSequenceAllocator.                                               *)

Max2(a, b) == IF a > b THEN a ELSE b

(* A block starts after everything known to be reserved, and is written    *)
(* before a number of it is used.                                          *)
\* Mutant: the block starts from what this process knows, not from the disk.
BugReserve(known) ==
    LET end == Max2(known, reservedThrough)
    IN  /\ end + Block <= MaxSeq
        /\ durable' = end + Block
        /\ reservedThrough' = end + Block
        /\ nextValue' = end + 1
Reserve(known) ==
    LET end == Max2(known, Max2(durable, reservedThrough))
    IN  /\ end + Block <= MaxSeq
        /\ durable' = end + Block
        /\ reservedThrough' = end + Block
        /\ nextValue' = end + 1

ReserveBlock(r) ==
    /\ Live(r) /\ rq[r].pc = "seq"
    /\ nextValue > reservedThrough
    /\ Reserve(0)
    /\ UNCHANGED <<trackerVars, keyVars, chanVars, rq, faultVars>>

(* next, and the envelope leaves. *)
Send(r) ==
    /\ Live(r) /\ rq[r].pc = "seq"
    /\ nextValue <= reservedThrough
    /\ nextValue' = nextValue + 1
    /\ rq' = [rq EXCEPT ![r].pc = "sent", ![r].seq = nextValue]
    /\ UNCHANGED <<trackerVars, keyVars, reservedThrough, durable, chanVars, faultVars>>

-----------------------------------------------------------------------------
(* The server: secure_envelope.                                            *)

Answer(r, reply) == rq' = [rq EXCEPT ![r].pc = "answered", ![r].reply = reply]
Execute(r) ==
    rq' = [rq EXCEPT ![r].pc = "answered", ![r].reply = "ok", ![r].runs = @ + 1]

(* The envelope's key is one the server still holds. *)
Opens(r) == rq[r].chan.key \in {cur, prev} \ {0}

(* No transport memory: refused before the body is read. *)
Busy(r) ==
    /\ rq[r].pc = "sent"
    /\ Answer(r, "busy")
    /\ UNCHANGED <<trackerVars, keyVars, allocVars, chanVars, faultVars>>

(* The envelope does not open (256 zero bytes), or the bearer is revoked.  *)
Reject(r) ==
    /\ rq[r].pc = "sent"
    /\ \/ ~Opens(r) /\ Answer(r, "decoy")
       \/ Opens(r) /\ revoked /\ Answer(r, "denied")
    /\ UNCHANGED <<trackerVars, keyVars, allocVars, chanVars, faultVars>>

Admissible(r) == rq[r].pc = "sent" /\ Opens(r) /\ ~revoked

(* check_in_memory accepts and the handler runs. *)
Serve(r) ==
    /\ Admissible(r)
    /\ T!CheckInMemory(r, rq[r].seq)
    /\ Execute(r)
    /\ UNCHANGED <<keyVars, allocVars, chanVars, faultVars>>

(* check_in_memory wants a new reservation: control_io.run. *)
Wait(r) ==
    /\ Admissible(r)
    /\ T!Hold(r, rq[r].seq)
    /\ Move(r, "held")
    /\ UNCHANGED <<keyVars, allocVars, chanVars, faultVars>>

(* check_and_record accepts and the handler runs. *)
ServeReserved(r) ==
    /\ rq[r].pc = "held"
    /\ T!CheckAndRecord(r, rq[r].seq)
    /\ Execute(r)
    /\ UNCHANGED <<keyVars, allocVars, chanVars, faultVars>>

(* Either check refuses: 401 with last_seen_seq. *)
Replayed(r) ==
    /\ Admissible(r) \/ rq[r].pc = "held"
    /\ T!Replay(r, rq[r].seq)
    /\ rq' = [rq EXCEPT ![r].pc = "answered", ![r].reply = "replay",
                        ![r].last = T!LastSeen]
    /\ UNCHANGED <<keyVars, allocVars, chanVars, faultVars>>

(* The reservation cannot be written: 500 anti_replay_unavailable. *)
ReservationFails(r) ==
    /\ rq[r].pc = "held" /\ faults < MaxFaults
    /\ T!PersistFails(r, rq[r].seq)
    /\ Answer(r, "failed")
    /\ faults' = faults + 1
    /\ UNCHANGED <<keyVars, allocVars, chanVars>>

-----------------------------------------------------------------------------
(* The client: what `sealed` does with an answer.                          *)

Answered(r, reply) == Live(r) /\ rq[r].pc = "answered" /\ rq[r].reply = reply

(* ObsetyncSessionStaleError: refresh once, unless the shared channel has  *)
(* been replaced since this call took it; the second time, give up.        *)
OnDecoy(r) ==
    /\ Answered(r, "decoy")
    /\ \/ /\ ~rq[r].refreshed
          /\ channel.key = 0 \/ channel.gen = rq[r].chan.gen
          /\ channel' = [channel EXCEPT !.key = 0]
          /\ AskRefresh
          /\ rq' = [rq EXCEPT ![r].refreshed = TRUE, ![r].pc = "staleRefresh"]
       \/ /\ ~rq[r].refreshed
          /\ channel.key # 0 /\ channel.gen # rq[r].chan.gen
          /\ rq' = [rq EXCEPT ![r].refreshed = TRUE, ![r].pc = "channel"]
          /\ UNCHANGED <<channel, refresh>>
       \/ /\ rq[r].refreshed
          /\ Settle(r, "reenroll")
          /\ UNCHANGED <<channel, refresh>>
    /\ UNCHANGED <<trackerVars, keyVars, allocVars, esPub, expired, promise,
                   refreshKey, faultVars>>

OnReplay(r) ==
    /\ Answered(r, "replay")
    /\ \/ /\ ~rq[r].recovered
          /\ Reserve(rq[r].last)
          /\ rq' = [rq EXCEPT ![r].recovered = TRUE, ![r].pc = "channel"]
       \/ /\ rq[r].recovered
          /\ Settle(r, "reenroll")
          /\ UNCHANGED allocVars
    /\ UNCHANGED <<trackerVars, keyVars, chanVars, faultVars>>

(* Receive backpressure: only an idempotent call is sent again, once. *)
\* Mutant: every call is sent again once, whatever the answer.
BugOnOther(r) ==
    /\ \/ /\ Answered(r, "busy") \/ Answered(r, "failed") \/ Answered(r, "ok")
          /\ ~rq[r].retried
          /\ rq' = [rq EXCEPT ![r].retried = TRUE, ![r].pc = "channel"]
       \/ \E reply \in {"busy", "failed", "ok"} :
            Answered(r, reply) /\ rq[r].retried /\ Settle(r, reply)
       \/ Answered(r, "denied") /\ Settle(r, "reenroll")
    /\ UNCHANGED <<trackerVars, keyVars, allocVars, chanVars, faultVars>>
OnOther(r) ==
    /\ \/ /\ Answered(r, "busy")
          /\ r \in Idempotent /\ ~rq[r].retried
          /\ rq' = [rq EXCEPT ![r].retried = TRUE, ![r].pc = "channel"]
       \/ /\ Answered(r, "busy")
          /\ r \notin Idempotent \/ rq[r].retried
          /\ Settle(r, "busy")
       \/ \E reply \in {"failed", "ok"} : Answered(r, reply) /\ Settle(r, reply)
       \/ Answered(r, "denied") /\ Settle(r, "reenroll")
    /\ UNCHANGED <<trackerVars, keyVars, allocVars, chanVars, faultVars>>

-----------------------------------------------------------------------------
(* The surroundings.                                                       *)

(* The answer never comes (timeout, connection lost); the envelope may     *)
(* still be on its way.                                                    *)
Lose(r) ==
    /\ Live(r) /\ rq[r].pc \in {"sent", "held", "answered"}
    /\ faults < MaxFaults
    /\ rq' = [rq EXCEPT ![r].out = "error"]
    /\ faults' = faults + 1
    /\ UNCHANGED <<trackerVars, keyVars, allocVars, chanVars>>

(* rotate_now: every 24 hours. *)
Rotate ==
    /\ faults < MaxFaults
    /\ prev' = cur /\ cur' = cur + 1
    /\ faults' = faults + 1
    /\ UNCHANGED <<trackerVars, revoked, allocVars, chanVars, rq>>

(* The last hour of the key the client holds begins (isStale). *)
Expire ==
    /\ faults < MaxFaults
    /\ ~expired /\ esPub = cur
    /\ expired' = TRUE
    /\ UNCHANGED <<trackerVars, keyVars, allocVars, esPub, channel, promise,
                   refresh, refreshKey, rq, faultVars>>

(* The server restarts: init_eph_keys makes a key nobody knows, requests   *)
(* inside the server are gone.                                             *)
ServerRestart ==
    /\ faults < MaxFaults
    /\ T!Restart
    /\ cur' = cur + 1 /\ prev' = 0
    /\ rq' = [q \in Request |->
                IF rq[q].pc = "held"
                THEN [rq[q] EXCEPT !.pc = "over",
                        !.out = IF @ = None THEN "error" ELSE @]
                ELSE rq[q]]
    /\ faults' = faults + 1
    /\ UNCHANGED <<revoked, allocVars, chanVars>>

(* The plugin is reloaded: only durable and esPub survive. *)
ClientCrash ==
    /\ faults < MaxFaults
    /\ nextValue' = 1 /\ reservedThrough' = 0
    /\ channel' = NoChannel /\ promise' = None /\ refresh' = None
    /\ rq' = [q \in Request |->
                IF rq[q].out # None \/ rq[q].pc = "idle" THEN rq[q]
                ELSE [rq[q] EXCEPT !.out = "crashed",
                        !.pc = IF @ \in {"sent", "held"} THEN @ ELSE "over"]]
    /\ faults' = faults + 1
    /\ UNCHANGED <<trackerVars, keyVars, durable, esPub, expired, refreshKey>>

Revoke ==
    /\ ~revoked
    /\ revoked' = TRUE
    /\ UNCHANGED <<trackerVars, cur, prev, allocVars, chanVars, rq, faultVars>>

Client(r) ==
    \/ UseChannel(r) \/ JoinBuild(r) \/ JoinRefresh(r) \/ StartBuild(r)
    \/ Build(r) \/ ReserveBlock(r) \/ Send(r)
    \/ OnDecoy(r) \/ OnReplay(r) \/ OnOther(r)
Server(r) == Reject(r) \/ Serve(r) \/ Wait(r) \/ ServeReserved(r) \/ Replayed(r)
Refresh == ServeRefresh \/ FinishRefresh

Next ==
    \/ \E r \in Request : Call(r) \/ Client(r) \/ Server(r)
    \/ Refresh
    \/ \E r \in Request : Busy(r) \/ ReservationFails(r) \/ Lose(r)
    \/ RefreshFails \/ Rotate \/ Expire \/ ServerRestart \/ ClientCrash \/ Revoke

(* The event loop, the network and the server keep running. *)
Spec ==
    /\ Init /\ [][Next]_vars
    /\ \A r \in Request : WF_vars(Client(r)) /\ WF_vars(Server(r))
    /\ WF_vars(Refresh)

-----------------------------------------------------------------------------
(* No two envelopes carry the same sequence number, whatever crashes lie   *)
(* between them: the allocator wastes numbers but never reuses them.       *)
NumbersNotReused ==
    /\ \A q, r \in Request :
        q # r /\ rq[q].seq # 0 => rq[q].seq # rq[r].seq
    /\ \A r \in Request : nextValue <= reservedThrough => rq[r].seq < nextValue

(* The retries of `sealed` never run the handler twice for one call, and a *)
(* call that reports success ran it.                                       *)
RunsOnce ==
    \A r \in Request :
        /\ rq[r].runs <= 1
        /\ rq[r].out = "ok" => rq[r].runs = 1

(* Both, in every state. *)
CallsRunOnce == NumbersNotReused /\ RunsOnce

(* Every call of sealed returns or throws. *)
CallsReturn == \A r \in Request : []<>(rq[r].pc = "idle" \/ rq[r].out # None)

=============================================================================
