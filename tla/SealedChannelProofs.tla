------------------------- MODULE SealedChannelProofs -------------------------
(***************************************************************************)
(* The sealed requests of a device, for every number of calls, crashes and *)
(* key rotations: no sequence number is used for two envelopes, no call    *)
(* runs its handler twice, and what the channel does to the server's       *)
(* window is what SequenceTracker allows, so that its theorems hold in the *)
(* composition.                                                            *)
(*                                                                         *)
(* Two envelopes differ in their numbers because a block is durable before *)
(* a number of it is used, and the next block starts above what is         *)
(* durable: Numbered.  A call runs once because a number is asked for      *)
(* again only after an answer that says the handler did not run: RanOnce.  *)
(***************************************************************************)
EXTENDS SealedChannel, TLAPS

Tracker == INSTANCE SequenceTrackerProofs

\* An envelope on its way has a number, and a request inside the server waits with it.
Placed ==
    \A r \in Request :
        /\ rq[r].pc \in {"sent", "held"} => rq[r].seq # 0
        /\ rq[r].pc = "held" => held[r] = rq[r].seq
        /\ rq[r].pc # "held" => held[r] = T!Idle

\* Every number in use lies in a durable block, below what is handed out next.
Numbered ==
    /\ reservedThrough <= durable
    /\ \A r \in Request : rq[r].seq <= durable
    /\ NumbersNotReused

\* A call whose handler ran is answered so or over.
RanOnce ==
    \A r \in Request :
        /\ rq[r].pc \notin {"answered", "over"} => rq[r].runs = 0
        /\ rq[r].pc = "answered" => rq[r].runs = IF rq[r].reply = "ok" THEN 1 ELSE 0
        /\ rq[r].runs <= 1
        /\ rq[r].out = "ok" => rq[r].pc = "over" /\ rq[r].runs = 1

IInv == TypeOK /\ Tracker!IInv /\ Placed /\ Numbered /\ RanOnce

-----------------------------------------------------------------------------
(* The server's window.                                                    *)

\* The actions of the channel are those of the tracker.
LEMMA SameActions ==
    ASSUME NEW r, NEW s
    PROVE  /\ T!Hold(r, s) => Tracker!Hold(r, s)
           /\ T!CheckInMemory(r, s) => Tracker!CheckInMemory(r, s)
           /\ T!Replay(r, s) => Tracker!Replay(r, s)
           /\ T!CheckAndRecord(r, s) => Tracker!CheckAndRecord(r, s)
           /\ T!PersistFails(r, s) => Tracker!PersistFails(r, s)
           /\ T!Restart => Tracker!Restart
           /\ T!Init => Tracker!Init
  BY Zenon DEF T!Hold, T!CheckInMemory, T!Replay, T!CheckAndRecord, T!PersistFails, T!Restart, T!Init,
     Tracker!Hold, Tracker!CheckInMemory, Tracker!Replay, Tracker!CheckAndRecord,
     Tracker!PersistFails, Tracker!Restart, Tracker!Init,
     T!Refused, T!IsSeenOrStale, T!Accepted, T!Record, T!Shifted, T!Larger, T!ReservationCeiling,
     T!Idle, T!SeqNo, T!Ages,
     Tracker!Refused, Tracker!IsSeenOrStale, Tracker!Accepted, Tracker!Record, Tracker!Shifted,
     Tracker!Larger, Tracker!ReservationCeiling, Tracker!Idle, Tracker!SeqNo, Tracker!Ages

LEMMA TrackerStep ==
    ASSUME IInv, [Next]_vars
    PROVE  [Tracker!Next]_(Tracker!vars)
<1> USE DEF Tracker!vars, trackerVars
<1>1. ASSUME NEW r \in Request, rq[r].pc \in {"sent", "held"}
      PROVE  rq[r].seq \in Tracker!SeqNo
  BY <1>1, ChannelAssumption DEF IInv, TypeOK, CallRecord, Placed, Tracker!SeqNo
<1>2. ASSUME NEW r \in Request, Server(r) \/ ReservationFails(r)
      PROVE  [Tracker!Next]_(Tracker!vars)
  <2>1. CASE Reject(r)
    BY <2>1 DEF Reject
  <2>2. CASE Serve(r) \/ Wait(r) \/ ServeReserved(r) \/ Replayed(r) \/ ReservationFails(r)
    <3>1. rq[r].seq \in Tracker!SeqNo
      BY <1>1, <2>2 DEF Serve, Wait, ServeReserved, Replayed, ReservationFails, Admissible
    <3>2. Tracker!Step(r, rq[r].seq)
      BY <2>2, SameActions DEF Serve, Wait, ServeReserved, Replayed, ReservationFails, Tracker!Step
    <3>3. QED
      BY <3>1, <3>2 DEF Tracker!Next
  <2>3. QED
    BY <1>2, <2>1, <2>2 DEF Server
<1>3. CASE ServerRestart
  BY <1>3, SameActions, Zenon DEF ServerRestart, Tracker!Next
<1>4. ASSUME NEW r \in Request, Call(r) \/ Client(r) \/ Busy(r) \/ Lose(r)
      PROVE  UNCHANGED trackerVars
  BY <1>4, Zenon DEF Call, Client, UseChannel, JoinBuild, JoinRefresh, StartBuild, Build, ReserveBlock, Send,
              OnDecoy, OnReplay, OnOther, Busy, Lose
<1>5. CASE Refresh \/ RefreshFails \/ Rotate \/ Expire \/ ClientCrash \/ Revoke \/ UNCHANGED vars
  BY <1>5, Zenon DEF Refresh, ServeRefresh, FinishRefresh, RefreshFails, Rotate, Expire, ClientCrash, Revoke, vars
<1>6. QED
  BY <1>2, <1>3, <1>4, <1>5 DEF Next

LEMMA TrackerIInv ==
    ASSUME IInv, [Next]_vars
    PROVE  Tracker!IInv'
<1>1. Tracker!IInv
  BY DEF IInv
<1>2. QED
  BY <1>1, TrackerStep, Tracker!StepKeepsIInv, ChannelAssumption

-----------------------------------------------------------------------------
(* The calls.                                                              *)

\* A field set to a value of its type leaves a call well formed.
LEMMA Updated ==
    ASSUME NEW c \in CallRecord, NEW p \in Places, NEW k \in Channel, NEW n \in Request \cup {None},
           NEW b \in BOOLEAN, NEW y \in Replies, NEW m \in 0..MaxSeq, NEW o \in Outcomes
    PROVE  /\ [c EXCEPT !.pc = p] \in CallRecord
           /\ [c EXCEPT !.pc = p, !.chan = k, !.on = n] \in CallRecord
           /\ [c EXCEPT !.pc = p, !.chan = k] \in CallRecord
           /\ [c EXCEPT !.pc = p, !.out = o, !.on = n] \in CallRecord
           /\ [c EXCEPT !.pc = p, !.out = o] \in CallRecord
           /\ [c EXCEPT !.out = o, !.pc = p] \in CallRecord
           /\ [c EXCEPT !.out = o] \in CallRecord
           /\ [c EXCEPT !.refreshed = b, !.pc = p] \in CallRecord
           /\ [c EXCEPT !.recovered = b, !.pc = p] \in CallRecord
           /\ [c EXCEPT !.retried = b, !.pc = p] \in CallRecord
           /\ [c EXCEPT !.pc = p, !.reply = y, !.last = m] \in CallRecord
  BY Zenon DEF CallRecord

LEMMA TypeStep ==
    ASSUME IInv, Next
    PROVE  TypeOK'
<1>0. TypeOK /\ Placed
  BY DEF IInv
<1>1. T!TypeOK'
  BY TrackerIInv DEF Tracker!IInv, T!TypeOK, Tracker!TypeOK, T!SeqNo, T!Ages, T!Idle,
                     Tracker!SeqNo, Tracker!Ages, Tracker!Idle
<1>2. T!LastSeen \in 0..MaxSeq
  BY <1>0, ChannelAssumption DEF TypeOK, T!TypeOK, T!LastSeen, T!Larger
<1> DEFINE Rest ==
      /\ {cur, prev, esPub, refreshKey, faults} \subseteq Nat
      /\ revoked \in BOOLEAN /\ expired \in BOOLEAN
      /\ nextValue \in 1..(MaxSeq + 1)
      /\ reservedThrough \in 0..MaxSeq /\ durable \in 0..MaxSeq
      /\ channel \in Channel
      /\ promise \in Request \cup {None}
      /\ refresh \in {None, "asked", "served"}
      /\ rq \in [Request -> CallRecord]
<1>3. Rest
  BY <1>0 DEF TypeOK
<1> SUFFICES Rest'
  BY <1>1 DEF TypeOK
<1> USE <1>3, ChannelAssumption DEF None, keyVars, allocVars, chanVars, faultVars
<1>a. /\ {"channel", "channel2", "build", "staleRefresh", "seq", "answered", "over"} \subseteq Places
      /\ {"error", "crashed", "reenroll", "busy", "failed", "ok"} \subseteq Outcomes
      /\ "replay" \in Replies /\ "none" \in Request \cup {"none"}
  BY DEF Places, Outcomes, Replies
<1>b. \A q \in Request : rq[q] \in CallRecord /\ rq[q].pc \in Places /\ rq[q].out \in Outcomes
                         /\ rq[q].chan \in Channel
  BY DEF CallRecord
<1>c. ASSUME NEW r \in Request, NEW new \in CallRecord, rq' = [rq EXCEPT ![r] = new]
      PROVE  rq' \in [Request -> CallRecord]
  BY <1>c
<1>4. ASSUME NEW r \in Request, Call(r) \/ UseChannel(r) \/ JoinBuild(r) \/ JoinRefresh(r)
      PROVE  Rest'
  BY <1>4 DEF Call, UseChannel, JoinBuild, JoinRefresh, Move,
              Channel, CallRecord, Places, Replies, Outcomes
<1>5. ASSUME NEW r \in Request, StartBuild(r)
      PROVE  Rest'
  BY <1>5 DEF StartBuild, AskRefresh, Move, Channel, CallRecord, Places, Replies, Outcomes
<1>6. ASSUME NEW r \in Request, Build(r)
      PROVE  Rest'
  <2>1. [gen |-> channel.gen + 1, key |-> rq[r].chan.key] \in Channel
    BY <1>b DEF Channel
  <2>2. PICK new \in Channel :
          /\ channel' = new
          /\ rq' = [q \in Request |->
                      IF q = r \/ (rq[q].pc = "awaitBuild" /\ rq[q].on = r)
                      THEN [rq[q] EXCEPT !.pc = "seq", !.chan = new, !.on = None]
                      ELSE rq[q]]
    BY <1>6, <2>1, Zenon DEF Build
  <2>3. \A q \in Request : [rq[q] EXCEPT !.pc = "seq", !.chan = new, !.on = None] \in CallRecord
    BY <1>a, <1>b, Updated, Zenon
  <2>4. rq' \in [Request -> CallRecord]
    BY <2>2, <2>3, Zenon
  <2>5. QED
    BY <1>6, <2>2, <2>4, Zenon DEF Build
<1>7. CASE ServeRefresh
  BY <1>7 DEF ServeRefresh
<1>8. CASE FinishRefresh
  <2>1. \A q \in Request :
          /\ [rq[q] EXCEPT !.pc = "channel2"] \in CallRecord
          /\ [rq[q] EXCEPT !.pc = "channel"] \in CallRecord
    BY <1>a, <1>b, Updated, Zenon
  <2>2. ASSUME NEW q \in Request
        PROVE  [rq[q] EXCEPT !.pc = "build", !.chan.key = refreshKey] \in CallRecord
    <3>1. PICK k \in Channel : k = [rq[q].chan EXCEPT !.key = refreshKey]
      <4>1. \A c \in Channel : [c EXCEPT !.key = refreshKey] \in Channel
        BY DEF Channel
      <4>2. QED
        BY <1>b, <4>1, Zenon
    <3>2. [rq[q] EXCEPT !.pc = "build", !.chan = k] \in CallRecord
      BY <1>a, <1>b, Updated, Zenon
    <3>3. QED
      BY <3>1, <3>2, Zenon
  <2>3. rq' \in [Request -> CallRecord]
    BY <1>8, <2>1, <2>2, Zenon DEF FinishRefresh, Refreshing
  <2>4. expired' \in BOOLEAN /\ channel' \in Channel
    BY <1>8, Zenon DEF FinishRefresh, Channel
  <2>5. QED
    BY <1>8, <2>3, <2>4, Zenon DEF FinishRefresh
<1>9. CASE RefreshFails
  <2>1. \A q \in Request : [rq[q] EXCEPT !.pc = "over", !.out = "error", !.on = None] \in CallRecord
    BY <1>a, <1>b, Updated, Zenon
  <2>2. PICK failed : rq' = [q \in Request |->
                              IF q \in failed
                              THEN [rq[q] EXCEPT !.pc = "over", !.out = "error", !.on = None]
                              ELSE rq[q]]
    BY <1>9, Zenon DEF RefreshFails
  <2>3. rq' \in [Request -> CallRecord]
    BY <2>1, <2>2, Zenon
  <2>4. promise' \in {promise, None} /\ faults' = faults + 1
    BY <1>9, Zenon DEF RefreshFails
  <2>5. refresh' = None /\ UNCHANGED <<trackerVars, keyVars, allocVars, esPub, expired, channel, refreshKey>>
    BY <1>9, Zenon DEF RefreshFails
  <2>6. QED
    BY <2>3, <2>4, <2>5
<1>10. ASSUME NEW r \in Request, ReserveBlock(r) \/ Send(r)
       PROVE  Rest'
  BY <1>10 DEF ReserveBlock, Reserve, Max2, Send, CallRecord, Places, Replies, Outcomes
<1>11. ASSUME NEW r \in Request, Busy(r) \/ Reject(r) \/ Wait(r) \/ ReservationFails(r)
       PROVE  Rest'
  BY <1>11 DEF Busy, Reject, Wait, ReservationFails, Answer, Move, CallRecord, Places, Replies, Outcomes
<1>12. ASSUME NEW r \in Request, Serve(r) \/ ServeReserved(r)
       PROVE  Rest'
  BY <1>12 DEF Serve, ServeReserved, Execute, CallRecord, Places, Replies, Outcomes
<1>13. ASSUME NEW r \in Request, Replayed(r)
       PROVE  Rest'
  <2>1. [rq[r] EXCEPT !.pc = "answered", !.reply = "replay", !.last = T!LastSeen] \in CallRecord
    BY <1>2, <1>a, <1>b, Updated, Zenon
  <2>2. rq' = [rq EXCEPT ![r] = [rq[r] EXCEPT !.pc = "answered", !.reply = "replay", !.last = T!LastSeen]]
    BY <1>13, Zenon DEF Replayed, CallRecord
  <2>3. rq' \in [Request -> CallRecord]
    BY <1>c, <2>1, <2>2
  <2>4. QED
    BY <1>13, <2>3 DEF Replayed
<1>s. ASSUME NEW r \in Request, NEW o \in Outcomes, Settle(r, o)
      PROVE  rq' \in [Request -> CallRecord]
  <2>1. [rq[r] EXCEPT !.pc = "over", !.out = o] \in CallRecord
    BY <1>a, <1>b, Updated, Zenon
  <2>2. rq' = [rq EXCEPT ![r] = [rq[r] EXCEPT !.pc = "over", !.out = o]]
    BY <1>s, Zenon DEF Settle, CallRecord
  <2>3. QED
    BY <1>c, <2>1, <2>2
<1>14. ASSUME NEW r \in Request, OnDecoy(r)
       PROVE  Rest'
  <2>1. \A x \in {"staleRefresh", "channel"} :
          [rq[r] EXCEPT !.refreshed = TRUE, !.pc = x] \in CallRecord
    <3>1. {"staleRefresh", "channel"} \subseteq Places /\ TRUE \in BOOLEAN
      BY <1>a, Zenon
    <3>2. \A x \in Places : [rq[r] EXCEPT !.refreshed = TRUE, !.pc = x] \in CallRecord
      BY <1>a, <1>b, <3>1, Updated, Zenon
    <3>3. QED
      BY <3>1, <3>2, Zenon
  <2>2. ASSUME NEW x \in {"staleRefresh", "channel"}, rq' = [rq EXCEPT ![r].refreshed = TRUE, ![r].pc = x]
        PROVE  rq' = [rq EXCEPT ![r] = [rq[r] EXCEPT !.refreshed = TRUE, !.pc = x]]
    BY <2>2, Zenon DEF CallRecord
  <2>3. rq' \in [Request -> CallRecord]
    BY <1>14, <1>a, <1>s, <1>c, <2>1, <2>2, Zenon DEF OnDecoy
  <2>4. channel' \in Channel /\ refresh' \in {None, "asked", "served"}
    BY <1>14 DEF OnDecoy, AskRefresh, Channel
  <2>5. QED
    BY <1>14, <2>3, <2>4 DEF OnDecoy
<1>15. ASSUME NEW r \in Request, OnReplay(r)
       PROVE  Rest'
  <2>1. [rq[r] EXCEPT !.recovered = TRUE, !.pc = "channel"] \in CallRecord
    BY <1>a, <1>b, Updated, Zenon
  <2>2. ASSUME rq' = [rq EXCEPT ![r].recovered = TRUE, ![r].pc = "channel"]
        PROVE  rq' = [rq EXCEPT ![r] = [rq[r] EXCEPT !.recovered = TRUE, !.pc = "channel"]]
    BY <2>2, Zenon DEF CallRecord
  <2>3. rq' \in [Request -> CallRecord]
    BY <1>15, <1>a, <1>s, <1>c, <2>1, <2>2, Zenon DEF OnReplay
  <2>4. /\ nextValue' \in 1..(MaxSeq + 1)
        /\ reservedThrough' \in 0..MaxSeq /\ durable' \in 0..MaxSeq
    BY <1>15 DEF OnReplay, Reserve, Max2, CallRecord
  <2>5. QED
    BY <1>15, <2>3, <2>4 DEF OnReplay
<1>16. ASSUME NEW r \in Request, OnOther(r) \/ Lose(r)
       PROVE  Rest'
  <2>1. /\ [rq[r] EXCEPT !.retried = TRUE, !.pc = "channel"] \in CallRecord
        /\ [rq[r] EXCEPT !.out = "error"] \in CallRecord
    BY <1>a, <1>b, Updated, Zenon
  <2>2. ASSUME rq' = [rq EXCEPT ![r].retried = TRUE, ![r].pc = "channel"]
        PROVE  rq' = [rq EXCEPT ![r] = [rq[r] EXCEPT !.retried = TRUE, !.pc = "channel"]]
    BY <2>2, Zenon DEF CallRecord
  <2>3. ASSUME OnOther(r)
        PROVE  rq' \in [Request -> CallRecord]
    BY <2>3, <1>a, <1>s, <1>c, <2>1, <2>2, Zenon DEF OnOther
  <2>4. ASSUME Lose(r)
        PROVE  rq' \in [Request -> CallRecord]
    BY <2>4, <2>1 DEF Lose
  <2>5. faults' \in Nat
    BY <1>16 DEF OnOther, Lose
  <2>6. QED
    BY <1>16, <2>3, <2>4, <2>5, Zenon DEF OnOther, Lose
<1>17. CASE Rotate \/ Revoke
  <2>1. revoked' \in BOOLEAN
    BY <1>17, Zenon DEF Rotate, Revoke
  <2>2. QED
    BY <1>17, <2>1 DEF Rotate, Revoke
<1>18. CASE Expire
  BY <1>18 DEF Expire
<1>19. CASE ServerRestart
  <2>1. \A q \in Request : \A o \in Outcomes : [rq[q] EXCEPT !.pc = "over", !.out = o] \in CallRecord
    BY <1>a, <1>b, Updated, Zenon
  <2>2. \A q \in Request : [rq[q] EXCEPT !.pc = "over", !.out = IF @ = None THEN "error" ELSE @] \in CallRecord
    BY <1>a, <1>b, <2>1, Zenon
  <2>3. rq' \in [Request -> CallRecord]
    BY <1>19, <2>2, Zenon DEF ServerRestart
  <2>4. /\ cur' = cur + 1 /\ prev' = 0 /\ faults' = faults + 1
        /\ UNCHANGED <<revoked, allocVars, chanVars>>
    BY <1>19, Zenon DEF ServerRestart
  <2>5. QED
    BY <2>3, <2>4
<1>20. CASE ClientCrash
  <2>1. \A q \in Request : \A p \in Places : [rq[q] EXCEPT !.out = "crashed", !.pc = p] \in CallRecord
    BY <1>a, <1>b, Updated, Zenon
  <2>2. \A q \in Request : [rq[q] EXCEPT !.out = "crashed",
                              !.pc = IF @ \in {"sent", "held"} THEN @ ELSE "over"] \in CallRecord
    BY <1>a, <1>b, <2>1, Zenon
  <2>3. rq' \in [Request -> CallRecord]
    BY <1>20, <2>2, Zenon DEF ClientCrash
  <2>4. /\ nextValue' = 1 /\ reservedThrough' = 0
        /\ channel' = NoChannel /\ promise' = None /\ refresh' = None
        /\ faults' = faults + 1
        /\ UNCHANGED <<trackerVars, keyVars, durable, esPub, expired, refreshKey>>
    BY <1>20, Zenon DEF ClientCrash
  <2>5. QED
    BY <2>3, <2>4 DEF NoChannel, Channel
<1>21. QED
  BY <1>4, <1>5, <1>6, <1>7, <1>8, <1>9, <1>10, <1>11, <1>12, <1>13, <1>14, <1>15, <1>16,
     <1>17, <1>18, <1>19, <1>20 DEF Next, Client, Server, Refresh

\* A finished build or key refresh moves the calls that wait for it.
Waiting == {"build", "awaitBuild", "awaitRefresh", "staleRefresh", "buildRefresh"}
Moved ==
    /\ UNCHANGED held
    /\ \A q \in Request :
          /\ rq'[q].runs = rq[q].runs /\ rq'[q].reply = rq[q].reply
          /\ rq'[q].out = rq[q].out /\ rq'[q].seq = rq[q].seq
          /\ \/ rq'[q].pc = rq[q].pc
             \/ rq[q].pc \in Waiting /\ rq'[q].pc \in {"seq", "channel", "channel2", "build"}

LEMMA BuildMoves ==
    ASSUME rq \in [Request -> CallRecord], NEW r \in Request, Build(r)
    PROVE  Moved
<1>1. rq[r].pc = "build" /\ UNCHANGED held
  BY Zenon DEF Build, trackerVars
<1>2. PICK new : rq' = [q \in Request |->
                          IF q = r \/ (rq[q].pc = "awaitBuild" /\ rq[q].on = r)
                          THEN [rq[q] EXCEPT !.pc = "seq", !.chan = new, !.on = None]
                          ELSE rq[q]]
  BY Zenon DEF Build
<1>3. ASSUME NEW q \in Request
      PROVE  /\ rq'[q].runs = rq[q].runs /\ rq'[q].reply = rq[q].reply
             /\ rq'[q].out = rq[q].out /\ rq'[q].seq = rq[q].seq
             /\ rq'[q].pc = rq[q].pc \/ (rq[q].pc \in Waiting /\ rq'[q].pc = "seq")
  <2>1. PICK c \in CallRecord : c = rq[q]
    OBVIOUS
  <2>2. CASE q = r \/ (rq[q].pc = "awaitBuild" /\ rq[q].on = r)
    <3>1. rq'[q] = [c EXCEPT !.pc = "seq", !.chan = new, !.on = None] /\ c.pc \in Waiting
      BY <1>1, <1>2, <2>1, <2>2, Zenon DEF Waiting
    <3>2. QED
      BY <2>1, <3>1 DEF CallRecord
  <2>3. CASE ~(q = r \/ (rq[q].pc = "awaitBuild" /\ rq[q].on = r))
    BY <1>2, <2>3, Zenon
  <2>4. QED
    BY <2>2, <2>3
<1>4. QED
  BY <1>1, <1>3 DEF Moved

LEMMA RefreshMoves ==
    ASSUME rq \in [Request -> CallRecord], FinishRefresh
    PROVE  Moved
<1>1. UNCHANGED held
  BY Zenon DEF FinishRefresh, trackerVars
<1>2. rq' = [q \in Request |->
               CASE q \notin Refreshing -> rq[q]
                 [] rq[q].pc = "awaitRefresh" -> [rq[q] EXCEPT !.pc = "channel2"]
                 [] rq[q].pc = "staleRefresh" -> [rq[q] EXCEPT !.pc = "channel"]
                 [] rq[q].pc = "buildRefresh" ->
                       [rq[q] EXCEPT !.pc = "build", !.chan.key = refreshKey]]
  BY Zenon DEF FinishRefresh
<1>3. ASSUME NEW q \in Request
      PROVE  /\ rq'[q].runs = rq[q].runs /\ rq'[q].reply = rq[q].reply
             /\ rq'[q].out = rq[q].out /\ rq'[q].seq = rq[q].seq
             /\ \/ rq'[q].pc = rq[q].pc
                \/ rq[q].pc \in Waiting /\ rq'[q].pc \in {"channel", "channel2", "build"}
  <2>1. PICK c \in CallRecord : c = rq[q]
    OBVIOUS
  <2>2. CASE q \notin Refreshing
    <3>1. rq[q].pc \notin {"awaitRefresh", "buildRefresh", "staleRefresh"}
      BY <2>2 DEF Refreshing
    <3>2. rq'[q] = rq[q]
      BY <1>2, <2>2, <3>1, Zenon
    <3>3. QED
      BY <3>2
  <2>3. CASE q \in Refreshing /\ c.pc = "awaitRefresh"
    <3>1. rq'[q] = [c EXCEPT !.pc = "channel2"]
      BY <1>2, <2>1, <2>3, Zenon
    <3>2. QED
      BY <2>1, <2>3, <3>1 DEF CallRecord, Waiting
  <2>4. CASE q \in Refreshing /\ c.pc = "staleRefresh"
    <3>1. rq'[q] = [c EXCEPT !.pc = "channel"]
      BY <1>2, <2>1, <2>4, Zenon
    <3>2. QED
      BY <2>1, <2>4, <3>1 DEF CallRecord, Waiting
  <2>5. CASE q \in Refreshing /\ c.pc = "buildRefresh"
    <3>1. rq'[q] = [c EXCEPT !.pc = "build", !.chan.key = refreshKey]
      BY <1>2, <2>1, <2>5, Zenon
    <3>2. QED
      BY <2>1, <2>5, <3>1 DEF CallRecord, Waiting
  <2>6. QED
    BY <2>1, <2>2, <2>3, <2>4, <2>5 DEF Refreshing
<1>4. QED
  BY <1>1, <1>3 DEF Moved

LEMMA RunStep ==
    ASSUME IInv, Next
    PROVE  RanOnce'
<1>1. rq \in [Request -> CallRecord] /\ RanOnce
  BY DEF IInv, TypeOK
<1> USE <1>1 DEF RanOnce, CallRecord, Live, None
<1>2. ASSUME NEW r \in Request, Call(r) \/ UseChannel(r) \/ JoinBuild(r) \/ JoinRefresh(r) \/ StartBuild(r)
      PROVE  RanOnce'
  BY <1>2 DEF Call, UseChannel, JoinBuild, JoinRefresh, StartBuild, Move
<1>3. ASSUME NEW r \in Request, Build(r)
      PROVE  RanOnce'
  <2>1. Moved
    BY <1>3, BuildMoves
  <2>2. QED
    BY <2>1 DEF Moved, Waiting
<1>4. ASSUME FinishRefresh
      PROVE  RanOnce'
  <2>1. Moved
    BY <1>4, RefreshMoves
  <2>2. QED
    BY <2>1 DEF Moved, Waiting
<1>5. ASSUME RefreshFails
      PROVE  RanOnce'
  <2>1. PICK failed : rq' = [q \in Request |->
                              IF q \in failed
                              THEN [rq[q] EXCEPT !.pc = "over", !.out = "error", !.on = None]
                              ELSE rq[q]]
    BY <1>5, Zenon DEF RefreshFails
  <2>2. \A q \in Request : /\ rq'[q].runs = rq[q].runs /\ rq'[q].reply = rq[q].reply
                           /\ rq'[q].out \in {rq[q].out, "error"}
                           /\ rq'[q].pc \in {rq[q].pc, "over"}
    BY <2>1, Zenon
  <2>3. QED
    BY <2>2
<1>6. ASSUME NEW r \in Request, Busy(r) \/ Reject(r) \/ Wait(r) \/ ReservationFails(r)
      PROVE  RanOnce'
  BY <1>6 DEF Busy, Reject, Wait, ReservationFails, Answer, Move, Admissible
<1>7. ASSUME NEW r \in Request, Serve(r) \/ ServeReserved(r)
      PROVE  RanOnce'
  BY <1>7 DEF Serve, ServeReserved, Execute, Admissible
<1>8. ASSUME NEW r \in Request, Replayed(r)
      PROVE  RanOnce'
  BY <1>8 DEF Replayed, Admissible
<1>9. ASSUME NEW r \in Request, OnDecoy(r) \/ OnReplay(r) \/ OnOther(r) \/ Lose(r)
      PROVE  RanOnce'
  BY <1>9 DEF OnDecoy, OnReplay, OnOther, Lose, Answered, Settle
<1>10. ASSUME ServerRestart
      PROVE  RanOnce'
  <2>1. rq' = [q \in Request |->
                IF rq[q].pc = "held"
                THEN [rq[q] EXCEPT !.pc = "over",
                        !.out = IF @ = None THEN "error" ELSE @]
                ELSE rq[q]]
    BY <1>10, Zenon DEF ServerRestart
  <2>2. \A q \in Request : /\ rq'[q].runs = rq[q].runs /\ rq'[q].reply = rq[q].reply
                           /\ rq'[q].out \in {rq[q].out, "error"}
                           /\ rq'[q].pc \in {rq[q].pc, "over"}
    BY <2>1, Zenon
  <2>3. QED
    BY <2>2
<1>11. ASSUME ClientCrash
      PROVE  RanOnce'
  <2>1. rq' = [q \in Request |->
                IF rq[q].out # None \/ rq[q].pc = "idle" THEN rq[q]
                ELSE [rq[q] EXCEPT !.out = "crashed",
                        !.pc = IF @ \in {"sent", "held"} THEN @ ELSE "over"]]
    BY <1>11, Zenon DEF ClientCrash
  <2>2. \A q \in Request : /\ rq'[q].runs = rq[q].runs /\ rq'[q].reply = rq[q].reply
                           /\ rq'[q].out \in {rq[q].out, "crashed"}
                           /\ rq'[q].pc \in {rq[q].pc, "over"}
    BY <2>1, Zenon
  <2>3. QED
    BY <2>2
<1>12. ASSUME NEW r \in Request, Send(r)
      PROVE  RanOnce'
  BY <1>12 DEF Send
<1>13. ASSUME (\E r \in Request : ReserveBlock(r)) \/ ServeRefresh \/ Rotate \/ Expire \/ Revoke
      PROVE  RanOnce'
  BY <1>13 DEF ReserveBlock, ServeRefresh, Rotate, Expire, Revoke
<1>14. QED
  BY <1>2, <1>3, <1>4, <1>5, <1>6, <1>7, <1>8, <1>9, <1>10, <1>11, <1>12, <1>13 DEF Next, Client, Server, Refresh

LEMMA PlacedStep ==
    ASSUME IInv, Next
    PROVE  Placed'
<1>1. rq \in [Request -> CallRecord] /\ Placed
  BY DEF IInv, TypeOK
<1>0. held \in [Request -> {T!Idle} \cup T!SeqNo] /\ nextValue \in Nat \ {0}
  BY DEF IInv, TypeOK, T!TypeOK
<1> USE <1>0, <1>1 DEF Placed, CallRecord, Live, None, trackerVars
<1>2. ASSUME NEW r \in Request, Call(r) \/ UseChannel(r) \/ JoinBuild(r) \/ JoinRefresh(r) \/ StartBuild(r)
      PROVE  Placed'
  BY <1>2 DEF Call, UseChannel, JoinBuild, JoinRefresh, StartBuild, Move
<1>3. ASSUME NEW r \in Request, Build(r)
      PROVE  Placed'
  <2>1. Moved
    BY <1>3, BuildMoves
  <2>2. QED
    BY <2>1 DEF Moved, Waiting
<1>4. ASSUME FinishRefresh
      PROVE  Placed'
  <2>1. Moved
    BY <1>4, RefreshMoves
  <2>2. QED
    BY <2>1 DEF Moved, Waiting
<1>5. ASSUME RefreshFails
      PROVE  Placed'
  <2> DEFINE owners == {q \in Request : rq[q].pc = "buildRefresh"}
             failed == Refreshing \cup
                       {q \in Request : rq[q].pc = "awaitBuild" /\ rq[q].on \in owners}
  <2>1. /\ rq' = [q \in Request |->
                    IF q \in failed
                    THEN [rq[q] EXCEPT !.pc = "over", !.out = "error", !.on = None]
                    ELSE rq[q]]
        /\ UNCHANGED held
    BY <1>5, Zenon DEF RefreshFails
  <2>2. \A q \in failed : rq[q].pc # "held"
    BY DEF Refreshing
  <2> HIDE DEF failed
  <2>3. QED
    BY <2>1, <2>2, Zenon
<1>6. ASSUME NEW r \in Request, Busy(r) \/ Reject(r)
      PROVE  Placed'
  BY <1>6 DEF Busy, Reject, Answer
<1>7. ASSUME NEW r \in Request, Wait(r) \/ ReservationFails(r)
      PROVE  Placed'
  BY <1>7 DEF Wait, ReservationFails, Answer, Move, Admissible, T!Hold, T!PersistFails
<1>8. ASSUME NEW r \in Request, Serve(r) \/ ServeReserved(r)
      PROVE  Placed'
  BY <1>8 DEF Serve, ServeReserved, Execute, Admissible, T!CheckInMemory, T!CheckAndRecord
<1>9. ASSUME NEW r \in Request, Replayed(r)
      PROVE  Placed'
  BY <1>9 DEF Replayed, Admissible, T!Replay
<1>10. ASSUME NEW r \in Request, OnDecoy(r) \/ OnReplay(r) \/ OnOther(r) \/ Lose(r)
      PROVE  Placed'
  BY <1>10 DEF OnDecoy, OnReplay, OnOther, Lose, Answered, Settle
<1>11. ASSUME ServerRestart
      PROVE  Placed'
  <2>1. rq' = [q \in Request |->
                IF rq[q].pc = "held"
                THEN [rq[q] EXCEPT !.pc = "over",
                        !.out = IF @ = None THEN "error" ELSE @]
                ELSE rq[q]]
    BY <1>11, Zenon DEF ServerRestart
  <2>2. held' = [q \in Request |-> T!Idle]
    BY <1>11, Zenon DEF ServerRestart, T!Restart
  <2>3. \A q \in Request : rq'[q].pc # "held" /\ rq'[q].seq = rq[q].seq /\ rq'[q].pc \in {rq[q].pc, "over"}
    BY <2>1, Zenon
  <2>4. QED
    BY <2>2, <2>3
<1>12. ASSUME ClientCrash
      PROVE  Placed'
  <2>1. rq' = [q \in Request |->
                IF rq[q].out # None \/ rq[q].pc = "idle" THEN rq[q]
                ELSE [rq[q] EXCEPT !.out = "crashed",
                        !.pc = IF @ \in {"sent", "held"} THEN @ ELSE "over"]]
    BY <1>12, Zenon DEF ClientCrash
  <2>2. UNCHANGED held
    BY <1>12, Zenon DEF ClientCrash
  <2>3. \A q \in Request : /\ rq'[q].seq = rq[q].seq /\ rq'[q].pc \in {rq[q].pc, "over"}
                           /\ rq[q].pc = "held" => rq'[q].pc = "held"
    BY <2>1, Zenon
  <2>4. QED
    BY <2>2, <2>3
<1>13. ASSUME NEW r \in Request, Send(r)
      PROVE  Placed'
  BY <1>13 DEF Send
<1>14. ASSUME (\E r \in Request : ReserveBlock(r)) \/ ServeRefresh \/ Rotate \/ Expire \/ Revoke
      PROVE  Placed'
  BY <1>14 DEF ReserveBlock, ServeRefresh, Rotate, Expire, Revoke
<1>15. QED
  BY <1>2, <1>3, <1>4, <1>5, <1>6, <1>7, <1>8, <1>9, <1>10, <1>11, <1>12, <1>13, <1>14 DEF Next, Client, Server, Refresh

LEMMA NumberStep ==
    ASSUME IInv, Next
    PROVE  Numbered'
<1>1. rq \in [Request -> CallRecord] /\ Numbered
  BY DEF IInv, TypeOK
<1>2. nextValue \in Nat \ {0} /\ reservedThrough \in Nat /\ durable \in Nat
  BY DEF IInv, TypeOK
<1>3. \A q \in Request : rq[q].seq \in Nat /\ rq[q].last \in Nat
  BY <1>1, ChannelAssumption DEF CallRecord
<1> DEFINE SameNumbers == \A q \in Request : rq'[q].seq = rq[q].seq
<1>4. ASSUME SameNumbers, UNCHANGED allocVars
      PROVE  Numbered'
  BY <1>1, <1>2, <1>3, <1>4 DEF Numbered, NumbersNotReused, allocVars
<1>5. ASSUME SameNumbers, NEW known \in Nat, Reserve(known)
      PROVE  Numbered'
  BY <1>1, <1>2, <1>3, <1>5, ChannelAssumption DEF Numbered, NumbersNotReused, Reserve, Max2
<1>6. CASE \E r \in Request : Call(r) \/ UseChannel(r) \/ JoinBuild(r) \/ JoinRefresh(r) \/ StartBuild(r)
  BY <1>1, <1>4, <1>6 DEF Call, UseChannel, JoinBuild, JoinRefresh, StartBuild, Move, CallRecord
<1>7. ASSUME NEW r \in Request, Build(r)
      PROVE  Numbered'
  <2>1. SameNumbers
    BY <1>1, <1>7, Zenon DEF Build, CallRecord
  <2>2. QED
    BY <1>4, <1>7, <2>1, Zenon DEF Build
<1>8. CASE FinishRefresh
  <2>1. SameNumbers
    BY <1>1, <1>8, Zenon DEF FinishRefresh, Refreshing, CallRecord
  <2>2. QED
    BY <1>4, <1>8, <2>1, Zenon DEF FinishRefresh
<1>9. CASE RefreshFails
  <2>1. PICK failed : rq' = [q \in Request |->
                              IF q \in failed
                              THEN [rq[q] EXCEPT !.pc = "over", !.out = "error", !.on = None]
                              ELSE rq[q]]
    BY <1>9, Zenon DEF RefreshFails
  <2>2. SameNumbers
    BY <1>1, <2>1, Zenon DEF CallRecord
  <2>3. UNCHANGED allocVars
    BY <1>9, Zenon DEF RefreshFails
  <2>4. QED
    BY <1>4, <2>2, <2>3
<1>10. CASE \E r \in Request : Busy(r) \/ Reject(r) \/ Server(r) \/ ReservationFails(r)
  BY <1>1, <1>4, <1>10 DEF Busy, Reject, Server, Serve, Wait, ServeReserved, Replayed, ReservationFails,
                           Answer, Move, Execute, CallRecord
<1>11. CASE \E r \in Request : OnDecoy(r) \/ OnOther(r) \/ Lose(r)
  BY <1>1, <1>4, <1>11 DEF OnDecoy, OnOther, Lose, Settle, CallRecord
<1>12. ASSUME NEW r \in Request, OnReplay(r)
       PROVE  Numbered'
  <2>1. SameNumbers
    BY <1>1, <1>12 DEF OnReplay, Settle, CallRecord
  <2>2. Reserve(rq[r].last) \/ UNCHANGED allocVars
    BY <1>12, Zenon DEF OnReplay
  <2>3. QED
    BY <1>3, <1>4, <1>5, <2>1, <2>2
<1>13. CASE \E r \in Request : ReserveBlock(r)
  BY <1>5, <1>13 DEF ReserveBlock
<1>14. ASSUME NEW r \in Request, Send(r)
       PROVE  Numbered'
  <2>1. /\ rq'[r].seq = nextValue /\ \A q \in Request \ {r} : rq'[q].seq = rq[q].seq
        /\ nextValue <= reservedThrough /\ nextValue' = nextValue + 1
        /\ UNCHANGED <<reservedThrough, durable>>
    BY <1>1, <1>14 DEF Send, CallRecord
  <2>2. QED
    BY <1>1, <1>2, <1>3, <2>1 DEF Numbered, NumbersNotReused
<1>15. CASE ServerRestart
  <2>1. rq' = [q \in Request |->
                IF rq[q].pc = "held"
                THEN [rq[q] EXCEPT !.pc = "over",
                        !.out = IF @ = None THEN "error" ELSE @]
                ELSE rq[q]]
    BY <1>15, Zenon DEF ServerRestart
  <2>2. SameNumbers
    BY <1>1, <2>1, Zenon DEF CallRecord
  <2>3. UNCHANGED allocVars
    BY <1>15, Zenon DEF ServerRestart
  <2>4. QED
    BY <1>4, <2>2, <2>3
<1>16. CASE ClientCrash
  <2>1. rq' = [q \in Request |->
                IF rq[q].out # None \/ rq[q].pc = "idle" THEN rq[q]
                ELSE [rq[q] EXCEPT !.out = "crashed",
                        !.pc = IF @ \in {"sent", "held"} THEN @ ELSE "over"]]
    BY <1>16, Zenon DEF ClientCrash
  <2>2. SameNumbers
    BY <1>1, <2>1, Zenon DEF CallRecord
  <2>3. nextValue' = 1 /\ reservedThrough' = 0 /\ UNCHANGED durable
    BY <1>16, Zenon DEF ClientCrash
  <2>4. QED
    BY <1>1, <1>2, <1>3, <2>2, <2>3 DEF Numbered, NumbersNotReused
<1>17. CASE ServeRefresh \/ Rotate \/ Expire \/ Revoke
  BY <1>4, <1>17 DEF ServeRefresh, Rotate, Expire, Revoke
<1>18. QED
  BY <1>6, <1>7, <1>8, <1>9, <1>10, <1>11, <1>12, <1>13, <1>14, <1>15, <1>16, <1>17
     DEF Next, Client, Refresh

-----------------------------------------------------------------------------
(* The theorems.                                                           *)

LEMMA InitIInv == Init => IInv
<1> SUFFICES ASSUME Init PROVE IInv
  OBVIOUS
<1>1. Tracker!Init /\ Tracker!IInv
  BY SameActions, Tracker!InitIInv, ChannelAssumption DEF Init
<1>2. T!TypeOK
  BY <1>1 DEF Tracker!IInv, T!TypeOK, Tracker!TypeOK, T!SeqNo, T!Ages, T!Idle,
              Tracker!SeqNo, Tracker!Ages, Tracker!Idle
<1>3. NewCall \in CallRecord
  <2>1. FALSE \in BOOLEAN
    BY Zenon
  <2>2. \A b \in BOOLEAN :
          [pc |-> "idle", chan |-> NoChannel, on |-> None, seq |-> 0,
           refreshed |-> b, recovered |-> b, retried |-> b,
           reply |-> None, last |-> 0, runs |-> 0, out |-> None] \in CallRecord
    BY ChannelAssumption DEF CallRecord, Places, Channel, NoChannel, None, Replies, Outcomes
  <2>3. QED
    BY <2>1, <2>2, Zenon DEF NewCall
<1>4. TypeOK
  <2>1. revoked \in BOOLEAN /\ expired \in BOOLEAN
    BY Zenon DEF Init
  <2>2. QED
    BY <1>2, <1>3, <2>1, ChannelAssumption DEF Init, TypeOK, Channel, NoChannel, None
<1>5. Placed /\ RanOnce /\ Numbered
  BY DEF Init, NewCall, T!Init, Placed, RanOnce, Numbered, NumbersNotReused, None
<1>6. QED
  BY <1>1, <1>4, <1>5 DEF IInv

LEMMA StepKeepsIInv == IInv /\ [Next]_vars => IInv'
<1> SUFFICES ASSUME IInv, [Next]_vars PROVE IInv'
  OBVIOUS
<1>1. CASE Next
  BY <1>1, TypeStep, TrackerIInv, PlacedStep, NumberStep, RunStep DEF IInv
<1>2. CASE UNCHANGED vars
  <2>1. TypeOK'
    BY <1>2 DEF IInv, TypeOK, T!TypeOK, vars, trackerVars, keyVars, allocVars, chanVars, faultVars
  <2>2. Placed' /\ Numbered' /\ RanOnce'
    BY <1>2 DEF IInv, Placed, Numbered, NumbersNotReused, RanOnce,
                vars, trackerVars, allocVars
  <2>3. QED
    BY <2>1, <2>2, TrackerIInv DEF IInv
<1>3. QED
  BY <1>1, <1>2

LEMMA Invariance == Spec => []IInv
<1>1. Spec => Init /\ [][Next]_vars
  BY PTL DEF Spec
<1>2. QED
  BY <1>1, InitIInv, StepKeepsIInv, PTL

(* No two envelopes of a device carry one sequence number, however often   *)
(* its allocator (transport-sequence.ts) is restarted from its last block, *)
(* and the retries of `sealed` run the server's handler at most once for   *)
(* a call, and exactly once for a call that reports success.               *)
THEOREM CallsAlwaysRunOnce == Spec => []CallsRunOnce
<1>1. IInv => CallsRunOnce
  BY DEF IInv, Numbered, RanOnce, CallsRunOnce, RunsOnce
<1>2. QED
  BY <1>1, Invariance, PTL

(* Whatever clients, rotations and restarts do, the server's window only   *)
(* takes the steps of SequenceTracker (seq_tracker.rs), so what is proved  *)
(* of the tracker holds in the channel: no number is accepted twice.       *)
THEOREM TrackerIsImplemented == Spec => Tracker!Spec /\ []T!AcceptedOnce
<1>1. Spec => Init /\ [][Next]_vars
  BY PTL DEF Spec
<1>2. Init => Tracker!Init
  BY SameActions DEF Init
<1>3. IInv /\ [Next]_vars => [Tracker!Next]_(Tracker!vars)
  BY TrackerStep
<1>4. IInv => T!AcceptedOnce
  BY DEF IInv, Tracker!IInv, Tracker!AcceptedOnce, Tracker!SeqNo, T!AcceptedOnce, T!SeqNo
<1>5. QED
  BY <1>1, <1>2, <1>3, <1>4, Invariance, PTL DEF Tracker!Spec
=============================================================================
