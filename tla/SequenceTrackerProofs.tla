------------------------ MODULE SequenceTrackerProofs ------------------------
(***************************************************************************)
(* No sequence number is accepted twice, for every window, block and set   *)
(* of concurrent requests.                                                 *)
(*                                                                         *)
(* AcceptedOnce needs that an accepted number stays refused, in memory and *)
(* after a start.  A start may read any ceiling in disks, and the memory   *)
(* of a process can have reserved more than a later start will find (a     *)
(* start that read a ceiling whose directory entry was never flushed).     *)
(* That is harmless only because the process then refuses everything it    *)
(* found reserved: BootRefused, with Fenced saying that otherwise the      *)
(* ceiling in force is durable.                                            *)
(***************************************************************************)
EXTENDS SequenceTracker, TLAPS

(* Everything the last start found reserved is refused. *)
BootRefused == \A s \in SeqNo : s <= boot => IsSeenOrStale(s)

(* The ceiling in force is durable, or it is the one the start read. *)
Fenced == reserved = boot \/ \A d \in disks : reserved <= d

IInv ==
    /\ TypeOK
    /\ greatest <= reserved
    /\ AcceptedOnce
    /\ AcceptedStayRefused
    /\ BootRefused
    /\ Fenced

-----------------------------------------------------------------------------
(* A reservation covers the number it is made for and fits in the width. *)
LEMMA CeilingCovers ==
    ASSUME NEW s \in SeqNo
    PROVE  ReservationCeiling(s) \in s..MaxSeq
<1>1. s % Block \in 0..(Block - 1)
  BY SMTT(30), TrackerAssumption DEF SeqNo
<1>2. QED
  BY SMTT(30), <1>1, TrackerAssumption DEF ReservationCeiling, SeqNo

(* What record does to the window: the number is refused from then on, so  *)
(* is every number refused before, and nothing else unless it fell out.    *)
LEMMA RecordRefuses ==
    ASSUME TypeOK, NEW s \in SeqNo, ~Refused(s), Record(s)
    PROVE  /\ greatest' \in 0..MaxSeq /\ seen' \in SUBSET Ages
           /\ greatest <= greatest' /\ s <= greatest'
           /\ greatest' \in {s, greatest}
           /\ IsSeenOrStale(s)'
           /\ \A t \in SeqNo : IsSeenOrStale(t) => IsSeenOrStale(t)'
           /\ \A t \in SeqNo : IsSeenOrStale(t)' =>
                \/ t = s
                \/ IsSeenOrStale(t)
                \/ greatest' - t >= Window
<1> USE TrackerAssumption DEF TypeOK, SeqNo, Ages, Record, Larger
<1>1. CASE s > greatest
  <2>1. greatest' = s /\ seen' = {0} \cup {a \in Ages : a - (s - greatest) \in seen}
    BY Zenon, <1>1 DEF Shifted
  <2>2. ASSUME NEW t \in SeqNo, IsSeenOrStale(t)
        PROVE  IsSeenOrStale(t)'
    <3>1. CASE s - t >= Window
      BY SMTT(30), <1>1, <2>1, <2>2, <3>1 DEF IsSeenOrStale
    <3>2. CASE s - t < Window
      <4>1. greatest - t \in seen /\ t <= greatest
        BY SMTT(30), <1>1, <2>2, <3>2 DEF IsSeenOrStale
      <4>2. s - t \in Ages /\ (s - t) - (s - greatest) = greatest - t
        BY SMTT(30), <1>1, <4>1, <3>2
      <4>3. s - t \in seen'
        BY <2>1, <4>1, <4>2, Zenon
      <4>4. QED
        BY SMTT(30), <1>1, <2>1, <4>1, <4>3 DEF IsSeenOrStale
    <3>3. QED
      BY SMTT(30), <3>1, <3>2
  <2>3. ASSUME NEW t \in SeqNo, IsSeenOrStale(t)', t # s, ~(greatest' - t >= Window)
        PROVE  IsSeenOrStale(t)
    <3>1. /\ t <= greatest'
          /\ greatest' - t >= Window \/ greatest' - t \in seen'
      BY Zenon, <2>3 DEF IsSeenOrStale
    <3>2. t < s /\ s - t \in seen' /\ s - t # 0
      <4>1. t # s /\ ~(greatest' - t >= Window)
        BY Zenon, <2>3
      <4>2. greatest' = s
        BY Zenon, <2>1
      <4>3. t <= s /\ ~(s - t >= Window) /\ (s - t >= Window \/ s - t \in seen')
        BY Zenon, <4>1, <4>2, <3>1
      <4>4. QED
        BY SMTT(30), <4>1, <4>3
    <3>3. (s - t) - (s - greatest) \in seen
      <4> DEFINE a == s - t
      <4>1. a \in {0} \cup {b \in Ages : b - (s - greatest) \in seen} /\ a # 0
        BY <2>1, <3>2, Zenon
      <4> HIDE DEF a
      <4>2. a - (s - greatest) \in seen
        BY Zenon, <4>1
      <4>3. QED
        BY Zenon, <4>2 DEF a
    <3>4. (s - t) - (s - greatest) = greatest - t
      BY SMTT(30), <3>2
    <3>5. greatest - t \in seen /\ greatest - t >= 0
      BY SMTT(30), <3>3, <3>4
    <3>6. QED
      BY SMTT(30), <3>5 DEF IsSeenOrStale
  <2>4. greatest' \in 0..MaxSeq /\ seen' \in SUBSET Ages /\ IsSeenOrStale(s)'
    BY SMTT(30), <2>1, <1>1 DEF IsSeenOrStale
  <2>5. QED
    BY SMTT(30), <1>1, <2>1, <2>2, <2>3, <2>4
<1>2. CASE s <= greatest
  <2>1. greatest' = greatest /\ seen' = seen \cup {greatest - s}
    BY SMTT(30), <1>2
  <2>2. greatest - s \in Ages
    BY SMTT(30), <1>2 DEF Refused, IsSeenOrStale
  <2>3. \A t \in SeqNo : IsSeenOrStale(t)' => t = s \/ IsSeenOrStale(t)
    BY SMTT(30), <2>1, <2>2 DEF IsSeenOrStale
  <2>4. QED
    BY SMTT(30), <1>2, <2>1, <2>2, <2>3 DEF IsSeenOrStale
<1>3. QED
  BY SMTT(30), <1>1, <1>2

-----------------------------------------------------------------------------
(* Accepting a number the window does not refuse keeps every accepted      *)
(* number refused: the common part of the two accepting steps.             *)
LEMMA AcceptanceSafe ==
    ASSUME IInv, NEW s \in SeqNo, ~Refused(s), Accepted(s)
    PROVE  /\ hits' \in [SeqNo -> Nat]
           /\ AcceptedOnce'
           /\ \A t \in SeqNo : hits'[t] > 0 => t = s \/ hits[t] > 0
           /\ \A t \in SeqNo : hits'[t] > 0 => IsSeenOrStale(t)'
           /\ (boot' = boot => BootRefused')
<1>1. Record(s) /\ hits' = [hits EXCEPT ![s] = @ + 1] /\ TypeOK
  BY Zenon DEF Accepted, IInv
<1>2. hits[s] = 0
  BY SMTT(30), <1>1 DEF IInv, AcceptedStayRefused, Refused, TypeOK
<1>3. hits' \in [SeqNo -> Nat] /\ hits'[s] = 1 /\ \A t \in SeqNo : t # s => hits'[t] = hits[t]
  BY SMTT(30), <1>1, <1>2 DEF TypeOK
<1>4. \A t \in SeqNo : hits'[t] > 0 => t = s \/ hits[t] > 0
  BY Zenon, <1>3
<1>5. AcceptedOnce'
  BY SMTT(30), <1>3 DEF AcceptedOnce, IInv
<1>6. /\ IsSeenOrStale(s)'
      /\ \A t \in SeqNo : IsSeenOrStale(t) => IsSeenOrStale(t)'
  BY Zenon, <1>1, RecordRefuses
<1>7. \A t \in SeqNo : hits'[t] > 0 => IsSeenOrStale(t)'
  BY Zenon, <1>4, <1>6 DEF IInv, AcceptedStayRefused
<1>8. boot' = boot => BootRefused'
  BY Zenon, <1>6 DEF IInv, BootRefused
<1>9. QED
  BY Zenon, <1>3, <1>4, <1>5, <1>7, <1>8

(* Steps that leave the window, the ceilings and the counts alone keep the *)
(* whole invariant, whatever they do to held.                              *)
LEMMA WaitingKeepsIInv ==
    ASSUME IInv, UNCHANGED <<greatest, reserved, seen, disks, hits, boot>>,
           held' \in [Request -> {Idle} \cup SeqNo]
    PROVE  IInv'
  BY Zenon DEF IInv, TypeOK, AcceptedOnce, AcceptedStayRefused, BootRefused,
         Fenced, IsSeenOrStale

LEMMA InitIInv == Init => IInv
<1> SUFFICES ASSUME Init PROVE IInv
  BY Zenon
<1>1. TypeOK
  BY SMTT(30), TrackerAssumption DEF Init, TypeOK, SeqNo
<1>2. AcceptedOnce /\ AcceptedStayRefused
  BY SMTT(30) DEF Init, AcceptedOnce, AcceptedStayRefused
<1>3. BootRefused /\ Fenced
  BY SMTT(30) DEF Init, BootRefused, Fenced, SeqNo
<1>4. QED
  BY SMTT(30), <1>1, <1>2, <1>3 DEF IInv, Init

LEMMA CheckInMemoryKeepsIInv ==
    ASSUME IInv, NEW r \in Request, NEW s \in SeqNo, CheckInMemory(r, s)
    PROVE  IInv'
<1>1. ~Refused(s) /\ Accepted(s) /\ Record(s) /\ s <= reserved
      /\ UNCHANGED <<reserved, disks, held, boot>>
  BY Zenon DEF CheckInMemory, Accepted
<1>2. /\ hits' \in [SeqNo -> Nat] /\ AcceptedOnce' /\ BootRefused'
      /\ \A t \in SeqNo : hits'[t] > 0 => t = s \/ hits[t] > 0
      /\ \A t \in SeqNo : hits'[t] > 0 => IsSeenOrStale(t)'
  BY Zenon, <1>1, AcceptanceSafe
<1>3. greatest' \in 0..MaxSeq /\ seen' \in SUBSET Ages /\ greatest' \in {s, greatest}
  BY Zenon, <1>1, RecordRefuses DEF IInv
<1>4. TypeOK' /\ greatest' <= reserved'
  BY Zenon, <1>1, <1>2, <1>3 DEF IInv, TypeOK
<1>5. \A d \in disks : s <= d
  <2>1. CASE reserved = boot
    BY Zenon, <1>1, <2>1 DEF IInv, BootRefused, Refused
  <2>2. CASE \A d \in disks : reserved <= d
    BY SMTT(30), <1>1, <2>2 DEF IInv, TypeOK, SeqNo
  <2>3. QED
    BY Zenon, <2>1, <2>2 DEF IInv, Fenced
<1>6. AcceptedStayRefused'
  BY Zenon, <1>1, <1>2, <1>5 DEF IInv, AcceptedStayRefused
<1>7. Fenced'
  BY Zenon, <1>1 DEF IInv, Fenced
<1>8. QED
  BY Zenon, <1>2, <1>4, <1>6, <1>7 DEF IInv

LEMMA CheckAndRecordKeepsIInv ==
    ASSUME IInv, NEW r \in Request, NEW s \in SeqNo, CheckAndRecord(r, s)
    PROVE  IInv'
<1>1. ~Refused(s) /\ Accepted(s) /\ Record(s) /\ boot' = boot
  BY Zenon DEF CheckAndRecord, Accepted
<1>2. /\ hits' \in [SeqNo -> Nat] /\ AcceptedOnce' /\ BootRefused'
      /\ \A t \in SeqNo : hits'[t] > 0 => t = s \/ hits[t] > 0
      /\ \A t \in SeqNo : hits'[t] > 0 => IsSeenOrStale(t)'
  BY Zenon, <1>1, AcceptanceSafe
<1>3. greatest' \in 0..MaxSeq /\ seen' \in SUBSET Ages /\ greatest' \in {s, greatest}
  BY Zenon, <1>1, RecordRefuses DEF IInv
<1>4. held' \in [Request -> {Idle} \cup SeqNo]
  BY Zenon DEF CheckAndRecord, IInv, TypeOK
<1>5. CASE s > reserved
  <2>1. reserved' = ReservationCeiling(s) /\ disks' = {ReservationCeiling(s)}
    BY Zenon, <1>5 DEF CheckAndRecord
  <2>2. reserved' \in s..MaxSeq
    BY Zenon, <2>1, CeilingCovers
  <2>3. TypeOK' /\ greatest' <= reserved' /\ greatest <= reserved'
    BY SMTT(30), <1>1, <1>2, <1>3, <1>4, <1>5, <2>1, <2>2 DEF IInv, TypeOK, SeqNo
  <2>4. \A t \in SeqNo : hits[t] > 0 => t <= greatest
    BY Zenon DEF IInv, AcceptedStayRefused, IsSeenOrStale
  <2>5. \A t \in SeqNo : hits'[t] > 0 => t <= reserved'
    BY SMTT(30), <1>2, <2>2, <2>3, <2>4 DEF IInv, TypeOK, SeqNo
  <2>6. AcceptedStayRefused'
    BY Zenon, <1>2, <2>1, <2>5 DEF AcceptedStayRefused
  <2>7. Fenced'
    BY SMTT(30), <2>1, <2>2 DEF Fenced, SeqNo
  <2>8. QED
    BY Zenon, <1>2, <2>3, <2>6, <2>7 DEF IInv
<1>6. CASE ~(s > reserved)
  <2>1. UNCHANGED <<reserved, disks>> /\ s <= reserved
    BY SMTT(30), <1>6 DEF CheckAndRecord, IInv, TypeOK, SeqNo
  <2>2. TypeOK' /\ greatest' <= reserved'
    BY Zenon, <1>1, <1>2, <1>3, <1>4, <2>1 DEF IInv, TypeOK
  <2>3. \A d \in disks : s <= d
    <3>1. CASE reserved = boot
      BY Zenon, <1>1, <2>1, <3>1 DEF IInv, BootRefused, Refused
    <3>2. CASE \A d \in disks : reserved <= d
      BY SMTT(30), <2>1, <3>2 DEF IInv, TypeOK, SeqNo
    <3>3. QED
      BY Zenon, <3>1, <3>2 DEF IInv, Fenced
  <2>4. AcceptedStayRefused'
    BY Zenon, <1>2, <2>1, <2>3 DEF IInv, AcceptedStayRefused
  <2>5. Fenced'
    BY Zenon, <1>1, <2>1 DEF IInv, Fenced
  <2>6. QED
    BY Zenon, <1>2, <2>2, <2>4, <2>5 DEF IInv
<1>7. QED
  BY Zenon, <1>5, <1>6

LEMMA PersistFailsKeepsIInv ==
    ASSUME IInv, NEW r \in Request, NEW s \in SeqNo, PersistFails(r, s)
    PROVE  IInv'
<1> DEFINE c == ReservationCeiling(s)
<1>1. c \in s..MaxSeq
  BY Zenon, CeilingCovers
<1> HIDE DEF c
<1>2. /\ UNCHANGED <<greatest, reserved, seen, hits, boot>>
      /\ s > reserved
      /\ disks' \in {disks, disks \cup {c}}
      /\ held' \in [Request -> {Idle} \cup SeqNo]
  BY Zenon DEF PersistFails, IInv, TypeOK, c
<1>3. reserved < c
  BY SMTT(30), <1>1, <1>2 DEF IInv, TypeOK, SeqNo
<1>4. TypeOK' /\ greatest' <= reserved'
  BY SMTT(30), <1>1, <1>2 DEF IInv, TypeOK, SeqNo
<1>5. AcceptedOnce' /\ BootRefused'
  BY Zenon, <1>2 DEF IInv, AcceptedOnce, BootRefused, IsSeenOrStale
<1>6. \A t \in SeqNo : hits[t] > 0 => t <= greatest
  BY Zenon DEF IInv, AcceptedStayRefused, IsSeenOrStale
<1>7. \A t \in SeqNo : hits[t] > 0 => t <= c
  BY SMTT(30), <1>1, <1>3, <1>6 DEF IInv, TypeOK, SeqNo
<1>8. AcceptedStayRefused'
  BY Zenon, <1>2, <1>7 DEF IInv, AcceptedStayRefused, IsSeenOrStale
<1>9. Fenced'
  BY SMTT(30), <1>1, <1>2, <1>3 DEF IInv, Fenced, TypeOK, SeqNo
<1>10. QED
  BY Zenon, <1>4, <1>5, <1>8, <1>9 DEF IInv

LEMMA RestartKeepsIInv ==
    ASSUME IInv, Restart
    PROVE  IInv'
<1>1. PICK d \in disks \cup {ReservationCeiling(held[r]) :
                                r \in {q \in Request : held[q] > reserved}} :
        /\ greatest' = d /\ reserved' = d /\ boot' = d
        /\ seen' = IF d = 0 THEN {} ELSE Ages
        /\ disks' = disks \cup {d}
        /\ held' = [r \in Request |-> Idle]
        /\ hits' = hits
  BY Zenon DEF Restart
<1>2. d \in 0..MaxSeq /\ \A t \in SeqNo : hits[t] > 0 => t <= d
  <2>1. CASE d \in disks
    BY Zenon, <2>1 DEF IInv, TypeOK, AcceptedStayRefused
  <2>2. CASE d \notin disks
    <3>1. PICK q \in Request : held[q] > reserved /\ d = ReservationCeiling(held[q])
      BY Zenon, <1>1, <2>2
    <3>2. held[q] \in SeqNo
      BY SMTT(30), <3>1 DEF IInv, TypeOK, Idle
    <3>3. d \in held[q]..MaxSeq
      BY Zenon, <3>1, <3>2, CeilingCovers
    <3>4. \A t \in SeqNo : hits[t] > 0 => t <= greatest
      BY Zenon DEF IInv, AcceptedStayRefused, IsSeenOrStale
    <3>5. QED
      BY SMTT(30), <3>1, <3>2, <3>3, <3>4 DEF IInv, TypeOK, SeqNo
  <2>3. QED
    BY Zenon, <2>1, <2>2
<1>3. \A t \in SeqNo : t <= d => IsSeenOrStale(t)'
  <2> SUFFICES ASSUME NEW t \in SeqNo, t <= d
               PROVE  IsSeenOrStale(t)'
    BY Zenon
  <2>1. seen' = Ages /\ greatest' = d
    BY SMTT(30), <1>1, <1>2 DEF SeqNo
  <2>2. d - t >= Window \/ d - t \in Ages
    BY SMTT(30), <1>2, TrackerAssumption DEF SeqNo, Ages
  <2>3. QED
    BY Zenon, <2>1, <2>2 DEF IsSeenOrStale
<1>4. TypeOK' /\ greatest' <= reserved'
  <2>1. held' \in [Request -> {Idle} \cup SeqNo]
    BY Zenon, <1>1
  <2>2. QED
    BY SMTT(30), <1>1, <1>2, <2>1 DEF IInv, TypeOK, Ages
<1>5. AcceptedOnce' /\ BootRefused' /\ Fenced'
  BY Zenon, <1>1, <1>3 DEF IInv, AcceptedOnce, BootRefused, Fenced
<1>6. AcceptedStayRefused'
  BY Zenon, <1>1, <1>2, <1>3 DEF IInv, AcceptedStayRefused
<1>7. QED
  BY Zenon, <1>4, <1>5, <1>6 DEF IInv

LEMMA StepKeepsIInv == IInv /\ [Next]_vars => IInv'
<1> SUFFICES ASSUME IInv, [Next]_vars PROVE IInv'
  BY Zenon
<1>1. ASSUME NEW r \in Request, NEW s \in SeqNo, Step(r, s)
      PROVE  IInv'
  <2>1. CASE Hold(r, s)
    <3>1. held' \in [Request -> {Idle} \cup SeqNo]
      BY Zenon, <2>1 DEF Hold, IInv, TypeOK
    <3>2. QED
      BY Zenon, <2>1, <3>1, WaitingKeepsIInv DEF Hold
  <2>2. CASE Replay(r, s)
    <3>1. held' \in [Request -> {Idle} \cup SeqNo]
      BY Zenon, <2>2 DEF Replay, IInv, TypeOK
    <3>2. QED
      BY Zenon, <2>2, <3>1, WaitingKeepsIInv DEF Replay
  <2>3. QED
    BY Zenon, <1>1, <2>1, <2>2, CheckInMemoryKeepsIInv, CheckAndRecordKeepsIInv,
       PersistFailsKeepsIInv DEF Step
<1>2. CASE UNCHANGED vars
  BY Zenon, <1>2, WaitingKeepsIInv DEF vars, IInv, TypeOK
<1>3. QED
  BY Zenon, <1>1, <1>2, RestartKeepsIInv DEF Next

(* IInv is an invariant of the tracker. *)
THEOREM Invariance == Spec => []IInv
  BY InitIInv, StepKeepsIInv, PTL DEF Spec

(* No number is accepted twice: seq_tracker.rs, check_in_memory and        *)
(* check_and_record, across crashes and failed reservations.               *)
THEOREM NoReplayAccepted == Spec => []AcceptedOnce
<1>1. IInv => AcceptedOnce
  BY Zenon DEF IInv
<1>2. QED
  BY <1>1, Invariance, PTL

(* What was accepted stays refused, in this process and after every start. *)
THEOREM AcceptedNumbersStayRefused == Spec => []AcceptedStayRefused
<1>1. IInv => AcceptedStayRefused
  BY Zenon DEF IInv
<1>2. QED
  BY <1>1, Invariance, PTL

-----------------------------------------------------------------------------
(* An accepting step refuses nothing more than it must. *)
LEMMA AcceptanceJustified ==
    ASSUME IInv, RefusalsJustified, boot' = boot,
           NEW s \in SeqNo, ~Refused(s), Accepted(s)
    PROVE  RefusalsJustified'
<1>1. Record(s) /\ hits' = [hits EXCEPT ![s] = @ + 1] /\ TypeOK
  BY Zenon DEF Accepted, IInv
<1>2. hits'[s] > 0 /\ \A t \in SeqNo : hits[t] > 0 => hits'[t] > 0
  BY SMTT(30), <1>1 DEF TypeOK
<1>3. /\ greatest <= greatest' /\ greatest' \in 0..MaxSeq
      /\ \A t \in SeqNo : IsSeenOrStale(t)' =>
            t = s \/ IsSeenOrStale(t) \/ greatest' - t >= Window
  BY Zenon, <1>1, RecordRefuses
<1>4. ASSUME NEW t \in SeqNo, IsSeenOrStale(t)'
      PROVE  hits'[t] > 0 \/ t <= boot' \/ greatest' - t >= Window
  <2>1. CASE t = s \/ greatest' - t >= Window
    BY Zenon, <1>2, <2>1
  <2>2. CASE IsSeenOrStale(t)
    <3>1. hits[t] > 0 \/ t <= boot \/ greatest - t >= Window
      BY Zenon, <2>2 DEF RefusalsJustified
    <3>2. greatest - t >= Window => greatest' - t >= Window
      <4>1. greatest \in Int /\ greatest' \in Int /\ t \in Int /\ Window \in Int
        BY SMTT(30), <1>1, <1>3, TrackerAssumption DEF TypeOK, SeqNo
      <4>2. greatest <= greatest'
        BY Zenon, <1>3
      <4>3. \A a, b, c, w \in Int : a <= b /\ a - c >= w => b - c >= w
        BY SMTT(30)
      <4>4. QED
        BY <4>1, <4>2, <4>3, Zenon
    <3>3. QED
      BY Zenon, <1>2, <3>1, <3>2
  <2>3. QED
    BY Zenon, <1>3, <1>4, <2>1, <2>2
<1>5. QED
  BY Zenon, <1>4 DEF RefusalsJustified

(* Requests that were only overtaken inside the window are served: what    *)
(* is_seen_or_stale refuses was accepted, was reserved before the last     *)
(* start, or is older than the window.                                     *)
THEOREM OvertakenRequestsAreServed == Spec => []RefusalsJustified
<1>1. Init => RefusalsJustified
  BY Zenon DEF Init, RefusalsJustified, IsSeenOrStale, SeqNo
<1>2. IInv /\ RefusalsJustified /\ [Next]_vars => RefusalsJustified'
  <2> SUFFICES ASSUME IInv, RefusalsJustified, [Next]_vars
               PROVE  RefusalsJustified'
    BY Zenon
  <2>1. ASSUME UNCHANGED <<greatest, seen, hits, boot>>
        PROVE  RefusalsJustified'
    BY Zenon, <2>1 DEF RefusalsJustified, IsSeenOrStale
  <2>2. ASSUME NEW r \in Request, NEW s \in SeqNo, Step(r, s)
        PROVE  RefusalsJustified'
    <3>1. CASE CheckInMemory(r, s)
      BY Zenon, <3>1, AcceptanceJustified DEF CheckInMemory
    <3>2. CASE CheckAndRecord(r, s)
      BY Zenon, <3>2, AcceptanceJustified DEF CheckAndRecord
    <3>3. CASE Hold(r, s) \/ Replay(r, s) \/ PersistFails(r, s)
      <4>1. UNCHANGED <<greatest, seen, hits, boot>>
        BY Zenon, <3>3 DEF Hold, Replay, PersistFails
      <4>2. QED
        BY Zenon, <2>1, <4>1
    <3>4. QED
      BY Zenon, <2>2, <3>1, <3>2, <3>3 DEF Step
  <2>3. CASE Restart
    BY Zenon, <2>3 DEF Restart, RefusalsJustified, IsSeenOrStale
  <2>4. CASE UNCHANGED vars
    BY Zenon, <2>1, <2>4 DEF vars
  <2>5. QED
    BY Zenon, <2>2, <2>3, <2>4 DEF Next
<1>3. QED
  BY <1>1, <1>2, Invariance, PTL DEF Spec
=============================================================================
