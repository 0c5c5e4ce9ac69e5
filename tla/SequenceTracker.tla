--------------------------- MODULE SequenceTracker ---------------------------
(***************************************************************************)
(* The per-device anti-replay window of the server                         *)
(* (crates/sync-server/src/seq_tracker.rs) as secure_envelope drives it.   *)
(*                                                                         *)
(* Every authenticated request carries a sequence number.  The window      *)
(* remembers the numbers seen among the last Window ones; what survives a  *)
(* restart is only a ceiling, written in blocks before a number of the     *)
(* block is accepted.  A request whose number lies above the ceiling is    *)
(* checked once in memory, waits for a control-I/O thread and is checked   *)
(* again there, so that two copies of it can both be waiting.              *)
(*                                                                         *)
(* One device is modelled: the map of the code is a function of devices    *)
(* whose entries do not interact.                                          *)
(***************************************************************************)
EXTENDS Integers, FiniteSets

CONSTANTS
    Request,   \* requests being served at the same time
    Window,    \* WINDOW_BITS
    Block,     \* RESERVATION_BLOCK
    MaxSeq     \* u64::MAX, where a reservation saturates

ASSUME TrackerAssumption ==
    /\ Window \in Nat \ {0}
    /\ Block \in Nat \ {0}
    /\ MaxSeq \in Nat \ {0}

VARIABLES
    greatest,  \* greatest_seen
    reserved,  \* reserved_through
    seen,      \* the ages whose bit is set
    disks,     \* the ceilings a start of the server may read
    held,      \* the number a request holds between its two checks, or Idle
    hits,      \* how often each number was accepted (history)
    boot       \* the ceiling the last start read (history)

vars == <<greatest, reserved, seen, disks, held, hits, boot>>

SeqNo == 1..MaxSeq
Ages == 0..(Window - 1)
Idle == -1

Larger(a, b) == IF a > b THEN a ELSE b

TypeOK ==
    /\ greatest \in 0..MaxSeq
    /\ reserved \in 0..MaxSeq
    /\ seen \in SUBSET Ages
    /\ disks \in SUBSET (0..MaxSeq) /\ disks # {}
    /\ held \in [Request -> {Idle} \cup SeqNo]
    /\ hits \in [SeqNo -> Nat]
    /\ boot \in 0..MaxSeq

ReservationCeiling(s) ==
    LET end == IF s % Block = 0 THEN s ELSE s + (Block - (s % Block))
    IN  IF end > MaxSeq THEN MaxSeq ELSE end

(* is_seen_or_stale *)
IsSeenOrStale(s) ==
    /\ s <= greatest
    /\ \/ greatest - s >= Window
       \/ (greatest - s) \in seen

(* What both checks refuse, and the number they report to the client. *)
Refused(s) == s = 0 \/ IsSeenOrStale(s)
LastSeen == Larger(reserved, greatest)

Shifted(d) == {a \in Ages : a - d \in seen}

(* record *)
Record(s) ==
    /\ greatest' = Larger(s, greatest)
    /\ seen' = IF s > greatest
               THEN {0} \cup Shifted(s - greatest)
               ELSE seen \cup {greatest - s}

Accepted(s) ==
    /\ Record(s)
    /\ hits' = [hits EXCEPT ![s] = @ + 1]

Init ==
    /\ greatest = 0 /\ reserved = 0 /\ seen = {}
    /\ disks = {0}
    /\ held = [r \in Request |-> Idle]
    /\ hits = [s \in SeqNo |-> 0]
    /\ boot = 0

(* check_in_memory answers None: the request goes to the control-I/O pool. *)
Hold(r, s) ==
    /\ held[r] = Idle
    /\ ~Refused(s)
    /\ s > reserved
    /\ held' = [held EXCEPT ![r] = s]
    /\ UNCHANGED <<greatest, reserved, seen, disks, hits, boot>>

(* check_in_memory accepts. *)
CheckInMemory(r, s) ==
    /\ held[r] = Idle
    /\ ~Refused(s)
    /\ s <= reserved
    /\ Accepted(s)
    /\ UNCHANGED <<reserved, disks, held, boot>>

(* check_in_memory or check_and_record refuses: nothing changes but that   *)
(* the request is answered.                                                *)
Replay(r, s) ==
    /\ held[r] \in {Idle, s}
    /\ Refused(s)
    /\ held' = [held EXCEPT ![r] = Idle]
    /\ UNCHANGED <<greatest, reserved, seen, disks, hits, boot>>

(* check_and_record: the second check, the durable ceiling where one is    *)
(* needed (nobody else runs: the map is locked), then the bit.             *)
\* Mutant: the second check trusts the first.
BugCheckAndRecord(r, s) ==
    /\ held[r] = s
    /\ IF s > reserved
       THEN /\ reserved' = ReservationCeiling(s)
            /\ disks' = {ReservationCeiling(s)}
       ELSE UNCHANGED <<reserved, disks>>
    /\ Accepted(s)
    /\ held' = [held EXCEPT ![r] = Idle]
    /\ UNCHANGED boot
CheckAndRecord(r, s) ==
    /\ held[r] = s
    /\ ~Refused(s)
    /\ IF s > reserved
       THEN /\ reserved' = ReservationCeiling(s)
            /\ disks' = {ReservationCeiling(s)}
       ELSE UNCHANGED <<reserved, disks>>
    /\ Accepted(s)
    /\ held' = [held EXCEPT ![r] = Idle]
    /\ UNCHANGED boot

(* persist fails.  The rename may or may not have reached the disk; memory *)
(* keeps the old ceiling and the request is answered 500.                  *)
PersistFails(r, s) ==
    /\ held[r] = s
    /\ ~Refused(s)
    /\ s > reserved
    /\ \E d \in {disks, disks \cup {ReservationCeiling(s)}} : disks' = d
    /\ held' = [held EXCEPT ![r] = Idle]
    /\ UNCHANGED <<greatest, reserved, seen, hits, boot>>

Restart ==
    \E d \in disks \cup {ReservationCeiling(held[r]) :
                            r \in {q \in Request : held[q] > reserved}} :
        /\ greatest' = d
        /\ reserved' = d
        /\ seen' = IF d = 0 THEN {} ELSE Ages
        /\ disks' = disks \cup {d}
        /\ boot' = d
        /\ held' = [r \in Request |-> Idle]
        /\ UNCHANGED hits

Step(r, s) ==
    \/ Hold(r, s)
    \/ CheckInMemory(r, s)
    \/ Replay(r, s)
    \/ CheckAndRecord(r, s)
    \/ PersistFails(r, s)

Next ==
    \/ \E r \in Request, s \in SeqNo : Step(r, s)
    \/ Restart

Spec == Init /\ [][Next]_vars

-----------------------------------------------------------------------------
(* No sequence number is ever accepted twice, whatever copies of requests  *)
(* arrive in whatever order, with crashes between the reservation and the  *)
(* answer: the promise of ReplayDecision::Accepted.                        *)
AcceptedOnce == \A s \in SeqNo : hits[s] <= 1

(* A number that was accepted is refused from then on, by this process and *)
(* by the one that starts from any ceiling the disk may hold.              *)
AcceptedStayRefused ==
    \A s \in SeqNo : hits[s] > 0 =>
        /\ IsSeenOrStale(s)
        /\ \A d \in disks : s <= d

(* Only three things are refused: what was accepted, what the last start   *)
(* found reserved, and what has fallen out of the window.  A request that  *)
(* was merely overtaken by fewer than Window others is served.             *)
RefusalsJustified ==
    \A s \in SeqNo : IsSeenOrStale(s) =>
        \/ hits[s] > 0
        \/ s <= boot
        \/ greatest - s >= Window
=============================================================================
