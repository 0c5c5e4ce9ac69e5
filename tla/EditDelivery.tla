---------------------------- MODULE EditDelivery ----------------------------
(***************************************************************************)
(* What durable root publication promises a device: every edit it records  *)
(* enters the shared vault exactly once, is forgotten by the device only   *)
(* after that, and none is left behind.                                    *)
(***************************************************************************)
EXTENDS Naturals

CONSTANT Edit

VARIABLES
    made,     \* edits the device has recorded
    applied,  \* edits that are part of the server's root
    acked     \* edits the device has forgotten

vars == <<made, applied, acked>>

Init == made = {} /\ applied = {} /\ acked = {}

Make(e) ==
    /\ e \in Edit \ made
    /\ made' = made \cup {e}
    /\ UNCHANGED <<applied, acked>>

\* One operation takes effect: none of its edits had taken effect before.
Apply(S) ==
    /\ S # {} /\ S \subseteq made \ applied
    /\ applied' = applied \cup S
    /\ UNCHANGED <<made, acked>>

Ack(S) ==
    /\ S # {} /\ S \subseteq applied \ acked
    /\ acked' = acked \cup S
    /\ UNCHANGED <<made, applied>>

Next ==
    \/ \E e \in Edit : Make(e)
    \/ \E S \in SUBSET Edit : Apply(S) \/ Ack(S)

Spec == Init /\ [][Next]_vars

\* Nothing stays behind.
Delivered == \A e \in Edit : []<>(e \in made => e \in acked)
=============================================================================
