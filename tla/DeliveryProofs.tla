---------------------------- MODULE DeliveryProofs ----------------------------
(***************************************************************************)
(* Proofs about the publication of roots.  The protocol (RootSync), for    *)
(* any number of edits, operations, failures and restarts: an edit enters  *)
(* the vault by one operation only, conflicts are preserved before their   *)
(* operation is forgotten, and the protocol implements EditDelivery.  What *)
(* goes with a root (CandidateTree), for every set of paths and leaves:    *)
(* the fresh chunks complete the index on the server.                      *)
(***************************************************************************)
EXTENDS RootSync, CandidateTree, TLAPS

(* The parts of the inductive invariant. *)

\* The device and the server agree on the stream up to the pending operation:
\* with no intent they are level, and an intent is one ahead until it is decided.
Streams ==
    /\ intent = None => receipt.sequence = lastSequence
    /\ intent # None =>
          /\ intent.sequence = lastSequence
          /\ receipt.sequence = lastSequence \/ receipt.sequence + 1 = lastSequence
    /\ receipt.sequence > 0 => receipt.outcome # "none"

\* Everything sent belongs to a sequence number the device took, and what was sent
\* for the pending one carries the pending cut.
SentIsOwned ==
    \A m \in sent :
        /\ m.sequence <= lastSequence
        /\ intent # None /\ m.sequence = intent.sequence => m.cut = intent.cut

\* Where the coordinator is tells what it holds.
Holding ==
    /\ pc = "selected" => intent = None /\ journal # {} /\ lastSequence < MaxSequence
    /\ pc \notin {"idle", "selected"} => intent # None
    /\ pc \in {"settle", "preserve", "copied", "ack", "retire"} => intent.terminal # "none"
    /\ pc \in {"preserve", "copied", "ack"} => intent.terminal = "accepted"
    /\ pc = "retire" /\ intent.terminal = "accepted" => journal \cap intent.cut = {}

\* An outcome the device heard or recorded is the receipt's.
Heard ==
    /\ pc \in {"asked", "record"} /\ answer.status \in Outcome =>
          /\ receipt.sequence = intent.sequence
          /\ receipt.outcome = answer.status /\ receipt.conflict = answer.conflict
    /\ pc = "record" => answer.status \in Outcome
    /\ intent # None /\ intent.terminal # "none" =>
          /\ receipt.sequence = intent.sequence
          /\ receipt.outcome = intent.terminal /\ receipt.conflict = intent.conflict

\* What took effect: nothing beyond the receipt, nothing the journal still holds
\* except by the pending operation, and of that one exactly its cut.
Effects ==
    /\ \A n \in Sequence : effects[n] \subseteq 1..edits
    /\ \A n \in Sequence : n > receipt.sequence => effects[n] = {}
    /\ \A n \in Sequence :
          intent = None \/ n # intent.sequence => effects[n] \cap journal = {}
    /\ receipt.sequence > 0 /\ receipt.outcome = "cancelled" => effects[receipt.sequence] = {}
    /\ journal \subseteq 1..edits

\* The pending cut is offered for the first time.
CutIsFresh ==
    intent # None =>
        /\ intent.cut # {} /\ intent.cut \subseteq 1..edits
        /\ \A n \in Sequence : n # intent.sequence => effects[n] \cap intent.cut = {}
        /\ receipt.sequence = intent.sequence /\ receipt.outcome = "accepted" =>
              effects[intent.sequence] = intent.cut

\* Copies exist before they are recorded, and before their operation is settled.
CopiesFirst ==
    intent # None =>
        /\ intent.copied \/ pc = "copied" => intent.sequence \in copies
        /\ pc \in {"ack", "retire"} /\ intent.terminal = "accepted" /\ intent.conflict =>
              intent.sequence \in copies

IInv ==
    /\ TypeOK /\ Streams /\ SentIsOwned /\ Holding /\ Heard
    /\ Effects /\ CutIsFresh /\ CopiesFirst
    /\ EditsAppliedOnce /\ ConflictsPreserved

-----------------------------------------------------------------------------
\* The absence of an intent is not an intent.
LEMMA NoneIsNoIntent == None \notin Intent
<1> SUFFICES ASSUME None \in Intent PROVE FALSE
  BY Zenon
<1>1. DOMAIN None = {"none"}
  BY Zenon DEF None
<1>2. "sequence" \in DOMAIN None
  BY Zenon DEF Intent
<1>3. QED
  BY SMTT(30), <1>1, <1>2

LEMMA InitIInv == Init => IInv
<1> SUFFICES ASSUME Init PROVE IInv
  BY Zenon
<1> USE RootSyncAssumption
<1>1. TypeOK
  BY SMTT(30) DEF Init, TypeOK, Steps, Receipt, NoAnswer, Sequence, Edit
<1>2. Streams /\ SentIsOwned /\ Holding /\ Heard
  BY SMTT(30) DEF Init, Streams, SentIsOwned, Holding, Heard
<1>3. Effects /\ CutIsFresh /\ CopiesFirst /\ EditsAppliedOnce /\ ConflictsPreserved
  BY Zenon DEF Init, Effects, CutIsFresh, CopiesFirst, EditsAppliedOnce, ConflictsPreserved
<1>4. QED
  BY Zenon, <1>1, <1>2, <1>3 DEF IInv

\* Every step keeps the types.
LEMMA TypeStep == IInv /\ [Next]_vars => TypeOK'
<1> SUFFICES ASSUME TypeOK, Holding, Heard, Streams, [Next]_vars PROVE TypeOK'
  BY Zenon DEF IInv
<1> USE RootSyncAssumption, NoneIsNoIntent DEF device, run, server
<1>1. CASE RecordEdit
  BY SMTT(30), <1>1 DEF RecordEdit, TypeOK, Edit
<1>2. CASE SelectMode
  BY Zenon, <1>2 DEF SelectMode, TypeOK, Steps
<1>3. CASE Prepare
  BY SMTT(30), <1>3 DEF Prepare, TypeOK, Steps, Intent, Holding, Sequence
<1>4. CASE NegotiateFresh
  BY Zenon, <1>4 DEF NegotiateFresh, TypeOK, Steps
<1>5. CASE ResolvePending
  BY Zenon, <1>5 DEF ResolvePending, TypeOK, Steps
<1>6. CASE Send
  BY SMTT(30), <1>6 DEF Send, TypeOK, Steps, CommitOf, Message, Intent, Holding
<1>7. CASE ServeQuery
  BY Zenon, <1>7 DEF ServeQuery, TypeOK, Steps, Receipt
<1>8. CASE ResolveNetwork
  BY Zenon, <1>8 DEF ResolveNetwork, TypeOK, Steps
<1>9. CASE SendCancel
  BY SMTT(30), <1>9 DEF SendCancel, TypeOK, Steps, CancelOf, Message, Intent, Holding
<1>10. CASE RecordTerminal
  BY <1>10, Zenon DEF RecordTerminal, TypeOK, Steps, Intent, Holding, Heard
<1>11. CASE Settle
  BY Zenon, <1>11 DEF Settle, TypeOK, Steps, Intent, Holding
<1>12. CASE Preserve
  BY Zenon, <1>12 DEF Preserve, TypeOK, Steps, Intent, Holding
<1>13. CASE RecordConflictCopy
  BY <1>13, Zenon DEF RecordConflictCopy, TypeOK, Steps, Intent, Holding
<1>14. CASE Acknowledge
  BY Zenon, <1>14 DEF Acknowledge, TypeOK, Steps
<1>15. CASE Retire
  BY SMTT(30), <1>15 DEF Retire, Rest, NoAnswer, TypeOK, Steps
<1>16. ASSUME NEW heard \in BOOLEAN, NEW m \in sent, NEW conflict \in BOOLEAN,
              ServeCommit(m, conflict, heard)
       PROVE TypeOK'
  BY SMTT(30), <1>16 DEF ServeCommit, Reply, TypeOK, Steps, Message, Receipt, Outcome, Sequence
<1>17. ASSUME NEW heard \in BOOLEAN, NEW m \in sent, ServeCancel(m, heard)
       PROVE TypeOK'
  <2>1. m \in Message
    BY Zenon, <1>17 DEF TypeOK
  <2>2. receipt' \in Receipt
    BY SMTT(30), <1>17, <2>1 DEF ServeCancel, Message, Receipt, Outcome, Sequence
  <2>3. answer' \in [status : Outcome \cup {"unknown", "expired", "none"}, conflict : BOOLEAN,
                     last : 0..MaxSequence, incarnation : Nat]
        /\ pc' \in Steps
    <3>1. CASE heard /\ Waits(m)
      <4>1. answer' = [status |-> "cancelled", conflict |-> FALSE,
                       last |-> m.sequence, incarnation |-> incarnation]
            /\ pc' = "record"
        BY Zenon, <3>1, <1>17 DEF ServeCancel, Reply
      <4>2. m.sequence \in 0..MaxSequence /\ incarnation \in Nat
        BY SMTT(30), <2>1 DEF TypeOK, Message, Sequence
      <4>3. QED
        BY Zenon, <4>1, <4>2 DEF Outcome, Steps
    <3>2. CASE ~(heard /\ Waits(m))
      BY Zenon, <3>2, <1>17 DEF ServeCancel, Reply, TypeOK
    <3>3. QED
      BY Zenon, <3>1, <3>2
  <2>4. QED
    BY Zenon, <1>17, <2>2, <2>3 DEF ServeCancel, TypeOK
<1>18. ASSUME NEW heard \in BOOLEAN, NEW m \in sent, ServeReplay(m, heard)
       PROVE TypeOK'
  BY SMTT(30), <1>18 DEF ServeReplay, Replays, Reply, TypeOK, Steps, Message, Receipt, Sequence
<1>19. ASSUME NEW m \in sent, ServeRefusal(m)
       PROVE TypeOK'
  BY SMTT(30), <1>19 DEF ServeRefusal, Rest, NoAnswer, TypeOK, Steps
<1>20. CASE Interrupt
  BY SMTT(30), <1>20 DEF Interrupt, Rest, NoAnswer, TypeOK, Steps
<1>21. CASE RestartServer
  BY SMTT(30), <1>21 DEF RestartServer, TypeOK
<1>22. CASE UNCHANGED vars
  BY Zenon, <1>22 DEF vars, TypeOK
<1>23. QED
  BY Zenon, <1>1, <1>2, <1>3, <1>4, <1>5, <1>6, <1>7, <1>8, <1>9, <1>10, <1>11, <1>12, <1>13, <1>14,
     <1>15, <1>16, <1>17, <1>18, <1>19, <1>20, <1>21, <1>22
     DEF Next, DeviceStep, ServerStep

\* Every step keeps the two streams, what was sent, and what the coordinator knows.
LEMMA ProtocolStep == IInv /\ [Next]_vars => (Streams /\ SentIsOwned /\ Holding /\ Heard)'
<1> SUFFICES ASSUME IInv, [Next]_vars PROVE (Streams /\ SentIsOwned /\ Holding /\ Heard)'
  BY Zenon
<1> USE RootSyncAssumption, NoneIsNoIntent DEF IInv, device, run, server
<1> DEFINE Goal == Streams /\ SentIsOwned /\ Holding /\ Heard
<1> USE DEF Streams, SentIsOwned, Holding, Heard
<1>0. /\ lastSequence \in Nat /\ receipt.sequence \in Nat /\ MaxSequence \in Nat
      /\ intent # None => intent \in Intent
      /\ \A m \in sent : m.sequence \in Nat
  BY SMTT(30) DEF TypeOK, Receipt, Message, Sequence
<1>1. CASE RecordEdit
  BY SMTT(30), <1>1, <1>0 DEF RecordEdit, CutIsFresh, TypeOK
<1>2. CASE SelectMode
  BY Zenon, <1>2, <1>0 DEF SelectMode
<1>3. CASE Prepare
  <2>1. intent' \in Intent
    BY SMTT(30), <1>3, <1>0 DEF Prepare, TypeOK, Intent, Sequence
  <2>2. intent'.sequence = lastSequence + 1 /\ intent'.terminal = "none" /\ intent' # None
    BY <1>3, <2>1, Zenon DEF Prepare
  <2>3. QED
    BY SMTT(30), <1>3, <1>0, <2>2 DEF Prepare
<1>4. CASE NegotiateFresh
  BY Zenon, <1>4, <1>0 DEF NegotiateFresh
<1>5. CASE ResolvePending
  BY Zenon, <1>5, <1>0 DEF ResolvePending
<1>6. CASE Send
  BY SMTT(30), <1>6, <1>0 DEF Send, CommitOf
<1>7. CASE ServeQuery
  BY Zenon, <1>7, <1>0 DEF ServeQuery, Outcome
<1>8. CASE ResolveNetwork
  BY Zenon, <1>8, <1>0 DEF ResolveNetwork
<1>9. CASE SendCancel
  BY SMTT(30), <1>9, <1>0 DEF SendCancel, CancelOf
<1>10. CASE RecordTerminal
  <2>1. /\ intent' # None /\ intent'.sequence = intent.sequence /\ intent'.cut = intent.cut
        /\ intent'.terminal = answer.status /\ intent'.conflict = answer.conflict
    BY <1>10, <1>0, Zenon DEF RecordTerminal, Intent, TypeOK, Outcome
  <2>2. QED
    BY Zenon, <1>10, <1>0, <2>1 DEF RecordTerminal, Outcome
<1>11. CASE Settle
  BY Zenon, <1>11, <1>0 DEF Settle, Intent, Outcome
<1>12. CASE Preserve
  BY Zenon, <1>12, <1>0 DEF Preserve
<1>13. CASE RecordConflictCopy
  BY <1>13, <1>0, Zenon DEF RecordConflictCopy, Intent
<1>14. CASE Acknowledge
  BY Zenon, <1>14, <1>0 DEF Acknowledge
<1>15. CASE Retire
  BY Zenon, <1>15, <1>0 DEF Retire, Rest
<1>16. ASSUME NEW heard \in BOOLEAN, NEW m \in sent, NEW conflict \in BOOLEAN,
              ServeCommit(m, conflict, heard)
       PROVE Goal'
  BY SMTT(30), <1>16, <1>0 DEF ServeCommit, Admits, Reply, Waits, CommitOf, CancelOf, Outcome
<1>17. ASSUME NEW heard \in BOOLEAN, NEW m \in sent, ServeCancel(m, heard)
       PROVE Goal'
  <2>1. intent # None /\ m.sequence = intent.sequence /\ receipt.sequence + 1 = lastSequence
    BY SMTT(30), <1>17, <1>0 DEF ServeCancel, Admits
  <2>2. receipt'.sequence = m.sequence /\ receipt'.outcome = "cancelled"
    BY Zenon, <1>17 DEF ServeCancel
  <2>3. \/ UNCHANGED <<answer, pc>>
        \/ /\ answer'.status = "cancelled" /\ receipt'.conflict = answer'.conflict
           /\ pc' = "record" /\ pc \in {"commit", "cancelling"}
    <3>1. receipt'.conflict = FALSE
      BY <1>17, Zenon DEF ServeCancel
    <3>2. CASE heard /\ Waits(m)
      <4>1. /\ answer' = [status |-> "cancelled", conflict |-> FALSE,
                          last |-> m.sequence, incarnation |-> incarnation]
            /\ pc' = "record"
        BY Zenon, <1>17, <3>2 DEF ServeCancel, Reply
      <4>2. answer'.conflict = FALSE
        BY <4>1, Zenon
      <4>3. receipt'.conflict = answer'.conflict
        BY <3>1, <4>2, Zenon
      <4>4. answer'.status = "cancelled" /\ pc \in {"commit", "cancelling"}
        BY Zenon, <3>2, <4>1 DEF Waits
      <4>5. QED
        BY <4>1, <4>3, <4>4, Zenon
    <3>3. CASE ~(heard /\ Waits(m))
      BY <1>17, <3>3, Zenon DEF ServeCancel, Reply
    <3>4. QED
      BY Zenon, <3>2, <3>3
  <2>4. Streams' /\ SentIsOwned'
    BY Zenon, <1>17, <1>0, <2>1, <2>2 DEF ServeCancel
  <2>5. Holding'
    BY <1>17, <1>0, <2>1, <2>3, Zenon DEF ServeCancel
  <2>6. Heard'
    <3>1. UNCHANGED intent
      BY Zenon, <1>17 DEF ServeCancel
    <3>2. QED
      BY SMTT(30), <1>0, <2>1, <2>2, <2>3, <3>1 DEF Outcome
  <2>7. QED
    BY Zenon, <2>4, <2>5, <2>6
<1>18. ASSUME NEW heard \in BOOLEAN, NEW m \in sent, ServeReplay(m, heard)
       PROVE Goal'
  BY SMTT(30), <1>18, <1>0 DEF ServeReplay, Replays, Reply, Waits, CommitOf, CancelOf, TypeOK, Receipt
<1>19. ASSUME NEW m \in sent, ServeRefusal(m)
       PROVE Goal'
  BY Zenon, <1>19, <1>0 DEF ServeRefusal, Rest
<1>20. CASE Interrupt
  BY Zenon, <1>20, <1>0 DEF Interrupt, Rest
<1>21. CASE RestartServer
  BY Zenon, <1>21, <1>0 DEF RestartServer
<1>22. CASE UNCHANGED vars
  BY Zenon, <1>22, <1>0 DEF vars
<1>23. QED
  BY Zenon, <1>1, <1>2, <1>3, <1>4, <1>5, <1>6, <1>7, <1>8, <1>9, <1>10, <1>11, <1>12, <1>13, <1>14,
     <1>15, <1>16, <1>17, <1>18, <1>19, <1>20, <1>21, <1>22, Zenon
     DEF Next, DeviceStep, ServerStep

\* Every step keeps what is known of the effects; the step of one operation that takes
\* effect brings in a cut none of whose edits any other operation brought in.
LEMMA EffectsStep == IInv /\ [Next]_vars => (Effects /\ CutIsFresh /\ EditsAppliedOnce)'
<1> SUFFICES ASSUME IInv, [Next]_vars PROVE (Effects /\ CutIsFresh /\ EditsAppliedOnce)'
  BY Zenon
<1> USE RootSyncAssumption, NoneIsNoIntent DEF IInv, device, run, server
<1> DEFINE Goal == Effects /\ CutIsFresh /\ EditsAppliedOnce
<1> USE DEF Effects, CutIsFresh, EditsAppliedOnce
<1>0. /\ lastSequence \in Nat /\ receipt.sequence \in Nat /\ MaxSequence \in Nat /\ edits \in Nat
      /\ intent # None => intent \in Intent /\ intent.sequence \in Sequence
      /\ \A m \in sent : m.sequence \in Sequence
      /\ Sequence \subseteq Nat
      /\ effects \in [Sequence -> SUBSET Edit]
  BY SMTT(30) DEF TypeOK, Receipt, Message, Sequence, Intent
<1>1. CASE RecordEdit
  <2>1. 1..edits \subseteq 1..edits' /\ edits + 1 \in 1..edits' /\ edits + 1 \notin 1..edits
    BY SMTT(30), <1>1, <1>0 DEF RecordEdit
  <2>2. journal' = journal \cup {edits + 1} /\ UNCHANGED <<intent, receipt, effects>>
    BY Zenon, <1>1 DEF RecordEdit
  <2>3. QED
    BY <2>1, <2>2, Zenon
<1>2. CASE Prepare
  <2>1. intent' \in Intent
    BY SMTT(30), <1>2, <1>0 DEF Prepare, TypeOK, Intent, Sequence, Holding
  <2>2. intent'.sequence = lastSequence + 1 /\ intent'.cut = journal /\ intent = None
    BY Zenon, <1>2 DEF Prepare, Holding
  <2>3. QED
    BY SMTT(30), <1>2, <1>0, <2>1, <2>2 DEF Prepare, Holding, Streams
<1>3. CASE RecordTerminal \/ RecordConflictCopy
  <2>1. /\ intent # None /\ intent'.sequence = intent.sequence /\ intent'.cut = intent.cut
        /\ intent' # None
    <3>1. intent # None /\ intent \in Intent
      BY Zenon, <1>3, <1>0 DEF RecordTerminal, RecordConflictCopy, Holding
    <3>2. CASE RecordTerminal
      BY <3>1, <3>2, Zenon DEF RecordTerminal, Intent, Heard, TypeOK, Outcome
    <3>3. CASE RecordConflictCopy
      BY <3>1, <3>3, Zenon DEF RecordConflictCopy, Intent
    <3>4. QED
      BY Zenon, <1>3, <3>1, <3>2, <3>3
  <2>2. QED
    BY Zenon, <1>3, <2>1 DEF RecordTerminal, RecordConflictCopy
<1>4. CASE Acknowledge
  BY Zenon, <1>4 DEF Acknowledge
<1>5. CASE Retire
  <2>1. effects[intent.sequence] \cap journal = {}
    BY SMTT(30), <1>5, <1>0 DEF Retire, Holding, Heard, TypeOK, Receipt, Outcome, Sequence
  <2>2. QED
    BY Zenon, <1>5, <1>0, <2>1 DEF Retire, Holding
<1>6. ASSUME NEW heard \in BOOLEAN, NEW m \in sent, NEW conflict \in BOOLEAN,
             ServeCommit(m, conflict, heard)
      PROVE Goal'
  <2>1. /\ intent # None /\ m.sequence = intent.sequence /\ m.cut = intent.cut
        /\ receipt.sequence + 1 = m.sequence
    BY SMTT(30), <1>6, <1>0 DEF ServeCommit, Admits, Streams, SentIsOwned
  <2>2. /\ receipt'.sequence = m.sequence /\ receipt'.outcome = "accepted"
        /\ UNCHANGED <<intent, journal, edits>>
    BY Zenon, <1>6 DEF ServeCommit
  <2>3. \A n \in Sequence : effects'[n] = IF n = m.sequence THEN intent.cut ELSE effects[n]
    BY Zenon, <1>6, <1>0, <2>1 DEF ServeCommit
  <2>4. Effects'
    BY SMTT(30), <1>0, <2>1, <2>2, <2>3
  <2>5. CutIsFresh'
    BY Zenon, <1>0, <2>1, <2>2, <2>3
  <2>6. EditsAppliedOnce'
    <3>1. \A n \in Sequence : n # m.sequence => effects[n] \cap intent.cut = {}
      BY Zenon, <2>1
    <3> SUFFICES ASSUME NEW i \in Sequence, NEW j \in Sequence, i # j
                 PROVE  effects'[i] \cap effects'[j] = {}
      BY Zenon
    <3>2. effects[i] \cap effects[j] = {}
      BY Zenon
    <3>3. CASE i = m.sequence
      BY Zenon, <2>3, <3>1, <3>3
    <3>4. CASE j = m.sequence
      BY Zenon, <2>3, <3>1, <3>4
    <3>5. CASE i # m.sequence /\ j # m.sequence
      BY Zenon, <2>3, <3>2, <3>5
    <3> QED BY Zenon, <3>3, <3>4, <3>5
  <2>7. QED
    BY Zenon, <2>4, <2>5, <2>6
<1>7. ASSUME NEW heard \in BOOLEAN, NEW m \in sent, ServeCancel(m, heard)
      PROVE Goal'
  <2>1. intent # None /\ m.sequence = intent.sequence /\ receipt.sequence + 1 = m.sequence
    BY SMTT(30), <1>7, <1>0 DEF ServeCancel, Admits, Streams, SentIsOwned
  <2>2. /\ receipt'.sequence = m.sequence /\ receipt'.outcome = "cancelled"
        /\ UNCHANGED <<intent, journal, edits, effects>>
    BY Zenon, <1>7 DEF ServeCancel
  <2>3. effects[m.sequence] = {}
    BY SMTT(30), <1>0, <2>1
  <2>4. Effects'
    <3>1. \A n \in Sequence : n > receipt'.sequence => n > receipt.sequence
      BY SMTT(30), <1>0, <2>1, <2>2 DEF TypeOK, Receipt, Sequence
    <3>2. \A n \in Sequence : n > receipt'.sequence => effects'[n] = {}
      BY Zenon, <2>2, <3>1
    <3> QED BY Zenon, <2>2, <2>3, <3>2
  <2>5. (CutIsFresh /\ EditsAppliedOnce)'
    BY Zenon, <2>2
  <2>6. QED
    BY Zenon, <2>4, <2>5
<1>8. CASE \/ SelectMode \/ NegotiateFresh \/ ResolvePending \/ Send \/ ServeQuery
           \/ ResolveNetwork \/ SendCancel \/ Settle \/ Preserve
  BY <1>8, Zenon DEF SelectMode, NegotiateFresh, ResolvePending, Send, ServeQuery,
              ResolveNetwork, SendCancel, Settle, Preserve
<1>9. ASSUME NEW heard \in BOOLEAN, NEW m \in sent, ServeReplay(m, heard) \/ ServeRefusal(m)
      PROVE Goal'
  BY <1>9, Zenon DEF ServeReplay, ServeRefusal
<1>10. CASE Interrupt \/ RestartServer \/ UNCHANGED vars
  BY <1>10, Zenon DEF Interrupt, RestartServer, vars
<1>11. QED
  BY SMTT(30), <1>1, <1>2, <1>3, <1>4, <1>5, <1>6, <1>7, <1>8, <1>9, <1>10
     DEF Next, DeviceStep, ServerStep

\* Every step keeps the order of conflict copies: written, recorded, settled.
LEMMA CopiesStep == IInv /\ [Next]_vars => (CopiesFirst /\ ConflictsPreserved)'
<1> SUFFICES ASSUME IInv, [Next]_vars PROVE (CopiesFirst /\ ConflictsPreserved)'
  BY Zenon
<1> USE RootSyncAssumption, NoneIsNoIntent DEF IInv, device, run, server
<1> DEFINE Goal == CopiesFirst /\ ConflictsPreserved
<1> USE DEF CopiesFirst, ConflictsPreserved
<1>0. /\ lastSequence \in Nat /\ receipt.sequence \in Nat
      /\ intent # None => intent \in Intent
      /\ \A m \in sent : m.sequence \in Nat
  BY SMTT(30) DEF TypeOK, Receipt, Message, Sequence
<1>1. CASE Prepare
  <2>1. intent'.copied = FALSE
    BY <1>1, Zenon DEF Prepare
  <2>2. intent' \in Intent
    BY SMTT(30), <1>1, <1>0 DEF Prepare, TypeOK, Intent, Sequence, Holding
  <2>3. pc' = "prepared"
    BY Zenon, <1>1 DEF Prepare
  <2>4. QED
    BY Zenon, <2>1, <2>2, <2>3
<1>2. CASE RecordTerminal
  <2>1. intent # None /\ intent \in Intent
    BY Zenon, <1>2, <1>0 DEF RecordTerminal, Holding
  <2>2. /\ intent'.sequence = intent.sequence /\ intent'.copied = intent.copied
        /\ intent' # None /\ pc' = "settle" /\ UNCHANGED copies
    BY <1>2, <2>1, Zenon DEF RecordTerminal, Intent, Heard, TypeOK, Outcome
  <2>3. QED
    BY Zenon, <2>1, <2>2
<1>3. CASE Settle
  <2>1. pc' \in {"retire", "preserve", "ack"} /\ UNCHANGED <<intent, copies, receipt>>
    BY Zenon, <1>3 DEF Settle
  <2>2. pc' = "ack" \/ pc' = "retire" => intent.terminal = "cancelled" \/ ~intent.conflict \/ intent.copied
    BY Zenon, <1>3 DEF Settle
  <2>3. QED
    BY Zenon, <2>1, <2>2 DEF Holding
<1>4. CASE Preserve
  BY Zenon, <1>4 DEF Preserve, Holding
<1>5. CASE RecordConflictCopy
  <2>1. intent # None /\ intent \in Intent /\ intent.sequence \in copies
    BY Zenon, <1>5, <1>0 DEF RecordConflictCopy, Holding
  <2>2. intent'.sequence = intent.sequence /\ intent' # None /\ UNCHANGED copies
    BY <1>5, <2>1, Zenon DEF RecordConflictCopy, Intent
  <2>3. QED
    BY Zenon, <2>1, <2>2
<1>6. CASE Acknowledge
  BY Zenon, <1>6 DEF Acknowledge, Holding
<1>7. CASE Retire
  BY Zenon, <1>7 DEF Retire, Rest, Holding, Heard
<1>8. ASSUME NEW heard \in BOOLEAN, NEW m \in sent, NEW conflict \in BOOLEAN,
             ServeCommit(m, conflict, heard) \/ ServeCancel(m, heard)
      PROVE Goal'
  <2>1. intent # None /\ UNCHANGED <<intent, copies>>
    <3>1. Admits(m) /\ UNCHANGED <<intent, copies>>
      BY <1>8, Zenon DEF ServeCommit, ServeCancel
    <3>2. QED
      BY SMTT(30), <1>0, <3>1 DEF Admits, Streams, SentIsOwned
  <2>2. pc' = pc \/ pc' = "record"
    BY Zenon, <1>8 DEF ServeCommit, ServeCancel, Reply
  <2>3. QED
    BY Zenon, <2>1, <2>2
<1>9. ASSUME NEW heard \in BOOLEAN, NEW m \in sent, ServeReplay(m, heard) \/ ServeRefusal(m)
      PROVE Goal'
  BY Zenon, <1>9 DEF ServeReplay, ServeRefusal, Reply, Rest
<1>10. CASE \/ RecordEdit \/ SelectMode \/ NegotiateFresh \/ ResolvePending \/ Send
            \/ ServeQuery \/ ResolveNetwork \/ SendCancel
  BY Zenon, <1>10 DEF RecordEdit, SelectMode, NegotiateFresh, ResolvePending, Send, ServeQuery,
               ResolveNetwork, SendCancel
<1>11. CASE Interrupt \/ RestartServer \/ UNCHANGED vars
  BY <1>11, Zenon DEF Interrupt, Rest, RestartServer, vars
<1>12. QED
  BY Zenon, <1>1, <1>2, <1>3, <1>4, <1>5, <1>6, <1>7, <1>8, <1>9, <1>10, <1>11
     DEF Next, DeviceStep, ServerStep

LEMMA Invariance == Spec => []IInv
<1>1. IInv /\ [Next]_vars => IInv'
  BY Zenon, TypeStep, ProtocolStep, EffectsStep, CopiesStep DEF IInv
<1>2. QED
  BY InitIInv, <1>1, PTL DEF Spec

\* No edit enters the vault by two operations, however often the device and the server
\* are interrupted between sending, deciding, recording and settling one.
THEOREM NoEditAppliedTwice == Spec => []EditsAppliedOnce
<1>1. IInv => EditsAppliedOnce
  BY Zenon DEF IInv
<1>2. QED
  BY Invariance, <1>1, PTL

\* The losing side of a reported conflict exists as a copy before settleInside lets the
\* device forget the operation.
THEOREM ConflictsArePreserved == Spec => []ConflictsPreserved
<1>1. IInv => ConflictsPreserved
  BY Zenon DEF IInv
<1>2. QED
  BY Invariance, <1>1, PTL

-----------------------------------------------------------------------------
(* The refinement: an edit is made when it is recorded, applied when the       *)
(* server accepts the operation that carries it, and acknowledged when         *)
(* acknowledgeOwned takes it from the journal.                                 *)

LEMMA DeliveryInit == Init => Delivery!Init
<1> SUFFICES ASSUME Init PROVE Delivery!Init
  BY Zenon
<1>1. 1..edits = {}
  BY SMTT(30) DEF Init
<1>2. UNION {effects[n] : n \in Sequence} = {}
  BY Zenon DEF Init
<1>3. QED
  BY Zenon, <1>1, <1>2 DEF Delivery!Init

LEMMA DeliveryStep == IInv /\ [Next]_vars => [Delivery!Next]_(Delivery!vars)
<1> SUFFICES ASSUME IInv, [Next]_vars PROVE [Delivery!Next]_(Delivery!vars)
  BY Zenon
<1> USE RootSyncAssumption, NoneIsNoIntent DEF IInv, device, run, server
<1> DEFINE made == 1..edits
           applied == UNION {effects[n] : n \in Sequence}
           acked == 1..edits \ journal
<1>0. /\ edits \in Nat /\ receipt.sequence \in Nat /\ lastSequence \in Nat
      /\ journal \subseteq made /\ applied \subseteq made
      /\ made \subseteq Edit /\ effects \in [Sequence -> SUBSET Edit]
      /\ intent # None => intent \in Intent /\ intent.sequence \in Sequence
      /\ \A m \in sent : m.sequence \in Nat
  BY SMTT(30) DEF TypeOK, Receipt, Message, Intent, Effects, Sequence, Edit
<1>1. CASE RecordEdit
  <2>1. made' = made \cup {edits + 1} /\ edits + 1 \in Edit \ made
    BY SMTT(30), <1>1, <1>0 DEF RecordEdit, Edit
  <2>2. applied' = applied
    BY Zenon, <1>1 DEF RecordEdit
  <2>3. acked' = acked
    BY Zenon, <1>1, <1>0, <2>1 DEF RecordEdit
  <2>4. Delivery!Make(edits + 1)
    BY Zenon, <2>1, <2>2, <2>3 DEF Delivery!Make
  <2>5. QED
    BY Zenon, <2>1, <2>4 DEF Delivery!Next
<1>2. ASSUME NEW heard \in BOOLEAN, NEW m \in sent, NEW conflict \in BOOLEAN,
             ServeCommit(m, conflict, heard)
      PROVE Delivery!Next
  <2>1. /\ intent # None /\ m.sequence = intent.sequence /\ m.cut = intent.cut
        /\ receipt.sequence + 1 = m.sequence
    <3>1. Admits(m)
      BY Zenon, <1>2 DEF ServeCommit
    <3>2. QED
      BY SMTT(30), <1>0, <3>1 DEF Admits, Streams, SentIsOwned
  <2>2. \A n \in Sequence : effects'[n] = IF n = intent.sequence THEN intent.cut ELSE effects[n]
    BY Zenon, <1>2, <1>0, <2>1 DEF ServeCommit
  <2>3. effects[intent.sequence] = {}
    BY SMTT(30), <1>0, <2>1 DEF Effects, Sequence
  <2>4. applied' = applied \cup intent.cut
    BY SMTT(30), <1>0, <2>1, <2>2, <2>3
  <2>5. intent.cut # {} /\ intent.cut \subseteq made \ applied
    BY SMTT(30), <1>0, <2>1, <2>3 DEF CutIsFresh
  <2>6. UNCHANGED <<made, acked>>
    BY Zenon, <1>2 DEF ServeCommit
  <2>7. PICK S \in SUBSET Edit : S = intent.cut
    BY Zenon, <1>0, <2>5
  <2>8. Delivery!Apply(S)
    BY Zenon, <2>4, <2>5, <2>6, <2>7 DEF Delivery!Apply
  <2>9. QED
    BY Zenon, <2>8 DEF Delivery!Next
<1>3. CASE Acknowledge
  <2> DEFINE S == journal \cap intent.cut
  <2>1. intent # None /\ intent.terminal = "accepted" /\ UNCHANGED <<edits, effects>>
        /\ journal' = journal \ intent.cut
    BY Zenon, <1>3 DEF Acknowledge, Holding
  <2>2. intent.cut \subseteq applied
    BY Zenon, <1>0, <2>1 DEF Heard, CutIsFresh
  <2>3. UNCHANGED <<made, applied>> /\ acked' = acked \cup S
    BY <1>0, <2>1, Zenon
  <2>4. CASE S = {}
    BY Zenon, <2>3, <2>4 DEF Delivery!vars
  <2>5. CASE S # {}
    <3>1. Delivery!Ack(S)
      BY Zenon, <2>2, <2>3, <2>5 DEF Delivery!Ack
    <3>2. S \in SUBSET Edit
      BY <1>0, Zenon
    <3>3. QED
      BY Zenon, <3>1, <3>2 DEF Delivery!Next
  <2>6. QED
    BY Zenon, <2>4, <2>5
<1>4. CASE UNCHANGED <<edits, journal, effects>>
  BY Zenon, <1>4 DEF Delivery!vars
<1>5. ASSUME NEW heard \in BOOLEAN, NEW m \in sent,
             ServeCancel(m, heard) \/ ServeReplay(m, heard) \/ ServeRefusal(m)
      PROVE UNCHANGED <<edits, journal, effects>>
  BY <1>5, Zenon DEF ServeCancel, ServeReplay, ServeRefusal
<1>6. CASE \/ SelectMode \/ Prepare \/ NegotiateFresh \/ ResolvePending \/ Send \/ ServeQuery
           \/ ResolveNetwork \/ SendCancel \/ RecordTerminal \/ Settle \/ Preserve
           \/ RecordConflictCopy \/ Retire
  <2>1. UNCHANGED <<edits, journal, effects>>
    BY Zenon, <1>6 DEF SelectMode, Prepare, NegotiateFresh, ResolvePending, Send, ServeQuery,
                ResolveNetwork, SendCancel, RecordTerminal, Settle, Preserve,
                RecordConflictCopy, Retire
  <2>2. QED
    BY Zenon, <2>1, <1>4
<1>7. CASE Interrupt \/ RestartServer \/ UNCHANGED vars
  <2>1. UNCHANGED <<edits, journal, effects>>
    BY Zenon, <1>7 DEF Interrupt, RestartServer, vars
  <2>2. QED
    BY Zenon, <2>1, <1>4
<1>8. QED
  BY Zenon, <1>1, <1>2, <1>3, <1>4, <1>5, <1>6, <1>7 DEF Next, DeviceStep, ServerStep

\* Durable root publication implements EditDelivery: every recorded edit enters the
\* vault at most once, and leaves the device's journal only after it did.
THEOREM DeliveryIsImplemented == Spec => ImplementsDelivery
  BY DeliveryInit, DeliveryStep, Invariance, PTL DEF Spec, ImplementsDelivery, Delivery!Spec

-----------------------------------------------------------------------------
(* The proof of both, for every set of paths and every assignment of paths *)
(* to leaves.  What a sweep keeps and an upload leaves out follows from    *)
(* when a chunk was born: up to the cut the store held the committed graph *)
(* and nothing else.                                                       *)

\* The native tree: the graphs of its roots are in the store, without a candidate
\* nothing else is, and what is as old as the cut is the committed graph.
Sound(n) ==
  /\ n \in [committed : Tree, candidate : Tree \cup {NoTree}, gen : Nat, cut : Nat,
            store : {n.store}]
  /\ n.store \in [DOMAIN n.store -> Nat]
  /\ Reachable(n.committed) \cup Reachable(n.candidate) \subseteq DOMAIN n.store
  /\ n.candidate = NoTree => DOMAIN n.store = Reachable(n.committed)
  /\ n.candidate # NoTree =>
       /\ n.cut < n.gen
       /\ \A c \in DOMAIN n.store : n.store[c] <= n.cut => c \in Reachable(n.committed)

\* The device and the server around it; a candidate is open exactly while a push runs.
CandidateTypeOK ==
  /\ client \in [base : Tree \cup {NoTree}, known : BOOLEAN, blocked : BOOLEAN,
                 push : {"idle", "delete", "upsert", "plan", "upload", "submit"},
                 need : {client.need}]
  /\ remote \in [root : Tree \cup {NoTree}, chunks : {remote.chunks}]
  /\ client.push = "idle" <=> native.candidate = NoTree

\* The fresh chunks are on the server or still in the plan.
FreshIsPlanned ==
  /\ client.push = "upload" => Fresh(native) \subseteq client.need \cup remote.chunks
  /\ client.push = "submit" => Fresh(native) \subseteq remote.chunks

CandidateInv == Sound(native) /\ CandidateTypeOK /\ FreshIsPlanned

LEMMA RebuiltIsSound ==
    ASSUME CandidateTreeAssumption, NEW t \in Tree
    PROVE  Sound(Rebuilt(t)) /\ Rebuilt(t).candidate = NoTree
<1>1. DOMAIN Insert(<<>>, 0, Reachable(t)) = Reachable(t)
  BY SMTT(30) DEF Insert
<1>2. \A c \in Reachable(t) : Insert(<<>>, 0, Reachable(t))[c] \in Nat
  BY SMTT(30) DEF Insert
<1>3. Insert(<<>>, 0, Reachable(t)) \in [Reachable(t) -> Nat]
  BY Zenon, <1>1, <1>2 DEF Insert
<1>4. Reachable(NoTree) = {}
  BY Zenon DEF Reachable
<1>5. QED
  BY Zenon, <1>1, <1>3, <1>4 DEF Sound, Rebuilt

LEMMA OpenIsSound ==
    ASSUME CandidateTreeAssumption, NEW n, Sound(n), n.candidate = NoTree
    PROVE  /\ Sound(OpenCandidate(n))
           /\ OpenCandidate(n).candidate = n.committed
           /\ OpenCandidate(n).committed = n.committed
<1>1. /\ OpenCandidate(n).candidate = n.committed /\ OpenCandidate(n).committed = n.committed
      /\ OpenCandidate(n).gen = n.gen + 1 /\ OpenCandidate(n).cut = n.gen
      /\ OpenCandidate(n).store = n.store
  BY Zenon DEF OpenCandidate, Sound
<1>2. OpenCandidate(n) \in [committed : Tree, candidate : Tree \cup {NoTree}, gen : Nat, cut : Nat,
                            store : {n.store}]
  <2>1. n.committed \in Tree /\ n.gen \in Nat /\ n.gen + 1 \in Nat
    BY SMTT(30) DEF Sound
  <2>2. \A later \in Nat : [n EXCEPT !.candidate = n.committed, !.cut = n.gen, !.gen = later]
          \in [committed : Tree, candidate : Tree \cup {NoTree}, gen : Nat, cut : Nat, store : {n.store}]
    BY <2>1, Zenon DEF Sound
  <2>3. QED
    BY <2>1, <2>2, Zenon DEF OpenCandidate
<1>3. n.committed # NoTree
  BY Zenon DEF Sound, CandidateTreeAssumption, Tree
<1>4. QED
  BY SMTT(30), <1>1, <1>2, <1>3 DEF Sound

\* Only new chunks get the generation of the candidate.
LEMMA MutatedIsSound ==
    ASSUME CandidateTreeAssumption, NEW n, Sound(n), n.candidate # NoTree,
           NEW rows, \A p \in Path \cap DOMAIN rows : rows[p] \in Row
    PROVE  /\ Sound(Mutated(n, rows))
           /\ Mutated(n, rows).candidate # NoTree
           /\ Mutated(n, rows).committed = n.committed
<1> DEFINE t == [p \in Path |-> IF p \in DOMAIN rows THEN rows[p] ELSE n.candidate[p]]
           s == Insert(n.store, n.gen, Reachable(t))
<1>1. t \in Tree
  BY Zenon DEF Sound, Tree
<1>2. /\ DOMAIN s = DOMAIN n.store \cup Reachable(t)
      /\ \A c \in DOMAIN s : s[c] = IF c \in DOMAIN n.store THEN n.store[c] ELSE n.gen
  BY Zenon DEF Insert
<1>3. s \in [DOMAIN s -> Nat]
  BY Zenon, <1>2 DEF Insert, Sound
<1>4. Mutated(n, rows) = [n EXCEPT !.candidate = t, !.store = s]
  BY Zenon DEF Mutated
<1> HIDE DEF t, s
<1>5. /\ Mutated(n, rows).candidate = t /\ Mutated(n, rows).committed = n.committed
      /\ Mutated(n, rows).gen = n.gen /\ Mutated(n, rows).cut = n.cut
      /\ Mutated(n, rows).store = s
  BY Zenon, <1>4 DEF Sound
<1>6. Mutated(n, rows) \in [committed : Tree, candidate : Tree \cup {NoTree}, gen : Nat, cut : Nat,
                            store : {s}]
  BY <1>1, <1>4, Zenon DEF Sound
<1>7. t # NoTree
  BY Zenon, <1>1 DEF CandidateTreeAssumption, Tree
<1>8. QED
  BY SMTT(30), <1>2, <1>3, <1>5, <1>6, <1>7 DEF Sound

LEMMA CommitIsSound ==
    ASSUME CandidateTreeAssumption, NEW n, Sound(n), n.candidate # NoTree
    PROVE  Sound(CommitCandidate(n)) /\ CommitCandidate(n).candidate = NoTree
<1> DEFINE s == Retain(n.store, Reachable(n.candidate))
<1>1. DOMAIN s = Reachable(n.candidate) /\ s \in [DOMAIN s -> Nat]
  BY Zenon DEF Retain, Sound
<1>2. CommitCandidate(n) = [n EXCEPT !.committed = n.candidate, !.candidate = NoTree, !.store = s]
  BY Zenon DEF CommitCandidate
<1> HIDE DEF s
<1>3. /\ CommitCandidate(n).candidate = NoTree /\ CommitCandidate(n).committed = n.candidate
      /\ CommitCandidate(n).store = s
      /\ CommitCandidate(n) \in [committed : Tree, candidate : Tree \cup {NoTree}, gen : Nat, cut : Nat,
                                 store : {s}]
  BY <1>2, Zenon DEF Sound
<1>4. Reachable(NoTree) = {}
  BY Zenon DEF Reachable
<1>5. QED
  BY Zenon, <1>1, <1>3, <1>4 DEF Sound

LEMMA AbortIsSound ==
    ASSUME CandidateTreeAssumption, NEW n, Sound(n)
    PROVE  Sound(AbortCandidate(n)) /\ AbortCandidate(n).candidate = NoTree
<1> DEFINE s == Retain(n.store, Reachable(n.committed))
<1>1. DOMAIN s = Reachable(n.committed) /\ s \in [DOMAIN s -> Nat]
  BY Zenon DEF Retain, Sound
<1>2. AbortCandidate(n) = [n EXCEPT !.candidate = NoTree, !.store = s]
  BY Zenon DEF AbortCandidate
<1> HIDE DEF s
<1>3. /\ AbortCandidate(n).candidate = NoTree /\ AbortCandidate(n).committed = n.committed
      /\ AbortCandidate(n).store = s
      /\ AbortCandidate(n) \in [committed : Tree, candidate : Tree \cup {NoTree}, gen : Nat, cut : Nat,
                                store : {s}]
  BY <1>2, Zenon DEF Sound
<1>4. Reachable(NoTree) = {}
  BY Zenon DEF Reachable
<1>5. QED
  BY Zenon, <1>1, <1>3, <1>4 DEF Sound

LEMMA InitCandidateInv ==
    ASSUME CandidateTreeAssumption, CandidateInit
    PROVE  CandidateInv
<1>1. Empty \in Tree
  BY Zenon DEF Empty, Tree, CandidateTreeAssumption
<1>2. Sound(native) /\ native.candidate = NoTree
  BY Zenon, <1>1, RebuiltIsSound DEF CandidateInit
<1>3. client.known \in BOOLEAN /\ client.blocked \in BOOLEAN
  BY Zenon DEF CandidateInit
<1>4. CandidateTypeOK
  BY Zenon, <1>2, <1>3 DEF CandidateInit, CandidateTypeOK
<1>5. QED
  BY Zenon, <1>2, <1>4 DEF CandidateInv, FreshIsPlanned, CandidateInit

\* The push reaches its plan with a sound candidate.
LEMMA OpeningStep ==
    ASSUME CandidateTreeAssumption, CandidateInv,
           \/ Open
           \/ \E paths \in SUBSET Path : DeleteBatch(paths)
           \/ \E paths \in SUBSET Path : \E rows \in [paths -> Row] : UpsertBatch(rows)
    PROVE  CandidateInv'
<1>0. Sound(native) /\ CandidateTypeOK
  BY Zenon DEF CandidateInv
<1> DEFINE Opened(place) == /\ Sound(native') /\ native'.candidate # NoTree /\ remote' = remote
                            /\ client' = [client EXCEPT !.push = place]
<1>1. Opened("delete") \/ Opened("upsert") \/ Opened("plan")
  <2>1. CASE Open
    <3>1. native.candidate = NoTree
      BY Zenon, <2>1 DEF Open, CanOpen
    <3>2. native'.candidate = native.committed /\ Sound(native')
      BY Zenon, <1>0, <2>1, <3>1, OpenIsSound DEF Open
    <3>3. native.committed # NoTree
      BY Zenon, <2>1 DEF Open, CanOpen
    <3>4. QED
      BY Zenon, <2>1, <3>2, <3>3 DEF Open
  <2>2. ASSUME NEW paths \in SUBSET Path, DeleteBatch(paths)
        PROVE  Opened("upsert")
    <3>1. native.candidate # NoTree /\ native' = Mutated(native, [p \in paths |-> Absent])
      BY Zenon, <1>0, <2>2 DEF DeleteBatch, CandidateTypeOK
    <3>2. \A p \in Path \cap DOMAIN [p \in paths |-> Absent] : [q \in paths |-> Absent][p] \in Row
      BY Zenon DEF CandidateTreeAssumption
    <3>3. Sound(native') /\ native'.candidate # NoTree
      BY Zenon, <1>0, <3>1, <3>2, MutatedIsSound
    <3>4. QED
      BY Zenon, <2>2, <3>3 DEF DeleteBatch
  <2>3. ASSUME NEW paths \in SUBSET Path, NEW rows \in [paths -> Row], UpsertBatch(rows)
        PROVE  Opened("plan")
    <3>1. native.candidate # NoTree /\ native' = Mutated(native, rows)
      BY Zenon, <1>0, <2>3 DEF UpsertBatch, CandidateTypeOK
    <3>2. Sound(native') /\ native'.candidate # NoTree
      BY Zenon, <1>0, <3>1, MutatedIsSound
    <3>3. QED
      BY Zenon, <2>3, <3>2 DEF UpsertBatch
  <2>4. QED
    BY Zenon, <2>1, <2>2, <2>3
<1>2. PICK place \in {"delete", "upsert", "plan"} : Opened(place)
  BY Zenon, <1>1
<1>3. CandidateTypeOK' /\ client'.push = place
  BY Zenon, <1>0, <1>2 DEF CandidateTypeOK
<1>4. QED
  BY Zenon, <1>2, <1>3 DEF CandidateInv, FreshIsPlanned

\* The upload brings every fresh chunk to the server.
LEMMA UploadStep ==
    ASSUME CandidateTreeAssumption, CandidateInv, PlanIndex \/ Uploaded \/ \E c \in client.need : UploadChunk(c)
    PROVE  CandidateInv'
<1>0. Sound(native) /\ CandidateTypeOK /\ FreshIsPlanned
  BY Zenon DEF CandidateInv
<1>1. CASE PlanIndex
  <2>1. Fresh(native) \subseteq Reachable(native.candidate)
    BY Zenon DEF Fresh
  <2>2. PICK wanted : /\ Fresh(native) \subseteq wanted
                      /\ client' = [client EXCEPT !.push = "upload", !.need = wanted \ remote.chunks]
    BY <1>1, <2>1, Zenon DEF PlanIndex
  <2>3. client'.push = "upload" /\ client'.need = wanted \ remote.chunks /\ CandidateTypeOK'
    BY <1>0, <1>1, <2>2, Zenon DEF PlanIndex, CandidateTypeOK
  <2>4. QED
    BY Zenon, <1>0, <1>1, <2>2, <2>3 DEF PlanIndex, CandidateInv, FreshIsPlanned
<1>2. CASE Uploaded
  <2>1. client'.push = "submit" /\ CandidateTypeOK'
    BY Zenon, <1>0, <1>2 DEF Uploaded, CandidateTypeOK
  <2>2. QED
    BY Zenon, <1>0, <1>2, <2>1 DEF Uploaded, CandidateInv, FreshIsPlanned
<1>3. ASSUME NEW c \in client.need, UploadChunk(c)
      PROVE  CandidateInv'
  <2>1. /\ client'.push = "upload" /\ client'.need = client.need \ {c}
        /\ remote'.chunks = remote.chunks \cup {c} /\ CandidateTypeOK'
    BY Zenon, <1>0, <1>3 DEF UploadChunk, CandidateTypeOK
  <2>2. QED
    BY Zenon, <1>0, <1>3, <2>1 DEF UploadChunk, CandidateInv, FreshIsPlanned
<1>4. QED
  BY Zenon, <1>1, <1>2, <1>3

\* Every step that leaves the device without a push leaves it sound.
LEMMA SettledStep ==
    ASSUME CandidateTreeAssumption, CandidateInv,
           Accept \/ Reject \/ PushFails \/ Rebuild
           \/ \E applied \in SUBSET Path, downloaded \in BOOLEAN : Pull(applied, downloaded)
    PROVE  Sound(native') /\ native'.candidate = NoTree
<1>0. Sound(native) /\ CandidateTypeOK
  BY Zenon DEF CandidateInv
<1>1. CASE Accept
  <2>1. native.candidate # NoTree /\ native' = CommitCandidate(native)
    BY Zenon, <1>0, <1>1 DEF Accept, CandidateTypeOK
  <2>2. QED
    BY Zenon, <1>0, <2>1, CommitIsSound
<1>2. CASE Reject \/ PushFails
  BY Zenon, <1>0, <1>2, AbortIsSound DEF Reject, PushFails
<1>3. CASE Rebuild
  <2>1. native.committed \in Tree /\ native' = Rebuilt(native.committed)
    BY Zenon, <1>0, <1>3 DEF Rebuild, Sound
  <2>2. QED
    BY Zenon, <2>1, RebuiltIsSound
<1>4. ASSUME NEW applied \in SUBSET Path, NEW downloaded \in BOOLEAN, Pull(applied, downloaded)
      PROVE  Sound(native') /\ native'.candidate = NoTree
  <2>1. native.candidate = NoTree /\ remote.root \in Tree
    BY Zenon, <1>0, <1>4 DEF Pull, CandidateTypeOK
  <2>2. CASE applied = {}
    BY Zenon, <1>0, <1>4, <2>1, <2>2 DEF Pull
  <2>3. CASE applied # {}
    <3> DEFINE rows == [p \in applied |-> remote.root[p]]
               opened == OpenCandidate(native)
               changed == Mutated(opened, rows)
    <3>1. native' = CommitCandidate(changed)
      BY Zenon, <1>4, <2>3 DEF Pull, ApplyCommitted
    <3>2. Sound(opened) /\ opened.candidate # NoTree
      <4>1. native.committed # NoTree
        BY Zenon, <1>0 DEF Sound, CandidateTreeAssumption, Tree
      <4>2. QED
        BY Zenon, <1>0, <2>1, <4>1, OpenIsSound
    <3>3. \A p \in Path \cap DOMAIN rows : rows[p] \in Row
      BY Zenon, <2>1 DEF Tree
    <3>4. Sound(changed) /\ changed.candidate # NoTree
      BY Zenon, <3>2, <3>3, MutatedIsSound
    <3>5. QED
      BY Zenon, <3>1, <3>4, CommitIsSound
  <2>4. QED
    BY Zenon, <2>2, <2>3
<1>5. QED
  BY Zenon, <1>1, <1>2, <1>3, <1>4

LEMMA CandidateInvStep ==
    ASSUME CandidateTreeAssumption, CandidateInv, [CandidateNext]_candidateVars
    PROVE  CandidateInv'
<1>0. Sound(native) /\ CandidateTypeOK /\ FreshIsPlanned
  BY Zenon DEF CandidateInv
<1>1. CASE \/ Open
           \/ \E paths \in SUBSET Path : DeleteBatch(paths)
           \/ \E paths \in SUBSET Path : \E rows \in [paths -> Row] : UpsertBatch(rows)
  BY Zenon, <1>1, OpeningStep
<1>2. CASE PlanIndex \/ Uploaded \/ \E c \in client.need : UploadChunk(c)
  BY Zenon, <1>2, UploadStep
<1>3. CASE Accept \/ Reject \/ PushFails \/ Rebuild
           \/ \E applied \in SUBSET Path, downloaded \in BOOLEAN : Pull(applied, downloaded)
  <2>1. Sound(native') /\ native'.candidate = NoTree
    BY Zenon, <1>3, SettledStep
  <2>2. client'.push = "idle" /\ CandidateTypeOK'
    <3>1. CASE Accept
      <4>1. native.candidate \in Tree
        BY Zenon, <1>0, <3>1 DEF Accept, CandidateTypeOK, Sound
      <4>2. remote'.root \in Tree /\ remote' = [root |-> remote'.root, chunks |-> remote'.chunks]
        BY Zenon, <1>0, <3>1, <4>1 DEF Accept, CandidateTypeOK, Merged, Tree
      <4>3. client' = [client EXCEPT !.push = "idle", !.base = native.candidate, !.known = client'.known]
            /\ client'.known \in BOOLEAN
        BY Zenon, <1>0, <3>1 DEF Accept, CandidateTypeOK
      <4>4. QED
        BY <1>0, <2>1, <4>1, <4>2, <4>3, Zenon DEF CandidateTypeOK
    <3>2. CASE Reject \/ PushFails
      BY <1>0, <2>1, <3>2, Zenon DEF Reject, PushFails, CandidateTypeOK
    <3>3. CASE Rebuild
      BY <1>0, <2>1, <3>3, Zenon DEF Rebuild, CandidateTypeOK
    <3>4. ASSUME NEW applied \in SUBSET Path, NEW downloaded \in BOOLEAN, Pull(applied, downloaded)
          PROVE  client'.push = "idle" /\ CandidateTypeOK'
      BY <1>0, <2>1, <3>4, Zenon DEF Pull, Adopted, CandidateTypeOK
    <3>5. QED
      BY Zenon, <1>3, <3>1, <3>2, <3>3, <3>4
  <2>3. QED
    BY Zenon, <2>1, <2>2 DEF CandidateInv, FreshIsPlanned
<1>4. ASSUME NEW t \in Tree, RemotePublish(t)
      PROVE  CandidateInv'
  <2>1. CandidateTypeOK' /\ remote.chunks \subseteq remote'.chunks
    BY Zenon, <1>0, <1>4 DEF RemotePublish, CandidateTypeOK
  <2>2. QED
    BY Zenon, <1>0, <1>4, <2>1 DEF RemotePublish, CandidateInv, FreshIsPlanned
<1>5. CASE UNCHANGED candidateVars
  BY Zenon, <1>0, <1>5 DEF candidateVars, CandidateInv, CandidateTypeOK, FreshIsPlanned
<1>6. QED
  BY Zenon, <1>1, <1>2, <1>3, <1>4, <1>5 DEF CandidateNext, PushStep

LEMMA CandidateInvariance == CandidateTreeAssumption => (CandidateSpec => []CandidateInv)
<1> SUFFICES ASSUME CandidateTreeAssumption PROVE CandidateSpec => []CandidateInv
  BY Zenon
<1>1. CandidateInit => CandidateInv
  BY Zenon, InitCandidateInv
<1>2. CandidateInv /\ [CandidateNext]_candidateVars => CandidateInv'
  BY Zenon, CandidateInvStep
<1>3. QED
  BY <1>1, <1>2, PTL DEF CandidateSpec

\* A push that uploads only the chunks born after its cut leaves the server with the
\* whole index of the candidate, if it had that of the committed tree; no sweep takes a
\* chunk of a live root, and outside a push nothing else is kept.
THEOREM FreshAlwaysSuffices == CandidateTreeAssumption => (CandidateSpec => []FreshSuffices)
<1> SUFFICES ASSUME CandidateTreeAssumption PROVE CandidateSpec => []FreshSuffices
  BY Zenon
<1>1. CandidateInv => FreshCompletes
  <2> SUFFICES ASSUME CandidateInv, client.push = "submit", Reachable(native.committed) \subseteq remote.chunks,
                      NEW c \in Reachable(native.candidate)
               PROVE  c \in remote.chunks
    BY Zenon DEF FreshCompletes
  <2>1. native.candidate # NoTree /\ c \in DOMAIN native.store
    BY Zenon DEF CandidateInv, CandidateTypeOK, Sound
  <2>2. native.store[c] \in Nat /\ native.cut \in Nat
    BY Zenon, <2>1 DEF CandidateInv, Sound
  <2>3. CASE native.store[c] <= native.cut
    BY Zenon, <2>1, <2>3 DEF CandidateInv, Sound
  <2>4. CASE native.store[c] > native.cut
    BY Zenon, <2>4 DEF Fresh, CandidateInv, FreshIsPlanned
  <2>5. QED
    BY SMTT(30), <2>2, <2>3, <2>4
<1>2. CandidateInv => GraphsAreResident
  BY Zenon DEF CandidateInv, Sound, GraphsAreResident
<1>3. QED
  BY <1>1, <1>2, CandidateInvariance, PTL DEF FreshSuffices
===============================================================================
