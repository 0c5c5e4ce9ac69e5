------------------------- MODULE RootAuthorityProofs -------------------------
(***************************************************************************)
(* Proofs about the root authority of the server.  The head on the disk    *)
(* (RootHead): for every set of devices, roots and operations and every    *)
(* bound.  The tree merge (TreeMerge) and the handlers that use it         *)
(* (RootServer): for every set of paths, contents, devices and concurrent  *)
(* requests, a merge keeps what both sides wrote, a push never reverts     *)
(* what others did since its parent, and a deletion bypass is spent once.  *)
(***************************************************************************)
EXTENDS RootHead, RootServer, FiniteSetTheorems, TLAPS

-----------------------------------------------------------------------------
(* The head.  The parts of the inductive invariant.                        *)


\* A call changes at most its own device's receipt, to the next sequence.
CarriesReceipts(head, c) ==
    \A d \in Device :
        \/ c.head.receipts[d] = head.receipts[d]
        \/ /\ d = c.device
           /\ c.receipt # None
           /\ c.head.receipts[d] = c.receipt
           /\ c.receipt.sequence = NextSequence(head, d)

\* Until its rename a call holds a head computed from the visible one.
CallReads ==
    call # None /\ call.at \in {"store", "blobSync", "encode", "open", "write", "sync", "rename"} =>
        /\ current \in Heads \cup {None}
        /\ CarriesReceipts(ReadHead, call)
        /\ call.receipt # None => call.head.receipts[call.device] = call.receipt

\* The temporary that is about to be renamed is the call's head, fully synced.
CallTemp ==
    /\ At("sync") => temp = call.head
    /\ At("rename") => temp = call.head /\ tempSynced

\* After its rename, and during a replay, the call's head is the visible one.
CallSelected ==
    At("dirSync") \/ At("replaySync") =>
        /\ current = call.head
        /\ call.receipt # None => current.receipts[call.device] = call.receipt

\* From the encoding on, the root of the call's head is durable or rolled to.
CallRoot ==
    /\ call # None /\ call.at \in {"store", "blobSync"} =>
          call.root # None /\ call.head.root = call.root
    /\ At("blobSync") => call.root \in history
    /\ call # None /\ call.at \in {"encode", "open", "write", "sync", "rename"} =>
          (call.head.root # None => call.head.root \in durable \cup rolledTo)

VisibleSurvives == current \in survives /\ durable \subseteq history

HeadInv ==
    /\ TypeOK
    /\ VisibleSurvives
    /\ NoTornHead
    /\ CallReads
    /\ CallTemp
    /\ CallSelected
    /\ CallRoot
    /\ AnsweredReceiptSurvives
    /\ SelectedRootSurvives

-----------------------------------------------------------------------------
LEMMA InitHeadInv == Init => HeadInv
<1> SUFFICES ASSUME Init PROVE HeadInv
  BY Zenon
<1> USE RootHeadAssumption, MarkerAssumption
<1>1. TypeOK
  <2>1. faults \in 0..MaxFaults
    BY SMTT(30) DEF Init
  <2>2. survives \subseteq Heads \cup {None, Torn} /\ replied \in [Device -> Receipt \cup {None}]
    BY Zenon DEF Init
  <2>3. QED
    BY <2>1, <2>2, Zenon DEF Init, TypeOK
<1>2. VisibleSurvives /\ NoTornHead /\ SelectedRootSurvives
  BY Zenon DEF Init, VisibleSurvives, NoTornHead, SelectedRootSurvives
<1>3. AnsweredReceiptSurvives
  BY Zenon DEF Init, AnsweredReceiptSurvives
<1>4. CallReads /\ CallTemp /\ CallSelected /\ CallRoot
  BY Zenon DEF Init, CallReads, CallTemp, CallSelected, CallRoot, At
<1>5. QED
  BY Zenon, <1>1, <1>2, <1>3, <1>4 DEF HeadInv

\* The head a call reads is a head.
LEMMA ReadHeadType == TypeOK /\ current # Torn => ReadHead \in Heads
  BY Zenon DEF TypeOK, ReadHead, EmptyHead, Heads

LEMMA HeadTypeStep == HeadInv /\ [Next]_vars => TypeOK'
<1> SUFFICES ASSUME TypeOK, NoTornHead, CallRoot, [Next]_vars PROVE TypeOK'
  BY Zenon DEF HeadInv
<1> USE RootHeadAssumption, MarkerAssumption
<1> ReadHead \in Heads
  BY Zenon, ReadHeadType DEF NoTornHead
<1>1. ASSUME NEW d \in Device, NEW target \in Root, NEW receipt \in Receipt, CommitRoot(d, target, receipt)
      PROVE TypeOK'
  BY <1>1, Zenon DEF CommitRoot, TypeOK, Call, Steps, disk, WithReceipt, Heads
<1>2. ASSUME NEW d \in Device, NEW target \in Root, LegacyPush(d, target)
      PROVE TypeOK'
  BY Zenon, <1>2 DEF LegacyPush, TypeOK, Call, Steps, disk, Heads
<1>3. ASSUME NEW d \in Device, NEW target \in Root, Rollback(d, target)
      PROVE TypeOK'
  BY Zenon, <1>3 DEF Rollback, TypeOK, Call, Steps, disk, Heads
<1>4. ASSUME NEW d \in Device, NEW receipt \in Receipt, CancelRoot(d, receipt)
      PROVE TypeOK'
  BY Zenon, <1>4 DEF CancelRoot, TypeOK, Call, Steps, disk, WithReceipt, Heads
<1>5. ASSUME NEW d \in Device, GetReceipt(d)
      PROVE TypeOK'
  BY Zenon, <1>5 DEF GetReceipt, TypeOK, Call, Steps, disk, Heads
<1>6. CASE ReuseHistory
  BY Zenon, <1>6 DEF ReuseHistory, TypeOK, At, Goto, Call, Steps
<1>7. CASE WriteHistory
  BY Zenon, <1>7 DEF WriteHistory, TypeOK, At, Goto, Call, Steps, CallRoot
<1>8. CASE SyncHistory
  BY Zenon, <1>8 DEF SyncHistory, TypeOK, At, Goto, Call, Steps
<1>9. CASE EncodeHead \/ RefuseHead
  BY Zenon, <1>9 DEF EncodeHead, RefuseHead, TypeOK, At, Goto, Call, Steps, disk
<1>10. CASE OpenTemp
  BY <1>10, Zenon DEF OpenTemp, TypeOK, At, Goto, Call, Steps
<1>11. CASE WriteTemp
  BY Zenon, <1>11 DEF WriteTemp, TypeOK, At, Goto, Call, Steps
<1>12. CASE SyncTemp
  BY Zenon, <1>12 DEF SyncTemp, TypeOK, At, Goto, Call, Steps
<1>13. CASE RenameHead
  BY <1>13, Zenon DEF RenameHead, TypeOK, At, Goto, Call, Steps
<1>14. CASE SyncHead
  BY Zenon, <1>14 DEF SyncHead, TypeOK, At, Call
<1>15. CASE ReplayReceipt
  BY Zenon, <1>15 DEF ReplayReceipt, TypeOK, At, Call
<1>16. CASE Fail
  BY SMTT(30), <1>16 DEF Fail, TypeOK, disk
<1>17. CASE PowerLoss
  <2>1. history' \subseteq Root
    BY Zenon, <1>17 DEF PowerLoss, TypeOK
  <2>2. current' \in Heads \cup {None, Torn} /\ survives' \subseteq Heads \cup {None, Torn}
    BY Zenon, <1>17 DEF PowerLoss, TypeOK
  <2>3. temp' \in Heads \cup {None, Torn}
    BY Zenon, <1>17 DEF PowerLoss, TypeOK
  <2>4. faults' \in 0..MaxFaults
    BY SMTT(30), <1>17 DEF PowerLoss, TypeOK
  <2>5. QED
    BY <2>1, <2>2, <2>3, <2>4, <1>17, Zenon DEF PowerLoss, TypeOK
<1>18. CASE UNCHANGED vars
  BY Zenon, <1>18 DEF vars, TypeOK
<1>19. QED
  BY Zenon, <1>1, <1>2, <1>3, <1>4, <1>5, <1>6, <1>7, <1>8, <1>9, <1>10, <1>11, <1>12, <1>13, <1>14,
     <1>15, <1>16, <1>17, <1>18 DEF Next, Begin
CallInv == CallReads /\ CallTemp /\ CallSelected /\ CallRoot
DiskInv == VisibleSurvives /\ NoTornHead /\ AnsweredReceiptSurvives /\ SelectedRootSurvives

\* A step that releases the vault lock leaves nothing to show about a call.
LEMMA CallReleased == call' = None => CallInv'
  BY Zenon DEF CallInv, CallReads, CallTemp, CallSelected, CallRoot, At

LEMMA CallStep == HeadInv /\ [Next]_vars => CallInv'
<1> SUFFICES ASSUME HeadInv, [Next]_vars PROVE CallInv'
  BY Zenon
<1> USE RootHeadAssumption, MarkerAssumption
<1>a. ReadHead \in Heads /\ current # Torn
  BY Zenon, ReadHeadType DEF HeadInv, NoTornHead
<1>b. /\ CallInv /\ (call # None => call \in Call) /\ current \in Heads \cup {None, Torn}
      /\ replied \in [Device -> Receipt \cup {None}] /\ durable \subseteq history
  BY Zenon DEF HeadInv, TypeOK, CallInv, VisibleSurvives
<1>1. ASSUME NEW d \in Device, NEW target \in Root, NEW receipt \in Receipt, CommitRoot(d, target, receipt)
      PROVE CallInv'
  <2> DEFINE head == [WithReceipt(ReadHead, d, receipt) EXCEPT !.root = target]
  <2>1. /\ head.receipts[d] = receipt /\ head.root = target
        /\ \A e \in Device : e # d => head.receipts[e] = ReadHead.receipts[e]
    BY Zenon, <1>a DEF WithReceipt, Heads
  <2> HIDE DEF head
  <2>2. /\ call' = [at |-> "store", device |-> d, root |-> target, receipt |-> receipt, head |-> head]
        /\ receipt.sequence = NextSequence(ReadHead, d)
        /\ UNCHANGED <<current, temp, tempSynced, history, durable, rolledTo>>
    BY Zenon, <1>1 DEF CommitRoot, disk, head
  <2>3. CarriesReceipts(ReadHead, call)'
    BY Zenon, <2>1, <2>2 DEF CarriesReceipts, ReadHead, NextSequence
  <2>4. QED
    BY Zenon, <2>1, <2>2, <2>3, <1>a, <1>b DEF CallInv, CallReads, CallTemp, CallSelected, CallRoot, At
<1>2. ASSUME NEW d \in Device, NEW target \in Root, LegacyPush(d, target) \/ Rollback(d, target)
      PROVE CallInv'
  <2> DEFINE head == [ReadHead EXCEPT !.root = target]
  <2>1. head.root = target /\ \A e \in Device : head.receipts[e] = ReadHead.receipts[e]
    BY Zenon, <1>a DEF Heads
  <2> HIDE DEF head
  <2>2. /\ \/ call' = [at |-> "store", device |-> d, root |-> target, receipt |-> None, head |-> head]
           \/ /\ call' = [at |-> "encode", device |-> d, root |-> target, receipt |-> None, head |-> head]
              /\ target \in rolledTo'
        /\ UNCHANGED <<current, temp, tempSynced, history, durable>>
    BY Zenon, <1>2 DEF LegacyPush, Rollback, disk, head
  <2>3. CarriesReceipts(ReadHead, call)'
    BY SMTT(30), <2>1, <2>2 DEF CarriesReceipts, ReadHead
  <2>4. QED
    BY SMTT(30), <2>1, <2>2, <2>3, <1>a, <1>b DEF CallInv, CallReads, CallTemp, CallSelected, CallRoot, At
<1>3. ASSUME NEW d \in Device, NEW receipt \in Receipt, CancelRoot(d, receipt)
      PROVE CallInv'
  <2> DEFINE head == WithReceipt(ReadHead, d, receipt)
  <2>1. /\ head.receipts[d] = receipt /\ head.root = ReadHead.root
        /\ \A e \in Device : e # d => head.receipts[e] = ReadHead.receipts[e]
    BY Zenon, <1>a DEF WithReceipt, Heads
  <2> HIDE DEF head
  <2>2. /\ call' = [at |-> "encode", device |-> d, root |-> None, receipt |-> receipt, head |-> head]
        /\ receipt.sequence = NextSequence(ReadHead, d)
        /\ UNCHANGED <<current, temp, tempSynced, history, durable, rolledTo>>
    BY Zenon, <1>3 DEF CancelRoot, disk, head
  <2>3. CarriesReceipts(ReadHead, call)'
    BY Zenon, <2>1, <2>2 DEF CarriesReceipts, ReadHead, NextSequence
  <2>4. ReadHead.root # None => ReadHead.root \in durable \cup rolledTo
    BY Zenon, <1>a, <1>b DEF ReadHead, EmptyHead, HeadInv, VisibleSurvives, SelectedRootSurvives
  <2>5. QED
    BY Zenon, <2>1, <2>2, <2>3, <2>4, <1>a, <1>b DEF CallInv, CallReads, CallTemp, CallSelected, CallRoot, At
<1>4. ASSUME NEW d \in Device, GetReceipt(d)
      PROVE CallInv'
  BY Zenon, <1>4 DEF GetReceipt, disk, CallInv, CallReads, CallTemp, CallSelected, CallRoot, At
<1>5. CASE ReuseHistory \/ WriteHistory \/ SyncHistory
  <2>1. /\ UNCHANGED <<current, temp, tempSynced, rolledTo>> /\ durable \subseteq durable'
        /\ call # None /\ call.at \in {"store", "blobSync"}
        /\ \/ call' = [call EXCEPT !.at = "blobSync"] /\ call.root \in history'
           \/ call' = [call EXCEPT !.at = "encode"] /\ call.root \in durable'
    BY Zenon, <1>5, <1>b DEF ReuseHistory, WriteHistory, SyncHistory, At, Goto, CallInv, CallRoot
  <2>2. CallReads'
    BY Zenon, <2>1, <1>b DEF Call, CallInv, CallReads, CarriesReceipts, ReadHead, NextSequence
  <2>3. QED
    BY Zenon, <2>1, <2>2, <1>b DEF Call, CallInv, CallTemp, CallSelected, CallRoot, At
<1>6. CASE EncodeHead \/ OpenTemp \/ WriteTemp \/ SyncTemp
  <2>1. /\ UNCHANGED <<current, history, durable, rolledTo>>
        /\ call # None /\ call.at \in {"encode", "open", "write", "sync"}
        /\ \/ call' = [call EXCEPT !.at = "open"]
           \/ call' = [call EXCEPT !.at = "write"]
           \/ call' = [call EXCEPT !.at = "sync"] /\ temp' = call.head
           \/ call' = [call EXCEPT !.at = "rename"] /\ temp' = call.head /\ tempSynced' = TRUE
    BY Zenon, <1>6, <1>b DEF EncodeHead, OpenTemp, WriteTemp, SyncTemp, At, Goto, CallInv, CallTemp, disk
  <2>2. CallReads'
    BY SMTT(30), <2>1, <1>b DEF Call, CallInv, CallReads, CarriesReceipts, ReadHead, NextSequence
  <2>3. QED
    BY Zenon, <2>1, <2>2, <1>b DEF Call, CallInv, CallTemp, CallSelected, CallRoot, At
<1>7. CASE RenameHead
  <2>1. /\ current' = call.head /\ call # None /\ call.at = "rename"
        /\ call' = [call EXCEPT !.at = "dirSync"]
    BY Zenon, <1>7, <1>b DEF RenameHead, At, Goto, CallInv, CallTemp
  <2>2. QED
    BY Zenon, <2>1, <1>b DEF Call, CallInv, CallReads, CallTemp, CallSelected, CallRoot, At
<1>8. CASE RefuseHead \/ SyncHead \/ ReplayReceipt \/ Fail \/ PowerLoss
  BY Zenon, <1>8, CallReleased DEF RefuseHead, SyncHead, ReplayReceipt, Fail, PowerLoss
<1>9. CASE UNCHANGED vars
  BY Zenon, <1>9, <1>b DEF vars, CallInv, CallReads, CallTemp, CallSelected, CallRoot, At, ReadHead,
                    CarriesReceipts, NextSequence
<1>10. QED
  BY Zenon, <1>1, <1>2, <1>3, <1>4, <1>5, <1>6, <1>7, <1>8, <1>9 DEF Next, Begin

\* Most steps touch no selected file and only add to the history.
LEMMA DiskFrame ==
    /\ DiskInv
    /\ current' = current /\ survives' = survives /\ replied' = replied
    /\ durable \subseteq durable' /\ durable' \subseteq history' /\ rolledTo \subseteq rolledTo'
    => DiskInv'
  BY Zenon DEF DiskInv, VisibleSurvives, NoTornHead, AnsweredReceiptSurvives, SelectedRootSurvives

LEMMA DiskStep == HeadInv /\ [Next]_vars => DiskInv'
<1> SUFFICES ASSUME HeadInv, [Next]_vars PROVE DiskInv'
  BY Zenon
<1> USE RootHeadAssumption, MarkerAssumption
<1>a. DiskInv /\ durable \subseteq history
  BY Zenon DEF HeadInv, DiskInv, VisibleSurvives
<1>b. call # None => call \in Call
  BY Zenon DEF HeadInv, TypeOK
<1>1. CASE Begin
  BY Zenon, <1>1, <1>a, DiskFrame DEF Begin, CommitRoot, LegacyPush, Rollback, CancelRoot, GetReceipt, disk
<1>2. CASE ReuseHistory \/ WriteHistory \/ SyncHistory
  BY Zenon, <1>2, <1>a, DiskFrame DEF ReuseHistory, WriteHistory, SyncHistory
<1>3. CASE EncodeHead \/ RefuseHead \/ OpenTemp \/ WriteTemp \/ SyncTemp \/ Fail
  BY Zenon, <1>3, <1>a, DiskFrame DEF EncodeHead, RefuseHead, OpenTemp, WriteTemp, SyncTemp, Fail, disk
<1>4. CASE RenameHead
  <2>1. /\ current' = call.head /\ survives' = survives \cup {call.head}
        /\ UNCHANGED <<history, durable, rolledTo, replied>>
    BY Zenon, <1>4 DEF RenameHead, HeadInv, CallTemp
  <2>2. call.head \in Heads
    BY Zenon, <1>4, <1>b DEF RenameHead, At, Call
  <2>3. VisibleSurvives' /\ NoTornHead'
    BY Zenon, <2>1, <2>2, <1>a DEF DiskInv, VisibleSurvives, NoTornHead
  <2>4. call.head.root # None => call.head.root \in durable \cup rolledTo
    BY Zenon, <1>4 DEF RenameHead, At, HeadInv, CallRoot
  <2>5. SelectedRootSurvives'
    BY Zenon, <2>1, <2>4, <1>a DEF DiskInv, SelectedRootSurvives
  <2>6. ASSUME NEW e \in Device, replied[e] # None
        PROVE /\ call.head.receipts[e] # None
              /\ \/ call.head.receipts[e] = replied[e]
                 \/ call.head.receipts[e].sequence > replied[e].sequence
    <3>1. /\ current \in Heads
          /\ current.receipts[e] # None
          /\ \/ current.receipts[e] = replied[e]
             \/ current.receipts[e].sequence > replied[e].sequence
      BY Zenon, <2>6, <1>a DEF DiskInv, VisibleSurvives, AnsweredReceiptSurvives
    <3>2. current.receipts[e] \in Receipt /\ replied[e] \in Receipt
      BY Zenon, <2>6, <3>1 DEF Heads, HeadInv, TypeOK
    <3>3. current.receipts[e].sequence \in Nat /\ replied[e].sequence \in Nat
      BY SMTT(30), <3>2 DEF Receipt
    <3>4. CarriesReceipts(current, call)
      BY Zenon, <1>4, <3>1 DEF RenameHead, At, HeadInv, CallReads, ReadHead
    <3>5. CASE call.head.receipts[e] = current.receipts[e]
      BY Zenon, <3>5, <3>1
    <3>6. CASE call.head.receipts[e] # current.receipts[e]
      <4>1. /\ call.head.receipts[e] # None
            /\ call.head.receipts[e].sequence = current.receipts[e].sequence + 1
        BY Zenon, <3>6, <3>4, <3>1 DEF CarriesReceipts, NextSequence
      <4>2. QED
        BY SMTT(30), <4>1, <3>1, <3>3
    <3>7. QED
      BY Zenon, <3>5, <3>6
  <2>7. AnsweredReceiptSurvives'
    BY Zenon, <2>1, <2>2, <2>6, <1>a DEF DiskInv, AnsweredReceiptSurvives
  <2>8. QED
    BY Zenon, <2>3, <2>5, <2>7 DEF DiskInv
<1>5. CASE SyncHead \/ ReplayReceipt
  <2>1. /\ call # None /\ current = call.head
        /\ call.receipt # None => current.receipts[call.device] = call.receipt
    BY Zenon, <1>5 DEF SyncHead, ReplayReceipt, At, HeadInv, CallSelected
  <2>2. current \in Heads /\ call.device \in Device
    BY Zenon, <2>1, <1>b DEF Call
  <2>3. survives' = {current} /\ UNCHANGED <<current, history, durable, rolledTo>>
    BY Zenon, <1>5, <1>a DEF SyncHead, ReplayReceipt, DiskInv, NoTornHead
  <2>4. VisibleSurvives' /\ NoTornHead' /\ SelectedRootSurvives'
    BY Zenon, <2>3, <1>a DEF DiskInv, VisibleSurvives, NoTornHead, SelectedRootSurvives
  <2>5. \/ replied' = replied
        \/ call.receipt # None /\ replied' = [replied EXCEPT ![call.device] = call.receipt]
        \/ call.receipt = None /\ replied' = [replied EXCEPT ![call.device] = None]
    BY Zenon, <1>5 DEF SyncHead, ReplayReceipt
  <2>6. replied \in [Device -> Receipt \cup {None}]
    BY Zenon DEF HeadInv, TypeOK
  <2>7. \A e \in Device : replied[e] # None =>
          /\ current.receipts[e] # None
          /\ \/ current.receipts[e] = replied[e]
             \/ current.receipts[e].sequence > replied[e].sequence
    BY Zenon, <1>a DEF DiskInv, VisibleSurvives, AnsweredReceiptSurvives
  <2>8. AnsweredReceiptSurvives'
    BY Zenon, <2>1, <2>2, <2>3, <2>5, <2>6, <2>7 DEF AnsweredReceiptSurvives
  <2>9. QED
    BY Zenon, <2>4, <2>8 DEF DiskInv
<1>6. CASE PowerLoss
  <2>1. /\ survives' \subseteq survives /\ current' \in survives'
        /\ durable \subseteq durable' /\ durable' = history'
        /\ UNCHANGED <<rolledTo, replied>>
    BY Zenon, <1>6 DEF PowerLoss
  <2>2. VisibleSurvives' /\ NoTornHead'
    BY Zenon, <2>1, <1>a DEF DiskInv, VisibleSurvives, NoTornHead
  <2>3. AnsweredReceiptSurvives' /\ SelectedRootSurvives'
    BY Zenon, <2>1, <1>a DEF DiskInv, AnsweredReceiptSurvives, SelectedRootSurvives
  <2>4. QED
    BY Zenon, <2>2, <2>3 DEF DiskInv
<1>7. CASE UNCHANGED vars
  BY Zenon, <1>7, <1>a, DiskFrame DEF vars
<1>8. QED
  BY Zenon, <1>1, <1>2, <1>3, <1>4, <1>5, <1>6, <1>7 DEF Next

LEMMA HeadInvStep == HeadInv /\ [Next]_vars => HeadInv'
  BY Zenon, HeadTypeStep, CallStep, DiskStep DEF HeadInv, CallInv, DiskInv

\* The inductive invariant holds in every reachable state.
THEOREM HeadInvariance == Spec => []HeadInv
  BY InitHeadInv, HeadInvStep, PTL DEF Spec

\* Every state has the types of storage.rs's structures.
THEOREM TypeCorrect == Spec => []TypeOK
<1>1. HeadInv => TypeOK
  BY Zenon DEF HeadInv
<1>2. QED
  BY <1>1, HeadInvariance, PTL

\* A head is synced before the rename that selects it: whatever fault falls
\* between the steps of publish_current_head, no torn head can be read back.
THEOREM HeadsAreWhole == Spec => []NoTornHead
<1>1. HeadInv => NoTornHead
  BY Zenon DEF HeadInv
<1>2. QED
  BY <1>1, HeadInvariance, PTL

\* A terminal receipt that was answered, fresh or replayed, survives any number
\* of later I/O errors, process exits and power losses.
THEOREM AnswersAreDurable == Spec => []AnsweredReceiptSurvives
<1>1. HeadInv => AnsweredReceiptSurvives
  BY Zenon DEF HeadInv
<1>2. QED
  BY <1>1, HeadInvariance, PTL

\* The root a surviving head names is durable in history, unless a rollback
\* selected it.
THEOREM SelectedRootsAreDurable == Spec => []SelectedRootSurvives
<1>1. HeadInv => SelectedRootSurvives
  BY Zenon DEF HeadInv
<1>2. QED
  BY <1>1, HeadInvariance, PTL

\* No publication drops or rewrites another device's receipt, and its own
\* device's stream moves by one.
THEOREM ReceiptsAreCarriedOver == Spec => ReceiptsCarriedOver
<1> DEFINE Carried ==
      current' # current /\ call' # None =>
          \A d \in Device :
              LET old == ReadHead.receipts[d]
                  new == current'.receipts[d]
              IN  new # old => /\ d = call.device
                               /\ new.sequence = NextSequence(ReadHead, d)
<1>1. HeadInv /\ [Next]_vars => [Carried]_vars
  <2> SUFFICES ASSUME HeadInv, Next, current' # current, call' # None PROVE Carried
    BY Zenon DEF vars
  <2>1. RenameHead
    BY Zenon DEF Next, Begin, CommitRoot, LegacyPush, Rollback, CancelRoot, GetReceipt, ReuseHistory,
           WriteHistory, SyncHistory, EncodeHead, RefuseHead, OpenTemp, WriteTemp, SyncTemp,
           SyncHead, ReplayReceipt, Fail, PowerLoss, disk
  <2>2. current' = call.head
    BY Zenon, <2>1 DEF RenameHead, HeadInv, CallTemp
  <2>3. CarriesReceipts(ReadHead, call)
    BY Zenon, <2>1 DEF RenameHead, HeadInv, CallReads, At
  <2>4. QED
    BY Zenon, <2>2, <2>3 DEF CarriesReceipts
<1>2. QED
  BY <1>1, HeadInvariance, PTL DEF Spec, ReceiptsCarriedOver

-----------------------------------------------------------------------------
(* The merge.                                                              *)

\* The merged tree is a tree: a line merge takes the later of two times.
LEMMA MergeIsTree ==
    ASSUME RootServerAssumption,
           NEW base \in Tree, NEW a \in Tree, NEW b \in Tree, NEW v1 \in BOOLEAN,
           NEW text \in SUBSET TextTodo(base, a, b, v1)
    PROVE  MergeTrees(base, a, b, v1, text) \in Tree
<1> SUFFICES ASSUME NEW p \in Path
             PROVE MergeTrees(base, a, b, v1, text)[p] \in Entry \cup {Absent}
  BY Zenon DEF MergeTrees, Tree
<1>1. base[p] \in Entry \cup {Absent} /\ a[p] \in Entry \cup {Absent} /\ b[p] \in Entry \cup {Absent}
  BY Zenon DEF Tree
<1>2. CASE p \in text
  <2>1. a[p] \in Entry /\ b[p] \in Entry
    BY Zenon, <1>1, <1>2 DEF TextTodo, ModifyModify
  <2>2. MaxTime(a[p].mtime, b[p].mtime) \in MTime
    BY Zenon, <2>1 DEF Entry, MaxTime
  <2>3. TextMerged(a[p], b[p]) \in Entry
    BY Zenon, <2>2 DEF TextMerged, Entry
  <2>4. QED
    BY Zenon, <1>2, <2>3 DEF MergeTrees
<1>3. CASE p \notin text /\ p \in ByEntry(base, a, b, v1)
  BY Zenon, <1>1, <1>3 DEF MergeTrees, MergeEntry
<1>4. CASE p \notin text /\ p \notin ByEntry(base, a, b, v1)
  <2>1. DirChoice(base, a, b, PrefixOf[p]) \in {"a", "b", "drop"}
    BY Zenon, <1>4 DEF ByEntry, DirChoice
  <2>2. QED
    BY Zenon, <1>1, <1>4, <2>1 DEF MergeTrees
<1>5. QED
  BY Zenon, <1>2, <1>3, <1>4

\* What a choice of a whole directory says of one of its paths: the side that is not
\* taken has no file there or the base's own.
LEMMA DirectoryChoice ==
    ASSUME NEW base, NEW a, NEW b, NEW p \in Path,
           DirChoice(base, a, b, PrefixOf[p]) # "entries"
    PROVE  \/ /\ DirChoice(base, a, b, PrefixOf[p]) = "a"
              /\ b[p] = Absent \/ b[p] = base[p]
           \/ /\ DirChoice(base, a, b, PrefixOf[p]) = "b"
              /\ a[p] = Absent \/ a[p] = base[p]
           \/ /\ DirChoice(base, a, b, PrefixOf[p]) = "drop"
              /\ a[p] = Absent \/ b[p] = Absent
              /\ a[p] = Absent \/ a[p] = base[p]
              /\ b[p] = Absent \/ b[p] = base[p]
  BY Zenon DEF DirChoice, NoDir, SameDir, Under

\* What the merge takes at one path.
LEMMA MergedAt ==
    ASSUME RootServerAssumption,
           NEW base \in Tree, NEW a \in Tree, NEW b \in Tree, NEW v1 \in BOOLEAN,
           NEW text \in SUBSET TextTodo(base, a, b, v1), NEW p \in Path
    PROVE  LET m == MergeTrees(base, a, b, v1, text)[p]
           IN  \/ p \in text /\ ModifyModify(base[p], a[p], b[p]) /\ m # Absent /\ m.hash = Mixed
               \/ /\ p \notin text /\ p \in ByEntry(base, a, b, v1)
                  /\ m = MergeEntry(base[p], a[p], b[p])
               \/ v1 /\ p \notin text /\ m = a[p] /\ (b[p] = Absent \/ b[p] = base[p])
               \/ v1 /\ p \notin text /\ m = b[p] /\ (a[p] = Absent \/ a[p] = base[p])
               \/ /\ v1 /\ p \notin text /\ m = Absent
                  /\ a[p] = Absent \/ b[p] = Absent
                  /\ a[p] = Absent \/ a[p] = base[p]
                  /\ b[p] = Absent \/ b[p] = base[p]
<1> DEFINE m == MergeTrees(base, a, b, v1, text)[p]
<1>1. CASE p \in text
  <2>1. ModifyModify(base[p], a[p], b[p])
    BY Zenon, <1>1 DEF TextTodo
  <2>2. m = TextMerged(a[p], b[p]) /\ m \in Entry \cup {Absent}
    BY SMTT(30), <1>1, MergeIsTree DEF MergeTrees, Tree
  <2>3. TextMerged(a[p], b[p]) # Absent /\ TextMerged(a[p], b[p]).hash = Mixed
    <3>1. a[p] \in Entry /\ b[p] \in Entry
      BY Zenon, <2>1 DEF Tree, ModifyModify
    <3>2. TextMerged(a[p], b[p]) \in Entry
      BY Zenon, <3>1 DEF TextMerged, MaxTime, Entry
    <3>3. QED
      BY Zenon, <3>2 DEF RootServerAssumption, TextMerged
  <2>4. QED
    BY Zenon, <1>1, <2>1, <2>2, <2>3
<1>2. CASE p \notin text /\ p \in ByEntry(base, a, b, v1)
  BY Zenon, <1>2 DEF MergeTrees
<1>3. CASE p \notin text /\ p \notin ByEntry(base, a, b, v1)
  <2>1. v1 /\ DirChoice(base, a, b, PrefixOf[p]) # "entries"
    BY Zenon, <1>3 DEF ByEntry
  <2>2. m = CASE DirChoice(base, a, b, PrefixOf[p]) = "a" -> a[p]
              [] DirChoice(base, a, b, PrefixOf[p]) = "b" -> b[p]
              [] DirChoice(base, a, b, PrefixOf[p]) = "drop" -> Absent
    BY <1>3, Zenon DEF MergeTrees
  <2>3. CASE DirChoice(base, a, b, PrefixOf[p]) = "a"
    <3>1. b[p] = Absent \/ b[p] = base[p]
      BY Zenon, <2>1, <2>3, DirectoryChoice
    <3>2. QED
      BY <1>3, <2>1, <2>2, <2>3, <3>1, Zenon
  <2>4. CASE DirChoice(base, a, b, PrefixOf[p]) = "b"
    <3>1. a[p] = Absent \/ a[p] = base[p]
      BY Zenon, <2>1, <2>4, DirectoryChoice
    <3>2. QED
      BY <1>3, <2>1, <2>2, <2>4, <3>1, Zenon
  <2>5. CASE DirChoice(base, a, b, PrefixOf[p]) = "drop"
    <3>1. /\ a[p] = Absent \/ b[p] = Absent
          /\ a[p] = Absent \/ a[p] = base[p]
          /\ b[p] = Absent \/ b[p] = base[p]
      BY SMTT(30), <2>1, <2>5, DirectoryChoice
    <3>2. QED
      BY <1>3, <2>1, <2>2, <2>5, <3>1, Zenon
  <2>6. DirChoice(base, a, b, PrefixOf[p]) \in {"a", "b", "drop"}
    BY Zenon, <2>1 DEF DirChoice
  <2>7. QED
    BY Zenon, <2>3, <2>4, <2>5, <2>6
<1>4. QED
  BY Zenon, <1>1, <1>2, <1>3

\* A push that did not touch a file leaves the content the server has for it.
LEMMA UntouchedIsKept ==
    ASSUME RootServerAssumption,
           NEW base \in Tree, NEW a \in Tree, NEW b \in Tree, NEW v1 \in BOOLEAN,
           NEW text \in SUBSET TextTodo(base, a, b, v1), NEW p \in Path,
           SameContent(b[p], base[p]), a[p] # Absent
    PROVE  SameContent(MergeTrees(base, a, b, v1, text)[p], a[p])
  BY SMTT(30), MergedAt DEF SameContent, MergeEntry, ModifyModify

\* ChangesSurvive, for every merge.
LEMMA ChangesAlwaysSurvive ==
    ASSUME RootServerAssumption,
           NEW base \in Tree, NEW a \in Tree, NEW b \in Tree, NEW v1 \in BOOLEAN,
           NEW text \in SUBSET TextTodo(base, a, b, v1)
    PROVE  ChangesSurvive(base, a, b, v1, text)
<1> SUFFICES ASSUME NEW p \in Path
             PROVE  LET merged == MergeTrees(base, a, b, v1, text)
                    IN  /\ Changed(base, a, p) => Kept(merged, a, p)
                        /\ Changed(base, b, p) =>
                              Kept(merged, b, p) \/ p \in Conflicts(base, a, b, v1, text)
                        /\ base[p] # Absent /\ merged[p] = Absent => a[p] = Absent \/ b[p] = Absent
  BY Zenon DEF ChangesSurvive
<1> DEFINE merged == MergeTrees(base, a, b, v1, text)
<1>1. Changed(base, a, p) => Kept(merged, a, p)
  BY SMTT(30), MergedAt DEF Changed, Kept, SameContent, MergeEntry
<1>2. Changed(base, b, p) => Kept(merged, b, p) \/ p \in Conflicts(base, a, b, v1, text)
  <2>1. CASE p \notin text /\ p \in ByEntry(base, a, b, v1)
    BY SMTT(30), <2>1, MergedAt DEF Changed, Kept, SameContent, MergeEntry, Conflicts, TextTodo,
                          ModifyModify, AddAdd
  <2>2. CASE ~(p \notin text /\ p \in ByEntry(base, a, b, v1))
    BY SMTT(30), <2>2, MergedAt DEF Changed, Kept, SameContent
  <2>3. QED
    BY Zenon, <2>1, <2>2
<1>3. base[p] # Absent /\ merged[p] = Absent => a[p] = Absent \/ b[p] = Absent
  BY SMTT(30), MergedAt DEF MergeEntry
<1>4. QED
  BY Zenon, <1>1, <1>2, <1>3

\* EnginesAgreeOnKeptFiles, for every merge of the prefix engine.
LEMMA EnginesAlwaysAgree ==
    ASSUME RootServerAssumption,
           NEW base \in Tree, NEW a \in Tree, NEW b \in Tree,
           NEW text \in SUBSET TextTodo(base, a, b, TRUE)
    PROVE  EnginesAgreeOnKeptFiles(base, a, b, text)
<1> DEFINE Flat(p) == MergeTrees(base, a, b, FALSE, text)[p]
           Pref(p) == MergeTrees(base, a, b, TRUE, text)[p]
<1> SUFFICES ASSUME NEW p \in Path, Flat(p) # Absent PROVE SameContent(Pref(p), Flat(p))
  BY Zenon DEF EnginesAgreeOnKeptFiles
<1>1. text \in SUBSET TextTodo(base, a, b, FALSE)
  BY Zenon DEF TextTodo, ByEntry
<1>2. CASE p \in text
  BY Zenon, <1>2 DEF MergeTrees, SameContent
<1>3. CASE p \notin text
  <2>1. Flat(p) = MergeEntry(base[p], a[p], b[p])
    BY Zenon, <1>3 DEF MergeTrees, ByEntry
  <2>2. \/ Pref(p) = Flat(p)
        \/ Pref(p) = a[p] /\ (b[p] = Absent \/ b[p] = base[p])
        \/ Pref(p) = b[p] /\ (a[p] = Absent \/ a[p] = base[p])
        \/ /\ a[p] = Absent \/ b[p] = Absent
           /\ a[p] = Absent \/ a[p] = base[p]
           /\ b[p] = Absent \/ b[p] = base[p]
    <3>1. \A v1 \in BOOLEAN : v1 /\ text \in SUBSET TextTodo(base, a, b, v1) =>
             LET m == MergeTrees(base, a, b, v1, text)[p]
             IN  \/ m = MergeEntry(base[p], a[p], b[p])
                 \/ m = a[p] /\ (b[p] = Absent \/ b[p] = base[p])
                 \/ m = b[p] /\ (a[p] = Absent \/ a[p] = base[p])
                 \/ /\ a[p] = Absent \/ b[p] = Absent
                    /\ a[p] = Absent \/ a[p] = base[p]
                    /\ b[p] = Absent \/ b[p] = base[p]
      <4> SUFFICES ASSUME NEW v1 \in BOOLEAN, text \in SUBSET TextTodo(base, a, b, v1)
                   PROVE LET m == MergeTrees(base, a, b, v1, text)[p]
                         IN  \/ m = MergeEntry(base[p], a[p], b[p])
                             \/ m = a[p] /\ (b[p] = Absent \/ b[p] = base[p])
                             \/ m = b[p] /\ (a[p] = Absent \/ a[p] = base[p])
                             \/ /\ a[p] = Absent \/ b[p] = Absent
                                /\ a[p] = Absent \/ a[p] = base[p]
                                /\ b[p] = Absent \/ b[p] = base[p]
        BY Zenon
      <4> QED
        BY SMTT(30), <1>3, MergedAt
    <3>2. TRUE \in BOOLEAN
      BY Zenon
    <3>3. QED
      BY <2>1, <3>1, <3>2, Zenon
  <2>3. QED
    BY <2>1, <2>2, Zenon DEF SameContent, MergeEntry
<1>4. QED
  BY <1>2, <1>3, Zenon

\* merge_versioned_trees, for any three trees and either engine, loses no change of
\* either side without reporting it, and the prefix engine agrees with the flattened
\* one on every file the latter keeps.
THEOREM MergeKeepsBothSides ==
    ASSUME RootServerAssumption,
           NEW base \in Tree, NEW a \in Tree, NEW b \in Tree, NEW v1 \in BOOLEAN,
           NEW text \in SUBSET TextTodo(base, a, b, v1)
    PROVE  MergesKeepChanges(base, a, b, v1, text)
<1>1. ChangesSurvive(base, a, b, v1, text)
  BY Zenon, ChangesAlwaysSurvive
<1>2. v1 => EnginesAgreeOnKeptFiles(base, a, b, text)
  BY EnginesAlwaysAgree, Zenon
<1>3. QED
  BY Zenon, <1>1, <1>2 DEF MergesKeepChanges
-----------------------------------------------------------------------------
(* The inductive invariant of the handlers.                                *)

\* A handler past its arrival holds the vault lock, and the root it read is still the
\* current one.
HoldsLock ==
    \A s \in Slot : req[s] # Nothing /\ req[s].at # "arrived" =>
        lock = s /\ req[s].seen = root

\* The result of a handler is the pushed tree, over nothing or over its own parent, or
\* the merge of the pushed tree with the root it read.
Prepared(r) ==
    \/ r.seen = Nothing /\ r.result = r.id.tree
    \/ r.seen # Nothing /\ r.id.parent = r.seen /\ r.result = r.id.tree
    \/ /\ r.seen # Nothing /\ r.id.parent \in Tree
       /\ \E v1 \in BOOLEAN : \E text \in SUBSET TextTodo(r.id.parent, r.seen, r.id.tree, v1) :
             /\ r.result = MergeTrees(r.id.parent, r.seen, r.id.tree, v1, text)
             /\ r.conflicts = Conflicts(r.id.parent, r.seen, r.id.tree, v1, text)

\* What each stage of a handler rests on.
Founded(r) ==
    /\ r.kind = "commit" => r.sequence # 0
    /\ r.at = "merge" => r.seen # Nothing /\ r.id.parent \in Tree
    /\ r.at \in {"guard", "bypass", "publish"} => r.result \in Tree /\ Prepared(r)
    /\ r.at = "guard" => r.seen # Nothing
    /\ r.at = "bypass" => r.seen # Nothing /\ Triggered(r.seen, r.result)

Stages == \A s \in Slot : req[s] # Nothing => Founded(req[s])

HandlersInv == HandlersTypeOK /\ HoldsLock /\ Stages /\ BypassIsSpentOnce

LEMMA InitHandlersInv ==
    ASSUME RootServerAssumption, HandlersInit
    PROVE  HandlersInv
<1>0. unreported \in BOOLEAN
  BY Zenon DEF HandlersInit
<1>1. HandlersTypeOK /\ HoldsLock /\ Stages
  BY SMTT(30), <1>0 DEF HandlersInit, HandlersTypeOK, HoldsLock, Stages, RootServerAssumption
<1>2. BypassIsSpentOnce
  <2>1. {d \in Client : bypass[d] = "granted"} = {}
    BY Zenon DEF HandlersInit
  <2>2. {s \in Slot : Holds(s, "publish") /\ req[s].seen # Nothing
                      /\ Triggered(req[s].seen, req[s].result)} = {}
    BY Zenon DEF HandlersInit, Holds
  <2>3. QED
    BY SMTT(30), <2>1, <2>2, FS_EmptySet DEF BypassIsSpentOnce, HandlersInit
<1>3. QED
  BY Zenon, <1>1, <1>2 DEF HandlersInv

\* Devices make identities from trees of the history.
LEMMA IdsAreIds ==
    ASSUME RootServerAssumption, HandlersTypeOK, NEW id \in Ids
    PROVE  id \in Id
<1>1. PICK parent \in roots \cup {Nothing}, p \in Path,
           e \in [hash : Hash, mtime : MTime] \cup {Absent} :
              id = [parent |-> parent, tree |-> [BaseTree(parent) EXCEPT ![p] = e]]
  BY SMTT(30) DEF Ids, Edits
<1>2. BaseTree(parent) \in Tree /\ parent \in Tree \cup {Nothing}
  BY Zenon DEF BaseTree, HandlersTypeOK, Tree, EmptyTree
<1>3. e \in Entry \cup {Absent}
  BY Zenon DEF Entry
<1>4. [BaseTree(parent) EXCEPT ![p] = e] \in Tree
  BY Zenon, <1>2, <1>3 DEF Tree
<1>5. QED
  BY Zenon, <1>1, <1>2, <1>4 DEF Id

LEMMA HandlersTypeStep ==
    ASSUME RootServerAssumption, HandlersInv, HandlersNext
    PROVE  HandlersTypeOK'
<1> USE DEF RootServerAssumption
<1>0. HandlersTypeOK /\ Stages
  BY Zenon DEF HandlersInv
<1>1. ASSUME NEW s \in Slot, NEW kind \in {"commit", "legacy"}, NEW d \in Client,
             NEW seq \in 0..SequenceLimit, NEW inc \in Nat, NEW id \in Ids,
             Arrive(s, kind, d, seq, inc, id)
      PROVE  HandlersTypeOK'
  <2>1. id \in Id
    BY Zenon, <1>0, IdsAreIds
  <2>2. [kind |-> kind, device |-> d, sequence |-> seq, incarnation |-> inc,
         id |-> id, at |-> "arrived", seen |-> Nothing, result |-> Nothing, conflicts |-> {}] \in Request
    BY Zenon, <2>1 DEF Request
  <2>3. QED
    BY SMTT(30), <1>0, <1>1, <2>2 DEF HandlersTypeOK, Arrive, server
<1>2. ASSUME NEW s \in Slot, Acquire(s) \/ AnswerFromReceipt(s) \/ Refuse(s) \/ Disconnect(s)
      PROVE  HandlersTypeOK'
  BY SMTT(30), <1>0, <1>2 DEF HandlersTypeOK, Acquire, AnswerFromReceipt, Refuse, Disconnect, Finish, server, Request, Awaits
<1>3. ASSUME NEW s \in Slot, FirstPush(s) \/ FastForward(s) \/ Diverge(s) \/ GuardScan(s) \/ ClaimBypass(s)
      PROVE  HandlersTypeOK'
  BY SMTT(30), <1>0, <1>3 DEF HandlersTypeOK, FirstPush, FastForward, Diverge, GuardScan, ClaimBypass, ConsumeBypass,
                    Finish, Holds, server, Request, Awaits, Id
<1>4. ASSUME NEW s \in Slot, Merge(s)
      PROVE  HandlersTypeOK'
  <2>1. PICK text \in SUBSET TextTodo(req[s].id.parent, req[s].seen, req[s].id.tree, TRUE) :
          req' = [req EXCEPT ![s].at = "guard",
                    ![s].result = MergeTrees(req[s].id.parent, req[s].seen, req[s].id.tree, TRUE, text),
                    ![s].conflicts = Conflicts(req[s].id.parent, req[s].seen, req[s].id.tree, TRUE, text)]
    BY <1>4, Zenon DEF Merge
  <2>2. req[s] \in Request /\ req[s].seen \in Tree /\ req[s].id.parent \in Tree /\ req[s].id.tree \in Tree
    BY Zenon, <1>0, <1>4 DEF Merge, Holds, HandlersTypeOK, Stages, Founded, Request, Id
  <2>3. MergeTrees(req[s].id.parent, req[s].seen, req[s].id.tree, TRUE, text) \in Tree
    BY <2>2, MergeIsTree, Zenon
  <2>4. Conflicts(req[s].id.parent, req[s].seen, req[s].id.tree, TRUE, text) \in SUBSET Path
    BY Zenon DEF Conflicts, TextTodo, ByEntry
  <2>5. req' \in [Slot -> Request \cup {Nothing}]
    BY <1>0, <2>1, <2>2, <2>3, <2>4, Zenon DEF HandlersTypeOK, Request, Awaits
  <2>6. QED
    BY <1>0, <1>4, <2>5, Zenon DEF Merge, HandlersTypeOK, server
<1>5. ASSUME NEW s \in Slot, NEW reported \in BOOLEAN, Publish(s, reported)
      PROVE  HandlersTypeOK'
  <2>1. /\ req[s] \in Request /\ req[s].result \in Tree /\ req[s].id.tree \in Tree
        /\ req[s].kind = "commit" => req[s].sequence # 0
    BY Zenon, <1>0, <1>5 DEF Publish, Holds, HandlersTypeOK, Stages, Founded, Request, Id
  <2>2. root' \in Tree /\ roots' \subseteq Tree /\ notified' \in Tree \cup {Nothing}
    BY Zenon, <1>0, <1>5, <2>1 DEF Publish, HandlersTypeOK
  <2>3. receipts' \in [Client -> PushReceipt \cup {Nothing}]
    <3>1. CASE req[s].kind = "legacy"
      BY Zenon, <1>0, <1>5, <3>1 DEF Publish, HandlersTypeOK
    <3>2. CASE req[s].kind = "commit"
      <4>1. req[s].device \in Client /\ req[s].sequence \in 1..SequenceLimit
        BY SMTT(30), <2>1, <3>2 DEF Request
      <4>2. [sequence |-> req[s].sequence, id |-> req[s].id, cancelled |-> FALSE,
             root |-> req[s].result, conflicts |-> req[s].conflicts] \in PushReceipt
        BY Zenon, <2>1, <4>1 DEF PushReceipt, Request
      <4>3. QED
        BY Zenon, <1>0, <1>5, <3>2, <4>1, <4>2 DEF Publish, HandlersTypeOK
    <3>3. QED
      BY Zenon, <2>1, <3>1, <3>2 DEF Request
  <2>4. overrides' \in Nat /\ unreported' \in BOOLEAN
    BY SMTT(30), <1>0, <1>5 DEF Publish, HandlersTypeOK
  <2>5. req' \in [Slot -> Request \cup {Nothing}] /\ lock' \in Slot \cup {Nothing}
    BY Zenon, <1>0, <1>5 DEF Publish, Finish, HandlersTypeOK
  <2>6. QED
    BY Zenon, <1>0, <1>5, <2>2, <2>3, <2>4, <2>5 DEF Publish, HandlersTypeOK
<1>6. ASSUME NEW s \in Slot, FailPublish(s)
      PROVE  HandlersTypeOK'
  <2>1. req[s].result \in Tree /\ req[s].id.tree \in Tree
    BY Zenon, <1>0, <1>6 DEF FailPublish, Holds, HandlersTypeOK, Stages, Founded, Request, Id
  <2>2. QED
    BY Zenon, <1>0, <1>6, <2>1 DEF FailPublish, Finish, HandlersTypeOK
<1>7. ASSUME NEW d \in Client, DetachedClaim(d) \/ GrantBypass(d) \/ ExpireBypass(d)
      PROVE  HandlersTypeOK'
  BY SMTT(30), <1>0, <1>7 DEF HandlersTypeOK, DetachedClaim, GrantBypass, ExpireBypass, ConsumeBypass, server
<1>8. ASSUME NEW d \in Client, NEW seq \in 1..SequenceLimit, NEW inc, NEW id \in Ids,
             Cancel(d, seq, inc, id)
      PROVE  HandlersTypeOK'
  <2>1. id \in Id
    BY Zenon, <1>0, IdsAreIds
  <2>2. [sequence |-> seq, id |-> id, cancelled |-> TRUE, root |-> Nothing, conflicts |-> {}] \in PushReceipt
    BY Zenon, <2>1 DEF PushReceipt
  <2>3. QED
    BY SMTT(30), <1>0, <1>8, <2>2 DEF HandlersTypeOK, Cancel
<1>9. ASSUME NEW target \in roots, RollBack(target)
      PROVE  HandlersTypeOK'
  <2>1. unreported' \in BOOLEAN
    BY <1>9, Zenon DEF RollBack
  <2>2. QED
    BY SMTT(30), <1>0, <1>9, <2>1 DEF HandlersTypeOK, RollBack
<1>10. CASE Restart
  <2>1. unreported' \in BOOLEAN
    BY <1>10, Zenon DEF Restart
  <2>2. QED
    BY SMTT(30), <1>0, <1>10, <2>1 DEF HandlersTypeOK, Restart
<1>11. \A inc \in 0..incarnation : inc \in Nat
  BY SMTT(30), <1>0 DEF HandlersTypeOK
<1>12. \A seq \in 1..SequenceLimit : seq \in 0..SequenceLimit
  BY SMTT(30)
<1>13. 0 \in 0..SequenceLimit
  BY SMTT(30)
<1>14. QED
  BY Zenon, <1>1, <1>2, <1>3, <1>4, <1>5, <1>6, <1>7, <1>8, <1>9, <1>10, <1>11, <1>12, <1>13 DEF HandlersNext

LEMMA LockStep ==
    ASSUME RootServerAssumption, HandlersInv, HandlersNext
    PROVE  HoldsLock'
<1>0. HandlersTypeOK /\ HoldsLock
  BY Zenon DEF HandlersInv
<1> USE <1>0 DEF RootServerAssumption, HandlersTypeOK, HoldsLock
<1>1. ASSUME NEW s \in Slot, NEW kind, NEW d, NEW seq, NEW inc, NEW id,
             Arrive(s, kind, d, seq, inc, id)
      PROVE  HoldsLock'
  BY Zenon, <1>1 DEF Arrive, server
<1>2. ASSUME NEW s \in Slot, Acquire(s) \/ AnswerFromReceipt(s) \/ Refuse(s) \/ Disconnect(s)
      PROVE  HoldsLock'
  BY SMTT(30), <1>2 DEF Acquire, AnswerFromReceipt, Refuse, Disconnect, Finish, server, Request
<1>3. ASSUME NEW s \in Slot, FirstPush(s) \/ FastForward(s) \/ Diverge(s) \/ Merge(s) \/ GuardScan(s)
      PROVE  HoldsLock'
  <2>1. CASE FirstPush(s) \/ FastForward(s) \/ Diverge(s)
    BY SMTT(30), <2>1 DEF FirstPush, FastForward, Diverge, Holds, server, Request
  <2>2. CASE Merge(s)
    <3>1. PICK result, conflicts :
            req' = [req EXCEPT ![s].at = "guard", ![s].result = result, ![s].conflicts = conflicts]
      BY <2>2, Zenon DEF Merge
    <3>2. req[s] # Nothing /\ req[s].at = "merge" /\ UNCHANGED <<root, lock>>
      BY Zenon, <2>2 DEF Merge, Holds, server
    <3>3. lock = s /\ req[s].seen = root /\ req'[s].seen = req[s].seen
      BY SMTT(30), <3>1, <3>2 DEF Request
    <3>4. \A t \in Slot : t # s => req'[t] = req[t]
      BY Zenon, <3>1
    <3>5. QED
      BY Zenon, <3>2, <3>3, <3>4
  <2>3. CASE GuardScan(s)
    BY SMTT(30), <2>3 DEF GuardScan, Holds, server, Request
  <2>4. QED
    BY Zenon, <1>3, <2>1, <2>2, <2>3
<1>4. ASSUME NEW s \in Slot, ClaimBypass(s)
      PROVE  HoldsLock'
  BY SMTT(30), <1>4 DEF ClaimBypass, Finish, Holds, server, Request
<1>5. ASSUME NEW s \in Slot, NEW reported, Publish(s, reported)
      PROVE  HoldsLock'
  BY Zenon, <1>5 DEF Publish, Finish, Holds, Request
<1>6. ASSUME NEW s \in Slot, FailPublish(s)
      PROVE  HoldsLock'
  BY Zenon, <1>6 DEF FailPublish, Finish, Holds, Request
<1>7. ASSUME NEW d \in Client, DetachedClaim(d) \/ GrantBypass(d) \/ ExpireBypass(d)
      PROVE  HoldsLock'
  BY SMTT(30), <1>7 DEF DetachedClaim, GrantBypass, ExpireBypass, server
<1>8. ASSUME NEW d, NEW seq, NEW inc, NEW id, Cancel(d, seq, inc, id)
      PROVE  HoldsLock'
  BY Zenon, <1>8 DEF Cancel
<1>9. ASSUME NEW target, RollBack(target)
      PROVE  HoldsLock'
  BY Zenon, <1>9 DEF RollBack
<1>10. CASE Restart
  BY Zenon, <1>10 DEF Restart
<1>11. QED
  BY Zenon, <1>1, <1>2, <1>3, <1>4, <1>5, <1>6, <1>7, <1>8, <1>9, <1>10 DEF HandlersNext

\* A step that changes one handler leaves the others where they were.
LEMMA StagesByHandler ==
    ASSUME HandlersTypeOK, Stages, NEW s \in Slot,
           \A t \in Slot : t # s => req'[t] = req[t],
           req'[s] = Nothing \/ Founded(req'[s])
    PROVE  Stages'
  BY Zenon DEF Stages

LEMMA StagesStep ==
    ASSUME RootServerAssumption, HandlersInv, HandlersNext
    PROVE  Stages'
<1>0. HandlersTypeOK /\ Stages /\ req \in [Slot -> Request \cup {Nothing}]
  BY Zenon DEF HandlersInv, HandlersTypeOK
<1> USE DEF RootServerAssumption
<1>1. ASSUME NEW s \in Slot, NEW kind, NEW d, NEW seq, NEW inc, NEW id,
             Arrive(s, kind, d, seq, inc, id), kind = "commit" => seq # 0
      PROVE  Stages'
  BY Zenon, <1>0, <1>1, StagesByHandler DEF Arrive, Founded
<1>2. ASSUME NEW s \in Slot, AnswerFromReceipt(s) \/ Refuse(s) \/ Disconnect(s) \/ FailPublish(s)
      PROVE  Stages'
  BY Zenon, <1>0, <1>2, StagesByHandler DEF AnswerFromReceipt, Refuse, Disconnect, FailPublish, Finish
<1>3. ASSUME NEW s \in Slot, Acquire(s) \/ FirstPush(s) \/ FastForward(s) \/ Diverge(s)
      PROVE  Stages'
  <2>1. Founded(req[s]) /\ req[s] \in Request
    BY Zenon, <1>0, <1>3 DEF Acquire, FirstPush, FastForward, Diverge, Holds, Stages
  <2>2. Founded(req'[s])
    BY SMTT(30), <1>0, <1>3, <2>1 DEF Acquire, FirstPush, FastForward, Diverge, Holds, Founded, Prepared, Request, Id
  <2>3. QED
    BY Zenon, <1>0, <1>3, <2>2, StagesByHandler DEF Acquire, FirstPush, FastForward, Diverge
<1>4. ASSUME NEW s \in Slot, Merge(s)
      PROVE  Stages'
  <2>1. PICK text \in SUBSET TextTodo(req[s].id.parent, req[s].seen, req[s].id.tree, TRUE) :
          req' = [req EXCEPT ![s].at = "guard",
                    ![s].result = MergeTrees(req[s].id.parent, req[s].seen, req[s].id.tree, TRUE, text),
                    ![s].conflicts = Conflicts(req[s].id.parent, req[s].seen, req[s].id.tree, TRUE, text)]
    BY <1>4, Zenon DEF Merge
  <2>2. /\ req[s] \in Request /\ Founded(req[s])
        /\ req[s].seen \in Tree /\ req[s].id.parent \in Tree /\ req[s].id.tree \in Tree
    BY Zenon, <1>0, <1>4 DEF Merge, Holds, Stages, Founded, Request, Id
  <2>3. /\ req'[s].result = MergeTrees(req[s].id.parent, req[s].seen, req[s].id.tree, TRUE, text)
        /\ req'[s].conflicts = Conflicts(req[s].id.parent, req[s].seen, req[s].id.tree, TRUE, text)
        /\ req'[s].at = "guard" /\ req'[s].seen = req[s].seen /\ req'[s].id = req[s].id
        /\ req'[s].kind = req[s].kind /\ req'[s].sequence = req[s].sequence
    BY Zenon, <1>0, <2>1, <2>2 DEF Request
  <2>4. req'[s].result \in Tree
    BY <2>2, <2>3, MergeIsTree, Zenon
  <2>5. Prepared(req'[s])
    <3>1. req'[s].seen # Nothing /\ req'[s].id.parent \in Tree
      BY Zenon, <2>2, <2>3
    <3>2. \E v1 \in BOOLEAN : \E t \in SUBSET TextTodo(req'[s].id.parent, req'[s].seen, req'[s].id.tree, v1) :
             /\ req'[s].result = MergeTrees(req'[s].id.parent, req'[s].seen, req'[s].id.tree, v1, t)
             /\ req'[s].conflicts = Conflicts(req'[s].id.parent, req'[s].seen, req'[s].id.tree, v1, t)
      BY <2>3, Zenon
    <3>3. QED
      BY <3>1, <3>2, Zenon DEF Prepared
  <2>6. Founded(req'[s])
    BY <2>2, <2>3, <2>4, <2>5, Zenon DEF Founded
  <2>7. QED
    BY <1>0, <2>1, <2>6, StagesByHandler, Zenon
<1>5. ASSUME NEW s \in Slot, GuardScan(s) \/ (ClaimBypass(s) /\ req'[s] # Nothing)
      PROVE  Stages'
  <2>1. Founded(req[s]) /\ req[s] \in Request /\ req[s].at \in {"guard", "bypass"}
    BY Zenon, <1>0, <1>5 DEF GuardScan, ClaimBypass, Holds, Stages
  <2>2. /\ req'[s] = [req[s] EXCEPT !.at = req'[s].at]
        /\ req'[s].at \in {"bypass", "publish"}
        /\ req'[s].at = "bypass" => req[s].at = "guard" /\ Triggered(req[s].seen, req[s].result)
    BY SMTT(30), <1>0, <1>5, <2>1 DEF GuardScan, ClaimBypass, Holds, Finish, Request
  <2>3. /\ req'[s].seen = req[s].seen /\ req'[s].id = req[s].id /\ req'[s].result = req[s].result
        /\ req'[s].conflicts = req[s].conflicts
        /\ req'[s].kind = req[s].kind /\ req'[s].sequence = req[s].sequence
    BY Zenon, <2>1, <2>2 DEF Request
  <2>4. Prepared(req'[s])
    BY Zenon, <2>1, <2>3 DEF Founded, Prepared
  <2>5. Founded(req'[s])
    BY Zenon, <2>1, <2>2, <2>3, <2>4 DEF Founded
  <2>6. QED
    BY Zenon, <1>0, <1>5, <2>5, StagesByHandler DEF GuardScan, ClaimBypass, Finish
<1>6. ASSUME NEW s \in Slot, ClaimBypass(s), req'[s] = Nothing
      PROVE  Stages'
  BY Zenon, <1>0, <1>6, StagesByHandler DEF ClaimBypass, Finish
<1>7. ASSUME NEW s \in Slot, NEW reported, Publish(s, reported)
      PROVE  Stages'
  BY <1>0, <1>7, StagesByHandler, Zenon DEF Publish, Finish
<1>8. ASSUME UNCHANGED req \/ Restart
      PROVE  Stages'
  BY Zenon, <1>0, <1>8 DEF Stages, Restart
<1>9. /\ \A d : DetachedClaim(d) \/ GrantBypass(d) \/ ExpireBypass(d) => UNCHANGED req
      /\ \A d, seq, inc, id : Cancel(d, seq, inc, id) => UNCHANGED req
      /\ \A target : RollBack(target) => UNCHANGED req
  BY Zenon DEF DetachedClaim, GrantBypass, ExpireBypass, Cancel, RollBack
<1>10. \A seq \in 1..SequenceLimit : seq # 0
  BY SMTT(30)
<1>11. QED
  BY Zenon, <1>1, <1>2, <1>3, <1>4, <1>5, <1>6, <1>7, <1>8, <1>9, <1>10 DEF HandlersNext

\* The two places a deletion bypass can be in before it is spent: the marker of a
\* device, and a handler that claimed it and has not published yet.
Passing(r) == r # Nothing /\ r.at = "publish" /\ r.seen # Nothing /\ Triggered(r.seen, r.result)
Granted == {d \in Client : bypass[d] = "granted"}
Claimed == {s \in Slot : Passing(req[s])}

WithinBudget ==
    GuardMode = "enforce" => overrides + Cardinality(Granted) + Cardinality(Claimed) <= grants

LEMMA Budget == (BypassIsSpentOnce <=> WithinBudget) /\ (BypassIsSpentOnce' <=> WithinBudget')
<1>1. Claimed = {s \in Slot : Holds(s, "publish") /\ req[s].seen # Nothing
                              /\ Triggered(req[s].seen, req[s].result)}
  BY Zenon DEF Claimed, Passing, Holds
<1>2. Claimed' = {s \in Slot : Holds(s, "publish")' /\ req'[s].seen # Nothing
                               /\ Triggered(req'[s].seen, req'[s].result)}
  BY Zenon DEF Claimed, Passing, Holds
<1>3. QED
  BY Zenon, <1>1, <1>2 DEF BypassIsSpentOnce, WithinBudget, Granted

LEMMA FiniteBudget ==
    ASSUME RootServerAssumption
    PROVE  /\ \A G \in SUBSET Client : IsFiniteSet(G) /\ Cardinality(G) \in Nat
           /\ \A C \in SUBSET Slot : IsFiniteSet(C) /\ Cardinality(C) \in Nat
  BY Zenon, FS_Subset, FS_CardinalityType DEF RootServerAssumption

\* A step that hands no bypass out and lets no further handler through keeps within
\* the budget.
LEMMA BudgetShrinks ==
    ASSUME RootServerAssumption, HandlersTypeOK, HandlersTypeOK', BypassIsSpentOnce,
           UNCHANGED <<overrides, grants>>,
           \A d \in Client : bypass'[d] = "granted" => bypass[d] = "granted",
           \A s \in Slot : Passing(req'[s]) => Passing(req[s])
    PROVE  BypassIsSpentOnce'
<1>1. Granted' \in SUBSET Granted /\ Claimed' \in SUBSET Claimed
  BY Zenon DEF Granted, Claimed
<1>2. Granted \in SUBSET Client /\ Claimed \in SUBSET Slot
  BY Zenon DEF Granted, Claimed
<1>3. IsFiniteSet(Granted) /\ IsFiniteSet(Claimed)
  BY Zenon, <1>2, FiniteBudget
<1>4. Cardinality(Granted') <= Cardinality(Granted) /\ Cardinality(Claimed') <= Cardinality(Claimed)
  BY Zenon, <1>1, <1>3, FS_Subset
<1>5. /\ Cardinality(Granted) \in Nat /\ Cardinality(Claimed) \in Nat
      /\ Cardinality(Granted') \in Nat /\ Cardinality(Claimed') \in Nat
  <2>1. Granted' \in SUBSET Client /\ Claimed' \in SUBSET Slot
    BY Zenon, <1>1, <1>2
  <2>2. QED
    BY Zenon, <1>2, <2>1, FiniteBudget
<1>6. WithinBudget'
  BY SMTT(30), <1>4, <1>5, Budget DEF WithinBudget, HandlersTypeOK
<1>7. QED
  BY Zenon, <1>6, Budget

LEMMA OneMore ==
    ASSUME NEW S, IsFiniteSet(S), NEW x, NEW T \in SUBSET (S \cup {x})
    PROVE  Cardinality(T) \in Nat /\ Cardinality(S) \in Nat /\ Cardinality(T) <= Cardinality(S) + 1
<1>1. IsFiniteSet(S \cup {x}) /\ Cardinality(S \cup {x}) \in {Cardinality(S), Cardinality(S) + 1}
  BY Zenon, FS_AddElement
<1>2. IsFiniteSet(T) /\ Cardinality(T) <= Cardinality(S \cup {x})
  BY Zenon, <1>1, FS_Subset
<1>3. Cardinality(T) \in Nat /\ Cardinality(S) \in Nat
  BY Zenon, <1>2, FS_CardinalityType
<1>4. QED
  BY SMTT(30), <1>1, <1>2, <1>3

LEMMA OneLess ==
    ASSUME NEW S, IsFiniteSet(S), NEW x \in S, NEW T \in SUBSET (S \ {x})
    PROVE  Cardinality(T) \in Nat /\ Cardinality(S) \in Nat /\ Cardinality(T) <= Cardinality(S) - 1
<1>1. IsFiniteSet(S \ {x}) /\ Cardinality(S \ {x}) = Cardinality(S) - 1
  BY Zenon, FS_RemoveElement
<1>2. IsFiniteSet(T) /\ Cardinality(T) <= Cardinality(S \ {x})
  BY Zenon, <1>1, FS_Subset
<1>3. Cardinality(T) \in Nat /\ Cardinality(S) \in Nat
  BY Zenon, <1>2, FS_CardinalityType
<1>4. QED
  BY Zenon, <1>1, <1>2, <1>3

LEMMA BypassStep ==
    ASSUME RootServerAssumption, HandlersInv, HandlersNext
    PROVE  BypassIsSpentOnce'
<1>0. HandlersTypeOK /\ HandlersTypeOK' /\ HoldsLock /\ Stages /\ BypassIsSpentOnce
  BY Zenon, HandlersTypeStep DEF HandlersInv
<1>1. bypass \in [Client -> {"none", "granted", "expired"}] /\ req \in [Slot -> Request \cup {Nothing}]
  BY Zenon, <1>0 DEF HandlersTypeOK
<1>2. ASSUME NEW s \in Slot, NEW kind, NEW d, NEW seq, NEW inc, NEW id,
             Arrive(s, kind, d, seq, inc, id)
      PROVE  BypassIsSpentOnce'
  <2>1. \A t \in Slot : Passing(req'[t]) => Passing(req[t])
    BY Zenon, <1>1, <1>2 DEF Arrive, Passing
  <2>2. QED
    BY Zenon, <1>0, <1>2, <2>1, BudgetShrinks DEF Arrive, server
<1>3. ASSUME NEW s \in Slot,
             AnswerFromReceipt(s) \/ Refuse(s) \/ Disconnect(s) \/ FailPublish(s)
      PROVE  BypassIsSpentOnce'
  <2>1. \A t \in Slot : Passing(req'[t]) => Passing(req[t])
    BY Zenon, <1>1, <1>3 DEF AnswerFromReceipt, Refuse, Disconnect, FailPublish, Finish, Passing
  <2>2. QED
    BY Zenon, <1>0, <1>3, <2>1, BudgetShrinks DEF AnswerFromReceipt, Refuse, Disconnect, FailPublish, server
<1>4. ASSUME NEW s \in Slot, Acquire(s) \/ FirstPush(s) \/ FastForward(s) \/ Diverge(s) \/ Merge(s)
      PROVE  BypassIsSpentOnce'
  <2>1. req[s] \in Request /\ (\A t \in Slot : t # s => req'[t] = req[t])
    BY <1>1, <1>4, Zenon DEF Acquire, FirstPush, FastForward, Diverge, Merge, Holds
  <2>2. req'[s].at # "publish" \/ req'[s].seen = Nothing
    <3>1. CASE Merge(s)
      <4>1. PICK result, conflicts :
              req' = [req EXCEPT ![s].at = "guard", ![s].result = result, ![s].conflicts = conflicts]
        BY <3>1, Zenon DEF Merge
      <4>2. QED
        BY Zenon, <1>1, <2>1, <4>1 DEF Request
    <3>2. CASE Acquire(s) \/ FirstPush(s) \/ FastForward(s) \/ Diverge(s)
      BY SMTT(30), <1>1, <2>1, <3>2 DEF Acquire, FirstPush, FastForward, Diverge, Request
    <3>3. QED
      BY Zenon, <1>4, <3>1, <3>2
  <2>3. \A t \in Slot : Passing(req'[t]) => Passing(req[t])
    BY Zenon, <2>1, <2>2 DEF Passing
  <2>4. UNCHANGED <<overrides, grants, bypass>>
    BY <1>4, Zenon DEF Acquire, FirstPush, FastForward, Diverge, Merge, server
  <2>5. QED
    BY Zenon, <1>0, <2>3, <2>4, BudgetShrinks
<1>5. ASSUME NEW s \in Slot, GuardScan(s)
      PROVE  BypassIsSpentOnce'
  <2>0. UNCHANGED <<overrides, grants, bypass>>
    BY Zenon, <1>5 DEF GuardScan, server
  <2>1. CASE GuardMode = "enforce"
    <3>1. \A t \in Slot : Passing(req'[t]) => Passing(req[t])
      <4>1. req[s] \in Request /\ (\A t \in Slot : t # s => req'[t] = req[t])
        BY Zenon, <1>1, <1>5 DEF GuardScan, Holds
      <4>2. /\ req'[s].seen = req[s].seen /\ req'[s].result = req[s].result
            /\ req'[s].at = "publish" => ~Triggered(req[s].seen, req[s].result)
        BY Zenon, <1>1, <1>5, <2>1, <4>1 DEF GuardScan, Request
      <4>3. QED
        BY Zenon, <4>1, <4>2 DEF Passing
    <3>2. QED
      BY Zenon, <1>0, <2>0, <3>1, BudgetShrinks
  <2>2. CASE GuardMode # "enforce"
    BY Zenon, <2>2 DEF BypassIsSpentOnce
  <2>3. QED
    BY Zenon, <2>1, <2>2
<1>6. IsFiniteSet(Granted) /\ IsFiniteSet(Claimed)
  BY Zenon, FiniteBudget DEF Granted, Claimed
<1>7. ASSUME NEW s \in Slot, ClaimBypass(s)
      PROVE  BypassIsSpentOnce'
  <2>0. /\ UNCHANGED <<overrides, grants>> /\ req[s] \in Request /\ req[s].device \in Client
        /\ bypass' = [bypass EXCEPT ![req[s].device] = "none"]
        /\ \A t \in Slot : t # s => req'[t] = req[t]
    BY Zenon, <1>1, <1>7 DEF ClaimBypass, ConsumeBypass, Finish, Holds, server, Request
  <2>1. CASE bypass[req[s].device] = "granted"
    <3>1. req[s].device \in Granted /\ Granted' \in SUBSET (Granted \ {req[s].device})
      BY Zenon, <1>1, <2>0, <2>1 DEF Granted
    <3>2. Claimed' \in SUBSET (Claimed \cup {s})
      BY Zenon, <2>0 DEF Claimed
    <3>3. /\ Cardinality(Granted') \in Nat /\ Cardinality(Granted) \in Nat
          /\ Cardinality(Granted') <= Cardinality(Granted) - 1
      BY Zenon, <1>6, <3>1, OneLess
    <3>4. /\ Cardinality(Claimed') \in Nat /\ Cardinality(Claimed) \in Nat
          /\ Cardinality(Claimed') <= Cardinality(Claimed) + 1
      BY Zenon, <1>6, <3>2, OneMore
    <3>5. WithinBudget'
      BY SMTT(30), <1>0, <2>0, <3>3, <3>4, Budget DEF WithinBudget, HandlersTypeOK
    <3>6. QED
      BY Zenon, <3>5, Budget
  <2>2. CASE bypass[req[s].device] # "granted"
    <3>1. req'[s] = Nothing
      BY Zenon, <1>1, <1>7, <2>2 DEF ClaimBypass, Finish
    <3>2. /\ \A t \in Slot : Passing(req'[t]) => Passing(req[t])
          /\ \A d \in Client : bypass'[d] = "granted" => bypass[d] = "granted"
      BY Zenon, <1>1, <2>0, <3>1 DEF Passing
    <3>3. QED
      BY Zenon, <1>0, <2>0, <3>2, BudgetShrinks
  <2>3. QED
    BY Zenon, <2>1, <2>2
<1>8. ASSUME NEW s \in Slot, NEW reported, Publish(s, reported)
      PROVE  BypassIsSpentOnce'
  <2>0. /\ UNCHANGED <<grants, bypass>> /\ req[s] # Nothing /\ req[s].at = "publish" /\ req[s].seen = root
        /\ req'[s] = Nothing /\ (\A t \in Slot : t # s => req'[t] = req[t])
    BY Zenon, <1>0, <1>1, <1>8 DEF Publish, Finish, Holds, HoldsLock
  <2>1. CASE root # Nothing /\ Triggered(root, req[s].result)
    <3>1. overrides' = overrides + 1
      BY Zenon, <1>8, <2>1 DEF Publish
    <3>2. s \in Claimed /\ Claimed' \in SUBSET (Claimed \ {s})
      BY Zenon, <2>0, <2>1 DEF Claimed, Passing
    <3>3. /\ Cardinality(Claimed') \in Nat /\ Cardinality(Claimed) \in Nat
          /\ Cardinality(Claimed') <= Cardinality(Claimed) - 1
      BY Zenon, <1>6, <3>2, OneLess
    <3>4. Granted' = Granted /\ Cardinality(Granted) \in Nat
      BY Zenon, <1>6, <2>0, FS_CardinalityType DEF Granted
    <3>5. WithinBudget'
      BY SMTT(30), <1>0, <2>0, <3>1, <3>3, <3>4, Budget DEF WithinBudget, HandlersTypeOK
    <3>6. QED
      BY Zenon, <3>5, Budget
  <2>2. CASE ~(root # Nothing /\ Triggered(root, req[s].result))
    <3>1. overrides' = overrides
      BY Zenon, <1>8, <2>2 DEF Publish
    <3>2. \A t \in Slot : Passing(req'[t]) => Passing(req[t])
      BY Zenon, <2>0 DEF Passing
    <3>3. QED
      BY Zenon, <1>0, <2>0, <3>1, <3>2, BudgetShrinks
  <2>3. QED
    BY Zenon, <2>1, <2>2
<1>9. ASSUME NEW d \in Client, DetachedClaim(d) \/ ExpireBypass(d)
      PROVE  BypassIsSpentOnce'
  <2>1. \A e \in Client : bypass'[e] = "granted" => bypass[e] = "granted"
    BY Zenon, <1>1, <1>9 DEF DetachedClaim, ExpireBypass, ConsumeBypass
  <2>2. QED
    BY Zenon, <1>0, <1>9, <2>1, BudgetShrinks DEF DetachedClaim, ExpireBypass, server
<1>10. ASSUME NEW d, NEW seq, NEW inc, NEW id, Cancel(d, seq, inc, id)
       PROVE  BypassIsSpentOnce'
  BY Zenon, <1>0, <1>10, BudgetShrinks DEF Cancel
<1>11. ASSUME NEW target, RollBack(target)
       PROVE  BypassIsSpentOnce'
  BY Zenon, <1>0, <1>11, BudgetShrinks DEF RollBack
<1>12. CASE Restart
  <2>1. \A t \in Slot : ~Passing(req'[t])
    BY Zenon, <1>12 DEF Restart, Passing
  <2>2. UNCHANGED <<overrides, grants, bypass>>
    BY Zenon, <1>12 DEF Restart
  <2>3. QED
    BY Zenon, <1>0, <2>1, <2>2, BudgetShrinks
<1>13. ASSUME NEW d \in Client, GrantBypass(d)
       PROVE  BypassIsSpentOnce'
  <2>1. UNCHANGED <<overrides, req>> /\ grants' = grants + 1
    BY Zenon, <1>13 DEF GrantBypass, server
  <2>2. Granted' \in SUBSET (Granted \cup {d}) /\ Claimed' = Claimed
    BY Zenon, <1>1, <1>13, <2>1 DEF GrantBypass, Granted, Claimed
  <2>3. /\ Cardinality(Granted') \in Nat /\ Cardinality(Granted) \in Nat
        /\ Cardinality(Granted') <= Cardinality(Granted) + 1
        /\ Cardinality(Claimed) \in Nat
    BY <1>6, <2>2, OneMore, FS_CardinalityType, Zenon
  <2>4. WithinBudget'
    BY SMTT(30), <1>0, <2>1, <2>2, <2>3, Budget DEF WithinBudget, HandlersTypeOK
  <2>5. QED
    BY Zenon, <2>4, Budget
<1>14. QED
  BY Zenon, <1>2, <1>3, <1>4, <1>5, <1>7, <1>8, <1>9, <1>10, <1>11, <1>12, <1>13 DEF HandlersNext

LEMMA HandlersInvariance == RootServerAssumption => (HandlersSpec => []HandlersInv)
<1> SUFFICES ASSUME RootServerAssumption PROVE HandlersSpec => []HandlersInv
  BY Zenon
<1>1. HandlersInit => HandlersInv
  BY Zenon, InitHandlersInv
<1>2. HandlersInv /\ [HandlersNext]_handlerVars => HandlersInv'
  <2>1. ASSUME HandlersInv, HandlersNext PROVE HandlersInv'
    BY Zenon, <2>1, HandlersTypeStep, LockStep, StagesStep, BypassStep DEF HandlersInv
  <2>2. ASSUME HandlersInv, UNCHANGED handlerVars PROVE HandlersInv'
    BY Zenon, <2>2 DEF HandlersInv, HandlersTypeOK, HoldsLock, Stages, BypassIsSpentOnce, Holds, handlerVars
  <2>3. QED
    BY Zenon, <2>1, <2>2
<1>3. QED
  BY <1>1, <1>2, PTL DEF HandlersSpec

-----------------------------------------------------------------------------
(* What a publication does.                                                *)

\* The step that ends a publishing handler and changes the head is its publication.
LEMMA PublicationIsPublish ==
    ASSUME HandlersTypeOK, HandlersNext, NEW s \in Slot, Publishes(s)
    PROVE  \E reported \in BOOLEAN : Publish(s, reported)
<1>0. req[s] # Nothing /\ req[s].at = "publish" /\ req'[s] = Nothing /\ ~UNCHANGED <<root, receipts>>
  BY Zenon DEF Publishes, Holds
<1>1. \A t \in Slot : \A kind, d, seq, inc, id : ~Arrive(t, kind, d, seq, inc, id)
  BY <1>0, Zenon DEF Arrive, server
<1>2. \A t \in Slot : /\ ~Acquire(t) /\ ~AnswerFromReceipt(t) /\ ~FirstPush(t) /\ ~FastForward(t)
                      /\ ~Diverge(t) /\ ~Merge(t) /\ ~GuardScan(t) /\ ~ClaimBypass(t)
                      /\ ~FailPublish(t) /\ ~Refuse(t) /\ ~Disconnect(t)
  BY <1>0, Zenon DEF Acquire, AnswerFromReceipt, FirstPush, FastForward, Diverge, Merge, GuardScan,
              ClaimBypass, FailPublish, Refuse, Disconnect, server
<1>3. /\ \A d \in Client : ~DetachedClaim(d) /\ ~GrantBypass(d) /\ ~ExpireBypass(d)
      /\ \A d, seq, inc, id : ~Cancel(d, seq, inc, id)
      /\ \A target : ~RollBack(target)
      /\ ~Restart
  BY Zenon, <1>0 DEF DetachedClaim, GrantBypass, ExpireBypass, Cancel, RollBack, Restart, server
<1>4. PICK t \in Slot, reported \in BOOLEAN : Publish(t, reported)
  BY <1>1, <1>2, <1>3, Zenon DEF HandlersNext
<1>5. t = s
  BY <1>0, <1>4, Zenon DEF Publish, Finish, HandlersTypeOK
<1>6. QED
  BY Zenon, <1>4, <1>5

\* What the handler brings to its publication.
LEMMA Publication ==
    ASSUME RootServerAssumption, HandlersInv, HandlersNext, NEW s \in Slot, Publishes(s)
    PROVE  /\ root' = req[s].result /\ req[s].seen = root
           /\ req[s] \in Request /\ req[s].result \in Tree /\ Prepared(req[s])
<1>1. PICK reported \in BOOLEAN : Publish(s, reported)
  BY Zenon, PublicationIsPublish DEF HandlersInv
<1>2. QED
  BY <1>1, Zenon DEF Publish, Holds, HandlersInv, HandlersTypeOK, HoldsLock, Stages, Founded

\* One publication reverts nothing other devices did since the parent of the push.
LEMMA PublicationKeepsUpdates ==
    ASSUME RootServerAssumption, HandlersInv, HandlersNext, NEW s \in Slot, Publishes(s), root # Nothing,
           NEW p \in Path
    PROVE  LET parent == BaseTree(req[s].id.parent)  tree == req[s].id.tree
           IN  /\ SameContent(tree[p], parent[p]) /\ root[p] # Absent =>
                     SameContent(root'[p], root[p])
               /\ root[p] # Absent /\ ~SameContent(root[p], parent[p]) =>
                     root'[p] # Absent /\ root'[p].hash \in {root[p].hash, Mixed}
<1>1. /\ root' = req[s].result /\ req[s].seen = root /\ Prepared(req[s])
      /\ req[s].id.tree \in Tree /\ root \in Tree /\ req[s].id.parent \in Tree \cup {Nothing}
  BY Publication, Zenon DEF HandlersInv, HandlersTypeOK, Request, Id
<1> DEFINE parent == req[s].id.parent  tree == req[s].id.tree
<1>2. CASE parent = root /\ root' = tree
  BY <1>1, <1>2, Zenon DEF BaseTree, SameContent
<1>3. ASSUME parent \in Tree, NEW v1 \in BOOLEAN, NEW text \in SUBSET TextTodo(parent, root, tree, v1),
             root' = MergeTrees(parent, root, tree, v1, text)
      PROVE  /\ SameContent(tree[p], parent[p]) /\ root[p] # Absent => SameContent(root'[p], root[p])
             /\ root[p] # Absent /\ ~SameContent(root[p], parent[p]) =>
                   root'[p] # Absent /\ root'[p].hash \in {root[p].hash, Mixed}
  <2>1. SameContent(tree[p], parent[p]) /\ root[p] # Absent => SameContent(root'[p], root[p])
    BY <1>1, <1>3, UntouchedIsKept, Zenon
  <2>2. Changed(parent, root, p) => Kept(MergeTrees(parent, root, tree, v1, text), root, p)
    BY <1>1, <1>3, ChangesAlwaysSurvive, Zenon DEF ChangesSurvive
  <2>3. QED
    BY <1>3, <2>1, <2>2, Zenon DEF Changed, Kept, SameContent
<1>4. QED
  <2>1. CASE root' = tree /\ parent = root
    BY <1>2, <2>1, Zenon
  <2>2. CASE ~(root' = tree /\ parent = root)
    <3>1. PICK v1 \in BOOLEAN : \E text \in SUBSET TextTodo(parent, root, tree, v1) :
             parent \in Tree /\ root' = MergeTrees(parent, root, tree, v1, text)
      BY <1>1, <2>2, Zenon DEF Prepared
    <3>2. PICK text \in SUBSET TextTodo(parent, root, tree, v1) :
             parent \in Tree /\ root' = MergeTrees(parent, root, tree, v1, text)
      BY Zenon, <3>1
    <3>3. BaseTree(parent) = parent
      BY <3>2, Zenon DEF BaseTree, RootServerAssumption
    <3>4. QED
      BY <1>3, <3>2, <3>3, Zenon
  <2>3. QED
    BY <2>1, <2>2, Zenon

\* A push never reverts what other devices did since its parent.
THEOREM NoUpdateIsLost == RootServerAssumption => (HandlersSpec => NoLostUpdate)
<1> SUFFICES ASSUME RootServerAssumption PROVE HandlersSpec => NoLostUpdate
  BY Zenon
<1> DEFINE Keeps ==
      \A s \in Slot : Publishes(s) /\ root # Nothing =>
          LET parent == BaseTree(req[s].id.parent)  tree == req[s].id.tree
          IN  \A p \in Path :
                 /\ SameContent(tree[p], parent[p]) /\ root[p] # Absent =>
                       SameContent(root'[p], root[p])
                 /\ root[p] # Absent /\ ~SameContent(root[p], parent[p]) =>
                       root'[p] # Absent /\ root'[p].hash \in {root[p].hash, Mixed}
<1>1. HandlersInv /\ [HandlersNext]_handlerVars => [Keeps]_handlerVars
  <2>1. ASSUME HandlersInv, HandlersNext PROVE Keeps
    BY <2>1, PublicationKeepsUpdates, Zenon
  <2>2. QED
    BY <2>1, Zenon
<1>2. HandlersSpec => []HandlersInv
  BY Zenon, HandlersInvariance
<1>3. QED
  BY <1>1, <1>2, PTL DEF HandlersSpec, NoLostUpdate

\* One publication accounts for everything the pushing device wrote.
LEMMA PublicationAccounts ==
    ASSUME RootServerAssumption, HandlersInv, HandlersNext
    PROVE  PushedContentAccounted
<1> SUFFICES ASSUME NEW s \in Slot, Publishes(s), NEW p \in Path,
                    req[s].id.tree[p] # Absent,
                    ~SameContent(req[s].id.tree[p], BaseTree(req[s].id.parent)[p])
             PROVE  \/ root'[p] # Absent /\ root'[p].hash \in {req[s].id.tree[p].hash, Mixed}
                    \/ p \in req[s].conflicts
  BY Zenon DEF PushedContentAccounted
<1> DEFINE parent == req[s].id.parent  tree == req[s].id.tree
<1>1. /\ root' = req[s].result /\ req[s].seen = root /\ Prepared(req[s])
      /\ tree \in Tree /\ root \in Tree \cup {Nothing}
  BY Zenon, Publication DEF HandlersInv, HandlersTypeOK, Request, Id
<1>2. CASE root' = tree
  BY Zenon, <1>2
<1>3. CASE root' # tree
  <2>0. PICK v1 \in BOOLEAN : \E text \in SUBSET TextTodo(parent, root, tree, v1) :
             /\ root \in Tree /\ parent \in Tree
             /\ root' = MergeTrees(parent, root, tree, v1, text)
             /\ req[s].conflicts = Conflicts(parent, root, tree, v1, text)
    BY <1>1, <1>3, Zenon DEF Prepared
  <2>1. PICK text \in SUBSET TextTodo(parent, root, tree, v1) :
             /\ root \in Tree /\ parent \in Tree
             /\ root' = MergeTrees(parent, root, tree, v1, text)
             /\ req[s].conflicts = Conflicts(parent, root, tree, v1, text)
    BY Zenon, <2>0
  <2>2. BaseTree(parent) = parent
    BY Zenon, <2>1 DEF BaseTree, RootServerAssumption
  <2>3. Changed(parent, tree, p)
    BY Zenon, <2>2 DEF Changed, SameContent
  <2>4. Kept(root', tree, p) \/ p \in req[s].conflicts
    <3>1. ChangesSurvive(parent, root, tree, v1, text)
      BY <1>1, <2>1, ChangesAlwaysSurvive, Zenon
    <3>2. \/ Kept(MergeTrees(parent, root, tree, v1, text), tree, p)
          \/ p \in Conflicts(parent, root, tree, v1, text)
      BY <2>3, <3>1, Zenon DEF ChangesSurvive
    <3>3. QED
      BY Zenon, <2>1, <3>2
  <2>5. QED
    BY Zenon, <2>4 DEF Kept
<1>4. QED
  BY Zenon, <1>2, <1>3

\* What a device pushes is kept, mixed or reported, and a deletion bypass is spent once.
THEOREM PushesAreAccounted == RootServerAssumption => (HandlersSpec => PushesAccounted)
<1> SUFFICES ASSUME RootServerAssumption PROVE HandlersSpec => PushesAccounted
  BY Zenon
<1>1. HandlersInv /\ [HandlersNext]_handlerVars => [PushedContentAccounted /\ BypassIsSpentOnce']_handlerVars
  <2>1. ASSUME HandlersInv, HandlersNext PROVE PushedContentAccounted /\ BypassIsSpentOnce'
    BY Zenon, <2>1, PublicationAccounts, BypassStep
  <2>2. QED
    BY Zenon, <2>1
<1>2. HandlersSpec => []HandlersInv
  BY Zenon, HandlersInvariance
<1>3. QED
  BY <1>1, <1>2, PTL DEF HandlersSpec, PushesAccounted
==============================================================================
