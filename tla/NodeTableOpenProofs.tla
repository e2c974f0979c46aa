------------------------- MODULE NodeTableOpenProofs -------------------------
(***************************************************************************)
(* The warm opens and the close keep the inductive invariant.  The first   *)
(* steps of a lemma say what the action does to each variable; then there  *)
(* is one step per conjunct of IInv that the change can disturb.           *)
(***************************************************************************)
EXTENDS NodeTableInvariant

USE NodeTableAssumption

LEMMA BlorgNodeTableLookupPinKeeps ==
    ASSUME IInv, NEW t \in Threads, NEW n \in Nodes, BlorgNodeTableLookupPin(t, n)
    PROVE IInv'
<1>1. /\ TypeOK /\ Locked /\ Counted /\ Rooted /\ Placed /\ Doomed /\ ClaimHasOneOwner
      /\ OnReapList \subseteq Resident /\ BatchInHand /\ GateHeld /\ Closing
    BY DEF IInv
<1>2. /\ pc[t] = "idle" /\ Handle[t] = Nobody /\ teardown = "up" /\ n \in Published
      /\ PinCount' = [PinCount EXCEPT ![n] = @ \cup {t}]
      /\ pc' = [pc EXCEPT ![t] = "open"]
      /\ cur' = [cur EXCEPT ![t] = n]
      /\ UNCHANGED <<Resident, Dcbs, Published, RefCount, Handle, OnReapList, ReapList, Batch, Queued, ShuttingDown, WorkItem, VcbOwner, target, teardown>>
    BY DEF BlorgNodeTableLookupPin, Goto, tableVars, countVars, reapVars, gateVars
<1>3. TypeOK'
    BY <1>1, <1>2 DEF Agents, TypeOK, ThreadPc, WorkerPc, SharedHold, Placed, OnNode
<1>4. Locked'
    BY <1>1, <1>2 DEF Agents, TypeOK, ThreadPc, WorkerPc, SharedHold, Locked, VcbLabels
<1>5. Counted'
    BY <1>1, <1>2 DEF Agents, TypeOK, ThreadPc, WorkerPc, SharedHold, Counted, Rooted, Placed,
        OnNode
<1>6. Placed'
    BY <1>1, <1>2 DEF Agents, TypeOK, ThreadPc, WorkerPc, SharedHold, Placed, OnNode, Locked,
        VcbLabels, Doomed, Frees, Rooted
<1>7. Doomed'
    BY <1>1, <1>2 DEF Agents, TypeOK, ThreadPc, WorkerPc, SharedHold, Doomed, Frees, Placed,
        OnNode, Locked, VcbLabels
<1>8. ClaimHasOneOwner'
    BY <1>1, <1>2 DEF Agents, TypeOK, ThreadPc, WorkerPc, SharedHold, ClaimHasOneOwner,
        HoldsClaim, Placed, OnNode
<1>9. BatchInHand'
    BY <1>1, <1>2 DEF Agents, TypeOK, ThreadPc, WorkerPc, SharedHold, BatchInHand
<1>10. GateHeld'
    BY <1>1, <1>2 DEF Agents, TypeOK, ThreadPc, WorkerPc, SharedHold, GateHeld, Gated, Closing
<1>11. Closing'
    BY <1>1, <1>2 DEF Agents, TypeOK, ThreadPc, WorkerPc, SharedHold, Closing, GateHeld, Gated
<1>12. Rooted' /\ (OnReapList \subseteq Resident)'
    BY <1>1, <1>2 DEF Rooted
<1>13. QED
    BY <1>3, <1>4, <1>5, <1>6, <1>7, <1>8, <1>9, <1>10, <1>11, <1>12 DEF IInv

LEMMA WarmOpenKeeps ==
    ASSUME IInv, NEW t \in Threads, WarmOpen(t)
    PROVE IInv'
<1> DEFINE Opened ==
        /\ pc[t] = "open"
        /\ RefCount' = [RefCount EXCEPT ![cur[t]] = @ \cup {t}]
        /\ Handle' = [Handle EXCEPT ![t] = cur[t]]
        /\ pc' = [pc EXCEPT ![t] = "unpin"]
        /\ UNCHANGED <<Resident, Dcbs, Published, PinCount, OnReapList, ReapList, Batch, Queued, ShuttingDown, WorkItem, VcbOwner, cur, target, teardown>>
<1> DEFINE Conflict ==
        /\ pc[t] = "open"
        /\ RefCount' = [RefCount EXCEPT ![cur[t]] = @ \cup {t}]
        /\ pc' = [pc EXCEPT ![t] = "openUndo"]
        /\ UNCHANGED <<Resident, Dcbs, Published, PinCount, Handle, OnReapList, ReapList, Batch, Queued, ShuttingDown, WorkItem, VcbOwner, cur, target, teardown>>
<1> DEFINE Failed ==
        /\ pc[t] = "open"
        /\ pc' = [pc EXCEPT ![t] = "unpin"]
        /\ UNCHANGED <<Resident, Dcbs, Published, RefCount, PinCount, Handle, OnReapList, ReapList, Batch, Queued, ShuttingDown, WorkItem, VcbOwner, cur, target, teardown>>
<1>1. /\ TypeOK /\ Locked /\ Counted /\ Rooted /\ Placed /\ Doomed /\ ClaimHasOneOwner
      /\ OnReapList \subseteq Resident /\ BatchInHand /\ GateHeld /\ Closing
    BY DEF IInv
<1>2. Opened \/ Conflict \/ Failed
    BY <1>1 DEF WarmOpen, Goto, OpenExisting, tableVars, countVars, reapVars, gateVars, TypeOK,
        Agents
<1>3. ASSUME Opened PROVE IInv'
  <2>1. TypeOK'
      BY <1>1, <1>3 DEF Agents, TypeOK, ThreadPc, WorkerPc, SharedHold, Placed, OnNode
  <2>2. Locked'
      BY <1>1, <1>3 DEF Agents, TypeOK, ThreadPc, WorkerPc, SharedHold, Locked, VcbLabels
  <2>3. Counted'
      BY SMTT(60), <1>1, <1>3 DEF Agents, TypeOK, ThreadPc, WorkerPc, SharedHold, Counted, Rooted, Placed,
          OnNode
  <2>4. Placed'
      BY <1>1, <1>3 DEF Agents, TypeOK, ThreadPc, WorkerPc, SharedHold, Placed, OnNode, Locked,
          VcbLabels, Doomed, Frees
  <2>5. Doomed'
      BY <1>1, <1>3 DEF Agents, TypeOK, ThreadPc, WorkerPc, SharedHold, Doomed, Frees, Placed,
          OnNode, Locked, VcbLabels
  <2>6. ClaimHasOneOwner'
      BY <1>1, <1>3 DEF Agents, TypeOK, ThreadPc, WorkerPc, SharedHold, ClaimHasOneOwner,
          HoldsClaim, Placed, OnNode
  <2>7. BatchInHand'
      BY <1>1, <1>3 DEF Agents, TypeOK, ThreadPc, WorkerPc, SharedHold, BatchInHand
  <2>8. GateHeld'
      BY <1>1, <1>3 DEF Agents, TypeOK, ThreadPc, WorkerPc, SharedHold, GateHeld, Gated, Closing
  <2>9. Closing'
      BY <1>1, <1>3 DEF Agents, TypeOK, ThreadPc, WorkerPc, SharedHold, Closing, GateHeld, Gated
  <2>10. Rooted' /\ (OnReapList \subseteq Resident)'
      BY <1>1, <1>3 DEF Rooted
  <2>11. QED
      BY <2>1, <2>2, <2>3, <2>4, <2>5, <2>6, <2>7, <2>8, <2>9, <2>10 DEF IInv
<1>4. ASSUME Conflict PROVE IInv'
  <2>1. TypeOK'
      BY <1>1, <1>4 DEF Agents, TypeOK, ThreadPc, WorkerPc, SharedHold, Placed, OnNode
  <2>2. Locked'
      BY <1>1, <1>4 DEF Agents, TypeOK, ThreadPc, WorkerPc, SharedHold, Locked, VcbLabels
  <2>3. Counted'
      BY <1>1, <1>4 DEF Agents, TypeOK, ThreadPc, WorkerPc, SharedHold, Counted, Rooted, Placed,
          OnNode
  <2>4. Placed'
      BY <1>1, <1>4 DEF Agents, TypeOK, ThreadPc, WorkerPc, SharedHold, Placed, OnNode, Locked,
          VcbLabels, Doomed, Frees
  <2>5. Doomed'
      BY <1>1, <1>4 DEF Agents, TypeOK, ThreadPc, WorkerPc, SharedHold, Doomed, Frees, Placed,
          OnNode, Locked, VcbLabels
  <2>6. ClaimHasOneOwner'
      BY <1>1, <1>4 DEF Agents, TypeOK, ThreadPc, WorkerPc, SharedHold, ClaimHasOneOwner,
          HoldsClaim, Placed, OnNode
  <2>7. BatchInHand'
      BY <1>1, <1>4 DEF Agents, TypeOK, ThreadPc, WorkerPc, SharedHold, BatchInHand
  <2>8. GateHeld'
      BY <1>1, <1>4 DEF Agents, TypeOK, ThreadPc, WorkerPc, SharedHold, GateHeld, Gated, Closing
  <2>9. Closing'
      BY <1>1, <1>4 DEF Agents, TypeOK, ThreadPc, WorkerPc, SharedHold, Closing, GateHeld, Gated
  <2>10. Rooted' /\ (OnReapList \subseteq Resident)'
      BY <1>1, <1>4 DEF Rooted
  <2>11. QED
      BY <2>1, <2>2, <2>3, <2>4, <2>5, <2>6, <2>7, <2>8, <2>9, <2>10 DEF IInv
<1>5. ASSUME Failed PROVE IInv'
  <2>1. TypeOK'
      BY <1>1, <1>5 DEF Agents, TypeOK, ThreadPc, WorkerPc, SharedHold, Placed, OnNode
  <2>2. Locked'
      BY <1>1, <1>5 DEF Agents, TypeOK, ThreadPc, WorkerPc, SharedHold, Locked, VcbLabels
  <2>3. Counted'
      BY SMTT(60), <1>1, <1>5 DEF Agents, TypeOK, ThreadPc, WorkerPc, SharedHold, Counted, Rooted, Placed,
          OnNode
  <2>4. Placed'
      BY SMTT(60), <1>1, <1>5 DEF Agents, TypeOK, ThreadPc, WorkerPc, SharedHold, Placed, OnNode, Locked,
          VcbLabels, Doomed, Frees
  <2>5. Doomed'
      BY SMTT(60), <1>1, <1>5 DEF Agents, TypeOK, ThreadPc, WorkerPc, SharedHold, Doomed, Frees, Placed,
          OnNode, Locked, VcbLabels
  <2>6. ClaimHasOneOwner'
      BY <1>1, <1>5 DEF Agents, TypeOK, ThreadPc, WorkerPc, SharedHold, ClaimHasOneOwner,
          HoldsClaim, Placed, OnNode
  <2>7. BatchInHand'
      BY <1>1, <1>5 DEF Agents, TypeOK, ThreadPc, WorkerPc, SharedHold, BatchInHand
  <2>8. GateHeld'
      BY <1>1, <1>5 DEF Agents, TypeOK, ThreadPc, WorkerPc, SharedHold, GateHeld, Gated, Closing
  <2>9. Closing'
      BY <1>1, <1>5 DEF Agents, TypeOK, ThreadPc, WorkerPc, SharedHold, Closing, GateHeld, Gated
  <2>10. Rooted' /\ (OnReapList \subseteq Resident)'
      BY <1>1, <1>5 DEF Rooted
  <2>11. QED
      BY <2>1, <2>2, <2>3, <2>4, <2>5, <2>6, <2>7, <2>8, <2>9, <2>10 DEF IInv
<1>6. QED
    BY <1>2, <1>3, <1>4, <1>5

LEMMA WarmShareConflictKeeps ==
    ASSUME IInv, NEW t \in Threads, WarmShareConflict(t)
    PROVE IInv'
<1>1. /\ TypeOK /\ Locked /\ Counted /\ Rooted /\ Placed /\ Doomed /\ ClaimHasOneOwner
      /\ OnReapList \subseteq Resident /\ BatchInHand /\ GateHeld /\ Closing
    BY DEF IInv
<1>2. /\ pc[t] = "openUndo"
      /\ RefCount' = [RefCount EXCEPT ![cur[t]] = @ \ {t}]
      /\ pc' = [pc EXCEPT ![t] = "unpin"]
      /\ UNCHANGED <<Resident, Dcbs, Published, PinCount, Handle, OnReapList, ReapList, Batch, Queued, ShuttingDown, WorkItem, VcbOwner, cur, target, teardown>>
    BY DEF WarmShareConflict, Goto, UndoOpen, tableVars, countVars, reapVars, gateVars
<1>3. TypeOK'
    BY <1>1, <1>2 DEF Agents, TypeOK, ThreadPc, WorkerPc, SharedHold, Placed, OnNode
<1>4. Locked'
    BY <1>1, <1>2 DEF Agents, TypeOK, ThreadPc, WorkerPc, SharedHold, Locked, VcbLabels
<1>5. Counted'
    BY SMTT(60), <1>1, <1>2 DEF Agents, TypeOK, ThreadPc, WorkerPc, SharedHold, Counted, Rooted, Placed,
        OnNode
<1>6. Placed'
    BY <1>1, <1>2 DEF Agents, TypeOK, ThreadPc, WorkerPc, SharedHold, Placed, OnNode, Locked,
        VcbLabels, Doomed, Frees
<1>7. Doomed'
    BY <1>1, <1>2 DEF Agents, TypeOK, ThreadPc, WorkerPc, SharedHold, Doomed, Frees, Placed,
        OnNode, Locked, VcbLabels
<1>8. ClaimHasOneOwner'
    BY <1>1, <1>2 DEF Agents, TypeOK, ThreadPc, WorkerPc, SharedHold, ClaimHasOneOwner,
        HoldsClaim, Placed, OnNode
<1>9. BatchInHand'
    BY <1>1, <1>2 DEF Agents, TypeOK, ThreadPc, WorkerPc, SharedHold, BatchInHand
<1>10. GateHeld'
    BY <1>1, <1>2 DEF Agents, TypeOK, ThreadPc, WorkerPc, SharedHold, GateHeld, Gated, Closing
<1>11. Closing'
    BY <1>1, <1>2 DEF Agents, TypeOK, ThreadPc, WorkerPc, SharedHold, Closing, GateHeld, Gated
<1>12. Rooted' /\ (OnReapList \subseteq Resident)'
    BY <1>1, <1>2 DEF Rooted
<1>13. QED
    BY <1>3, <1>4, <1>5, <1>6, <1>7, <1>8, <1>9, <1>10, <1>11, <1>12 DEF IInv

LEMMA BlorgNodeUnpinKeeps ==
    ASSUME IInv, NEW t \in Threads, BlorgNodeUnpin(t)
    PROVE IInv'
<1>1. /\ TypeOK /\ Locked /\ Counted /\ Rooted /\ Placed /\ Doomed /\ ClaimHasOneOwner
      /\ OnReapList \subseteq Resident /\ BatchInHand /\ GateHeld /\ Closing
    BY DEF IInv
<1>2. /\ pc[t] = "unpin"
      /\ PinCount' = [PinCount EXCEPT ![cur[t]] = @ \ {t}]
      /\ pc' = [pc EXCEPT ![t] = "readRef"]
      /\ UNCHANGED <<Resident, Dcbs, Published, RefCount, Handle, OnReapList, ReapList, Batch, Queued, ShuttingDown, WorkItem, VcbOwner, cur, target, teardown>>
    BY DEF BlorgNodeUnpin, Goto, tableVars, countVars, reapVars, gateVars
<1>3. TypeOK'
    BY <1>1, <1>2 DEF Agents, TypeOK, ThreadPc, WorkerPc, SharedHold, Placed, OnNode
<1>4. Locked'
    BY <1>1, <1>2 DEF Agents, TypeOK, ThreadPc, WorkerPc, SharedHold, Locked, VcbLabels
<1>5. Counted'
    BY <1>1, <1>2 DEF Agents, TypeOK, ThreadPc, WorkerPc, SharedHold, Counted, Rooted, Placed,
        OnNode
<1>6. Placed'
    BY <1>1, <1>2 DEF Agents, TypeOK, ThreadPc, WorkerPc, SharedHold, Placed, OnNode, Locked,
        VcbLabels, Doomed, Frees
<1>7. Doomed'
    BY <1>1, <1>2 DEF Agents, TypeOK, ThreadPc, WorkerPc, SharedHold, Doomed, Frees, Placed,
        OnNode, Locked, VcbLabels
<1>8. ClaimHasOneOwner'
    BY <1>1, <1>2 DEF Agents, TypeOK, ThreadPc, WorkerPc, SharedHold, ClaimHasOneOwner,
        HoldsClaim, Placed, OnNode
<1>9. BatchInHand'
    BY <1>1, <1>2 DEF Agents, TypeOK, ThreadPc, WorkerPc, SharedHold, BatchInHand
<1>10. GateHeld'
    BY <1>1, <1>2 DEF Agents, TypeOK, ThreadPc, WorkerPc, SharedHold, GateHeld, Gated, Closing
<1>11. Closing'
    BY <1>1, <1>2 DEF Agents, TypeOK, ThreadPc, WorkerPc, SharedHold, Closing, GateHeld, Gated
<1>12. Rooted' /\ (OnReapList \subseteq Resident)'
    BY <1>1, <1>2 DEF Rooted
<1>13. QED
    BY <1>3, <1>4, <1>5, <1>6, <1>7, <1>8, <1>9, <1>10, <1>11, <1>12 DEF IInv

LEMMA BlorgNodeDereferenceKeeps ==
    ASSUME IInv, NEW t \in Threads, BlorgNodeDereference(t)
    PROVE IInv'
<1>1. /\ TypeOK /\ Locked /\ Counted /\ Rooted /\ Placed /\ Doomed /\ ClaimHasOneOwner
      /\ OnReapList \subseteq Resident /\ BatchInHand /\ GateHeld /\ Closing
    BY DEF IInv
<1>2. /\ pc[t] = "idle" /\ Handle[t] # Nobody
      /\ RefCount' = [RefCount EXCEPT ![Handle[t]] = @ \ {t}]
      /\ Handle' = [Handle EXCEPT ![t] = Nobody]
      /\ pc' = [pc EXCEPT ![t] = "readRef"]
      /\ cur' = [cur EXCEPT ![t] = Handle[t]]
      /\ UNCHANGED <<Resident, Dcbs, Published, PinCount, OnReapList, ReapList, Batch, Queued, ShuttingDown, WorkItem, VcbOwner, target, teardown>>
    BY DEF BlorgNodeDereference, Goto, tableVars, countVars, reapVars, gateVars
<1>3. TypeOK'
    BY <1>1, <1>2 DEF Agents, TypeOK, ThreadPc, WorkerPc, SharedHold, Placed, OnNode
<1>4. Locked'
    BY <1>1, <1>2 DEF Agents, TypeOK, ThreadPc, WorkerPc, SharedHold, Locked, VcbLabels
<1>5. Counted'
    BY SMTT(60), <1>1, <1>2 DEF Agents, TypeOK, ThreadPc, WorkerPc, SharedHold, Counted, Rooted, Placed,
        OnNode
<1>6. Placed'
    BY SMTT(60), <1>1, <1>2 DEF Agents, TypeOK, ThreadPc, WorkerPc, SharedHold, Placed, OnNode, Locked,
        VcbLabels, Doomed, Frees, Counted
<1>7. Doomed'
    BY SMTT(60), <1>1, <1>2 DEF Agents, TypeOK, ThreadPc, WorkerPc, SharedHold, Doomed, Frees, Placed,
        OnNode, Locked, VcbLabels
<1>8. ClaimHasOneOwner'
    BY <1>1, <1>2 DEF Agents, TypeOK, ThreadPc, WorkerPc, SharedHold, ClaimHasOneOwner,
        HoldsClaim, Placed, OnNode
<1>9. BatchInHand'
    BY <1>1, <1>2 DEF Agents, TypeOK, ThreadPc, WorkerPc, SharedHold, BatchInHand
<1>10. GateHeld'
    BY <1>1, <1>2 DEF Agents, TypeOK, ThreadPc, WorkerPc, SharedHold, GateHeld, Gated, Closing
<1>11. Closing'
    BY <1>1, <1>2 DEF Agents, TypeOK, ThreadPc, WorkerPc, SharedHold, Closing, GateHeld, Gated
<1>12. Rooted' /\ (OnReapList \subseteq Resident)'
    BY <1>1, <1>2 DEF Rooted
<1>13. QED
    BY <1>3, <1>4, <1>5, <1>6, <1>7, <1>8, <1>9, <1>10, <1>11, <1>12 DEF IInv
=============================================================================
