------------------------ MODULE NodeTableColdProofs -------------------------
(***************************************************************************)
(* The search of a cold open under the VCB resource, the open of what it   *)
(* finds, and publishing keep the inductive invariant of NodeTable.        *)
(***************************************************************************)
EXTENDS NodeTableInvariant

USE NodeTableAssumption

LEMMA ColdAcquireVcbKeeps ==
    ASSUME IInv, NEW t \in Threads, NEW n \in Nodes, ColdAcquireVcb(t, n)
    PROVE IInv'
<1>1. /\ TypeOK /\ Locked /\ Counted /\ Rooted /\ Placed /\ Doomed /\ ClaimHasOneOwner
      /\ OnReapList \subseteq Resident /\ BatchInHand /\ GateHeld /\ Closing
    BY DEF IInv
<1>2. /\ pc[t] = "idle" /\ Handle[t] = Nobody /\ teardown = "up" /\ VcbOwner = Nobody
      /\ VcbOwner' = t
      /\ pc' = [pc EXCEPT ![t] = "search"]
      /\ target' = [target EXCEPT ![t] = n]
      /\ UNCHANGED <<Resident, Dcbs, Published, RefCount, PinCount, Handle, OnReapList, ReapList, Batch, Queued, ShuttingDown, WorkItem, cur, teardown>>
    BY DEF ColdAcquireVcb, Goto, tableVars, countVars, reapVars, gateVars
<1>3. TypeOK'
    BY <1>1, <1>2 DEF Agents, TypeOK, ThreadPc, WorkerPc, SharedHold, Placed, OnNode
<1>4. Locked'
    BY <1>1, <1>2 DEF Agents, TypeOK, ThreadPc, WorkerPc, SharedHold, Locked, VcbLabels
<1>5. Counted'
    BY <1>1, <1>2 DEF Agents, TypeOK, ThreadPc, WorkerPc, SharedHold, Counted, Rooted, Placed,
        OnNode
<1>6. Placed'
    BY <1>1, <1>2 DEF Agents, TypeOK, ThreadPc, WorkerPc, SharedHold, Placed, OnNode, Locked,
        VcbLabels, Doomed, Frees
<1>7. Doomed'
    BY <1>1, <1>2 DEF Agents, TypeOK, ThreadPc, WorkerPc, SharedHold, Doomed, Frees, Placed,
        OnNode, Locked, VcbLabels
<1>8. ClaimHasOneOwner'
    BY <1>1, <1>2 DEF Agents, TypeOK, ThreadPc, WorkerPc, SharedHold, ClaimHasOneOwner,
        HoldsClaim, Placed, OnNode
<1>9. BatchInHand'
    BY <1>1, <1>2 DEF Agents, TypeOK, ThreadPc, WorkerPc, SharedHold, BatchInHand
<1>10. GateHeld'
    BY <1>1, <1>2 DEF Agents, TypeOK, ThreadPc, WorkerPc, SharedHold, GateHeld, Gated, Closing
<1>11. Closing'
    BY <1>1, <1>2 DEF Agents, TypeOK, ThreadPc, WorkerPc, SharedHold, Closing, GateHeld, Gated
<1>12. Rooted' /\ (OnReapList \subseteq Resident)'
    BY <1>1, <1>2 DEF Rooted
<1>13. QED
    BY <1>3, <1>4, <1>5, <1>6, <1>7, <1>8, <1>9, <1>10, <1>11, <1>12 DEF IInv

LEMMA BlorgSearchByPathKeeps ==
    ASSUME IInv, NEW t \in Threads, BlorgSearchByPath(t)
    PROVE IInv'
<1> DEFINE Hit ==
        /\ pc[t] = "search" /\ Found(target[t])
        /\ pc' = [pc EXCEPT ![t] = "coldOpen"]
        /\ cur' = [cur EXCEPT ![t] = target[t]]
        /\ UNCHANGED <<Resident, Dcbs, Published, RefCount, PinCount, Handle, OnReapList, ReapList, Batch, Queued, ShuttingDown, WorkItem, VcbOwner, target, teardown>>
<1> DEFINE WrongType ==
        /\ pc[t] = "search"
        /\ VcbOwner' = IF VcbOwner = t THEN Nobody ELSE VcbOwner
        /\ pc' = [pc EXCEPT ![t] = "idle"]
        /\ cur' = [cur EXCEPT ![t] = Root]
        /\ target' = [target EXCEPT ![t] = Root]
        /\ UNCHANGED <<Resident, Dcbs, Published, RefCount, PinCount, Handle, OnReapList, ReapList, Batch, Queued, ShuttingDown, WorkItem, teardown>>
<1> DEFINE Miss ==
        /\ pc[t] = "search" /\ ~Found(target[t])
        /\ pc' = [pc EXCEPT ![t] = "insert"]
        /\ UNCHANGED <<Resident, Dcbs, Published, RefCount, PinCount, Handle, OnReapList, ReapList, Batch, Queued, ShuttingDown, WorkItem, VcbOwner, cur, target, teardown>>
<1>1. /\ TypeOK /\ Locked /\ Counted /\ Rooted /\ Placed /\ Doomed /\ ClaimHasOneOwner
      /\ OnReapList \subseteq Resident /\ BatchInHand /\ GateHeld /\ Closing
    BY DEF IInv
<1>2. Hit \/ WrongType \/ Miss
    BY <1>1 DEF BlorgSearchByPath, Goto, Leave, Continue, Found, tableVars, countVars, reapVars,
        gateVars, TypeOK, Agents
<1>3. ASSUME Hit PROVE IInv'
  <2>1. target[t] \in Resident
      BY <1>1, <1>3, PrefixAssumption DEF Found, TypeOK, Placed, Agents
  <2>2. TypeOK'
      BY <1>1, <1>3, <2>1 DEF Agents, TypeOK, ThreadPc, WorkerPc, SharedHold, Placed, OnNode
  <2>3. Locked'
      BY <1>1, <1>3, <2>1 DEF Agents, TypeOK, ThreadPc, WorkerPc, SharedHold, Locked, VcbLabels
  <2>4. Counted'
      BY <1>1, <1>3, <2>1 DEF Agents, TypeOK, ThreadPc, WorkerPc, SharedHold, Counted, Rooted,
          Placed, OnNode
  <2>5. Placed'
      BY <1>1, <1>3, <2>1, PrefixAssumption DEF Agents, TypeOK, ThreadPc, WorkerPc,
          SharedHold, Placed, OnNode, Locked, VcbLabels, Doomed, Frees, Found
  <2>6. Doomed'
      BY <1>1, <1>3, <2>1 DEF Agents, TypeOK, ThreadPc, WorkerPc, SharedHold, Doomed, Frees,
          Placed, OnNode, Locked, VcbLabels
  <2>7. ClaimHasOneOwner'
      BY <1>1, <1>3, <2>1 DEF Agents, TypeOK, ThreadPc, WorkerPc, SharedHold, ClaimHasOneOwner,
          HoldsClaim, Placed, OnNode
  <2>8. BatchInHand'
      BY <1>1, <1>3, <2>1 DEF Agents, TypeOK, ThreadPc, WorkerPc, SharedHold, BatchInHand
  <2>9. GateHeld'
      BY <1>1, <1>3, <2>1 DEF Agents, TypeOK, ThreadPc, WorkerPc, SharedHold, GateHeld, Gated,
          Closing
  <2>10. Closing'
      BY <1>1, <1>3, <2>1 DEF Agents, TypeOK, ThreadPc, WorkerPc, SharedHold, Closing, GateHeld,
          Gated
  <2>11. Rooted' /\ (OnReapList \subseteq Resident)'
      BY <1>1, <1>3, <2>1 DEF Rooted
  <2>12. QED
      BY <2>2, <2>3, <2>4, <2>5, <2>6, <2>7, <2>8, <2>9, <2>10, <2>11 DEF IInv
<1>4. ASSUME WrongType PROVE IInv'
  <2>1. TypeOK'
      BY <1>1, <1>4 DEF Agents, TypeOK, ThreadPc, WorkerPc, SharedHold, Placed, OnNode
  <2>2. Locked'
      BY <1>1, <1>4 DEF Agents, TypeOK, ThreadPc, WorkerPc, SharedHold, Locked, VcbLabels
  <2>3. Counted'
      BY <1>1, <1>4 DEF Agents, TypeOK, ThreadPc, WorkerPc, SharedHold, Counted, Rooted, Placed,
          OnNode
  <2>4. Placed'
      BY <1>1, <1>4 DEF Agents, TypeOK, ThreadPc, WorkerPc, SharedHold, Placed, OnNode, Locked,
          VcbLabels, Doomed, Frees
  <2>5. Doomed'
      BY <1>1, <1>4 DEF Agents, TypeOK, ThreadPc, WorkerPc, SharedHold, Doomed, Frees, Placed,
          OnNode, Locked, VcbLabels
  <2>6. ClaimHasOneOwner'
      BY <1>1, <1>4 DEF Agents, TypeOK, ThreadPc, WorkerPc, SharedHold, ClaimHasOneOwner,
          HoldsClaim, Placed, OnNode
  <2>7. BatchInHand'
      BY <1>1, <1>4 DEF Agents, TypeOK, ThreadPc, WorkerPc, SharedHold, BatchInHand
  <2>8. GateHeld'
      BY <1>1, <1>4 DEF Agents, TypeOK, ThreadPc, WorkerPc, SharedHold, GateHeld, Gated, Closing
  <2>9. Closing'
      BY <1>1, <1>4 DEF Agents, TypeOK, ThreadPc, WorkerPc, SharedHold, Closing, GateHeld, Gated
  <2>10. Rooted' /\ (OnReapList \subseteq Resident)'
      BY <1>1, <1>4 DEF Rooted
  <2>11. QED
      BY <2>1, <2>2, <2>3, <2>4, <2>5, <2>6, <2>7, <2>8, <2>9, <2>10 DEF IInv
<1>5. ASSUME Miss PROVE IInv'
  <2>1. target[t] \notin Resident
      BY <1>1, <1>5 DEF Found, Rooted, TypeOK, Placed, Agents
  <2>2. TypeOK'
      BY <1>1, <1>5, <2>1 DEF Agents, TypeOK, ThreadPc, WorkerPc, SharedHold, Placed, OnNode
  <2>3. Locked'
      BY <1>1, <1>5, <2>1 DEF Agents, TypeOK, ThreadPc, WorkerPc, SharedHold, Locked, VcbLabels
  <2>4. Counted'
      BY SMTT(60), <1>1, <1>5, <2>1 DEF Agents, TypeOK, ThreadPc, WorkerPc, SharedHold, Counted, Rooted,
          Placed, OnNode
  <2>5. Placed'
      BY SMTT(60), <1>1, <1>5, <2>1, PrefixAssumption DEF Agents, TypeOK, ThreadPc, WorkerPc,
          SharedHold, Placed, OnNode, Locked, VcbLabels, Doomed, Frees, Rooted, Found
  <2>6. Doomed'
      BY SMTT(60), <1>1, <1>5, <2>1 DEF Agents, TypeOK, ThreadPc, WorkerPc, SharedHold, Doomed, Frees,
          Placed, OnNode, Locked, VcbLabels
  <2>7. ClaimHasOneOwner'
      BY <1>1, <1>5, <2>1 DEF Agents, TypeOK, ThreadPc, WorkerPc, SharedHold, ClaimHasOneOwner,
          HoldsClaim, Placed, OnNode
  <2>8. BatchInHand'
      BY <1>1, <1>5, <2>1 DEF Agents, TypeOK, ThreadPc, WorkerPc, SharedHold, BatchInHand
  <2>9. GateHeld'
      BY <1>1, <1>5, <2>1 DEF Agents, TypeOK, ThreadPc, WorkerPc, SharedHold, GateHeld, Gated,
          Closing
  <2>10. Closing'
      BY <1>1, <1>5, <2>1 DEF Agents, TypeOK, ThreadPc, WorkerPc, SharedHold, Closing, GateHeld,
          Gated
  <2>11. Rooted' /\ (OnReapList \subseteq Resident)'
      BY SMTT(60), <1>1, <1>5, <2>1 DEF Rooted
  <2>12. QED
      BY <2>2, <2>3, <2>4, <2>5, <2>6, <2>7, <2>8, <2>9, <2>10, <2>11 DEF IInv
<1>6. QED
    BY <1>2, <1>3, <1>4, <1>5

LEMMA ColdOpenKeeps ==
    ASSUME IInv, NEW t \in Threads, ColdOpen(t)
    PROVE IInv'
<1> DEFINE Opened ==
        /\ pc[t] = "coldOpen"
        /\ RefCount' = [RefCount EXCEPT ![cur[t]] = @ \cup {t}]
        /\ Handle' = [Handle EXCEPT ![t] = cur[t]]
        /\ pc' = [pc EXCEPT ![t] = "publish"]
        /\ UNCHANGED <<Resident, Dcbs, Published, PinCount, OnReapList, ReapList, Batch, Queued, ShuttingDown, WorkItem, VcbOwner, cur, target, teardown>>
<1> DEFINE Conflict ==
        /\ pc[t] = "coldOpen"
        /\ RefCount' = [RefCount EXCEPT ![cur[t]] = @ \cup {t}]
        /\ pc' = [pc EXCEPT ![t] = "coldUndo"]
        /\ UNCHANGED <<Resident, Dcbs, Published, PinCount, Handle, OnReapList, ReapList, Batch, Queued, ShuttingDown, WorkItem, VcbOwner, cur, target, teardown>>
<1> DEFINE Failed ==
        /\ pc[t] = "coldOpen"
        /\ pc' = [pc EXCEPT ![t] = "readRef"]
        /\ UNCHANGED <<Resident, Dcbs, Published, RefCount, PinCount, Handle, OnReapList, ReapList, Batch, Queued, ShuttingDown, WorkItem, VcbOwner, cur, target, teardown>>
<1>1. /\ TypeOK /\ Locked /\ Counted /\ Rooted /\ Placed /\ Doomed /\ ClaimHasOneOwner
      /\ OnReapList \subseteq Resident /\ BatchInHand /\ GateHeld /\ Closing
    BY DEF IInv
<1>2. Opened \/ Conflict \/ Failed
    BY <1>1 DEF ColdOpen, Goto, OpenExisting, tableVars, countVars, reapVars, gateVars, TypeOK,
        Agents
<1>3. ASSUME Opened PROVE IInv'
  <2>1. TypeOK'
      BY <1>1, <1>3 DEF Agents, TypeOK, ThreadPc, WorkerPc, SharedHold, Placed, OnNode
  <2>2. Locked'
      BY <1>1, <1>3 DEF Agents, TypeOK, ThreadPc, WorkerPc, SharedHold, Locked, VcbLabels
  <2>3. Counted'
      BY SMTT(30), <1>1, <1>3 DEF Agents, TypeOK, ThreadPc, WorkerPc, SharedHold, Counted, Rooted, Placed,
          OnNode
  <2>4. Placed'
      BY <1>1, <1>3 DEF Agents, TypeOK, ThreadPc, WorkerPc, SharedHold, Placed, OnNode, Locked,
          VcbLabels, Doomed, Frees
  <2>5. Doomed'
      BY SMTT(60), <1>1, <1>3 DEF Agents, TypeOK, ThreadPc, WorkerPc, SharedHold, Doomed, Frees, Placed,
          OnNode, Locked, VcbLabels
  <2>6. ClaimHasOneOwner'
      BY <1>1, <1>3 DEF Agents, TypeOK, ThreadPc, WorkerPc, SharedHold, ClaimHasOneOwner,
          HoldsClaim, Placed, OnNode
  <2>7. BatchInHand'
      BY <1>1, <1>3 DEF Agents, TypeOK, ThreadPc, WorkerPc, SharedHold, BatchInHand
  <2>8. GateHeld'
      BY <1>1, <1>3 DEF Agents, TypeOK, ThreadPc, WorkerPc, SharedHold, GateHeld, Gated, Closing
  <2>9. Closing'
      BY <1>1, <1>3 DEF Agents, TypeOK, ThreadPc, WorkerPc, SharedHold, Closing, GateHeld, Gated
  <2>10. Rooted' /\ (OnReapList \subseteq Resident)'
      BY <1>1, <1>3 DEF Rooted
  <2>11. QED
      BY <2>1, <2>2, <2>3, <2>4, <2>5, <2>6, <2>7, <2>8, <2>9, <2>10 DEF IInv
<1>4. ASSUME Conflict PROVE IInv'
  <2>1. TypeOK'
      BY <1>1, <1>4 DEF Agents, TypeOK, ThreadPc, WorkerPc, SharedHold, Placed, OnNode
  <2>2. Locked'
      BY SMTT(60), <1>1, <1>4 DEF Agents, TypeOK, ThreadPc, WorkerPc, SharedHold, Locked, VcbLabels
  <2>3. Counted'
      BY SMTT(60), <1>1, <1>4 DEF Agents, TypeOK, ThreadPc, WorkerPc, SharedHold, Counted, Rooted, Placed,
          OnNode
  <2>4. Placed'
      BY SMTT(60), <1>1, <1>4 DEF Agents, TypeOK, ThreadPc, WorkerPc, SharedHold, Placed, OnNode, Locked,
          VcbLabels, Doomed, Frees
  <2>5. Doomed'
      BY SMTT(60), <1>1, <1>4 DEF Agents, TypeOK, ThreadPc, WorkerPc, SharedHold, Doomed, Frees, Placed,
          OnNode, Locked, VcbLabels
  <2>6. ClaimHasOneOwner'
      BY <1>1, <1>4 DEF Agents, TypeOK, ThreadPc, WorkerPc, SharedHold, ClaimHasOneOwner,
          HoldsClaim, Placed, OnNode
  <2>7. BatchInHand'
      BY <1>1, <1>4 DEF Agents, TypeOK, ThreadPc, WorkerPc, SharedHold, BatchInHand
  <2>8. GateHeld'
      BY <1>1, <1>4 DEF Agents, TypeOK, ThreadPc, WorkerPc, SharedHold, GateHeld, Gated, Closing
  <2>9. Closing'
      BY <1>1, <1>4 DEF Agents, TypeOK, ThreadPc, WorkerPc, SharedHold, Closing, GateHeld, Gated
  <2>10. Rooted' /\ (OnReapList \subseteq Resident)'
      BY <1>1, <1>4 DEF Rooted
  <2>11. QED
      BY <2>1, <2>2, <2>3, <2>4, <2>5, <2>6, <2>7, <2>8, <2>9, <2>10 DEF IInv
<1>5. ASSUME Failed PROVE IInv'
  <2>1. TypeOK'
      BY <1>1, <1>5 DEF Agents, TypeOK, ThreadPc, WorkerPc, SharedHold, Placed, OnNode
  <2>2. Locked'
      BY SMTT(60), <1>1, <1>5 DEF Agents, TypeOK, ThreadPc, WorkerPc, SharedHold, Locked, VcbLabels
  <2>3. Counted'
      BY SMTT(60), <1>1, <1>5 DEF Agents, TypeOK, ThreadPc, WorkerPc, SharedHold, Counted, Rooted, Placed,
          OnNode
  <2>4. Placed'
      BY SMTT(60), <1>1, <1>5 DEF Agents, TypeOK, ThreadPc, WorkerPc, SharedHold, Placed, OnNode, Locked,
          VcbLabels, Doomed, Frees
  <2>5. Doomed'
      BY SMTT(60), <1>1, <1>5 DEF Agents, TypeOK, ThreadPc, WorkerPc, SharedHold, Doomed, Frees, Placed,
          OnNode, Locked, VcbLabels
  <2>6. ClaimHasOneOwner'
      BY <1>1, <1>5 DEF Agents, TypeOK, ThreadPc, WorkerPc, SharedHold, ClaimHasOneOwner,
          HoldsClaim, Placed, OnNode
  <2>7. BatchInHand'
      BY SMTT(60), <1>1, <1>5 DEF Agents, TypeOK, ThreadPc, WorkerPc, SharedHold, BatchInHand
  <2>8. GateHeld'
      BY <1>1, <1>5 DEF Agents, TypeOK, ThreadPc, WorkerPc, SharedHold, GateHeld, Gated, Closing
  <2>9. Closing'
      BY <1>1, <1>5 DEF Agents, TypeOK, ThreadPc, WorkerPc, SharedHold, Closing, GateHeld, Gated
  <2>10. Rooted' /\ (OnReapList \subseteq Resident)'
      BY <1>1, <1>5 DEF Rooted
  <2>11. QED
      BY SMTT(60), <2>1, <2>2, <2>3, <2>4, <2>5, <2>6, <2>7, <2>8, <2>9, <2>10 DEF IInv
<1>6. QED
    BY <1>2, <1>3, <1>4, <1>5

LEMMA ColdShareConflictKeeps ==
    ASSUME IInv, NEW t \in Threads, ColdShareConflict(t)
    PROVE IInv'
<1>1. /\ TypeOK /\ Locked /\ Counted /\ Rooted /\ Placed /\ Doomed /\ ClaimHasOneOwner
      /\ OnReapList \subseteq Resident /\ BatchInHand /\ GateHeld /\ Closing
    BY DEF IInv
<1>2. /\ pc[t] = "coldUndo"
      /\ RefCount' = [RefCount EXCEPT ![cur[t]] = @ \ {t}]
      /\ pc' = [pc EXCEPT ![t] = "readRef"]
      /\ UNCHANGED <<Resident, Dcbs, Published, PinCount, Handle, OnReapList, ReapList, Batch, Queued, ShuttingDown, WorkItem, VcbOwner, cur, target, teardown>>
    BY SMTT(60) DEF ColdShareConflict, Goto, UndoOpen, tableVars, countVars, reapVars, gateVars
<1>3. TypeOK'
    BY <1>1, <1>2 DEF Agents, TypeOK, ThreadPc, WorkerPc, SharedHold, Placed, OnNode
<1>4. Locked'
    BY SMTT(60), <1>1, <1>2 DEF Agents, TypeOK, ThreadPc, WorkerPc, SharedHold, Locked, VcbLabels
<1>5. Counted'
    BY SMTT(60), <1>1, <1>2 DEF Agents, TypeOK, ThreadPc, WorkerPc, SharedHold, Counted, Rooted, Placed,
        OnNode
<1>6. Placed'
    BY SMTT(60), <1>1, <1>2 DEF Agents, TypeOK, ThreadPc, WorkerPc, SharedHold, Placed, OnNode, Locked,
        VcbLabels, Doomed, Frees
<1>7. Doomed'
    BY SMTT(60), <1>1, <1>2 DEF Agents, TypeOK, ThreadPc, WorkerPc, SharedHold, Doomed, Frees, Placed,
        OnNode, Locked, VcbLabels
<1>8. ClaimHasOneOwner'
    BY <1>1, <1>2 DEF Agents, TypeOK, ThreadPc, WorkerPc, SharedHold, ClaimHasOneOwner,
        HoldsClaim, Placed, OnNode
<1>9. BatchInHand'
    BY SMTT(60), <1>1, <1>2 DEF Agents, TypeOK, ThreadPc, WorkerPc, SharedHold, BatchInHand
<1>10. GateHeld'
    BY SMTT(60), <1>1, <1>2 DEF Agents, TypeOK, ThreadPc, WorkerPc, SharedHold, GateHeld, Gated, Closing
<1>11. Closing'
    BY <1>1, <1>2 DEF Agents, TypeOK, ThreadPc, WorkerPc, SharedHold, Closing, GateHeld, Gated
<1>12. Rooted' /\ (OnReapList \subseteq Resident)'
    BY <1>1, <1>2 DEF Rooted
<1>13. QED
    BY <1>3, <1>4, <1>5, <1>6, <1>7, <1>8, <1>9, <1>10, <1>11, <1>12 DEF IInv

LEMMA BlorgNodeTablePublishKeeps ==
    ASSUME IInv, NEW t \in Threads, BlorgNodeTablePublish(t)
    PROVE IInv'
<1>1. /\ TypeOK /\ Locked /\ Counted /\ Rooted /\ Placed /\ Doomed /\ ClaimHasOneOwner
      /\ OnReapList \subseteq Resident /\ BatchInHand /\ GateHeld /\ Closing
    BY DEF IInv
<1>2. /\ pc[t] = "publish"
      /\ Published' = Published \cup {cur[t]}
      /\ VcbOwner' = IF VcbOwner = t THEN Nobody ELSE VcbOwner
      /\ pc' = [pc EXCEPT ![t] = "idle"]
      /\ cur' = [cur EXCEPT ![t] = Root]
      /\ target' = [target EXCEPT ![t] = Root]
      /\ UNCHANGED <<Resident, Dcbs, RefCount, PinCount, Handle, OnReapList, ReapList, Batch, Queued, ShuttingDown, WorkItem, teardown>>
    BY SMTT(60) DEF BlorgNodeTablePublish, Goto, Leave, tableVars, countVars, reapVars, gateVars
<1>3. TypeOK'
    BY SMTT(60), <1>1, <1>2 DEF Agents, TypeOK, ThreadPc, WorkerPc, SharedHold, Placed, OnNode
<1>4. Locked'
    BY SMTT(60), <1>1, <1>2 DEF Agents, TypeOK, ThreadPc, WorkerPc, SharedHold, Locked, VcbLabels
<1>5. Counted'
    BY SMTT(60), <1>1, <1>2 DEF Agents, TypeOK, ThreadPc, WorkerPc, SharedHold, Counted, Rooted, Placed,
        OnNode
<1>6. Rooted'
    BY SMTT(60), <1>1, <1>2 DEF Agents, TypeOK, ThreadPc, WorkerPc, SharedHold, Rooted, Placed, OnNode,
        Doomed, Frees
<1>7. Placed'
    BY SMTT(60), <1>1, <1>2 DEF Agents, TypeOK, ThreadPc, WorkerPc, SharedHold, Placed, OnNode, Locked,
        VcbLabels, Doomed, Frees
<1>8. Doomed'
    BY SMTT(60), <1>1, <1>2 DEF Agents, TypeOK, ThreadPc, WorkerPc, SharedHold, Doomed, Frees, Placed,
        OnNode, Locked, VcbLabels
<1>9. ClaimHasOneOwner'
    BY <1>1, <1>2 DEF Agents, TypeOK, ThreadPc, WorkerPc, SharedHold, ClaimHasOneOwner,
        HoldsClaim, Placed, OnNode
<1>10. BatchInHand'
    BY SMTT(60), <1>1, <1>2 DEF Agents, TypeOK, ThreadPc, WorkerPc, SharedHold, BatchInHand
<1>11. GateHeld'
    BY SMTT(60), <1>1, <1>2 DEF Agents, TypeOK, ThreadPc, WorkerPc, SharedHold, GateHeld, Gated, Closing
<1>12. Closing'
    BY <1>1, <1>2 DEF Agents, TypeOK, ThreadPc, WorkerPc, SharedHold, Closing, GateHeld, Gated
<1>13. (OnReapList \subseteq Resident)'
    BY <1>1, <1>2
<1>14. QED
    BY <1>3, <1>4, <1>5, <1>6, <1>7, <1>8, <1>9, <1>10, <1>11, <1>12, <1>13 DEF IInv
=============================================================================
