------------------------- MODULE NodeTableDropProofs -------------------------
(***************************************************************************)
(* The last drop of a node, its claim and the hand-over to the reap worker *)
(* keep the inductive invariant.                                           *)
(***************************************************************************)
EXTENDS NodeTableInvariant

USE NodeTableAssumption

LEMMA NodeDeferReapReadRefCountKeeps ==
    ASSUME IInv, NEW t \in Threads, NodeDeferReapReadRefCount(t)
    PROVE IInv'
<1> DEFINE Unreferenced ==
        /\ pc[t] = "readRef"
        /\ pc' = [pc EXCEPT ![t] = "readPin"]
        /\ UNCHANGED <<Resident, Dcbs, Published, RefCount, PinCount, Handle, OnReapList, ReapList, Batch, Queued, ShuttingDown, WorkItem, VcbOwner, cur, target, teardown>>
<1> DEFINE Busy ==
        /\ pc[t] = "readRef"
        /\ VcbOwner' = IF VcbOwner = t THEN Nobody ELSE VcbOwner
        /\ pc' = [pc EXCEPT ![t] = "idle"]
        /\ cur' = [cur EXCEPT ![t] = Root]
        /\ target' = [target EXCEPT ![t] = Root]
        /\ UNCHANGED <<Resident, Dcbs, Published, RefCount, PinCount, Handle, OnReapList, ReapList, Batch, Queued, ShuttingDown, WorkItem, teardown>>
<1>1. /\ TypeOK /\ Locked /\ Counted /\ Rooted /\ Placed /\ Doomed /\ ClaimHasOneOwner
      /\ OnReapList \subseteq Resident /\ BatchInHand /\ GateHeld /\ Closing
    BY DEF IInv
<1>2. Unreferenced \/ Busy
    BY <1>1 DEF NodeDeferReapReadRefCount, Goto, Leave, Continue, tableVars, countVars,
        reapVars, gateVars, TypeOK, Agents
<1>3. ASSUME Unreferenced PROVE IInv'
  <2>1. TypeOK'
      BY <1>1, <1>3 DEF Agents, TypeOK, ThreadPc, WorkerPc, SharedHold, Placed, OnNode
  <2>2. Locked'
      BY <1>1, <1>3 DEF Agents, TypeOK, ThreadPc, WorkerPc, SharedHold, Locked, VcbLabels
  <2>3. Counted'
      BY <1>1, <1>3 DEF Agents, TypeOK, ThreadPc, WorkerPc, SharedHold, Counted, Rooted, Placed,
          OnNode
  <2>4. Placed'
      BY <1>1, <1>3 DEF Agents, TypeOK, ThreadPc, WorkerPc, SharedHold, Placed, OnNode, Locked,
          VcbLabels, Doomed, Frees
  <2>5. Doomed'
      BY SMTT(60), <1>1, <1>3 DEF Agents, TypeOK, ThreadPc, WorkerPc, SharedHold, Doomed, Frees, Placed,
          OnNode, Locked, VcbLabels
  <2>6. ClaimHasOneOwner'
      BY <1>1, <1>3 DEF Agents, TypeOK, ThreadPc, WorkerPc, SharedHold, ClaimHasOneOwner,
          HoldsClaim, Placed, OnNode
  <2>7. BatchInHand'
      BY <1>1, <1>3 DEF Agents, TypeOK, ThreadPc, WorkerPc, SharedHold, BatchInHand
  <2>8. GateHeld'
      BY <1>1, <1>3 DEF Agents, TypeOK, ThreadPc, WorkerPc, SharedHold, GateHeld, Gated, Closing
  <2>9. Closing'
      BY <1>1, <1>3 DEF Agents, TypeOK, ThreadPc, WorkerPc, SharedHold, Closing, GateHeld, Gated
  <2>10. Rooted' /\ (OnReapList \subseteq Resident)'
      BY <1>1, <1>3 DEF Rooted
  <2>11. QED
      BY <2>1, <2>2, <2>3, <2>4, <2>5, <2>6, <2>7, <2>8, <2>9, <2>10 DEF IInv
<1>4. ASSUME Busy PROVE IInv'
  <2>1. TypeOK'
      BY <1>1, <1>4 DEF Agents, TypeOK, ThreadPc, WorkerPc, SharedHold, Placed, OnNode
  <2>2. Locked'
      BY <1>1, <1>4 DEF Agents, TypeOK, ThreadPc, WorkerPc, SharedHold, Locked, VcbLabels
  <2>3. Counted'
      BY <1>1, <1>4 DEF Agents, TypeOK, ThreadPc, WorkerPc, SharedHold, Counted, Rooted, Placed,
          OnNode
  <2>4. Placed'
      BY <1>1, <1>4 DEF Agents, TypeOK, ThreadPc, WorkerPc, SharedHold, Placed, OnNode, Locked,
          VcbLabels, Doomed, Frees
  <2>5. Doomed'
      BY SMTT(60), <1>1, <1>4 DEF Agents, TypeOK, ThreadPc, WorkerPc, SharedHold, Doomed, Frees, Placed,
          OnNode, Locked, VcbLabels
  <2>6. ClaimHasOneOwner'
      BY <1>1, <1>4 DEF Agents, TypeOK, ThreadPc, WorkerPc, SharedHold, ClaimHasOneOwner,
          HoldsClaim, Placed, OnNode
  <2>7. BatchInHand'
      BY <1>1, <1>4 DEF Agents, TypeOK, ThreadPc, WorkerPc, SharedHold, BatchInHand
  <2>8. GateHeld'
      BY <1>1, <1>4 DEF Agents, TypeOK, ThreadPc, WorkerPc, SharedHold, GateHeld, Gated, Closing
  <2>9. Closing'
      BY <1>1, <1>4 DEF Agents, TypeOK, ThreadPc, WorkerPc, SharedHold, Closing, GateHeld, Gated
  <2>10. Rooted' /\ (OnReapList \subseteq Resident)'
      BY <1>1, <1>4 DEF Rooted
  <2>11. QED
      BY <2>1, <2>2, <2>3, <2>4, <2>5, <2>6, <2>7, <2>8, <2>9, <2>10 DEF IInv
<1>5. QED
    BY <1>2, <1>3, <1>4

LEMMA NodeDeferReapReadPinCountKeeps ==
    ASSUME IInv, NEW t \in Threads, NodeDeferReapReadPinCount(t)
    PROVE IInv'
<1> DEFINE Unpinned ==
        /\ pc[t] = "readPin"
        /\ pc' = [pc EXCEPT ![t] = "claim"]
        /\ UNCHANGED <<Resident, Dcbs, Published, RefCount, PinCount, Handle, OnReapList, ReapList, Batch, Queued, ShuttingDown, WorkItem, VcbOwner, cur, target, teardown>>
<1> DEFINE Busy ==
        /\ pc[t] = "readPin"
        /\ VcbOwner' = IF VcbOwner = t THEN Nobody ELSE VcbOwner
        /\ pc' = [pc EXCEPT ![t] = "idle"]
        /\ cur' = [cur EXCEPT ![t] = Root]
        /\ target' = [target EXCEPT ![t] = Root]
        /\ UNCHANGED <<Resident, Dcbs, Published, RefCount, PinCount, Handle, OnReapList, ReapList, Batch, Queued, ShuttingDown, WorkItem, teardown>>
<1>1. /\ TypeOK /\ Locked /\ Counted /\ Rooted /\ Placed /\ Doomed /\ ClaimHasOneOwner
      /\ OnReapList \subseteq Resident /\ BatchInHand /\ GateHeld /\ Closing
    BY DEF IInv
<1>2. Unpinned \/ Busy
    BY <1>1 DEF NodeDeferReapReadPinCount, Goto, Leave, Continue, tableVars, countVars,
        reapVars, gateVars, TypeOK, Agents
<1>3. ASSUME Unpinned PROVE IInv'
  <2>1. TypeOK'
      BY <1>1, <1>3 DEF Agents, TypeOK, ThreadPc, WorkerPc, SharedHold, Placed, OnNode
  <2>2. Locked'
      BY <1>1, <1>3 DEF Agents, TypeOK, ThreadPc, WorkerPc, SharedHold, Locked, VcbLabels
  <2>3. Counted'
      BY <1>1, <1>3 DEF Agents, TypeOK, ThreadPc, WorkerPc, SharedHold, Counted, Rooted, Placed,
          OnNode
  <2>4. Placed'
      BY <1>1, <1>3 DEF Agents, TypeOK, ThreadPc, WorkerPc, SharedHold, Placed, OnNode, Locked,
          VcbLabels, Doomed, Frees
  <2>5. Doomed'
      BY SMTT(60), <1>1, <1>3 DEF Agents, TypeOK, ThreadPc, WorkerPc, SharedHold, Doomed, Frees, Placed,
          OnNode, Locked, VcbLabels
  <2>6. ClaimHasOneOwner'
      BY <1>1, <1>3 DEF Agents, TypeOK, ThreadPc, WorkerPc, SharedHold, ClaimHasOneOwner,
          HoldsClaim, Placed, OnNode
  <2>7. BatchInHand'
      BY <1>1, <1>3 DEF Agents, TypeOK, ThreadPc, WorkerPc, SharedHold, BatchInHand
  <2>8. GateHeld'
      BY <1>1, <1>3 DEF Agents, TypeOK, ThreadPc, WorkerPc, SharedHold, GateHeld, Gated, Closing
  <2>9. Closing'
      BY <1>1, <1>3 DEF Agents, TypeOK, ThreadPc, WorkerPc, SharedHold, Closing, GateHeld, Gated
  <2>10. Rooted' /\ (OnReapList \subseteq Resident)'
      BY <1>1, <1>3 DEF Rooted
  <2>11. QED
      BY <2>1, <2>2, <2>3, <2>4, <2>5, <2>6, <2>7, <2>8, <2>9, <2>10 DEF IInv
<1>4. ASSUME Busy PROVE IInv'
  <2>1. TypeOK'
      BY <1>1, <1>4 DEF Agents, TypeOK, ThreadPc, WorkerPc, SharedHold, Placed, OnNode
  <2>2. Locked'
      BY <1>1, <1>4 DEF Agents, TypeOK, ThreadPc, WorkerPc, SharedHold, Locked, VcbLabels
  <2>3. Counted'
      BY <1>1, <1>4 DEF Agents, TypeOK, ThreadPc, WorkerPc, SharedHold, Counted, Rooted, Placed,
          OnNode
  <2>4. Placed'
      BY <1>1, <1>4 DEF Agents, TypeOK, ThreadPc, WorkerPc, SharedHold, Placed, OnNode, Locked,
          VcbLabels, Doomed, Frees
  <2>5. Doomed'
      BY SMTT(60), <1>1, <1>4 DEF Agents, TypeOK, ThreadPc, WorkerPc, SharedHold, Doomed, Frees, Placed,
          OnNode, Locked, VcbLabels
  <2>6. ClaimHasOneOwner'
      BY <1>1, <1>4 DEF Agents, TypeOK, ThreadPc, WorkerPc, SharedHold, ClaimHasOneOwner,
          HoldsClaim, Placed, OnNode
  <2>7. BatchInHand'
      BY <1>1, <1>4 DEF Agents, TypeOK, ThreadPc, WorkerPc, SharedHold, BatchInHand
  <2>8. GateHeld'
      BY <1>1, <1>4 DEF Agents, TypeOK, ThreadPc, WorkerPc, SharedHold, GateHeld, Gated, Closing
  <2>9. Closing'
      BY <1>1, <1>4 DEF Agents, TypeOK, ThreadPc, WorkerPc, SharedHold, Closing, GateHeld, Gated
  <2>10. Rooted' /\ (OnReapList \subseteq Resident)'
      BY <1>1, <1>4 DEF Rooted
  <2>11. QED
      BY <2>1, <2>2, <2>3, <2>4, <2>5, <2>6, <2>7, <2>8, <2>9, <2>10 DEF IInv
<1>5. QED
    BY <1>2, <1>3, <1>4

LEMMA NodeDeferReapClaimKeeps ==
    ASSUME IInv, NEW t \in Threads, NodeDeferReapClaim(t)
    PROVE IInv'
<1> DEFINE Won ==
        /\ pc[t] = "claim" /\ cur[t] \notin OnReapList
        /\ OnReapList' = OnReapList \cup {cur[t]}
        /\ pc' = [pc EXCEPT ![t] = "push"]
        /\ UNCHANGED <<Resident, Dcbs, Published, RefCount, PinCount, Handle, ReapList, Batch, Queued, ShuttingDown, WorkItem, VcbOwner, cur, target, teardown>>
<1> DEFINE Lost ==
        /\ pc[t] = "claim"
        /\ VcbOwner' = IF VcbOwner = t THEN Nobody ELSE VcbOwner
        /\ pc' = [pc EXCEPT ![t] = "idle"]
        /\ cur' = [cur EXCEPT ![t] = Root]
        /\ target' = [target EXCEPT ![t] = Root]
        /\ UNCHANGED <<Resident, Dcbs, Published, RefCount, PinCount, Handle, OnReapList, ReapList, Batch, Queued, ShuttingDown, WorkItem, teardown>>
<1>1. /\ TypeOK /\ Locked /\ Counted /\ Rooted /\ Placed /\ Doomed /\ ClaimHasOneOwner
      /\ OnReapList \subseteq Resident /\ BatchInHand /\ GateHeld /\ Closing
    BY DEF IInv
<1>2. Won \/ Lost
    BY <1>1 DEF NodeDeferReapClaim, Goto, Leave, Continue, tableVars, countVars, reapVars,
        gateVars, TypeOK, Agents
<1>3. ASSUME Won PROVE IInv'
  <2>1. TypeOK'
      BY <1>1, <1>3 DEF Agents, TypeOK, ThreadPc, WorkerPc, SharedHold, Placed, OnNode
  <2>2. Locked'
      BY <1>1, <1>3 DEF Agents, TypeOK, ThreadPc, WorkerPc, SharedHold, Locked, VcbLabels
  <2>3. Counted'
      BY <1>1, <1>3 DEF Agents, TypeOK, ThreadPc, WorkerPc, SharedHold, Counted, Rooted, Placed,
          OnNode
  <2>4. Placed'
      BY <1>1, <1>3 DEF Agents, TypeOK, ThreadPc, WorkerPc, SharedHold, Placed, OnNode, Locked,
          VcbLabels, Doomed, Frees
  <2>5. Doomed'
      BY SMTT(60), <1>1, <1>3 DEF Agents, TypeOK, ThreadPc, WorkerPc, SharedHold, Doomed, Frees, Placed,
          OnNode, Locked, VcbLabels
  <2>6. ClaimHasOneOwner'
      BY <1>1, <1>3 DEF Agents, TypeOK, ThreadPc, WorkerPc, SharedHold, ClaimHasOneOwner,
          HoldsClaim, Placed, OnNode
  <2>7. (OnReapList \subseteq Resident)'
      BY <1>1, <1>3 DEF Agents, TypeOK, ThreadPc, WorkerPc, SharedHold, Placed, OnNode
  <2>8. BatchInHand'
      BY <1>1, <1>3 DEF Agents, TypeOK, ThreadPc, WorkerPc, SharedHold, BatchInHand
  <2>9. GateHeld'
      BY <1>1, <1>3 DEF Agents, TypeOK, ThreadPc, WorkerPc, SharedHold, GateHeld, Gated, Closing
  <2>10. Closing'
      BY <1>1, <1>3 DEF Agents, TypeOK, ThreadPc, WorkerPc, SharedHold, Closing, GateHeld, Gated
  <2>11. Rooted'
      BY <1>1, <1>3 DEF Rooted
  <2>12. QED
      BY <2>1, <2>2, <2>3, <2>4, <2>5, <2>6, <2>7, <2>8, <2>9, <2>10, <2>11 DEF IInv
<1>4. ASSUME Lost PROVE IInv'
  <2>1. TypeOK'
      BY <1>1, <1>4 DEF Agents, TypeOK, ThreadPc, WorkerPc, SharedHold, Placed, OnNode
  <2>2. Locked'
      BY <1>1, <1>4 DEF Agents, TypeOK, ThreadPc, WorkerPc, SharedHold, Locked, VcbLabels
  <2>3. Counted'
      BY <1>1, <1>4 DEF Agents, TypeOK, ThreadPc, WorkerPc, SharedHold, Counted, Rooted, Placed,
          OnNode
  <2>4. Placed'
      BY <1>1, <1>4 DEF Agents, TypeOK, ThreadPc, WorkerPc, SharedHold, Placed, OnNode, Locked,
          VcbLabels, Doomed, Frees
  <2>5. Doomed'
      BY SMTT(60), <1>1, <1>4 DEF Agents, TypeOK, ThreadPc, WorkerPc, SharedHold, Doomed, Frees, Placed,
          OnNode, Locked, VcbLabels
  <2>6. ClaimHasOneOwner'
      BY <1>1, <1>4 DEF Agents, TypeOK, ThreadPc, WorkerPc, SharedHold, ClaimHasOneOwner,
          HoldsClaim, Placed, OnNode
  <2>7. BatchInHand'
      BY <1>1, <1>4 DEF Agents, TypeOK, ThreadPc, WorkerPc, SharedHold, BatchInHand
  <2>8. GateHeld'
      BY <1>1, <1>4 DEF Agents, TypeOK, ThreadPc, WorkerPc, SharedHold, GateHeld, Gated, Closing
  <2>9. Closing'
      BY <1>1, <1>4 DEF Agents, TypeOK, ThreadPc, WorkerPc, SharedHold, Closing, GateHeld, Gated
  <2>10. Rooted' /\ (OnReapList \subseteq Resident)'
      BY <1>1, <1>4 DEF Rooted
  <2>11. QED
      BY <2>1, <2>2, <2>3, <2>4, <2>5, <2>6, <2>7, <2>8, <2>9, <2>10 DEF IInv
<1>5. QED
    BY <1>2, <1>3, <1>4

LEMMA NodeDeferReapPushKeeps ==
    ASSUME IInv, NEW t \in Threads, NodeDeferReapPush(t)
    PROVE IInv'
<1>1. /\ TypeOK /\ Locked /\ Counted /\ Rooted /\ Placed /\ Doomed /\ ClaimHasOneOwner
      /\ OnReapList \subseteq Resident /\ BatchInHand /\ GateHeld /\ Closing
    BY DEF IInv
<1>2. /\ pc[t] = "push"
      /\ ReapList' = ReapList \cup {cur[t]}
      /\ pc' = [pc EXCEPT ![t] = "kick"]
      /\ UNCHANGED <<Resident, Dcbs, Published, RefCount, PinCount, Handle, OnReapList, Batch, Queued, ShuttingDown, WorkItem, VcbOwner, cur, target, teardown>>
    BY DEF NodeDeferReapPush, Goto, tableVars, countVars, reapVars, gateVars
<1>3. TypeOK'
    BY <1>1, <1>2 DEF Agents, TypeOK, ThreadPc, WorkerPc, SharedHold, Placed, OnNode
<1>4. Locked'
    BY <1>1, <1>2 DEF Agents, TypeOK, ThreadPc, WorkerPc, SharedHold, Locked, VcbLabels
<1>5. Counted'
    BY <1>1, <1>2 DEF Agents, TypeOK, ThreadPc, WorkerPc, SharedHold, Counted, Rooted, Placed,
        OnNode
<1>6. Placed'
    BY <1>1, <1>2 DEF Agents, TypeOK, ThreadPc, WorkerPc, SharedHold, Placed, OnNode, Locked,
        VcbLabels, Doomed, Frees
<1>7. Doomed'
    BY SMTT(60), <1>1, <1>2 DEF Agents, TypeOK, ThreadPc, WorkerPc, SharedHold, Doomed, Frees, Placed,
        OnNode, Locked, VcbLabels
<1>8. ClaimHasOneOwner'
    BY SMTT(60), <1>1, <1>2 DEF Agents, TypeOK, ThreadPc, WorkerPc, SharedHold, ClaimHasOneOwner,
        HoldsClaim, Placed, OnNode
<1>9. BatchInHand'
    BY <1>1, <1>2 DEF Agents, TypeOK, ThreadPc, WorkerPc, SharedHold, BatchInHand
<1>10. GateHeld'
    BY <1>1, <1>2 DEF Agents, TypeOK, ThreadPc, WorkerPc, SharedHold, GateHeld, Gated, Closing
<1>11. Closing'
    BY <1>1, <1>2 DEF Agents, TypeOK, ThreadPc, WorkerPc, SharedHold, Closing, GateHeld, Gated
<1>12. Rooted' /\ (OnReapList \subseteq Resident)'
    BY <1>1, <1>2 DEF Rooted
<1>13. QED
    BY <1>3, <1>4, <1>5, <1>6, <1>7, <1>8, <1>9, <1>10, <1>11, <1>12 DEF IInv

LEMMA NodeReapKickKeeps ==
    ASSUME IInv, NEW a \in Agents, NodeReapKick(a)
    PROVE IInv'
<1> DEFINE Closed ==
        /\ pc[a] = "kick"
        /\ VcbOwner' = IF VcbOwner = a THEN Nobody ELSE VcbOwner
        /\ pc' = [pc EXCEPT ![a] = "idle"]
        /\ cur' = [cur EXCEPT ![a] = Root]
        /\ target' = [target EXCEPT ![a] = Root]
        /\ UNCHANGED <<Resident, Dcbs, Published, RefCount, PinCount, Handle, OnReapList, ReapList, Batch, Queued, ShuttingDown, WorkItem, teardown>>
<1> DEFINE Open ==
        /\ pc[a] = "kick" /\ ~Queued /\ ~ShuttingDown
        /\ Queued' = TRUE
        /\ pc' = [pc EXCEPT ![a] = "queue"]
        /\ UNCHANGED <<Resident, Dcbs, Published, RefCount, PinCount, Handle, OnReapList, ReapList, Batch, ShuttingDown, WorkItem, VcbOwner, cur, target, teardown>>
<1>1. /\ TypeOK /\ Locked /\ Counted /\ Rooted /\ Placed /\ Doomed /\ ClaimHasOneOwner
      /\ OnReapList \subseteq Resident /\ BatchInHand /\ GateHeld /\ Closing
    BY DEF IInv
<1>2. Closed \/ Open
    BY <1>1 DEF NodeReapKick, Goto, Leave, Continue, tableVars, countVars, reapVars, gateVars,
        TypeOK, Agents
<1>3. ASSUME Closed PROVE IInv'
  <2>1. TypeOK'
      BY <1>1, <1>3 DEF Agents, TypeOK, ThreadPc, WorkerPc, SharedHold, Placed, OnNode
  <2>2. Locked'
      BY <1>1, <1>3 DEF Agents, TypeOK, ThreadPc, WorkerPc, SharedHold, Locked, VcbLabels
  <2>3. Counted'
      BY SMTT(90), <1>1, <1>3 DEF Agents, TypeOK, ThreadPc, WorkerPc, SharedHold, Counted, Rooted, Placed,
          OnNode
  <2>4. Placed'
      BY SMTT(90), <1>1, <1>3 DEF Agents, TypeOK, ThreadPc, WorkerPc, SharedHold, Placed, OnNode, Locked,
          VcbLabels, Doomed, Frees
  <2>5. Doomed'
      BY SMTT(90), <1>1, <1>3 DEF Agents, TypeOK, ThreadPc, WorkerPc, SharedHold, Doomed, Frees, Placed,
          OnNode, Locked, VcbLabels
  <2>6. ClaimHasOneOwner'
      BY <1>1, <1>3 DEF Agents, TypeOK, ThreadPc, WorkerPc, SharedHold, ClaimHasOneOwner,
          HoldsClaim, Placed, OnNode
  <2>7. BatchInHand'
      BY <1>1, <1>3 DEF Agents, TypeOK, ThreadPc, WorkerPc, SharedHold, BatchInHand
  <2>8. GateHeld'
      BY <1>1, <1>3 DEF Agents, TypeOK, ThreadPc, WorkerPc, SharedHold, GateHeld, Gated, Closing
  <2>9. Closing'
      BY <1>1, <1>3 DEF Agents, TypeOK, ThreadPc, WorkerPc, SharedHold, Closing, GateHeld, Gated
  <2>10. Rooted' /\ (OnReapList \subseteq Resident)'
      BY <1>1, <1>3 DEF Rooted
  <2>11. QED
      BY <2>1, <2>2, <2>3, <2>4, <2>5, <2>6, <2>7, <2>8, <2>9, <2>10 DEF IInv
<1>4. ASSUME Open PROVE IInv'
  <2>1. TypeOK'
      BY <1>1, <1>4 DEF Agents, TypeOK, ThreadPc, WorkerPc, SharedHold, Placed, OnNode
  <2>2. Locked'
      BY SMTT(60), <1>1, <1>4 DEF Agents, TypeOK, ThreadPc, WorkerPc, SharedHold, Locked, VcbLabels
  <2>3. Counted'
      BY SMTT(60), <1>1, <1>4 DEF Agents, TypeOK, ThreadPc, WorkerPc, SharedHold, Counted, Rooted, Placed,
          OnNode
  <2>4. Placed'
      BY SMTT(60), <1>1, <1>4 DEF Agents, TypeOK, ThreadPc, WorkerPc, SharedHold, Placed, OnNode, Locked,
          VcbLabels, Doomed, Frees
  <2>5. Doomed'
      BY SMTT(60), <1>1, <1>4 DEF Agents, TypeOK, ThreadPc, WorkerPc, SharedHold, Doomed, Frees, Placed,
          OnNode, Locked, VcbLabels
  <2>6. ClaimHasOneOwner'
      BY <1>1, <1>4 DEF Agents, TypeOK, ThreadPc, WorkerPc, SharedHold, ClaimHasOneOwner,
          HoldsClaim, Placed, OnNode
  <2>7. BatchInHand'
      BY <1>1, <1>4 DEF Agents, TypeOK, ThreadPc, WorkerPc, SharedHold, BatchInHand
  <2>8. GateHeld'
      BY <1>1, <1>4 DEF Agents, TypeOK, ThreadPc, WorkerPc, SharedHold, GateHeld, Gated, Closing
  <2>9. Closing'
      BY <1>1, <1>4 DEF Agents, TypeOK, ThreadPc, WorkerPc, SharedHold, Closing, GateHeld, Gated
  <2>10. Rooted' /\ (OnReapList \subseteq Resident)'
      BY <1>1, <1>4 DEF Rooted
  <2>11. QED
      BY SMTT(60), <2>1, <2>2, <2>3, <2>4, <2>5, <2>6, <2>7, <2>8, <2>9, <2>10 DEF IInv
<1>5. QED
    BY ZenonT(40), <1>2, <1>3, <1>4

LEMMA NodeReapQueueWorkItemKeeps ==
    ASSUME IInv, NEW a \in Agents, NodeReapQueueWorkItem(a)
    PROVE IInv'
<1>1. /\ TypeOK /\ Locked /\ Counted /\ Rooted /\ Placed /\ Doomed /\ ClaimHasOneOwner
      /\ OnReapList \subseteq Resident /\ BatchInHand /\ GateHeld /\ Closing
    BY DEF IInv
<1>2. /\ pc[a] = "queue"
      /\ WorkItem' = "queued"
      /\ VcbOwner' = IF VcbOwner = a THEN Nobody ELSE VcbOwner
      /\ pc' = [pc EXCEPT ![a] = "idle"]
      /\ cur' = [cur EXCEPT ![a] = Root]
      /\ target' = [target EXCEPT ![a] = Root]
      /\ UNCHANGED <<Resident, Dcbs, Published, RefCount, PinCount, Handle, OnReapList, ReapList, Batch, Queued, ShuttingDown, teardown>>
    BY SMTT(60) DEF NodeReapQueueWorkItem, Goto, Leave, tableVars, countVars, reapVars, gateVars
<1>3. TypeOK'
    BY <1>1, <1>2 DEF Agents, TypeOK, ThreadPc, WorkerPc, SharedHold, Placed, OnNode
<1>4. Locked'
    BY SMTT(60), <1>1, <1>2 DEF Agents, TypeOK, ThreadPc, WorkerPc, SharedHold, Locked, VcbLabels
<1>5. Counted'
    BY SMTT(60), <1>1, <1>2 DEF Agents, TypeOK, ThreadPc, WorkerPc, SharedHold, Counted, Rooted, Placed,
        OnNode
<1>6. Placed'
    BY SMTT(90), <1>1, <1>2 DEF Agents, TypeOK, ThreadPc, WorkerPc, SharedHold, Placed, OnNode, Locked,
        VcbLabels, Doomed, Frees
<1>7. Doomed'
    BY SMTT(90), <1>1, <1>2 DEF Agents, TypeOK, ThreadPc, WorkerPc, SharedHold, Doomed, Frees, Placed,
        OnNode, Locked, VcbLabels
<1>8. ClaimHasOneOwner'
    BY <1>1, <1>2 DEF Agents, TypeOK, ThreadPc, WorkerPc, SharedHold, ClaimHasOneOwner,
        HoldsClaim, Placed, OnNode
<1>9. BatchInHand'
    BY SMTT(90), <1>1, <1>2 DEF Agents, TypeOK, ThreadPc, WorkerPc, SharedHold, BatchInHand
<1>10. GateHeld'
    BY SMTT(60), <1>1, <1>2 DEF Agents, TypeOK, ThreadPc, WorkerPc, SharedHold, GateHeld, Gated, Closing
<1>11. Closing'
    BY <1>1, <1>2 DEF Agents, TypeOK, ThreadPc, WorkerPc, SharedHold, Closing, GateHeld, Gated
<1>12. Rooted' /\ (OnReapList \subseteq Resident)'
    BY <1>1, <1>2 DEF Rooted
<1>13. QED
    BY <1>3, <1>4, <1>5, <1>6, <1>7, <1>8, <1>9, <1>10, <1>11, <1>12 DEF IInv
=============================================================================
