----------------------- MODULE NodeTableRetireProofs ------------------------
(***************************************************************************)
(* Retiring a node, and freeing it with the ancestors it leaves empty,     *)
(* keep the inductive invariant of NodeTable.                              *)
(***************************************************************************)
EXTENDS NodeTableInvariant

USE NodeTableAssumption

LEMMA NodeTableTryRetireKeeps ==
    ASSUME IInv, NEW a \in Agents, NodeTableTryRetire(a)
    PROVE IInv'
<1> DEFINE Retired ==
        /\ pc[a] = "walk" /\ cur[a] # Root /\ BucketFree(cur[a]) /\ Retirable(cur[a])
        /\ Published' = Published \ {cur[a]}
        /\ OnReapList' = OnReapList \cup {cur[a]}
        /\ pc' = [pc EXCEPT ![a] = "walkFree"]
        /\ UNCHANGED <<Resident, Dcbs, RefCount, PinCount, Handle, ReapList, Batch, Queued, ShuttingDown, WorkItem, VcbOwner, cur, target, teardown>>
<1> DEFINE ThreadDone ==
        /\ pc[a] = "walk" /\ a \in Threads
        /\ VcbOwner' = IF VcbOwner = a THEN Nobody ELSE VcbOwner
        /\ pc' = [pc EXCEPT ![a] = "idle"]
        /\ cur' = [cur EXCEPT ![a] = Root]
        /\ target' = [target EXCEPT ![a] = Root]
        /\ UNCHANGED <<Resident, Dcbs, Published, RefCount, PinCount, Handle, OnReapList, ReapList, Batch, Queued, ShuttingDown, WorkItem, teardown>>
<1> DEFINE WorkerDone ==
        /\ pc[a] = "walk" /\ a \in Workers
        /\ pc' = [pc EXCEPT ![a] = "loop"]
        /\ cur' = [cur EXCEPT ![a] = Root]
        /\ UNCHANGED <<Resident, Dcbs, Published, RefCount, PinCount, Handle, OnReapList, ReapList, Batch, Queued, ShuttingDown, WorkItem, VcbOwner, target, teardown>>
<1>1. /\ TypeOK /\ Locked /\ Counted /\ Rooted /\ Placed /\ Doomed /\ ClaimHasOneOwner
      /\ OnReapList \subseteq Resident /\ BatchInHand /\ GateHeld /\ Closing
    BY DEF IInv
<1>2. Retired \/ ThreadDone \/ WorkerDone
    BY <1>1 DEF NodeTableTryRetire, Goto, Leave, Continue, WalkDone, Retirable, tableVars,
        countVars, reapVars, gateVars, TypeOK, Agents
<1>3. ASSUME Retired PROVE IInv'
  <2>1. TypeOK'
      BY <1>1, <1>3 DEF Agents, TypeOK, ThreadPc, WorkerPc, SharedHold, Placed, OnNode
  <2>2. Locked'
      BY <1>1, <1>3 DEF Agents, TypeOK, ThreadPc, WorkerPc, SharedHold, Locked, VcbLabels
  <2>3. Counted'
      BY <1>1, <1>3 DEF Agents, TypeOK, ThreadPc, WorkerPc, SharedHold, Counted, Rooted, Placed,
          OnNode
  <2>4. Rooted'
      BY <1>1, <1>3 DEF Agents, TypeOK, ThreadPc, WorkerPc, SharedHold, Rooted, Placed, OnNode,
          Doomed, Frees
  <2>5. Placed'
      BY <1>1, <1>3 DEF Agents, TypeOK, ThreadPc, WorkerPc, SharedHold, Placed, OnNode, Locked,
          VcbLabels, Doomed, Frees, Rooted, Retirable
  <2>6. Doomed'
    <3>1. \A b \in Agents : Frees(b)' => b = a
        BY <1>1, <1>3 DEF TypeOK, Locked, VcbLabels, Frees, Agents
    <3>2. cur[a] \in Nodes /\ cur'[a] = cur[a] /\ cur[a] \notin Published'
        BY <1>1, <1>3 DEF Agents, TypeOK, ThreadPc, WorkerPc, SharedHold, Retirable, Idle,
            BucketFree, Children
    <3>3. \A u \in Threads : Handle[u] # cur[a]
        BY <1>1, <1>3, <3>2 DEF Counted, Agents, Retirable, Idle, BucketFree, Children
    <3>4. \A u \in Threads : pc[u] \in SharedHold => cur[u] # cur[a]
        BY <1>1, <1>3, <3>2 DEF Placed, OnNode, SharedHold, Agents, Retirable, Idle, BucketFree,
            Children
    <3>5. \A u \in Threads : pc[u] \in {"open", "openUndo", "unpin"} => cur[u] # cur[a]
        BY <1>1, <1>3, <3>2 DEF Counted, Placed, OnNode, Agents, Retirable, Idle, BucketFree,
            Children
    <3>6. \A c2 \in Resident' : Parent[c2] # cur[a]
        BY <1>1, <1>3, <3>2 DEF Children, Rooted, Placed, TypeOK, Agents, Retirable, Idle,
            BucketFree, Children
    <3>7. pc'[a] \notin SharedHold \cup {"open", "openUndo", "unpin"} /\ (pc'[a] = "newOpen" => cur[a] \notin OnReapList')
        BY <1>1, <1>3, <3>2 DEF SharedHold, TypeOK, Agents
    <3>8. \A b \in Agents : Frees(b)' => cur'[b] = cur[a]
        BY <1>1, <1>3, <3>1, <3>2 DEF Agents, TypeOK
    <3>9. \A u \in Threads : pc'[u] \in SharedHold \cup {"open", "openUndo", "unpin"} => cur'[u] # cur[a]
        BY <1>1, <1>3, <3>4, <3>5, <3>7 DEF Agents, TypeOK
    <3>10. (\A b \in Agents : Frees(b) => cur[b] \notin Published)'
        BY <3>2, <3>8 DEF Agents
    <3>11. (\A b \in Agents, u \in Threads : Frees(b) => Handle[u] # cur[b])'
        BY <1>1, <1>3, <3>3, <3>8 DEF Agents
    <3>12. (\A b \in Agents, u \in Threads : Frees(b) /\ pc[u] \in SharedHold \cup {"open", "openUndo", "unpin"} => cur[u] # cur[b])'
        BY <3>8, <3>9 DEF Agents, SharedHold
    <3>13. (\A b \in Agents, c2 \in Resident : Frees(b) => Parent[c2] # cur[b])'
        BY <3>6, <3>8, Zenon DEF Agents
    <3>14. (\A b \in Agents : pc[b] = "newOpen" => cur[b] \notin OnReapList)'
        BY SMTT(60), <3>1, <3>7, <3>8 DEF Agents, Frees
    <3>15. QED
        BY <3>10, <3>11, <3>12, <3>13, <3>14 DEF Doomed
  <2>7. ClaimHasOneOwner'
      BY <1>1, <1>3 DEF Agents, TypeOK, ThreadPc, WorkerPc, SharedHold, ClaimHasOneOwner,
          HoldsClaim, Placed, OnNode, Retirable
  <2>8. (OnReapList \subseteq Resident)'
      BY <1>1, <1>3 DEF Agents, TypeOK, ThreadPc, WorkerPc, SharedHold, Placed, OnNode, Rooted,
          Retirable
  <2>9. BatchInHand'
      BY <1>1, <1>3 DEF Agents, TypeOK, ThreadPc, WorkerPc, SharedHold, BatchInHand
  <2>10. GateHeld'
      BY <1>1, <1>3 DEF Agents, TypeOK, ThreadPc, WorkerPc, SharedHold, GateHeld, Gated, Closing
  <2>11. Closing'
      BY <1>1, <1>3 DEF Agents, TypeOK, ThreadPc, WorkerPc, SharedHold, Closing, GateHeld, Gated
  <2>12. QED
      BY <2>1, <2>2, <2>3, <2>4, <2>5, <2>6, <2>7, <2>8, <2>9, <2>10, <2>11 DEF IInv
<1>4. ASSUME ThreadDone PROVE IInv'
  <2>1. TypeOK'
      BY <1>1, <1>4 DEF Agents, TypeOK, ThreadPc, WorkerPc, SharedHold, Placed, OnNode
  <2>2. Locked'
      BY <1>1, <1>4 DEF Agents, TypeOK, ThreadPc, WorkerPc, SharedHold, Locked, VcbLabels
  <2>3. Counted'
      BY <1>1, <1>4 DEF Agents, TypeOK, ThreadPc, WorkerPc, SharedHold, Counted, Rooted, Placed,
          OnNode
  <2>4. Placed'
      BY <1>1, <1>4 DEF Agents, TypeOK, ThreadPc, WorkerPc, SharedHold, Placed, OnNode, Locked,
          VcbLabels, Doomed, Frees
  <2>5. Doomed'
      BY SMTT(60), <1>1, <1>4 DEF Agents, TypeOK, ThreadPc, WorkerPc, SharedHold, Doomed, Frees, Placed,
          OnNode, Locked, VcbLabels
  <2>6. ClaimHasOneOwner'
      BY <1>1, <1>4 DEF Agents, TypeOK, ThreadPc, WorkerPc, SharedHold, ClaimHasOneOwner,
          HoldsClaim, Placed, OnNode
  <2>7. BatchInHand'
      BY <1>1, <1>4 DEF Agents, TypeOK, ThreadPc, WorkerPc, SharedHold, BatchInHand
  <2>8. GateHeld'
      BY <1>1, <1>4 DEF Agents, TypeOK, ThreadPc, WorkerPc, SharedHold, GateHeld, Gated, Closing
  <2>9. Closing'
      BY <1>1, <1>4 DEF Agents, TypeOK, ThreadPc, WorkerPc, SharedHold, Closing, GateHeld, Gated
  <2>10. Rooted' /\ (OnReapList \subseteq Resident)'
      BY <1>1, <1>4 DEF Rooted
  <2>11. QED
      BY <2>1, <2>2, <2>3, <2>4, <2>5, <2>6, <2>7, <2>8, <2>9, <2>10 DEF IInv
<1>5. ASSUME WorkerDone PROVE IInv'
  <2>1. TypeOK'
      BY <1>1, <1>5 DEF Agents, TypeOK, ThreadPc, WorkerPc, SharedHold, Placed, OnNode
  <2>2. Locked'
      BY <1>1, <1>5 DEF Agents, TypeOK, ThreadPc, WorkerPc, SharedHold, Locked, VcbLabels
  <2>3. Counted'
      BY <1>1, <1>5 DEF Agents, TypeOK, ThreadPc, WorkerPc, SharedHold, Counted, Rooted, Placed,
          OnNode
  <2>4. Placed'
      BY <1>1, <1>5 DEF Agents, TypeOK, ThreadPc, WorkerPc, SharedHold, Placed, OnNode, Locked,
          VcbLabels, Doomed, Frees
  <2>5. Doomed'
      BY SMTT(60), <1>1, <1>5 DEF Agents, TypeOK, ThreadPc, WorkerPc, SharedHold, Doomed, Frees, Placed,
          OnNode, Locked, VcbLabels
  <2>6. ClaimHasOneOwner'
      BY SMTT(60), <1>1, <1>5 DEF Agents, TypeOK, ThreadPc, WorkerPc, SharedHold, ClaimHasOneOwner,
          HoldsClaim, Placed, OnNode
  <2>7. BatchInHand'
      BY <1>1, <1>5 DEF Agents, TypeOK, ThreadPc, WorkerPc, SharedHold, BatchInHand
  <2>8. GateHeld'
      BY <1>1, <1>5 DEF Agents, TypeOK, ThreadPc, WorkerPc, SharedHold, GateHeld, Gated, Closing
  <2>9. Closing'
      BY SMTT(60), <1>1, <1>5 DEF Agents, TypeOK, ThreadPc, WorkerPc, SharedHold, Closing, GateHeld, Gated
  <2>10. Rooted' /\ (OnReapList \subseteq Resident)'
      BY <1>1, <1>5 DEF Rooted
  <2>11. QED
      BY <2>1, <2>2, <2>3, <2>4, <2>5, <2>6, <2>7, <2>8, <2>9, <2>10 DEF IInv
<1>6. QED
    BY <1>2, <1>3, <1>4, <1>5

LEMMA FreeAndAscendKeeps ==
    ASSUME IInv, NEW a \in Agents, FreeAndAscend(a)
    PROVE IInv'
<1>1. /\ TypeOK /\ Locked /\ Counted /\ Rooted /\ Placed /\ Doomed /\ ClaimHasOneOwner
      /\ OnReapList \subseteq Resident /\ BatchInHand /\ GateHeld /\ Closing
    BY DEF IInv
<1>2. /\ pc[a] \in {"walkFree", "free"}
      /\ Resident' = Resident \ {cur[a]}
      /\ Dcbs' = Dcbs \ {cur[a]}
      /\ OnReapList' = OnReapList \ {cur[a]}
      /\ pc' = [pc EXCEPT ![a] = "walk"]
      /\ cur' = [cur EXCEPT ![a] = Parent[cur[a]]]
      /\ UNCHANGED <<Published, RefCount, PinCount, Handle, ReapList, Batch, Queued, ShuttingDown, WorkItem, VcbOwner, target, teardown>>
    BY DEF FreeAndAscend, Goto, FreeFileContext, tableVars, countVars, reapVars, gateVars
<1>3. TypeOK'
    BY <1>1, <1>2 DEF Agents, TypeOK, ThreadPc, WorkerPc, SharedHold, Placed, OnNode
<1>4. Locked'
    BY SMTT(60), <1>1, <1>2 DEF Agents, TypeOK, ThreadPc, WorkerPc, SharedHold, Locked, VcbLabels
<1>5. Counted'
    BY SMTT(90), <1>1, <1>2 DEF Agents, TypeOK, ThreadPc, WorkerPc, SharedHold, Counted, Rooted, Placed,
        OnNode, Doomed, Frees, Locked, VcbLabels
<1>6. Rooted'
    BY SMTT(90), <1>1, <1>2, PrefixAssumption DEF Agents, TypeOK, ThreadPc, WorkerPc, SharedHold,
        Rooted, Placed, OnNode, Doomed, Frees
<1>7. Placed'
    BY SMTT(90), <1>1, <1>2 DEF Agents, TypeOK, ThreadPc, WorkerPc, SharedHold, Placed, OnNode, Locked,
        VcbLabels, Doomed, Frees, Rooted
<1>8. Doomed'
    BY SMTT(60), <1>1, <1>2 DEF Agents, TypeOK, ThreadPc, WorkerPc, SharedHold, Doomed, Frees, Placed,
        OnNode, Locked, VcbLabels
<1>9. ClaimHasOneOwner'
    BY SMTT(60), <1>1, <1>2 DEF Agents, TypeOK, ThreadPc, WorkerPc, SharedHold, ClaimHasOneOwner,
        HoldsClaim, Placed, OnNode
<1>10. (OnReapList \subseteq Resident)'
    BY <1>1, <1>2 DEF Agents, TypeOK, ThreadPc, WorkerPc, SharedHold, Placed, OnNode
<1>11. BatchInHand'
    BY SMTT(60), <1>1, <1>2 DEF Agents, TypeOK, ThreadPc, WorkerPc, SharedHold, BatchInHand
<1>12. GateHeld'
    BY SMTT(60), <1>1, <1>2 DEF Agents, TypeOK, ThreadPc, WorkerPc, SharedHold, GateHeld, Gated, Closing
<1>13. Closing'
    BY <1>1, <1>2 DEF Agents, TypeOK, ThreadPc, WorkerPc, SharedHold, Closing, GateHeld, Gated
<1>14. QED
    BY <1>3, <1>4, <1>5, <1>6, <1>7, <1>8, <1>9, <1>10, <1>11, <1>12, <1>13 DEF IInv
=============================================================================
