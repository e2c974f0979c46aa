------------------------ MODULE NodeTableReapProofs -------------------------
(***************************************************************************)
(* The steps of the reap worker keep the inductive invariant of NodeTable. *)
(***************************************************************************)
EXTENDS NodeTableInvariant

USE NodeTableAssumption

LEMMA WorkerTakeListKeeps ==
    ASSUME IInv, NEW w \in Workers, WorkerTakeList(w)
    PROVE IInv'
<1> DEFINE Empty ==
        /\ pc[w] = "idle" /\ WorkItem = "queued" /\ ReapList = {}
        /\ ReapList' = {}
        /\ Batch' = [Batch EXCEPT ![w] = ReapList]
        /\ WorkItem' = "idle"
        /\ pc' = [pc EXCEPT ![w] = "tail"]
        /\ UNCHANGED <<Resident, Dcbs, Published, RefCount, PinCount, Handle, OnReapList, Queued, ShuttingDown, VcbOwner, cur, target, teardown>>
<1> DEFINE Some ==
        /\ pc[w] = "idle" /\ WorkItem = "queued"
        /\ ReapList' = {}
        /\ Batch' = [Batch EXCEPT ![w] = ReapList]
        /\ WorkItem' = "idle"
        /\ pc' = [pc EXCEPT ![w] = "vcb"]
        /\ UNCHANGED <<Resident, Dcbs, Published, RefCount, PinCount, Handle, OnReapList, Queued, ShuttingDown, VcbOwner, cur, target, teardown>>
<1>1. /\ TypeOK /\ Locked /\ Counted /\ Rooted /\ Placed /\ Doomed /\ ClaimHasOneOwner
      /\ OnReapList \subseteq Resident /\ BatchInHand /\ GateHeld /\ Closing
    BY DEF IInv
<1>2. Empty \/ Some
    BY ZenonT(40), <1>1 DEF WorkerTakeList, Goto, tableVars, countVars, reapVars, gateVars, TypeOK, Agents
<1>3. ASSUME Empty PROVE IInv'
  <2>1. TypeOK'
      BY <1>1, <1>3 DEF Agents, TypeOK, ThreadPc, WorkerPc, SharedHold, Placed, OnNode
  <2>2. Locked'
      BY <1>1, <1>3 DEF Agents, TypeOK, ThreadPc, WorkerPc, SharedHold, Locked, VcbLabels
  <2>3. Counted'
      BY <1>1, <1>3 DEF Agents, TypeOK, ThreadPc, WorkerPc, SharedHold, Counted, Rooted, Placed,
          OnNode
  <2>4. Placed'
      BY <1>1, <1>3 DEF Agents, TypeOK, ThreadPc, WorkerPc, SharedHold, Placed, OnNode, Locked,
          VcbLabels, Doomed, Frees
  <2>5. Doomed'
      BY <1>1, <1>3 DEF Agents, TypeOK, ThreadPc, WorkerPc, SharedHold, Doomed, Frees, Placed,
          OnNode, Locked, VcbLabels
  <2>6. ClaimHasOneOwner'
      BY SMTT(60), <1>1, <1>3 DEF Agents, TypeOK, ThreadPc, WorkerPc, SharedHold, ClaimHasOneOwner,
          HoldsClaim, Placed, OnNode, BatchInHand
  <2>7. BatchInHand'
      BY <1>1, <1>3 DEF Agents, TypeOK, ThreadPc, WorkerPc, SharedHold, BatchInHand
  <2>8. GateHeld'
      BY <1>1, <1>3 DEF Agents, TypeOK, ThreadPc, WorkerPc, SharedHold, GateHeld, Gated, Closing
  <2>9. Closing'
      BY <1>1, <1>3 DEF Agents, TypeOK, ThreadPc, WorkerPc, SharedHold, Closing, GateHeld, Gated
  <2>10. Rooted' /\ (OnReapList \subseteq Resident)'
      BY <1>1, <1>3 DEF Rooted
  <2>11. QED
      BY <2>1, <2>2, <2>3, <2>4, <2>5, <2>6, <2>7, <2>8, <2>9, <2>10 DEF IInv
<1>4. ASSUME Some PROVE IInv'
  <2>1. TypeOK'
      BY <1>1, <1>4 DEF Agents, TypeOK, ThreadPc, WorkerPc, SharedHold, Placed, OnNode
  <2>2. Locked'
      BY <1>1, <1>4 DEF Agents, TypeOK, ThreadPc, WorkerPc, SharedHold, Locked, VcbLabels
  <2>3. Counted'
      BY <1>1, <1>4 DEF Agents, TypeOK, ThreadPc, WorkerPc, SharedHold, Counted, Rooted, Placed,
          OnNode
  <2>4. Placed'
      BY <1>1, <1>4 DEF Agents, TypeOK, ThreadPc, WorkerPc, SharedHold, Placed, OnNode, Locked,
          VcbLabels, Doomed, Frees
  <2>5. Doomed'
      BY <1>1, <1>4 DEF Agents, TypeOK, ThreadPc, WorkerPc, SharedHold, Doomed, Frees, Placed,
          OnNode, Locked, VcbLabels
  <2>6. ClaimHasOneOwner'
      BY <1>1, <1>4 DEF Agents, TypeOK, ThreadPc, WorkerPc, SharedHold, ClaimHasOneOwner,
          HoldsClaim, Placed, OnNode, BatchInHand
  <2>7. BatchInHand'
      BY <1>1, <1>4 DEF Agents, TypeOK, ThreadPc, WorkerPc, SharedHold, BatchInHand
  <2>8. GateHeld'
      BY <1>1, <1>4 DEF Agents, TypeOK, ThreadPc, WorkerPc, SharedHold, GateHeld, Gated, Closing
  <2>9. Closing'
      BY <1>1, <1>4 DEF Agents, TypeOK, ThreadPc, WorkerPc, SharedHold, Closing, GateHeld, Gated
  <2>10. Rooted' /\ (OnReapList \subseteq Resident)'
      BY <1>1, <1>4 DEF Rooted
  <2>11. QED
      BY <2>1, <2>2, <2>3, <2>4, <2>5, <2>6, <2>7, <2>8, <2>9, <2>10 DEF IInv
<1>5. QED
    BY <1>2, <1>3, <1>4

LEMMA WorkerAcquireVcbKeeps ==
    ASSUME IInv, NEW w \in Workers, WorkerAcquireVcb(w)
    PROVE IInv'
<1>1. /\ TypeOK /\ Locked /\ Counted /\ Rooted /\ Placed /\ Doomed /\ ClaimHasOneOwner
      /\ OnReapList \subseteq Resident /\ BatchInHand /\ GateHeld /\ Closing
    BY DEF IInv
<1>2. /\ pc[w] = "vcb" /\ VcbOwner = Nobody
      /\ VcbOwner' = w
      /\ pc' = [pc EXCEPT ![w] = "loop"]
      /\ UNCHANGED <<Resident, Dcbs, Published, RefCount, PinCount, Handle, OnReapList, ReapList, Batch, Queued, ShuttingDown, WorkItem, cur, target, teardown>>
    BY DEF WorkerAcquireVcb, Goto, tableVars, countVars, reapVars, gateVars
<1>3. TypeOK'
    BY <1>1, <1>2 DEF Agents, TypeOK, ThreadPc, WorkerPc, SharedHold, Placed, OnNode
<1>4. Locked'
    BY <1>1, <1>2 DEF Agents, TypeOK, ThreadPc, WorkerPc, SharedHold, Locked, VcbLabels
<1>5. Counted'
    BY <1>1, <1>2 DEF Agents, TypeOK, ThreadPc, WorkerPc, SharedHold, Counted, Rooted, Placed,
        OnNode
<1>6. Placed'
    BY <1>1, <1>2 DEF Agents, TypeOK, ThreadPc, WorkerPc, SharedHold, Placed, OnNode, Locked,
        VcbLabels, Doomed, Frees
<1>7. Doomed'
    BY <1>1, <1>2 DEF Agents, TypeOK, ThreadPc, WorkerPc, SharedHold, Doomed, Frees, Placed,
        OnNode, Locked, VcbLabels
<1>8. ClaimHasOneOwner'
    BY <1>1, <1>2 DEF Agents, TypeOK, ThreadPc, WorkerPc, SharedHold, ClaimHasOneOwner,
        HoldsClaim, Placed, OnNode
<1>9. BatchInHand'
    BY <1>1, <1>2 DEF Agents, TypeOK, ThreadPc, WorkerPc, SharedHold, BatchInHand
<1>10. GateHeld'
    BY <1>1, <1>2 DEF Agents, TypeOK, ThreadPc, WorkerPc, SharedHold, GateHeld, Gated, Closing
<1>11. Closing'
    BY <1>1, <1>2 DEF Agents, TypeOK, ThreadPc, WorkerPc, SharedHold, Closing, GateHeld, Gated
<1>12. Rooted' /\ (OnReapList \subseteq Resident)'
    BY <1>1, <1>2 DEF Rooted
<1>13. QED
    BY <1>3, <1>4, <1>5, <1>6, <1>7, <1>8, <1>9, <1>10, <1>11, <1>12 DEF IInv

LEMMA WorkerExamineKeeps ==
    ASSUME IInv, NEW w \in Workers, WorkerExamine(w)
    PROVE IInv'
<1> DEFINE Retired(n) ==
        /\ pc[w] = "loop" /\ n \in Batch[w] /\ BucketFree(n) /\ Idle(n) /\ (n \in Dcbs => Children(n) = {})
        /\ Published' = Published \ {n}
        /\ Batch' = [Batch EXCEPT ![w] = @ \ {n}]
        /\ pc' = [pc EXCEPT ![w] = "free"]
        /\ cur' = [cur EXCEPT ![w] = n]
        /\ UNCHANGED <<Resident, Dcbs, RefCount, PinCount, Handle, OnReapList, ReapList, Queued, ShuttingDown, WorkItem, VcbOwner, target, teardown>>
<1> DEFINE InUse(n) ==
        /\ pc[w] = "loop" /\ n \in Batch[w]
        /\ OnReapList' = OnReapList \ {n}
        /\ Batch' = [Batch EXCEPT ![w] = @ \ {n}]
        /\ UNCHANGED <<Resident, Dcbs, Published, RefCount, PinCount, Handle, ReapList, Queued, ShuttingDown, WorkItem, VcbOwner, pc, cur, target, teardown>>
<1>1. /\ TypeOK /\ Locked /\ Counted /\ Rooted /\ Placed /\ Doomed /\ ClaimHasOneOwner
      /\ OnReapList \subseteq Resident /\ BatchInHand /\ GateHeld /\ Closing
    BY DEF IInv
<1>2. (\E n \in Nodes : Retired(n)) \/ (\E n \in Nodes : InUse(n))
    BY ZenonT(40), <1>1 DEF WorkerExamine, Goto, tableVars, countVars, reapVars, gateVars, TypeOK, Agents
<1>3. ASSUME NEW n \in Nodes, Retired(n) PROVE IInv'
  <2>1. TypeOK'
      BY <1>1, <1>3 DEF Agents, TypeOK, ThreadPc, WorkerPc, SharedHold, Placed, OnNode
  <2>2. Locked'
      BY <1>1, <1>3 DEF Agents, TypeOK, ThreadPc, WorkerPc, SharedHold, Locked, VcbLabels
  <2>3. Counted'
      BY SMTT(60), <1>1, <1>3 DEF Agents, TypeOK, ThreadPc, WorkerPc, SharedHold, Counted, Rooted, Placed,
          OnNode
  <2>4. Rooted'
      BY SMTT(60), <1>1, <1>3 DEF Agents, TypeOK, ThreadPc, WorkerPc, SharedHold, Rooted, Placed, OnNode,
          Doomed, Frees
  <2>5. Placed'
      BY <1>1, <1>3 DEF Agents, TypeOK, ThreadPc, WorkerPc, SharedHold, Placed, OnNode, Locked,
          VcbLabels, Doomed, Frees, ClaimHasOneOwner, HoldsClaim
  <2>6. Doomed'
    <3>1. \A b \in Agents : Frees(b)' => b = w
        BY <1>1, <1>3 DEF TypeOK, Locked, VcbLabels, Frees, Agents
    <3>2. n \in Nodes /\ cur'[w] = n /\ n \notin Published'
        BY <1>1, <1>3 DEF Agents, TypeOK, ThreadPc, WorkerPc, SharedHold, Idle, BucketFree,
            Children, ClaimHasOneOwner
    <3>3. \A u \in Threads : Handle[u] # n
        BY <1>1, <1>3, <3>2 DEF Counted, Agents, Idle, BucketFree, Children, ClaimHasOneOwner
    <3>4. \A u \in Threads : pc[u] \in SharedHold => cur[u] # n
        BY <1>1, <1>3, <3>2 DEF Placed, OnNode, SharedHold, Agents, Idle, BucketFree, Children,
            ClaimHasOneOwner
    <3>5. \A u \in Threads : pc[u] \in {"open", "openUndo", "unpin"} => cur[u] # n
        BY SMTT(60), <1>1, <1>3, <3>2 DEF Counted, Placed, OnNode, Agents, Idle, BucketFree, Children,
            ClaimHasOneOwner
    <3>6. \A c2 \in Resident' : Parent[c2] # n
        BY SMTT(60), <1>1, <1>3, <3>2 DEF Children, Rooted, Placed, TypeOK, Agents, Idle, BucketFree,
            Children, ClaimHasOneOwner
    <3>7. pc'[w] \notin SharedHold \cup {"open", "openUndo", "unpin"} /\ (pc'[w] = "newOpen" => n \notin OnReapList')
        BY <1>1, <1>3, <3>2 DEF SharedHold, TypeOK, Agents
    <3>8. \A b \in Agents : Frees(b)' => cur'[b] = n
        BY SMTT(60), <1>1, <1>3, <3>1, <3>2 DEF Agents, TypeOK
    <3>9. \A u \in Threads : pc'[u] \in SharedHold \cup {"open", "openUndo", "unpin"} => cur'[u] # n
        BY <1>1, <1>3, <3>4, <3>5, <3>7 DEF Agents, TypeOK
    <3>10. (\A b \in Agents : Frees(b) => cur[b] \notin Published)'
        BY <3>2, <3>8 DEF Agents
    <3>11. (\A b \in Agents, u \in Threads : Frees(b) => Handle[u] # cur[b])'
        BY <1>1, <1>3, <3>3, <3>8 DEF Agents
    <3>12. (\A b \in Agents, u \in Threads : Frees(b) /\ pc[u] \in SharedHold \cup {"open", "openUndo", "unpin"} => cur[u] # cur[b])'
        BY <3>8, <3>9 DEF Agents, SharedHold
    <3>13. (\A b \in Agents, c2 \in Resident : Frees(b) => Parent[c2] # cur[b])'
        BY <3>6, <3>8, Zenon DEF Agents
    <3>14. (\A b \in Agents : pc[b] = "newOpen" => cur[b] \notin OnReapList)'
        BY SMTT(60), <3>1, <3>7, <3>8 DEF Agents, Frees
    <3>15. QED
        BY <3>10, <3>11, <3>12, <3>13, <3>14 DEF Doomed
  <2>7. ClaimHasOneOwner'
      BY SMTT(60), <1>1, <1>3 DEF Agents, TypeOK, ThreadPc, WorkerPc, SharedHold, ClaimHasOneOwner,
          HoldsClaim, Placed, OnNode
  <2>8. BatchInHand'
      BY <1>1, <1>3 DEF Agents, TypeOK, ThreadPc, WorkerPc, SharedHold, BatchInHand
  <2>9. GateHeld'
      BY <1>1, <1>3 DEF Agents, TypeOK, ThreadPc, WorkerPc, SharedHold, GateHeld, Gated, Closing
  <2>10. Closing'
      BY <1>1, <1>3 DEF Agents, TypeOK, ThreadPc, WorkerPc, SharedHold, Closing, GateHeld, Gated
  <2>11. (OnReapList \subseteq Resident)'
      BY SMTT(60), <1>1, <1>3
  <2>12. QED
      BY <2>1, <2>2, <2>3, <2>4, <2>5, <2>6, <2>7, <2>8, <2>9, <2>10, <2>11 DEF IInv
<1>4. ASSUME NEW n \in Nodes, InUse(n) PROVE IInv'
  <2>1. TypeOK'
      BY SMTT(60), <1>1, <1>4 DEF Agents, TypeOK, ThreadPc, WorkerPc, SharedHold, Placed, OnNode
  <2>2. Doomed'
      BY SMTT(60), <1>1, <1>4 DEF Agents, TypeOK, ThreadPc, WorkerPc, SharedHold, Doomed, Frees, Placed,
          OnNode, Locked, VcbLabels
  <2>3. ClaimHasOneOwner'
      BY SMTT(60), <1>1, <1>4 DEF Agents, TypeOK, ThreadPc, WorkerPc, SharedHold, ClaimHasOneOwner,
          HoldsClaim, Placed, OnNode
  <2>4. (OnReapList \subseteq Resident)'
      BY <1>1, <1>4 DEF Agents, TypeOK, ThreadPc, WorkerPc, SharedHold, Placed, OnNode
  <2>5. BatchInHand'
      BY SMTT(60), <1>1, <1>4 DEF Agents, TypeOK, ThreadPc, WorkerPc, SharedHold, BatchInHand
  <2>6. Locked' /\ Counted' /\ Rooted' /\ Placed' /\ GateHeld' /\ Closing'
      BY SMTT(60), <1>1, <1>4 DEF Locked, Counted, Rooted, Placed, GateHeld, Gated, Closing
  <2>7. QED
      BY SMTT(60), <2>1, <2>2, <2>3, <2>4, <2>5, <2>6 DEF IInv
<1>5. QED
    BY <1>2, <1>3, <1>4

LEMMA WorkerReleaseVcbKeeps ==
    ASSUME IInv, NEW w \in Workers, WorkerReleaseVcb(w)
    PROVE IInv'
<1>1. /\ TypeOK /\ Locked /\ Counted /\ Rooted /\ Placed /\ Doomed /\ ClaimHasOneOwner
      /\ OnReapList \subseteq Resident /\ BatchInHand /\ GateHeld /\ Closing
    BY DEF IInv
<1>2. /\ pc[w] = "loop" /\ Batch[w] = {}
      /\ VcbOwner' = Nobody
      /\ pc' = [pc EXCEPT ![w] = "tail"]
      /\ UNCHANGED <<Resident, Dcbs, Published, RefCount, PinCount, Handle, OnReapList, ReapList, Batch, Queued, ShuttingDown, WorkItem, cur, target, teardown>>
    BY SMTT(60) DEF WorkerReleaseVcb, Goto, tableVars, countVars, reapVars, gateVars
<1>3. TypeOK'
    BY <1>1, <1>2 DEF Agents, TypeOK, ThreadPc, WorkerPc, SharedHold, Placed, OnNode
<1>4. Locked'
    BY SMTT(60), <1>1, <1>2 DEF Agents, TypeOK, ThreadPc, WorkerPc, SharedHold, Locked, VcbLabels
<1>5. Counted'
    BY SMTT(60), <1>1, <1>2 DEF Agents, TypeOK, ThreadPc, WorkerPc, SharedHold, Counted, Rooted, Placed,
        OnNode
<1>6. Placed'
    BY SMTT(60), <1>1, <1>2 DEF Agents, TypeOK, ThreadPc, WorkerPc, SharedHold, Placed, OnNode, Locked,
        VcbLabels, Doomed, Frees
<1>7. Doomed'
    BY SMTT(60), <1>1, <1>2 DEF Agents, TypeOK, ThreadPc, WorkerPc, SharedHold, Doomed, Frees, Placed,
        OnNode, Locked, VcbLabels
<1>8. ClaimHasOneOwner'
    BY <1>1, <1>2 DEF Agents, TypeOK, ThreadPc, WorkerPc, SharedHold, ClaimHasOneOwner,
        HoldsClaim, Placed, OnNode
<1>9. BatchInHand'
    BY <1>1, <1>2 DEF Agents, TypeOK, ThreadPc, WorkerPc, SharedHold, BatchInHand
<1>10. GateHeld'
    BY <1>1, <1>2 DEF Agents, TypeOK, ThreadPc, WorkerPc, SharedHold, GateHeld, Gated, Closing
<1>11. Closing'
    BY <1>1, <1>2 DEF Agents, TypeOK, ThreadPc, WorkerPc, SharedHold, Closing, GateHeld, Gated
<1>12. Rooted' /\ (OnReapList \subseteq Resident)'
    BY <1>1, <1>2 DEF Rooted
<1>13. QED
    BY <1>3, <1>4, <1>5, <1>6, <1>7, <1>8, <1>9, <1>10, <1>11, <1>12 DEF IInv

LEMMA WorkerTailKeeps ==
    ASSUME IInv, NEW w \in Workers, WorkerTail(w)
    PROVE IInv'
<1> DEFINE Again ==
        /\ pc[w] = "tail"
        /\ Queued' = FALSE
        /\ pc' = [pc EXCEPT ![w] = "kick"]
        /\ UNCHANGED <<Resident, Dcbs, Published, RefCount, PinCount, Handle, OnReapList, ReapList, Batch, ShuttingDown, WorkItem, VcbOwner, cur, target, teardown>>
<1> DEFINE Done ==
        /\ pc[w] = "tail"
        /\ Queued' = FALSE
        /\ pc' = [pc EXCEPT ![w] = "idle"]
        /\ UNCHANGED <<Resident, Dcbs, Published, RefCount, PinCount, Handle, OnReapList, ReapList, Batch, ShuttingDown, WorkItem, VcbOwner, cur, target, teardown>>
<1>1. /\ TypeOK /\ Locked /\ Counted /\ Rooted /\ Placed /\ Doomed /\ ClaimHasOneOwner
      /\ OnReapList \subseteq Resident /\ BatchInHand /\ GateHeld /\ Closing
    BY DEF IInv
<1>2. Again \/ Done
    BY ZenonT(40), <1>1 DEF WorkerTail, Goto, tableVars, countVars, reapVars, gateVars, TypeOK, Agents
<1>3. ASSUME Again PROVE IInv'
  <2>1. TypeOK'
      BY ZenonT(40), <1>1, <1>3 DEF Agents, TypeOK, ThreadPc, WorkerPc, SharedHold, Placed, OnNode
  <2>2. Locked'
      BY <1>1, <1>3 DEF Agents, TypeOK, ThreadPc, WorkerPc, SharedHold, Locked, VcbLabels
  <2>3. Counted'
      BY SMTT(60), <1>1, <1>3 DEF Agents, TypeOK, ThreadPc, WorkerPc, SharedHold, Counted, Rooted, Placed,
          OnNode
  <2>4. Placed'
      BY <1>1, <1>3 DEF Agents, TypeOK, ThreadPc, WorkerPc, SharedHold, Placed, OnNode, Locked,
          VcbLabels, Doomed, Frees
  <2>5. Doomed'
      BY SMTT(60), <1>1, <1>3 DEF Agents, TypeOK, ThreadPc, WorkerPc, SharedHold, Doomed, Frees, Placed,
          OnNode, Locked, VcbLabels
  <2>6. ClaimHasOneOwner'
      BY <1>1, <1>3 DEF Agents, TypeOK, ThreadPc, WorkerPc, SharedHold, ClaimHasOneOwner,
          HoldsClaim, Placed, OnNode
  <2>7. BatchInHand'
      BY <1>1, <1>3 DEF Agents, TypeOK, ThreadPc, WorkerPc, SharedHold, BatchInHand
  <2>8. GateHeld'
      BY <1>1, <1>3 DEF Agents, TypeOK, ThreadPc, WorkerPc, SharedHold, GateHeld, Gated, Closing
  <2>9. Closing'
      BY <1>1, <1>3 DEF Agents, TypeOK, ThreadPc, WorkerPc, SharedHold, Closing, GateHeld, Gated
  <2>10. Rooted' /\ (OnReapList \subseteq Resident)'
      BY <1>1, <1>3 DEF Rooted
  <2>11. QED
      BY <2>1, <2>2, <2>3, <2>4, <2>5, <2>6, <2>7, <2>8, <2>9, <2>10 DEF IInv
<1>4. ASSUME Done PROVE IInv'
  <2>1. TypeOK'
      BY ZenonT(40), <1>1, <1>4 DEF Agents, TypeOK, ThreadPc, WorkerPc, SharedHold, Placed, OnNode
  <2>2. Locked'
      BY <1>1, <1>4 DEF Agents, TypeOK, ThreadPc, WorkerPc, SharedHold, Locked, VcbLabels
  <2>3. Counted'
      BY SMTT(60), <1>1, <1>4 DEF Agents, TypeOK, ThreadPc, WorkerPc, SharedHold, Counted, Rooted, Placed,
          OnNode
  <2>4. Placed'
      BY <1>1, <1>4 DEF Agents, TypeOK, ThreadPc, WorkerPc, SharedHold, Placed, OnNode, Locked,
          VcbLabels, Doomed, Frees
  <2>5. Doomed'
      BY SMTT(60), <1>1, <1>4 DEF Agents, TypeOK, ThreadPc, WorkerPc, SharedHold, Doomed, Frees, Placed,
          OnNode, Locked, VcbLabels
  <2>6. ClaimHasOneOwner'
      BY <1>1, <1>4 DEF Agents, TypeOK, ThreadPc, WorkerPc, SharedHold, ClaimHasOneOwner,
          HoldsClaim, Placed, OnNode
  <2>7. BatchInHand'
      BY <1>1, <1>4 DEF Agents, TypeOK, ThreadPc, WorkerPc, SharedHold, BatchInHand
  <2>8. GateHeld'
      BY <1>1, <1>4 DEF Agents, TypeOK, ThreadPc, WorkerPc, SharedHold, GateHeld, Gated, Closing
  <2>9. Closing'
      BY <1>1, <1>4 DEF Agents, TypeOK, ThreadPc, WorkerPc, SharedHold, Closing, GateHeld, Gated
  <2>10. Rooted' /\ (OnReapList \subseteq Resident)'
      BY <1>1, <1>4 DEF Rooted
  <2>11. QED
      BY <2>1, <2>2, <2>3, <2>4, <2>5, <2>6, <2>7, <2>8, <2>9, <2>10 DEF IInv
<1>5. QED
    BY ZenonT(40), <1>2, <1>3, <1>4
=============================================================================
