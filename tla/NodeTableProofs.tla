-------------------------- MODULE NodeTableProofs ---------------------------
(***************************************************************************)
(* Teardown keeps the inductive invariant, and the theorems: the safety    *)
(* invariants of NodeTable, for every tree, every number of requestors and *)
(* every number of worker threads.                                         *)
(***************************************************************************)
EXTENDS NodeTableOpenProofs, NodeTableDropProofs, NodeTableColdProofs, NodeTableInsertProofs,
        NodeTableRetireProofs, NodeTableReapProofs

USE NodeTableAssumption

LEMMA TeardownLatchKeeps ==
    ASSUME IInv, TeardownLatch
    PROVE IInv'
<1>1. /\ TypeOK /\ Locked /\ Counted /\ Rooted /\ Placed /\ Doomed /\ ClaimHasOneOwner
      /\ OnReapList \subseteq Resident /\ BatchInHand /\ GateHeld /\ Closing
    BY DEF IInv
<1>2. /\ teardown = "up" /\ \A t \in Threads : pc[t] = "idle" /\ Handle[t] = Nobody
      /\ ShuttingDown' = TRUE
      /\ teardown' = "poll"
      /\ UNCHANGED <<Resident, Dcbs, Published, RefCount, PinCount, Handle, OnReapList, ReapList, Batch, Queued, WorkItem, VcbOwner, pc, cur, target>>
    BY DEF TeardownLatch, Goto, tableVars, countVars, reapVars, gateVars
<1>3. TypeOK'
    BY <1>1, <1>2 DEF Agents, TypeOK, ThreadPc, WorkerPc, SharedHold, Placed, OnNode
<1>4. Closing'
    BY <1>1, <1>2 DEF Agents, TypeOK, ThreadPc, WorkerPc, SharedHold, Closing, GateHeld, Gated
<1>5. Locked'
    BY <1>1, <1>2 DEF Locked
<1>6. Counted'
    BY <1>1, <1>2 DEF Counted
<1>7. Rooted'
    BY <1>1, <1>2 DEF Rooted
<1>8. Placed'
    BY <1>1, <1>2 DEF Placed
<1>9. Doomed'
    BY <1>1, <1>2 DEF Doomed, Frees
<1>10. ClaimHasOneOwner'
    BY <1>1, <1>2 DEF ClaimHasOneOwner, HoldsClaim
<1>11. (OnReapList \subseteq Resident)'
    BY <1>1, <1>2
<1>12. BatchInHand'
    BY <1>1, <1>2 DEF BatchInHand
<1>13. GateHeld'
    BY <1>1, <1>2 DEF GateHeld, Gated
<1>14. QED
    BY <1>3, <1>4, <1>5, <1>6, <1>7, <1>8, <1>9, <1>10, <1>11, <1>12, <1>13 DEF IInv

LEMMA TeardownPollKeeps ==
    ASSUME IInv, TeardownPoll
    PROVE IInv'
<1>1. /\ TypeOK /\ Locked /\ Counted /\ Rooted /\ Placed /\ Doomed /\ ClaimHasOneOwner
      /\ OnReapList \subseteq Resident /\ BatchInHand /\ GateHeld /\ Closing
    BY DEF IInv
<1>2. /\ teardown = "poll" /\ ~Queued
      /\ teardown' = "drain"
      /\ UNCHANGED <<Resident, Dcbs, Published, RefCount, PinCount, Handle, OnReapList, ReapList, Batch, Queued, ShuttingDown, WorkItem, VcbOwner, pc, cur, target>>
    BY DEF TeardownPoll, Goto, tableVars, countVars, reapVars, gateVars
<1>3. TypeOK'
    BY <1>1, <1>2 DEF Agents, TypeOK, ThreadPc, WorkerPc, SharedHold, Placed, OnNode
<1>4. Closing'
    BY <1>1, <1>2 DEF Agents, TypeOK, ThreadPc, WorkerPc, SharedHold, Closing, GateHeld, Gated
<1>5. Locked'
    BY <1>1, <1>2 DEF Locked
<1>6. Counted'
    BY <1>1, <1>2 DEF Counted
<1>7. Rooted'
    BY <1>1, <1>2 DEF Rooted
<1>8. Placed'
    BY <1>1, <1>2 DEF Placed
<1>9. Doomed'
    BY <1>1, <1>2 DEF Doomed, Frees
<1>10. ClaimHasOneOwner'
    BY <1>1, <1>2 DEF ClaimHasOneOwner, HoldsClaim
<1>11. (OnReapList \subseteq Resident)'
    BY <1>1, <1>2
<1>12. BatchInHand'
    BY <1>1, <1>2 DEF BatchInHand
<1>13. GateHeld'
    BY <1>1, <1>2 DEF GateHeld, Gated
<1>14. QED
    BY <1>3, <1>4, <1>5, <1>6, <1>7, <1>8, <1>9, <1>10, <1>11, <1>12, <1>13 DEF IInv

LEMMA TeardownDrainKeeps ==
    ASSUME IInv, TeardownDrain
    PROVE IInv'
<1>1. /\ TypeOK /\ Locked /\ Counted /\ Rooted /\ Placed /\ Doomed /\ ClaimHasOneOwner
      /\ OnReapList \subseteq Resident /\ BatchInHand /\ GateHeld /\ Closing
    BY DEF IInv
<1>2. /\ teardown = "drain"
      /\ Published' = {}
      /\ OnReapList' = OnReapList \ ReapList
      /\ ReapList' = {}
      /\ WorkItem' = "freed"
      /\ teardown' = "tree"
      /\ UNCHANGED <<Resident, Dcbs, RefCount, PinCount, Handle, Batch, Queued, ShuttingDown, VcbOwner, pc, cur, target>>
    BY DEF TeardownDrain, Goto, tableVars, countVars, reapVars, gateVars
<1>3. TypeOK'
    BY <1>1, <1>2 DEF Agents, TypeOK, ThreadPc, WorkerPc, SharedHold, Placed, OnNode
<1>4. Rooted'
    BY <1>1, <1>2 DEF Agents, TypeOK, ThreadPc, WorkerPc, SharedHold, Rooted, Placed, OnNode,
        Doomed, Frees
<1>5. Doomed'
    BY <1>1, <1>2 DEF Agents, TypeOK, ThreadPc, WorkerPc, SharedHold, Doomed, Frees, Placed,
        OnNode, Locked, VcbLabels
<1>6. ClaimHasOneOwner'
  <2>1. (\A n \in Nodes : n \in OnReapList <=> n \in ReapList \/ (\E w \in Workers : n \in Batch[w]) \/ (\E a \in Agents : HoldsClaim(a) /\ cur[a] = n))'
      BY <1>1, <1>2 DEF ClaimHasOneOwner, HoldsClaim
  <2>2. (\A n \in ReapList, w \in Workers : n \notin Batch[w])'
      BY <1>1, <1>2 DEF ClaimHasOneOwner, HoldsClaim
  <2>3. (\A v, w \in Workers : \A n \in Batch[v] : n \in Batch[w] => v = w)'
      BY <1>1, <1>2 DEF ClaimHasOneOwner, HoldsClaim
  <2>4. (\A a \in Agents : HoldsClaim(a) => cur[a] \notin ReapList /\ (\A w \in Workers : cur[a] \notin Batch[w]) /\ (\A b \in Agents : HoldsClaim(b) /\ cur[b] = cur[a] => b = a))'
      BY <1>1, <1>2 DEF ClaimHasOneOwner, HoldsClaim
  <2>5. QED
      BY <2>1, <2>2, <2>3, <2>4 DEF ClaimHasOneOwner
<1>7. (OnReapList \subseteq Resident)'
    BY <1>1, <1>2 DEF Agents, TypeOK, ThreadPc, WorkerPc, SharedHold, Placed, OnNode
<1>8. GateHeld'
    BY <1>1, <1>2 DEF Agents, TypeOK, ThreadPc, WorkerPc, SharedHold, GateHeld, Gated, Closing
<1>9. Closing'
    BY <1>1, <1>2 DEF Agents, TypeOK, ThreadPc, WorkerPc, SharedHold, Closing, GateHeld, Gated
<1>10. Locked'
    BY <1>1, <1>2 DEF Locked
<1>11. Counted'
    BY <1>1, <1>2 DEF Counted
<1>12. Placed'
    BY <1>1, <1>2 DEF Placed
<1>13. BatchInHand'
    BY <1>1, <1>2 DEF BatchInHand
<1>14. QED
    BY <1>3, <1>4, <1>5, <1>6, <1>7, <1>8, <1>9, <1>10, <1>11, <1>12, <1>13 DEF IInv

LEMMA DriverFreeFileContextTreeKeeps ==
    ASSUME IInv, DriverFreeFileContextTree
    PROVE IInv'
<1>1. /\ TypeOK /\ Locked /\ Counted /\ Rooted /\ Placed /\ Doomed /\ ClaimHasOneOwner
      /\ OnReapList \subseteq Resident /\ BatchInHand /\ GateHeld /\ Closing
    BY DEF IInv
<1>2. /\ teardown = "tree"
      /\ Resident' = {}
      /\ Dcbs' = {}
      /\ OnReapList' = {}
      /\ teardown' = "down"
      /\ UNCHANGED <<Published, RefCount, PinCount, Handle, ReapList, Batch, Queued, ShuttingDown, WorkItem, VcbOwner, pc, cur, target>>
    BY DEF DriverFreeFileContextTree, Goto, tableVars, countVars, reapVars, gateVars
<1>3. \A t \in Threads : pc[t] = "idle" /\ Handle[t] = Nobody
    BY <1>1, <1>2 DEF Closing
<1>4. \A w \in Workers : pc[w] \in {"idle", "kick"} /\ Batch[w] = {}
    BY <1>1, <1>2, <1>3 DEF Closing, GateHeld, Gated, BatchInHand, TypeOK, WorkerPc, Agents
<1>5. ReapList = {} /\ Published = {}
    BY <1>1, <1>2, <1>3, <1>4 DEF Closing
<1>6. \A n \in Nodes, t \in Threads : t \notin RefCount[n] /\ t \notin PinCount[n]
    BY <1>1, <1>2, <1>3, <1>4, <1>5 DEF Counted, Agents
<1>7. TypeOK'
    BY <1>1, <1>2, <1>3, <1>4, <1>5, <1>6 DEF Agents, TypeOK, ThreadPc, WorkerPc, SharedHold,
        Placed, OnNode
<1>8. Counted'
    BY SMTT(60), <1>1, <1>2, <1>3, <1>4, <1>5, <1>6 DEF Agents, TypeOK, ThreadPc, WorkerPc, SharedHold,
        Counted, Rooted, Placed, OnNode
<1>9. Rooted'
    BY SMTT(60), <1>1, <1>2, <1>3, <1>4, <1>5, <1>6, PrefixAssumption DEF Agents, TypeOK, ThreadPc,
        WorkerPc, SharedHold, Rooted, Placed, OnNode, Doomed, Frees
<1>10. Placed'
    BY SMTT(60), <1>1, <1>2, <1>3, <1>4, <1>5, <1>6 DEF Agents, TypeOK, ThreadPc, WorkerPc, SharedHold,
        Placed, OnNode, Locked, VcbLabels, Doomed, Frees
<1>11. Doomed'
    BY <1>1, <1>2, <1>3, <1>4, <1>5, <1>6 DEF Agents, TypeOK, ThreadPc, WorkerPc, SharedHold,
        Doomed, Frees, Placed, OnNode, Locked, VcbLabels
<1>12. ClaimHasOneOwner'
    BY <1>1, <1>2, <1>3, <1>4, <1>5, <1>6 DEF Agents, TypeOK, ThreadPc, WorkerPc, SharedHold,
        ClaimHasOneOwner, HoldsClaim, Placed, OnNode
<1>13. (OnReapList \subseteq Resident)'
    BY <1>1, <1>2, <1>3, <1>4, <1>5, <1>6 DEF Agents, TypeOK, ThreadPc, WorkerPc, SharedHold,
        Placed, OnNode
<1>14. Closing'
    BY <1>1, <1>2, <1>3, <1>4, <1>5, <1>6 DEF Agents, TypeOK, ThreadPc, WorkerPc, SharedHold,
        Closing, GateHeld, Gated
<1>15. Locked' /\ BatchInHand' /\ GateHeld'
    BY <1>1, <1>2, <1>3, <1>4, <1>5, <1>6 DEF Locked, BatchInHand, GateHeld, Gated
<1>16. QED
    BY <1>7, <1>8, <1>9, <1>10, <1>11, <1>12, <1>13, <1>14, <1>15 DEF IInv

-----------------------------------------------------------------------------
(* The theorems.                                                           *)

LEMMA InitEstablishes == Init => IInv
<1> SUFFICES ASSUME Init PROVE IInv
    OBVIOUS
<1>1. TypeOK
    BY ZenonT(40) DEF Init, TypeOK, ThreadPc, WorkerPc, SharedHold, Agents
<1>2. Locked /\ BatchInHand
    BY DEF Init, Locked, VcbLabels, BatchInHand, Agents
<1>3. Counted
    BY DEF Init, Counted, SharedHold, Agents
<1>4. Rooted /\ OnReapList \subseteq Resident
    BY DEF Init, Rooted
<1>5. Placed
    BY DEF Init, Placed, OnNode, Agents
<1>6. Doomed
    BY DEF Init, Doomed, Frees, Agents
<1>7. ClaimHasOneOwner
    BY DEF Init, ClaimHasOneOwner, HoldsClaim, Agents
<1>8. GateHeld /\ Closing
    BY DEF Init, GateHeld, Gated, Closing, Agents
<1>9. QED
    BY <1>1, <1>2, <1>3, <1>4, <1>5, <1>6, <1>7, <1>8 DEF IInv

LEMMA StutterKeeps == ASSUME IInv, UNCHANGED vars PROVE IInv'
<1> USE DEF vars, tableVars, countVars, reapVars, gateVars
<1>1. TypeOK' /\ Locked' /\ Counted' /\ Rooted'
    BY SMTT(60) DEF IInv, TypeOK, Locked, Counted, Rooted
<1>2. Placed' /\ Doomed' /\ ClaimHasOneOwner'
    BY DEF IInv, Placed, Doomed, Frees, ClaimHasOneOwner, HoldsClaim
<1>3. (OnReapList \subseteq Resident)' /\ BatchInHand' /\ GateHeld' /\ Closing'
    BY DEF IInv, BatchInHand, GateHeld, Gated, Closing
<1>4. QED
    BY <1>1, <1>2, <1>3 DEF IInv

LEMMA NextKeeps == ASSUME IInv, Next PROVE IInv'
<1>1. ASSUME NEW a \in Agents, AgentStep(a) PROVE IInv'
    BY <1>1, NodeReapKickKeeps, NodeReapQueueWorkItemKeeps, NodeTableTryRetireKeeps,
        FreeAndAscendKeeps DEF AgentStep
<1>2. ASSUME NEW t \in Threads, Request(t) PROVE IInv'
    BY <1>2, BlorgNodeTableLookupPinKeeps, ColdAcquireVcbKeeps, BlorgNodeDereferenceKeeps
        DEF Request
<1>3. ASSUME NEW t \in Threads, DropStep(t) PROVE IInv'
    BY <1>3, NodeDeferReapReadRefCountKeeps, NodeDeferReapReadPinCountKeeps,
        NodeDeferReapClaimKeeps, NodeDeferReapPushKeeps DEF DropStep
<1>4. ASSUME NEW t \in Threads, OpenStep(t) PROVE IInv'
    BY <1>4, WarmOpenKeeps, WarmShareConflictKeeps, BlorgNodeUnpinKeeps, BlorgSearchByPathKeeps,
        ColdOpenKeeps, ColdShareConflictKeeps, BlorgNodeTablePublishKeeps,
        BlorgInsertByPathKeeps, OpenNewKeeps DEF OpenStep
<1>5. ASSUME NEW w \in Workers, WorkerTakeList(w) \/ WorkerStep(w) PROVE IInv'
    BY <1>5, WorkerTakeListKeeps, WorkerAcquireVcbKeeps, WorkerExamineKeeps,
        WorkerReleaseVcbKeeps, WorkerTailKeeps DEF WorkerStep
<1>6. ASSUME Teardown PROVE IInv'
    BY <1>6, TeardownLatchKeeps, TeardownPollKeeps, TeardownDrainKeeps,
        DriverFreeFileContextTreeKeeps DEF Teardown
<1>7. ASSUME Unloaded PROVE IInv'
    BY <1>7, StutterKeeps DEF Unloaded
<1>8. QED
    BY <1>1, <1>2, <1>3, <1>4, <1>5, <1>6, <1>7 DEF Next

\* IInv is inductive: every reachable state of the node table satisfies it.
THEOREM Inductive == Spec => []IInv
<1>1. IInv /\ [Next]_vars => IInv'
    BY NextKeeps, StutterKeeps
<1>2. QED
    BY InitEstablishes, <1>1, PTL DEF Spec

\* Every variable of the node table stays in its type.
THEOREM TypeCorrect == Spec => []TypeOK
<1>1. IInv => TypeOK
    BY DEF IInv
<1>2. QED
    BY Inductive, <1>1, PTL

\* No freed FCB or DCB is reachable from a bucket, a handle, a pin, the reap
\* list, a worker's batch, a child, or an agent in the middle of an operation
\* (the lifetime protocol of Structs.c), for any tree and any number of threads.
THEOREM MemorySafe == Spec => []NoDanglingPointer
<1>1. ASSUME IInv PROVE NoDanglingPointer
  <2>1. TypeOK /\ Counted /\ Rooted /\ Placed /\ ClaimHasOneOwner /\ OnReapList \subseteq Resident
      BY <1>1 DEF IInv
  <2>2. Published \subseteq Resident /\ \A n \in Resident : Parent[n] # Root => Parent[n] \in Dcbs
      BY <2>1 DEF Rooted, TypeOK
  <2>3. ReapList \subseteq Resident /\ \A w \in Workers : Batch[w] \subseteq Resident
      BY <2>1 DEF ClaimHasOneOwner, TypeOK
  <2>4. \A n \in Nodes : RefCount[n] \cup PinCount[n] # {} => n \in Resident
      BY <2>1 DEF Counted, TypeOK
  <2>5. \A t \in Threads : Handle[t] # Nobody => t \in RefCount[Handle[t]]
      BY <2>1 DEF Counted, TypeOK
  <2>6. \A a \in Agents : pc[a] \in Touches /\ cur[a] # Root => cur[a] \in Resident
      BY <2>1 DEF Placed, OnNode, Touches, Rooted
  <2>7. QED
      BY <2>2, <2>3, <2>4, <2>5, <2>6 DEF NoDanglingPointer
<1>2. QED
    BY Inductive, <1>1, PTL

\* The reap claim (OnReapList) is exact and exclusive: one list, one batch or
\* one agent owns it, so ReapLink is never pushed twice and no node freed twice.
THEOREM ExclusiveClaim == Spec => []ClaimHasOneOwner
<1>1. IInv => ClaimHasOneOwner
    BY DEF IInv
<1>2. QED
    BY Inductive, <1>1, PTL

\* NodeReapKick's gate: the one I/O work item is never queued twice, nor after
\* BlorgNodeTableTeardown freed it.
THEOREM GatedWorkItem == Spec => []WorkItemQueuedOnce
<1>1. IInv => WorkItemQueuedOnce
    BY DEF IInv, GateHeld, Gated, WorkItemQueuedOnce
<1>2. QED
    BY Inductive, <1>1, PTL

\* BlorgNodeTableTeardown's poll is enough: no worker holds a node when the tree
\* is freed.
THEOREM TeardownAlone == Spec => []TeardownIsAlone
<1>1. IInv => TeardownIsAlone
    BY DEF IInv, GateHeld, Gated, Closing, BatchInHand, TypeOK, WorkerPc, Agents, TeardownIsAlone
<1>2. QED
    BY Inductive, <1>1, PTL

\* The KdBreakPoint at the end of BlorgVolumeCreate's cold path is dead code.
THEOREM NoFallThrough == Spec => []InsertNeverMeetsLeaf
<1>1. IInv => InsertNeverMeetsLeaf
    BY DEF IInv, Placed, InsertNeverMeetsLeaf
<1>2. QED
    BY Inductive, <1>1, PTL
=============================================================================
