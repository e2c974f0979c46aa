----------------------- MODULE NodeTableInsertProofs ------------------------
(***************************************************************************)
(* The nodes a cold open inserts along its path, and the open of the last  *)
(* of them, keep the inductive invariant of NodeTable.                     *)
(***************************************************************************)
EXTENDS NodeTableInvariant

USE NodeTableAssumption

LEMMA BlorgInsertByPathKeeps ==
    ASSUME IInv, NEW t \in Threads, BlorgInsertByPath(t)
    PROVE IInv'
<1> DEFINE Leaf(c) ==
        /\ pc[t] = "insert" /\ c \in Prefixes[target[t]] /\ c \in Resident /\ c = target[t]
        /\ pc' = [pc EXCEPT ![t] = "kdBreak"]
        /\ UNCHANGED <<Resident, Dcbs, Published, RefCount, PinCount, Handle, OnReapList, ReapList, Batch, Queued, ShuttingDown, WorkItem, VcbOwner, cur, target, teardown>>
<1> DEFINE Enter(c) ==
        /\ pc[t] = "insert" /\ c \in Prefixes[target[t]] /\ c \in Dcbs
        /\ cur' = [cur EXCEPT ![t] = c]
        /\ UNCHANGED <<Resident, Dcbs, Published, RefCount, PinCount, Handle, OnReapList, ReapList, Batch, Queued, ShuttingDown, WorkItem, VcbOwner, pc, target, teardown>>
<1> DEFINE Stop ==
        /\ pc[t] = "insert"
        /\ pc' = [pc EXCEPT ![t] = "walk"]
        /\ UNCHANGED <<Resident, Dcbs, Published, RefCount, PinCount, Handle, OnReapList, ReapList, Batch, Queued, ShuttingDown, WorkItem, VcbOwner, cur, target, teardown>>
<1> DEFINE CreateDirectory(c) ==
        /\ pc[t] = "insert" /\ c \in Prefixes[target[t]] /\ Parent[c] = cur[t] /\ c \notin Resident /\ c # target[t]
        /\ Resident' = Resident \cup {c}
        /\ Dcbs' = Dcbs \cup {c}
        /\ cur' = [cur EXCEPT ![t] = c]
        /\ UNCHANGED <<Published, RefCount, PinCount, Handle, OnReapList, ReapList, Batch, Queued, ShuttingDown, WorkItem, VcbOwner, pc, target, teardown>>
<1> DEFINE CreateLeaf(c) ==
        /\ pc[t] = "insert" /\ c \in Prefixes[target[t]] /\ Parent[c] = cur[t] /\ c \notin Resident /\ c = target[t] /\ Dcbs' \in {Dcbs, Dcbs \cup {c}}
        /\ Resident' = Resident \cup {c}
        /\ pc' = [pc EXCEPT ![t] = "newOpen"]
        /\ cur' = [cur EXCEPT ![t] = c]
        /\ UNCHANGED <<Published, RefCount, PinCount, Handle, OnReapList, ReapList, Batch, Queued, ShuttingDown, WorkItem, VcbOwner, target, teardown>>
<1>1. /\ TypeOK /\ Locked /\ Counted /\ Rooted /\ Placed /\ Doomed /\ ClaimHasOneOwner
      /\ OnReapList \subseteq Resident /\ BatchInHand /\ GateHeld /\ Closing
    BY DEF IInv
<1>2. (\E c \in Nodes : Leaf(c)) \/ (\E c \in Nodes : Enter(c)) \/ Stop \/ (\E c \in Nodes : CreateDirectory(c)) \/ (\E c \in Nodes : CreateLeaf(c))
    BY <1>1 DEF BlorgInsertByPath, Goto, tableVars, countVars, reapVars, gateVars, TypeOK, Placed
<1>3. ASSUME NEW c \in Nodes, Leaf(c) PROVE IInv'
  <2>1. TypeOK'
      BY <1>1, <1>3 DEF Agents, TypeOK, ThreadPc, WorkerPc, SharedHold, Placed, OnNode
  <2>2. Locked'
      BY <1>1, <1>3 DEF Agents, TypeOK, ThreadPc, WorkerPc, SharedHold, Locked, VcbLabels
  <2>3. Counted'
      BY <1>1, <1>3 DEF Agents, TypeOK, ThreadPc, WorkerPc, SharedHold, Counted, Rooted, Placed,
          OnNode
  <2>4. Placed'
      BY <1>1, <1>3 DEF Agents, TypeOK, ThreadPc, WorkerPc, SharedHold, Placed, OnNode, Locked,
          VcbLabels, Doomed, Frees
  <2>5. Doomed'
      BY <1>1, <1>3 DEF Agents, TypeOK, ThreadPc, WorkerPc, SharedHold, Doomed, Frees, Placed,
          OnNode, Locked, VcbLabels
  <2>6. ClaimHasOneOwner'
      BY <1>1, <1>3 DEF Agents, TypeOK, ThreadPc, WorkerPc, SharedHold, ClaimHasOneOwner,
          HoldsClaim, Placed, OnNode
  <2>7. BatchInHand'
      BY <1>1, <1>3 DEF Agents, TypeOK, ThreadPc, WorkerPc, SharedHold, BatchInHand
  <2>8. GateHeld'
      BY <1>1, <1>3 DEF Agents, TypeOK, ThreadPc, WorkerPc, SharedHold, GateHeld, Gated, Closing
  <2>9. Closing'
      BY <1>1, <1>3 DEF Agents, TypeOK, ThreadPc, WorkerPc, SharedHold, Closing, GateHeld, Gated
  <2>10. Rooted' /\ (OnReapList \subseteq Resident)'
      BY <1>1, <1>3 DEF Rooted
  <2>11. QED
      BY <2>1, <2>2, <2>3, <2>4, <2>5, <2>6, <2>7, <2>8, <2>9, <2>10 DEF IInv
<1>4. ASSUME NEW c \in Nodes, Enter(c) PROVE IInv'
  <2>1. TypeOK'
      BY <1>1, <1>4 DEF Agents, TypeOK, ThreadPc, WorkerPc, SharedHold, Placed, OnNode
  <2>2. Counted'
      BY <1>1, <1>4 DEF Agents, TypeOK, ThreadPc, WorkerPc, SharedHold, Counted, Rooted, Placed,
          OnNode
  <2>3. Placed'
      BY <1>1, <1>4 DEF Agents, TypeOK, ThreadPc, WorkerPc, SharedHold, Placed, OnNode, Locked,
          VcbLabels, Doomed, Frees, Rooted
  <2>4. Doomed'
      BY <1>1, <1>4 DEF Agents, TypeOK, ThreadPc, WorkerPc, SharedHold, Doomed, Frees, Placed,
          OnNode, Locked, VcbLabels
  <2>5. ClaimHasOneOwner'
      BY <1>1, <1>4 DEF Agents, TypeOK, ThreadPc, WorkerPc, SharedHold, ClaimHasOneOwner,
          HoldsClaim, Placed, OnNode
  <2>6. Locked' /\ Rooted' /\ (OnReapList \subseteq Resident)' /\ BatchInHand' /\ GateHeld' /\ Closing'
      BY <1>1, <1>4 DEF Locked, Rooted, BatchInHand, GateHeld, Gated, Closing
  <2>7. QED
      BY <2>1, <2>2, <2>3, <2>4, <2>5, <2>6 DEF IInv
<1>5. ASSUME Stop PROVE IInv'
  <2>1. TypeOK'
      BY <1>1, <1>5 DEF Agents, TypeOK, ThreadPc, WorkerPc, SharedHold, Placed, OnNode
  <2>2. Locked'
      BY <1>1, <1>5 DEF Agents, TypeOK, ThreadPc, WorkerPc, SharedHold, Locked, VcbLabels
  <2>3. Counted'
      BY <1>1, <1>5 DEF Agents, TypeOK, ThreadPc, WorkerPc, SharedHold, Counted, Rooted, Placed,
          OnNode
  <2>4. Placed'
      BY <1>1, <1>5 DEF Agents, TypeOK, ThreadPc, WorkerPc, SharedHold, Placed, OnNode, Locked,
          VcbLabels, Doomed, Frees
  <2>5. Doomed'
      BY SMTT(60), <1>1, <1>5 DEF Agents, TypeOK, ThreadPc, WorkerPc, SharedHold, Doomed, Frees, Placed,
          OnNode, Locked, VcbLabels
  <2>6. ClaimHasOneOwner'
      BY <1>1, <1>5 DEF Agents, TypeOK, ThreadPc, WorkerPc, SharedHold, ClaimHasOneOwner,
          HoldsClaim, Placed, OnNode
  <2>7. BatchInHand'
      BY <1>1, <1>5 DEF Agents, TypeOK, ThreadPc, WorkerPc, SharedHold, BatchInHand
  <2>8. GateHeld'
      BY SMTT(60), <1>1, <1>5 DEF Agents, TypeOK, ThreadPc, WorkerPc, SharedHold, GateHeld, Gated, Closing
  <2>9. Closing'
      BY <1>1, <1>5 DEF Agents, TypeOK, ThreadPc, WorkerPc, SharedHold, Closing, GateHeld, Gated
  <2>10. Rooted' /\ (OnReapList \subseteq Resident)'
      BY <1>1, <1>5 DEF Rooted
  <2>11. QED
      BY <2>1, <2>2, <2>3, <2>4, <2>5, <2>6, <2>7, <2>8, <2>9, <2>10 DEF IInv
<1>6. ASSUME NEW c \in Nodes, CreateDirectory(c) PROVE IInv'
  <2>1. TypeOK'
      BY SMTT(60), <1>1, <1>6 DEF Agents, TypeOK, ThreadPc, WorkerPc, SharedHold, Placed, OnNode
  <2>2. Counted'
      BY SMTT(90), <1>1, <1>6 DEF Agents, TypeOK, ThreadPc, WorkerPc, SharedHold, Counted, Rooted, Placed,
          OnNode
  <2>3. Rooted'
      BY SMTT(60), <1>1, <1>6, PrefixAssumption DEF Agents, TypeOK, ThreadPc, WorkerPc, SharedHold,
          Rooted, Placed, OnNode, Doomed, Frees
  <2>4. Placed'
      BY <1>1, <1>6 DEF Agents, TypeOK, ThreadPc, WorkerPc, SharedHold, Placed, OnNode, Locked,
          VcbLabels, Doomed, Frees, Rooted
  <2>5. Doomed'
      BY SMTT(60), <1>1, <1>6 DEF Agents, TypeOK, ThreadPc, WorkerPc, SharedHold, Doomed, Frees, Placed,
          OnNode, Locked, VcbLabels, Rooted
  <2>6. ClaimHasOneOwner'
      BY <1>1, <1>6 DEF Agents, TypeOK, ThreadPc, WorkerPc, SharedHold, ClaimHasOneOwner,
          HoldsClaim, Placed, OnNode
  <2>7. (OnReapList \subseteq Resident)'
      BY <1>1, <1>6 DEF Agents, TypeOK, ThreadPc, WorkerPc, SharedHold, Placed, OnNode
  <2>8. Locked' /\ BatchInHand' /\ GateHeld' /\ Closing'
      BY <1>1, <1>6 DEF Locked, BatchInHand, GateHeld, Gated, Closing
  <2>9. QED
      BY <2>1, <2>2, <2>3, <2>4, <2>5, <2>6, <2>7, <2>8 DEF IInv
<1>7. ASSUME NEW c \in Nodes, CreateLeaf(c) PROVE IInv'
  <2>1. TypeOK'
      BY SMTT(60), <1>1, <1>7 DEF Agents, TypeOK, ThreadPc, WorkerPc, SharedHold, Placed, OnNode
  <2>2. Locked'
      BY <1>1, <1>7 DEF Agents, TypeOK, ThreadPc, WorkerPc, SharedHold, Locked, VcbLabels
  <2>3. Counted'
      BY SMTT(60), <1>1, <1>7 DEF Agents, TypeOK, ThreadPc, WorkerPc, SharedHold, Counted, Rooted, Placed,
          OnNode
  <2>4. Rooted'
      BY SMTT(60), <1>1, <1>7, PrefixAssumption DEF Agents, TypeOK, ThreadPc, WorkerPc, SharedHold,
          Rooted, Placed, OnNode, Doomed, Frees
  <2>5. Placed'
      BY SMTT(90), <1>1, <1>7 DEF Agents, TypeOK, ThreadPc, WorkerPc, SharedHold, Placed, OnNode, Locked,
          VcbLabels, Doomed, Frees, Rooted
  <2>6. Doomed'
    <3>1. \A b \in Agents : Frees(b)' => b = t
        BY <1>1, <1>7 DEF TypeOK, Locked, VcbLabels, Frees, Agents
    <3>2. c \in Nodes /\ cur'[t] = c /\ c \notin Published'
        BY SMTT(30), <1>1, <1>7 DEF Agents, TypeOK, ThreadPc, WorkerPc, SharedHold, Rooted
    <3>3. \A u \in Threads : Handle[u] # c
        BY <1>1, <1>7, <3>2 DEF Counted, Agents, Rooted
    <3>4. \A u \in Threads : pc[u] \in SharedHold => cur[u] # c
        BY SMTT(90), <1>1, <1>7, <3>2 DEF Placed, OnNode, SharedHold, Agents, Rooted
    <3>5. \A u \in Threads : pc[u] \in {"open", "openUndo", "unpin"} => cur[u] # c
        BY <1>1, <1>7, <3>2 DEF Counted, Placed, OnNode, Agents, Rooted
    <3>6. \A c2 \in Resident' : Parent[c2] # c
        BY SMTT(60), <1>1, <1>7, <3>2 DEF Locked, Rooted, Placed, TypeOK, Agents, Rooted
    <3>7. pc'[t] \notin SharedHold \cup {"open", "openUndo", "unpin"} /\ (pc'[t] = "newOpen" => c \notin OnReapList')
        BY <1>1, <1>7, <3>2 DEF SharedHold, TypeOK, Agents
    <3>8. \A b \in Agents : Frees(b)' => cur'[b] = c
        BY <1>1, <1>7, <3>1, <3>2 DEF Agents, TypeOK
    <3>9. \A u \in Threads : pc'[u] \in SharedHold \cup {"open", "openUndo", "unpin"} => cur'[u] # c
        BY <1>1, <1>7, <3>4, <3>5, <3>7 DEF Agents, TypeOK
    <3>10. (\A b \in Agents : Frees(b) => cur[b] \notin Published)'
        BY SMTT(30), <3>2, <3>8 DEF Agents
    <3>11. (\A b \in Agents, u \in Threads : Frees(b) => Handle[u] # cur[b])'
        BY <1>1, <1>7, <3>3, <3>8 DEF Agents
    <3>12. (\A b \in Agents, u \in Threads : Frees(b) /\ pc[u] \in SharedHold \cup {"open", "openUndo", "unpin"} => cur[u] # cur[b])'
        BY <3>8, <3>9 DEF Agents, SharedHold
    <3>13. (\A b \in Agents, c2 \in Resident : Frees(b) => Parent[c2] # cur[b])'
        BY <3>6, <3>8, Zenon DEF Agents
    <3>14. (\A b \in Agents : pc[b] = "newOpen" => cur[b] \notin OnReapList)'
        BY <3>1, <3>7, <3>8 DEF Agents, Frees
    <3>15. QED
        BY <3>10, <3>11, <3>12, <3>13, <3>14 DEF Doomed
  <2>7. ClaimHasOneOwner'
      BY SMTT(60), <1>1, <1>7 DEF Agents, TypeOK, ThreadPc, WorkerPc, SharedHold, ClaimHasOneOwner,
          HoldsClaim, Placed, OnNode
  <2>8. (OnReapList \subseteq Resident)'
      BY <1>1, <1>7 DEF Agents, TypeOK, ThreadPc, WorkerPc, SharedHold, Placed, OnNode
  <2>9. BatchInHand'
      BY <1>1, <1>7 DEF Agents, TypeOK, ThreadPc, WorkerPc, SharedHold, BatchInHand
  <2>10. GateHeld'
      BY <1>1, <1>7 DEF Agents, TypeOK, ThreadPc, WorkerPc, SharedHold, GateHeld, Gated, Closing
  <2>11. Closing'
      BY SMTT(60), <1>1, <1>7 DEF Agents, TypeOK, ThreadPc, WorkerPc, SharedHold, Closing, GateHeld, Gated
  <2>12. QED
      BY <2>1, <2>2, <2>3, <2>4, <2>5, <2>6, <2>7, <2>8, <2>9, <2>10, <2>11 DEF IInv
<1>8. QED
    BY <1>2, <1>3, <1>4, <1>5, <1>6, <1>7

LEMMA OpenNewKeeps ==
    ASSUME IInv, NEW t \in Threads, OpenNew(t)
    PROVE IInv'
<1> DEFINE Opened ==
        /\ pc[t] = "newOpen"
        /\ RefCount' = [RefCount EXCEPT ![cur[t]] = @ \cup {t}]
        /\ Handle' = [Handle EXCEPT ![t] = cur[t]]
        /\ pc' = [pc EXCEPT ![t] = "publish"]
        /\ UNCHANGED <<Resident, Dcbs, Published, PinCount, OnReapList, ReapList, Batch, Queued, ShuttingDown, WorkItem, VcbOwner, cur, target, teardown>>
<1> DEFINE Failed ==
        /\ pc[t] = "newOpen"
        /\ Resident' = Resident \ {cur[t]}
        /\ Dcbs' = Dcbs \ {cur[t]}
        /\ OnReapList' = OnReapList \ {cur[t]}
        /\ pc' = [pc EXCEPT ![t] = "walk"]
        /\ cur' = [cur EXCEPT ![t] = Parent[cur[t]]]
        /\ UNCHANGED <<Published, RefCount, PinCount, Handle, ReapList, Batch, Queued, ShuttingDown, WorkItem, VcbOwner, target, teardown>>
<1>1. /\ TypeOK /\ Locked /\ Counted /\ Rooted /\ Placed /\ Doomed /\ ClaimHasOneOwner
      /\ OnReapList \subseteq Resident /\ BatchInHand /\ GateHeld /\ Closing
    BY DEF IInv
<1>2. Opened \/ Failed
    BY <1>1 DEF OpenNew, Goto, FreeFileContext, tableVars, countVars, reapVars, gateVars,
        TypeOK, Agents
<1>3. ASSUME Opened PROVE IInv'
  <2>1. Handle[t] = Nobody /\ cur[t] \in Resident /\ cur[t] \in Nodes
      BY SMTT(60), <1>1, <1>3 DEF Counted, Placed, OnNode, Agents, SharedHold, TypeOK
  <2>2. TypeOK'
      BY <1>1, <1>3, <2>1 DEF Agents, TypeOK, ThreadPc, WorkerPc, SharedHold, Placed, OnNode
  <2>3. Locked'
      BY <1>1, <1>3, <2>1 DEF Agents, TypeOK, ThreadPc, WorkerPc, SharedHold, Locked, VcbLabels
  <2>4. Counted'
    <3>1. (\A n \in Nodes, u \in Threads : u \in RefCount[n] <=> Handle[u] = n \/ (pc[u] \in {"openUndo", "coldUndo"} /\ cur[u] = n))'
        BY <1>1, <1>3, <2>1 DEF Agents, TypeOK, ThreadPc, WorkerPc, SharedHold, Counted
    <3>2. (\A n \in Nodes, u \in Threads : u \in PinCount[n] <=> pc[u] \in {"open", "openUndo", "unpin"} /\ cur[u] = n)'
        BY <1>1, <1>3, <2>1 DEF Agents, TypeOK, ThreadPc, WorkerPc, SharedHold, Counted
    <3>3. (\A u \in Threads : Handle[u] # Nobody => pc[u] \in SharedHold \cup {"idle", "unpin", "publish"})'
        BY <1>1, <1>3, <2>1 DEF Agents, TypeOK, ThreadPc, WorkerPc, SharedHold, Counted
    <3>4. (\A n \in Nodes, u \in Threads : u \in RefCount[n] \/ u \in PinCount[n] => n \in Resident)'
        BY <1>1, <1>3, <2>1 DEF Agents, TypeOK, ThreadPc, WorkerPc, SharedHold, Counted
    <3>5. QED
        BY <3>1, <3>2, <3>3, <3>4 DEF Counted
  <2>5. Placed'
      BY <1>1, <1>3, <2>1 DEF Agents, TypeOK, ThreadPc, WorkerPc, SharedHold, Placed, OnNode,
          Locked, VcbLabels, Doomed, Frees
  <2>6. Doomed'
      BY <1>1, <1>3, <2>1 DEF Agents, TypeOK, ThreadPc, WorkerPc, SharedHold, Doomed, Frees,
          Placed, OnNode, Locked, VcbLabels
  <2>7. ClaimHasOneOwner'
      BY <1>1, <1>3, <2>1 DEF Agents, TypeOK, ThreadPc, WorkerPc, SharedHold, ClaimHasOneOwner,
          HoldsClaim, Placed, OnNode
  <2>8. BatchInHand'
      BY <1>1, <1>3, <2>1 DEF Agents, TypeOK, ThreadPc, WorkerPc, SharedHold, BatchInHand
  <2>9. GateHeld'
      BY <1>1, <1>3, <2>1 DEF Agents, TypeOK, ThreadPc, WorkerPc, SharedHold, GateHeld, Gated,
          Closing
  <2>10. Closing'
      BY <1>1, <1>3, <2>1 DEF Agents, TypeOK, ThreadPc, WorkerPc, SharedHold, Closing, GateHeld,
          Gated
  <2>11. Rooted' /\ (OnReapList \subseteq Resident)'
      BY <1>1, <1>3, <2>1 DEF Rooted
  <2>12. QED
      BY <2>2, <2>3, <2>4, <2>5, <2>6, <2>7, <2>8, <2>9, <2>10, <2>11 DEF IInv
<1>4. ASSUME Failed PROVE IInv'
  <2>1. OnReapList' = OnReapList
      BY <1>1, <1>4 DEF Doomed, TypeOK, Agents, Placed, OnNode
  <2>2. \A b \in Agents : pc[b] \in VcbLabels => b = t
      BY <1>1, <1>4, <2>1 DEF Locked, VcbLabels, Agents, TypeOK
  <2>3. \A u \in Threads : Handle[u] # cur[t] /\ (pc[u] \in SharedHold \cup {"open", "openUndo", "unpin"} => cur[u] # cur[t])
      BY SMTT(60), <1>1, <1>4, <2>1, <2>2 DEF Doomed, Frees, Agents
  <2>4. Parent[cur[t]] # cur[t] /\ Parent[cur[t]] \in Dcbs \cup {Root}
      BY SMTT(60), <1>1, <1>4, <2>1, <2>2, <2>3 DEF Doomed, Frees, Agents, Placed, OnNode, Rooted
  <2>5. TypeOK'
      BY <1>1, <1>4, <2>1, <2>2, <2>3, <2>4 DEF Agents, TypeOK, ThreadPc, WorkerPc, SharedHold,
          Placed, OnNode
  <2>6. Locked'
      BY <1>1, <1>4, <2>1, <2>2, <2>3, <2>4 DEF Agents, TypeOK, ThreadPc, WorkerPc, SharedHold,
          Locked, VcbLabels
  <2>7. Counted'
    <3>1. (\A n \in Nodes, u \in Threads : u \in RefCount[n] <=> Handle[u] = n \/ (pc[u] \in {"openUndo", "coldUndo"} /\ cur[u] = n))'
        BY SMTT(60), <1>1, <1>4, <2>1, <2>2, <2>3, <2>4 DEF Agents, TypeOK, ThreadPc, WorkerPc,
            SharedHold, Counted
    <3>2. (\A n \in Nodes, u \in Threads : u \in PinCount[n] <=> pc[u] \in {"open", "openUndo", "unpin"} /\ cur[u] = n)'
        BY SMTT(60), <1>1, <1>4, <2>1, <2>2, <2>3, <2>4 DEF Agents, TypeOK, ThreadPc, WorkerPc,
            SharedHold, Counted
    <3>3. (\A u \in Threads : Handle[u] # Nobody => pc[u] \in SharedHold \cup {"idle", "unpin", "publish"})'
        BY SMTT(60), <1>1, <1>4, <2>1, <2>2, <2>3, <2>4 DEF Agents, TypeOK, ThreadPc, WorkerPc,
            SharedHold, Counted
    <3>4. (\A n \in Nodes, u \in Threads : u \in RefCount[n] \/ u \in PinCount[n] => n \in Resident)'
      <4>1. \A n \in Nodes, u \in Threads : u \in RefCount[n] => n # cur[t]
          BY <1>1, <1>4, <2>1, <2>2, <2>3, <2>4 DEF Counted, Agents, VcbLabels
      <4>2. \A n \in Nodes, u \in Threads : u \in PinCount[n] => n # cur[t]
          BY <1>1, <1>4, <2>1, <2>2, <2>3, <2>4 DEF Counted
      <4>3. \A n \in Nodes, u \in Threads : u \in RefCount[n] \/ u \in PinCount[n] => n \in Resident
          BY <1>1 DEF Counted
      <4>4. RefCount' = RefCount /\ PinCount' = PinCount /\ Resident' = Resident \ {cur[t]}
          BY SMTT(60), <1>4
      <4>5. QED
          BY <4>1, <4>2, <4>3, <4>4
    <3>5. QED
        BY <3>1, <3>2, <3>3, <3>4 DEF Counted
  <2>8. Rooted'
      BY SMTT(60), <1>1, <1>4, <2>1, <2>2, <2>3, <2>4, PrefixAssumption DEF Agents, TypeOK, ThreadPc,
          WorkerPc, SharedHold, Rooted, Placed, OnNode, Doomed, Frees
  <2>9. Placed'
      BY SMTT(60), <1>1, <1>4, <2>1, <2>2, <2>3, <2>4 DEF Agents, TypeOK, ThreadPc, WorkerPc, SharedHold,
          Placed, OnNode, Locked, VcbLabels, Doomed, Frees, Rooted
  <2>10. Doomed'
      BY SMTT(60), <1>1, <1>4, <2>1, <2>2, <2>3, <2>4 DEF Agents, TypeOK, ThreadPc, WorkerPc, SharedHold,
          Doomed, Frees, Placed, OnNode, Locked, VcbLabels
  <2>11. ClaimHasOneOwner'
      BY SMTT(60), <1>1, <1>4, <2>1, <2>2, <2>3, <2>4 DEF Agents, TypeOK, ThreadPc, WorkerPc, SharedHold,
          ClaimHasOneOwner, HoldsClaim, Placed, OnNode
  <2>12. (OnReapList \subseteq Resident)'
      BY <1>1, <1>4, <2>1, <2>2, <2>3, <2>4 DEF Agents, TypeOK, ThreadPc, WorkerPc, SharedHold,
          Placed, OnNode
  <2>13. BatchInHand'
      BY <1>1, <1>4, <2>1, <2>2, <2>3, <2>4 DEF Agents, TypeOK, ThreadPc, WorkerPc, SharedHold,
          BatchInHand
  <2>14. GateHeld'
      BY SMTT(60), <1>1, <1>4, <2>1, <2>2, <2>3, <2>4 DEF Agents, TypeOK, ThreadPc, WorkerPc, SharedHold,
          GateHeld, Gated, Closing
  <2>15. Closing'
      BY <1>1, <1>4, <2>1, <2>2, <2>3, <2>4 DEF Agents, TypeOK, ThreadPc, WorkerPc, SharedHold,
          Closing, GateHeld, Gated
  <2>16. QED
      BY <2>5, <2>6, <2>7, <2>8, <2>9, <2>10, <2>11, <2>12, <2>13, <2>14, <2>15 DEF IInv
<1>5. QED
    BY <1>2, <1>3, <1>4
=============================================================================
