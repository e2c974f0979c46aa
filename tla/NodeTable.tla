------------------------------ MODULE NodeTable ------------------------------
(***************************************************************************)
(* The node table and the deferred-reap machinery of src/src/Structs.c,    *)
(* driven by the opens and closes of Create.c and Close.c.                 *)
(*                                                                         *)
(* A node is an FCB or DCB, identified by its path.  Every interlocked     *)
(* access, every locked section and every lock hand-over is a step of its  *)
(* own, so the interleavings are those of the code:                        *)
(*  - a section under a bucket lock held exclusive is one step, enabled    *)
(*    only while no agent is inside a shared hold of that bucket;          *)
(*  - a section under a bucket lock held shared (the drops) is split at    *)
(*    every access, since other shared holders run alongside it;           *)
(*  - VcbOwner is the VCB resource held exclusive.                         *)
(*                                                                         *)
(* RefCount and PinCount are the sets of agents that own the references    *)
(* and pins: the code only ever tests the counters for zero.               *)
(***************************************************************************)
EXTENDS FiniteSets

CONSTANTS
    Nodes,      \* The paths below the root that can have a resident node
    Root,       \* The root DCB, which is neither published nor reaped
    Parent,     \* Parent[n]: the directory the path n names an entry of
    Prefixes,   \* Prefixes[n]: the paths dissecting n passes through, n included
    Bucket,     \* Bucket[n]: the node-table bucket the path hashes to
    Threads,    \* Requestor threads; each holds at most one handle
    Workers,    \* System worker threads that run NodeReapWorker
    Nobody      \* The VCB resource is free / no handle is held

\* The names are distinct, and the maps have the domains they need.
ASSUME NodeTableAssumption ==
    /\ Root \notin Nodes /\ Nobody \notin Nodes \cup Threads \cup Workers
    /\ Threads \cap Workers = {}
    /\ Parent \in [Nodes -> Nodes \cup {Root}]
    /\ Prefixes \in [Nodes -> SUBSET Nodes]
    /\ DOMAIN Bucket = Nodes

\* Prefixes is the dissection of a path by Parent.
ASSUME PrefixAssumption ==
    /\ \A n \in Nodes : Prefixes[n] = {n} \cup (IF Parent[n] = Root THEN {} ELSE Prefixes[Parent[n]])
    /\ \A n \in Nodes : \A c \in Prefixes[n] : c # n => \E e \in Prefixes[n] : Parent[e] = c

VARIABLES
    Resident,      \* Nodes allocated and linked in the tree
    Dcbs,          \* Those of them that are directories
    Published,     \* Nodes linked in a bucket (TableLink.Flink # NULL)
    RefCount,      \* RefCount[n]: the threads whose open counts in n
    PinCount,      \* PinCount[n]: the threads whose lookup pin counts in n
    OnReapList,    \* Nodes whose reap claim is set
    ReapList,      \* NodeReap.List
    Queued,        \* NodeReap.Queued
    ShuttingDown,  \* NodeReap.ShuttingDown
    WorkItem,      \* NodeReap.WorkItem: "idle", "queued" or "freed"
    VcbOwner,      \* Holder of the VCB resource exclusive, or Nobody
    Handle,        \* Handle[t]: the node t holds open, or Nobody
    Batch,         \* Batch[w]: nodes worker w popped and has not looked at
    pc,            \* Where each agent is
    cur,           \* The node each agent works on, else Root
    target,        \* The path a cold open resolves, else Root
    teardown       \* Where volume deletion is

Agents == Threads \cup Workers

tableVars == <<Resident, Dcbs, Published>>
countVars == <<RefCount, PinCount, Handle>>
reapVars == <<OnReapList, ReapList, Batch>>
gateVars == <<Queued, ShuttingDown, WorkItem>>
vars == <<tableVars, countVars, reapVars, gateVars, VcbOwner, pc, cur, target, teardown>>

\* Threads inside a bucket's shared hold: after a drop, or in DeferReapIfIdle.
SharedHold == {"readRef", "readPin", "claim", "push", "kick", "queue"}
ThreadPc == SharedHold \cup {"idle", "open", "openUndo", "unpin", "search", "coldOpen",
                             "coldUndo", "publish", "insert", "newOpen", "walk", "walkFree", "kdBreak"}
WorkerPc == {"idle", "vcb", "loop", "free", "walk", "walkFree", "tail", "kick", "queue"}

\* Mutant: the drops do not hold their bucket shared.
BucketFree_unlocked(n) == n \in Nodes

\* The bucket of n can be held exclusive: no agent is inside a shared hold of it.
BucketFree(n) == \A t \in Threads : pc[t] \in SharedHold => Bucket[cur[t]] # Bucket[n]

Children(n) == {c \in Resident : Parent[c] = n}

Idle(n) == RefCount[n] = {} /\ PinCount[n] = {}

Init ==
    /\ Resident = {} /\ Dcbs = {} /\ Published = {}
    /\ RefCount = [n \in Nodes |-> {}] /\ PinCount = [n \in Nodes |-> {}]
    /\ OnReapList = {} /\ ReapList = {} /\ Batch = [w \in Workers |-> {}]
    /\ Queued = FALSE /\ ShuttingDown = FALSE /\ WorkItem = "idle"
    /\ VcbOwner = Nobody
    /\ Handle = [t \in Threads |-> Nobody]
    /\ pc = [a \in Agents |-> "idle"]
    /\ cur = [a \in Agents |-> Root]
    /\ target = [a \in Agents |-> Root]
    /\ teardown = "up"

Goto(a, label) == pc' = [pc EXCEPT ![a] = label]

-----------------------------------------------------------------------------
(* The warm open: BlorgNodeTableLookupPin, the open of the pinned node,    *)
(* BlorgNodeUnpin.                                                         *)

\* A lookup that finds n pins it, under the bucket lock shared.
BlorgNodeTableLookupPin(t, n) ==
    /\ pc[t] = "idle" /\ Handle[t] = Nobody /\ teardown = "up"
    /\ n \in Published
    /\ PinCount' = [PinCount EXCEPT ![n] = @ \cup {t}]
    /\ Goto(t, "open") /\ cur' = [cur EXCEPT ![t] = n]
    /\ UNCHANGED <<tableVars, RefCount, Handle, reapVars, gateVars, VcbOwner, target, teardown>>

\* Opens cur[t], or fails with nothing changed (access, oplock, no CCB, FCB
\* not current), or counts the open, finds a share conflict and takes it back
\* in a later step.
OpenExisting(t, opened, undo, failed) ==
    \/ /\ RefCount' = [RefCount EXCEPT ![cur[t]] = @ \cup {t}]
       /\ Handle' = [Handle EXCEPT ![t] = cur[t]]
       /\ Goto(t, opened)
    \/ RefCount' = [RefCount EXCEPT ![cur[t]] = @ \cup {t}] /\ Goto(t, undo) /\ UNCHANGED Handle
    \/ Goto(t, failed) /\ UNCHANGED <<RefCount, Handle>>

UndoOpen(t, failed) ==
    /\ RefCount' = [RefCount EXCEPT ![cur[t]] = @ \ {t}]
    /\ Goto(t, failed)
    /\ UNCHANGED <<tableVars, PinCount, Handle, reapVars, gateVars, VcbOwner, cur, target, teardown>>

WarmOpen(t) ==
    /\ pc[t] = "open"
    /\ OpenExisting(t, "unpin", "openUndo", "unpin")
    /\ UNCHANGED <<tableVars, PinCount, reapVars, gateVars, VcbOwner, cur, target, teardown>>

WarmShareConflict(t) == pc[t] = "openUndo" /\ UndoOpen(t, "unpin")

BlorgNodeUnpin(t) ==
    /\ pc[t] = "unpin"
    /\ PinCount' = [PinCount EXCEPT ![cur[t]] = @ \ {t}]
    /\ Goto(t, "readRef")
    /\ UNCHANGED <<tableVars, RefCount, Handle, reapVars, gateVars, VcbOwner, cur, target, teardown>>

-----------------------------------------------------------------------------
(* Close, and what every drop does next inside its shared bucket hold:     *)
(* NodeDeferReapIfIdleLocked, BlorgNodeDeferReap, NodeReapKick.            *)

BlorgNodeDereference(t) ==
    /\ pc[t] = "idle" /\ Handle[t] # Nobody
    /\ RefCount' = [RefCount EXCEPT ![Handle[t]] = @ \ {t}]
    /\ Handle' = [Handle EXCEPT ![t] = Nobody]
    /\ cur' = [cur EXCEPT ![t] = Handle[t]]
    /\ Goto(t, "readRef")
    /\ UNCHANGED <<tableVars, PinCount, reapVars, gateVars, VcbOwner, target, teardown>>

\* Releases the bucket, and the VCB resource if the cold path holds it.
Leave(a) ==
    /\ Goto(a, "idle")
    /\ VcbOwner' = IF VcbOwner = a THEN Nobody ELSE VcbOwner
    /\ cur' = [cur EXCEPT ![a] = Root]
    /\ target' = [target EXCEPT ![a] = Root]

Continue(a, label) == Goto(a, label) /\ UNCHANGED <<VcbOwner, cur, target>>

NodeDeferReapReadRefCount(t) ==
    /\ pc[t] = "readRef"
    /\ IF RefCount[cur[t]] = {} THEN Continue(t, "readPin") ELSE Leave(t)
    /\ UNCHANGED <<tableVars, countVars, reapVars, gateVars, teardown>>

NodeDeferReapReadPinCount(t) ==
    /\ pc[t] = "readPin"
    /\ IF PinCount[cur[t]] = {} THEN Continue(t, "claim") ELSE Leave(t)
    /\ UNCHANGED <<tableVars, countVars, reapVars, gateVars, teardown>>

\* Mutant: the claim is set without testing whether it already was.
NodeDeferReapClaim_untested(t) ==
    /\ pc[t] = "claim"
    /\ OnReapList' = OnReapList \cup {cur[t]}
    /\ Continue(t, "push")
    /\ UNCHANGED <<tableVars, countVars, ReapList, Batch, gateVars, teardown>>

NodeDeferReapClaim(t) ==
    /\ pc[t] = "claim"
    /\ IF cur[t] \in OnReapList
       THEN Leave(t) /\ UNCHANGED OnReapList
       ELSE /\ OnReapList' = OnReapList \cup {cur[t]}
            /\ Continue(t, "push")
    /\ UNCHANGED <<tableVars, countVars, ReapList, Batch, gateVars, teardown>>

NodeDeferReapPush(t) ==
    /\ pc[t] = "push"
    /\ ReapList' = ReapList \cup {cur[t]}
    /\ Goto(t, "kick")
    /\ UNCHANGED <<tableVars, countVars, OnReapList, Batch, gateVars, VcbOwner, cur, target, teardown>>

\* NodeReapKick, for a thread in its shared hold and for the worker's tail.
NodeReapKick(a) ==
    /\ pc[a] = "kick"
    /\ IF Queued \/ ShuttingDown
       THEN Leave(a) /\ UNCHANGED Queued
       ELSE Queued' = TRUE /\ Continue(a, "queue")
    /\ UNCHANGED <<tableVars, countVars, reapVars, ShuttingDown, WorkItem, teardown>>

NodeReapQueueWorkItem(a) ==
    /\ pc[a] = "queue"
    /\ WorkItem' = "queued"
    /\ Leave(a)
    /\ UNCHANGED <<tableVars, countVars, reapVars, Queued, ShuttingDown, teardown>>

-----------------------------------------------------------------------------
(* The cold open, under the VCB resource exclusive.                        *)

ColdAcquireVcb(t, n) ==
    /\ pc[t] = "idle" /\ Handle[t] = Nobody /\ teardown = "up"
    /\ VcbOwner = Nobody
    /\ VcbOwner' = t
    /\ Goto(t, "search") /\ target' = [target EXCEPT ![t] = n]
    /\ UNCHANGED <<tableVars, countVars, reapVars, gateVars, cur, teardown>>

\* Mutant: the search consults the node table instead of the tree.
Found_published(n) == n \in Published

Found(n) == \A c \in Prefixes[n] : c \in Resident /\ (c # n => c \in Dcbs)

\* A node that is there is opened, or is of the wrong type for the request.
BlorgSearchByPath(t) ==
    /\ pc[t] = "search"
    /\ IF Found(target[t])
       THEN \/ /\ cur' = [cur EXCEPT ![t] = target[t]]
               /\ Goto(t, "coldOpen") /\ UNCHANGED <<VcbOwner, target>>
            \/ Leave(t)
       ELSE Continue(t, "insert")
    /\ UNCHANGED <<tableVars, countVars, reapVars, gateVars, teardown>>

\* A failed open of a resident node runs BlorgNodeDeferReapIfIdle.
ColdOpen(t) ==
    /\ pc[t] = "coldOpen"
    /\ OpenExisting(t, "publish", "coldUndo", "readRef")
    /\ UNCHANGED <<tableVars, PinCount, reapVars, gateVars, VcbOwner, cur, target, teardown>>

\* Mutant: a failed cold open does not run BlorgNodeDeferReapIfIdle.
ColdShareConflict_forgets(t) ==
    /\ pc[t] = "coldUndo"
    /\ RefCount' = [RefCount EXCEPT ![cur[t]] = @ \ {t}]
    /\ Leave(t)
    /\ UNCHANGED <<tableVars, PinCount, Handle, reapVars, gateVars, teardown>>

ColdShareConflict(t) == pc[t] = "coldUndo" /\ UndoOpen(t, "readRef")

BlorgNodeTablePublish(t) ==
    /\ pc[t] = "publish" /\ BucketFree(cur[t])
    /\ Published' = Published \cup {cur[t]}
    /\ Leave(t)
    /\ UNCHANGED <<Resident, Dcbs, countVars, reapVars, gateVars, teardown>>

\* One component of BlorgInsertByPath: an existing directory is entered, an
\* existing file ends the walk, a missing component is created.
BlorgInsertByPath(t) ==
    /\ pc[t] = "insert"
    /\ \E c \in Prefixes[target[t]] :
        /\ Parent[c] = cur[t]
        /\ \/ /\ c \in Resident /\ c = target[t]
              /\ Goto(t, "kdBreak") /\ UNCHANGED <<Resident, Dcbs, cur>>
           \/ /\ c \in Resident /\ c # target[t]
              /\ IF c \in Dcbs
                 THEN cur' = [cur EXCEPT ![t] = c] /\ UNCHANGED pc
                 ELSE Goto(t, "walk") /\ UNCHANGED cur
              /\ UNCHANGED <<Resident, Dcbs>>
           \/ /\ c \notin Resident
              /\ Goto(t, "walk") /\ UNCHANGED <<Resident, Dcbs, cur>>
           \/ /\ c \notin Resident
              /\ Resident' = Resident \cup {c}
              /\ \/ Dcbs' = Dcbs \cup {c}
                 \/ c = target[t] /\ UNCHANGED Dcbs
              /\ cur' = [cur EXCEPT ![t] = c]
              /\ IF c = target[t] THEN Goto(t, "newOpen") ELSE UNCHANGED pc
    /\ UNCHANGED <<Published, countVars, reapVars, gateVars, VcbOwner, target, teardown>>

\* BlorgFreeFileContext: unlinked from the tree; a later node for the same
\* path starts with its reap claim clear.
FreeFileContext(n) ==
    /\ Resident' = Resident \ {n}
    /\ Dcbs' = Dcbs \ {n}
    /\ OnReapList' = OnReapList \ {n}

\* The first open of a node just created; if it fails the node, unpublished,
\* is freed inline.
OpenNew(t) ==
    /\ pc[t] = "newOpen"
    /\ \/ /\ RefCount' = [RefCount EXCEPT ![cur[t]] = @ \cup {t}]
          /\ Handle' = [Handle EXCEPT ![t] = cur[t]]
          /\ Goto(t, "publish")
          /\ UNCHANGED <<Resident, Dcbs, OnReapList, cur>>
       \/ /\ FreeFileContext(cur[t])
          /\ cur' = [cur EXCEPT ![t] = Parent[cur[t]]]
          /\ Goto(t, "walk")
          /\ UNCHANGED <<RefCount, Handle>>
    /\ UNCHANGED <<Published, PinCount, ReapList, Batch, gateVars, VcbOwner, target, teardown>>

-----------------------------------------------------------------------------
(* BlorgReapEmptyAncestorDcbs, for the cold path and for the worker.       *)

Retirable(n) == n \in Dcbs /\ Children(n) = {} /\ Idle(n) /\ n \notin OnReapList

WalkDone(a) ==
    IF a \in Threads
    THEN Leave(a)
    ELSE /\ cur' = [cur EXCEPT ![a] = Root]
         /\ Goto(a, "loop") /\ UNCHANGED <<VcbOwner, target>>

NodeTableTryRetire(a) ==
    /\ pc[a] = "walk"
    /\ cur[a] # Root => BucketFree(cur[a])
    /\ IF cur[a] # Root /\ Retirable(cur[a])
       THEN /\ Published' = Published \ {cur[a]}
            /\ OnReapList' = OnReapList \cup {cur[a]}
            /\ Continue(a, "walkFree")
       ELSE WalkDone(a) /\ UNCHANGED <<Published, OnReapList>>
    /\ UNCHANGED <<Resident, Dcbs, countVars, ReapList, Batch, gateVars, teardown>>

\* Frees the retired node (also the worker's own, at "free") and moves to its parent.
FreeAndAscend(a) ==
    /\ pc[a] \in {"walkFree", "free"}
    /\ FreeFileContext(cur[a])
    /\ cur' = [cur EXCEPT ![a] = Parent[cur[a]]]
    /\ Goto(a, "walk")
    /\ UNCHANGED <<Published, countVars, ReapList, Batch, gateVars, VcbOwner, target, teardown>>

-----------------------------------------------------------------------------
(* NodeReapWorker.  Once it has cleared Queued another work item may be    *)
(* queued and run on another worker thread while this one finishes.        *)

WorkerTakeList(w) ==
    /\ pc[w] = "idle" /\ WorkItem = "queued"
    /\ WorkItem' = "idle"
    /\ Batch' = [Batch EXCEPT ![w] = ReapList] /\ ReapList' = {}
    /\ Goto(w, IF ReapList = {} THEN "tail" ELSE "vcb")
    /\ UNCHANGED <<tableVars, countVars, OnReapList, Queued, ShuttingDown, VcbOwner, cur, target, teardown>>

WorkerAcquireVcb(w) ==
    /\ pc[w] = "vcb" /\ VcbOwner = Nobody
    /\ VcbOwner' = w
    /\ Goto(w, "loop")
    /\ UNCHANGED <<tableVars, countVars, reapVars, gateVars, cur, target, teardown>>

\* Mutant: a node that turns out to be in use goes back on the list.
WorkerExamine_putsBack(w) ==
    /\ pc[w] = "loop"
    /\ \E n \in Batch[w] :
        /\ BucketFree(n)
        /\ Batch' = [Batch EXCEPT ![w] = @ \ {n}]
        /\ IF Idle(n) /\ (n \in Dcbs => Children(n) = {})
           THEN /\ Published' = Published \ {n}
                /\ cur' = [cur EXCEPT ![w] = n]
                /\ Goto(w, "free") /\ UNCHANGED ReapList
           ELSE /\ ReapList' = ReapList \cup {n}
                /\ UNCHANGED <<Published, pc, cur>>
    /\ UNCHANGED <<Resident, Dcbs, countVars, OnReapList, gateVars, VcbOwner, target, teardown>>

\* One popped node: retired if idle and childless, else its claim is dropped.
WorkerExamine(w) ==
    /\ pc[w] = "loop"
    /\ \E n \in Batch[w] :
        /\ BucketFree(n)
        /\ Batch' = [Batch EXCEPT ![w] = @ \ {n}]
        /\ IF Idle(n) /\ (n \in Dcbs => Children(n) = {})
           THEN /\ Published' = Published \ {n}
                /\ cur' = [cur EXCEPT ![w] = n]
                /\ Goto(w, "free") /\ UNCHANGED OnReapList
           ELSE /\ OnReapList' = OnReapList \ {n}
                /\ UNCHANGED <<Published, pc, cur>>
    /\ UNCHANGED <<Resident, Dcbs, countVars, ReapList, gateVars, VcbOwner, target, teardown>>

WorkerReleaseVcb(w) ==
    /\ pc[w] = "loop" /\ Batch[w] = {}
    /\ VcbOwner' = Nobody
    /\ Goto(w, "tail")
    /\ UNCHANGED <<tableVars, countVars, reapVars, gateVars, cur, target, teardown>>

\* Mutant: the worker queues itself again without clearing the gate.
WorkerTail_requeues(w) ==
    /\ pc[w] = "tail"
    /\ Goto(w, "queue")
    /\ UNCHANGED <<tableVars, countVars, reapVars, gateVars, VcbOwner, cur, target, teardown>>

WorkerTail(w) ==
    /\ pc[w] = "tail"
    /\ Queued' = FALSE
    /\ Goto(w, IF ReapList # {} THEN "kick" ELSE "idle")
    /\ UNCHANGED <<tableVars, countVars, reapVars, ShuttingDown, WorkItem, VcbOwner, cur, target, teardown>>

-----------------------------------------------------------------------------
(* BlorgNodeTableTeardown and DriverFreeFileContextTree, at volume         *)
(* deletion.  The I/O manager unloads the driver only once no handle is    *)
(* open and no request is in a dispatch routine.                           *)

TeardownLatch ==
    /\ teardown = "up"
    /\ \A t \in Threads : pc[t] = "idle" /\ Handle[t] = Nobody
    /\ ShuttingDown' = TRUE
    /\ teardown' = "poll"
    /\ UNCHANGED <<tableVars, countVars, reapVars, Queued, WorkItem, VcbOwner, pc, cur, target>>

TeardownPoll ==
    /\ teardown = "poll" /\ ~Queued
    /\ teardown' = "drain"
    /\ UNCHANGED <<tableVars, countVars, reapVars, gateVars, VcbOwner, pc, cur, target>>

\* The list is emptied, its claims dropped, the work item freed and the
\* buckets reset.
TeardownDrain ==
    /\ teardown = "drain"
    /\ OnReapList' = OnReapList \ ReapList /\ ReapList' = {}
    /\ WorkItem' = "freed"
    /\ Published' = {}
    /\ teardown' = "tree"
    /\ UNCHANGED <<Resident, Dcbs, countVars, Batch, Queued, ShuttingDown, VcbOwner, pc, cur, target>>

DriverFreeFileContextTree ==
    /\ teardown = "tree"
    /\ Resident' = {} /\ Dcbs' = {} /\ OnReapList' = {}
    /\ teardown' = "down"
    /\ UNCHANGED <<Published, countVars, ReapList, Batch, gateVars, VcbOwner, pc, cur, target>>

\* Nothing runs once the volume is gone.
Unloaded == teardown = "down" /\ UNCHANGED vars

-----------------------------------------------------------------------------

AgentStep(a) == NodeReapKick(a) \/ NodeReapQueueWorkItem(a) \/ NodeTableTryRetire(a) \/ FreeAndAscend(a)

DropStep(t) ==
    \/ NodeDeferReapReadRefCount(t) \/ NodeDeferReapReadPinCount(t)
    \/ NodeDeferReapClaim(t) \/ NodeDeferReapPush(t)

OpenStep(t) ==
    \/ WarmOpen(t) \/ WarmShareConflict(t) \/ BlorgNodeUnpin(t)
    \/ BlorgSearchByPath(t) \/ ColdOpen(t) \/ ColdShareConflict(t)
    \/ BlorgNodeTablePublish(t) \/ BlorgInsertByPath(t) \/ OpenNew(t)

\* What requestors choose to start.
Request(t) ==
    \/ \E n \in Nodes : BlorgNodeTableLookupPin(t, n) \/ ColdAcquireVcb(t, n)
    \/ BlorgNodeDereference(t)

WorkerStep(w) ==
    WorkerAcquireVcb(w) \/ WorkerExamine(w) \/ WorkerReleaseVcb(w) \/ WorkerTail(w)

Teardown == TeardownLatch \/ TeardownPoll \/ TeardownDrain \/ DriverFreeFileContextTree

Next ==
    \/ \E a \in Agents : AgentStep(a)
    \/ \E t \in Threads : Request(t) \/ DropStep(t) \/ OpenStep(t)
    \/ \E w \in Workers : WorkerTakeList(w) \/ WorkerStep(w)
    \/ Teardown \/ Unloaded

Spec == Init /\ [][Next]_vars

\* The schedulers' guarantees: an agent in the middle of an operation steps on;
\* a queued work item is run; the ERESOURCE queues its waiters, so whoever waits
\* for the VCB gets it (hence strong fairness); a push lock with an exclusive
\* waiter makes later shared acquirers queue behind it, so a bucket's shared
\* holders drain; teardown, once begun, runs on.
Fairness ==
    /\ \A t \in Threads : SF_vars(AgentStep(t) \/ DropStep(t) \/ OpenStep(t))
    /\ \A w \in Workers : SF_vars(AgentStep(w) \/ WorkerStep(w))
    /\ WF_vars(\E w \in Workers : WorkerTakeList(w))
    /\ \A n \in Nodes : []<>BucketFree(n)
    /\ WF_vars(TeardownPoll \/ TeardownDrain \/ DriverFreeFileContextTree)

FairSpec == Spec /\ Fairness

-----------------------------------------------------------------------------
(* Properties.                                                             *)

\* Every variable stays in its type.
TypeOK ==
    /\ Resident \in SUBSET Nodes /\ Dcbs \in SUBSET Nodes /\ Published \in SUBSET Nodes
    /\ RefCount \in [Nodes -> SUBSET Threads] /\ PinCount \in [Nodes -> SUBSET Threads]
    /\ Handle \in [Threads -> Nodes \cup {Nobody}]
    /\ OnReapList \in SUBSET Nodes /\ ReapList \in SUBSET Nodes
    /\ Batch \in [Workers -> SUBSET Nodes]
    /\ Queued \in BOOLEAN /\ ShuttingDown \in BOOLEAN
    /\ WorkItem \in {"idle", "queued", "freed"}
    /\ VcbOwner \in Agents \cup {Nobody}
    /\ pc \in [Agents -> ThreadPc \cup WorkerPc]
    /\ \A t \in Threads : pc[t] \in ThreadPc
    /\ \A w \in Workers : pc[w] \in WorkerPc
    /\ cur \in [Agents -> Nodes \cup {Root}]
    /\ target \in [Agents -> Nodes \cup {Root}]
    /\ teardown \in {"up", "poll", "drain", "tree", "down"}

\* The labels at which an agent holds a pointer to cur[a] and may touch it.
\* "kick" and "queue" touch the reap state only.
Touches == {"open", "openUndo", "unpin", "readRef", "readPin", "claim", "push",
            "coldOpen", "coldUndo", "publish", "insert", "newOpen", "walk", "walkFree", "free"}

\* No freed node is reachable: not from a bucket, an open handle, a pin, the
\* reap list, a worker's batch, a child's parent pointer, nor from an agent in
\* the middle of an open, a drop, an ancestor walk or a free (the use-after-free
\* the lifetime protocol of Structs.c:337-400 exists to rule out).
NoDanglingPointer ==
    /\ Published \subseteq Resident
    /\ ReapList \subseteq Resident
    /\ \A w \in Workers : Batch[w] \subseteq Resident
    /\ \A n \in Nodes : RefCount[n] \cup PinCount[n] # {} => n \in Resident
    /\ \A t \in Threads : Handle[t] # Nobody => t \in RefCount[Handle[t]]
    /\ \A n \in Resident : Parent[n] # Root => Parent[n] \in Dcbs
    /\ \A a \in Agents : pc[a] \in Touches /\ cur[a] # Root => cur[a] \in Resident

\* An agent that owns a claim outright: about to push it, or about to free the node.
HoldsClaim(a) == pc[a] \in {"push", "walkFree", "free"}

\* OnReapList is an exact, exclusive claim: it is set exactly while one party (the
\* list, one worker's batch, or one agent) has undertaken to examine or free the
\* node, so the single ReapLink is never pushed twice and no node is freed by two
\* walks.
ClaimHasOneOwner ==
    /\ \A n \in Nodes : n \in OnReapList <=>
        \/ n \in ReapList
        \/ \E w \in Workers : n \in Batch[w]
        \/ \E a \in Agents : HoldsClaim(a) /\ cur[a] = n
    /\ \A n \in ReapList, w \in Workers : n \notin Batch[w]
    /\ \A v, w \in Workers : \A n \in Batch[v] : n \in Batch[w] => v = w
    /\ \A a \in Agents : HoldsClaim(a) =>
        /\ cur[a] \notin ReapList
        /\ \A w \in Workers : cur[a] \notin Batch[w]
        /\ \A b \in Agents : HoldsClaim(b) /\ cur[b] = cur[a] => b = a

\* A resident node that nobody references, pins or has entries under is never
\* forgotten: it is claimed for reaping, or an agent is still about to look at
\* it (a drop inside its shared hold, an open, or an ancestor walk).
NoStrandedNode ==
    teardown \in {"up", "poll"} =>
    \A n \in Resident :
        Idle(n) /\ Children(n) = {} /\ n \notin OnReapList =>
        \E a \in Agents : cur[a] = n /\ pc[a] \in {"readRef", "readPin", "claim", "walk", "newOpen", "insert"}

\* The I/O work item is never queued while it is already queued, nor after
\* teardown has freed it.
WorkItemQueuedOnce ==
    \A a \in Agents : pc[a] = "queue" =>
        /\ WorkItem = "idle"
        /\ \A b \in Agents : pc[b] = "queue" => b = a

\* Teardown frees the work item and the tree only once no worker still holds
\* or can still reach a node.
TeardownIsAlone ==
    teardown \in {"tree", "down"} =>
        \A w \in Workers : pc[w] \in {"idle", "kick"} /\ Batch[w] = {}

\* The cold path's last fall-through (the KdBreakPoint of Create.c) is dead:
\* insertion never meets the leaf that the search just missed.
InsertNeverMeetsLeaf == \A t \in Threads : pc[t] # "kdBreak"

\* Every node claimed for reaping is eventually examined: freed, or its claim
\* dropped because it was reopened or has entries.
ClaimIsServed == \A n \in Nodes : n \in OnReapList ~> n \notin OnReapList

\* Volume deletion does not wait for ever on the reap worker.
TeardownEnds == (teardown = "poll") ~> (teardown = "down")
=============================================================================
