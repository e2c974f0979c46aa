------------------------- MODULE NodeTableInvariant -------------------------
(***************************************************************************)
(* The inductive invariant of NodeTable.  That each action keeps it is     *)
(* proved in the modules that extend this one, a lemma per action.         *)
(***************************************************************************)
EXTENDS NodeTable, TLAPS

-----------------------------------------------------------------------------
(* The inductive invariant.                                                *)

\* Labels reached only with the VCB resource held exclusive.
VcbLabels == {"search", "coldOpen", "coldUndo", "publish", "insert", "newOpen",
              "walk", "walkFree", "loop", "free"}

\* The VCB resource has one holder, the agent the label says.
Locked == \A a \in Agents : pc[a] \in VcbLabels => VcbOwner = a

\* Both counters are exactly the opens and pins in progress.
Counted ==
    /\ \A n \in Nodes, t \in Threads :
        t \in RefCount[n] <=> Handle[t] = n \/ (pc[t] \in {"openUndo", "coldUndo"} /\ cur[t] = n)
    /\ \A n \in Nodes, t \in Threads :
        t \in PinCount[n] <=> pc[t] \in {"open", "openUndo", "unpin"} /\ cur[t] = n
    /\ \A t \in Threads : Handle[t] # Nobody =>
        pc[t] \in SharedHold \cup {"idle", "unpin", "publish"}
    /\ \A n \in Nodes, t \in Threads : t \in RefCount[n] \/ t \in PinCount[n] => n \in Resident

\* The tree is prefix-closed, and the table and the claims are inside it.
Rooted ==
    /\ Dcbs \subseteq Resident /\ Published \subseteq Resident
    /\ \A n \in Resident : Parent[n] \in Dcbs \cup {Root}
    /\ \A n \in Resident : \A c \in Prefixes[n] : c \in Resident /\ (c # n => c \in Dcbs)

\* Labels at which the agent works on a resident node.
OnNode == {"open", "openUndo", "unpin", "readRef", "readPin", "claim", "push", "coldOpen",
           "coldUndo", "publish", "newOpen", "walkFree", "free"}

\* What each label says of the node the agent works on.
Placed ==
    /\ \A a \in Agents : pc[a] \in {"idle", "search", "vcb", "loop", "tail"} => cur[a] = Root
    /\ \A a \in Agents : pc[a] \in OnNode => cur[a] \in Resident
    /\ \A t \in Threads : pc[t] \in {"kick", "queue"} => cur[t] \in Resident
    /\ \A w \in Workers : pc[w] \in {"kick", "queue"} => cur[w] = Root
    /\ \A a \in Agents : pc[a] \in {"insert", "walk"} => cur[a] \in Dcbs \cup {Root}
    /\ \A t \in Threads : pc[t] \in {"search", "insert"} => target[t] \in Nodes
    /\ \A t \in Threads : pc[t] = "insert" => target[t] \notin Resident
    /\ \A t \in Threads : pc[t] # "kdBreak"

\* An agent about to free the node it works on.
Frees(a) == pc[a] \in {"newOpen", "walkFree", "free"}

\* A node about to be freed is out of the table, unopened, unpinned, childless,
\* in no drop's hands, and, if just created, unclaimed.
Doomed ==
    /\ \A a \in Agents : Frees(a) => cur[a] \notin Published
    /\ \A a \in Agents, t \in Threads : Frees(a) => Handle[t] # cur[a]
    /\ \A a \in Agents, t \in Threads :
        Frees(a) /\ pc[t] \in SharedHold \cup {"open", "openUndo", "unpin"} => cur[t] # cur[a]
    /\ \A a \in Agents, c \in Resident : Frees(a) => Parent[c] # cur[a]
    /\ \A a \in Agents : pc[a] = "newOpen" => cur[a] \notin OnReapList

\* A worker holds a batch only while it works through it.
BatchInHand ==
    \A w \in Workers : Batch[w] # {} => pc[w] \in {"vcb", "loop", "free", "walk", "walkFree"}

\* The agent the work-item gate is closed for.
Gated(a) ==
    \/ pc[a] = "queue"
    \/ a \in Workers /\ pc[a] \in {"vcb", "loop", "free", "walk", "walkFree", "tail"}

\* Queued covers exactly one of: an agent about to queue the work item, the
\* queued work item, a running worker.
GateHeld ==
    /\ \A a \in Agents : Gated(a) => Queued /\ WorkItem = "idle"
    /\ WorkItem = "queued" => Queued
    /\ \A a, b \in Agents : Gated(a) /\ Gated(b) => a = b

\* Once teardown has begun no requestor is inside, and once it has seen the
\* gate open nothing closes it again.
Closing ==
    /\ teardown # "up" => ShuttingDown /\ \A t \in Threads : pc[t] = "idle" /\ Handle[t] = Nobody
    /\ teardown \in {"drain", "tree", "down"} => ~Queued
    /\ WorkItem = "freed" <=> teardown \in {"tree", "down"}
    /\ teardown \in {"tree", "down"} => ReapList = {} /\ Published = {}

IInv ==
    /\ TypeOK /\ Locked /\ Counted /\ Rooted /\ Placed /\ Doomed
    /\ ClaimHasOneOwner /\ OnReapList \subseteq Resident /\ BatchInHand /\ GateHeld /\ Closing
=============================================================================
