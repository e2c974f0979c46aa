---------------------------- MODULE FspWorkQueue ----------------------------
(***************************************************************************)
(* The FSP worker queue (FspWorkQueue.c): IRPs posted from the dispatch    *)
(* routines, from network completions and from the oplock package, the     *)
(* workers that run them, cancellation through the cancel-safe queue, and  *)
(* teardown.  The handlers are choices among what they can do to the IRP:  *)
(* complete it, leave it with the oplock package or with the network.      *)
(***************************************************************************)
EXTENDS Integers, Sequences, FiniteSets, SequencesExt

CONSTANTS Irps, Workers,
          Kind,      \* [Irps -> {"create", "read", "dirctrl"}]
          MaxPasses, \* bound: times an IRP goes to the oplock package or the network
          None

ASSUME FspAssumption ==
  /\ Kind \in [Irps -> {"create", "read", "dirctrl"}]
  /\ MaxPasses \in Nat /\ None \notin Irps

VARIABLES
  pc,         \* who has each IRP
  completed,  \* times each IRP was completed
  dc1, dc3,   \* DriverContext[1] and [3]: "null", "stamp", "stash", "csq"
  netDone,    \* the IRPs with IRP_CONTEXT_FLAG_NET_DONE
  cancelled,  \* the IRPs IoCancelIrp was called on
  passes,     \* trips to the oplock package or the network so far
  wildFree,   \* ExFreePool was handed something that is not a stash
  queue,      \* IrpQueue
  signals,    \* posting threads between the insert and KeSetEvent
  workEvent, terminationEvent,
  active,     \* ThreadsActive
  worker,     \* "wait", "drain", "run", "exited"
  hand,       \* the IRP a worker runs
  teardown    \* "up", "stop", "drain", "free", "down"

irpVars == <<completed, dc1, dc3, netDone, cancelled, passes, wildFree>>
poolVars == <<workEvent, terminationEvent, active, worker, hand, teardown>>
vars == <<pc, irpVars, queue, signals, poolVars>>

Init ==
  /\ pc = [i \in Irps |-> "new"]
  /\ completed = [i \in Irps |-> 0]
  /\ dc1 = [i \in Irps |-> "null"]
  /\ dc3 = [i \in Irps |-> "null"]
  /\ netDone = {} /\ cancelled = {} /\ wildFree = FALSE
  /\ passes = [i \in Irps |-> 0]
  /\ queue = <<>> /\ signals = 0
  /\ workEvent = FALSE /\ terminationEvent = FALSE /\ active = TRUE
  /\ worker = [w \in Workers |-> "wait"]
  /\ hand = [w \in Workers |-> None]
  /\ teardown = "up"

-----------------------------------------------------------------------------
(* What the steps share.  Each sets pc[i] and all of irpVars.              *)

Keep(label, i) == pc' = [pc EXCEPT ![i] = label] /\ UNCHANGED irpVars

FspCompleteRequest(i) ==
  /\ pc' = [pc EXCEPT ![i] = "done"]
  /\ completed' = [completed EXCEPT ![i] = @ + 1]

\* FspDiscardPendingIrpContext: whatever DriverContext[1] holds is freed
\* when NET_DONE is set, and only then.
FspDiscardPendingIrpContext(i, slot) ==
  LET free == i \in netDone /\ slot # "null" IN
  /\ netDone' = netDone \ {i}
  /\ dc1' = [dc1 EXCEPT ![i] = IF free THEN "null" ELSE slot]
  /\ wildFree' = (wildFree \/ (free /\ slot # "stash"))

\* Mutant: the payload is left on the IRP.
CompleteUnrun_keepsStash(i, slot) ==
  /\ FspCompleteRequest(i)
  /\ dc1' = [dc1 EXCEPT ![i] = slot]
  /\ dc3' = [dc3 EXCEPT ![i] = "null"]
  /\ UNCHANGED <<netDone, passes, wildFree>>

\* An IRP off the queue, slot in its DriverContext[1], is completed without
\* its handler running.
CompleteUnrun(i, slot) ==
  /\ FspDiscardPendingIrpContext(i, slot)
  /\ FspCompleteRequest(i)
  /\ dc3' = [dc3 EXCEPT ![i] = "null"]
  /\ UNCHANGED passes

\* Completed where it is, with nothing attached to it.
CompleteHere(i) == FspCompleteRequest(i) /\ UNCHANGED <<dc1, dc3, netDone, cancelled, passes, wildFree>>

\* The gate of BlorgFsdPostRequest, BlorgFsdRequeueRequest and
\* BlorgOplockComplete: on to the queue, or completed by the caller.
Gate(i) == IF active THEN Keep("posting", i) ELSE CompleteHere(i)

\* The IRP is left with the oplock package or the network.
Pend(i, label) ==
  /\ passes[i] < MaxPasses
  /\ passes' = [passes EXCEPT ![i] = @ + 1]
  /\ pc' = [pc EXCEPT ![i] = label]

-----------------------------------------------------------------------------
(* The dispatch routine, in the thread that sent the IRP.                  *)

\* The arrival stamp of a read, or nothing.
Stamp(i) == IF Kind[i] = "read" THEN "stamp" ELSE "null"

\* A read can be fetched from here; a create or a query is posted first.
BlorgDispatch(i) ==
  /\ pc[i] = "new"
  /\ teardown \in {"up", "stop"}
  /\ dc3' = [dc3 EXCEPT ![i] = Stamp(i)]
  /\ \/ FspCompleteRequest(i) /\ UNCHANGED passes
     \/ Kind[i] # "dirctrl" /\ Pend(i, "parked") /\ UNCHANGED completed
     \/ Kind[i] = "read" /\ teardown = "up" /\ Pend(i, "net") /\ UNCHANGED completed
     \/ IF active THEN pc' = [pc EXCEPT ![i] = "posting"] /\ UNCHANGED <<completed, passes>>
        ELSE FspCompleteRequest(i) /\ UNCHANGED passes
  /\ UNCHANGED <<dc1, netDone, cancelled, wildFree, queue, signals, poolVars>>

\* FspAddToWorkQueue.  The cancel-safe queue takes DriverContext[3], so a
\* read's stamp rides in [1]; an IRP already cancelled comes straight out.
FspAddToWorkQueue(i) ==
  LET slot == IF Kind[i] = "read" THEN dc3[i] ELSE dc1[i] IN
  /\ pc[i] = "posting"
  /\ signals' = signals + 1
  /\ IF i \in cancelled
     THEN CompleteUnrun(i, slot) /\ UNCHANGED queue
     ELSE /\ queue' = Append(queue, i)
          /\ dc1' = [dc1 EXCEPT ![i] = slot]
          /\ dc3' = [dc3 EXCEPT ![i] = "csq"]
          /\ pc' = [pc EXCEPT ![i] = "queued"]
          /\ UNCHANGED <<completed, netDone, wildFree, passes>>
  /\ UNCHANGED <<cancelled, poolVars>>

SetWorkEvent ==
  /\ signals > 0
  /\ signals' = signals - 1
  /\ workEvent' = TRUE
  /\ UNCHANGED <<pc, irpVars, queue, terminationEvent, active, worker, hand, teardown>>

\* IoCancelIrp.  Only the queue reacts, through FspCsqCompleteCanceledIrp; a
\* parked IRP is completed by the oplock package, below.
Cancel(i) ==
  /\ pc[i] \notin {"new", "done"} /\ i \notin cancelled
  /\ cancelled' = cancelled \cup {i}
  /\ IF pc[i] = "queued"
     THEN CompleteUnrun(i, dc1[i]) /\ queue' = SelectSeq(queue, LAMBDA x : x # i)
     ELSE UNCHANGED <<pc, completed, dc1, dc3, netDone, passes, wildFree, queue>>
  /\ UNCHANGED <<signals, poolVars>>

-----------------------------------------------------------------------------
(* The workers.                                                            *)

\* Mutant: the event does not reset itself.
WorkerWake_noReset(w) ==
  /\ worker[w] = "wait" /\ workEvent
  /\ worker' = [worker EXCEPT ![w] = "drain"]
  /\ UNCHANGED <<pc, irpVars, queue, signals, workEvent, terminationEvent, active, hand, teardown>>

\* WorkEvent is a synchronization event: it wakes one worker and resets.
WorkerWake(w) ==
  /\ worker[w] = "wait" /\ workEvent
  /\ workEvent' = FALSE
  /\ worker' = [worker EXCEPT ![w] = "drain"]
  /\ UNCHANGED <<pc, irpVars, queue, signals, terminationEvent, active, hand, teardown>>

\* Both signalled, the wait reports WorkEvent, the first in the array.
WorkerExit(w) ==
  /\ worker[w] = "wait" /\ ~workEvent /\ terminationEvent
  /\ worker' = [worker EXCEPT ![w] = "exited"]
  /\ UNCHANGED <<pc, irpVars, queue, signals, workEvent, terminationEvent, active, hand, teardown>>

\* IoCsqRemoveNextIrp; a read's stamp goes back to DriverContext[3].
WorkerTake(w) ==
  /\ worker[w] = "drain" /\ queue # <<>>
  /\ LET i == Head(queue) IN
     /\ worker' = [worker EXCEPT ![w] = "run"]
     /\ hand' = [hand EXCEPT ![w] = i]
     /\ pc' = [pc EXCEPT ![i] = "running"]
     /\ IF Kind[i] = "read" THEN dc3' = [dc3 EXCEPT ![i] = dc1[i]] /\ dc1' = [dc1 EXCEPT ![i] = "null"]
        ELSE dc3' = [dc3 EXCEPT ![i] = "null"] /\ UNCHANGED dc1
  /\ queue' = Tail(queue)
  /\ UNCHANGED <<completed, netDone, cancelled, passes, wildFree, signals, workEvent, terminationEvent, active, teardown>>

WorkerIdle(w) ==
  /\ worker[w] = "drain" /\ queue = <<>>
  /\ worker' = [worker EXCEPT ![w] = "wait"]
  /\ UNCHANGED <<pc, irpVars, queue, signals, workEvent, terminationEvent, active, hand, teardown>>

\* Mutant: an IRP left with the network is completed too.
WorkerHandle_completesPended(w) ==
  LET i == hand[w]
      has == Kind[i] = "create" /\ i \in netDone /\ dc1[i] = "stash"
  IN
  /\ worker[w] = "run"
  /\ IF Kind[i] = "create" /\ i \in netDone
     THEN netDone' = netDone \ {i} /\ dc1' = [dc1 EXCEPT ![i] = "null"]
     ELSE UNCHANGED <<netDone, dc1>>
  /\ \/ FspCompleteRequest(i) /\ UNCHANGED passes
     \/ Kind[i] # "dirctrl" /\ Pend(i, "parked") /\ UNCHANGED completed
     \/ ~has /\ teardown = "up" /\ Pend(i, "net") /\ completed' = [completed EXCEPT ![i] = @ + 1]
  /\ worker' = [worker EXCEPT ![w] = "drain"]
  /\ hand' = [hand EXCEPT ![w] = None]
  /\ UNCHANGED <<dc3, cancelled, wildFree, queue, signals, workEvent, terminationEvent, active, teardown>>

\* Mutant: one IRP per wake-up, back to the wait without draining.
WorkerHandle_onePerWake(w) ==
  LET i == hand[w]
      has == Kind[i] = "create" /\ i \in netDone /\ dc1[i] = "stash"
  IN
  /\ worker[w] = "run"
  /\ IF Kind[i] = "create" /\ i \in netDone
     THEN netDone' = netDone \ {i} /\ dc1' = [dc1 EXCEPT ![i] = "null"]
     ELSE UNCHANGED <<netDone, dc1>>
  /\ \/ FspCompleteRequest(i) /\ UNCHANGED passes
     \/ Kind[i] # "dirctrl" /\ Pend(i, "parked") /\ UNCHANGED completed
     \/ ~has /\ teardown = "up" /\ Pend(i, "net") /\ UNCHANGED completed
  /\ worker' = [worker EXCEPT ![w] = "wait"]
  /\ hand' = [hand EXCEPT ![w] = None]
  /\ UNCHANGED <<dc3, cancelled, wildFree, queue, signals, workEvent, terminationEvent, active, teardown>>

\* One handler pass.  A create consumes its stash with NET_DONE and, having
\* it, does not go to the network; a drained client refuses the request.
WorkerHandle(w) ==
  LET i == hand[w]
      has == Kind[i] = "create" /\ i \in netDone /\ dc1[i] = "stash"
  IN
  /\ worker[w] = "run"
  /\ IF Kind[i] = "create" /\ i \in netDone
     THEN netDone' = netDone \ {i} /\ dc1' = [dc1 EXCEPT ![i] = "null"]
     ELSE UNCHANGED <<netDone, dc1>>
  /\ \/ FspCompleteRequest(i) /\ UNCHANGED passes
     \/ Kind[i] # "dirctrl" /\ Pend(i, "parked") /\ UNCHANGED completed
     \/ ~has /\ teardown = "up" /\ Pend(i, "net") /\ UNCHANGED completed
  /\ worker' = [worker EXCEPT ![w] = "drain"]
  /\ hand' = [hand EXCEPT ![w] = None]
  /\ UNCHANGED <<dc3, cancelled, wildFree, queue, signals, workEvent, terminationEvent, active, teardown>>

-----------------------------------------------------------------------------
(* What an IRP that pended elsewhere comes back through.                   *)

\* ReadComplete; a failed CreateComplete or DirCtrlComplete, or one that
\* could not allocate a stash.
NetCompletes(i) ==
  /\ pc[i] = "net"
  /\ CompleteHere(i)
  /\ UNCHANGED <<queue, signals, poolVars>>

\* CreateComplete and DirCtrlComplete: NET_DONE set, a create's result in
\* DriverContext[1], the IRP re-queued; refused, the stash is freed and the
\* IRP completed.
NetRequeues(i) ==
  /\ pc[i] = "net" /\ Kind[i] # "read"
  /\ netDone' = netDone \cup {i}
  /\ IF active
     THEN /\ dc1' = [dc1 EXCEPT ![i] = IF Kind[i] = "create" THEN "stash" ELSE @]
          /\ pc' = [pc EXCEPT ![i] = "posting"]
          /\ UNCHANGED completed
     ELSE FspCompleteRequest(i) /\ UNCHANGED dc1
  /\ UNCHANGED <<dc3, cancelled, passes, wildFree, queue, signals, poolVars>>

\* Mutant: re-queued whether or not there are workers.
BlorgOplockComplete_ungated(i, ok) ==
  /\ pc[i] = "parked"
  /\ IF ok THEN Keep("posting", i) ELSE CompleteHere(i)
  /\ UNCHANGED <<queue, signals, workEvent, terminationEvent, active, worker, hand>>

\* BlorgOplockComplete, for a break that ended well or not.
BlorgOplockComplete(i, ok) ==
  /\ pc[i] = "parked"
  /\ IF ok THEN Gate(i) ELSE CompleteHere(i)
  /\ UNCHANGED <<queue, signals, workEvent, terminationEvent, active, worker, hand>>

\* A break acknowledged, or the parked IRP cancelled.
OplockBreakEnds(i) == teardown \in {"up", "stop"} /\ UNCHANGED teardown /\ \E ok \in BOOLEAN : BlorgOplockComplete(i, ok)

-----------------------------------------------------------------------------
(* BlorgDestroyWorkQueue and the node frees after it.                      *)

\* The driver's lifecycle: no thread is between the gate and the insert when
\* the queue is destroyed, and the HTTP client has been drained.
Quiescent == (\A i \in Irps : pc[i] \notin {"posting", "net"}) /\ signals = 0

\* FspStopWorkQueueThreads
TeardownStop ==
  /\ teardown = "up" /\ Quiescent
  /\ active' = FALSE /\ terminationEvent' = TRUE /\ teardown' = "stop"
  /\ UNCHANGED <<pc, irpVars, queue, signals, workEvent, worker, hand>>

TeardownJoin ==
  /\ teardown = "stop" /\ \A w \in Workers : worker[w] = "exited"
  /\ teardown' = "drain"
  /\ UNCHANGED <<pc, irpVars, queue, signals, workEvent, terminationEvent, active, worker, hand>>

TeardownDrain ==
  /\ teardown = "drain"
  /\ IF queue = <<>> THEN teardown' = "free" /\ UNCHANGED <<pc, irpVars, queue>>
     ELSE CompleteUnrun(Head(queue), dc1[Head(queue)]) /\ queue' = Tail(queue) /\ UNCHANGED <<cancelled, teardown>>
  /\ UNCHANGED <<signals, workEvent, terminationEvent, active, worker, hand>>

\* FsRtlUninitializeOplock, as each node is freed.
TeardownFree(i) == teardown = "free" /\ UNCHANGED teardown /\ BlorgOplockComplete(i, TRUE)

TeardownEnd ==
  /\ teardown = "free" /\ \A i \in Irps : pc[i] # "parked"
  /\ teardown' = "down"
  /\ UNCHANGED <<pc, irpVars, queue, signals, workEvent, terminationEvent, active, worker, hand>>

Unloaded == teardown = "down" /\ UNCHANGED vars

-----------------------------------------------------------------------------
WorkerStep(w) == WorkerWake(w) \/ WorkerExit(w) \/ WorkerTake(w) \/ WorkerIdle(w) \/ WorkerHandle(w)
Returns(i) == NetCompletes(i) \/ NetRequeues(i) \/ OplockBreakEnds(i)
TeardownStep == TeardownJoin \/ TeardownDrain \/ TeardownEnd \/ \E i \in Irps : TeardownFree(i)

Next ==
  \/ \E i \in Irps : BlorgDispatch(i) \/ FspAddToWorkQueue(i) \/ Cancel(i) \/ Returns(i)
  \/ \E w \in Workers : WorkerStep(w)
  \/ SetWorkEvent \/ TeardownStop \/ TeardownStep \/ Unloaded

\* Threads run; requests and breaks end; handlers return.  Nothing obliges a
\* caller to send an IRP or to cancel one, or the driver to unload.
Fairness ==
  /\ \A i \in Irps : WF_vars(FspAddToWorkQueue(i) \/ Returns(i))
  /\ \A w \in Workers : WF_vars(WorkerStep(w))
  /\ WF_vars(SetWorkEvent) /\ WF_vars(TeardownStep)

Spec == Init /\ [][Next]_vars
FairSpec == Spec /\ Fairness

-----------------------------------------------------------------------------
(* Properties.                                                             *)

\* An IRP has one owner and is completed once, whether by its handler, a
\* network completion, cancellation, the oplock package or the teardown
\* drain: it is in the queue once or in one worker's hands, never both.
OneOwner ==
  /\ \A i \in Irps :
       /\ completed[i] = IF pc[i] = "done" THEN 1 ELSE 0
       /\ Cardinality({k \in 1..Len(queue) : queue[k] = i}) = IF pc[i] = "queued" THEN 1 ELSE 0
       /\ Cardinality({w \in Workers : hand[w] = i}) = IF pc[i] = "running" THEN 1 ELSE 0
  /\ \A w \in Workers : worker[w] = "run" <=> hand[w] # None

\* What the IRP's DriverContext slots hold is neither lost nor misread.  The
\* result CreateComplete stashes in slot 1 is freed exactly once: by the pass
\* that consumes it or by whoever completes the IRP without one; no completed
\* IRP still has it, and what slot 1 holds for a read (its arrival stamp) is
\* never freed.  The stamp survives the queue, which takes the slot it is in,
\* through every post, oplock break and cancellation.
DriverContextIsKept ==
  /\ ~wildFree
  /\ \A i \in Irps : dc1[i] = "stash" => Kind[i] = "create" /\ i \in netDone /\ pc[i] \in {"posting", "queued", "running"}
  /\ \A i \in Irps : Kind[i] = "read" /\ pc[i] \in {"posting", "running", "parked", "net"} => dc3[i] = "stamp"

\* Teardown leaves no IRP behind: not in the queue, which nothing serves any
\* more, and not with the oplock package, whose IRPs come back only after
\* the drain; and no worker runs in an unloaded image.
NothingLeftBehind ==
  teardown = "down" =>
    /\ queue = <<>>
    /\ \A i \in Irps : pc[i] \in {"new", "done"}
    /\ \A w \in Workers : worker[w] = "exited"

\* Every IRP that arrives is completed, driver unload or not: no wake-up of
\* the workers is lost, whatever they drain between two signals.  An IRP
\* arrives once, so this says that in the end none is left in between.
EveryIrpCompletes == <>[](\A i \in Irps : pc[i] \in {"new", "done"})

\* Teardown, once begun, ends: the workers see the termination event however
\* the work event is signalled.
TeardownEnds == teardown = "stop" ~> teardown = "down"
=============================================================================
