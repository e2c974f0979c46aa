------------------------------ MODULE DiskCache ------------------------------
(***************************************************************************)
(* The disk cache of src/src/DiskCache.c over its slot index: reads served *)
(* partly or wholly from the cache file, fills written behind them, the    *)
(* loss of the file, and cleanup.  Every interlocked access and every      *)
(* locked section is a step.                                               *)
(*                                                                         *)
(* A read wants a set of blocks.  A filler is a fetch completion that runs *)
(* DiskCacheFill for one block, on its own account (BlorgDiskCacheAdmit)   *)
(* or for the read it fetched the block for.  A fill object is known by    *)
(* the slot it reserved.                                                   *)
(***************************************************************************)
EXTENDS DiskCacheIndex, FiniteSets

CONSTANTS
    Fillers,  \* Contexts that run fetch completions
    Workers,  \* System worker threads that run DiskCacheFillWorker
    Backlog,  \* DISK_CACHE_FILL_BACKLOG, in blocks
    MaxLeaving, \* Bound: settled fills that have not left yet
    NoRead,   \* A fill on nobody's account
    Torn      \* The bytes of a slot that a write is changing or failed to

ASSUME CacheAssumption == Backlog \in Nat \ {0} /\ MaxLeaving \in Nat \ {0} /\ NoRead \notin Reads /\ Torn \notin Keys

VARIABLES
    Live, Busy, Idle,             \* DiskCache.Live, .Busy, .Idle
    FillBytes,                    \* DiskCache.FillBytes, in blocks
    Fills, FillWorkerQueued,      \* The fill queue (slots, in order) and its gate
    Data,                         \* Data[s]: whose bytes the file holds for slot s
    cleanup,                      \* Where BlorgDiskCacheCleanup is
    read,                         \* read[r]: the DISK_CACHE_READ of r
    filler,                       \* filler[f]: where fetch completion f is
    worker,                       \* worker[w]: where fill worker w is
    fill,                         \* fill[s]: the fill that reserved s
    leaving                       \* Fills settled whose DiskCacheLeave is to come

cacheVars == <<Live, Busy, Idle, FillBytes, Fills, FillWorkerQueued, Data, cleanup, read, filler,
               worker, fill, leaving>>
vars == <<indexVars, cacheVars>>

NoBlocks == [k \in Keys |-> NoKey]
IdleRead == [pc |-> "idle", want |-> {}, toIssue |-> {}, out |-> {}, issuer |-> FALSE,
             refetch |-> FALSE, failed |-> FALSE, buffer |-> NoBlocks]
IdleFiller == [pc |-> "idle", key |-> NoKey, for |-> NoRead, slot |-> NoSlot]
IdleWorker == [pc |-> "idle", slot |-> NoSlot]
NoFill == [pc |-> "none", key |-> NoKey]

Init ==
    /\ IndexInit
    /\ Live = TRUE /\ Busy = 1 /\ Idle = FALSE
    /\ FillBytes = 0 /\ Fills = <<>> /\ FillWorkerQueued = FALSE
    /\ Data = [s \in SlotIds |-> NoKey]
    /\ cleanup = "up"
    /\ read = [r \in Reads |-> IdleRead]
    /\ filler = [f \in Fillers |-> IdleFiller]
    /\ worker = [w \in Workers |-> IdleWorker]
    /\ fill = [s \in SlotIds |-> NoFill]
    /\ leaving = 0

\* DiskCacheLeave.
Leave == Busy' = Busy - 1 /\ Idle' = (Idle \/ Busy = 1)

ReadAt(r, label) == read' = [read EXCEPT ![r].pc = label]
FillerAt(f, label) == filler' = [filler EXCEPT ![f].pc = label]

-----------------------------------------------------------------------------
(* BlorgDiskCacheRead.  A read it declines goes back to idle.              *)

ReadStart(r, want) ==
    /\ read[r].pc = "idle" /\ Live
    /\ read' = [read EXCEPT ![r] = [IdleRead EXCEPT !.pc = "enter", !.want = want, !.toIssue = want]]
    /\ UNCHANGED <<indexVars, Live, Busy, Idle, FillBytes, Fills, FillWorkerQueued, Data, cleanup,
                   filler, worker, fill, leaving>>

\* DiskCacheEnter: the count, then the second look at Live.
ReadEnter(r) ==
    /\ read[r].pc = "enter"
    /\ Busy' = Busy + 1
    /\ ReadAt(r, "recheck")
    /\ UNCHANGED <<indexVars, Live, Idle, FillBytes, Fills, FillWorkerQueued, Data, cleanup, filler,
                   worker, fill, leaving>>

\* The second look; then the allocation, which may fail.
ReadRecheck(r) ==
    /\ read[r].pc = "recheck"
    /\ \/ Live /\ ReadAt(r, "pin")
       \/ ReadAt(r, "decline")
    /\ UNCHANGED <<indexVars, Live, Busy, Idle, FillBytes, Fills, FillWorkerQueued, Data, cleanup,
                   filler, worker, fill, leaving>>

ReadDecline(r) ==
    /\ read[r].pc = "decline"
    /\ Leave
    /\ read' = [read EXCEPT ![r] = IdleRead]
    /\ UNCHANGED <<indexVars, Live, FillBytes, Fills, FillWorkerQueued, Data, cleanup, filler,
                   worker, fill, leaving>>

ReadPin(r) ==
    /\ read[r].pc = "pin"
    /\ PinHeld(r, read[r].want)
    /\ ReadAt(r, "plan")
    /\ UNCHANGED <<Live, Busy, Idle, FillBytes, Fills, FillWorkerQueued, Data, cleanup, filler,
                   worker, fill, leaving>>

Held(r) == {k \in Keys : Slots[r][k] # NoSlot}

\* The plan keeps some of the held blocks and fetches the rest, or serves nothing.
ReadPlan(r) ==
    /\ read[r].pc = "plan"
    /\ \/ \E keep \in SUBSET Held(r) \ {{}} : PlanRead(r, keep) /\ ReadAt(r, "issue")
       \/ ReadAt(r, "unpinned") /\ Unpin(r, FALSE)
    /\ UNCHANGED <<Live, Busy, Idle, FillBytes, Fills, FillWorkerQueued, Data, cleanup, filler,
                   worker, fill, leaving>>

\* DiskCacheReadPart for one block: a disk read or a fetch, which may fail to
\* start.  The first to fail declines the read; a later one ends the issuing.
ReadIssuePart(r) ==
    /\ read[r].pc = "issue"
    /\ \E k \in read[r].toIssue :
        \/ /\ read' = [read EXCEPT ![r].toIssue = @ \ {k}, ![r].out = @ \cup {k}, ![r].issuer = TRUE]
           /\ UNCHANGED indexVars
        \/ /\ ~read[r].issuer
           /\ Unpin(r, FALSE) /\ ReadAt(r, "unpinned")
        \/ /\ read[r].issuer
           /\ read' = [read EXCEPT ![r].toIssue = {}, ![r].refetch = TRUE]
           /\ UNCHANGED indexVars
    /\ UNCHANGED <<Live, Busy, Idle, FillBytes, Fills, FillWorkerQueued, Data, cleanup, filler,
                   worker, fill, leaving>>

\* A read that holds pins no longer but has not left: free it and leave.
ReadUnpinned(r) ==
    /\ read[r].pc = "unpinned"
    /\ Leave
    /\ read' = [read EXCEPT ![r] = IdleRead]
    /\ UNCHANGED <<indexVars, Live, FillBytes, Fills, FillWorkerQueued, Data, cleanup, filler,
                   worker, fill, leaving>>

\* DiskCacheReadSettle: the last hold to go, an issued part's or the issuer's,
\* makes the read ready to be unpinned and completed.
Settled(rd) == IF rd.out = {} /\ rd.pc = "parts" THEN [rd EXCEPT !.pc = "settle"] ELSE rd

ReadIssued(r) ==
    /\ read[r].pc = "issue" /\ read[r].toIssue = {}
    /\ read' = [read EXCEPT ![r] = Settled([@ EXCEPT !.pc = "parts", !.issuer = FALSE])]
    /\ UNCHANGED <<indexVars, Live, Busy, Idle, FillBytes, Fills, FillWorkerQueued, Data, cleanup,
                   filler, worker, fill, leaving>>

\* DiskCacheReadDone: the bytes land, or come back short, or the I/O fails and
\* the file is lost.
DiskCacheReadDone(r, k) ==
    /\ k \in read[r].out /\ Slots[r][k] # NoSlot
    /\ LET rd == [read[r] EXCEPT !.out = @ \ {k}]
       IN \/ /\ read' = [read EXCEPT ![r] = Settled([rd EXCEPT !.buffer[k] = Data[Slots[r][k]]])]
             /\ UNCHANGED Live
          \/ read' = [read EXCEPT ![r] = Settled(rd)] /\ UNCHANGED Live
          \/ read' = [read EXCEPT ![r] = Settled([rd EXCEPT !.refetch = TRUE])] /\ Live' = FALSE
    /\ UNCHANGED <<indexVars, Busy, Idle, FillBytes, Fills, FillWorkerQueued, Data, cleanup, filler,
                   worker, fill, leaving>>

\* Mutant: a body of another version is copied all the same.
DiskCacheReadFetched_anyVersion(r, k, f) ==
    /\ k \in read[r].out /\ Slots[r][k] = NoSlot
    /\ \A g \in Fillers : ~(filler[g].for = r /\ filler[g].key = k)
    /\ filler[f].pc = "idle"
    /\ \E body \in {k, Torn} : read' = [read EXCEPT ![r].buffer[k] = body]
    /\ filler' = [filler EXCEPT ![f] = [IdleFiller EXCEPT !.pc = "charge", !.key = k, !.for = r]]
    /\ UNCHANGED <<indexVars, Live, Busy, Idle, FillBytes, Fills, FillWorkerQueued, Data, cleanup,
                   worker, fill, leaving>>

\* Mutant: a part whose fetch failed is issued again, without limit.
DiskCacheReadFetched_retries(r, k, f) ==
    /\ k \in read[r].out /\ Slots[r][k] = NoSlot /\ read[r].pc = "parts"
    /\ read' = [read EXCEPT ![r].out = @ \ {k}, ![r].toIssue = {k}, ![r].pc = "issue"]
    /\ UNCHANGED <<indexVars, Live, Busy, Idle, FillBytes, Fills, FillWorkerQueued, Data, cleanup,
                   filler, worker, fill, leaving>>

\* DiskCacheReadFetched: a body of the read's version is copied and offered to
\* the cache before the part settles; one of another version, one cut short or
\* a failure is not.
DiskCacheReadFetched(r, k, f) ==
    /\ k \in read[r].out /\ Slots[r][k] = NoSlot
    /\ \A g \in Fillers : ~(filler[g].for = r /\ filler[g].key = k)
    /\ LET rd == [read[r] EXCEPT !.out = @ \ {k}]
       IN \/ /\ filler[f].pc = "idle"
             /\ read' = [read EXCEPT ![r].buffer[k] = k]
             /\ filler' = [filler EXCEPT ![f] = [IdleFiller EXCEPT !.pc = "charge", !.key = k, !.for = r]]
          \/ read' = [read EXCEPT ![r] = Settled(rd)] /\ UNCHANGED filler
          \/ read' = [read EXCEPT ![r] = Settled([rd EXCEPT !.refetch = TRUE])] /\ UNCHANGED filler
          \/ read' = [read EXCEPT ![r] = Settled([rd EXCEPT !.failed = TRUE])] /\ UNCHANGED filler
    /\ UNCHANGED <<indexVars, Live, Busy, Idle, FillBytes, Fills, FillWorkerQueued, Data, cleanup,
                   worker, fill, leaving>>

\* What the settled read reports: all its bytes, or that it must be fetched
\* whole, or the fetch's failure.
Succeeds(r) ==
    /\ ~read[r].failed /\ ~read[r].refetch
    /\ \A k \in read[r].want : read[r].buffer[k] # NoKey

ReadUnpin(r) ==
    /\ read[r].pc = "settle"
    /\ Unpin(r, Succeeds(r))
    /\ ReadAt(r, IF Succeeds(r) THEN "succeeded" ELSE "unpinned")
    /\ UNCHANGED <<Live, Busy, Idle, FillBytes, Fills, FillWorkerQueued, Data, cleanup, filler,
                   worker, fill, leaving>>

\* The read is freed, leaves, and its completion is called.
ReadComplete(r) ==
    /\ read[r].pc = "succeeded"
    /\ Leave
    /\ read' = [read EXCEPT ![r] = IdleRead]
    /\ UNCHANGED <<indexVars, Live, FillBytes, Fills, FillWorkerQueued, Data, cleanup, filler,
                   worker, fill, leaving>>

ReadStep(r) ==
    \/ ReadEnter(r) \/ ReadRecheck(r) \/ ReadDecline(r) \/ ReadPin(r) \/ ReadPlan(r)
    \/ ReadIssuePart(r) \/ ReadUnpinned(r) \/ ReadIssued(r) \/ ReadUnpin(r) \/ ReadComplete(r)
    \/ \E k \in Keys : DiskCacheReadDone(r, k) \/ \E f \in Fillers : DiskCacheReadFetched(r, k, f)

-----------------------------------------------------------------------------
(* DiskCacheFill for one block, DiskCacheQueueFill.                        *)

\* BlorgDiskCacheAdmit of a body whose version matches.
AdmitStart(f, k) ==
    /\ filler[f].pc = "idle" /\ Live
    /\ filler' = [filler EXCEPT ![f] = [IdleFiller EXCEPT !.pc = "charge", !.key = k]]
    /\ UNCHANGED <<indexVars, Live, Busy, Idle, FillBytes, Fills, FillWorkerQueued, Data, cleanup,
                   read, worker, fill, leaving>>

\* The part of a read that f was fetched for settles when f is done with it.
FillerDone(f) ==
    /\ filler' = [filler EXCEPT ![f] = IdleFiller]
    /\ LET r == filler[f].for
       IN  read' = IF r = NoRead THEN read
                   ELSE [read EXCEPT ![r] = Settled([@ EXCEPT !.out = @ \ {filler[f].key}])]

\* The charge and its test against the backlog are one interlocked add.
FillCharge(f) ==
    /\ filler[f].pc = "charge"
    /\ FillBytes' = FillBytes + 1
    /\ FillerAt(f, IF FillBytes + 1 > Backlog THEN "uncharge" ELSE "enter")
    /\ UNCHANGED <<indexVars, Live, Busy, Idle, Fills, FillWorkerQueued, Data, cleanup, read,
                   worker, fill, leaving>>

FillUncharge(f) ==
    /\ filler[f].pc = "uncharge"
    /\ FillBytes' = FillBytes - 1
    /\ FillerDone(f)
    /\ UNCHANGED <<indexVars, Live, Busy, Idle, Fills, FillWorkerQueued, Data, cleanup, worker, fill,
                   leaving>>

\* DiskCacheEnter in three steps: the look at Live, the count, the second look.
FillLook(f) ==
    /\ filler[f].pc = "enter"
    /\ FillerAt(f, IF Live THEN "count" ELSE "uncharge")
    /\ UNCHANGED <<indexVars, Live, Busy, Idle, FillBytes, Fills, FillWorkerQueued, Data, cleanup,
                   read, worker, fill, leaving>>

FillCount(f) ==
    /\ filler[f].pc = "count"
    /\ Busy' = Busy + 1
    /\ FillerAt(f, "recheck")
    /\ UNCHANGED <<indexVars, Live, Idle, FillBytes, Fills, FillWorkerQueued, Data, cleanup, read,
                   worker, fill, leaving>>

\* Mutant: DiskCacheEnter does not look again after counting.
FillRecheck_once(f) ==
    /\ filler[f].pc = "recheck"
    /\ FillerAt(f, "reserve")
    /\ UNCHANGED <<indexVars, Live, Busy, Idle, FillBytes, Fills, FillWorkerQueued, Data, cleanup,
                   read, worker, fill, leaving>>

FillRecheck(f) ==
    /\ filler[f].pc = "recheck"
    /\ IF Live
       THEN FillerAt(f, "reserve") /\ UNCHANGED <<Busy, Idle>>
       ELSE FillerAt(f, "uncharge") /\ Leave
    /\ UNCHANGED <<indexVars, Live, FillBytes, Fills, FillWorkerQueued, Data, cleanup, read, worker,
                   fill, leaving>>

FillReserve(f) ==
    LET k == filler[f].key
    IN  /\ filler[f].pc = "reserve"
        /\ Reserve(k)
        /\ IF Admit(k) = "reserved"
           THEN /\ filler' = [filler EXCEPT ![f].pc = "build", ![f].slot = Victim]
                /\ fill' = [fill EXCEPT ![Victim] = [pc |-> "building", key |-> k]]
           ELSE FillerAt(f, "refused") /\ UNCHANGED fill
        /\ UNCHANGED <<Live, Busy, Idle, FillBytes, Fills, FillWorkerQueued, Data, cleanup, read,
                       worker, leaving>>

\* Not reserved: uncharge, then leave.
FillRefused(f) ==
    /\ filler[f].pc = "refused"
    /\ FillBytes' = FillBytes - 1
    /\ FillerAt(f, "leave")
    /\ UNCHANGED <<indexVars, Live, Busy, Idle, Fills, FillWorkerQueued, Data, cleanup, read, worker,
                   fill, leaving>>

FillLeave(f) ==
    /\ filler[f].pc = "leave"
    /\ Leave
    /\ FillerDone(f)
    /\ UNCHANGED <<indexVars, Live, FillBytes, Fills, FillWorkerQueued, Data, cleanup, worker, fill,
                   leaving>>

\* No memory for the copy: the reservation is given up.
FillNoMemory(f) ==
    /\ filler[f].pc = "build"
    /\ Commit(filler[f].slot, FALSE)
    /\ fill' = [fill EXCEPT ![filler[f].slot] = NoFill]
    /\ filler' = [filler EXCEPT ![f].pc = "refused", ![f].slot = NoSlot]
    /\ UNCHANGED <<Live, Busy, Idle, FillBytes, Fills, FillWorkerQueued, Data, cleanup, read, worker,
                   leaving>>

\* DiskCacheQueueFill's locked section: whoever finds no worker going starts one.
DiskCacheQueueFill(f) ==
    /\ filler[f].pc = "build"
    /\ Fills' = Append(Fills, filler[f].slot)
    /\ FillWorkerQueued' = TRUE
    /\ fill' = [fill EXCEPT ![filler[f].slot].pc = "queued"]
    /\ IF FillWorkerQueued
       THEN FillerDone(f)
       ELSE filler' = [filler EXCEPT ![f].pc = "start", ![f].slot = NoSlot] /\ UNCHANGED read
    /\ UNCHANGED <<indexVars, Live, Busy, Idle, FillBytes, Data, cleanup, worker, leaving>>

FillStartWorker(f, w) ==
    /\ filler[f].pc = "start" /\ worker[w].pc = "idle"
    /\ Busy' = Busy + 1
    /\ worker' = [worker EXCEPT ![w].pc = "loop"]
    /\ FillerDone(f)
    /\ UNCHANGED <<indexVars, Live, Idle, FillBytes, Fills, FillWorkerQueued, Data, cleanup, fill,
                   leaving>>

\* No work item to be had: everything queued is given up.
FillNoWorkItem(f) ==
    /\ filler[f].pc = "start"
    /\ fill' = [s \in SlotIds |-> IF fill[s].pc = "queued" THEN [fill[s] EXCEPT !.pc = "abandoned"] ELSE fill[s]]
    /\ Fills' = <<>> /\ FillWorkerQueued' = FALSE
    /\ FillerDone(f)
    /\ UNCHANGED <<indexVars, Live, Busy, Idle, FillBytes, Data, cleanup, worker, leaving>>

FillerStep(f) ==
    \/ FillCharge(f) \/ FillUncharge(f) \/ FillLook(f) \/ FillCount(f) \/ FillRecheck(f)
    \/ FillReserve(f) \/ FillRefused(f) \/ FillLeave(f) \/ FillNoMemory(f)
    \/ DiskCacheQueueFill(f) \/ FillNoWorkItem(f) \/ \E w \in Workers : FillStartWorker(f, w)

-----------------------------------------------------------------------------
(* DiskCacheFillWorker, DiskCacheFillDone, DiskCacheFillSettle.            *)

\* Mutant: a worker with nothing to do waits for the next fill.
WorkerPop_polls(w) ==
    /\ worker[w].pc \in {"loop", "poll"}
    /\ IF Fills = <<>>
       THEN /\ worker' = [worker EXCEPT ![w].pc = IF @ = "loop" THEN "poll" ELSE "loop"]
            /\ UNCHANGED <<Fills, fill>>
       ELSE /\ worker' = [worker EXCEPT ![w] = [pc |-> "issue", slot |-> Head(Fills)]]
            /\ Fills' = Tail(Fills)
            /\ fill' = [fill EXCEPT ![Head(Fills)].pc = "popped"]
    /\ UNCHANGED <<indexVars, Live, Busy, Idle, FillBytes, FillWorkerQueued, Data, cleanup, read,
                   filler, leaving>>

WorkerPop(w) ==
    /\ worker[w].pc = "loop"
    /\ IF Fills = <<>>
       THEN /\ FillWorkerQueued' = FALSE
            /\ worker' = [worker EXCEPT ![w].pc = "leave"]
            /\ UNCHANGED <<Fills, fill>>
       ELSE /\ worker' = [worker EXCEPT ![w] = [pc |-> "issue", slot |-> Head(Fills)]]
            /\ Fills' = Tail(Fills)
            /\ fill' = [fill EXCEPT ![Head(Fills)].pc = "popped"]
            /\ UNCHANGED FillWorkerQueued
    /\ UNCHANGED <<indexVars, Live, Busy, Idle, FillBytes, Data, cleanup, read, filler, leaving>>

\* Mutant: the slot is committed when its write is sent.
WorkerIssue_commits(w) ==
    /\ worker[w].pc = "issue"
    /\ fill' = [fill EXCEPT ![worker[w].slot].pc = "writing"]
    /\ Data' = [Data EXCEPT ![worker[w].slot] = Torn]
    /\ Commit(worker[w].slot, TRUE)
    /\ worker' = [worker EXCEPT ![w] = [pc |-> "loop", slot |-> NoSlot]]
    /\ UNCHANGED <<Live, Busy, Idle, FillBytes, Fills, FillWorkerQueued, cleanup, read, filler, leaving>>

\* The write is sent, unless the cache is off or no IRP can be had.
WorkerIssue(w) ==
    /\ worker[w].pc = "issue"
    /\ \/ /\ Live
          /\ fill' = [fill EXCEPT ![worker[w].slot].pc = "writing"]
          /\ Data' = [Data EXCEPT ![worker[w].slot] = Torn]
       \/ /\ fill' = [fill EXCEPT ![worker[w].slot].pc = "abandoned"]
          /\ UNCHANGED Data
    /\ worker' = [worker EXCEPT ![w] = [pc |-> "loop", slot |-> NoSlot]]
    /\ UNCHANGED <<indexVars, Live, Busy, Idle, FillBytes, Fills, FillWorkerQueued, cleanup, read,
                   filler, leaving>>

WorkerLeave(w) ==
    /\ worker[w].pc = "leave"
    /\ Leave
    /\ worker' = [worker EXCEPT ![w] = IdleWorker]
    /\ UNCHANGED <<indexVars, Live, FillBytes, Fills, FillWorkerQueued, Data, cleanup, read, filler,
                   fill, leaving>>

\* A write that failed or came up short loses the file.
DiskCacheFillDone(s) ==
    /\ fill[s].pc = "writing"
    /\ \/ /\ Data' = [Data EXCEPT ![s] = fill[s].key]
          /\ fill' = [fill EXCEPT ![s].pc = "written"]
          /\ UNCHANGED Live
       \/ /\ Live' = FALSE
          /\ fill' = [fill EXCEPT ![s].pc = "abandoned"]
          /\ UNCHANGED Data
    /\ UNCHANGED <<indexVars, Busy, Idle, FillBytes, Fills, FillWorkerQueued, cleanup, read, filler,
                   worker, leaving>>

\* The slot is committed, or freed if nothing was written, and uncharged.
DiskCacheFillSettle(s) ==
    /\ fill[s].pc \in {"written", "abandoned"} /\ leaving < MaxLeaving
    /\ Commit(s, fill[s].pc = "written")
    /\ FillBytes' = FillBytes - 1
    /\ fill' = [fill EXCEPT ![s] = NoFill]
    /\ leaving' = leaving + 1
    /\ UNCHANGED <<Live, Busy, Idle, Fills, FillWorkerQueued, Data, cleanup, read, filler, worker>>

FillSettleLeave ==
    /\ leaving > 0
    /\ leaving' = leaving - 1
    /\ Leave
    /\ UNCHANGED <<indexVars, Live, FillBytes, Fills, FillWorkerQueued, Data, cleanup, read, filler,
                   worker, fill>>

FillObjectStep == FillSettleLeave \/ \E s \in SlotIds : DiskCacheFillDone(s) \/ DiskCacheFillSettle(s)

-----------------------------------------------------------------------------
(* BlorgDiskCacheCleanup.                                                  *)

CleanupTurnOff ==
    /\ cleanup = "up"
    /\ Live' = FALSE /\ cleanup' = "leave"
    /\ UNCHANGED <<indexVars, Busy, Idle, FillBytes, Fills, FillWorkerQueued, Data, read, filler,
                   worker, fill, leaving>>

CleanupLeave ==
    /\ cleanup = "leave"
    /\ Leave /\ cleanup' = "wait"
    /\ UNCHANGED <<indexVars, Live, FillBytes, Fills, FillWorkerQueued, Data, read, filler, worker,
                   fill, leaving>>

\* The wait is over: the file is closed and the index freed.
CleanupClose ==
    /\ cleanup = "wait" /\ Idle
    /\ cleanup' = "closed"
    /\ UNCHANGED <<indexVars, Live, Busy, Idle, FillBytes, Fills, FillWorkerQueued, Data, read,
                   filler, worker, fill, leaving>>

\* The driver is unloaded; nothing more happens.
Unloaded ==
    /\ cleanup = "closed"
    /\ \A r \in Reads : read[r].pc = "idle"
    /\ \A f \in Fillers : filler[f].pc = "idle"
    /\ UNCHANGED vars

WorkerStep(w) == WorkerPop(w) \/ WorkerIssue(w) \/ WorkerLeave(w)

Next ==
    \/ \E r \in Reads : ReadStep(r) \/ \E want \in SUBSET Keys \ {{}} : ReadStart(r, want)
    \/ \E f \in Fillers : FillerStep(f) \/ \E k \in Keys : AdmitStart(f, k)
    \/ \E w \in Workers : WorkerStep(w)
    \/ FillObjectStep
    \/ CleanupTurnOff \/ CleanupLeave \/ CleanupClose \/ Unloaded

Spec == Init /\ [][Next]_vars

\* Completions, worker threads and cleanup run on; the disk and the network
\* answer every request, if only with a failure or a timeout.
Fairness ==
    /\ \A r \in Reads : WF_read(ReadStep(r))
    /\ \A f \in Fillers : WF_filler(FillerStep(f))
    /\ \A w \in Workers : WF_worker(WorkerStep(w))
    /\ WF_leaving(FillSettleLeave)
    /\ \A s \in SlotIds : WF_fill(DiskCacheFillDone(s) \/ DiskCacheFillSettle(s))
    /\ WF_cleanup(CleanupLeave \/ CleanupClose)

FairSpec == Spec /\ Fairness

-----------------------------------------------------------------------------
(* Properties.                                                             *)

\* A read that succeeds delivers, for every block it wanted, that block of its
\* own version, wherever each block came from: never bytes of a slot under
\* write, of a failed write, or of another version.
SuccessfulReadHasItsBytes ==
    \A r \in Reads : read[r].pc = "succeeded" =>
        \A k \in read[r].want : read[r].buffer[k] = k

\* Once cleanup has closed the file and freed the index, nobody uses either:
\* no I/O is in flight, no fill or pin is left, and whoever is still inside
\* DiskCacheEnter will be turned away (DiskCacheEnter's second look).
ClosedFileIsUnused ==
    cleanup = "closed" =>
        /\ \A r \in Reads : read[r].pc \in {"idle", "enter", "recheck", "decline"}
        /\ \A f \in Fillers : filler[f].pc \in {"idle", "charge", "uncharge", "enter", "count", "recheck"}
        /\ \A s \in SlotIds : fill[s].pc = "none" /\ Pins[s] = {}
        /\ \A w \in Workers : worker[w].pc = "idle"
        /\ ~Live /\ Fills = <<>>

\* The cache uses its index only as the index's contract allows.
UsesIndexSoundly == IndexSpec

\* Every read that starts is completed or declined: none stays under way for ever.
ReadsEnd == \A r \in Reads : []<>(read[r].pc = "idle")

\* Cleanup does not wait for ever: every read in the cache leaves it and every
\* fill is written or given up, so that each reference to the cache is dropped.
CleanupEnds == []<>(cleanup \in {"up", "closed"})
=============================================================================
