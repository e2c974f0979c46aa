--------------------------- MODULE SocketPrewarm ----------------------------
(***************************************************************************)
(* The socket pool's pre-warm (Socket.c): fills that open connections into *)
(* the pool one at a time, the pump that issues them, the completions that *)
(* owe it the next, and the drain at unload.  SocketPool.Lock is held      *)
(* across one step.  Threads are whatever runs the code: callers of        *)
(* BlorgPrewarmSocketPool, WSK completions, the work item.                 *)
(***************************************************************************)
EXTENDS Integers, FiniteSets, FiniteSetsExt

CONSTANTS Threads,
          Count,      \* steps a fill asks for
          PoolMax,    \* SocketMaxPoolSize
          MaxFills,   \* bound: calls of BlorgPrewarmSocketPool
          TlsEnabled

ASSUME PrewarmAssumption ==
  Count \in Nat \ {0} /\ PoolMax \in Nat /\ MaxFills \in Nat /\ TlsEnabled \in BOOLEAN

VARIABLES
  Remaining, InFlight, ShuttingDown, Running, Pending, \* the five words of the pre-warm
  workItem,   \* SocketPrewarmWorkItem: "none", "idle", "freed"
  queued,     \* how often it is queued to start a handshake, to account for a step
  connects,   \* connects issued to WSK and not completed
  handshakes, \* TLS handshakes under way
  pool,       \* SocketPool.Count
  lost,       \* a socket released into the pool after its last drain
  fills,      \* calls made so far
  pc,         \* where each thread is
  teardown    \* "up", "poll", "pool", "down"

words == <<Remaining, InFlight, ShuttingDown, Running, Pending>>
steps == <<queued, connects, handshakes>>
vars == <<words, steps, workItem, pool, lost, fills, pc, teardown>>

Init ==
  /\ Remaining = 0 /\ InFlight = 0 /\ ShuttingDown = FALSE /\ Running = FALSE /\ Pending = FALSE
  /\ workItem = "none" /\ queued = [handshake |-> 0, account |-> 0]
  /\ connects = 0 /\ handshakes = 0 /\ pool = 0 /\ lost = FALSE /\ fills = 0
  /\ pc = [t \in Threads |-> "idle"]
  /\ teardown = "up"

Goto(t, label) == pc' = [pc EXCEPT ![t] = label]

-----------------------------------------------------------------------------
(* BlorgPrewarmSocketPool and SocketPrewarmPump.                           *)

\* The work item is allocated by the first fill; without it the fill ends.
PrewarmStart(t) ==
  /\ pc[t] = "idle" /\ fills < MaxFills /\ teardown = "up"
  /\ fills' = fills + 1
  /\ \/ workItem \in {"none", "idle"} /\ workItem' = "idle" /\ Goto(t, "fill")
     \/ workItem = "none" /\ UNCHANGED <<workItem, pc>>
  /\ UNCHANGED <<words, steps, pool, lost, teardown>>

\* Mutant: admitted beside another fill.
BlorgPrewarmSocketPool_beside(t) ==
  /\ pc[t] = "fill"
  /\ IF ShuttingDown
     THEN Goto(t, "idle") /\ UNCHANGED Remaining
     ELSE Remaining' = Count /\ Goto(t, "publish")
  /\ UNCHANGED <<InFlight, ShuttingDown, Running, Pending, steps, workItem, pool, lost, fills, teardown>>

\* Admission: not past the latch, not while steps are owed or in flight.
BlorgPrewarmSocketPool(t) ==
  /\ pc[t] = "fill"
  /\ IF ShuttingDown \/ Remaining # 0 \/ InFlight # 0
     THEN Goto(t, "idle") /\ UNCHANGED Remaining
     ELSE Remaining' = Count /\ Goto(t, "publish")
  /\ UNCHANGED <<InFlight, ShuttingDown, Running, Pending, steps, workItem, pool, lost, fills, teardown>>

PumpPublish(t) ==
  /\ pc[t] = "publish"
  /\ Pending' = TRUE
  /\ Goto(t, "run")
  /\ UNCHANGED <<Remaining, InFlight, ShuttingDown, Running, steps, workItem, pool, lost, fills, teardown>>

PumpRun(t) ==
  /\ pc[t] = "run"
  /\ IF Running THEN Goto(t, "idle") /\ UNCHANGED Running ELSE Running' = TRUE /\ Goto(t, "take")
  /\ UNCHANGED <<Remaining, InFlight, ShuttingDown, Pending, steps, workItem, pool, lost, fills, teardown>>

PumpTake(t) ==
  /\ pc[t] = "take"
  /\ Pending' = FALSE
  /\ Goto(t, IF Pending THEN "raise" ELSE "tail")
  /\ UNCHANGED <<Remaining, InFlight, ShuttingDown, Running, steps, workItem, pool, lost, fills, teardown>>

\* The latch check and the raise are one decision.
PumpRaise(t) ==
  /\ pc[t] = "raise"
  /\ IF ShuttingDown THEN Goto(t, "tail") /\ UNCHANGED InFlight
     ELSE InFlight' = InFlight + 1 /\ Goto(t, "issue")
  /\ UNCHANGED <<Remaining, ShuttingDown, Running, Pending, steps, workItem, pool, lost, fills, teardown>>

\* BlorgAcquireReusableWskSocketAsync, ForceFresh: the connect is issued, and
\* may complete before the call returns, or nothing could be allocated.
PumpIssue(t) ==
  /\ pc[t] = "issue"
  /\ \/ connects' = connects + 1 /\ Goto(t, "take")
     \/ UNCHANGED connects /\ Goto(t, "failed")
  /\ UNCHANGED <<words, queued, handshakes, workItem, pool, lost, fills, teardown>>

PumpIssueFailed(t) ==
  /\ pc[t] = "failed"
  /\ InFlight' = InFlight - 1 /\ Remaining' = 0
  /\ Goto(t, "tail")
  /\ UNCHANGED <<ShuttingDown, Running, Pending, steps, workItem, pool, lost, fills, teardown>>

\* Running released and Pending read again in one section.
PumpTail(t) ==
  /\ pc[t] = "tail"
  /\ Running' = FALSE
  /\ Goto(t, IF Pending THEN "run" ELSE "idle")
  /\ UNCHANGED <<Remaining, InFlight, ShuttingDown, Pending, steps, workItem, pool, lost, fills, teardown>>

-----------------------------------------------------------------------------
(* A step's completion, on thread t.                                       *)

\* SocketPrewarmStepFinish: accounted for here, or above PASSIVE_LEVEL from
\* the work item.
StepFinish(t) ==
  \/ Goto(t, "account") /\ UNCHANGED queued
  \/ queued' = [queued EXCEPT !.account = @ + 1] /\ UNCHANGED pc

\* BlorgReleaseReusableWskSocket: pooled, or closed when the pool is full.
Release ==
  /\ pool' = IF pool >= PoolMax THEN pool ELSE pool + 1
  /\ lost' = (lost \/ teardown \in {"pool", "down"})

\* SocketPrewarmStepComplete
SocketPrewarmStepComplete(t) ==
  /\ pc[t] = "idle" /\ connects > 0
  /\ connects' = connects - 1
  /\ \/ StepFinish(t) /\ UNCHANGED <<pool, lost, handshakes>>     \* the connect failed
     \/ ~TlsEnabled /\ Release /\ StepFinish(t) /\ UNCHANGED handshakes
     \/ TlsEnabled /\ handshakes' = handshakes + 1 /\ UNCHANGED <<queued, pool, lost, pc>>
     \/ /\ TlsEnabled
        /\ queued' = [queued EXCEPT !.handshake = @ + 1]
        /\ UNCHANGED <<handshakes, pool, lost, pc>>
  /\ UNCHANGED <<words, workItem, fills, teardown>>

SocketPrewarmHandshakeWorker(t) ==
  /\ pc[t] = "idle" /\ queued.handshake > 0
  /\ queued' = [queued EXCEPT !.handshake = @ - 1]
  /\ handshakes' = handshakes + 1
  /\ UNCHANGED <<words, connects, workItem, pool, lost, fills, pc, teardown>>

SocketPrewarmHandshakeComplete(t) ==
  /\ pc[t] = "idle" /\ handshakes > 0
  /\ handshakes' = handshakes - 1
  /\ Release \/ UNCHANGED <<pool, lost>>
  /\ StepFinish(t)
  /\ UNCHANGED <<words, connects, workItem, fills, teardown>>

SocketPrewarmStepWorker(t) ==
  /\ pc[t] = "idle" /\ queued.account > 0
  /\ queued' = [queued EXCEPT !.account = @ - 1]
  /\ Goto(t, "account")
  /\ UNCHANGED <<words, connects, handshakes, workItem, pool, lost, fills, teardown>>

\* Mutant: the step is not taken off what the fill owes.
SocketPrewarmStepAccount_noConsume(t) ==
  /\ pc[t] = "account"
  /\ InFlight' = InFlight - 1
  /\ Goto(t, IF ~ShuttingDown /\ Remaining > 0 THEN "publish" ELSE "idle")
  /\ UNCHANGED <<Remaining, ShuttingDown, Running, Pending, steps, workItem, pool, lost, fills, teardown>>

SocketPrewarmStepAccount(t) ==
  /\ pc[t] = "account"
  /\ InFlight' = InFlight - 1
  /\ IF ~ShuttingDown /\ Remaining > 0
     THEN Remaining' = Remaining - 1 /\ Goto(t, IF Remaining > 1 THEN "publish" ELSE "idle")
     ELSE UNCHANGED Remaining /\ Goto(t, "idle")
  /\ UNCHANGED <<ShuttingDown, Running, Pending, steps, workItem, pool, lost, fills, teardown>>

-----------------------------------------------------------------------------
(* BlorgDrainWskSocketPrewarm, then BlorgCleanupWskSocketPool.             *)

DrainLatch ==
  /\ teardown = "up"
  /\ ShuttingDown' = TRUE /\ Remaining' = 0
  /\ teardown' = "poll"
  /\ UNCHANGED <<InFlight, Running, Pending, steps, workItem, pool, lost, fills, pc>>

\* Mutant: the latch alone, without the wait.
DrainPoll_noWait ==
  /\ teardown = "poll"
  /\ workItem' = IF workItem = "none" THEN "none" ELSE "freed"
  /\ teardown' = "pool"
  /\ UNCHANGED <<words, steps, pool, lost, fills, pc>>

\* DriverEntry, which starts the fills, has returned before an unload.
DrainPoll ==
  /\ teardown = "poll" /\ InFlight = 0
  /\ workItem' = IF workItem = "none" THEN "none" ELSE "freed"
  /\ teardown' = "pool"
  /\ UNCHANGED <<words, steps, pool, lost, fills, pc>>

CleanupPool ==
  /\ teardown = "pool"
  /\ IF pool > 0 THEN pool' = pool - 1 /\ UNCHANGED teardown ELSE teardown' = "down" /\ UNCHANGED pool
  /\ UNCHANGED <<words, steps, workItem, lost, fills, pc>>

Unloaded == teardown = "down" /\ UNCHANGED vars

-----------------------------------------------------------------------------
Pump(t) ==
  \/ BlorgPrewarmSocketPool(t) \/ PumpPublish(t) \/ PumpRun(t) \/ PumpTake(t) \/ PumpRaise(t)
  \/ PumpIssue(t) \/ PumpIssueFailed(t) \/ PumpTail(t) \/ SocketPrewarmStepAccount(t)
Complete(t) ==
  \/ SocketPrewarmStepComplete(t) \/ SocketPrewarmHandshakeWorker(t)
  \/ SocketPrewarmHandshakeComplete(t) \/ SocketPrewarmStepWorker(t)

Next ==
  \/ \E t \in Threads : PrewarmStart(t) \/ Pump(t) \/ Complete(t)
  \/ DrainLatch \/ DrainPoll \/ CleanupPool \/ Unloaded

\* A thread in the driver runs on; a connect ends, by its watchdog if by
\* nothing else, a handshake likewise, and a queued work item runs.
Fairness ==
  /\ \A t \in Threads : WF_vars(Pump(t))
  /\ WF_vars(\E t \in Threads : Complete(t))
  /\ WF_vars(DrainPoll) /\ WF_vars(CleanupPool)

Spec == Init /\ [][Next]_vars
FairSpec == Spec /\ Fairness

-----------------------------------------------------------------------------
(* Properties.                                                             *)

AtLabels(S) == Cardinality({t \in Threads : pc[t] \in S})
Outstanding == connects + handshakes + queued.handshake + queued.account

\* One connect at a time: the pre-warm never has two steps in flight, however
\* fills, inline completions and pump calls on other processors overlap, and
\* InFlight counts exactly the step a drain has to wait for.  So the one work
\* item, shared by the handshake and the accounting, is queued once at most.
\* Only the holder of Running issues, and the pool is never over its cap.
OneStepInFlight ==
  /\ InFlight \in {0, 1}
  /\ InFlight = Outstanding + AtLabels({"issue", "failed", "account"})
  /\ AtLabels({"take", "raise", "issue", "failed", "tail"}) = IF Running THEN 1 ELSE 0
  /\ pool <= PoolMax

\* The drain waits for the whole step: past its poll nothing is with WSK or
\* the work item, no connect follows, and no socket goes into a pool that
\* nothing will drain again.
DrainIsComplete ==
  /\ ~lost
  /\ teardown \in {"pool", "down"} => Outstanding = 0 /\ AtLabels({"issue", "failed", "account"}) = 0
  /\ teardown = "down" => pool = 0

\* A fill runs to its end or to the first connect that cannot be issued: the
\* step it owes is never dropped between a completion that publishes it and a
\* pump that is leaving.
FillEnds == Remaining > 0 ~> Remaining = 0
=============================================================================
