----------------------------- MODULE SocketAsync -----------------------------
(***************************************************************************)
(* Asynchronous socket operations and their watchdogs (Socket.c).  Every   *)
(* connect, send and receive has a context shared by the completion        *)
(* routine and the timer's deferred procedure call (DPC), and freed by     *)
(* whichever drops the last of its two references.  A freed context may be *)
(* taken by another operation at once (the lookaside list).                *)
(*                                                                         *)
(* The operations belong to HTTP requests.  A request is a chain of them:  *)
(* the callback of one issues the next or ends the request, which drops    *)
(* the request's reference on the client's gate (Client.c), and unload     *)
(* waits at that gate.  The completion routine, the DPC and unload run on  *)
(* different processors; a step is one access to what they share.          *)
(***************************************************************************)
EXTENDS Integers, FiniteSets

CONSTANTS Requests,
          Contexts,     \* the memory of operation contexts
          MaxOps,       \* bound: the operations of one request
          NoOp

ASSUME SocketAsyncAssumption == MaxOps \in Nat \ {0} /\ NoOp \notin Requests \X (1..MaxOps)

VARIABLES
  op,             \* the operation a context belongs to, NoOp in the free list
  RefCount, TimedOut, timer, irp, \* fields of each context
  done,           \* each context's completion routine
  dpc,            \* each context's DPC
  req,            \* each request: its phase and how many operations it issued
  reported,       \* what each operation's callback was told, if it ran
  unload          \* BlorgDriverUnload

vars == <<op, RefCount, TimedOut, timer, irp, done, dpc, req, reported, unload>>
context == <<op, RefCount, TimedOut, timer, irp>>

Ops == Requests \X (1..MaxOps)
Rest == [at |-> "none", op |-> NoOp]

\* HttpActiveRequests, less the standing reference.
Active == {r \in Requests : req[r].phase = "active"}

Init ==
  /\ op = [c \in Contexts |-> NoOp]
  /\ RefCount = [c \in Contexts |-> 0]
  /\ TimedOut = [c \in Contexts |-> FALSE]
  /\ timer = [c \in Contexts |-> "off"]
  /\ irp = [c \in Contexts |-> "none"]
  /\ done = [c \in Contexts |-> Rest]
  /\ dpc = [c \in Contexts |-> Rest]
  /\ req = [r \in Requests |-> [phase |-> "new", ops |-> 0]]
  /\ reported = [o \in Ops |-> "none"]
  /\ unload = "no"

-----------------------------------------------------------------------------
(* Issuing.                                                                *)

\* SocketAllocateAsyncContext, or the connect's own allocation, then
\* SocketArmTimeout: the watchdog is armed before the operation is issued.
SocketArmTimeout(c, o) ==
  /\ op[c] = NoOp
  /\ op' = [op EXCEPT ![c] = o]
  /\ RefCount' = [RefCount EXCEPT ![c] = 2]
  /\ TimedOut' = [TimedOut EXCEPT ![c] = FALSE]
  /\ timer' = [timer EXCEPT ![c] = "set"]
  /\ irp' = [irp EXCEPT ![c] = "armed"]

\* Request r takes its next step: it issues another operation, or ends.  It
\* also ends when no context can be allocated.
GoOn(r) ==
  \/ /\ req[r].ops < MaxOps
     /\ \E c \in Contexts : SocketArmTimeout(c, <<r, req[r].ops + 1>>)
     /\ req' = [req EXCEPT ![r].ops = @ + 1]
  \/ /\ req' = [req EXCEPT ![r].phase = "done"]
     /\ UNCHANGED context

\* HttpAllocateContext: the gate refuses a request only once unload has
\* released the standing reference and no other is left.
Start(r) ==
  /\ req[r].phase = "new"
  /\ unload = "no" \/ Active # {}
  /\ req' = [req EXCEPT ![r].phase = "active"]
  /\ UNCHANGED <<context, done, dpc, reported, unload>>

FirstOp(r) ==
  /\ req[r].phase = "active" /\ req[r].ops = 0
  /\ GoOn(r)
  /\ UNCHANGED <<done, dpc, reported, unload>>

\* WskSend, WskReceive or WskSocketConnect is called.
Issue(c) ==
  /\ irp[c] \in {"armed", "armedCancelled"}
  /\ irp' = [irp EXCEPT ![c] = IF @ = "armed" THEN "pending" ELSE "cancelled"]
  /\ UNCHANGED <<op, RefCount, TimedOut, timer, done, dpc, req, reported, unload>>

-----------------------------------------------------------------------------
(* The stack completes the IRP, with the operation's own outcome or, once  *)
(* the IRP has been cancelled, with STATUS_CANCELLED.                      *)

WskAnswers(c) ==
  /\ irp[c] \in {"pending", "cancelled"}
  /\ irp' = [irp EXCEPT ![c] = "answered"]
  /\ done' = [done EXCEPT ![c] = [at |-> "disarm", op |-> op[c]]]
  /\ UNCHANGED <<op, RefCount, TimedOut, timer, dpc, req, reported, unload>>

WskCancels(c) ==
  /\ irp[c] = "cancelled"
  /\ irp' = [irp EXCEPT ![c] = "aborted"]
  /\ done' = [done EXCEPT ![c] = [at |-> "disarm", op |-> op[c]]]
  /\ UNCHANGED <<op, RefCount, TimedOut, timer, dpc, req, reported, unload>>

-----------------------------------------------------------------------------
(* Dropping a reference.                                                   *)

\* Mutant: the completion routine always frees.
Freed_always(c) == TRUE

\* SocketReleaseTimeoutRef drove the count to zero: the caller frees.
Freed(c) == RefCount[c] = 1

SocketReleaseTimeoutRef(c) ==
  /\ RefCount' = [RefCount EXCEPT ![c] = IF Freed(c) THEN 0 ELSE @ - 1]
  /\ op' = [op EXCEPT ![c] = IF Freed(c) THEN NoOp ELSE @]
  /\ irp' = [irp EXCEPT ![c] = IF Freed(c) THEN "none" ELSE @]
  /\ UNCHANGED <<TimedOut, timer>>

-----------------------------------------------------------------------------
(* SocketAsyncCompletionRoutine, SocketConnectAsyncCompletionRoutine.      *)

\* KeCancelTimer finds the timer pending: the DPC will never run, and its
\* reference is dropped for it.
DisarmPending(c) ==
  /\ done[c].at = "disarm" /\ timer[c] = "set"
  /\ timer' = [timer EXCEPT ![c] = "off"]
  /\ RefCount' = [RefCount EXCEPT ![c] = @ - 1]
  /\ done' = [done EXCEPT ![c].at = "status"]
  /\ UNCHANGED <<op, TimedOut, irp, dpc, req, reported, unload>>

\* The timer has expired: the DPC runs, or has run, and keeps its own
\* reference.
DisarmExpired(c) ==
  /\ done[c].at = "disarm" /\ timer[c] # "set"
  /\ done' = [done EXCEPT ![c].at = "status"]
  /\ UNCHANGED <<context, dpc, req, reported, unload>>

\* Mutant: the watchdog's mark is not looked at.
Outcome_untranslated(c) == IF irp[c] = "aborted" THEN "cancelled" ELSE "answer"

\* SocketDisarmTimeout's result.
Outcome(c) ==
  IF irp[c] = "aborted" THEN (IF TimedOut[c] THEN "timeout" ELSE "cancelled") ELSE "answer"

\* TimedOut is read and the callback runs, on this thread: it issues the
\* request's next operation, or ends the request.
Callback(c) ==
  /\ done[c].at = "status"
  /\ reported' = [reported EXCEPT ![op[c]] = Outcome(c)]
  /\ done' = [done EXCEPT ![c].at = "release"]
  /\ GoOn(op[c][1])
  /\ UNCHANGED <<dpc, unload>>

CompletionReleases(c) ==
  /\ done[c].at = "release"
  /\ SocketReleaseTimeoutRef(c)
  /\ done' = [done EXCEPT ![c] = Rest]
  /\ UNCHANGED <<dpc, req, reported, unload>>

-----------------------------------------------------------------------------
(* SocketAsyncTimeoutDpc, SocketConnectTimeoutDpc.                         *)

TimerExpires(c) ==
  /\ timer[c] = "set"
  /\ timer' = [timer EXCEPT ![c] = "off"]
  /\ dpc' = [dpc EXCEPT ![c] = [at |-> "mark", op |-> op[c]]]
  /\ UNCHANGED <<op, RefCount, TimedOut, irp, done, req, reported, unload>>

DpcMarks(c) ==
  /\ dpc[c].at = "mark"
  /\ TimedOut' = [TimedOut EXCEPT ![c] = TRUE]
  /\ dpc' = [dpc EXCEPT ![c].at = "cancel"]
  /\ UNCHANGED <<op, RefCount, timer, irp, done, req, reported, unload>>

\* Mutant: the DPC marks the operation but leaves its IRP alone.
DpcCancels_not(c) ==
  /\ dpc[c].at = "cancel"
  /\ dpc' = [dpc EXCEPT ![c].at = "release"]
  /\ UNCHANGED <<context, done, req, reported, unload>>

\* IoCancelIrp, on an IRP that may not have been issued yet, or that may be
\* complete already.
DpcCancels(c) ==
  /\ dpc[c].at = "cancel"
  /\ irp' = [irp EXCEPT ![c] = CASE @ = "armed" -> "armedCancelled" [] @ = "pending" -> "cancelled" [] OTHER -> @]
  /\ dpc' = [dpc EXCEPT ![c].at = "release"]
  /\ UNCHANGED <<op, RefCount, TimedOut, timer, done, req, reported, unload>>

DpcReleases(c) ==
  /\ dpc[c].at = "release"
  /\ SocketReleaseTimeoutRef(c)
  /\ dpc' = [dpc EXCEPT ![c] = Rest]
  /\ UNCHANGED <<done, req, reported, unload>>

-----------------------------------------------------------------------------
(* BlorgDriverUnload.                                                      *)

\* BlorgDrainHttpClient releases the standing reference ...
DrainStart ==
  /\ unload = "no"
  /\ unload' = "draining"
  /\ UNCHANGED <<context, done, dpc, req, reported>>

\* ... and waits for the last request's.  BlorgCleanupWskClient closes the
\* sockets and deregisters, which the stack lets finish only when no
\* completion routine of theirs is running, then deletes the lookaside list,
\* and the image is unloaded.
UnloadDone ==
  /\ unload = "draining" /\ Active = {}
  /\ \A c \in Contexts : done[c].at = "none"
  /\ unload' = "unloaded"
  /\ UNCHANGED <<context, done, dpc, req, reported>>

Unloaded ==
  /\ unload = "unloaded" /\ \A c \in Contexts : op[c] = NoOp
  /\ UNCHANGED vars

-----------------------------------------------------------------------------
Completion(c) == DisarmPending(c) \/ DisarmExpired(c) \/ Callback(c) \/ CompletionReleases(c)
Watchdog(c) == TimerExpires(c) \/ DpcMarks(c) \/ DpcCancels(c) \/ DpcReleases(c)

Next ==
  \/ \E r \in Requests : Start(r) \/ FirstOp(r)
  \/ \E c \in Contexts : Issue(c) \/ WskAnswers(c) \/ WskCancels(c) \/ Completion(c) \/ Watchdog(c)
  \/ DrainStart \/ UnloadDone \/ Unloaded

Spec == Init /\ [][Next]_vars

\* The driver's own threads, an armed timer and the cancellation of an IRP
\* make progress.  The peer need never answer.
Fairness ==
  /\ \A r \in Requests : WF_vars(FirstOp(r))
  /\ \A c \in Contexts : WF_vars(Issue(c)) /\ WF_vars(WskCancels(c)) /\ WF_vars(Completion(c)) /\ WF_vars(Watchdog(c))
  /\ WF_vars(UnloadDone)

FairSpec == Spec /\ Fairness

-----------------------------------------------------------------------------
(* Properties.                                                             *)

\* However the completion routine and the watchdog's DPC interleave, neither
\* touches a context that has been freed or has become another operation's
\* (so a late DPC never cancels an IRP that is not its own), and a context
\* neither of them will touch again has been freed (the reference count of
\* SOCKET_OP_TIMEOUT).
ContextIsShared ==
  \A c \in Contexts :
    /\ done[c].at # "none" => done[c].op = op[c] /\ op[c] # NoOp
    /\ dpc[c].at # "none" => dpc[c].op = op[c] /\ op[c] # NoOp
    /\ op[c] # NoOp =>
         done[c].at # "none" \/ dpc[c].at # "none" \/ timer[c] = "set"
         \/ irp[c] \in {"armed", "armedCancelled", "pending", "cancelled"}

\* Nothing but the watchdog cancels an operation, and its callback is then
\* told of a timeout, never of a cancellation: a connect is retried on
\* STATUS_IO_TIMEOUT alone (SocketDisarmTimeout, HttpOnSocket).
CancelIsTimeout == \A o \in Ops : reported[o] # "cancelled"

\* A peer that never answers cannot hang a request or the unload that waits
\* for it: every operation's callback runs, if only because of its watchdog
\* (the comment on BlorgDrainHttpClient).
PeerCannotHang ==
  /\ \A r \in Requests : req[r].phase = "active" ~> req[r].phase = "done"
  /\ unload = "draining" ~> unload = "unloaded"

\* What the comment above BlorgDriverUnload says of the drains: each waits
\* for what is already outstanding before anything is torn down.  So nothing
\* of an operation is left to run when the driver is gone.
DrainIsComplete == unload = "unloaded" => \A c \in Contexts : op[c] = NoOp
=============================================================================
