------------------------- MODULE SocketAsyncProofs -------------------------
(***************************************************************************)
(* ContextIsShared and CancelIsTimeout of SocketAsync, for any number of   *)
(* requests, operations and contexts.                                      *)
(*                                                                         *)
(* The invariant says who owns the references of a context: the operation  *)
(* until its completion routine has ended, and the watchdog until its      *)
(* timer was disarmed or its DPC has ended.  A context is in use while one *)
(* of them does, and an IRP is cancelled only after TimedOut is set.       *)
(***************************************************************************)
EXTENDS SocketAsync, TLAPS

InFlight == {"armed", "armedCancelled", "pending", "cancelled"}
Ended == {"answered", "aborted"}
OrNoOp == Ops \cup {NoOp}
DoneType == [at : {"none", "disarm", "status", "release"}, op : OrNoOp]
DpcType == [at : {"none", "mark", "cancel", "release"}, op : OrNoOp]
ReqType == [phase : {"new", "active", "done"}, ops : 0..MaxOps]

Typed ==
  /\ op \in [Contexts -> OrNoOp]
  /\ RefCount \in [Contexts -> Int]
  /\ TimedOut \in [Contexts -> BOOLEAN]
  /\ timer \in [Contexts -> {"set", "off"}]
  /\ irp \in [Contexts -> InFlight \cup Ended \cup {"none"}]
  /\ done \in [Contexts -> DoneType]
  /\ dpc \in [Contexts -> DpcType]
  /\ req \in [Requests -> ReqType]
  /\ reported \in [Ops -> {"none", "answer", "timeout", "cancelled"}]

\* The operation, up to the end of its completion routine, owns a reference.
Completing(c) == irp[c] \in InFlight \/ done[c].at # "none"

\* The watchdog, up to the end of its DPC, owns a reference.
Watched(c) == timer[c] = "set" \/ dpc[c].at # "none"

References(c) == (IF Completing(c) THEN 1 ELSE 0) + (IF Watched(c) THEN 1 ELSE 0)

Sound(c) ==
  /\ RefCount[c] = References(c)
  /\ op[c] = NoOp <=> RefCount[c] = 0
  /\ done[c].at # "none" => irp[c] \in Ended /\ done[c].op = op[c]
  /\ dpc[c].at # "none" => timer[c] = "off" /\ dpc[c].op = op[c]
  /\ irp[c] \in {"armedCancelled", "cancelled", "aborted"} => TimedOut[c] = TRUE
  /\ dpc[c].at \in {"cancel", "release"} => TimedOut[c] = TRUE

IInv == Typed /\ (\A c \in Contexts : Sound(c)) /\ CancelIsTimeout

-----------------------------------------------------------------------------
(* A lemma per action, or per group of actions that change the same        *)
(* fields.                                                                 *)

USE DEF InFlight, Ended, OrNoOp

\* The fields of context d that Sound speaks of.
Same(d) ==
  /\ op'[d] = op[d] /\ RefCount'[d] = RefCount[d] /\ TimedOut'[d] = TimedOut[d]
  /\ timer'[d] = timer[d] /\ irp'[d] = irp[d] /\ done'[d] = done[d] /\ dpc'[d] = dpc[d]

\* A step leaves a context it does not change sound.
LEMMA SameKeeps ==
  ASSUME NEW d \in Contexts, Sound(d), Same(d)
  PROVE  Sound(d)'
BY DEF Sound, Same, References, Completing, Watched

\* It is enough to look at the one context a step changes.
LEMMA OneChanges ==
  ASSUME NEW c \in Contexts, \A d \in Contexts : Sound(d), Sound(c)',
         \A d \in Contexts \ {c} : Same(d)
  PROVE  \A d \in Contexts : Sound(d)'
<1> SUFFICES ASSUME NEW d \in Contexts PROVE Sound(d)'
    OBVIOUS
<1>1. CASE d = c
      BY <1>1
<1>2. CASE d # c
      BY <1>2, SameKeeps
<1> QED BY <1>1, <1>2

\* The routines and the requests move on within their types.
LEMMA DoneMoves ==
  ASSUME done \in [Contexts -> DoneType], NEW c \in Contexts,
         NEW l \in {"none", "disarm", "status", "release"}
  PROVE  [done EXCEPT ![c].at = l] \in [Contexts -> DoneType]
<1>1. [done[c] EXCEPT !.at = l] \in DoneType
      BY DEF DoneType
<1> QED BY <1>1

LEMMA DpcMoves ==
  ASSUME dpc \in [Contexts -> DpcType], NEW c \in Contexts,
         NEW l \in {"none", "mark", "cancel", "release"}
  PROVE  [dpc EXCEPT ![c].at = l] \in [Contexts -> DpcType]
<1>1. [dpc[c] EXCEPT !.at = l] \in DpcType
      BY DEF DpcType
<1> QED BY <1>1

LEMMA ReqMoves ==
  ASSUME req \in [Requests -> ReqType], NEW r \in Requests
  PROVE  /\ \A p \in {"new", "active", "done"} : [req EXCEPT ![r].phase = p] \in [Requests -> ReqType]
         /\ req[r].ops < MaxOps => [req EXCEPT ![r].ops = @ + 1] \in [Requests -> ReqType]
<1>1. MaxOps \in Nat /\ req[r] \in ReqType
      BY SocketAsyncAssumption
<1>2. ASSUME NEW p \in {"new", "active", "done"} PROVE [req[r] EXCEPT !.phase = p] \in ReqType
      BY <1>1 DEF ReqType
<1>3. ASSUME req[r].ops < MaxOps PROVE [req[r] EXCEPT !.ops = @ + 1] \in ReqType
      BY <1>1, <1>3 DEF ReqType
<1> QED BY <1>2, <1>3

LEMMA InitEstablishes == Init => IInv
<1> SUFFICES ASSUME Init PROVE IInv
    OBVIOUS
<1>1. NoOp \notin Ops
      BY SocketAsyncAssumption DEF Ops
<1>2. Typed
      BY SocketAsyncAssumption DEF Init, Typed, Rest, DoneType, DpcType, ReqType
<1>3. ASSUME NEW c \in Contexts PROVE Sound(c)
      BY DEF Init, Sound, References, Completing, Watched, Rest
<1>4. CancelIsTimeout
      BY DEF Init, CancelIsTimeout
<1> QED BY <1>2, <1>3, <1>4 DEF IInv

\* SocketArmTimeout takes a context nobody uses and gives each of its two
\* owners a reference.
LEMMA ArmKeeps ==
  ASSUME IInv, NEW c \in Contexts, NEW o \in Ops, SocketArmTimeout(c, o),
         done'[c] = done[c], dpc'[c] = dpc[c]
  PROVE  /\ op' \in [Contexts -> OrNoOp] /\ RefCount' \in [Contexts -> Int]
         /\ TimedOut' \in [Contexts -> BOOLEAN] /\ timer' \in [Contexts -> {"set", "off"}]
         /\ irp' \in [Contexts -> InFlight \cup Ended \cup {"none"}]
         /\ Sound(c)'
         /\ \A d \in Contexts \ {c} :
              /\ op'[d] = op[d] /\ RefCount'[d] = RefCount[d] /\ TimedOut'[d] = TimedOut[d]
              /\ timer'[d] = timer[d] /\ irp'[d] = irp[d]
<1>1. NoOp \notin Ops
      BY SocketAsyncAssumption DEF Ops
<1>2. Typed /\ Sound(c) /\ op[c] = NoOp
      BY DEF IInv, SocketArmTimeout
<1>3. /\ op' \in [Contexts -> OrNoOp] /\ RefCount' \in [Contexts -> Int]
      /\ TimedOut' \in [Contexts -> BOOLEAN] /\ timer' \in [Contexts -> {"set", "off"}]
      /\ irp' \in [Contexts -> InFlight \cup Ended \cup {"none"}]
      BY <1>2 DEF Typed, SocketArmTimeout
<1>4. done[c].at = "none" /\ dpc[c].at = "none"
      BY <1>2 DEF Sound, References, Completing, Watched
<1>5. /\ op'[c] = o /\ RefCount'[c] = 2 /\ timer'[c] = "set" /\ irp'[c] = "armed"
      BY <1>2 DEF Typed, SocketArmTimeout
<1>6. Sound(c)'
      BY <1>1, <1>4, <1>5 DEF Sound, References, Completing, Watched
<1>7. \A d \in Contexts \ {c} :
        /\ op'[d] = op[d] /\ RefCount'[d] = RefCount[d] /\ TimedOut'[d] = TimedOut[d]
        /\ timer'[d] = timer[d] /\ irp'[d] = irp[d]
      BY <1>2 DEF Typed, SocketArmTimeout
<1> QED BY <1>3, <1>6, <1>7

LEMMA StartKeeps ==
  ASSUME IInv, NEW r \in Requests, Start(r)
  PROVE  IInv'
<1>0. req' \in [Requests -> ReqType]
      BY Zenon, ReqMoves DEF IInv, Typed, Start
<1>1. Typed'
      BY <1>0 DEF IInv, Typed, Start, context
<1>2. ASSUME NEW d \in Contexts PROVE Sound(d)'
      BY SameKeeps DEF IInv, Same, Start, context
<1>3. CancelIsTimeout'
      BY DEF IInv, CancelIsTimeout, Start
<1> QED BY <1>1, <1>2, <1>3 DEF IInv

LEMMA FirstOpKeeps ==
  ASSUME IInv, NEW r \in Requests, FirstOp(r)
  PROVE  IInv'
<1>0. Typed /\ (\A d \in Contexts : Sound(d)) /\ CancelIsTimeout
      BY DEF IInv
<1>1. CancelIsTimeout' /\ done' = done /\ dpc' = dpc /\ reported' = reported
      BY <1>0 DEF CancelIsTimeout, FirstOp
<1>2. CASE /\ req[r].ops < MaxOps
           /\ \E c \in Contexts : SocketArmTimeout(c, <<r, req[r].ops + 1>>)
           /\ req' = [req EXCEPT ![r].ops = @ + 1]
  <2>1. PICK c \in Contexts : SocketArmTimeout(c, <<r, req[r].ops + 1>>)
        BY <1>2
  <2>2. req[r].ops \in 0..MaxOps /\ MaxOps \in Nat
        BY <1>0, SocketAsyncAssumption DEF Typed, ReqType
  <2>3. <<r, req[r].ops + 1>> \in Ops
        BY <1>2, <2>2 DEF Ops
  <2>4. req' \in [Requests -> ReqType]
        BY Zenon, <1>0, <1>2, ReqMoves DEF Typed
  <2>5. Typed'
        BY <1>0, <1>1, <2>1, <2>3, <2>4, ArmKeeps DEF Typed
  <2>6. Sound(c)' /\ \A d \in Contexts \ {c} : Same(d)
        BY <1>1, <2>1, <2>3, ArmKeeps DEF Same
  <2> QED BY <1>0, <1>1, <2>5, <2>6, OneChanges DEF IInv
<1>3. CASE req' = [req EXCEPT ![r].phase = "done"] /\ UNCHANGED context
  <2>0. req' \in [Requests -> ReqType]
        BY Zenon, <1>0, <1>3, ReqMoves DEF Typed
  <2>1. Typed'
        BY <1>0, <1>1, <1>3, <2>0 DEF Typed, context
  <2>2. ASSUME NEW d \in Contexts PROVE Sound(d)'
        BY <1>0, <1>1, <1>3, SameKeeps DEF Same, context
  <2> QED BY <1>1, <2>1, <2>2 DEF IInv
<1> QED BY <1>2, <1>3 DEF FirstOp, GoOn

\* WskSend, WskReceive or WskSocketConnect is called.
LEMMA IssueKeeps ==
  ASSUME IInv, NEW c \in Contexts, Issue(c)
  PROVE  IInv'
<1>0. Typed /\ (\A d \in Contexts : Sound(d)) /\ CancelIsTimeout
      BY DEF IInv
<1>1. Typed'
      BY <1>0 DEF Typed, Issue
<1>2. Sound(c)'
      BY <1>0 DEF Typed, Issue, DoneType, DpcType, Sound, References, Completing,
          Watched
<1>3. \A d \in Contexts \ {c} : Same(d)
      BY <1>0 DEF Typed, Issue, Same
<1>4. CancelIsTimeout'
      BY <1>0 DEF CancelIsTimeout, Issue
<1> QED BY <1>0, <1>1, <1>2, <1>3, <1>4, OneChanges DEF IInv

\* The stack hands the IRP to the completion routine.
LEMMA WskAnswersKeeps ==
  ASSUME IInv, NEW c \in Contexts, WskAnswers(c)
  PROVE  IInv'
<1>0. Typed /\ (\A d \in Contexts : Sound(d)) /\ CancelIsTimeout
      BY DEF IInv
<1>1. Typed'
      BY <1>0 DEF Typed, WskAnswers, DoneType
<1>2. Sound(c)'
      BY <1>0 DEF Typed, WskAnswers, DoneType, DpcType, Sound, References, Completing,
          Watched
<1>3. \A d \in Contexts \ {c} : Same(d)
      BY <1>0 DEF Typed, WskAnswers, Same
<1>4. CancelIsTimeout'
      BY <1>0 DEF CancelIsTimeout, WskAnswers
<1> QED BY <1>0, <1>1, <1>2, <1>3, <1>4, OneChanges DEF IInv

\* As WskAnswers, for a cancelled IRP: it is marked timed out.
LEMMA WskCancelsKeeps ==
  ASSUME IInv, NEW c \in Contexts, WskCancels(c)
  PROVE  IInv'
<1>0. Typed /\ (\A d \in Contexts : Sound(d)) /\ CancelIsTimeout
      BY DEF IInv
<1>1. Typed'
      BY <1>0 DEF Typed, WskCancels, DoneType
<1>2. Sound(c)'
      BY <1>0 DEF Typed, WskCancels, DoneType, DpcType, Sound, References, Completing,
          Watched
<1>3. \A d \in Contexts \ {c} : Same(d)
      BY <1>0 DEF Typed, WskCancels, Same
<1>4. CancelIsTimeout'
      BY <1>0 DEF CancelIsTimeout, WskCancels
<1> QED BY <1>0, <1>1, <1>2, <1>3, <1>4, OneChanges DEF IInv

\* The reference of a disarmed watchdog is dropped.
LEMMA DisarmPendingKeeps ==
  ASSUME IInv, NEW c \in Contexts, DisarmPending(c)
  PROVE  IInv'
<1>0. Typed /\ (\A d \in Contexts : Sound(d)) /\ CancelIsTimeout
      BY DEF IInv
<1>1. Typed'
  <2>1. done' \in [Contexts -> DoneType]
        BY Zenon, <1>0, DoneMoves DEF Typed, DisarmPending
  <2> QED BY <1>0, <2>1 DEF Typed, DisarmPending
<1>2. Sound(c)'
      BY <1>0 DEF Typed, DisarmPending, DoneType, DpcType, Sound, References, Completing,
          Watched
<1>3. \A d \in Contexts \ {c} : Same(d)
      BY <1>0 DEF Typed, DisarmPending, Same
<1>4. CancelIsTimeout'
      BY <1>0 DEF CancelIsTimeout, DisarmPending
<1> QED BY <1>0, <1>1, <1>2, <1>3, <1>4, OneChanges DEF IInv

\* The expired watchdog keeps its reference.
LEMMA DisarmExpiredKeeps ==
  ASSUME IInv, NEW c \in Contexts, DisarmExpired(c)
  PROVE  IInv'
<1>0. Typed /\ (\A d \in Contexts : Sound(d)) /\ CancelIsTimeout
      BY DEF IInv
<1>1. Typed'
  <2>1. done' \in [Contexts -> DoneType]
        BY Zenon, <1>0, DoneMoves DEF Typed, DisarmExpired
  <2> QED BY <1>0, <2>1 DEF Typed, DisarmExpired, context
<1>2. Sound(c)'
      BY <1>0 DEF Typed, DisarmExpired, context, DoneType, DpcType, Sound, References, Completing,
          Watched
<1>3. \A d \in Contexts \ {c} : Same(d)
      BY <1>0 DEF Typed, DisarmExpired, context, Same
<1>4. CancelIsTimeout'
      BY <1>0 DEF CancelIsTimeout, DisarmExpired
<1> QED BY <1>0, <1>1, <1>2, <1>3, <1>4, OneChanges DEF IInv

\* The completion routine drops the reference it owns.
LEMMA CompletionReleasesKeeps ==
  ASSUME IInv, NEW c \in Contexts, CompletionReleases(c)
  PROVE  IInv'
<1>0. Typed /\ (\A d \in Contexts : Sound(d)) /\ CancelIsTimeout
      BY DEF IInv
<1>1. Typed'
      BY <1>0 DEF Typed, CompletionReleases, SocketReleaseTimeoutRef, Freed, Rest, DoneType
<1>2. Sound(c)'
      BY <1>0 DEF Typed, CompletionReleases, SocketReleaseTimeoutRef, Freed, Rest, DoneType, DpcType, Sound, References, Completing,
          Watched
<1>3. \A d \in Contexts \ {c} : Same(d)
      BY <1>0 DEF Typed, CompletionReleases, SocketReleaseTimeoutRef, Freed, Rest, Same
<1>4. CancelIsTimeout'
      BY <1>0 DEF CancelIsTimeout, CompletionReleases
<1> QED BY <1>0, <1>1, <1>2, <1>3, <1>4, OneChanges DEF IInv

\* The reference of the timer becomes its DPC's.
LEMMA TimerExpiresKeeps ==
  ASSUME IInv, NEW c \in Contexts, TimerExpires(c)
  PROVE  IInv'
<1>0. Typed /\ (\A d \in Contexts : Sound(d)) /\ CancelIsTimeout
      BY DEF IInv
<1>1. Typed'
      BY <1>0 DEF Typed, TimerExpires, DpcType
<1>2. Sound(c)'
      BY <1>0 DEF Typed, TimerExpires, DoneType, DpcType, Sound, References, Completing,
          Watched
<1>3. \A d \in Contexts \ {c} : Same(d)
      BY <1>0 DEF Typed, TimerExpires, Same
<1>4. CancelIsTimeout'
      BY <1>0 DEF CancelIsTimeout, TimerExpires
<1> QED BY <1>0, <1>1, <1>2, <1>3, <1>4, OneChanges DEF IInv

LEMMA DpcMarksKeeps ==
  ASSUME IInv, NEW c \in Contexts, DpcMarks(c)
  PROVE  IInv'
<1>0. Typed /\ (\A d \in Contexts : Sound(d)) /\ CancelIsTimeout
      BY DEF IInv
<1>1. Typed'
  <2>1. dpc' \in [Contexts -> DpcType]
        BY Zenon, <1>0, DpcMoves DEF Typed, DpcMarks
  <2> QED BY <1>0, <2>1 DEF Typed, DpcMarks
<1>2. Sound(c)'
      BY <1>0 DEF Typed, DpcMarks, DoneType, DpcType, Sound, References, Completing,
          Watched
<1>3. \A d \in Contexts \ {c} : Same(d)
      BY <1>0 DEF Typed, DpcMarks, Same
<1>4. CancelIsTimeout'
      BY <1>0 DEF CancelIsTimeout, DpcMarks
<1> QED BY <1>0, <1>1, <1>2, <1>3, <1>4, OneChanges DEF IInv

\* TimedOut is set before the IRP is cancelled.
LEMMA DpcCancelsKeeps ==
  ASSUME IInv, NEW c \in Contexts, DpcCancels(c)
  PROVE  IInv'
<1>0. Typed /\ (\A d \in Contexts : Sound(d)) /\ CancelIsTimeout
      BY DEF IInv
<1>1. Typed'
  <2>1. dpc' \in [Contexts -> DpcType]
        BY Zenon, <1>0, DpcMoves DEF Typed, DpcCancels
  <2> QED BY <1>0, <2>1 DEF Typed, DpcCancels
<1>2. Sound(c)'
      BY <1>0 DEF Typed, DpcCancels, DoneType, DpcType, Sound, References, Completing,
          Watched
<1>3. \A d \in Contexts \ {c} : Same(d)
      BY <1>0 DEF Typed, DpcCancels, Same
<1>4. CancelIsTimeout'
      BY <1>0 DEF CancelIsTimeout, DpcCancels
<1> QED BY <1>0, <1>1, <1>2, <1>3, <1>4, OneChanges DEF IInv

\* The DPC drops the reference it owns.
LEMMA DpcReleasesKeeps ==
  ASSUME IInv, NEW c \in Contexts, DpcReleases(c)
  PROVE  IInv'
<1>0. Typed /\ (\A d \in Contexts : Sound(d)) /\ CancelIsTimeout
      BY DEF IInv
<1>1. Typed'
      BY <1>0 DEF Typed, DpcReleases, SocketReleaseTimeoutRef, Freed, Rest, DpcType
<1>2. Sound(c)'
      BY <1>0 DEF Typed, DpcReleases, SocketReleaseTimeoutRef, Freed, Rest, DoneType, DpcType, Sound, References, Completing,
          Watched
<1>3. \A d \in Contexts \ {c} : Same(d)
      BY <1>0 DEF Typed, DpcReleases, SocketReleaseTimeoutRef, Freed, Rest, Same
<1>4. CancelIsTimeout'
      BY <1>0 DEF CancelIsTimeout, DpcReleases
<1> QED BY <1>0, <1>1, <1>2, <1>3, <1>4, OneChanges DEF IInv

\* The callback of a context takes another one or none: its own is in use.
LEMMA CallbackKeeps ==
  ASSUME IInv, NEW c \in Contexts, Callback(c)
  PROVE  IInv'
<1>0. Typed /\ (\A d \in Contexts : Sound(d)) /\ CancelIsTimeout
      BY DEF IInv
<1>1. NoOp \notin Ops
      BY SocketAsyncAssumption DEF Ops
<1>2. done[c].at = "status" /\ dpc' = dpc
      BY DEF Callback
<1>3. op[c] \in Ops
      BY <1>0, <1>2 DEF Typed, Sound, References, Completing, Watched
<1>4. op[c][1] \in Requests
      BY <1>3 DEF Ops
<1>5. done' = [done EXCEPT ![c].at = "release"]
      BY DEF Callback
<1>6. /\ done' \in [Contexts -> DoneType]
      /\ done'[c].at = "release" /\ done'[c].op = done[c].op
      /\ \A d \in Contexts \ {c} : done'[d] = done[d]
  <2>1. done' \in [Contexts -> DoneType]
        BY Zenon, <1>0, <1>5, DoneMoves DEF Typed
  <2>2. /\ done'[c].at = "release" /\ done'[c].op = done[c].op
        /\ \A d \in Contexts \ {c} : done'[d] = done[d]
        BY <1>0, <1>5 DEF Typed, DoneType
  <2> QED BY <2>1, <2>2
<1>7. Outcome(c) \in {"answer", "timeout"}
      BY <1>0, <1>2 DEF Sound, Outcome
<1>8. reported' = [reported EXCEPT ![op[c]] = Outcome(c)]
      BY DEF Callback
<1>9. reported' \in [Ops -> {"none", "answer", "timeout", "cancelled"}] /\ CancelIsTimeout'
      BY <1>0, <1>3, <1>7, <1>8 DEF Typed, CancelIsTimeout
<1> DEFINE r == op[c][1]
<1>10. CASE /\ req[r].ops < MaxOps
            /\ \E e \in Contexts : SocketArmTimeout(e, <<r, req[r].ops + 1>>)
            /\ req' = [req EXCEPT ![r].ops = @ + 1]
  <2>1. PICK e \in Contexts : SocketArmTimeout(e, <<r, req[r].ops + 1>>)
        BY <1>10
  <2>2. e # c
        BY <1>1, <1>3, <2>1 DEF SocketArmTimeout
  <2>3. req[r].ops \in 0..MaxOps /\ MaxOps \in Nat
        BY <1>0, <1>4, SocketAsyncAssumption DEF Typed, ReqType
  <2>4. <<r, req[r].ops + 1>> \in Ops
        BY <1>4, <1>10, <2>3 DEF Ops
  <2>5. req' \in [Requests -> ReqType]
        BY Zenon, <1>0, <1>4, <1>10, ReqMoves DEF Typed
  <2>6. /\ op' \in [Contexts -> OrNoOp] /\ RefCount' \in [Contexts -> Int]
        /\ TimedOut' \in [Contexts -> BOOLEAN] /\ timer' \in [Contexts -> {"set", "off"}]
        /\ irp' \in [Contexts -> InFlight \cup Ended \cup {"none"}]
        /\ Sound(e)'
        /\ \A d \in Contexts \ {e} :
              /\ op'[d] = op[d] /\ RefCount'[d] = RefCount[d] /\ TimedOut'[d] = TimedOut[d]
              /\ timer'[d] = timer[d] /\ irp'[d] = irp[d]
        BY <1>2, <1>6, <2>1, <2>2, <2>4, ArmKeeps
  <2>7. Typed'
        BY <1>0, <1>2, <1>6, <1>9, <2>5, <2>6 DEF Typed
  <2>8. Sound(c)'
        BY <1>0, <1>2, <1>6, <2>2, <2>6 DEF Sound, References, Completing, Watched
  <2>9. ASSUME NEW d \in Contexts, d # c, d # e PROVE Sound(d)'
        BY <1>0, <1>2, <1>6, <2>6, <2>9, SameKeeps DEF Same
  <2> QED BY <1>9, <2>6, <2>7, <2>8, <2>9 DEF IInv
<1>11. CASE req' = [req EXCEPT ![r].phase = "done"] /\ UNCHANGED context
  <2>1. req' \in [Requests -> ReqType]
        BY Zenon, <1>0, <1>4, <1>11, ReqMoves DEF Typed
  <2>2. Typed'
        BY <1>0, <1>2, <1>6, <1>9, <1>11, <2>1 DEF Typed, context
  <2>3. Sound(c)'
        BY <1>0, <1>2, <1>6, <1>11 DEF Sound, References, Completing, Watched, context
  <2>4. \A d \in Contexts \ {c} : Same(d)
        BY <1>2, <1>6, <1>11 DEF Same, context
  <2> QED BY <1>0, <1>9, <2>2, <2>3, <2>4, OneChanges DEF IInv
<1> QED BY <1>10, <1>11 DEF Callback, GoOn

\* The steps of unload, and stuttering, touch no context.
LEMMA UnloadKeeps ==
  ASSUME IInv, UNCHANGED <<context, done, dpc, req, reported>>
  PROVE  IInv'
<1>1. Typed'
      BY DEF IInv, Typed, context
<1>2. ASSUME NEW d \in Contexts PROVE Sound(d)'
      BY SameKeeps DEF IInv, Same, context
<1>3. CancelIsTimeout'
      BY DEF IInv, CancelIsTimeout
<1> QED BY <1>1, <1>2, <1>3 DEF IInv

LEMMA NextKeeps == IInv /\ [Next]_vars => IInv'
<1> SUFFICES ASSUME IInv, [Next]_vars PROVE IInv'
    OBVIOUS
<1>1. ASSUME NEW r \in Requests, Start(r) \/ FirstOp(r) PROVE IInv'
      BY <1>1, StartKeeps, FirstOpKeeps
<1>2. ASSUME NEW c \in Contexts, Issue(c) \/ WskAnswers(c) \/ WskCancels(c) PROVE IInv'
      BY <1>2, IssueKeeps, WskAnswersKeeps, WskCancelsKeeps
<1>3. ASSUME NEW c \in Contexts, Completion(c) PROVE IInv'
      BY <1>3, DisarmPendingKeeps, DisarmExpiredKeeps, CallbackKeeps, CompletionReleasesKeeps DEF Completion
<1>4. ASSUME NEW c \in Contexts, Watchdog(c) PROVE IInv'
      BY <1>4, TimerExpiresKeeps, DpcMarksKeeps, DpcCancelsKeeps, DpcReleasesKeeps DEF Watchdog
<1>5. CASE DrainStart \/ UnloadDone \/ Unloaded \/ UNCHANGED vars
      BY <1>5, UnloadKeeps DEF DrainStart, UnloadDone, Unloaded, vars, context
<1> QED BY <1>1, <1>2, <1>3, <1>4, <1>5 DEF Next

-----------------------------------------------------------------------------
\* The references of every context are owned by its operation and its
\* watchdog, whatever the interleaving of SocketAsyncCompletionRoutine and
\* SocketAsyncTimeoutDpc.
THEOREM ReferencesAreOwned == Spec => []IInv
<1>1. Init => IInv
      BY InitEstablishes
<1>2. IInv /\ [Next]_vars => IInv'
      BY NextKeeps
<1> QED BY <1>1, <1>2, PTL DEF Spec

\* Neither the completion routine nor the watchdog's DPC touches a context
\* that was freed or became another operation's, and none is leaked.
THEOREM SharedSafely == Spec => []ContextIsShared
<1>1. IInv => ContextIsShared
      BY DEF IInv, Typed, Sound, References, Completing, Watched, ContextIsShared
<1> QED BY <1>1, ReferencesAreOwned, PTL

\* SocketDisarmTimeout never reports a cancellation: whoever cancels has set
\* TimedOut first.
THEOREM TimeoutsAreReported == Spec => []CancelIsTimeout
<1>1. IInv => CancelIsTimeout
      BY DEF IInv
<1> QED BY <1>1, ReferencesAreOwned, PTL
=============================================================================
