------------------------------- MODULE DirCtrl -------------------------------
(***************************************************************************)
(* Directory queries on one handle (DirCtrl.c): each takes the directory's *)
(* resource, the first and every restart scan set the handle's pattern and *)
(* drop its snapshot, a query that finds no snapshot takes the cached      *)
(* listing or fetches one, and every query enumerates the snapshot from    *)
(* the handle's index.                                                     *)
(*                                                                         *)
(* A snapshot is a reference-counted listing, abstracted to its identity   *)
(* and its number of entries.  Query slots issue the queries, two at a     *)
(* time where the caller does; what the cache holds, what the network      *)
(* answers and how much fits the caller's buffer are choices.              *)
(***************************************************************************)
EXTENDS Integers, FiniteSets

CONSTANTS Queries,    \* the query IRPs there may be at once
          Snapshots,  \* identities of DIRECTORY_INFO blocks
          Total,      \* entries of every listing
          MaxCalls,   \* bound on the queries issued
          None

ASSUME DirCtrlAssumption ==
  /\ Total \in Nat \ {0} /\ MaxCalls \in Nat
  /\ None \notin Snapshots /\ None \notin Queries

VARIABLES
  ccb,      \* [pattern, entries, index]: SearchPattern or MATCH_ALL set, Entries, CurrentIndex
  refs,     \* RefCount of each snapshot, 0 for one that is freed
  cached,   \* the listing cache's snapshot of the directory
  resource, \* [owner, sharers] of the DCB's ERESOURCE
  q,        \* where each query is
  refresh,  \* whether a background refresh is in flight
  calls,    \* queries issued
  closed,
  counted,  \* history variable: the snapshot the index was advanced in
  failed    \* history variable: a search pattern could not be allocated

vars == <<ccb, refs, cached, resource, q, refresh, calls, closed, counted, failed>>
history == <<counted, failed>>

Idle == [pc |-> "idle", restart |-> FALSE, initial |-> FALSE, wait |-> FALSE, inFsp |-> FALSE,
         netDone |-> FALSE, owed |-> FALSE, snap |-> None, index |-> 0]

Init ==
  /\ ccb = [pattern |-> FALSE, entries |-> None, index |-> 0]
  /\ refs = [s \in Snapshots |-> 0]
  /\ cached = None
  /\ resource = [owner |-> None, sharers |-> {}]
  /\ q = [i \in Queries |-> Idle]
  /\ refresh = FALSE /\ calls = 0 /\ closed = FALSE
  /\ counted = None /\ failed = FALSE

-----------------------------------------------------------------------------
(* References and the resource.                                            *)

\* BlorgReleaseDirectoryInfo, which ignores NULL.
Released(R, s) == IF s = None THEN R ELSE [R EXCEPT ![s] = @ - 1]
Referenced(R, s) == IF s = None THEN R ELSE [R EXCEPT ![s] = @ + 1]

Exclusive(i) == [owner |-> i, sharers |-> {}]
Shared(i) == [owner |-> None, sharers |-> resource.sharers \cup {i}]
Free(i) == [owner |-> IF resource.owner = i THEN None ELSE resource.owner, sharers |-> resource.sharers \ {i}]
NobodyHolds == resource.owner = None /\ resource.sharers = {}

Completed(i) == q' = [q EXCEPT ![i] = Idle]

-----------------------------------------------------------------------------
(* A query's passes: in the caller's thread, on an FSP thread once posted, *)
(* and on an FSP thread again once its fetch is done.                      *)

\* initialQuery is sampled before the resource is held.
Entered(r) == [r EXCEPT !.initial = ~ccb.pattern, !.pc = "acquire"]

\* BlorgDirectoryControl: the IRP arrives, with IRP_CONTEXT_FLAG_WAIT if the
\* operation is synchronous.
BlorgDirectoryControl(i) ==
  /\ q[i].pc = "idle" /\ ~closed /\ calls < MaxCalls
  /\ \E restart, wait \in BOOLEAN :
       q' = [q EXCEPT ![i] = Entered([Idle EXCEPT !.restart = restart, !.wait = wait])]
  /\ calls' = calls + 1
  /\ UNCHANGED <<ccb, refs, cached, resource, refresh, closed, history>>

\* An FSP thread takes a posted query; it may wait for the resource.
FspPass(i) ==
  /\ q[i].pc = "posted"
  /\ q' = [q EXCEPT ![i] = Entered([@ EXCEPT !.inFsp = TRUE, !.wait = TRUE])]
  /\ UNCHANGED <<ccb, refs, cached, resource, refresh, calls, closed, history>>

\* Mutant: a query that finds the pattern set shares the resource, restart
\* scan or not.
Acquired_shares(i) == IF q[i].initial /\ ~ccb.pattern THEN Exclusive(i) ELSE Shared(i)

\* The resource as the query holds it once it has looked at the pattern
\* again: shared by one that is neither the initial query nor a restart.
Acquired(i) == IF q[i].restart \/ (q[i].initial /\ ~ccb.pattern) THEN Exclusive(i) ELSE Shared(i)

\* Mutant: the scan position survives a restart.
Rewound_not(i) == ccb

\* A restart scan that finds the pattern set rewinds the handle.
Rewound(i) == IF q[i].restart /\ (~q[i].initial \/ ccb.pattern) THEN [ccb EXCEPT !.index = 0] ELSE ccb

\* Whether the query sets the pattern and takes a new snapshot.
Anew(i) == (q[i].restart \/ (q[i].initial /\ ~ccb.pattern)) /\ ~q[i].netDone

Acquire(i) ==
  /\ q[i].pc = "acquire"
  /\ IF q[i].initial \/ q[i].restart THEN NobodyHolds ELSE resource.owner = None
  /\ resource' = Acquired(i)
  /\ ccb' = Rewound(i)
  /\ q' = [q EXCEPT ![i].pc = IF Anew(i) THEN "clear" ELSE "look"]
  /\ UNCHANGED <<refs, cached, refresh, calls, closed, history>>

\* The resource is not to be had and the query may not wait: it is posted.
CannotWait(i) ==
  /\ q[i].pc = "acquire" /\ ~q[i].wait
  /\ IF q[i].initial \/ q[i].restart THEN ~NobodyHolds ELSE resource.owner # None
  /\ q' = [q EXCEPT ![i].pc = "posted"]
  /\ UNCHANGED <<ccb, refs, cached, resource, refresh, calls, closed, history>>

\* The old pattern goes first: a query that samples now believes itself the
\* initial one.
ClearPattern(i) ==
  /\ q[i].pc = "clear"
  /\ ccb' = [ccb EXCEPT !.pattern = FALSE]
  /\ q' = [q EXCEPT ![i].pc = "set"]
  /\ UNCHANGED <<refs, cached, resource, refresh, calls, closed, history>>

\* The new pattern is set and the handle's snapshot dropped.
SetPattern(i) ==
  /\ q[i].pc = "set"
  /\ ccb' = [ccb EXCEPT !.pattern = TRUE, !.entries = None]
  /\ refs' = Released(refs, ccb.entries)
  /\ q' = [q EXCEPT ![i].pc = "look"]
  /\ UNCHANGED <<cached, resource, refresh, calls, closed, history>>

\* RtlUpcaseUnicodeString fails: the query fails with the pattern cleared.
PatternFails(i) ==
  /\ q[i].pc = "set"
  /\ resource' = Free(i)
  /\ Completed(i)
  /\ failed' = TRUE
  /\ UNCHANGED <<ccb, refs, cached, refresh, calls, closed, counted>>

\* The handle has a snapshot, or the listing cache has one, perhaps stale;
\* a miss is posted, or fetched if this is an FSP thread.
Look(i) ==
  /\ q[i].pc = "look"
  /\ IF ccb.entries # None
     THEN q' = [q EXCEPT ![i].pc = "enumerate"] /\ UNCHANGED <<refs, resource>>
     ELSE IF cached # None
     THEN /\ \E owed \in BOOLEAN :
               /\ owed => ~refresh /\ \A j \in Queries : ~q[j].owed
               /\ q' = [q EXCEPT ![i].pc = "install", ![i].snap = cached, ![i].owed = owed]
          /\ refs' = Referenced(refs, cached)
          /\ UNCHANGED resource
     ELSE /\ q' = [q EXCEPT ![i].pc = IF q[i].inFsp THEN "fetch" ELSE "posted"]
          /\ resource' = Free(i)
          /\ UNCHANGED refs
  /\ UNCHANGED <<ccb, cached, refresh, calls, closed, history>>

\* The first to install wins; the loser drops its reference.
DirCtrlInstallSnapshot(i) ==
  /\ q[i].pc = "install"
  /\ IF ccb.entries = None
     THEN ccb' = [ccb EXCEPT !.entries = q[i].snap] /\ UNCHANGED refs
     ELSE refs' = Released(refs, q[i].snap) /\ UNCHANGED ccb
  /\ q' = [q EXCEPT ![i].pc = "enumerate", ![i].snap = None]
  /\ UNCHANGED <<cached, resource, refresh, calls, closed, history>>

\* The index the enumeration starts from is read, and then entries are
\* copied out of ccb->Entries, which the loop reads again for each.
EnumerateFrom(i) ==
  /\ q[i].pc = "enumerate"
  /\ q' = [q EXCEPT ![i].pc = "copy", ![i].index = ccb.index, ![i].snap = ccb.entries]
  /\ UNCHANGED <<ccb, refs, cached, resource, refresh, calls, closed, history>>

\* Some entries, matched or passed over, are gone through; the index is
\* stored, unless the query named its own or the copy failed.  With no
\* pattern nothing matches and all are passed over.
DirCtrlEnumerateDirectoryEntries(i) ==
  /\ q[i].pc = "copy"
  /\ \/ UNCHANGED <<ccb, counted>>
     \/ \E to \in q[i].index..Total :
          /\ ~ccb.pattern => to = Total
          /\ ccb' = [ccb EXCEPT !.index = to]
          /\ counted' = ccb.entries
  /\ resource' = Free(i)
  /\ refresh' = (refresh \/ q[i].owed)
  /\ Completed(i)
  /\ UNCHANGED <<refs, cached, calls, closed, failed>>

-----------------------------------------------------------------------------
(* The foreground fetch.                                                   *)

\* A listing comes into being with the reference of who asked for it, and
\* the cache takes it, in place of the one it has, or refuses it.
Published(s, extra) ==
  \/ /\ cached' = s
     /\ refs' = Released([refs EXCEPT ![s] = 1 + extra], cached)
  \/ cached' = cached /\ refs' = [refs EXCEPT ![s] = extra]

New == CHOOSE s \in Snapshots : refs[s] = 0

\* DirCtrlFetch and its answer: the request succeeds and is published ...
FetchAnswered(i) ==
  /\ q[i].pc = "fetch"
  /\ Published(New, 1)
  /\ q' = [q EXCEPT ![i].pc = "fetched", ![i].snap = New]
  /\ UNCHANGED <<ccb, resource, refresh, calls, closed, history>>

\* ... or fails, or cannot be issued, and the query with it.
FetchFails(i) ==
  /\ q[i].pc = "fetch"
  /\ Completed(i)
  /\ UNCHANGED <<ccb, refs, cached, resource, refresh, calls, closed, history>>

\* Mutant: the query is queued again as if it had not been answered.
DirCtrlComplete_notDone(i) ==
  /\ q[i].pc = "fetched" /\ NobodyHolds
  /\ IF ccb.entries = None
     THEN ccb' = [ccb EXCEPT !.entries = q[i].snap] /\ UNCHANGED refs
     ELSE refs' = Released(refs, q[i].snap) /\ UNCHANGED ccb
  /\ q' = [q EXCEPT ![i].pc = "posted", ![i].snap = None]
  /\ UNCHANGED <<cached, resource, refresh, calls, closed, history>>

\* DirCtrlComplete, the resource held exclusive for its one test: the listing
\* becomes the handle's snapshot unless it has one, and the query is queued
\* again with NET_DONE, or failed if the queue is closed.
DirCtrlComplete(i) ==
  /\ q[i].pc = "fetched" /\ NobodyHolds
  /\ IF ccb.entries = None
     THEN ccb' = [ccb EXCEPT !.entries = q[i].snap] /\ UNCHANGED refs
     ELSE refs' = Released(refs, q[i].snap) /\ UNCHANGED ccb
  /\ \/ q' = [q EXCEPT ![i].pc = "posted", ![i].snap = None, ![i].netDone = TRUE]
     \/ Completed(i)
  /\ UNCHANGED <<cached, resource, refresh, calls, closed, history>>

-----------------------------------------------------------------------------
(* The listing cache and the handle.                                       *)

\* DirCtrlRefreshComplete: published for the queries to come, or failed.
DirCtrlRefreshComplete ==
  /\ refresh /\ refresh' = FALSE
  /\ Published(New, 0) \/ UNCHANGED <<refs, cached>>
  /\ UNCHANGED <<ccb, resource, q, calls, closed, history>>

\* The cached listing expires, is evicted or is invalidated.
CacheDrops ==
  /\ cached # None
  /\ cached' = None /\ refs' = Released(refs, cached)
  /\ UNCHANGED <<ccb, resource, q, refresh, calls, closed, history>>

\* The last reference to the file object is gone, its queries with it.
FreeCcb ==
  /\ ~closed /\ \A i \in Queries : q[i].pc = "idle"
  /\ closed' = TRUE
  /\ ccb' = [pattern |-> FALSE, entries |-> None, index |-> 0]
  /\ refs' = Released(refs, ccb.entries)
  /\ UNCHANGED <<cached, resource, q, refresh, calls, history>>

Closed == closed /\ UNCHANGED vars

-----------------------------------------------------------------------------
Step(i) ==
  \/ FspPass(i) \/ Acquire(i) \/ CannotWait(i) \/ ClearPattern(i) \/ SetPattern(i) \/ PatternFails(i)
  \/ Look(i) \/ DirCtrlInstallSnapshot(i) \/ EnumerateFrom(i) \/ DirCtrlEnumerateDirectoryEntries(i)
  \/ FetchAnswered(i) \/ FetchFails(i) \/ DirCtrlComplete(i)

Next ==
  \/ \E i \in Queries : BlorgDirectoryControl(i) \/ Step(i)
  \/ DirCtrlRefreshComplete \/ CacheDrops \/ FreeCcb \/ Closed

Spec == Init /\ [][Next]_vars

\* A query's thread runs on, and every request is answered or fails.
FairSpec == Spec /\ \A i \in Queries : WF_vars(Step(i))

-----------------------------------------------------------------------------
(* Properties.                                                             *)

Ind(P) == IF P THEN 1 ELSE 0

\* A snapshot lives exactly as long as someone refers to it, and the one
\* being enumerated stays the handle's, referenced, until the enumeration
\* has let go of the resource: no racing restart scan, installer or fetch
\* completion replaces it, and no query finds the handle without one.
SnapshotIsHeld ==
  /\ \A s \in Snapshots :
       refs[s] = Ind(ccb.entries = s) + Ind(cached = s)
                 + Cardinality({i \in Queries : q[i].pc \in {"install", "fetched"} /\ q[i].snap = s})
  /\ \A i \in Queries : q[i].pc = "enumerate" => ccb.entries # None
  /\ \A i \in Queries : q[i].pc = "copy" => ccb.entries = q[i].snap /\ refs[q[i].snap] > 0

\* An enumeration in progress never sees entries move under its index: the
\* index counts entries of the snapshot the handle has.  A handle whose
\* pattern could not be set is excepted: it is left with no pattern, its old
\* snapshot and an index that a query already waiting for the resource
\* advances.
IndexCountsInSnapshot == ~failed /\ ccb.index # 0 => ccb.entries = counted

\* Every query is completed, however often it is posted, finds its snapshot
\* dropped by a racing restart scan, or has to fetch one.
EveryQueryEnds == <>[](\A i \in Queries : q[i].pc = "idle")
=============================================================================
