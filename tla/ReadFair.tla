------------------------------ MODULE ReadFair ------------------------------
(***************************************************************************)
(* Admission of network fetches to the shared link (Read.c, ReadFair), and *)
(* the life of a non-cached read around it: the disk cache serves it whole *)
(* or in part, it is admitted or held, released from a work item, fetched, *)
(* refetched when the disk cache could not finish it, settled once.        *)
(*                                                                         *)
(* The spin lock is held across one step.  A read is an IRP that arrives   *)
(* once; what the disk cache and the network answer is a choice.           *)
(***************************************************************************)
EXTENDS Integers, Sequences, FiniteSets, FiniteSetsExt, SequencesExt

CONSTANTS Reads,
          Files, FileOf, \* [Reads -> Files]
          Length,        \* [Reads -> Nat], Parameters.Read.Length
          ReadAhead,     \* the speculative reads: those that may be held for the budget
          MaxFetches,    \* READ_FAIR_MAX_FETCHES
          Budget,        \* global.ReadFairBudget, 0 for none
          MaxRuns        \* most runs a partly held read lacks

ASSUME ReadFairAssumption ==
  /\ FileOf \in [Reads -> Files] /\ Length \in [Reads -> Nat \ {0}]
  /\ ReadAhead \subseteq Reads
  /\ MaxFetches \in Nat \ {0} /\ Budget \in Nat /\ MaxRuns \in Nat

VARIABLES
  fair,      \* the ReadFair block and the nodes' share of it
  pc,        \* where each read is
  start,     \* DriverContext[1] of a held read
  admitted,  \* the reads with IRP_CONTEXT_FLAG_FETCH_ADMITTED
  runs,      \* the runs the disk cache said a read lacks
  extra,     \* fetches a started disk read reserved and issued beside its own
  spare      \* fetches reserved that the issuing thread has yet to give back

vars == <<fair, pc, start, admitted, runs, extra, spare>>

Init ==
  /\ fair = [bytes |-> 0, fetches |-> 0, time |-> 0, held |-> <<>>, waiting |-> <<>>,
             inFlight |-> [f \in Files |-> 0], finish |-> [f \in Files |-> 0]]
  /\ pc = [r \in Reads |-> "new"]
  /\ start = [r \in Reads |-> 0]
  /\ admitted = {}
  /\ runs = [r \in Reads |-> 0]
  /\ extra = [r \in Reads |-> 0]
  /\ spare = [r \in Reads |-> 0]

Goto(r, label) == pc' = [pc EXCEPT ![r] = label]

-----------------------------------------------------------------------------
(* Under the lock.                                                         *)

MayHold(r) == r \in ReadAhead /\ pc[r] \in {"admit", "hold"}

ReadFairMustHold(r) ==
  \/ MayHold(r) /\ Budget # 0 /\ fair.bytes >= Budget /\ fair.inFlight[FileOf[r]] # 0
  \/ fair.fetches >= MaxFetches

\* What an admission at start tag s charges.
Charge(S, r, s) ==
  [S EXCEPT !.time = IF s > @ THEN s ELSE @, !.bytes = @ + Length[r], !.fetches = @ + 1,
            !.inFlight[FileOf[r]] = @ + 1]

\* The read ReadFairAdmitHeld admits next: waiting demand in arrival order,
\* else the held read with the lowest start tag, the first of equals, among
\* those there is room for or whose file has nothing in flight.
Eligible(S) ==
  {i \in 1..Len(S.held) : S.bytes < Budget \/ S.inFlight[FileOf[S.held[i]]] = 0}
\* Mutant: the highest start tag first.
Lowest_highest(S) ==
  CHOOSE i \in Eligible(S) : \A j \in Eligible(S) :
    start[S.held[i]] > start[S.held[j]] \/ (start[S.held[i]] = start[S.held[j]] /\ i <= j)
Lowest(S) ==
  CHOOSE i \in Eligible(S) : \A j \in Eligible(S) :
    start[S.held[i]] < start[S.held[j]] \/ (start[S.held[i]] = start[S.held[j]] /\ i <= j)

RECURSIVE ReadFairAdmitHeld(_)
ReadFairAdmitHeld(S) ==
  IF S.fetches >= MaxFetches \/ (S.waiting = <<>> /\ Eligible(S) = {}) THEN S
  ELSE IF S.waiting # <<>>
  THEN ReadFairAdmitHeld([Charge(S, Head(S.waiting), start[Head(S.waiting)]) EXCEPT !.waiting = Tail(@)])
  ELSE LET i == Lowest(S) IN
       ReadFairAdmitHeld([Charge(S, S.held[i], start[S.held[i]]) EXCEPT !.held = RemoveAt(@, i)])

InLists(S) == Range(S.held) \cup Range(S.waiting)

\* The lock is released in state S after admitting held reads; what was
\* admitted is flagged and its work item queued.  Read r goes to label, or
\* stays put.
Release(S, r, label, flags) ==
  LET T == ReadFairAdmitHeld(S)
      let_go == InLists(S) \ InLists(T)
  IN /\ fair' = T
     /\ admitted' = flags \cup let_go
     /\ start' = [x \in Reads |-> IF x \in let_go THEN 0 ELSE start[x]]
     /\ pc' = [x \in Reads |-> IF x \in let_go THEN "released" ELSE IF x = r THEN label ELSE pc[x]]

\* ReadFairSettle: a read that was never admitted settles nothing.
ReadFairSettle(r, label) ==
  IF r \notin admitted THEN Goto(r, label) /\ UNCHANGED <<fair, admitted, start>>
  ELSE Release([fair EXCEPT !.bytes = @ - Length[r], !.fetches = @ - 1,
                            !.inFlight[FileOf[r]] = @ - 1], r, label, admitted \ {r})

ReadFairGiveBack(r, n, label) ==
  IF n = 0 THEN Goto(r, label) /\ UNCHANGED <<fair, admitted, start>>
  ELSE Release([fair EXCEPT !.fetches = @ - n], r, label, admitted)

-----------------------------------------------------------------------------
(* A read's steps.                                                         *)

\* BlorgVolumeRead offers the read to the disk cache, which takes it whole
\* or says how many runs it lacks (0 when it holds none of it).
Arrive(r) ==
  /\ pc[r] = "new"
  /\ \/ Goto(r, "disk") /\ UNCHANGED runs
     \/ \E n \in 0..MaxRuns : runs' = [runs EXCEPT ![r] = n] /\ Goto(r, "admit")
  /\ UNCHANGED <<fair, start, admitted, extra, spare>>

\* The admission itself, at either of the two times the lock is taken.
Admit(r, onward, hold) ==
  LET f == FileOf[r]
      s == IF fair.finish[f] > fair.time THEN fair.finish[f] ELSE fair.time
      S == [fair EXCEPT !.finish[f] = s + Length[r]]
  IN IF hold
     THEN /\ fair' = IF MayHold(r) THEN [S EXCEPT !.held = Append(@, r)]
                     ELSE [S EXCEPT !.waiting = Append(@, r)]
          /\ start' = [start EXCEPT ![r] = s]
          /\ Goto(r, "held")
          /\ UNCHANGED admitted
     ELSE /\ fair' = Charge(S, r, s)
          /\ admitted' = admitted \cup {r}
          /\ Goto(r, onward)
          /\ UNCHANGED start

\* ReadFairAdmit, first look: admitted at once, or to be held, which needs a
\* work item allocated outside the lock.
AdmitLook(r) ==
  /\ pc[r] \in {"admit", "readmit"}
  /\ IF ReadFairMustHold(r)
     THEN Goto(r, IF pc[r] = "admit" THEN "hold" ELSE "rehold") /\ UNCHANGED <<fair, start, admitted>>
     ELSE Admit(r, IF pc[r] = "admit" THEN "go" ELSE "issue", FALSE)
  /\ UNCHANGED <<runs, extra, spare>>

\* Mutant: holds on the answer of the first look.
AdmitAgain_stale(r) ==
  /\ pc[r] \in {"hold", "rehold"}
  /\ Admit(r, IF pc[r] = "hold" THEN "go" ELSE "issue", TRUE)
  /\ UNCHANGED <<runs, extra, spare>>

\* The work item allocated, the lock decides again.
AdmitAgain(r) ==
  /\ pc[r] \in {"hold", "rehold"}
  /\ Admit(r, IF pc[r] = "hold" THEN "go" ELSE "issue", ReadFairMustHold(r))
  /\ UNCHANGED <<runs, extra, spare>>

\* No work item: the read fails, charged with nothing.
AdmitNoWorkItem(r) ==
  /\ pc[r] \in {"hold", "rehold"}
  /\ Goto(r, "done")
  /\ UNCHANGED <<fair, start, admitted, runs, extra, spare>>

\* ReadFairWorker: a released read whose file has since shrunk is done; any
\* other is offered to the disk cache again.
ReadFairWorker(r) ==
  /\ pc[r] = "released"
  /\ \/ ReadFairSettle(r, "done") /\ UNCHANGED runs
     \/ Goto(r, "disk") /\ UNCHANGED <<fair, start, admitted, runs>>
     \/ \E n \in 0..MaxRuns : runs' = [runs EXCEPT ![r] = n] /\ Goto(r, "go") /\ UNCHANGED <<fair, start, admitted>>
  /\ UNCHANGED <<extra, spare>>

\* ReadFromDiskCache reserves a fetch for every run but the first, as far as
\* the limit leaves room.
ReadFairReserve(r) ==
  /\ pc[r] = "go" /\ runs[r] # 0
  /\ LET room == IF fair.fetches < MaxFetches THEN MaxFetches - fair.fetches ELSE 0
         n == IF runs[r] - 1 < room THEN runs[r] - 1 ELSE room
     IN /\ fair' = [fair EXCEPT !.fetches = @ + n]
        /\ spare' = [spare EXCEPT ![r] = n]
  /\ runs' = [runs EXCEPT ![r] = 0]
  /\ Goto(r, "offer")
  /\ UNCHANGED <<start, admitted, extra>>

\* The cache starts the read with some of the fetches it was given, or
\* declines it.
DiskCacheStarts(r) ==
  /\ pc[r] = "offer"
  /\ \E n \in 0..spare[r] :
       /\ extra' = [extra EXCEPT ![r] = n]
       /\ spare' = [spare EXCEPT ![r] = @ - n]
  /\ Goto(r, "disk")
  /\ UNCHANGED <<fair, start, admitted, runs>>

\* Mutant: a declined read keeps its reservation.
DiskCacheDeclines_keeps(r) ==
  /\ pc[r] = "offer"
  /\ Goto(r, "issue")
  /\ spare' = [spare EXCEPT ![r] = 0]
  /\ UNCHANGED <<fair, admitted, start, runs, extra>>

DiskCacheDeclines(r) ==
  /\ pc[r] = "offer"
  /\ ReadFairGiveBack(r, spare[r], "issue")
  /\ spare' = [spare EXCEPT ![r] = 0]
  /\ UNCHANGED <<runs, extra>>

\* The issuing thread gives back what the cache did not issue, while the
\* read may already be completing.
GiveBackSpare(r) ==
  /\ pc[r] # "offer" /\ spare[r] # 0
  /\ ReadFairGiveBack(r, spare[r], pc[r])
  /\ spare' = [spare EXCEPT ![r] = 0]
  /\ UNCHANGED <<runs, extra>>

\* ReadDiskComplete: first the fetches beyond the first go back.
ReadDiskComplete(r) ==
  /\ pc[r] = "disk"
  /\ ReadFairGiveBack(r, extra[r], "diskEnd")
  /\ extra' = [extra EXCEPT ![r] = 0]
  /\ UNCHANGED <<runs, spare>>

\* Then the read succeeds or fails and is settled, or is to be fetched whole.
ReadDiskSettle(r) ==
  /\ pc[r] = "diskEnd"
  /\ ReadFairSettle(r, "done")
  /\ UNCHANGED <<runs, extra, spare>>

ReadRefetch(r) ==
  /\ pc[r] = "diskEnd"
  /\ Goto(r, "refetch")
  /\ UNCHANGED <<fair, start, admitted, runs, extra, spare>>

\* Mutant: a read the disk cache could not finish is offered to it again.
ReadRefetchWorker_fromDiskCache(r) ==
  /\ pc[r] = "refetch"
  /\ Goto(r, "disk")
  /\ UNCHANGED <<fair, start, admitted, runs, extra, spare>>

\* ReadRefetchWorker: past the end of the file, the read is done; a read
\* never admitted is admitted now, as demand.
ReadRefetchWorker(r) ==
  /\ pc[r] = "refetch"
  /\ \/ ReadFairSettle(r, "done")
     \/ Goto(r, IF r \in admitted THEN "issue" ELSE "readmit") /\ UNCHANGED <<fair, start, admitted>>
  /\ UNCHANGED <<runs, extra, spare>>

ReadIssueFetch(r) ==
  /\ pc[r] = "issue" \/ (pc[r] = "go" /\ runs[r] = 0)
  /\ Goto(r, "fetch")
  /\ UNCHANGED <<fair, start, admitted, runs, extra, spare>>

\* The fetch completes or fails (ReadComplete), or could not be issued.
ReadComplete(r) ==
  /\ pc[r] = "fetch"
  /\ ReadFairSettle(r, "done")
  /\ UNCHANGED <<runs, extra, spare>>

Step(r) ==
  \/ AdmitLook(r) \/ AdmitAgain(r) \/ AdmitNoWorkItem(r) \/ ReadFairWorker(r) \/ ReadFairReserve(r)
  \/ DiskCacheStarts(r) \/ DiskCacheDeclines(r) \/ ReadDiskComplete(r) \/ ReadDiskSettle(r) \/ ReadRefetch(r)
  \/ ReadRefetchWorker(r) \/ ReadIssueFetch(r) \/ ReadComplete(r)

AllDone == (\A r \in Reads : pc[r] = "done" /\ spare[r] = 0) /\ UNCHANGED vars

Next == AllDone \/ \E r \in Reads : Arrive(r) \/ Step(r) \/ GiveBackSpare(r)

\* A thread, work item or completion that can go on does; a disk read whose
\* refetches are issued ends.
Fairness == \A r \in Reads : WF_vars(Step(r) \/ GiveBackSpare(r))

Spec == Init /\ [][Next]_vars
FairSpec == Spec /\ Fairness

-----------------------------------------------------------------------------
(* Properties.                                                             *)

Total(g, S) == FoldSet(LAMBDA r, n : g[r] + n, 0, S)

\* What the link and the files are charged with is what the admitted reads
\* and the reservations amount to, whichever of ReadComplete, a failed
\* issue, ReadDiskComplete or the thread that reserved settles first; a
\* completed read is charged with nothing, and a held read is on one list.
\* So no unsigned counter wraps; and never more than READ_FAIR_MAX_FETCHES
\* are in flight, whatever is admitted while ReadFairAdmit allocates a work
\* item or a partly held read fetches its runs.
ChargesAreExact ==
  /\ fair.bytes = Total(Length, admitted)
  /\ fair.fetches = Cardinality(admitted) + Total(extra, Reads) + Total(spare, Reads)
  /\ \A f \in Files : fair.inFlight[f] = Cardinality({r \in admitted : FileOf[r] = f})
  /\ \A r \in Reads : pc[r] = "done" => r \notin admitted /\ extra[r] = 0
  /\ {r \in Reads : pc[r] = "held"} = InLists(fair)
  /\ Len(fair.held) + Len(fair.waiting) = Cardinality(InLists(fair))
  /\ fair.fetches <= MaxFetches

\* No read waits for room there is.  Demand waits only at the fetch limit;
\* below it read-ahead is held only past the budget, and only for a file
\* that has a fetch in flight, whose settling will look at it again.
NoWaitWithRoom ==
  fair.fetches < MaxFetches =>
    /\ fair.waiting = <<>>
    /\ \A r \in Range(fair.held) : fair.bytes >= Budget /\ fair.inFlight[FileOf[r]] # 0

\* The reads a step admits as read-ahead, at once or from the held list.
AdmittedAhead == {r \in (admitted' \ admitted) \cap ReadAhead : pc[r] \in {"admit", "hold"} \/ r \in Range(fair.held)}

Before(l, x, y) == \E i, j \in 1..Len(l) : i < j /\ l[i] = x /\ l[j] = y

\* Read-ahead is never admitted past demand that waits, nor past an earlier
\* read-ahead of its file that stays held: not from the held list by its
\* start tag, and not by arriving just as a fetch settles.
AdmittedInOrder ==
  [][/\ AdmittedAhead # {} => fair'.waiting = <<>>
     /\ \A r \in AdmittedAhead, h \in Range(fair.held) \cap Range(fair'.held) :
          FileOf[r] = FileOf[h] => Before(fair.held, r, h)]_vars

\* Every read that arrives completes: one held, for the budget or for the
\* limit, is released by some settling.  A read arrives once, so this says
\* that in the end none is left between its arrival and its completion.
EveryReadEnds == <>[](\A r \in Reads : pc[r] \in {"new", "done"})
=============================================================================
