------------------------------ MODULE PathCache ------------------------------
(***************************************************************************)
(* The path cache, the listing cache and the change feed that invalidates  *)
(* both (PathCache.c, ChangeFeed.c), with their users: an open that        *)
(* resolves a path (Create.c), a directory query that fetches a listing,   *)
(* publishes it and seeds the path cache from it (DirCtrl.c), and a file   *)
(* control block (FCB) stamped with the ticket its size was read under.    *)
(*                                                                         *)
(* What the server says is abstracted to how much of its history it        *)
(* reflects: log is every change the server has numbered, and a value read *)
(* from it is asOf, the number of changes it accounts for; a size and its  *)
(* write time are that one number.  A section under a bucket lock is one   *)
(* step, except a publish, which meets the byte counter every bucket       *)
(* shares and holds its lock over several.  What a lookup or an insert     *)
(* reads before it takes the lock is read in steps of its own: the clock   *)
(* and the lifetime, then the generation.  A resident FCB's ticket is      *)
(* judged with no lock, one read a step.                                   *)
(***************************************************************************)
EXTENDS Integers, Sequences, SequencesExt, FiniteSets

CONSTANTS Paths,        \* paths below the root
          Root,         \* the volume root, a directory that is always there
          Dirs,         \* the paths that are directories, Root included
          Parent,       \* [Paths -> Dirs]
          Under,        \* Under[d] is the set of paths at or beneath d (PathCacheIsUnder)
          Buckets,      \* the path cache's buckets, a sequence
          BucketOf,     \* [Paths -> Buckets]
          ListingBuckets, ListingBucketOf, \* [Dirs -> ListingBuckets]
          MaxPerBucket, \* PATH_CACHE_MAX_PER_BUCKET
          ListingMaxPerBucket, \* LISTING_CACHE_MAX_PER_BUCKET
          ListingMax,   \* LISTING_CACHE_MAX_BYTES, a listing being one unit
          StructuralMax, \* CHANGE_FEED_PRECISE_STRUCTURAL_MAX
          TTL, FeedTTL, Grace,
          Openers, Listers, Feeder, \* the threads; Feeder is the change feed's
          Scenes,       \* who is at work together, and what the server does meanwhile
          OpenPaths, ListDirs, \* what each opener opens, each lister lists
          Subtree,      \* whether a fetch asks for the subtree
          MaxTime, MaxSequence, \* bounds
          None

ASSUME PathCacheAssumption ==
  /\ Root \in Dirs /\ Root \notin Paths /\ Dirs \subseteq Paths \cup {Root}
  /\ Parent \in [Paths -> Dirs]
  /\ Under \in [Paths \cup {Root} -> SUBSET Paths]
  /\ \A d \in Paths \cup {Root}, p \in Paths :
       p \in Under[d] <=> p = d \/ d = Root \/ Parent[p] \in Under[d]
  /\ 0 < TTL /\ TTL <= FeedTTL
  /\ \A s \in Scenes :
       /\ s.threads \subseteq Openers \cup Listers \cup {Feeder}
       /\ s.changes \in Seq([path : Paths, kind : {"modified", "structural"}])
       /\ s.fails \in BOOLEAN     \* a poll may fail
       /\ s.restarts \in BOOLEAN  \* one after the first may be answered with a reset
  /\ OpenPaths \in [Openers -> SUBSET Paths] /\ ListDirs \in [Listers -> SUBSET Dirs]

VARIABLES
  now,            \* KeQueryInterruptTime
  log,            \* the server's numbered changes
  coming,         \* the changes the server has yet to make
  reported,       \* the last number the server sent
  Sequence, Generation, ChangeFeedLive,
  Entries,        \* path cache: bucket -> sequence of entries
  Listings,       \* listing cache: bucket -> sequence of entries
  ListingBytes,   \* the bytes charged to the listing budget, a listing being one
  Fcb,            \* the FCB of each file path, or None
  feed,           \* the change-feed thread
  Covered,        \* history variable: the change number the feed vouches for
  th              \* openers and listers

vars == <<now, log, coming, reported, Sequence, Generation, ChangeFeedLive, Entries, Listings, ListingBytes,
          Fcb, feed, Covered, th>>
cache == <<Sequence, Generation, ChangeFeedLive, Entries, Listings, ListingBytes>>
outside == <<now, log, coming, reported, feed, Covered>>

Threads == Openers \cup Listers
Files == Paths \ Dirs
Children(d) == {p \in Paths : Parent[p] = d}

-----------------------------------------------------------------------------
(* What the server's history says.                                         *)

\* Change c is one of path p: p itself, or a structural change above it.
Touches(c, p) == c.path = p \/ (c.kind = "structural" /\ p \in Under[c.path])

\* Change c is one of the listing of d: d itself or something directly in
\* it, or a structural change above d.
TouchesListing(c, d) ==
  \/ c.path = d
  \/ Parent[c.path] = d
  \/ c.kind = "structural" /\ d \in Under[c.path]

\* Whether p is there after n changes: each structural change of p or of a
\* directory above it creates what was gone or removes what was there.
Present(p, n) ==
  \A q \in Paths : p \in Under[q] =>
    Cardinality({i \in 1..n : log[i].path = q /\ log[i].kind = "structural"}) % 2 = 0

Fresh(p, asOf, upto) == \A i \in (asOf + 1)..upto : ~Touches(log[i], p)
FreshListing(d, asOf, upto) == \A i \in (asOf + 1)..upto : ~TouchesListing(log[i], d)
SameMeta(p, a, b) == \A i \in 1..Len(log) : (a < i) # (b < i) => ~Touches(log[i], p)

-----------------------------------------------------------------------------
(* Entries.                                                                *)

Lifetime == IF ChangeFeedLive THEN FeedTTL ELSE TTL
Floor == IF ChangeFeedLive THEN Covered ELSE 0

PathCacheAge(issue, t) == IF t > issue THEN t - issue ELSE 0

PathCacheEntryLive(e, t, gen, life) ==
  /\ PathCacheAge(e.issue, t) < (IF e.exists THEN life ELSE TTL)
  /\ e.gen = gen

ListingCacheEntryLive(e, t, gen, life) ==
  /\ e.gen = gen
  /\ PathCacheAge(e.issue, t) < life + Grace

TicketHonoured(ticket) == ticket.seq = Sequence

NoTicket == [seq |-> 0, issue |-> 0]
TakeTicket == [seq |-> Sequence, issue |-> now]
TicketOf(e) == [seq |-> e.seq, issue |-> e.issue]

Idle == [pc |-> "idle", path |-> None, ticket |-> NoTicket, asOf |-> 0,
         nostore |-> FALSE, subtree |-> FALSE, now |-> 0, life |-> 0, floor |-> 0, gen |-> 0, reap |-> 0, todo |-> <<>>]

Init ==
  /\ now = 1
  /\ log = <<>>
  /\ reported = 0
  /\ Sequence = 0 /\ Generation = 0 /\ ChangeFeedLive = FALSE
  /\ Entries = [b \in Range(Buckets) |-> <<>>]
  /\ Listings = [b \in Range(ListingBuckets) |-> <<>>]
  /\ ListingBytes = 0
  /\ Fcb = [p \in Files |-> None]
  /\ Covered = 0
  /\ \E s \in Scenes :
       /\ coming = s.changes
       /\ th = [t \in Threads |-> IF t \in s.threads THEN Idle ELSE [Idle EXCEPT !.pc = "away"]]
       /\ feed = [pc |-> IF Feeder \in s.threads THEN "poll" ELSE "away", epoch |-> 0, since |-> 0,
                  batch |-> None, todo |-> <<>>, fails |-> s.fails, restarts |-> s.restarts]

-----------------------------------------------------------------------------
(* The server: a change, the passing of time.                              *)

ServerChanges ==
  /\ coming # <<>>
  /\ log' = Append(log, Head(coming))
  /\ coming' = Tail(coming)
  /\ UNCHANGED <<now, reported, cache, Fcb, feed, Covered, th>>

Tick ==
  /\ now < MaxTime
  /\ now' = now + 1
  /\ UNCHANGED <<log, coming, reported, cache, Fcb, feed, Covered, th>>

-----------------------------------------------------------------------------
(* The change feed.  An invalidation is a sequence of sections, each under *)
(* one bucket's lock, and the feed thread runs them one at a time.         *)

Advance == [op |-> "advance"]
Sweep(b, gone) == [op |-> "sweep", bucket |-> b, gone |-> gone]
Drop(b, gone) == [op |-> "drop", bucket |-> b, gone |-> gone]

ListingCacheDropUnder(gone) ==
  [i \in 1..Len(ListingBuckets) |-> Drop(ListingBuckets[i], gone)]
ListingCacheDropParent(p) == <<Drop(ListingBucketOf[Parent[p]], {Parent[p]})>>
PathCacheInvalidateUnder(gone) == [i \in 1..Len(Buckets) |-> Sweep(Buckets[i], gone)]

PathCacheInvalidate(p) ==
  <<Advance, Sweep(BucketOf[p], {p})>>
  \o (IF p \in Dirs THEN <<Drop(ListingBucketOf[p], {p})>> ELSE <<>>)
  \o ListingCacheDropParent(p)

\* Mutant: the listings beneath the path are kept.
PathCacheInvalidatePrefix_keepsListings(d) ==
  <<Advance>> \o PathCacheInvalidateUnder(Under[d]) \o ListingCacheDropParent(d)

PathCacheInvalidatePrefix(d) ==
  <<Advance>> \o PathCacheInvalidateUnder(Under[d]) \o ListingCacheDropUnder(Under[d])
  \o ListingCacheDropParent(d)

PathCacheInvalidateAll ==
  <<Advance, [op |-> "bump"]>> \o ListingCacheDropUnder(Dirs)

\* Mutant: the flag goes up before the flush.
PathCacheFollowFeed_flagFirst(live) ==
  IF live THEN <<[op |-> "live"]>> \o PathCacheInvalidateAll ELSE <<[op |-> "down"]>>

PathCacheFollowFeed(live) ==
  IF live THEN PathCacheInvalidateAll \o <<[op |-> "live"]>> ELSE <<[op |-> "down"]>>

ChangeFeedApply(changes) ==
  IF Len(SelectSeq(changes, LAMBDA c : c.kind = "structural")) > StructuralMax
  THEN PathCacheInvalidateAll
  ELSE FlattenSeq([i \in 1..Len(changes) |->
         IF changes[i].kind = "modified" THEN PathCacheInvalidate(changes[i].path)
         ELSE PathCacheInvalidatePrefix(changes[i].path)])

\* The server answers the long poll: with what it numbered since the number
\* the poll names, or with a reset when the poll names no process of it (0)
\* or one that has since restarted, or a number it no longer has the changes
\* since.
ServerAnswersPoll ==
  /\ feed.pc = "poll"
  /\ Sequence < MaxSequence
  /\ \E reset \in BOOLEAN :
       /\ feed.epoch = 0 => reset
       /\ reset => feed.epoch = 0 \/ feed.restarts
       /\ feed' = [feed EXCEPT !.pc = "answered",
            !.batch = [epoch |-> 1, reset |-> reset, number |-> Len(log),
                       changes |-> IF reset THEN <<>> ELSE SubSeq(log, feed.since + 1, Len(log))]]
  /\ reported' = Len(log)
  /\ UNCHANGED <<now, log, coming, cache, Fcb, Covered, th>>

\* A poll that fails, before the server sees it or on the way back.
PollFails ==
  /\ feed.fails
  /\ feed.pc \in {"poll", "answered"}
  /\ feed' = [feed EXCEPT !.pc = "apply", !.epoch = 0, !.since = 0, !.batch = None,
                          !.todo = PathCacheFollowFeed(FALSE)]
  /\ UNCHANGED <<now, log, coming, reported, cache, Fcb, Covered, th>>

ChangeFeedReceive ==
  /\ feed.pc = "answered"
  /\ feed' = [feed EXCEPT !.pc = "apply",
       !.todo = IF feed.batch.reset \/ feed.batch.epoch # feed.epoch
                THEN PathCacheFollowFeed(TRUE) ELSE ChangeFeedApply(feed.batch.changes)]
  /\ UNCHANGED <<now, log, coming, reported, cache, Fcb, Covered, th>>

\* ListingCacheRemoveEntry for every entry of bucket b but those in kept:
\* unlinked and uncharged.
ListingCacheKeep(b, kept) ==
  /\ Listings' = [Listings EXCEPT ![b] = kept]
  /\ ListingBytes' = ListingBytes - (Len(Listings[b]) - Len(kept))

\* The directory whose listing t offers: the one it asked for, or a
\* descendant that came with the answer.
Offered(t) == IF th[t].todo = <<>> THEN th[t].path ELSE Head(th[t].todo).path

\* A publish holds the lock of listing bucket b from its first look at the
\* list to its charge.
Locked(b) ==
  \E t \in Listers : /\ th[t].pc \in {"fits", "evict", "charge", "takeBack"}
                     /\ ListingBucketOf[Offered(t)] = b

RunSection(s) ==
  /\ Sequence' = IF s.op = "advance" THEN Sequence + 1 ELSE Sequence
  /\ Generation' = IF s.op = "bump" THEN Generation + 1 ELSE Generation
  /\ ChangeFeedLive' = (s.op = "live" \/ (s.op # "down" /\ ChangeFeedLive))
  /\ Entries' = IF s.op # "sweep" THEN Entries
       ELSE [Entries EXCEPT ![s.bucket] = SelectSeq(@, LAMBDA e : e.path \notin s.gone)]
  /\ IF s.op # "drop" THEN UNCHANGED <<Listings, ListingBytes>>
     ELSE /\ ~Locked(s.bucket)
          /\ ListingCacheKeep(s.bucket, SelectSeq(Listings[s.bucket], LAMBDA e : e.path \notin s.gone))

ChangeFeedSection ==
  /\ feed.pc = "apply" /\ feed.todo # <<>>
  /\ RunSection(Head(feed.todo))
  /\ feed' = [feed EXCEPT !.todo = Tail(@)]
  /\ Covered' = CASE Head(feed.todo).op = "live" -> feed.batch.number
                  [] Head(feed.todo).op = "down" -> 0
                  [] OTHER -> Covered
  /\ UNCHANGED <<now, log, coming, reported, Fcb, th>>

ChangeFeedApplied ==
  /\ feed.pc = "apply" /\ feed.todo = <<>>
  /\ IF feed.batch = None
     THEN feed' = [feed EXCEPT !.pc = "poll"] /\ UNCHANGED Covered
     ELSE /\ feed' = [feed EXCEPT !.pc = "poll", !.epoch = feed.batch.epoch,
                                  !.since = feed.batch.number, !.batch = None]
          /\ Covered' = feed.batch.number
  /\ UNCHANGED <<now, log, coming, reported, cache, Fcb, th>>

-----------------------------------------------------------------------------
(* Lookups.  The clock and the lifetime are read first, then the           *)
(* generation, then the bucket under its lock.                             *)

\* The reads a lookup makes before it looks at the generation.
ReadLifetime(r) == [r EXCEPT !.now = now, !.life = Lifetime, !.floor = Floor]

EntryAt(p) == SelectSeq(Entries[BucketOf[p]], LAMBDA e : e.path = p)
ListingAt(d) == SelectSeq(Listings[ListingBucketOf[d]], LAMBDA e : e.path = d)

\* What PathCacheFind and LookupListing return for a thread that has made
\* its reads: a set of at most one entry.
Found(t) ==
  {e \in Range(EntryAt(th[t].path)) : PathCacheEntryLive(e, th[t].now, th[t].gen, th[t].life)}
FoundListing(t, d) ==
  {e \in Range(ListingAt(d)) : ListingCacheEntryLive(e, th[t].now, th[t].gen, th[t].life)}
StaleFor(t, e) == PathCacheAge(e.issue, th[t].now) >= th[t].life

\* Mutant: the open takes a ticket now, as if it had asked the server.
Resolve_ticketNow(r, e) == [r EXCEPT !.ticket = TakeTicket, !.asOf = e.asOf,
                           !.now = 0, !.life = 0, !.floor = 0, !.gen = 0]

\* The open takes what e says, under the ticket e was read under.
Resolve(r, e) == [r EXCEPT !.ticket = TicketOf(e), !.asOf = e.asOf,
                           !.now = 0, !.life = 0, !.floor = 0, !.gen = 0]
Forget(r) == [r EXCEPT !.now = 0, !.life = 0, !.floor = 0, !.gen = 0]

LookupReads(t, from, to) ==
  /\ th[t].pc = from
  /\ th' = [th EXCEPT ![t] = [ReadLifetime(@) EXCEPT !.pc = to]]
  /\ UNCHANGED <<outside, cache, Fcb>>

\* The step each lookup goes on to once it has the generation.
Looks == [findGen |-> "find", peekGen |-> "peekFind", probeGen |-> "probe", queryGen |-> "query"]

ReadGeneration(t) ==
  /\ th[t].pc \in DOMAIN Looks
  /\ th' = [th EXCEPT ![t].gen = Generation, ![t].pc = Looks[@]]
  /\ UNCHANGED <<outside, cache, Fcb>>

\* An open of a path with no resident FCB starts with the path cache.  A
\* resident FCB some handle has open answers as it is; any other is judged
\* by CreateFcbIsCurrent first.
OpenStart(t) ==
  /\ th[t].pc = "idle"
  /\ \E p \in OpenPaths[t] :
       th' = [th EXCEPT ![t] =
         IF p \in Files /\ Fcb[p] # None
         THEN [@ EXCEPT !.path = p, !.pc = IF Fcb[p].open THEN "warm" ELSE "stampSeq"]
         ELSE [ReadLifetime(@) EXCEPT !.path = p, !.pc = "findGen"]]
  /\ UNCHANGED <<outside, cache, Fcb>>

\* CreateFcbIsCurrent asks the FCB's own stamp first, and
\* BlorgPathCacheTicketCurrent reads what it compares the stamp with one after
\* the other, under no lock: the sequence, the clock, the lifetime.  With the
\* stamp the open sees the size it vouches for, and up to which change; it
\* vouches for none when the refresh that put it there was deferred.
StampSequence(t) ==
  /\ th[t].pc = "stampSeq"
  /\ LET f == Fcb[th[t].path] IN
     th' = [th EXCEPT ![t] = IF f.ticket.issue # 0 /\ f.ticket.seq = Sequence
              THEN [@ EXCEPT !.ticket = f.ticket, !.asOf = f.asOf,
                             !.floor = IF f.deferred THEN 0 ELSE Floor, !.pc = "stampClock"]
              ELSE [@ EXCEPT !.pc = "peek"]]
  /\ UNCHANGED <<outside, cache, Fcb>>

StampClock(t) ==
  /\ th[t].pc = "stampClock"
  /\ th' = [th EXCEPT ![t].now = now, ![t].pc = "stampLife"]
  /\ UNCHANGED <<outside, cache, Fcb>>

YoungStamp(t) == PathCacheAge(th[t].ticket.issue, th[t].now) < Lifetime

StampLifetime(t) ==
  /\ th[t].pc = "stampLife"
  /\ th' = [th EXCEPT ![t] = [Idle EXCEPT !.path = th[t].path, !.pc = IF YoungStamp(t) THEN "warm" ELSE "peek"]]
  /\ UNCHANGED <<outside, cache, Fcb>>

\* Then BlorgPathCachePeek, a lookup like any other: the FCB is trusted while
\* a live entry has its size and write time.
PeekAgrees(t) ==
  \E e \in Found(t) : e.exists /\ SameMeta(th[t].path, e.asOf, Fcb[th[t].path].asOf)

PeekFind(t) ==
  /\ th[t].pc = "peekFind"
  /\ th' = [th EXCEPT ![t] = [Forget(@) EXCEPT !.pc = IF PeekAgrees(t) THEN "warm" ELSE "stale"]]
  /\ UNCHANGED <<outside, cache, Fcb>>

\* An open with data access counts in the FCB's share access, one without
\* does not.
OpenFcb(f, data) == [f EXCEPT !.open = @ \/ data]

OpenWarm(t) ==
  /\ th[t].pc = "warm"
  /\ \E data \in BOOLEAN : Fcb' = [Fcb EXCEPT ![th[t].path] = OpenFcb(@, data)]
  /\ th' = [th EXCEPT ![t] = Idle]
  /\ UNCHANGED <<outside, cache>>

\* The last handle with data access is cleaned up.
LastCleanup(p) ==
  /\ Fcb[p] # None /\ Fcb[p].open
  /\ Fcb' = [Fcb EXCEPT ![p].open = FALSE]
  /\ UNCHANGED <<outside, cache, th>>

\* PathCacheFind: a live entry resolves the open or fails it; a miss goes on
\* to the parent's cached listing.
OpenFind(t) ==
  /\ th[t].pc = "find"
  /\ IF Found(t) = {} THEN th' = [th EXCEPT ![t] = [Forget(@) EXCEPT !.pc = "missed"]]
     ELSE \E e \in Found(t) :
            th' = [th EXCEPT ![t] = IF e.exists THEN [Resolve(@, e) EXCEPT !.pc = "resolved"] ELSE Idle]
  /\ UNCHANGED <<outside, cache, Fcb>>

\* The parent's listing, fresh ones only, answers with its own ticket and is
\* inserted under it; with no listing the open goes to the server.
OpenProbe(t) ==
  /\ th[t].pc = "probe"
  /\ ~Locked(ListingBucketOf[Parent[th[t].path]])
  /\ LET hit == {e \in FoundListing(t, Parent[th[t].path]) : ~StaleFor(t, e)} IN
     IF hit = {} THEN th' = [th EXCEPT ![t] = [Forget(@) EXCEPT !.pc = "fetch"]]
     ELSE \E e \in hit : th' = [th EXCEPT ![t] = [Resolve(@, e) EXCEPT !.pc = "insertReads"]]
  /\ UNCHANGED <<outside, cache, Fcb>>

\* The ticket is taken and the request issued.
FetchIssue(t) ==
  /\ th[t].pc = "fetch"
  /\ th' = [th EXCEPT ![t].ticket = TakeTicket, ![t].pc = "wait"]
  /\ UNCHANGED <<outside, cache, Fcb>>

\* What becomes of an answer.  A listing marked no-store is not published.
Answered(r, t) ==
  IF t \in Openers THEN [r EXCEPT !.pc = "insertReads"]
  ELSE IF r.nostore THEN Idle ELSE [r EXCEPT !.pc = "publishReads"]

\* The server's answer reflects at least every change it has reported, or is
\* marked no-store.
ServerReads(t) ==
  /\ th[t].pc = "wait"
  /\ \E n \in 0..Len(log), ns \in BOOLEAN :
       /\ n < reported => ns
       /\ th' = [th EXCEPT ![t] = Answered([@ EXCEPT !.asOf = n, !.nostore = ns], t)]
  /\ UNCHANGED <<outside, cache, Fcb>>

FetchFails(t) ==
  /\ th[t].pc = "wait"
  /\ th' = [th EXCEPT ![t] = Idle]
  /\ UNCHANGED <<outside, cache, Fcb>>

-----------------------------------------------------------------------------
(* Inserting a path's result.                                              *)

Subject(t) == IF t \in Openers THEN th[t].path ELSE Head(th[t].todo).path

\* Whether the answer says the path is there.  A not-found carries no
\* metadata and so no no-store mark: it is cached whatever the mark says.
Exists(t) == Present(Subject(t), th[t].asOf)

\* A lister goes on with what is left to do, if anything is.
Seeding(r) == IF r.todo = <<>> THEN Idle ELSE [r EXCEPT !.pc = "seed"]
SeedsNext(t, op) == th[t].pc = "seed" /\ Head(th[t].todo).op = op

AfterInsert(t) ==
  IF t \in Listers THEN Seeding([Forget(th[t]) EXCEPT !.todo = Tail(@)])
  ELSE IF Exists(t)
       THEN [Forget(th[t]) EXCEPT !.pc = "resolved",
                                  !.ticket = IF th[t].nostore THEN NoTicket ELSE @]
       ELSE Idle

InsertReads(t) ==
  /\ th[t].pc = "insertReads" \/ SeedsNext(t, "insert")
  /\ th' = [th EXCEPT ![t] = IF th[t].nostore /\ Exists(t) THEN AfterInsert(t)
              ELSE [@ EXCEPT !.now = now, !.life = Lifetime, !.gen = Generation, !.pc = "insert"]]
  /\ UNCHANGED <<outside, cache, Fcb>>

\* The bucket after an honoured insert of e: refreshed in place, the dead
\* entries before it reaped; or appended, every dead entry reaped and the
\* oldest evicted from a full bucket.
Inserted(q, e, t) ==
  LET live(x) == PathCacheEntryLive(x, th[t].now, th[t].gen, th[t].life)
      at == {i \in 1..Len(q) : q[i].path = e.path}
      kept == SelectSeq(q, live)
      room == IF Len(kept) >= MaxPerBucket THEN Tail(kept) ELSE kept
  IN IF at = {} THEN Append(room, e)
     ELSE LET i == CHOOSE i \in at : TRUE IN
          SelectSeq(SubSeq(q, 1, i - 1), live) \o <<e>> \o SubSeq(q, i + 1, Len(q))

InsertEntry(t) ==
  [path |-> Subject(t), exists |-> Exists(t), seq |-> th[t].ticket.seq,
   issue |-> th[t].ticket.issue, gen |-> th[t].gen, asOf |-> th[t].asOf]

PathCacheInsert(t) ==
  /\ th[t].pc = "insert"
  /\ Entries' = IF TicketHonoured(th[t].ticket)
                THEN [Entries EXCEPT ![BucketOf[Subject(t)]] = Inserted(@, InsertEntry(t), t)]
                ELSE Entries
  /\ th' = [th EXCEPT ![t] = AfterInsert(t)]
  /\ UNCHANGED <<outside, Sequence, Generation, ChangeFeedLive, Listings, ListingBytes, Fcb>>

\* The cold path: a new FCB takes the metadata and its ticket; a resident
\* one is refreshed by CreateFcbRefresh, which keeps the old contents (and
\* takes the ticket all the same) while anything still holds the old pages.
CreateFcbRefresh(f, p, t, held) ==
  LET stamped == [f EXCEPT !.ticket = th[t].ticket]
  IN IF SameMeta(p, th[t].asOf, f.asOf)
     THEN [stamped EXCEPT !.asOf = IF th[t].asOf > @ THEN th[t].asOf ELSE @, !.deferred = FALSE]
     ELSE IF f.open \/ held THEN [stamped EXCEPT !.deferred = TRUE]
     ELSE [stamped EXCEPT !.asOf = th[t].asOf, !.deferred = FALSE]

OpenResolved(t) ==
  /\ th[t].pc = "resolved"
  /\ LET p == th[t].path IN
     IF p \notin Files THEN UNCHANGED Fcb
     ELSE \E data \in BOOLEAN, held \in BOOLEAN :
            Fcb' = [Fcb EXCEPT ![p] = OpenFcb(
                      IF @ = None
                      THEN [asOf |-> th[t].asOf, ticket |-> th[t].ticket, deferred |-> FALSE, open |-> FALSE]
                      ELSE CreateFcbRefresh(@, p, t, held), data)]
  /\ th' = [th EXCEPT ![t] = Idle]
  /\ UNCHANGED <<outside, cache>>

-----------------------------------------------------------------------------
(* A directory query, and the publish of what it fetched.                  *)

QueryStart(t) ==
  /\ th[t].pc = "idle"
  /\ \E d \in ListDirs[t] :
       th' = [th EXCEPT ![t] = [ReadLifetime(@) EXCEPT !.path = d, !.pc = "queryGen"]]
  /\ UNCHANGED <<outside, cache, Fcb>>

\* LookupListing with AllowStale: a fresh snapshot answers; a stale one
\* answers too, and the first to see it stale owes the refetch; a miss
\* fetches.  A refetch asks for no subtree.
QueryFind(t) ==
  /\ th[t].pc = "query"
  /\ ~Locked(ListingBucketOf[th[t].path])
  /\ LET d == th[t].path
         b == ListingBucketOf[d]
         hit == FoundListing(t, d)
         owed == \E e \in hit : StaleFor(t, e) /\ ~e.claimed
     IN /\ Listings' = IF ~owed THEN Listings
             ELSE [Listings EXCEPT ![b] = [i \in 1..Len(@) |->
                     IF @[i].path = d THEN [@[i] EXCEPT !.claimed = TRUE] ELSE @[i]]]
        /\ th' = [th EXCEPT ![t] =
             IF hit = {} THEN [Forget(@) EXCEPT !.pc = "fetch", !.subtree = Subtree]
             ELSE IF owed THEN [Forget(@) EXCEPT !.pc = "fetch"] ELSE Idle]
  /\ UNCHANGED <<outside, Sequence, Generation, ChangeFeedLive, Entries, ListingBytes, Fcb>>

\* What is left to do once the listing of th[t].path has been offered: seed
\* the path cache if it was current, then publish each descendant's listing.
SeedTodo(t) ==
  LET d == th[t].path
      deep == Under[d] \ {d}
      kids == {p \in Children(d) : Present(p, th[t].asOf)}
      gone == IF ChangeFeedLive THEN Children(d) ELSE deep
  IN PathCacheInvalidateUnder(gone)
     \o [i \in 1..Cardinality(kids) |-> [op |-> "insert", path |-> SetToSeq(kids)[i]]]

DescendantsTodo(t) ==
  LET below == {e \in Dirs : e \in Under[th[t].path] /\ e # th[t].path /\ Present(e, th[t].asOf)}
  IN IF th[t].subtree
     THEN [i \in 1..Cardinality(below) |-> [op |-> "publish", path |-> SetToSeq(below)[i]]] ELSE <<>>

\* The clock, the lifetime and the generation, and a first look at the byte
\* counter: with no room left the dead listings of every bucket are reaped.
PublishReads(t) ==
  /\ th[t].pc = "publishReads" \/ SeedsNext(t, "publish")
  /\ LET over == ListingBytes + 1 > ListingMax IN
     th' = [th EXCEPT ![t].now = now, ![t].life = Lifetime, ![t].gen = Generation,
                      ![t].reap = IF over THEN Len(ListingBuckets) ELSE 0,
                      ![t].pc = IF over THEN "reap" ELSE "publish"]
  /\ UNCHANGED <<outside, cache, Fcb>>

LiveListings(t, b) ==
  SelectSeq(Listings[b], LAMBDA e : ListingCacheEntryLive(e, th[t].now, th[t].gen, th[t].life))

\* One bucket's turn, under its lock.
ListingCacheReapDead(t) ==
  /\ th[t].pc = "reap"
  /\ LET b == ListingBuckets[Len(ListingBuckets) - th[t].reap + 1] IN
     ~Locked(b) /\ ListingCacheKeep(b, LiveListings(t, b))
  /\ th' = [th EXCEPT ![t].reap = @ - 1, ![t].pc = IF th[t].reap = 1 THEN "publish" ELSE @]
  /\ UNCHANGED <<outside, Sequence, Generation, ChangeFeedLive, Entries, Fcb>>

\* Mutant: whichever fetch completes last wins.
Newer_never(t, d, live) == FALSE

\* The listing of d already cached comes from a fetch issued later.
Newer(t, d, live) == \E e \in Range(live) : e.path = d /\ e.issue > th[t].ticket.issue

\* What follows a publish: the next thing to seed or, for the listing that was
\* asked for, the seed it licenses by being current.
Published(t, current) ==
  IF th[t].todo # <<>> THEN Seeding([Forget(th[t]) EXCEPT !.todo = Tail(@)])
  ELSE IF current THEN [Forget(th[t]) EXCEPT !.pc = "seedStart"]
  ELSE Seeding([Forget(th[t]) EXCEPT !.todo = DescendantsTodo(t)])

\* PublishListing takes the bucket lock.  The listing is refused when its
\* ticket has been overtaken or a later-issued listing of the directory is
\* cached; otherwise it is current, replaces the cached one, and the lock
\* stays held while room is made for it.
PathCachePublishListing(t) ==
  /\ th[t].pc = "publish"
  /\ LET d == Offered(t)
         b == ListingBucketOf[d]
         live == LiveListings(t, b)
     IN /\ ~Locked(b)
        /\ \/ /\ ~TicketHonoured(th[t].ticket)
              /\ th' = [th EXCEPT ![t] = Published(t, FALSE)]
              /\ UNCHANGED <<Listings, ListingBytes>>
           \/ /\ TicketHonoured(th[t].ticket) /\ Newer(t, d, live)
              /\ th' = [th EXCEPT ![t] = Published(t, FALSE)]
              /\ ListingCacheKeep(b, live)
           \/ /\ TicketHonoured(th[t].ticket) /\ ~Newer(t, d, live)
              /\ th' = [th EXCEPT ![t].pc = "fits"]
              /\ ListingCacheKeep(b, SelectSeq(live, LAMBDA e : e.path # d))
  /\ UNCHANGED <<outside, Sequence, Generation, ChangeFeedLive, Entries, Fcb>>

\* Unless emptying the bucket would still leave no room, a full bucket gives
\* up its oldest listing, and then as many as the counter says are needed,
\* which it looks at again before each.
PublishFits(t) ==
  /\ th[t].pc = "fits"
  /\ LET b == ListingBucketOf[Offered(t)]
         q == Listings[b]
         fits == ListingBytes - Len(q) + 1 <= ListingMax
     IN /\ IF fits /\ Len(q) >= ListingMaxPerBucket THEN ListingCacheKeep(b, Tail(q))
           ELSE UNCHANGED <<Listings, ListingBytes>>
        /\ th' = [th EXCEPT ![t].pc = IF fits THEN "evict" ELSE "charge"]
  /\ UNCHANGED <<outside, Sequence, Generation, ChangeFeedLive, Entries, Fcb>>

PublishEvicts(t) ==
  /\ th[t].pc = "evict"
  /\ LET b == ListingBucketOf[Offered(t)]
         q == Listings[b]
     IN IF ListingBytes + 1 > ListingMax /\ q # <<>>
        THEN ListingCacheKeep(b, Tail(q)) /\ UNCHANGED th
        ELSE th' = [th EXCEPT ![t].pc = "charge"] /\ UNCHANGED <<Listings, ListingBytes>>
  /\ UNCHANGED <<outside, Sequence, Generation, ChangeFeedLive, Entries, Fcb>>

PublishedEntry(t) ==
  [path |-> Offered(t), seq |-> th[t].ticket.seq, issue |-> th[t].ticket.issue, gen |-> th[t].gen,
   asOf |-> th[t].asOf, claimed |-> FALSE]
Insert(t) ==
  Listings' = [Listings EXCEPT ![ListingBucketOf[Offered(t)]] = Append(@, PublishedEntry(t))]


\* The charge: one interlocked add, whose sum is tested, and which another
\* takes back when the sum is over.
ListingCacheCharge(t) ==
  /\ \/ /\ th[t].pc = "charge"
        /\ ListingBytes' = ListingBytes + 1
        /\ IF ListingBytes + 1 <= ListingMax
           THEN Insert(t) /\ th' = [th EXCEPT ![t] = Published(t, TRUE)]
           ELSE UNCHANGED Listings /\ th' = [th EXCEPT ![t].pc = "takeBack"]
     \/ /\ th[t].pc = "takeBack"
        /\ ListingBytes' = ListingBytes - 1
        /\ UNCHANGED Listings
        /\ th' = [th EXCEPT ![t] = Published(t, TRUE)]
  /\ UNCHANGED <<outside, Sequence, Generation, ChangeFeedLive, Entries, Fcb>>

SeedStart(t) ==
  /\ th[t].pc = "seedStart"
  /\ th' = [th EXCEPT ![t] = Seeding([@ EXCEPT !.todo = SeedTodo(t) \o DescendantsTodo(t)])]
  /\ UNCHANGED <<outside, cache, Fcb>>

\* The seed's sweep, one bucket at a time; its inserts and the descendants'
\* publishes follow.
SeedSweep(t) ==
  /\ SeedsNext(t, "sweep")
  /\ RunSection(Head(th[t].todo))
  /\ th' = [th EXCEPT ![t] = Seeding([@ EXCEPT !.todo = Tail(@)])]
  /\ UNCHANGED <<outside, Fcb>>

-----------------------------------------------------------------------------
Feed == ServerAnswersPoll \/ PollFails \/ ChangeFeedReceive \/ ChangeFeedSection \/ ChangeFeedApplied

Opening(t) ==
  \/ OpenStart(t) \/ StampSequence(t) \/ StampClock(t) \/ StampLifetime(t)
  \/ LookupReads(t, "peek", "peekGen") \/ PeekFind(t) \/ OpenWarm(t)
  \/ LookupReads(t, "stale", "findGen") \/ OpenFind(t)
  \/ LookupReads(t, "missed", "probeGen") \/ OpenProbe(t) \/ OpenResolved(t)

Listing(t) ==
  \/ QueryStart(t) \/ QueryFind(t) \/ PublishReads(t) \/ ListingCacheReapDead(t)
  \/ PathCachePublishListing(t) \/ PublishFits(t) \/ PublishEvicts(t) \/ ListingCacheCharge(t)
  \/ SeedStart(t) \/ SeedSweep(t)

Either(t) ==
  ReadGeneration(t) \/ FetchIssue(t) \/ ServerReads(t) \/ FetchFails(t) \/ InsertReads(t) \/ PathCacheInsert(t)

Next ==
  \/ ServerChanges \/ Tick \/ Feed
  \/ \E t \in Openers : Opening(t)
  \/ \E t \in Listers : Listing(t)
  \/ \E t \in Threads : Either(t)
  \/ \E p \in Files : LastCleanup(p)

Spec == Init /\ [][Next]_vars

-----------------------------------------------------------------------------
(* Properties.                                                             *)

\* What the feed vouches for reaches every hit: while the feed is live, an
\* open that a live path entry says exists, or that a listing answers, is
\* never answered from before a change the driver had applied when it read
\* the lifetime.  The argument of BlorgPathCacheTakeTicket and
\* BlorgPathCacheFollowFeed (PathCache.c).
ServedIsFresh ==
  \A t \in Threads :
    /\ th[t].pc = "find" =>
         \A e \in Found(t) : e.exists => Fresh(e.path, e.asOf, th[t].floor)
    /\ th[t].pc = "probe" =>
         \A e \in FoundListing(t, Parent[th[t].path]) : FreshListing(e.path, e.asOf, th[t].floor)
    /\ th[t].pc = "query" =>
         \A e \in FoundListing(t, th[t].path) : FreshListing(e.path, e.asOf, th[t].floor)

\* An open that trusts a closed resident FCB gets the size that every change
\* the driver had applied left it with: by its stamp, the changes applied when
\* the open read the sequence, unless the refresh that stamped it was deferred
\* because something still held the old pages; by a peek, those applied when it
\* read the lifetime (CreateFcbIsCurrent, BlorgPathCacheTicketCurrent).
WarmOpenIsFresh ==
  \A t \in Openers :
    LET p == th[t].path IN
    /\ th[t].pc = "stampLife" /\ YoungStamp(t) =>
         Fresh(p, th[t].asOf, th[t].floor)
    /\ th[t].pc = "peekFind" /\ PeekAgrees(t) => Fresh(p, Fcb[p].asOf, th[t].floor)

Cached == Cardinality(UNION {{<<b, i>> : i \in 1..Len(Listings[b])} : b \in DOMAIN Listings})


\* Two fetches of one directory complete in either order: a publish never
\* takes a listing of the current generation out of the cache to put in
\* another of that generation whose fetch was issued earlier
\* (BlorgPathCachePublishListing).
LaterListingWins ==
  [][\A t \in Listers : th[t].pc = "publish" /\ th'[t].pc = "fits" /\ th[t].gen = Generation =>
       \A e \in Range(ListingAt(Offered(t))) : e.gen = Generation => e.issue <= th[t].ticket.issue]_vars
=============================================================================
