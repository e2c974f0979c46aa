# A TLA+ model of BlorgFS

BlorgFS is a Windows kernel-mode driver that presents an HTTP server's files as
a read-only volume. An open resolves a path (node table, path cache, network), a
directory query enumerates a snapshot of a listing, a read is served by the Cache
Manager, a local disk cache or the network, and everything asynchronous runs on
WSK completions, work items, timers' DPCs and a pool of worker threads. What is
hard to test in it is the order in which those run. The modules here model that
order; the bytes they move are abstracted away.

`PROJECT.json` lists the runs, the definitions and the source lines each
translates, the hazards, and one mutant (a plausible bug) per property that the
property's run catches.

## Parts and modules

| Part of the driver | Source | Module |
|---|---|---|
| Node table, reference and pin counts, deferred reaping, volume teardown | Structs.c, Create.c, Close.c, Cleanup.c | `NodeTable`, proofs in `NodeTableInvariant` and `NodeTable*Proofs` |
| Disk cache index (chains, clock, ghosts) | DiskCacheIndex.c | `DiskCacheIndex` |
| Disk cache (reads, fills, cleanup) | DiskCache.c | `DiskCache`, which extends and refines `DiskCacheIndex` |
| Path cache, listing cache, change feed, trust in a resident FCB | PathCache.c, ChangeFeed.c, Create.c | `PathCache` |
| Fair admission of fetches | Read.c | `ReadFair` |
| FSP worker queue | FspWorkQueue.c and the handlers that post to it | `FspWorkQueue` |
| Socket pre-warm | Socket.c | `SocketPrewarm` |
| Socket operations, watchdogs, unload | Socket.c, Client.c, Driver.c | `SocketAsync`, proofs in `SocketAsyncProofs` |
| HTTP client and connection pool | Client.c, Socket.c | `HttpClient`, which implements `FetchService` (the promise in Client.h) |
| Directory queries | DirCtrl.c | `DirCtrl` |

The parts meet at narrow interfaces, and each module models its side of them in
full and the other side as a choice. The disk cache and its index are composed
outright: `DiskCache` calls the index's operators, and the index's own
specification is a property of it. `HttpClient` relies on every operation in
flight ending, which is what `SocketAsync` shows; `ReadFair` and `DirCtrl` rely on
every fetch being answered exactly once, which is `FetchService`;
`FspWorkQueue` relies on network completions only through the IRPs they hand
back; `PathCache` takes a fetch as a request and, later, an answer.

### How state and actions correspond to the code

Variables and definitions keep the source's names. A step is what the code does
atomically with respect to its other threads: one interlocked access, one section
under a lock, or one stretch between two operations it issues. Some conventions:

* **NodeTable.** A count is the set of its owners, since the code only tests
  counts for zero. A section under a bucket lock held exclusive is one step; one
  under the shared lock is split at each access. `VcbOwner` is the VCB resource.
  An open is warm (`BlorgNodeTableLookupPin`, then a reference, then the unpin)
  or cold (search, insert along the path, publish). A drop that finds a node
  unused claims it (`OnReapList`) and pushes it; the worker takes the list,
  retires what is still unused and walks up the empty ancestors.
* **DiskCacheIndex.** Every operation holds `Index->Lock` and is one step. Which
  held blocks a read is served (`BlorgDiskCacheIndexPlanRead`) is a choice.
* **DiskCache.** A read wants a set of blocks; its parts are reads of slots and
  fetches. `Data` is whose bytes each slot of the file holds, `Torn` while a
  write changes them.
* **PathCache.** A value the server returned is `asOf`, the number of the server's
  changes it reflects. An invalidation takes one bucket lock per step. Reads made
  before a lock (clock, lifetime, generation) are steps of their own. A publish
  holds its bucket's lock over several steps, because `ListingBytes`, the byte
  counter all buckets share, is read and changed by others meanwhile: the look
  that decides on a reap, the test whether the bucket can make room, each
  eviction, the interlocked charge and its taking back. A resident FCB's stamp is
  judged with no lock, in the order of `BlorgPathCacheTicketCurrent`: the sequence,
  the clock, the lifetime, a step each. What the server says after a restart is a
  new history.
* **ReadFair.** `fair` is the block under the spin lock. `ReadFairAdmitHeld` is a
  loop in the code and a recursive operator here. A read's start tag is forgotten
  when it is released, since nothing reads it again.
* **FspWorkQueue.** `dc1` and `dc3` are the two `DriverContext` slots the queue and
  the handlers share. A handler is how its pass may end: completed, parked with
  the oplock package, handed to the network. It is assumed, as the comment at
  FspWorkQueue.c:440 says, that no dispatch routine posts while the
  threads are being stopped; the oplock package may.
* **SocketPrewarm.** The five words of the pre-warm and the threads that run its
  code; a connect may complete inline or on another thread.
* **SocketAsync.** A context of the lookaside list may be reused at once. A
  request is a chain of operations. `unloaded` is `BlorgDriverUnload` returned.
  WSK is trusted to let deregistration finish only when no completion
  routine of its sockets is running.
* **HttpClient.** A connection is a stream of pieces, each with the request it
  answers: what the server has yet to send (`todo`), what is on the way (`wire`),
  what the TLS accumulator holds (`acc`), what the request has (`got`). The server
  sends a piece at a time, and may refuse, send too much, fall silent or close
  whenever it likes. A callback is given everything in `got`. A completion routine runs at
  PASSIVE or DISPATCH level, as the stack chooses.
* **DirCtrl.** `ccb` is one handle's pattern, snapshot and index. Snapshots are
  identities with a reference count.

## Runs

Each run is a configuration for TLC and finishes within minutes. All of them check
deadlock.

| Run | Configuration | Shows |
|---|---|---|
| `node_table` | `MCNodeTable.cfg` | No pointer outlives its node; a claimed node has one owner and is served; no unused node is forgotten; a cold open never meets the leaf its search missed; teardown ends. |
| `disk_cache_index` | `MCDiskCacheIndex.cfg` | A pinned slot keeps its block; the chains hold exactly the slots in use, a block in one slot at most; the clock takes a served slot only as a last resort. |
| `disk_cache` | `MCDiskCache.cfg` | A read that succeeds has the bytes of its own version; the closed file is used by nobody; the index is used as its specification allows; reads and cleanup end. |
| `path_cache_tree` | `MCPathCacheTree.cfg` | No lookup is served what the driver already knew to be overtaken, over a tree with a structural change and seeding from subtree listings. |
| `path_cache_feed` | `MCPathCacheFeed.cfg` | The same of lookups and of opens that trust a resident FCB, while polls fail, the feed comes up and goes down and time passes; a listing fetched later is never replaced by one fetched earlier; no cap is exceeded and no byte charged is lost. |
| `read_fair` | `MCReadFair.cfg` | What is charged is what is in flight; nothing is held while there is room; held reads are admitted in order of their tags; every read ends. |
| `fsp_queue` | `MCFspWorkQueue.cfg` | An IRP has one owner and is completed once; its stash is freed once and nothing else is freed as one; nothing is in the queue after teardown; every IRP completes; teardown ends. |
| `socket_prewarm` | `MCSocketPrewarm.cfg` | One step in flight, exactly counted; nothing is outstanding after the drain and the pool stays empty; every fill ends. |
| `socket_async` | `MCSocketAsync.cfg` | Completion and DPC never touch a context that is not theirs any more; a cancellation is reported as a timeout; a peer that never answers hangs neither a request nor the drain. |
| `http_client` | `MCHttpClient.cfg` | A pooled connection has no part of an answer unread and has one owner; a request is retried a bounded number of times and never after part of an answer; the client implements `FetchService`, liveness included: a callback is given the whole answer to its own request or a failure. |
| `dir_ctrl` | `MCDirCtrl.cfg` | A snapshot is referenced while it is read; the index counts in the snapshot that is installed; every query ends. |
| `socket_unload` | `MCSocketAsyncUnload.cfg` | A counterexample: see below. |

### Bounds

* `node_table`: a directory and a file in it, in different buckets; two threads,
  one worker. Two threads suffice for every pair of a warm open, a cold open and
  a drop to race on one node, and the pair of nodes for the walk over ancestors.
  The theorems remove these bounds.
* `disk_cache_index`: three slots, a reach of two (so the clock can miss), two
  ghost ways, three blocks of which two share a chain, two reads.
* `disk_cache`: one slot that two blocks contend for, one read of both, one
  filler, one worker, a backlog of one, and one settled fill (`MaxLeaving`) that
  has not left.
* `path_cache_tree`: root, directory, file, whose entries share a bucket of one; an
  opener of the file, a lister of the root that asks for the subtree, one
  structural change of the directory, two advances of the sequence. Time stands
  still: the lifetimes are the other run's.
* `path_cache_feed`: one tick, which outlives the short lifetime and not the feed's,
  two advances of the sequence, and four scenes (`FeedScenes`), one of which a
  behaviour starts in: opens of a file that is modified; queries of a directory that
  is modified, with polls that fail; two queries of it at once; and, with no
  feed, queries of three directories that share a bucket of two and of one in another
  bucket, with room for two listings in all, so that a full bucket, an empty
  budget, a reap and two charges at once all happen. The opens are one thread's:
  with two openers of one file the state space is beyond ten million states, so
  `CreateFcbRefresh` defers only because pages are held, not because another handle
  is open.
* `read_fair`: two files; read-ahead of two pages and of one of the first, demand
  of two pages of the other; two fetches and two pages at a time.
* `fsp_queue`: a create, a read and a directory query, two workers, one trip
  (`MaxPasses`) of each IRP to the oplock package or the network.
* `socket_prewarm`: three threads, fills of two connects, three calls, a pool of
  two, TLS on (the longer path).
* `socket_async`: two requests of two operations each on two contexts, so that a
  context is reused under a late DPC. `socket_unload`: one of each.
* `http_client`: a metadata request (completed at PASSIVE level) and a file read,
  three connections, a pool of one, two connect attempts.
* `dir_ctrl`: two queries at a time, four in all, listings of two entries.

Symmetry is used in `disk_cache_index` (reads, and the two blocks that share a chain) and
`path_cache_feed` (the listers); both check safety only.

### Fairness

Fairness is of the driver's own threads and of what the system promises: a thread
that can run does, an armed timer expires, a queued work item runs, and an I/O
request ends, if only by failure or by its watchdog. The peer need never
answer. Cancellation, changes on the server, new requests and unload are never
forced. In `node_table` agents that wait for the VCB resource or a bucket lock have strong fairness,
because both kinds of lock queue their waiters, and a bucket is free again and again
because its holders run a bounded section. Everywhere else weak fairness is enough.

## What is proved

`NodeTableProofs` proves, with TLAPS and for every tree of nodes, every assignment
to buckets and any number of threads and workers:

* `MemorySafe`: `NoDanglingPointer` always holds;
* `ExclusiveClaim`: `ClaimHasOneOwner` always holds;
* `NoFallThrough`: `InsertNeverMeetsLeaf` always holds;
* `GatedWorkItem`, `TeardownAlone`, `TypeCorrect`: the work item is queued once at
  most and never after it was freed, teardown frees the tree alone, and the types.

They follow from `Inductive` (`Spec => []IInv`). `IInv`, in `NodeTableInvariant`, is
what makes memory safety inductive. By itself "no freed node is reachable" says
nothing about why a node the worker is about to free has no new pin. `IInv` adds:
who is inside the VCB resource or a bucket lock and at which step (`Locked`); that
references and pins are owned by agents at the matching steps (`Counted`); that the
parents of resident nodes are resident directories (`Rooted`); where each agent's
node is (`Placed`); that a node being freed is out of its bucket and unused
(`Doomed`); that a claim has one owner and claimed nodes are resident; that a
worker's batch is in its hands alone (`BatchInHand`); that the work item's gate is
up while it is queued or runs (`GateHeld`); and the phases of teardown (`Closing`).
There is a lemma per action, one step per conjunct it can disturb, spread over six
modules (warm opens; drops; cold opens; insertion; retirement; the worker) and
combined in `NodeTableProofs` with teardown. The assumptions are
`NodeTableAssumption` (the names are distinct) and `PrefixAssumption` (`Prefixes` is
the dissection of a path by `Parent`).

`SocketAsyncProofs` proves, for any number of requests, operations per request and
contexts, `SharedSafely` (`ContextIsShared`) and `TimeoutsAreReported`
(`CancelIsTimeout`). Its invariant gives each reference of a context an owner: the
operation until its completion routine ends, the watchdog until its timer is
disarmed or its DPC ends. A context is in use while the count is not zero, and an
IRP is cancelled only after `TimedOut` is set. The assumption is that `MaxOps` is a
positive number and `NoOp` is not an operation.

Only model-checked: all liveness and the refinement `FetchService` (fairness is out
of the prover's reach), `NoStrandedNode`, and every property of the other modules;
`ReadFair` besides uses a recursive operator.

## What the models found

* **The drain does not wait for a watchdog's DPC** (`socket_unload`). An operation
  completes as its timer expires. The completion runs the callback, the request
  ends and gives up its reference on the gate, and unload goes on to delete the
  lookaside list, while the DPC has still to drop its reference and free the
  context to that list. Driver.c:432 says each drain "waits for what is already
  outstanding"; the gate does not count the DPC and nothing flushes queued DPCs.
* **The gate admits requests during the drain.** Client.c:153 and 4114 say a
  request issued during unload is refused. `HttpAcquireActive` refuses once the
  count is zero, so one that arrives while another is in flight is admitted and
  waited for. `SocketAsync` models it so; nothing it checks depends on it.
* **A failed pattern allocation leaves a handle half reset.** When
  `RtlUpcaseUnicodeString` fails (DirCtrl.c:797) the old pattern is gone and the
  snapshot stays. A query that was already waiting then moves the index, and the
  next one takes a new snapshot under that index, against DirCtrl.c:627.
  `IndexCountsInSnapshot` is stated for handles this did not happen to.

## Abstractions worth knowing

* `HttpClient`: a header arrives in one piece; the close of a connection ends at
  once; what the server sends beyond its answer is never itself a well-formed
  header; a pooled connection is always to the right address; the drain is in
  `SocketAsync`.
* `PathCache`: a listing is one unit of the byte budget; a stamp is two words and is
  read at once; an allocation that fails is the same as an entry not kept for the
  budget. `WarmOpenIsFresh` is about the changes applied when the open reads the
  sequence. It would not hold of those applied when it reads the lifetime, a few
  instructions later: the feed may have come up in between, and the stamp of a
  file read before the flush is then judged by the long lifetime, once. That open
  is one that overlaps the flush.
* `DirCtrl`: all listings have as many entries; how many fit a buffer is a choice.
* `DiskCache`: the size of a block is one; memory that cannot be allocated is a
  choice at each place the code handles it.

## Not modelled

* TLS records and handshake (Tls.c, TlsHandshake.c): byte parsing, key schedule and
  calls into CNG, driven by one thread at a time. `HttpClient` has when they are
  called and that they fail or succeed.
* Decoding of bodies and building of requests (Client.c): whether they succeed.
* Read-ahead granularity and latency figures (Read.c), statistics: no
  decision that a property is about depends on them.
* Cached reads and the Cache Manager callbacks, file, volume, security and EA
  queries, controls, registry, DriverEntry and the mount manager: sequential code
  over kernel calls.
* Write, lock, flush, shutdown: refused or done at once on a read-only volume.
* Change notifications (`ChangeFeedNotify`): they leave the driver's state alone.
* The server, the tests and the deployment scripts.
