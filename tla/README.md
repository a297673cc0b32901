# DynamoRouter in TLA+

DynamoRouter routes LLM inference requests to replicas whose KV caches already
hold the prompt's leading blocks. These modules model the router's routing
state, its unary handlers, its streaming relay, its health prober and the life
of its process, at the granularity of one critical section, metric write,
channel operation or outside event per step; the mock replicas, with their
caches, counters and stream tasks; the load generator; and their compositions:
a client stream from end to end, the router's picture beside the replica's
cache, and a whole benchmark run. What the router promises its clients is a
specification of its own, which the handlers are proved to implement. TLC
checks all of it on small instances; TLAPS proves every invariant of every
run, and the refinements, for every value of the constants.

Paths below are relative to the repository; `prefix_cache.rs`, `scheduler.rs`,
`server.rs` and `telemetry.rs` are in `crates/router/src/`.

## 1. Inventory

| Component | State | Operations | Correct when |
| --- | --- | --- | --- |
| **Prefix cache** (`prefix_cache.rs`) | flat map hash → last touch; heap of eviction candidates, cleaned lazily; clock; sequence counter | `insert`, `match_prefix`, `lookup`, `evict_to`, compaction | it behaves as a radix tree with leaf-first LRU eviction; chains have no gaps; eviction is exact; the heap stays proportional to the map |
| **Scheduler** (`scheduler.rs`) | per replica: health, in-flight count, prefix cache; round-robin cursor | `pick` (two policies, two errors), `complete`, `mark_unhealthy`, `mark_healthy` | `pick` cannot panic; the cap holds; round-robin is fair; affinity is bounded by load; resets and late completions cannot create load; a replica comes back idle and cold |
| **Unary handlers** (`server.rs:149-220`) | decision, failed replica, prompt hashes, held across an await | pick, publish gauge, call, complete, publish gauge, mark unhealthy, retry once | every request answered; load released; retry elsewhere; served requests counted once |
| **Health prober** (`server.rs:404-474`) | results of the pass under way | probe all replicas, apply all results under one lock | dead replicas leave, live ones return, whatever the handlers do |
| **Streaming relay** (`server.rs:279-396`) | one task and one bounded channel per client stream | pick, open, relay, complete | no slot leaked whichever way a message ends; answers in order; the task ends when its client does |
| **Telemetry** (`telemetry.rs`) | gauges, counters, histogram | set, add | a gauge shows the count; the counters agree with what was served |
| **Process** (`main.rs`) | starting, serving, draining, exited; endpoint timeouts | start, signal, drain, metrics server's death | a draining router exits, and refuses nothing it took |
| **Mock replica** (`crates/mock-triton`) | KV cache simulator (the same lazy-heap LRU) behind a mutex; two counters; a task and a channel per stream | lookup and insert in one tick; answer; stream chunks; restart | its cache and the router's picture agree; an answer is whole or ends in an error; no task outlives its reader |
| **Block hashing** (`crates/protocol/src/blocks.rs`) | none | chained FNV-1a over token blocks | hash *i* commits to blocks 0..*i* |
| **Load generator** (`crates/loadgen`) | conversations under a semaphore, results | load a trace, issue turns, join, report | the concurrency is kept; permits come back; the report accounts for every prompt and agrees with the other programs' counters |
| Tokenizer, generated types | – | I/O | – |

**Interaction.** A handler hashes its prompt, takes the scheduler's mutex to
pick, releases it, sets the replica's gauge, awaits the replica, takes the
mutex to complete, releases it, sets the gauge, and after a transport failure
takes the mutex again to mark the replica unhealthy and again to pick for the
second attempt. The prober calls every replica concurrently, waits for the
slowest, and applies all results under one lock. A relay task does for each
message of its client's stream what a handler does for a request, but once,
and hands the replica's chunks to the client through a channel of 16 that it
may have to wait on. Handlers, relays and prober share nothing but the
scheduler and the metrics. A replica sees only the requests that reach it, in
the order they arrive in, and caches their blocks. For a stream it has a task
of its own, which reads the one message the relay sends, and a channel of 16.
The load generator talks to the router only.

**What is hard.** Between two critical sections anything may run: another
handler may reset a replica's count while a request is open at it, the prober
may re-admit a replica that a handler has just marked down, using an answer
that is already out of date, two handlers may write a gauge in the opposite
order to their critical sections, and a client may go away at the await, after
which nothing of the handler runs. A relay waits, with a slot in hand, on two
parties, the replica and the client; the replica's own stream task waits on the
relay. A shutdown waits for whatever call is open. Three programs count the same
requests, each at its own moment. Requests picked in one order may arrive in
another, or never, and the picture was updated at the pick. In the prefix cache, stale heap entries,
ties within a tick and the order of compaction and eviction all bear on which
block is evicted. `PROJECT.json` lists these hazards at their lines, with the
properties that cover them.

## 2. Modules and how they correspond to the code

| Module | Models | Builds on |
| --- | --- | --- |
| `PrefixCache` | `PrefixCache` as a value (`map`, `heap`, `clock`, `seq`) and its methods as operators: `Touch`, `Insert`, `MatchPrefix`, `Lookup`, `CompactIfBloated`, `EvictTo`; the inductive invariant `CacheInv` | – |
| `PrefixCacheLoops` | the `for` loop of `touch` and the `while`/`pop` loop of `evict_to`, turn by turn | `PrefixCacheApi` |
| `RadixLru` | abstract specification: a prefix-closed set of blocks with access times; eviction removes the least recent leaves first | – |
| `PrefixCacheApi` | one cache under any sequence of calls; states the refinement of `RadixLru` | `PrefixCache`, `RadixLru` |
| `PrefixCacheLemmas` | what each method does to a cache that has `CacheInv` | `PrefixCache` |
| `PrefixCacheProofs` | theorems about the cache and its loops | `PrefixCacheLoops`, `PrefixCacheLemmas` |
| `Scheduler` | routing state; every method as an action | `PrefixCache` |
| `SchedulerApi` | the methods in any order a caller may use, with two history variables: picks not yet completed, and how often round-robin passed a replica over | `Scheduler` |
| `SchedulerProofs` | theorems about the scheduler | `SchedulerApi`, `PrefixCacheLemmas` |
| `Router` | handlers, prober, crashes, cancellations | `Scheduler` |
| `RouterContract` | abstract specification: what the router promises about a unary request | – |
| `RouterProofs` | theorems about the router, and that it implements `RouterContract` | `Router` |
| `RouterTimeouts` | which calls the endpoint's timeout ended, beside the status it arrived as | `Router` |
| `StreamRelay` | the relay task of each client stream, its channel, its client and the upstream stream, beside everything in `Router` | `Router` |
| `RelayProofs` | theorems about the two together | `StreamRelay`, `RouterProofs` |
| `StreamPath` | the replica's stream task and channel at the other end of each relay; crashes and restarts | `StreamRelay` |
| `StreamProofs` | theorems about the stream from end to end | `StreamPath`, `RelayProofs` |
| `KvCacheSim` | a replica's own cache: `lookup_insert` | `PrefixCache` |
| `CacheMirror` | the router's picture and the replica's cache side by side: requests on their way, overtaken, lost; resets; restarts | `Scheduler`, `KvCacheSim` |
| `MirrorProofs` | theorems about the two caches | `CacheMirror`, `PrefixCacheLemmas` |
| `BlockHashes` | the low bits of chained FNV-1a over token blocks | – |
| `Loadgen` | trace loading, the tasks under the semaphore, main's report | – |
| `Bench` | a benchmark run: load generator, router process, replicas with their caches and counters | `Scheduler`, `KvCacheSim`, `Loadgen` |
| `BenchProofs` | theorems about a run, sums over finite sets, the loops that load a trace | `Bench`, `PrefixCacheLemmas` |
| `MC*` | instances for TLC | the above |

*Prefix cache.* A cache is a record and a method an operator on it, so the
same definitions serve one cache, one cache per replica and the proofs. The
methods are written in closed form (which positions a touch walks, which
candidates `evict_to` pops); `PrefixCacheLoops` states the code's loops, and
`LoopsAgree` proves that the two are the same on every reachable cache. Blocks are named by their
chained hashes; that a hash determines its position and everything before it is
`ChainsAssumption`, the code's own "modulo collisions" premise.

*Scheduler.* One mutex guards the struct and every method runs under it, so a
method is a step. `Choice(hashes)` is the set of replicas `pick` may return;
that it is a singleton whenever a replica is available is a property
(`PickIsTotal`), not an assumption. `Score`, the strict-`>` tie rule, the fallback
below `MinMatchBlocks`, `min_by_key`'s first minimum and the wrap-around scan are
each an operator. Weights are naturals (`f64` in the code; defaults 1.0, 2.0).

*Router.* A handler's `pc` names the await or unlock it is at:
`idle → picked → upstream → returned → completed → done`, or from
`completed` through `markDown` to `retry` and a second `picked`, or to `done`.
`picked` and `completed` lie between an unlock and the gauge write that follows it;
`local.shown` is the value read under the lock. A dropped future is `cancelled`:
it keeps its replica for the record but takes no step. `probe[r]` is one
replica's part of the prober's pass. `up` is the environment; a call to a replica
that is down can only fail, a call to one that is up may still fail or time out.

*StreamRelay.* `task` names the await the relay is at: `reading` (the client's
next message), `picked → opening → relaying ⇄ sending`, `reporting`,
`markDown`, `completing → completed`, `ended`. `then` is where the task goes when the
current message is dealt with: on to the next, or out after an error of the
inbound stream or a failed send. `responses` holds everything ever sent into the
channel and `taken` how much of it the client has received; their difference is what the
channel holds. A message is a prompt, something no prompt can be extracted from, or an
error of the inbound stream, for these are the exits it leads to. `job` is what
the task keeps from its pick. A step of the relay that touches the scheduler uses
`Scheduler`'s operators, and every step of `Router` may come in between.

*RouterContract.* A request is `idle`, in its `first` call, `between` calls, in its
`second`, `done` or `gone` (its client left). `Forward` needs an available replica,
`Refuse` needs that there is none and says which kind of none, `TryAgain` needs a
status that is taken for a transport failure, and there is no third call. Which replica, and every count,
gauge and picture, are left open; replicas come and go as they like. `Router` maps to it by
`Phase` (from `pc` and `failed`), `local.result` and `Routing`.

*StreamPath.* `serving[c]` is the replica's task for call *c* (`reading`, `decoding`,
`rejecting`, `rejected`, `ended`, `killed`) and `pipe[c]` everything it has sent. What
`StreamRelay` lets an upstream stream do at any time happens here when the task has
done its part: `UpstreamSpeaks` needs something in the pipe, `UpstreamEnds` that
the task has returned and the pipe is read out. The replica reads its text from the first
tensor where the router prefers the one named `text_input`, so it may reject what
was routed. A relay that lets go of its upstream drops the receiving end of the
replica's channel (`Attached`), and the task finds out at its next receive or send.
A crash, noticed or not, kills the tasks.

*CacheMirror.* Handlers and prober are reduced to what they do to the scheduler.
`mail[r]` is the requests picked for *r* and not yet in its cache; `Arrives(r, i)` is
the critical section of `simulate_prefill` for the *i*-th of them. Two history
variables collect the blocks routed since the replica last lost a request, took
two out of order or restarted (`confirmed`), and since the router last dropped
its picture besides (`mirrored`). The prompts of its model are the hashes of token lists,
which TLC compares with `BlockHashesOf` when it starts.

*Loadgen.* A text is the list of messages it was put together from, so that a prompt is
a prefix of the recording. A permit lives from `Acquire` to `Finish`, the scope
of `_permit`; the task gets it and sends its first prompt in one step, nothing being
awaited in between.

*Bench.* `router` is the life of the process in `main.rs`. `call[i]` is the handler
of task *i*'s request: `sent`, `prefilling`, `hung`, `lost` (its replica restarted),
`markDown`, `picking` (the second attempt), `replied`, `failed`. A handler's critical
section and the metrics that follow are one step, since `Router` has them apart.
`served` is the router's counters, `counted` each replica's, `Report` the load generator's.
`trouble` is a history variable: the kinds of things that have gone wrong, for the
properties to say which of them their premise excludes.

## 3. What the runs check

| Run | Instance | Question |
| --- | --- | --- |
| `prefix_cache` | forked chains, budgets 0–3, 5 ticks | is the lazily cleaned cache a leaf-first LRU radix tree, exact and without gaps, is its heap bounded, and are the closed forms the loops? |
| `scheduler_cache_aware` | 2 replicas, cap 2, 3 ticks per cache, β = 2 | can `pick` fail to find its winner, do the cache pictures meet their budget, and can affinity pile up more load than the match is worth? |
| `scheduler_round_robin` | 3 replicas | is an available replica passed over for a full round, can resets create load? |
| `router_safety` | 2 requests, 2 replicas, cap 1, 1 fault, cancellation | is every unit of load accounted for under every interleaving, each served request counted once, and is the contract kept? |
| `router_liveness` | 1 request, 2 replicas, 3 faults, cancellation | is every request answered, do dead replicas leave and live ones return, does the gauge of healthy replicas settle? |
| `stream_relay` | 1 stream of up to 2 messages, 1 replica, cap 1, answers of 2 chunks, channels of 1, restarts of the replica, breaks, cancellation | does every exit of the relay release its slot, are answers in order and whole or ended by an error, does the replica do what `StreamRelay` assumes, do streams and abandoned replica tasks end? |
| `cache_mirror` | 1 replica, cap 2, 4 ticks, budget and capacity 2, 1 fault | does the picture agree with the cache on what was routed since the last disturbance, and are predicted hits found? |
| `loadgen` | 3 traces of up to 4 conversations (3 loaded), 2 permits, 1 replica, cap 2, 1 fault and a signal | is the concurrency kept, do the books of the three programs agree, is any request refused without cause, does a draining router exit, does the run end? |

Four further runs state what a comment or document says and end in a
counterexample; `PROJECT.json` quotes the lines.

| Run | Statement | What happens |
| --- | --- | --- |
| `cancelled_requests_leak_load` | a refusal as saturated means real saturation (`scheduler.rs:59-60`) | the client goes away at the await (`server.rs:169-172`); `complete` never runs and the count stays raised, until any pick would be refused with nothing open |
| `cap_after_readmission` | at most `max_inflight` requests are open at a replica (`scheduler.rs:32`) | a slow probe resets the count under an open request; after re-admission another is routed beside it |
| `retry_same_replica` | attempt 2 goes to another replica (`server.rs:185`) | the prober re-admits the failed replica, from an answer it already had, before the second pick |
| `timeouts_as_documented` | a timed-out request is not retried (`server.rs:489-496`, `main.rs:36-41`), and its replica is marked unhealthy (`design.md:84`) | whichever status the timeout arrives as: `DeadlineExceeded` marks nothing down, `Cancelled` is retried |

The first two qualify each other. `LoadAccounted` holds, so abandoned
requests are the *only* source of load that nobody will release; and because a reset
can only lose load, the cap fails only on the side of admitting too much. A
leak ends when the replica is next marked unhealthy.

`PictureHonest` and `PictureComplete` say how far "the router's picture stays honest"
(design document, line 57) goes. Nothing keeps requests in order between pick
and arrival, so picture and cache do drift apart; but the drift concerns only
blocks not asked for since. LRU makes both caches forget the disturbance as soon as
traffic has renewed the picture. Two premises matter. The budget must not exceed the
capacity: it does with the defaults (`BLOCK_BUDGET` 65536 in `main.rs:32-33`,
`CACHE_BLOCKS` 4096 in `crates/mock-triton/src/main.rs:12`), and README.md:71-72 sets
them equal. And a replica that restarts between two probes leaves the router
with the old picture until a call fails or traffic renews it.

**Bounds.** `MaxClock` and `MaxTicks` bound the ticks of a cache (every touch
is a tick): five ticks on one cache are enough for a block to be inserted,
touched, orphaned in the heap, compacted and evicted, with `CompactFloor` small
enough (1 or 2 for 1024) that compaction fires. `MaxFaults` bounds crashes and bad probes;
restarts follow crashes and need no bound. Two requests give every pair of
handlers; three replicas give the scan a middle to skip. A request arrives
once, so each run is over handlers that differ in phase, which is what the
interleavings need; `RouterProofs` removes the bound on both numbers. In
`stream_relay` a slot of cap one shows any that is not released, two messages show
a task going on after each kind of end, answers of two chunks have a first and a
last, and channels of one make both tasks wait. No unary request runs beside the
stream there, which would multiply the states tenfold; that the two sides do not
disturb each other's load is `RelayLoadAlwaysAccounted`, for any number of
both. `MaxFaults` is 0 there: a replica dies, with its tasks, only to be back before the
next probe (`RestartsUnseen`), and connections break at any time; crashes that the
prober sees are in `router_safety`. Four ticks on caches of two blocks let a request be picked,
overtaken, evicted and asked for again. In `loadgen` two permits for three
conversations make a task wait and two requests overtake each other; one fault is a
call, a replica, a probe or the process going wrong at any point of the run, and the
signal may come besides.

**Fairness.** In `router_liveness`: weak fairness of a handler's own steps
(a woken task is polled, and no critical section blocks), of the return of a
call (the endpoint carries a timeout, `server.rs:23-25`), of the prober's tick and of
its answers (each probe has its own timeout). None on clients, crashes,
restarts or cancellations. The liveness of the prober is stated as stability:
a replica that stays down is eventually out of routing for good, one that
stays up eventually in for good, although results may be applied after the
replica has changed, and handlers may mark it down in between.

In `stream_relay` each relay task is polled when it can run, and so is each of
the replica's (tokio again); a call is answered or fails, at the latest by the endpoint's
timeout; what the replica has sent arrives; and the connection to a process that
died is found broken (keepalive, `main.rs:100`). That an upstream stream
goes on, which `StreamRelay` assumes, is then a property: `ImplementsRelay`. Nothing
is assumed of the client, the prober, crashes or breaks: `StreamEnds` names its
premise, a client that has sent everything and takes what there is, or has left.
A replica that hangs in mid-stream without closing its connection is not covered,
since whether the endpoint's timeout ends such a stream is up to the library.

In `loadgen` (`BenchFairness`): as long as some request can go on, one does, which is
enough because the work of a run is finite and no request waits for another but
through the permits; a free permit is handed out to some waiting task (tokio's
semaphore); main joins; and a router with no call open returns from
`serve_with_shutdown`. A hung call is one that can go on, by the endpoint's timeout
(`main.rs:91-98`). No fairness on starting, connecting, signals or faults. The
run really stops, hence no deadlock check there.

**Timeouts and the documents.** `is_transport_failure` leaves `DeadlineExceeded` out so that a
timed-out request is not retried. Which status an expired endpoint timeout
arrives as is up to the gRPC library (tonic 0.12.3 in `Cargo.lock`), whose code is not in the
repository; the models let it be `DeadlineExceeded` or `Cancelled`, so nothing that holds
rests on it. `ImplementsContract` is therefore about statuses: no retry after
`DeadlineExceeded`. It does *not* say that a timed-out request is computed once: one that
arrives as `Cancelled` is retried, like one whose connection broke after the replica
had begun (the caveat at `server.rs:498-504`). `RouterTimeouts` keeps
the cause besides the status, and `timeouts_as_documented` shows that under neither status
all is as the documents say.

`RouterContract` is what the code promises, and the design document (lines 84-85 of
`docs/superpowers/specs/2026-08-11-dynamorouter-design.md`, `design.md` in this project) promises something else in
three places. A deadline is to mark the replica unhealthy; in the code `DeadlineExceeded`
does not (`server.rs:182`). Any upstream error is to be retried once; the code
passes on every status that is not taken for a transport failure (`PassOn`). The
status of the last failure is to be propagated; the code answers `Unavailable` for the
second transport failure (`GiveUp`, `server.rs:207-218`). The comments in `server.rs` argue for
the first and the third, so the document is what is out of date.

**The in-flight gauge.** It is written after the mutex is released
(`server.rs:130-131`), so two completions at one replica may write it in the opposite order to
their critical sections, and leave it at 1 with nothing in flight until the next
request. `Router` has the write as a step of its own, and `GaugeTrueAtRest`
fails; no run lists it. (To see it, check it as the invariant of
`MCRouterCap.cfg` with `MaxInflight = 2` and `NumReplicas = 1`.)

## 4. What is proved

Every theorem is for arbitrary constants under the named assumptions, which the
`ASSUME`s of the modules state: `BlocksAssumption`, `ChainsAssumption`,
`CompactFloorAssumption`, `CapacityAssumption`, `SchedulerAssumption`, `RouterAssumption`,
`RelayAssumption`, `PathAssumption`, `MirrorAssumption`, `LoadgenAssumption`,
`BenchAssumption`, and `BoundsAssumption` and `MaxTicksAssumption`, whose bounds are
any number. They fix the types of the parameters, that there is a replica, a permit and room in a
channel, that a hash commits to what precedes it (`ChainsAssumption`, the code's "modulo
collisions"), and for `Bench` that every prompt of a trace hashes to one of the chains.

The 28 invariants that the passing runs check are all theorems, and so are `BoundedSkew`,
`ImplementsRadixLru` and `ImplementsContract`.

**The cache** (`PrefixCacheLemmas`, `PrefixCacheProofs`).
- `InvHolds`, `TypeCorrect`, `NoOrphansEver`. That no block outlives its
  ancestors is not inductive: eviction removes an initial segment of the
  candidates, so one needs that a deeper block always comes up first
  (`DeeperGoesFirst`), hence that its stamp is not newer than its ancestors'
  and its sequence number higher, and that the heap holds an entry for each
  mapped block (`HeapCoversMap`). `CacheInv` is the conjunction; `TouchPreserves`
  and `EvictPreserves` show it is kept.
- `EvictionIsExact`. `evict_to(n)` leaves exactly min(n, size) blocks. The number of
  live candidates ahead of a block gives each mapped block a rank;
  `RankIncreases` and `RankBijective` show the ranks are 0..size-1, so the pops stop
  exactly at the budget however many stale entries lie in between.
- `RefinesRadixLru`. Under the mapping that keeps each block's access time and
  forgets sequence numbers, heap and compaction, a touch is a touch of the tree
  (`TouchOnTree`) and an eviction removes least recent leaves (`EvictIsLru`).
- `LoopsAgree`. The loops, turn by turn, leave what `Touch` and `EvictTo` say, which every
  other module uses in their place. After *k* turns `touch` has stamped the first *k*
  blocks, or stopped at the end of the walk (`WalkedIsSegment`, `TouchedUptoNext`); after *k*
  turns `evict_to` has popped *k* entries that the closed form pops too, and all before
  them, or is done (`EvictTurnPops`). The heap has a top because no two of its
  entries share a sequence number (`HeapSeqsDistinct`, inductive).

**The scheduler** (`SchedulerProofs`).
- `PickNeverPanics`: each rule, the scan, the least loaded and the best score with its tie-break,
  selects exactly one replica of those available (`ScanFindsOne`, `LeastLoadedIsOne`,
  `BestScoredIsOne`; the first minimum exists by `FirstLeast`, and no two replicas
  are as far from the cursor).
- `NobodyStarves`: `BoundedBypass` is inductive with `Progress`, which adds to what a
  replica has been passed over the distance the scan still has to it; each pick that passes it
  over shortens the distance by at least one.
- `SkewBounded`: a step of the action property, from the bounds of a score (`ScoreFacts`).
- `NoPhantomLoadEver`, and `WithinBudgetEver` and `HeapBoundedEver` from `Fits` (a picture is within its
  budget, its heap within 4 times the larger of map and floor, or 2 times while there is room). The
  bound on the heap is one of how `pick` uses the cache, insert and evict to the same
  budget in one critical section: `HeapBounded` is therefore stated of the
  scheduler. The claim of `prefix_cache.rs:19-27` does not hold of any sequence
  of calls: an `evict_to` with a small budget shrinks the map and leaves in the heap
  what stale entries it did not pop, since only a touch compacts.

**The router** (`RouterProofs`). `Typed` (the types, with a handler's locals) is
inductive and carries the rest.
- `RouterTypeCorrect`, `RouterCapped`, `RouterResets`: `SchedulerSteps` reduces every step
  to a scheduler method or the prober's pass; a pick needs a healthy replica
  below the cap (`ChoiceAvailable`), and every way out of routing resets.
- `RouterLoadAccounted`: the handlers at a replica grow by one with a pick and
  shrink by one with a completion (`HeldGrows`, `HeldShrinks`); every other step
  keeps them and can only zero the count. An absorbed completion is the one
  case where the set shrinks and the count does not, and there it is zero.
- `RouterServedOnce`: only `PublishComplete` counts, and only for a request not yet
  answered.
- `RefinesContract`: `Router` implements `RouterContract`. What the contract sees does
  not determine its next step on its own: that a handler holds a result exactly from
  the return of its call until it has dealt with it, that it marks its replica
  down only on such a status as `TryAgain` needs, and that an idle handler has no failed replica while one that
  retries has, are the invariant `CallsOK`, inductive together with `Typed`. Each action moves
  the phase of one request (`PickMoves`, `CallMoves`, `FinishMoves`, ...) and leaves the others
  (`HandlerMoves`); `PickAllowed`, `CallAllowed`, `EndAllowed`, `RejectAllowed` and
  `OthersAllowed` say which step of the contract it is. That a refusal is true rests on
  `pick` failing only when nothing is available, and on the contract being asked in the
  same critical section.

**The relay** (`RelayProofs`). For any number of streams, messages and requests.
- `RelayTypeCorrect`: `RelayTyped` is `Router`'s `Typed` with the relay's own types; it is
  inductive because a relay changes of `Router`'s state only the scheduler and the
  metrics (`OwnTypes`). A channel stays within its size by `RoomFacts`.
- `RelayLoadAlwaysAccounted`: by composition. A step of `Router` moves the handlers and
  leaves the streams alone (`LoadMoves`, proved as `LoadNext` in `RouterProofs`), a
  step of a stream the other way round (`StreamMoves`, `StreamLoads`). In both a count
  is reset or changes by no more than the holders on its side, so the sum
  bounds it.
- `AnswersStayInOrder`: `InOrder` relates what was sent of the current message to `job` and
  `task`: how many chunks, none of a later message, and an error only where the
  task is on its way out of the message.

**The stream from end to end** (`StreamProofs`).
- `PathImplementsRelay`: every step of `StreamPath` is a step of `StreamRelay` or changes
  nothing there; `PathKeepsRelay` carries the relay's invariants over to it.
- `NothingCutShort`: `PathOK` says of the two tasks and the channel between them that a
  call is served once and by nobody before it is made (`Fresh`), that a task that
  is done while the relay listens has ended its answer (`PipesOK`), and that
  the relay is done with a message only when its client was sent that end or an
  error (`AnswersOK`).

**The two caches** (`MirrorProofs`). `PictureStaysHonest`, `PictureStaysComplete` and
`PromisesAreKept` rest on the inclusion property of LRU. A block survives an eviction iff
fewer blocks than the budget are newer than it (`EvictKeepsNewest`, from the
ranks), and which are newer after a prompt depends only on which were before
(`InsertRenews`); so two caches that agree on a set of blocks and on
what is newer than each (`Within`) still do after both have taken the same
prompt, if the budget of the second is no smaller (`TakenTogether`). `MirrorOK`
says this of the picture and of the cache as it will be when the mail has arrived;
`Stages` are the caches it goes through, and a promise is kept at the stage where its
request arrives. A request that arrives in order moves the stages by one
(`ArrivalAgrees`), a disturbance empties the sets of which anything is claimed
(`DisturbedAgrees`).

**A benchmark run** (`BenchProofs`).
- `ConcurrencyIsKept`: permits and tasks asking add up to the concurrency (`PermitsOK`).
- `NoneRefusedWithoutCause`: while nothing but a signal has happened, the calls on a replica are at least
  its load (`Quiet`); the task that asks is on none, so by the pigeonhole principle one of the
  replicas has a slot.
- `BenchTypeCorrect`, `ReportIsWhole`: `BenchTyped` and, within it, `LoadOK`, which says for each task how many of
  its prompts are answered and for main what it has collected. That what is loaded are
  conversations of at least one prompt is shown of the two loops that load a trace
  (`TurnsOfFacts` and the lemmas after it).
- `BooksAgreeEver`: a ledger with an entry for each task, what it has been told and what is
  under way for it. At any moment the replicas have counted what the ledger has from
  prefill on, the router what it has from its answer on, main what the joined tasks were told
  (`BooksKept`). When all are joined nothing is under way.
- `PredictionsComeTrue`: while nothing is evicted, each picture is the replica's cache with the
  prompts on their way to it (`PicturesAhead`); every block in a picture was predicted to be
  missing exactly once, every block in a cache was missing exactly once (`ForeseenAndFound`,
  two equations between sums). When nothing is under way pictures and caches are the same, and
  so are the two counts. The premise `Policy = "CacheAware"` is part of the property: a round-robin
  pick predicts nothing.

Sums are folds over finite sets; `PartialSumsExist` shows their recursion well founded,
`SumOverTake` takes one term out. Induction over numbers is by the least counterexample
(`LeastNat`), in the loops too (`LoopExists`).

**Model-checked only.** Liveness: `EveryRequestAnswered`, `DeadReplicaLeaves`,
`LiveReplicaReturns`, `HealthGaugeSettles`, `StreamEnds`, `AbandonedTasksEnd`, `RunEnds`,
`DrainEnds`, since TLAPS does not reason about `ENABLED` and so about fairness; and of
`ImplementsRelay` the part that is a fairness condition (`PathImplementsRelay` is the rest). The four
runs that end in a counterexample have nothing to prove. `BlockHashes` is only evaluated: it makes
the prompts of `MCCacheMirror`.

## 5. Not modelled, and the plan

Not modelled: what arguments, URLs and the tokenizer file may look like (a start
that fails is one step of `Bench`); what the metrics endpoints return; tracing;
tokenization and generated types (third-party or generated); the latency
histogram; counter overflow (64-bit, one increment per request); durations, and
so the load generator's latencies and percentiles; `server_live`, `server_ready` and
`model_metadata`, which change no state (the prober's use of `server_live` is modelled). Three hazards have no property
that a run lists: the order of gauge writes (above); a
client that neither reads nor leaves holds its slot, and the code sets no bound to that;
and the default `BLOCK_BUDGET` exceeds the default `CACHE_BLOCKS`, a configuration
for which nothing is promised.

Next, in this order:

1. The abstract specification of a routing decision: that `Scheduler` under either policy
   implements one that only says "some available replica, or none is", so that `Router` and
   `Bench` could be proved against it and not against the policies.
2. That `Bench` implements `RouterContract` for each of its requests: its handlers are
   coarser than `Router`'s and could be shown to keep the same promise.
3. The agreement of `KvCacheSim` with `RadixLru`, the tree that the router's cache implements.

## 6. Running

```
tlc -workers 2 -config MCRouterSafety.cfg MCRouter.tla
tlapm RouterProofs.tla
```
Every cfg is named after its question and starts with its `MC` module's name. Mutants,
each the form a plausible bug would give a definition, stand beside the
definition they replace and are marked as such; no specification uses them.
