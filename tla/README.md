# A TLA+ development of wado

wado is a language that compiles to WebAssembly components. Its repository holds
a compiler, its standard library (in Wado itself), hosts that run what it
compiles, and tools. This directory models the parts of it whose correctness
depends on the order of things: threads, tasks, timers, queues, permits and
long sequences of calls. TLC checks the modules on small instances, and TLAPS
proves the theorems listed below for every value of the constants.

Every definition is translated from the Rust or Wado source. `PROJECT.json`
says which lines each one stands for (`map`), which part of the repository is
modelled and which is not (`components`), what could go wrong at which line
(`hazards`), and for each property one plausible bug that would break it
(`mutants`).

To use it: `tlc -config X.cfg M` checks module `M` with `X.cfg`, `tlapm M.tla`
checks the proofs in `M`.

Contents: [Inventory](#inventory) · [Modules](#modules) · [The models and the
code](#the-models-and-the-code) · [Runs](#runs) · [Fairness](#fairness) ·
[Proofs](#proofs) · [Findings](#findings) · [What is not
modelled](#what-is-not-modelled) · [Plan](#plan)

## Inventory

The parts that keep state over time, what they do with it, and what makes them
correct. M: modelled here. P: planned. The parts left out are in [What is not
modelled](#what-is-not-modelled).

**HTTP server** (`wado serve`, wado-cli/src/serve.rs) M. State: per worker a
bounded queue, the tasks in flight and the age of its component instance; per
request a oneshot channel for the response head. Operations: dispatch by round
robin, run a handler, answer at the deadline, recycle an instance after so many
requests, rebuild it after a trap, shut down. The connections (hyper, tokio)
call the dispatcher; the dispatcher and the workers meet at the queues; the
worker and the connection meet at the oneshot and at the channel of body frames.
Hard: everything races, with deadlines, disconnects, traps and shutdown.
Correct when no job is lost except to a fault, the bounds that size the
instance pool hold, each request is answered or its connection ends, and a
worker told to recycle or to stop gets to.

**Runaway-guest deadline** (serve.rs, the epoch side of a worker) M. State: the
engine's epoch, advanced by an OS thread, and the store's deadline, pushed out
by the worker's loop. Hard: two clocks race, and a guest that does not yield
stops the loop that pushes the deadline. Correct when a client's timeout comes
before the trap, only a guest that ran away is trapped, and it is trapped.

**core:eval host** (wado-cli/src/eval_host.rs, with the test task of test.rs) M.
State: CPU and strand permits, a map from key to shared once-cell, a cache on
disk, compile threads. Operations: a test gives its permit back, finds or makes
the cell of its key, compiles and runs under permits of their own, takes a
permit and goes on. Hard: calls that share a cell and leave late, compiles past
their limit that go on by themselves, calls dropped in the middle when their
test's time is up, panics on threads nobody awaits. Correct when one key is
evaluated once at a time, hung compiles do not take the budget from the tests,
and no panic is lost.

**Test pipeline** (`wado test`, wado-cli/src/test.rs) M. State: compile, load
and execute stages of spawned tasks, bounded channels between them, a budget of
CPU permits and one of loaded modules. Hard: back pressure against permits,
ends of stages, `--no-run`. Correct when memory stays within its budget,
nothing is lost at a stage's end, and the run ends.

**Interval ticker** (wado-host/src/ticker.rs) M. State: two flags under a mutex,
a condition variable, a thread. Operations: restart, drop, the thread's loop.
Epochs of the server and of the tests are driven by it. Hard: flags against
timeouts and wakes. Correct when no tick follows a drop, a restart holds the
next tick off, and a drop returns at once.

**Allocators** (wado-compiler/lib/core/allocator.wado) M. `realloc` for every
compiled program: the free-list allocator (tags at both ends of each block,
bins, splitting and merging), the debug allocator (blocks never reused, tagged
and poisoned), and the growth of linear memory under both. State: memory
itself. Sequential, and hard because one wrong tag or link shows only many calls
later. Correct when blocks in use lie apart and keep their contents.

**Guest processes** (core:process host: wado-host/src/process_host/posix.rs,
sandbox.rs, sandbox/terminal.rs) M. State: what each child's id names, whether
it was reaped, who holds the terminal and the mode to come back to. Operations:
spawn with or without the terminal, kill, drop the handle, and the waiter's
thread, which follows a child's stops, releases the terminal, kills what is left
of the group and reaps. The waiters meet at `HOLD`; all of them meet the kernel
and the user's shell. Hard: an id that is reaped while it is signalled, stops
and continues of child and host in any order, an exit in the middle. Correct
when no signal reaches a process that is not the guest's, no descendant is left,
the terminal and its mode come back, and each child is reported.

**Kiln driver** (wado-host/src/kiln/driver.rs, metadata.rs, over atomic_write.rs)
M. State, all of it on disk: for each invocation of a generator its outputs and a
record of what they were made from. Operations: compare the record and the
outputs with the sources, run the generator, write outputs and record, delete
what is generated and not wanted, load. Hard: files are written one at a time
by a pipeline that may end anywhere; several compiles, an editor's and a
terminal's, work on one directory without a lock and may be at different
versions; sources and outputs are edited at any time. Correct when what a compile loads is
there, whole and current, nothing of an earlier version is left, and what is up
to date is left alone.

**Test cache** (test_cache.rs, input_cache.rs, run_cache.rs and the generators of
kiln_provider.rs) M. State: on disk, for each test file the inputs of a pass, and
the index of a built generator; in a run, what files hold now, the generator
pinned, what was read. Operations: answer a file from its entry, log reads,
resolve the generator, store passes, report changes. Hard: compiles that resolve
one generator at once, and a user who saves between two reads. Correct when what
is stored is true, what is answered is current, and a run of two trees says so.

**Remote pins** (remote.rs) P. Several compiles and several processes record
pins in one wado.lock.

**Async runtime** (lib/core/prelude/types.wado, rt.wado) P. Stream and future
copies in flight, waitable sets that report each copy once, tables of what was
reported.

**Hash and tree maps** (lib/core/collections) P. Two indexes over one log of
entries with tombstones, compaction and renumbering.

**Language server** (wado-lsp) P. A lifecycle of a few flags and a map of open
documents in one sequential loop.

**Trait solver's derived bounds** (trait_solver/derive.rs) P. A fixpoint, to be
checked against a reference definition.

## Modules

| Module | Models | Used by |
|---|---|---|
| `HttpService` | what a client of `wado serve` is promised (abstract) | `Serve` implements it |
| `Serve` | dispatcher, worker pool, handlers, shutdown | `MCServe`, `ServeProofs` |
| `ServeEpoch` | one worker's two clocks | `WorkerTime` |
| `WorkerTime` | `ServeEpoch` for the requests of one worker of `Serve` | `ServeProofs` |
| `EvalHost` | calls of core:eval by the tests of a run | `EvalProofs` |
| `TestPipeline` | the three stages of `wado test` | |
| `Ticker` | the ticker's thread and its owner | `TickerProofs` |
| `Allocator` | what `realloc` promises (abstract) | `FreeList`, `DebugAlloc` implement it |
| `LinearMemory` | `bump` and `grow_memory` | `DebugAlloc` extends it |
| `FreeList` | the free-list allocator | `Realloc` |
| `DebugAlloc` | the debug allocator on growing memory | `Realloc` |
| `Realloc` | a program's choice of one of the two | `ReallocProofs` |
| `JobControl` | the kernel's processes, its terminal, a shell (external) | `Children` extends it |
| `Children` | spawns, waiters, handles and the terminal's hold | `ChildrenProofs` |
| `Kiln` | compiles that share generated files | `MCKiln`, `KilnProofs` |
| `TestCache` | runs of `wado test` that share entries and a generator | `MCTestCache`, `CacheProofs` |
| `*Proofs` | theorems about the module of that name | |

An operator with a suffix, such as `Take_NoBound`, stands before the definition
it varies. It is the same definition with a bug put in, and is used only to show
that some property would notice.

## The models and the code

### Serve

`server` is where `run_http_server` is: accepting, draining the connections,
winding the workers down, stopped. `conn` and `client` are a connection and
where `dispatch_request` is on it; `late` says whose deadline passed; `next` is
the round robin's counter and `at` the worker a request was striped to. `queue`
is a worker's receiver, `head` what a request's oneshot carries, `handler` where
its `HandlerTask` is, `inflight`, `handled`, `phase` and `stopping` are the
locals of `worker_loop`.

| Actions | Code |
|---|---|
| `Arrive`, `Enqueue`, `WorkerGone` | `Dispatch::submit`, whose send waits for room under the deadline |
| `GiveUp`, `Respond` | `before_deadline` and the match on the head |
| `SendHead`, `Fail`, `Abandon`, `EndBody` | `HandlerTask::run` |
| `Build` ... `Wake` | `worker_loop` and the rebuild around it |
| `Trap`, `FailToBuild` | the two ways an instance fails |
| `Signal`, `WorkerEnded`, `Drained`, `WoundDown` | the accept loop's end and what follows it |

The deadline wins over whatever a wait brought: `before_deadline` drops the
result. So a job can be in a queue while its client reads a 504, and the handler
must then end by itself. Time is one flag per request, since nothing else
distinguishes two instants before the deadline or two after it.

What the guest does is left open. It may answer, fail, trap, or never move
again. Each connection carries one request; a second request on a connection
that was kept alive would be another member of `Requests`, except that both
would close together. Which of several blocked senders gets room first is not
ordered.

### ServeEpoch

One worker. A second brings one epoch tick (the OS thread) and one server tick
(tokio), in either order. `left` is how many epochs remain before the store's
deadline. A turn of the worker's loop resets it, but the loop turns only when
no guest holds its thread; when nothing is in flight it waits for a job alone
and does not turn on ticks. `leftover` are guest tasks that outlive their
response, which the code's comment at serve.rs:553 describes. `WorkerTime` takes
`ServeEpoch` in under the names `Serve` leaves free, so that one module of proofs
can speak of both, and adds what the code's 5 s of grace satisfy: `Grace >= 2`.

### EvalHost

The actors are the tests. `at` is where a test is: before its start, in its own
code, or at one of the stages of a call: at the slot, waiting to compile,
compiling, waiting to run, running, on the way back. `slot` is the once-cell it
holds and `slots` the map of them; a slot is named by the call that made it.
Permits are not counted in a variable: `CpuFree` derives what is left from who
holds one, the compile threads that keep theirs included (`kept`). `Drop` is the
branch of `tokio::select!` (test.rs:1852) that ends a test whose own time was
up as it entered `eval`; the cell's initializer then passes to a waiter.

Outcomes, their fingerprints and the cache's contents are one bit per key:
written or not. The key of a call is chosen by the model.

### TestPipeline

`file` and `test` say where each file and each test is: on its way into a stage,
in a spawned task, working under permits, finished, in a parked send, in a
channel, collected. `InFlight` is what `buffer_unordered` holds, `Parked` a loop
that awaits room and so takes in nothing. Tasks are spawned, so they go on while
their loop is parked; that is why permits come back. `Holding` derives who has a
permit. A panic in a task freezes the run, as it ends the process. The
permit a test gives back inside `eval` is EvalHost's subject.

### Ticker

Each critical section is one step, and the notification, which the code sends
after letting the lock go, is a step of its own. `wait_timeout_while` tests the
flags before the clock. `age` and `quiet` are two clocks that saturate at the
interval.

### Children

`JobControl` is not code of the repository. It says what the code relies on: a
leader that ended stays until it is reaped; a stop is reported once, and not if
the child was continued first; only the foreground group sets the mode; the id
of a reaped child may pass to a stranger; a shell takes the terminal from a job
that stops, and gives it back or not. `tstp` is a stop sent to the host and not
delivered: a process with threads may run on until one of them acts on it.

`at` is where a child's spawn is, and from then on its waiter. `holder` and
`saved` are `HOLD`, `left` the mode that `follow_stop` keeps in a local,
`reaped` the flag under its own mutex.

| Actions | Code |
|---|---|
| `SpawnElsewhere`, `Reserve`, `Fork`, `ForkFails`, `HeldBy` | `spawn` and the reservation around it |
| `WaitForEnd`, `WaitId`, `TakeStop`, `Resume` | `Child::wait`, `follow_stops` |
| `FollowHeld`, `FollowOther`, `StopHost`, `BackHeld`, `BackOther` | `follow_stop`, cut where `HOLD` is let go |
| `Release`, `Sweep`, `Reap` | the end of `wait` |
| `Kill`, `GuestEnds`, `HostExits` | the handle, its drop, `restore_at_exit` |

What runs under `HOLD` is one step, so the shell does not act inside it. A mode
is named by the group that set it.

### The allocators

`FreeList` uses the code's own addresses and sizes, from a heap base of 0.
Memory is shared by tags, links and payloads, and is never wiped; what owners
write (`Data`) includes words that look like tags. A memory cell is eight bytes
as two words, which is the grain at which the code writes. The block layout,
the bins, `fl_push`, `fl_unlink`, splitting and merging are the code's functions
by name. Growing memory is a bound (`Top`) there, because `LinearMemory` models
it and is checked under `DebugAlloc`, with the page and the step scaled down.

Both allocators are shown to implement `Allocator`: blocks in use lie apart and
keep their contents across every call on other blocks. `Realloc` extends
`FreeList` and takes `DebugAlloc` in as `Debug!`. A program uses the one it was
compiled with; the other stays as it began.

### Kiln

What a record holds of an invocation's dependencies is a key: a version of the
generator, which all invocations use, and one of the source. The key stands for
the bytes generated from the two as well: `execute` hands the generator the
bytes it hashes. The generator also chooses, by the key, which files there are
(`Emits`) and which of them is the entry module (`EntryOf`).

`project` is what the run or the theorem is about: which invocations each
compile finds in its entry, which of them name one `output_dir`, and where the
sources begin. `disk` is what each output holds: a key's bytes, edited, or
nothing. `record` is the key in `<primary>.kiln.json`. Of each compile, `stage`
is where `run_pipeline` is, `held` the generator that `resolve_modules` left it,
`verdict` what came of each invocation (reused, reused though edited, not run,
run), `meta` the key of its metadata, and `left` the rest of the loop it is in.
Each read, rename or removal of one file is one step, so two compiles meet
between any two of them, and nothing keeps one from beginning, or a source from
changing, while another is under way. A compile runs the generator it resolved
at first on the source it reads later. `Stop` ends a pipeline anywhere, by an
error or a kill.

| Actions | Code |
|---|---|
| `Begin` | `resolve_modules` |
| `LoadRecord`, `MatchKey`, `CheckOutput`, `Reuse` | `cache_matches` and its three verdicts |
| `ConsumeOnly` | a host that cannot run generators |
| `Execute`, `WriteOutput`, `SaveRecord` | `execute`, the record after it |
| `BeginClean`, `VisitFile`, `EndClean` | `reconcile_outputs`, `walk_and_delete` |
| `Use` | the loader, by `record_redirects` |
| `EditGenerator`, `EditSource`, `Tamper` | the user, at any time |

`gens`, `srcs` and `crossed` are not code. The first two hold the versions that
were current since a compile began. `crossed[p]` holds the invocations in which
something came across `p`, against which the code has no lock:

- a source of the invocation changed while `p` and another compile were both at
  work on it, or `p` began beside a compile that had seen one change;
- one of its outputs was edited or removed while `p` was at work;
- a compile that shares its `output_dir` swept it while `p` was at work.

What the properties promise of a compile, they promise of the invocations it was
not crossed in. That takes in whatever it meets on disk when it begins: what
crossed compiles wrote, records of one with files of another, the remains of a
pipeline that was cut short. What the code does to a compile that is crossed is
told among the [divergences](#findings).

Bounds: all invocations use one generator and each reads one source; an edit
keeps the marker that says a file is generated; no invocation reads what another
one writes; directories are the same or apart, never one inside the other.

### TestCache

One run at a time. `at` is where a test file is: to be looked up, answered, or at
a step of its compile; `log` its `ReadLog` and `stamp` the run's `SourceWatch`,
which keep the first version read and whether a later one differed. `now` is
`InputCache`, read once a run and dropped with the process. A compile reads `lib`
twice and resolves the generator: from the index on disk if its source is the
one indexed, and otherwise by a build under a lock. `pinned` is what the first
resolution left for all others, with what that one read.

| Actions | Code |
|---|---|
| `Begin`, `ReadNow`, `Lookup`, `StartTests` | `run`, `take_hits`, `Input::now` |
| `ReadEntry`, `LoadLib` | the reads of a compile |
| `GetPinned`, `ReadGenerator`, `TryIndex`, `Build`, `ObserveClosure`, `Pin` | `resolve_local` and `GeneratorCache` |
| `RunTest`, `Store` | a test, `store_passes` |
| `BeginReport`, `Compare` | `SourceWatch::changed` |
| `Exit` | the end of the process, at any time |

What a test of known inputs comes to is fixed, unless it performs an effect: such
a test may pass or fail and is not cacheable. One package, a generator of one
source and one shared `lib` stand for all; absent files, prefixes, environment
variables and a rebuilt `wado` are left out. The disk may refuse the index of a
generator that was built. What resolving it read is then noted by nobody, and
the entry stored lists `lib` alone; `EntriesAreTrue` speaks of the entries that
list both, and the rest is one of the [divergences](#findings). With `EditsInBuild` off, the
generator's source is not saved while it is resolved; with it on, see
[Findings](#findings).

## Runs

| Run | Instance | States | Shows |
|---|---|---|---|
| `serve` | 3 requests, 2 workers, 2 in flight in all, recycle after 2, 1 fault; symmetric | 4.0 M | no job lost but to a fault; the bounds that size the pool |
| `serve_live` | 2 requests, 1 worker, 1 in flight, recycle after 1, 1 fault | 64 k | `HttpService` is implemented, with its liveness; handlers nobody reads end; recycling and shutdown finish |
| `serve_epoch` (`WorkerTime`) | 2 requests, timeout 2 s, grace 5 s | 25 k | the 504 precedes the trap; a trap under load is a runaway's; runaways end |
| `eval_host` | 2 tests of 2 calls, 1 key, 2 permits, 1 slow test | 547 k | one evaluation per key; panics surface; hung compiles leave the tests a permit |
| `eval_host_stall` | 2 tests of 1 call, 1 permit | | a finding |
| `ticker` | interval 3, 3 restarts | 1.1 k | no tick after a drop; a restart holds off; drops return; ticks go on |
| `realloc` | free list: sizes 1 and 60, 1 exact bin, 160 bytes of heap; debug: pages of 8, steps of 16, 50 bytes of address space, 7 host pages, aligns 1, 8, 16, sizes 1, 4, 9 | 618 k | tiling, merging, bins and contents; tags, poison, growth |
| `test_pipeline` | 3 files of up to 2 tests, all budgets 1 | 208 k | the memory budget, nothing lost, the run ends |
| `children` | 2 children, 3 stops in all | 521 k | no signal astray, the terminal and its mode come back, children are reported |
| `kiln` | 2 invocations, 2 compiles, 2 versions of the generator and of each source, own or one `output_dir`, up to 3 changes and 1 stop; symmetric | 3.7 M | what is loaded is there, whole and current; no orphans; what is up to date is left alone |
| `test_cache` | 2 test files, 3 versions, 1 of them with effects, 3 runs, 3 edits; symmetric | 9.8 M | entries are true, hits current, one generator a run, splits reported |
| `test_cache_build` | the same, with saves while the generator is resolved | | a finding |

Why the bounds are enough:

- `serve` needs two workers so that round robin stripes past one that is
  recycling, draining or dead, two requests on one worker so that one runs while
  the other is queued, and a third to meet the recycle limit. Liveness does not
  depend on the second worker, as each has its own queue.
- `serve_epoch` keeps the code's grace of 5 s. A timeout of 2 s gives deadlines
  that pass at different seconds; two requests let one be in flight while the
  other's leftover task runs.
- `eval_host` has one key, so that every call can share; a third party that
  arrives after an eviction is a test's second call. A budget of 2 is the least
  with a strand permit.
- `realloc` has, for the free list, room for five blocks of the smaller size, so both neighbours
  of a freed block can be free, used or absent; the two sizes fall in the exact
  bin and in the bin of large blocks, where a first fit splits. `Data` is one
  word, 32, which reads as the tag of a free block. For the debug allocator it has
  growth by doubling, by steps, rounded up to a power of two,
  and refused by the host and tried again.
- `test_pipeline` with all budgets at 1 makes every channel full and every loop
  parked with one file to spare; more permits only relax it.
- `children` has two children, so that one holds the terminal while the other
  waits for it, spawns, or uses it out of turn. Three stops let a child stop,
  stop again after it was continued, and meet a Ctrl-Z of the host.
- `kiln` has sources whose second version makes the other file the entry, as a
  grammar that is renamed does, and generates one file less, so either version
  leaves an orphan or a missing entry beside the other. The projects of the run
  are: both compiles on one invocation, with three changes (a source taken away
  and back again, an output touched in between) and a stop, which a later
  compile has to make sense of; one compile alone on two invocations, with their
  own directories or one, where one is cleaned up after while the other is
  reused (two changes, a stop); one compile on each of two in one directory
  (one and one); one on both beside one on one of them (one change); and both on
  both in one directory (a stop). The more there are, the fewer changes are made.
- `test_cache` needs one run to build the generator, one to store under it and
  one to answer. Of the three versions two can be told apart by what they
  generate, and the third has tests that may not be cached.

Deadlock checking is off where the system may stop: the server shuts down, the
test run ends, the ticker is dropped, the host of the children exits, the edits, stops and runs that bound `Kiln` and
`TestCache` are used up, and the debug allocator uses up its heap (it never
reuses memory, and a call that does not fit traps and ends the instance).

## Fairness

- `Serve`: weak fairness for the host's own steps. Tokio polls what is ready and
  timers fire. Nothing is assumed of clients. Nothing is assumed of guests
  either, except in `WorkersObey`, whose hypothesis
  `GuestAnswers` is written in the property: a recycle does wait for the guest.
- `ServeEpoch`: the clock and the trap. A guest need not yield.
- `EvalHost`: strong fairness for taking a CPU permit, because tokio's semaphore
  is first in, first out, so whoever waits gets one if permits keep coming back.
  Weak fairness for a test's own steps, which end by fuel and timeouts, and for
  threads that are not hung. A compile that hangs never ends.
- `Ticker`: both threads run and `tick` returns; the condition variable's
  timeout is promised only once the interval has passed. `KeepsTicking` also
  needs time to go on, and says so.
- `TestPipeline`: weak fairness of the whole next step. No step undoes another,
  so the run ends exactly if it never gets stuck.
- `Children`: each thread of the host runs while the host does. A child that
  keeps running ends. A stop sent to the host is delivered, and the user brings
  a host that stopped to the foreground; `bg` is never promised.
- The allocators are sequential and claim no liveness. Nor do `Kiln` and
  `TestCache`: a compile and a run are loops over what was there when they began,
  and may be killed at any step.

## Proofs

TLAPS proves these for every value of the constants that meets the module's
`ASSUME`s, from nothing else.

| Theorem | States |
|---|---|
| `ServeJobKept` | `TypeOK` and `JobKept`: a request that waits has its job queued or running, or its outcome sent |
| `ServeOnlyFaultsDrop` | only a trap or a failed build drops a job unanswered |
| `ServePoolBounds` | at most `MaxConcurrency` handlers run over the whole server, and no instance takes more than its share |
| `ServeImplementsSafety` | every step of the pool is a step of `HttpService`, or none |
| `EpochTimeoutPrecedesTrap` | with a grace of 2 s or more, no request in flight is answered by a trap's 500 before its 504 |
| `EpochBusyTrapIsARunaway` | a trap with requests in flight comes of a guest that held the thread for the whole timeout |
| `EvalTypeOK`, `EvalOneEvaluation` | one key is evaluated by one call at a time |
| `EvalPanicsSurface` | a run that is over met no panic of a compile, unless its call was dropped under it |
| `TickerInv`, `TickerRestartHoldsOff` | a wait ends in a tick only a whole interval after the last restart |
| `TickerNoTickAfterDrop` | once a drop returned, no tick runs or will |
| `PipelineAllReported` | each file and test is accounted for once a run is over |
| `PipelineModulesBounded` | the modules held never exceed the budget |
| `ChildrenTypeOK` | `TypeOK`, from the invariant below (`ChildrenInv`) |
| `ChildrenNoStrangerSignalled` | no signal reaches a group whose id was given away |
| `ChildrenNoneOutlives` | a reaped child leaves no descendant in its group |
| `ChildrenTerminalIsFollowed` | whoever holds the terminal has a thread that gives it back; a child in the foreground is the holder |
| `ChildrenTerminalComesBack` | the terminal comes back in a mode the host or a child that exited chose, at an exit too |
| `PipelineTypeOK` | where files, tests and stages may be |
| `KilnRedirectsResolve` | the entry modules a compile names are there when it loads them, but of invocations it was crossed in |
| `KilnNeverSilentlyStale` | and what it loads of them without a warning is, file for file, what one generator made of one source, both current while it ran |
| `KilnOrphansGone` | such an invocation, if it ran, leaves the files of its key and no others |
| `KilnStaysUpToDate` | no compile, but by sweeping a shared directory, loses, overwrites or generates again what is up to date |
| `CacheOneGenerator` | a run has one generator |
| `CacheHitsAreCurrent` | nothing is answered for what sources held before the run |
| `CacheSplitsAreReported` | a run without a change to report compiled one tree |
| `CacheEntriesAreTrue` | with `EditsInBuild` off, what is stored is true |
| `CacheTypeOK` | `TypeOK` |
| `DebugTagsAreLive` | freeing a block in use never traps, freeing any other address does |
| `DebugPoisonStays` | memory freed is not written again |
| `DebugImplements` | the debug allocator implements `Allocator` (`DebugKeepsBlocks`) |
| `DebugGrowthFits` | no allocation that fits in what the host grants is refused |
| `FreeListBlocksTile` | blocks tile the heap, their tags agree, those in use are those handed out, no two free ones touch |
| `FreeListBinsHoldTheFree` | a bin lists each free block of its size once and nothing else, with next and prev in agreement |
| `FreeListImplements` | the free-list allocator implements `Allocator` (`KeepsBlocks`) |

**Serve.** `JobKept` is not inductive alone: a worker that shuts down closes its
queue, and a job could still be on its way there. Two facts strengthen it.
`Connected`: whoever waits for a head has an open connection, and once the
dispatcher is dropped no connection is open, so nobody sends any more.
`ClosedIsEmpty`: a worker that saw its queue closed has nothing left in it. The
action property and the implementation of `HttpService` follow from the same
invariant. The theorem on `HttpService` covers its steps; its fairness is left
to TLC. `PoolBounds` has an invariant of its own. `Placed`: a queued job is in
the queue of the worker it was striped to and has been sent by its client, and a
running handler is in flight on that worker. `Sized` and `Counted` bound what
one worker holds and takes. The bound over the server follows by counting: the
running handlers map one to one into pairs of a worker and one of its slots.

**ServeEpoch.** The trap compares two clocks that tick once a second in either
order, so no bound on `left` alone is kept by every step: an epoch tick lowers
it at once, and the age of a request rises only as the second ends. `EpochInv`
bounds sums that both preserve. `TakenInTime`: what is left, the age of any
unanswered request in flight and this second's epoch tick make up at least the
whole deadline, as it was set anew when that job was taken, or later.
`TurnedInTime` bounds what is left from the last server tick the loop turned on,
and `HeldInTime` from the seconds a guest has held the thread. With `OverdueIsShort`, that a request past its
deadline has this second's server tick still to come, nothing is left to run out
before the 504. A `Grace` of 2 is the least: with 1 TLC finds the trap that comes
first.

**EvalHost.** That two calls with one key are not both evaluating rests on
`SlotsKept`: a slot that is not resolved and that some test waits on is the one
in the map. Its delicate case is a late leaver: `Leave` evicts only the slot the
test itself held (eval_host.rs:196), and that one is resolved. `OneFiller` says
that a slot has one initializer at a time, also when a dropped call hands it on,
and `Numbered` that a test inside `eval` has made a call, which gives a new slot
its name. For panics, `Accounted`: while the run is on, a compile whose thread
works, hangs or has panicked is awaited by its call, on the list to be joined,
or forgotten with its test.

**Ticker.** `WaitBeganAfterRestart`: unless a restart is still to be seen, the
wait in flight is no older than the last restart. So a wait that times out with
no flag set is a whole interval after it.

**TestPipeline.** Two invariants, proved apart. `Placed` and `Closed` say that a
file's stage and channel agree with where it is, and that a stage that returned
has nothing under way and nothing on its way to it (`CompileOver`, `LoadOver`,
`ExecuteOver`); under `--no-run` the execute stage returns before the load stage
does, which is sound because nothing is ever loaded (`NoLoads`). For the budget,
`HeldStep` shows that the set of permit holders grows only by a load task that
found a permit free: everything after passes the permit on with the module.

**Children.** The invariant has three parts beside `TypeOK`. `ProcInv` ties the
waiter's place to what the child's id names: a group is there to signal until
the step that reaps it, which also sets `reaped`. `HoldInv` ties the holder to
the stage of its thread and to the foreground group, across the steps of
`follow_stop` where `HOLD` is let go. `ModeInv` says that the saved mode, and the
mode of a terminal nobody holds, is one that may stay (`Chosen`). None of the
properties is inductive without them, as they say nothing of the stages before
the step that would violate them.

**DebugAlloc.** Above the frontier memory is fresh (`FreshAbove`); below it each
block in use has its tag and its data (`BlockKept`), the blocks with their tags
are pairwise apart (`BlocksApart`), and each tag belongs to a block in use
(`TagsOwned`). That an allocation ends within the address space is the guard
of `bump`. What was handed out is within the pages granted (`MemoryFits`).
For `DebugGrowthFits`, `PowerFor` is the least power of two that is enough; that
there is one follows by counting, since a set has no more members than subsets.
A growth covers the deficit in whole pages (`PagesHold`), and where the first try
is refused, the second asks for no more pages than any growth that fits needs.
`Page >= 8` is assumed, as the frontier begins at 8 within the first page.

**FreeList.** `FreeListInv` says that the heap is `Good` for some set `S` of
blocks, their sizes `sz`, the free ones `L`, and ranks `rk`; none of these is a
variable of the code, which keeps them in tags and links alone.
`Layout`: the blocks of `S` lie apart, and each but the first begins where one
ends. `Tagged`: both tags of a block tell its size and whether it is in `L`.
`Lists`: next and prev of a block in `L` agree, its neighbours are of its bin,
one without a prev heads the bin, and ranks descend along the links. The ranks
are the point: they make every list end and none pass a block twice, without
following it. `Holds`: the block of each payload handed out has room for it, and
it reads as its owner left it. `Parted`: no two blocks of `L` touch.

A call takes several writes, and between two of them the heap is not good.
`Open` is `Good` with the blocks that have tags (`T`), are linked (`L`) and are
owned (`U`) named apart, so that each function of the code is one lemma from an
open heap to another: `OpenUnlink` takes a block out of `L`, `OpenJoin` and
`OpenSplit` recut blocks without tags, `OpenUse` and `OpenFree` give a block its
tags and its place. Each shows that what is written is no one else's tag, link
or payload, by the layout. `MergeNextDoes`, `MergePrevDoes` and `CarveDoes`
compose them along the branches of the code.

The properties read the heap as the code does, by following it. `Listed` and
`Starts` are recursive functions; that they are what their definitions say is
proved from the existence of a function that satisfies the recursion, by least
counterexamples (`Iterates`, `StartsAre`). A list then holds just the blocks of
its bin (`ListedHolds`), by ranks, and no more of them than fit below `Top`
(`BlocksFit`), by counting.

`FreeListInv` quantifies over functions on the heap, which TLC cannot enumerate.
Its parts that speak of the heap alone are what `BlocksTile` and
`BinsHoldTheFree` check on the instance of `realloc`.

All theorems of both allocators are about `Realloc`: each of its behaviours is
one of either allocator, moving or not (`ReallocOfDebug`, `ReallocOfFreeList`).

**Kiln.** All four properties come from one invariant, `IInv`, about each compile
and invocation. `Beside` carries the argument about two compiles: one that is at
work beside `p`, on an invocation `p` is not crossed in, has seen no change of
it, and neither has `p`; so the key of each, if it has one, is the current one
(`OneKey`, by `Keyed`), and what one writes or keeps is what the other works on
(`Alike`, `OthersFile`). About what was on disk before, nothing is assumed.
`InHand` says of the loop in hand that every file visited so far is as the loop
leaves it; `Settled`, that what was reused or run is whole on disk; `Cleaning`,
that a file which is neither wanted nor gone is still to be visited. Each
invocation may share its directory or not: a sweep crosses who it meets.
`StaysUpToDate` follows because whoever works beside what is up to date has its
key (`AtCurrent`).

**TestCache.** `IInv` ties each reading to the time it was made in (`InTime`),
the versions used to the log and the watch (`Noticed`), and the compiles that
have a generator to the one pinned (`Resolved`). For the entries, `Undisturbed`
says that what a resolution read is what it resolved, which is where the
assumption comes in, and `PassesAreTrue` that a pass speaks for its log.

Only model-checked: liveness, which is beyond the prover. That is `KeepsPromise`
as far as the fairness of `HttpService` goes, `UnreadHandlerEnds`,
`FailedWorkerEndsServer`, `WorkersObey`, `RunawayEnds`, `TestsEnd`,
`DropReturns`, `KeepsTicking`, `RunEnds` and `ChildrenReported`. Every other
property of a passing run is a theorem.

## Findings

Two runs check what a comment or a document says, and find the code to differ.

1. `eval_host_stall`. eval_host.rs:102 says compiles that never end cannot stall
   the run. The call of a test whose time was already up on entering `eval` is
   dropped while it awaits the compile (test.rs:1852), so `abandon` is never
   reached, and a hung compile keeps its CPU permit without a strand permit.
   `TestsEnd` states the promise for the runs in which this does not happen.
   A panic of such a forgotten compile is lost as well, which `PanicsSurface`
   excuses.
2. `test_cache_build`. The source of a local generator is read to be compiled
   (kiln_provider.rs:1091), and noted only from a second read, after the build.
   A save in between leaves the log with a version the generator was not built
   from: the run reports no change, a pass is stored under the new source, and
   later runs answer the test from it. `EntriesAreTrue` holds with such saves
   excluded.

Divergences that the models show and that have no run of their own:

- docs/wep-2026-02-21-wasi-http.md:130 wants every wait a request makes to answer
  to something. Past the head, `HandlerTask::run` waits on the guest's next frame
  alone (serve.rs:498): a guest parked with its body open keeps its slot after
  its client has gone.
- terminal.rs:168 says that `stop_host` returns once the host is continued.
  `killpg` (terminal.rs:174) stops the process, not its caller: the stop goes to
  some thread of the host, and the one that called may run on. The waiter then
  continues the child, or hands it the terminal again, and the host stops after
  that.
- Invocations may name one `output_dir`. The cleaning keeps only what this
  compile ran (driver.rs:1306), so it deletes the outputs of a neighbour that it
  reused, or that is not in its entry: the redirect is recorded and its file is
  gone, against driver.rs:795 and docs/spec-kiln.md:753, and the neighbour's file
  carries the header but belongs to another invocation (docs/spec-kiln.md:582).
  `kiln` explores it. A compile is crossed in what is swept while it is at work,
  its own sweep included, and `StaysUpToDate` excepts a sweep; everything else
  the properties say holds in a shared directory too.
- Compiles that overlap on one invocation may be at different versions, as when
  an editor compiles on save while a terminal's compile of the version before is
  under way. Nothing locks the directory. The earlier one may execute, the later
  one then run whole and record it, and a late write of the earlier one
  (driver.rs:303) replaces what was recorded, or leaves a file only its own
  version has; its cleaning (driver.rs:624, from driver.rs:1342) removes what it
  does not generate itself, the entry included if the versions name it
  differently. The later one then loads old bytes without a warning, or misses
  its entry, against driver.rs:795 and docs/spec-kiln.md:753. Without `crossed`
  TLC violates `RedirectsResolve`, `NeverSilentlyStale` and `OrphansGone` in
  traces of about eleven states. The properties except only the compiles that
  overlapped; one that begins after them, at whatever they left, is safe.
- A pipeline cut short between an output and its record leaves outputs the record
  does not describe, and so do compiles that crossed each other. If the source
  then is at the recorded version, or goes back to it, a later compile takes them
  for hand edits and uses them, with that warning (`modified`), though they are
  stale.
- "Best-effort: a refusal costs the next run a rebuild" (kiln_provider.rs:298)
  says less than it costs. The sources of a generator that was built are noted by
  reading the index back (kiln_provider.rs:268). If the disk refused it, the
  tests that use the generator are stored without its source, and an edit of the
  generator does not run them again. `TestCache` has such entries.
- A compile killed after its record and before its cleaning leaves orphans until
  the invocation runs again. `OrphansGone` speaks of compiles that end.
- `SourceWatch` begins after the lookups (test.rs:2606): a save during the run of
  a source that only answered files read is not reported. `SplitsAreReported` is
  about the files that were compiled.
- The comment at serve.rs:824 says a healthy worker never trips the epoch
  deadline. An idle worker's loop does not turn on the tick (serve.rs:876), so a
  leftover task that wakes past the deadline traps the store at once. Nothing
  in flight is lost then; that is `BusyTrapIsARunaway`, which holds.
- allocator.wado:277 calls its test of the header a double-free guard. The
  header of a block merged into the one before it keeps its used bit, and the
  guard lets a second free of it through. `FreeList`'s callers free once.
- A host continued by `bg` after a child's Ctrl-Z takes the terminal with
  SIGTTOU blocked, from the shell that has it (terminal.rs:163, the last branch
  of `BackHeld`).
- `restore_at_exit` tries the lock once (terminal.rs:239), for a thread that is
  in a hand over. A thread that merely looks makes it fail as well, and the
  terminal stays with the child. `HostExits` is the exit where the lock is free.
- A restart that lands after the ticker let its lock go does not hold that tick
  off (ticker.rs:55).
- The documentation of `run_execute_stage` says its jobs are not spawned
  (test.rs:1437) where they are (test.rs:1495).

## What is not modelled

Within the modelled components:

- `Serve`: frames of a response body and their stall timer (planned as
  `ServeBody`); h2 streams that outlive their connection's task; the branch of
  `before_deadline` for a ticker that is gone; fuel and the profiler.
- `EvalHost`: what an evaluation computes, and what makes a cache entry hold.
- `TestPipeline`: the order within a channel; more than one package; reports.
- `Children`: errors of `waitid` and `tcsetpgrp`; a waiter's thread that does not
  start after its child did; SIGTERM by the handle, which is a child that ends;
  the pipes of the streams. An orphaned host in the background leaves a child
  that uses the terminal stopped, as the documentation admits
  (wep-2026-10-21-core-process.md:563), and `ChildrenReported` excepts it.
- `Kiln`: output directories inside one another, which `walk_and_delete` walks
  too; several sources of an invocation, read one after the other; a generator
  of its own for each invocation; `--no-cache`, which takes a record for absent;
  power loss, for
  `write_atomic` does not sync (atomic_write.rs:41).
- `TestCache`: generators of packages and registries; several packages.
- `FreeList`: growth of memory (in `LinearMemory`); the caller's copy when a
  block is resized, which is an allocation and a free.

Whole components, each with its reason in `PROJECT.json`:

- Functions of one input with no state over time: lexer, parser, formatter,
  language services, codecs, numbers and text, documentation, queries. The
  repository tests them by example and by conformance suites, and a model would
  repeat them.
- Rewrites of whole programs: elaboration, effect and ownership checks,
  lowering, monomorphization, optimizer, code generation. Their properties
  speak of unbounded programs; small instances say little.
- Decided elsewhere: sandbox policies (the kernel), version solving (PubGrub),
  checkouts (git), the bundled ICU and libm.
- Glue, option parsing, developer tools, editors and other thin hosts.
- Packages written in Wado, each an application of its own.

## Plan

In order, by what the code has most to lose.

1. `ServeBody`: frames, the stall timer and a client that leaves, composed with
   one handler of `Serve`.
2. `WaitableSet`: copies in flight and the tables of reports. Abstract
   specification: each copy finishes once, with what it carried, and each finish
   is reported to the one who waits. Then handles that are used again.
3. `EntryMap`: an insertion-ordered map as the abstract specification, the hash
   index and the tree index over one log as two implementations of it.
4. `Pins`: several compiles and processes on one wado.lock; every compile that
   ends well used the pin that stays.
5. `Derive`: the solver's derived bounds as a fixpoint, against its definition.

Proofs to add: the safety of each new module, with its refinement.

The two passing runs of `Serve` differ in bounds only, and can become one if
the state space of the larger is cut.
