# TLA+ models of the pika local concurrency core

This directory holds TLA+ models of the concurrency core of this repository,
the TLC configurations that check them, and `PROJECT.json`, which records the
components, the runs, the mutants, the source lines each definition models,
the findings and the hazards.

## 1. Inventory

### Components

| Component | Source | State it keeps | Operations |
|---|---|---|---|
| Bounded channel | `synchronization/include/pika/synchronization/channel_mpmc.hpp` | `buffer_` (size_ = capacity + 1 slots), `head_`, `tail_`, `closed_`, `mtx_` | `set` (try_push), `get(&v)` (try_pop), `get()` (peek), `close`, destructor, moves |
| Join combinator `when_some` | `async_combinators/include/pika/async_combinators/when_some.hpp` | `values_` (inputs and `indices`), atomic `count_`, `needed_count_`, atomic `goal_reached_on_calling_thread_`, spinlock `mtx_` | `when_some(n, ...)` overloads; the callback walk `set_when_some_callback_impl`; `on_future_ready`; `when_some::operator()` (the join task) |
| Shared completion state | not under `src/` (spec.md 4.1) | ready tag, value/error, stored continuations | `is_ready`, `execute_deferred`, `set_on_completed`, `set_value` |
| Worker pool elasticity | `thread_pool_util/src/thread_pool_suspension_helpers.cpp` | none of its own; reads the pool's scheduler mode and the caller's pool; the pool's per-unit active/suspended state lives in `thread_pool_base` (not under `src/`) | `suspend/resume_processing_unit` (awaitable and `_cb`), `suspend/resume_pool` (awaitable and `_cb`) |
| Binary semaphore | only its test, `synchronization/tests/unit/binary_semaphore_cpp20.cpp`; behaviour from spec.md 4.5 | permit 0/1, waiters | `acquire`, `try_acquire`, `try_acquire_for/until`, `release` |
| Runtime configuration | `runtime_configuration/src/runtime_configuration.cpp` | ini entries, the four cached stack sizes, the lazily cached `num_os_threads` (plain `mutable std::uint32_t`), `need_to_call_pre_initialize` | constructor, `reconfigure` (three forms), `init_stack_size`, `get_stack_size`, `get_os_thread_count`, other one-entry getters |
| Log message | `logging/include/pika/logging/message.hpp` | `m_str` (a `std::stringstream` with its get position), the mutable cache `m_full_msg` and its flag `m_full_msg_computed` | constructors, move constructor, `operator<<`, `format`, `full_string`, `empty`, stream insertion |
| Peripheral code | version, execution information, resource partitioner example, tests of senders, serialization, program options, CUDA | configuration maps, strings | sequential; out of scope (spec.md 1) |

### How they interact

`when_some` registers a continuation (`on_future_ready`) on the shared state
of every input that is not ready yet; the thread that completes an input runs
that continuation, which counts the input, records its index under the join's
spinlock and, at the n-th count, resumes the join task (or sets the goal flag
when the continuation runs on the join task's own thread). The join task
itself runs as a new pika task (`futures_factory::apply`) and suspends
cooperatively until then. The elasticity helpers check the pool's mode bits
and the caller's context, then hand the direct suspend/resume call to a new
pika task or a detached OS thread and fire the caller's callback after it. The
channel and the semaphore are leaves: every channel call holds one spinlock
for its whole body and never blocks.

### What is hard

* `when_some`: the walk of the join task races the completers' callbacks on
  `count_`, `indices` and the goal flag; a future can complete between the
  walk's ready check and `set_on_completed`, which then runs the callback
  inline on the join task's thread; the resume can be issued before the join
  task has suspended; nested ranges make the number of futures differ from
  the number of arguments the bounds check counts.
* channel: unsigned index arithmetic at the wrap-around and the full/empty
  boundary; the sequence of close with later pushes and pops.
  The lifetime of the slot objects across construction, moves and
  destruction.
* elasticity: concurrent suspend and resume of the same unit; a unit
  suspending itself; callbacks that fire after the call returned.
* semaphore: a release racing a timed acquire's deadline; releases that must
  not accumulate.
* log message: a cache filled by a `const` member and invalidated by every
  write and by the move; printing consumes the stream's get area.
* runtime configuration: a cache filled by a `const` getter in two racy
  stores and never invalidated by `reconfigure()`; stack sizes parsed by
  `strtoll` with base 0 (octal, hex, signs, garbage) from environment and
  command-line texts.

### What makes each component correct

* channel: FIFO order without loss or duplication; a push fails exactly when
  `capacity` items are stored or the channel is closed, a pop exactly when it
  is empty or closed; a second close fails.
* `when_some`: every input recorded at most once; exactly one party ends the
  join task's wait; the join returns only after n inputs are counted, always
  returns, and returns exactly n indices.
* elasticity: preconditions enforced; suspend and resume of one unit resolve
  to the last request; no caller's own request leaves it (or its job)
  without a unit to run on.
* semaphore: at most one permit; one acquire per release; a timed acquire
  fails only when no permit was available up to its deadline.
* runtime configuration: what a getter returns is what the current entries
  give.
* log message: `full_string()` is the whole text written so far.

## 2. Plan

1. `BoundedChannel` + `AbstractChannel` (done): the ring buffer and the
   abstract FIFO it refines.
2. `WhenSome` (done): the join engine with the completion callbacks and the
   part of the shared completion state they use.
3. `PoolSuspension` (done): the eight entry points of
   `thread_pool_suspension_helpers.cpp` with the caller's context, the mode
   bits, the launched direct calls as separate jobs, and the per-unit state
   of `thread_pool_base` (from spec.md).
4. `BinarySemaphore` + `SemaphoreTests` (done, spec-modelled semaphore):
   the permit, the waiters, a discrete clock with deadlines, driven by the
   unit test's own programs.
5. `RuntimeConfiguration` (done): construction, reconfiguration, the stack
   size parse and the thread-count cache.
6. `LogMessage` (done): the logging message with its cached full string.
   `ChannelLifetime` (done): the channel's constructors, moves and
   destructor, with the lifetime of the slot objects.
7. Open: compositions (a producer/consumer pair over `BoundedChannel`
   signalled by `BinarySemaphore`, as spec.md 4.4 describes; a `when_some`
   over inputs completed by tasks of a pool being suspended). No code under
   `src/` builds either composition, so they would model usage, not this
   repository. An abstract semaphore for `BinarySemaphore` to refine is not
   planned: the semaphore is itself modelled from spec.md.

## 3. Modules

### `AbstractChannel`
What spec.md 4.4 promises: a FIFO `queue` of at most `Capacity` items, a
`closed` flag, and `ret` (the last call and its boolean result). Items are
`1, 2, ...` in push order (`nextItem`), popped ones are appended to
`received`.

### `BoundedChannel`
`bounded_channel` line by line: `buffer` (slot -> item), `head`, `tail`,
`closed`; `IsFull`, `IsEmpty` and `Advance` are the code's index arithmetic.
Actions `Set`, `Get`, `Peek` (`get(nullptr)`), `Close` each are one whole
call under `mtx_`, including the failing paths. The channel is shown to
implement `AbstractChannel` with the queue read from head to tail
(`Abs == INSTANCE AbstractChannel WITH queue <- Contents`).
The destructor and the moves are in `ChannelLifetime`.

### `ChannelLifetime`
The lifetime side of `bounded_channel`: per channel object `phase`
(unborn, live, dead), `size` (`size_`), `buf` (the buffer its `buffer_`
owns, named by the channel that allocated it, or `Null`) and `closed`; per
buffer slot, `alive` (a `T` object lives there); `ub` records undefined
behaviour. `Construct` is the constructor (`new T[size + 1]` and the
placement-new loop), `MoveConstruct` and `MoveAssign` the two moves (the
unique_ptr assignment deletes the target's old buffer), `Destroy` the
destructor with its explicit `~T()` loop over `size_` slots, the `close`,
and the member destructors (`delete[]` of the buffer). `Destroyed` and
`UBOf` are one `~T()` pass. Items, head and tail are left out; threads
racing a destructor are not modelled (a use after free whatever the code
does).

### `WhenSome`
Actors: the caller (`WhenSomeCall`: n == 0, n > size, launch), the join task
(`wpc`: `WLoad` the `count_` load, `WCheck`/`WExecDeferred`/`WRecheck` the
ready checks, `WRegister` `set_on_completed`, `WInlineDone`, `WPush`/`WAdd`
the ready path, `WFlag` the flag test and suspension, `WResumed`), and per
async input a completer (`Complete`) whose callback runs `OnReadyAdd`
(fetch_add), `OnReadyPush` (locked push_back), `OnReadySignal` (resume or
flag). `Groups` describes the arguments: a 1 is a future, a k is a nested
range of k futures. Input kinds (already ready, async, deferred) and `n` in
`0 .. TopCount + 1` are chosen in `Init`. The walk visits the futures in
order, but the index it records is `IdxOf(i)`, the code's `idx_`. A nested
range is walked by a copy of the walker (`std::for_each` takes `*this` by
value), so `idx_` counts only the top-level futures before it plus the
position inside the range. A range of exactly one future cannot be written
in `Groups` (a 1 is a future).

Assumption from outside `src/`: `ctx.resume()` on a task that is still
running is deferred by the runtime until it suspends, so `resumes` is a token
the suspended join task consumes. `set_value` takes the stored callbacks
under the shared state's lock, so completion and `set_on_completed` are
atomic with respect to each other.

Fairness: weak fairness for the join task, each async input's completion and
each callback: the pika scheduler eventually runs every ready task. Deferred
inputs are run only by `execute_deferred`.

### `PoolSuspension`
State: `mode` (pool -> its mode bits, chosen in `Init`), `active` (pool ->
unit -> active), `calls` (per caller), `last` (per caller: the form and how
the last call ended: thrown, exceptional future, error code, launched) and
`jobs` (launched direct calls: queued, applied, done). One operator per entry
point (`ResumeProcessingUnit`, `SuspendProcessingUnitCb`, `ResumePool`, ...)
gives the result of its checks in the code's order; `Call` makes one call,
`RunDirect` runs the launched `*_direct` operation, `Complete` readies the
future or runs the callback. `CanRun` is the spec-modelled scheduling rule of
`thread_pool_base`: a pika task runs only on an active unit of its pool (any
unit with stealing, its own otherwise); OS threads always run. The code's
self-suspension check compares pools (`this_thread::get_pool() == &pool`),
which is stricter than spec.md's "the calling unit"; the model follows the
code. `SelfRequestsKeepCallerRunning` (an action property) states what those
checks are for: when a job's direct call takes effect, its caller, if it
could run before, still can. The one exception is a suspension of the last
active unit of a stealing pool, which is the gap `pool_last_unit` shows. With
one call per caller the exception is still reached: the OS thread suspends
unit 1 of the task's pool, then the task suspends unit 0. The property fails
as soon as either check (the stealing check of `suspend_processing_unit` or
the pool check of `suspend_pool`) is dropped.

Fairness: weak fairness per launched job step: the scheduler runs every
runnable task and a detached `std::thread` always runs.

### `BinarySemaphore` and `SemaphoreTests`
The semaphore's code is not under `src/`; `BinarySemaphore` models spec.md
4.5 (a permit capped at 1, `release` notifies one blocked waiter, a notified
waiter rechecks, a timed waiter gives up at its deadline) with a discrete
clock `now` (one tick is 100 ms of the test). Threads run straight-line
programs (`Program`): each step is one call with its expected result;
`failures` collects the steps whose result differs from what the test checks.
`SemaphoreTests` writes `binary_semaphore_cpp20.cpp` as such programs
(`TestSemaphoreTryAcquireFor`, `PikaMain`, ...), one operator per test
function. Fairness: weak fairness per thread and for the clock (sleeping and
timed threads are woken by the runtime's timers).

### `RuntimeConfiguration`
Entries are sequences of one-character strings; only the five entries these
members read are modelled. `StrToLL` is `std::strtoll(s, &end, 0)` for texts
too short to overflow (blanks, sign, `0x` only when a hex digit follows,
leading `0` octal), so that the cached sizes are the ones the code parses.
`Init` is the constructor
with `pre_initialize_ini` (`StaticDefaults`: the stack entries expand
`${HPX_<KEY>_STACK_SIZE:default}` from the environment) and its two
assertions (`aborted`: a debug build stops). `Reconfigure` is `reconfigure()`
(the command-line definitions replace entries, the small-size assertion, the
four sizes re-read; `num_os_threads` untouched), reached through
`ReconfigureCmdline` and `ReconfigureIniFile`. `get_os_thread_count` is three
steps per thread, `OsCheck` (the load, and the store of 1, which a compiler
may drop as dead), `OsFill` (the store of the entry's value) and `OsReturn`
(a second load): the member is a plain `mutable std::uint32_t`, so other
threads' loads and stores interleave. `get_entry_as<std::uint32_t>` is in the
ini module, not in this repository: `GetEntryAsUInt32` assumes the whole
text must be a decimal number, else the default. `GetStackSize` is `get_stack_size`
and `GetDefaultStackSize` the header's inline `get_default_stack_size()`
(the cached small size).

### `LogMessage`
One model value per `message` object (`Msgs`); `live` holds the constructed
ones (`Init`: default-constructed or from a stream holding one of `Texts`;
the others come to life as targets of `Move`). Per object: `str` (the
characters in `m_str`), `gpos` (how many its get area has handed out),
`computed` and `full` (the cache). `Write` is `operator<<` and `format` (the
text appended, the flag cleared; `format_to`'s formatting is abstracted to
the text it writes). `FullString` is `full_string()` and `empty()` when the
cache is not valid (a valid one is returned without a state change). `Move`
is the move constructor; the moved-from stream and string are left empty as
libstdc++ leaves them. `StreamOut` is `os << m_str.rdbuf()` on one log stream
(`out`, `failbit`): the sentry stops it on a failed stream, otherwise the
unread characters are copied, and when there are none `failbit` is set.
`FullStringCurrent` says the cache is valid only while it equals the text.
No type invariant is checked: no change to `message.hpp` could put a
variable outside its type (the get offset never passes the end of a
`stringbuf`).

## 4. Runs

| Run | Checks | Result |
|---|---|---|
| `channel` | `TypeOK`, `ItemsInPushOrder`, `ImplementsAbstractChannel` | pass |
| `when_some` | `TypeOK`, `IndicesDistinct`, `SingleWaker`, `ReturnOnlyAtGoal`, `WaiterHasWaker`, `JoinCompletes` | pass |
| `when_some_at_most_n` | `ResultAtMostN` | violation: n + 1 indices returned |
| `when_some_at_least_n` | `ResultAtLeastN` | violation: fewer than n indices returned |
| `when_some_nested_empty` | `WaiterHasWaker` | violation: join task never resumed |
| `when_some_nested_index` | `IndicesDistinct` | violation: a future after a nested range reuses an index |
| `pool_suspension` | `TypeOK`, `SelfRequestsKeepCallerRunning`, `UnitRequestsRespectElasticity` | pass |
| `pool_last_unit` | `RequestsComplete` | violation: a task suspends its pool's last unit |
| `semaphore_tests` | `TypeOK`, `TestsPass`, `NoLostWakeup`, `ProgramsFinish` | pass |
| `os_threads_count` | `OsThreadCountCurrent` | violation: a stale or half-written thread count |
| `log_message` | `FullStringCurrent` | pass |
| `channel_lifetime` | `SlotObjectsDestroyedOnce` | violation: the destructor destroys every slot object twice |

Bounds. Channel: capacity 2 (3 slots) and 5 pushes, so head and tail wrap
and the channel is full more than once; all calls are atomic under the lock,
so more threads add no behaviour. `when_some`: three futures, every mix of
ready/async/deferred and every n in 0..4 (both early returns, n = 1, 2, 3);
the races found need two concurrent completions and one ready input, so three
inputs are the smallest that show them. The nested run uses `<<1, 0>>` (a
future and an empty range), the smallest input that shows the hang; the
nested-index run uses `<<2, 1>>` (a range of two futures, then a future), the
smallest in which a future follows a non-empty range with n <= 2.
`when_some` stops when every actor has returned, so its runs do not check
deadlock; `JoinCompletes` checks that it stops in the finished state.

Elasticity: two pools of two units, an OS thread and a task of pool `pa`,
every mode combination, one call each (every entry point against every
pool and unit, so every check and failure path; two calls per caller take
23 minutes, and the one-call run already reaches a caller stranded by its own
request after the other caller's, the case the action property's exception
is about); the liveness run lets the
task make two calls, enough to suspend both units of its own pool. The
runs stop when every call is done, so deadlock is not checked.
Semaphore: the whole unit test (both initial permits of a default-constructed
semaphore) and then two timed acquires of 300 and 200 ms against two
releases 100 ms apart, so a release can land on either waiter, before or
after the other's deadline; the clock stops at 4.4 s (`MaxTime`), after
every deadline of the programs. The programs end, so deadlock is not
checked; `ProgramsFinish` checks that `pika_main` returns.
Runtime configuration: the thread-count violation run; the medium size's
environment text is `-1` or `0x` (a negative size, and a prefix with no hex
digit), up to two reconfigurations are chosen from a huge size above the
default, an unparsable large size and the thread counts 2 and -1, and two
threads ask for the count. An assertion stops the program, so deadlock is
not checked.
Log message: two objects, a starting text of one character or none, writes
of one character or of nothing, at most three characters per object: every
order of write, cache fill, print, second print and move, including a move
of a message whose cache is valid and a write after a fill. A write of
nothing is always enabled, so the run checks deadlock.
Channel lifetime: two channel objects of capacity 1 (two slots each), so a
channel can be moved into an unborn one or assigned over a live one, and
either destroyed before or after the other; the moves and destructions end,
so deadlock is not checked.

## 5. Findings

1. `when_some` can return n + 1 indices: the walk reads `count_`, a callback
   reaches n, then the walk pushes its index.
2. `when_some` can return fewer than n indices: a callback has incremented
   `count_` but not yet pushed when another party reaches n and the join
   returns; the late push then writes into the moved-from result.
3. `when_some(2, f, empty_range)` passes the bounds check (two arguments)
   but can count only one future, so the join task is never resumed.
4. With stealing enabled, a task may suspend every unit of its own pool one
   call at a time; the last job then has no unit to run on and the request
   never completes (this rests on the spec-modelled `thread_pool_base`).
5. `get_os_thread_count()` fills a plain `std::uint32_t` in two stores and
   `reconfigure()` never resets it: a concurrent first call can return the
   placeholder 1 (the run's trace), and a reconfiguration between the fill
   and the return, or after it, is not seen (the same property fails with
   one thread).
6. `~bounded_channel()` runs `~T()` on every slot and then the
   `std::unique_ptr<T[]>` member `delete[]`s the buffer, running `~T()` on
   every slot again: every destroyed channel destroys its slot objects
   twice (a double free for any `T` owning memory). Move assignment also
   leaves the source's `size_` while taking its buffer, so destroying the
   moved-from channel runs `~T()` through a null buffer.
7. `when_some(n, std::vector{a, b}, f)` records `f` under the index of `a`:
   a nested range is walked by `std::for_each(begin, end, *this)`, a copy
   of the walker, so the walker's own `idx_` does not move past the range
   (`when_some.hpp:317`). With `a` and `f` ready the result holds index 0
   twice; spec.md says no index repeats.

Observed while modelling, not checked by a run: `suspend_pool` and
`suspend_pool_cb` never check the elasticity bit and suspend every unit of a
pool without it (spec.md 3 and 4.3; one call shows it, and
`UnitRequestsRespectElasticity` states the part the processing-unit forms
keep); `suspend_processing_unit_cb`
throws on the self-suspension check instead of setting `ec` (spec.md 7);
`reconfigure()` drops the constructor's `huge_size <= HPX_HUGE_STACK_SIZE`
assertion, so a `--pika:ini` huge size above the default is cached (one
call shows it); stack sizes of 0 or below (`-1`, `0x`) are accepted for the medium,
large and huge sizes; `close()` returns 0, not the item count spec.md 4.4
promises, and the items left in a closed channel are unreachable (the model's
`Close` returns 0; a unit test shows it, so no run is spent on it); printing a
message a second time, or an empty one, inserts nothing and sets `failbit` on
the log stream, which then drops every later print (`StreamOut`'s first branch;
nothing says what a second print should do); `lcos::when_some_n`
(`when_some.hpp:580`) forwards to `pika::when_some(n, begin, count)`, not to
`when_some_n`: the two-iterator overload cannot deduce one `Iterator` from an
iterator and a `std::size_t`, so the variadic overload takes the iterator and
the count as two inputs, for which the callback walk has no `operator()`; a
call does not compile. `runtime_configuration.hpp` declares
`enable_global_lock_detection()`, which `runtime_configuration.cpp` does not
define (a call fails to link).

## 6. Not modelled

Version and serialization code, the resource partitioner example
and the tests of senders, program options and CUDA (out of scope per spec.md
1, sequential string processing or I/O); the executor customisation points
(compile-time dispatch). Threads calling `set` or `get` on a channel while
it is destroyed (a use after free the owner must prevent; `ChannelLifetime`
models the destructor and the moves with one owner per channel). `thread_pool_base` itself beyond the rule of which task may run
(not under `src/`). The semaphore's timing checks of the unit test that
compare elapsed wall-clock time (the model's clock has no jitter to
compare). The deprecated `lcos::` forwarders of `when_some`. In the runtime
configuration: the one-entry getters (itt-notify, lock and deadlock
detection, spinlock limit, trace depth, thread pool size, command line),
`load_application_configuration` and `pre_initialize_logging_ini` (they
only add the `[application]` and `[hpx.logging.*]` sections, which no code
under `src/` reads back, through the ini parser, which is not in this
repository), the `use_ittnotify_api` global of ITT-notify builds, the
ini-file and
`strtoll`'s overflow (the texts explored are too short to overflow).
