# A TLA+ development of vmon

vmon samples the statistics of libvirt virtual machines. It reads requests
from stdin, or polls on its own, lets a pool of threads ask libvirt, and writes
JSON responses to stdout. This directory holds TLA+ models of its components,
the TLC configurations that check them on small instances, and proofs
checked by TLAPS.

Paths below are those of the repository: `lib/` and `src/` hold the code,
`tests/` its tests, `contrib/jsmn` the vendored JSON tokenizer.

## Inventory

| component | state | operations | modelled in |
|---|---|---|---|
| ring buffer, `lib/ringbuffer.c` | element array, `start`, `end`, `used`, `waiters`, a mutex and a condition variable | init, clear, put, get (blocks), full, empty | `RingBuffer`, promise in `BoundedQueue` |
| executor, `lib/executor.c` | a ring buffer of tasks, `workers[]` (thread, `sched_id`, `current`), `running` | start, dispatch, worker loop, discard, replace, stop | `Executor`, promise in `TaskPool` |
| scheduler, `lib/scheduler.c` | GLib context, loop, thread | start, run, stop, add, del | `Scheduler` |
| sampler, `src/sampler.c`, callbacks of `src/vmon_int.c` | a `VmonRequest` per task, references to domains, statistics records | handle/send request, list domains, sample a domain, bulk sampling, collect | `Sampler` over `TaskPool` |
| request parser, `src/sampler.c` | token index, the `SampleRequest` being filled | one pass over the tokens | `SampleRequest` |
| main program, `src/vmon.c`, `src/vmon_int.c` | options, log file, libvirt connection, scheduler, input watch | start-up, input and polling callbacks, shutdown, log | `Vmon` |
| VM information, `lib/vminfo*.c` | `VmInfo` with arrays per vcpu, block device and interface, embedded or from the heap | init, set-up, parse, threshold events, print, free | `VmInfo` |
| events, `lib/threading.c` | flag, waiter count, condition variable | set, clear, is_set, timed wait | `Event`; only the tests use it |
| tokenizer, `contrib/jsmn` | - | - | external |

How they interact. The main thread runs a GLib main loop. Its callbacks
(`vmon_io_callback`, `poll_libvirt`) turn a line or a tick into a task for the
executor. Worker threads block in `ringbuffer_get`, take a task, arm a timer
with the scheduler, publish the task in their `Worker` and call its work
function; `list_domains_work` dispatches further tasks from a worker thread.
When a timer expires, the main loop runs `worker_discard`, which writes a flag
through the published pointer and gives the `Worker` to a new thread. The old
thread is not stopped: it comes back from libvirt some day and goes on with
the same `Worker`. Nothing but the ring buffer is protected by a lock.

What is hard here:

* the wakeups of the ring buffer: one signal per put, and only when `waiters`
  says somebody sleeps;
* the unprotected `Worker`: timers race the assignment and the clearing of
  `current`, a late thread deletes the timer its successor armed, and
  `worker_init` clears the structure under a live thread;
* shutdown: one stop token per slot, more threads than slots, a queue that
  may be too full for the tokens, workers that are not waited for;
* a full queue in the middle of a request;
* the scheduler's two modes, whose contexts number their timers separately;
* a parser that compares prefixes and skips single tokens;
* the life of the process: log, connection, scheduler and workers acquired in
  order, any of which may fail, and released while threads that nobody waited
  for still use them;
* the arrays of a `VmInfo`, whose place is decided once from a count and
  looked up again by every later loop;
* a timed wait with one signal per set.

PROJECT.json lists these hazards line by line with the properties that watch
over them.

## Modules

**`BoundedQueue`, `RingBuffer`.** `BoundedQueue` is a FIFO queue with a
capacity and a set of blocked getters. `RingBuffer` has the fields of
`struct RingBuffer`; a step is one critical section, so `ringbuffer_get` is
`GetEnter` (up to the first `pthread_cond_wait`) or `GetResume` (from a return
of it). The condition variable wakes any one sleeper, or one spuriously.
`rb_item_at` computes the byte offset in an `int`: element numbers are taken
modulo `OffLimit`, and `OffsetAssumption` says for which sizes that is
harmless. The refinement maps the elements from `start` on to the queue and
the sleeping or woken threads to the blocked ones.

**`TaskPool`, `Executor`.** `TaskPool` is what a caller of
`executor_dispatch` may rely on: a task is refused, or queued and then taken
in order, and then reported once. `Executor` is the pool itself. One step is
one access to shared memory, so that every interleaving of worker threads and
timer callbacks is there: `Fetch`, `ringbuffer_get`, `scheduler_add`,
`SetSchedId`, `SetCurrent`, `WorkReturns`, `TestDiscarded`, `ReadSchedId`,
`DeleteTimer`, `Collect` are `worker_execute` (the test of the flag, the read
of `sched_id` and the deletion are three accesses, and a discard may fall
between any two); `worker_discard`, `FlagDiscarded`, `WipeWorker`,
`CreateThread` are a timer callback up to `pthread_create`; and
`executor_stop`, `executor_stop_worker`, `JoinCheck`, `pthread_join`,
`StopReturns` are the shutdown. The flag of `worker_discard` may be
written through the pointer that was tested or through one read again, since
the compiler may do either. The task queue is a sequence here: that is what
the ring buffer's refinement allows. The
control thread starts the pool, runs the callbacks and stops the pool after
its main loop has ended, which is how `main` does it. Reading a `Worker` that
was just cleared sets `crashed`, after which nothing moves.

**`Scheduler`.** The GLib context is external: a set of numbered sources, one
callback at a time, a source dropped when its callback returns FALSE.
`scheduler_run` is split at the points where another thread can see the
context, the loop and the loop's flag. Both modes are in one model; the mode
is chosen in the initial state. vmon uses the integrated one, the tests the
standalone one. `early` remembers a `scheduler_stop` that came before the
thread ran its loop. When the loop is told to quit, GLib still dispatches the
sources that are ready in the iteration under way: `StopQuit` chooses them
(`ready`).

**`Sampler`.** A task is a request, or a request and a domain. Its executor
is `TaskPool` (an instance whose actions are used directly), so the two
modules meet in that specification: `Executor` implements it, `Sampler`
relies on it. libvirt may fail or answer; `silent` has the tasks for which
`virConnectGetAllDomainStats` failed and which are collected without any
response. Configuration (bulk sampling, polling) is chosen in the initial
state. Which domains are listed is up to libvirt; a sample has all `Domains`,
since the code asks for all and none is undefined while vmon runs.

**`SampleRequest`.** A request is a sequence of members; the tokens are
those jsmn produces, those inside nested arrays and objects included: the loop
walks over them as if they were keys. `ParseToken` is one turn of the loop. Texts are compared
with `strncmp` over the token's length, so `Shortened` lists which texts are
prefixes of which words. A request id one character too long is cut before it
is parsed: `UuidOf` has the uuid of each text that way.

**`Vmon`.** `main` from the command line to its return, label by label, with
the failure of each step; `vmon_io_callback` by I/O status, `poll_libvirt`,
the log. The executor is coarse: a thread is idle, inside a task, inside a
stop token or ended, `worker_init` may fail to create one, and an expired
timer gives the slot of a busy thread to a new one. That is enough to see who
is alive when `main` frees what the threads use; the interleavings inside a
`Worker` are in `Executor`. `misuse` records every use of a resource after
its release and `events` what has happened to the process, so that the
properties can say under which circumstances a late use is possible.

**`VmInfo`.** One record at a time through `collect_success`: clear, count
the devices, allocate, parse, check the usage threshold, print, free. A record
is a sequence of parameters, a parameter's name a prefix, a device number and
a name. Values are opaque except the counts; the threshold is computed in the
width of `int`, as the code does. Allocation and the lookup of the uuid may
fail, and the caller goes on as it does in the code. `vminfo_init` clears the
structure and `vminfo_free` clears nothing, so a record starts from what the
one before left wherever `vminfo_init` would not reach. Memory errors are
recorded in `faults`. Of what is printed the model has the entries of each
section and the five scalar fields; `vcpu.current` is parsed and never printed.

**`Event`.** One step is one critical section, so `event_wait` is
`WaitBegins` and `WaitResumes`. `pthread_cond_timedwait` returns because of a
signal, spuriously, or when the deadline has passed. Seconds, milliseconds and
nanoseconds are scaled by constants.

The `MC*` modules fix inputs and symmetry sets; the `*Proofs` modules, one per
component, hold the proofs.

## Runs

| run | result | what it shows |
|---|---|---|
| `ringbuffer` | pass | With three getters and three places, `start`, `end` and `used` agree; `waiters` is the number of threads in `pthread_cond_wait`; while somebody sleeps there is an awake thread for each element (`NoLostWakeup`); the buffer implements `BoundedQueue`, and a blocked getter is served (`ServesBlocked`). |
| `executor_timeouts` | pass | One slot, two timed tasks that may both hang, a replacement for each: no task is lost or reported twice (`TaskAccounting`, `ImplementsPool`), the pool stays at strength (`PoolCapacity`), one expiry discards at most one task (`TimeoutsBacked`), until the first replacement each timer belongs to its task (`ExactTimers`), a NULL field of a `Worker` is met only in the two windows of a discard (`CrashOnlyInDiscard`), and every accepted task is taken by a worker because timers add threads (`TasksServed`). |
| `executor_stop` | pass | Two workers, no timeouts, room for the tokens: `executor_stop` returns, and if it skipped no worker everything accepted before it has been collected. |
| `executor_stop_hangs` | violation | After one timeout `executor_stop` can wait forever. |
| `scheduler` | pass | In integrated mode a deleted timer stays silent (`SilentAfterDel`) and deletion hits only the timer meant (`DelPrecise`); in both modes timers fire and periodic ones fire again (`Rescheduled`); no callback runs after a standalone `scheduler_stop` has returned (`QuietAfterStop`), and it returns if it found the loop running (`StopReturns`). |
| `sampler` | pass | Two requests, two domains, a queue of one, all modes: a domain's reference is held exactly while its task may use it (`RefsHeld`), a listed domain gets one answer, its statistics or one error response, unless `virConnectGetAllDomainStats` fails for it: that is the only silence (`NoDomainDropped`), accepted requests finish (`RequestsFinish`). |
| `request_parser` | pass | The token walk means the same as reading the request member by member, for every request in which nothing but a known key passes for one (`ParsesAsMeant`). |
| `request_stats_key` | violation | A request whose `stats` member is malformed is accepted. |
| `vmon` | pass | Whatever fails, `main` has closed the connection and freed the scheduler when it returns, and releases them only if acquired (`Released`; the log file is not covered, see below); the loop runs only with a worker (`ServedByWorker`); vmon is deaf only after an I/O error and a polling one never leaves its loop (`StaysListening`); released resources are used only by threads that were skipped or discarded (`NoLateUse`); end of input ends the process (`EndOfInputEnds`). |
| `vminfo` | pass | The count that decides where an array lives is the one all loops run to (`MemorySafe`); nothing is left allocated between records (`NoLeak`); the entries and the scalar fields printed are those of the record, nothing of an earlier one, also after a failed parse (`ReportsRecord`); a disabled usage monitor sends nothing (`QuietWhenOff`). |
| `vminfo_fields` | violation | A field of a device in a record is not stored. |
| `event` | pass | `nwaiters` counts the threads inside `event_wait` (`WaitersCounted`), a set event reaches a sleeper (`SetServesOne`), deadlines carry (`DeadlineExact`), every wait ends (`WaitEnds`). |

### Bounds

* `ringbuffer`: two sleepers and a third thread that overtakes a woken one
  need three getters; a buffer of three lets both indices wrap while it is
  partly filled.
* `executor_timeouts`: one slot makes every replacement share its `Worker`
  with a live thread; two timed tasks let a late thread delete its successor's
  timer; a queue of one is full as soon as one task waits. `MaxThreads` = 3 is
  a thread per task and the first one: no expiry is cut off. Two hanging tasks
  take two threads, and the third thread must be the timers' work. More tasks
  and workers are left to the proofs, which cover every safety property of
  this run.
* `executor_stop`: `MaxTasks` = 4 holds two tasks and two tokens; two workers
  make the order of the joins matter, and one oversized task is refused.
* `executor_stop_hangs`: one worker and one timed task are enough.
* `scheduler`: three timers, one periodic, so that numbers of the two
  contexts collide.
* `sampler`: with a queue of one the domain tasks of one request are refused
  as soon as anything waits.
* `request_parser`: all requests of up to three members over three keys and
  the kinds of values the code tells apart, an array in an array among them,
  and values, items and abbreviated keys that pass for a known key (`Proper`
  leaves the requests with those out); `MaxTokens` = 10 stands for 32, so that
  requests of three members exceed it. `request_stats_key` has the same values
  under the key `stats`.
* `vmon`: two workers, so that one `pthread_create` can fail and the other
  succeed and the order of joins matters; three threads, so that a worker can
  be replaced; three dispatches fill a queue of one and of three. Ten command
  lines: six valid ones differ in mode, log, timeout and queue, one each for
  the four rejected options. A log level of 16 disables the messages that 128
  lets through.
* `vminfo`: all records of up to three parameters, so that a count can be
  repeated with another value; the embedded arrays hold 2, 1 and 1 entries
  instead of 16, 8 and 8, with counts at and above the edge; an `int` of 8
  bits keeps `CHUNK * MEGAB` at half its range, where the code has it.
* `event`: three threads, two of which can sleep while a third overtakes; a
  second of two milliseconds of three nanoseconds and timeouts at and above a
  second, so that the carry happens.

Deadlock is not checked where the system may stop by itself (a program that
has ended, finite inputs); in `ringbuffer`, `vminfo` and `event` it is.

### Fairness

* `RingBuffer`: a woken thread runs; nobody has to put or to get. A thread
  returns from `pthread_cond_wait` sooner or later, and the critical sections
  are short.
* `Executor`: threads advance, a task outside `Hanging` returns, an expired
  timer is run while the main loop is alive, a callback or a stop that has
  begun goes on. Which thread gets an element is not fair: only that one does.
* `Scheduler`: the scheduler thread runs, callbacks return, and a source that
  is ready again and again is dispatched (strong fairness, since another
  callback disables it): GLib dispatches all ready sources of an iteration.
* `Sampler`: the pool as a whole goes on, which is `TasksServed` of the
  executor; stdin and the polling timer owe nothing.
* `Vmon`: `main` goes on with what it has begun, a task returns, some idle
  thread takes a queued element. Input, polling and timers owe nothing. That
  every task returns is more than libvirt promises: `EndOfInputEnds` is about
  vmon's own part, and a call that never returns keeps the stop waiting.
* `Event`: time passes, an expired wait comes back, an awake thread runs.

## Proofs

The theorems hold for every value of the constants that satisfies the named
assumptions: any size, capacity, number of workers, and any finite sets of
getters and tasks.

`RingBufferProofs` proves `TypeCorrect`, `IndicesAlwaysAgree`,
`WaitersAlwaysCounted`, `NoWakeupIsLost` and `RingBufferIsQueue` (the
refinement). The four invariants are inductive only together: `waiters` could
become negative without `WaitersCounted`, and `NoLostWakeup` needs the count
to know that a put without a signal has no sleeper. The argument for
`NoLostWakeup` is a count: a put with a sleeper adds one element and one woken
thread; a woken thread that leaves removes one of each; a thread goes to sleep
only when there is no element. The refinement rests on two facts about the
circular array: writing at `end` appends and advancing `start` takes the tail.

`ExecutorProofs` proves `TypeCorrect`, `TasksAccountedFor`,
`ExecutorIsTaskPool`, `PoolNeverShrinks`, `TimeoutsAlwaysBacked`,
`TimersAlwaysExact`, `CrashConfined` and `StopDrains`. The
inductive invariant `IInv` adds to types and task accounting where the control
thread is (`ControlShape`), that threads are numbered in order of creation and
have a slot (`ThreadShape`), and that a timer is armed once, after its task was
taken (`TimerShape`). TLC checked `IInv` on the instance of
`executor_timeouts` first. On top of it two counts are inductive:

* `PoolCapacity`: a worker that becomes guarded arms a timer that was not
  armed; one that ceases to be gives up at most one timer, its own or not; an
  expiry trades a timer for a replacement and that for a thread. That is why
  deleting the wrong timer does not shrink the pool.
* `TimeoutsBacked`: an expiry flags at most one thread and makes one thread; a
  flag turns into at most one report.

`CrashConfined` rests on `FieldsSet`: from `executor_start` on a `Worker`
lacks its fields only between `WipeWorker` and `CreateThread`, and only the one
that is being replaced.

`ExactTimers` and `DrainedOnStop` speak of a pool that has replaced no worker
(`Intact`). `FirstThreads` says that thread `s` then has slot `s` to itself, so
that no other thread writes its `sched_id` or its `current`; with that
`TimersMatch`, which is `ExactTimers` timer by timer and thread by thread,
together with the id a thread has read before it deletes its timer, is
inductive. For the stop, `StopOrder` says that the tokens are behind the
backlog in the queue, hence that a thread has got a token only when no task of
the backlog is queued any more, and `Joined` that the slots `executor_stop`
has gone past belong to threads that have ended. When all have, no task of the
backlog is queued or in a thread's hands, and `TaskAccounting` leaves only
collected ones. TLC checked these parts on the instances of the passing
executor runs first.

`SchedulerProofs` proves `AlwaysQuietAfterStop`, `AlwaysSilentAfterDel` and
`DelAlwaysPrecise`. `OwnThread` says where the standalone thread is when it may
run a callback; `Numbered` says that with an integrated scheduler source
numbers are unique and a deleted timer is gone. Both action properties follow
from `Numbered`; its uniqueness is what makes `g_source_remove` precise.

`SamplerProofs` proves `TypeCorrect`, `RefsAlwaysHeld` and
`DomainsNeverDropped`. The inductive invariant adds `Counts` (a task that was
not taken has written nothing, a work function at most one error) and
`Listing` (the domains of a request come to life when it lists them, and a
domain still to be dispatched waits for it); without `Listing` a second list
could take a reference over a live one. `DomainsNeverDropped` is about
responses written: a task that is over has one, or its libvirt call failed.

`VmonProofs` proves `TypeCorrect`, `AlwaysReleased`, `AlwaysServed`,
`AlwaysListening` and `NothingUsedLate`. `Resources` says
at which labels each resource may be in which state. `Pool` and `Serving` say
that until the loop ends threads are idle or busy and the queue holds tasks
only: that is why a worker that takes an element does not end, and why the
last `pthread_create` decides. `Quiet` says that as long as no worker was
discarded or skipped every thread has a slot, and the slots passed by
`executor_stop` belong to threads that have ended; when `main` cleans up no
thread can be inside a task or take one.

`VmInfoProofs` proves `TypeCorrect`, `MemoryAlwaysSafe`, `NothingLeaks`,
`RecordAlwaysReported` and `MonitorStaysQuiet`. The invariant starts from the
cleared structure of `vminfo_init` and follows the loops: behind index `i` of `vminfo_setup` the counts are the last ones of the
parameters before `i` (`Counts`), behind that of `vminfo_parse` so are the
values (`Values`); `Heap` ties the place of an array to its count from the
allocation on. `MonitorStaysQuiet` needs only that a percentage of 0 makes a
threshold of 0 after the conversions to `int` and to `unsigned long`, and that
no difference taken modulo the width of a `long` is below 0.

`SampleRequestProofs` proves `RequestsReadAsMeant`. The tokens of a request
are those of its members in a row, so the proof first shows what `FlattenSeq`
computes: flattening one sequence more appends it (`FlattenStep`), hence token
`q` of member `n + 1` stands behind all tokens of the first `n` members
(`TokenAt`). These are inductions on the number of members. The library's
induction theorems have an operator parameter that the provers cannot
instantiate; `SetInduction` states induction for a set of numbers instead and
follows from the well-foundedness of `<` on `Nat`. The inductive invariant
says that `n` members have been read, that the walk is at the key of the next
one or inside one whose key is unknown, and that `stats` and `uuid` are what
the first `n` members mean (`Walk`). The premise `Proper` of `ParsesAsMeant` is
where it can fail: a value or an abbreviated key that starts one of the known
words is taken for that key.

`EventProofs` proves `TypeCorrect`, `WaitersAlwaysCounted`, `SetReachesOne`
and `DeadlineAlwaysExact`. `SetServesOne` needs the count: `event_set` tests
`nwaiters` and must not find 0 while somebody sleeps.

Assumptions: `SizeAssumption`, `OffsetAssumption`, `GettersAssumption` of
`RingBuffer`; `PoolAssumption`, `TaskAssumption`, `ModeAssumption` of
`Executor`; `TimersAssumption` of `Scheduler`; `SamplerAssumption`;
`VmonAssumption`; `VmInfoAssumption`; `WidthAssumption` of `VmInfo`, which
spells out of the powers of two what is true for every positive width, since
the provers know nothing of `^`; `RequestAssumption` of `SampleRequest`: only
arrays and objects have tokens inside them, an array of strings has no others
than its items, and neither of the two keys starts the other;
`EventAssumption`.

Every invariant and action property of a passing run is stated by a theorem.
Only model-checked: what is temporal (`ServesBlocked`, `TasksServed`,
`StopCompletes`, `Rescheduled`, `StopReturns`, `RequestsFinish`,
`EndOfInputEnds`, `WaitEnds`), because liveness under fairness is beyond the
prover.

## Disagreements with the repository

Three runs end in a violation; each states what a test or a comment says:

* `executor_stop_hangs`: `tests/test_executor.c` stops an executor after a
  timeout; the discarded thread may take the only token, and its replacement
  is then joined forever.
* `vminfo_fields`: `scan_field` (`lib/vminfo_parse.c:250`) looks for the
  device number at the beginning of the prefix instead of behind it, so that
  "skip '.' separator" skips a letter and no field of a device is stored.
* `request_stats_key`: `tests/test_sampler_request.c:94` to 126 wants a
  malformed `stats` member refused, and line 167 to 171 wants
  `"stats": ["block"]` to select the block statistics; the parser's key is
  `get-stats` (`src/sampler.c:132`), and `stats` is skipped as an unexpected
  one, whatever its value.

Reachable in the models, without a run of their own:

* `lib/executor.c:82` calls the test of `wo->current` paranoia; the timer can
  expire before the task is published.
* `worker_discard` writes the flag through a pointer it has tested before:
  by then the thread may have finished, and the flag reaches its next task or
  a NULL pointer. A thread that reads its `Worker` between the `memset` and the
  assignments of `worker_init` dereferences NULL. `CrashOnlyInDiscard` holds
  both crashes to these windows, `TimeoutsBacked` the flag to one task.
* A `scheduler_stop` that comes before the standalone thread runs its loop is
  lost, and the join never ends (`early`).
* `bulk_sampling_work` asks about `req->dom`, which a request does not have,
  and `sample_domain_work` asks about all domains: the two bodies are swapped.
* A task whose `virConnectGetAllDomainStats` fails (`src/sampler.c:221`) is
  collected like a sampled one, with neither statistics nor an error.
* A value, an item or an abbreviated key that starts `req-id` or `get-stats`
  is taken for that key.
* At end of input the log file is closed while workers, and the callback
  itself, go on logging to it; on every other way out it stays open until the
  process is gone. `executor_free` does nothing.
* After an I/O error vmon stays alive without listening.
* When an allocation fails in `vminfo_setup` the arrays it frees are read and
  freed again, since `collect_success` ignores the error.
* The usage threshold wraps: it is 0 for even percentages, and a negative
  number taken as unsigned for odd ones; only the first block device is looked
  at.

Noted on the way: a full queue is reported as `EXECUTOR_ERROR_NOT_RUNNING`,
and `EXECUTOR_ERROR_TOO_MANY_TASKS` is never returned; discarded threads never
exit, so the number of threads exceeds `--max-threads`; `ringbuffer_clear`
does not reset `used`; `vmon.h` documents the timeout in seconds and it is
used in milliseconds; `scheduler_del` acts on the default context in
standalone mode too; with the default log level of 0 nothing is logged; the
interfaces are counted under `net.` and parsed under `iface.`; a vcpu section
whose last vcpu is absent would end in a comma, if vcpus were stored at all.

## Not modelled

* Allocation failures outside `vminfo_setup` and the start-up of `main`; the
  dump callbacks.
* `ringbuffer_clear` on a live buffer: only `ringbuffer_init` calls it.
* Restarting an executor that was stopped. Thread-creation failures are in
  `Vmon`, not in `Executor`.
* The wording and layout of responses, commas included, and short writes to
  stdout.
* The names of devices, embedded or `strdup`ed: none is ever stored.
* GLib, pthreads, libvirt, jsmn: external, modelled from how the code uses
  them. `contrib/jsmn` is third-party code.

## Plan

1. Thread-creation failures in the detailed `Executor`, with the proofs that
   depend on every slot having a thread.
2. A statement of what ties `Sampler` to `Vmon`: both use the pool, each with
   its own view of it.
