# A TLA+ model of os_transport

`os_transport` moves large buffers over URMA in chunks. A *send* writes chunk 0
itself and lets the completion of each chunk trigger the next one; a *receive*
registers one task per chunk and runs it when the peer's write has arrived. A
thread pool runs the tasks, and a `task_sync_t` per request lets the caller wait
for all of them, give up, and get its memory back. The code is small; what makes
it hard is that four kinds of threads meet in it without a lock over the whole:

* **callers** (`os_transport_send`, `os_transport_recv`, `wait_and_free_sync`,
  `wait_and_free_sync_timeout`, `os_transport_cancel_tasks`),
* the **workers** of the pool (`worker_routine`),
* the thread that **polls** for completions and calls
  `os_transport_wake_up_task`,
* whoever calls **`os_transport_init`** and **`os_transport_destroy`**.

Beside it stand two small concurrent programs of their own: a fault injection
registry that several processes share, and a logger.

All paths are relative to the repository's root (`src/` there holds the library's
C files).

## 1. Inventory

| component | state | operations | interacts with |
|---|---|---|---|
| **Request synchronisation** `src/os_transport.c:70-358, 1381-1517` | `task_sync_t`: counters `completed_tasks`, `canceled_tasks`, `total_tasks`; flags `request_completed`, `request_canceled`, `request_timedout`, `release_requested`, `freeing`; `urma_status`; mutex and condition | register, wait (with or without deadline), cancel, mark a task completed, free | shared by the caller and one worker; the pool's cancellation tells it how many tasks were removed |
| **Thread pool** `src/os_transport_thread_pool.c` | per worker: task queue, pending wakeups, state; per request: a context (worker, pending count, batch callback) in `req_hash`; `is_destroying` | create, submit (one task, a batch), wake up, run, cancel by request, destroy | called by the request layer and the poller; calls task functions and callbacks |
| **Send and receive requests** `src/os_transport.c:561-944, 1097-1325` | task group, task arguments, chunks | validate, split, register tasks, write chunk 0 / fill the receive queue | pool, sync, URMA |
| **Completion dispatch** `src/os_transport.c:1327-1379` | none | decode a completion record, refill the receive queue, wake a worker | poller, pool |
| **Chunk split, identifier codec** `src/os_transport.c:20-27, 432-559` | none | split a length into 2 MB chunks; pack a 40-bit identifier | used by both paths |
| **Receive queue prefill** `src/os_transport.c:1199-1242` | `urma_recv_ctx_t`: the jetty last prefilled | prefill once per jetty, add one per completion | receive path, dispatch |
| **Life cycle** `src/os_transport.c:974-1087, 1519-1549` | `g_inited`, handle | init, register JFC, destroy | pool |
| **Fault injection** `src/os_transport_inject.c` | registry in shared memory: points, trigger counts, ring | attach, set, set frequency, clear, execute, clean up, verify | any process |
| **Logging** `src/os_transport_log.c` | backend, descriptor, callback, level | register a callback, write | everybody |
| **URMA wrapper** `src/os_transport_urma.c` | none | post write, post receive | external library |
| mock, tests, tools | | | |

What is hard, component by component, and what correctness means there:

* *Request synchronisation.* The caller and the last task race for the sync: one
  of them must free it, exactly one, and after everybody else has let go of it.
  A timeout races with the completion it was waiting for; a cancellation races
  with the task that is running. OK must mean that every task ran. A waiter must
  never be left asleep. A failure must be published after its status.
* *Thread pool.* Every operation takes the lock of the contexts and the lock of a
  worker one after the other and lets go in between, so context and queue
  disagree in between and must agree again afterwards. Completions arrive in any
  order, before or after their tasks, and for requests that are gone. No wakeup
  may be lost in a worker, no task run twice, for the wrong completion, or out of
  order. Destruction must return.
* *Send and receive.* Registration is followed by a step that may fail, when the
  tasks are already queued. On the send side the completion of chunk *k* must run
  the task that sends chunk *k + 1*: the shift of the user contexts carries that.
* *Dispatch, codec, split.* The identifier that comes back must be the one that
  was registered; arithmetic is on 32 bits; the chunk number has a few bits.
* *Prefill.* A double-checked test without a lock, a prefill that may stop
  half-way, completions polled before it has ended. Entries must not run out.
* *Injection.* Several processes create and attach one shared object, of which
  the first may die half-way and another may be of an older build; a budget is
  taken from before it is tested; the command line tool reads the ring without
  the lock.
* *Logging.* The target of a message is chosen under the mutex and used without
  it, while another thread, or the callback itself, may replace it. Descriptors
  are numbers that the rest of the process uses again.

`PROJECT.json` lists the hazards line by line with the properties that cover them.

## 2. Modules

| module | what it is |
|---|---|
| `TaskSync` | the life of one `task_sync_t`, from registration to the last free |
| `RequestPromise` | what the caller of one request was promised, without the mechanism |
| `TaskSyncProofs` | the theorems about `TaskSync` and their proofs |
| `ThreadPool` | the pool, one action per critical section |
| `ThreadPoolLemmas` | what its operators on queues do, for lists of any length |
| `ThreadPoolProofs` | the theorems about `ThreadPool` and their proofs |
| `ChunkPlan` | the pure part: split, user contexts, identifier codec |
| `ChunkPlanProofs` | the theorems about `ChunkPlan` and their proofs |
| `Transport` | sends and the receives of their peer, composed over the fabric |
| `TransportProofs` | the theorems about `Transport` for every caller: types, splits, receive queue entries |
| `TransportDeliveryProofs` | the theorems about what a transfer delivers to careful callers |
| `InjectRegistry` | the shared registry of injection points, and `verify` |
| `InjectRegistryProofs` | the theorems about `InjectRegistry` and their proofs |
| `LogBackend` | the logger's state, its writers and its callbacks |
| `LogBackendProofs` | the theorems about `LogBackend` and their proofs |
| `MCTaskSync`, `MCThreadPool`, `MCTransport`, `MCInjectRegistry`, `MCLogBackend` | model values for TLC |

`Transport` EXTENDS `ChunkPlan`; `InjectRegistry` and `LogBackend` share nothing
with the others. `TaskSync`, `ThreadPool` and `Transport` are three views of the
same runs. `TaskSync` looks at
one request and sees of the pool only what it promises for an identifier that is
in use once: one worker at a time runs its tasks, and a cancellation removes all
that wait. `ThreadPool` shows that promise (`BoundTogether`, `EachTaskOnce`,
`NothingLeftQueued`), and also the case where it fails (§4, `pool_rebind`).
`Transport` looks at both ends of a transfer and takes from `ThreadPool` that one
worker runs the tasks of an identifier one at a time and that wakeups reach it,
and from `RequestPromise` that OK needs every task and that a call that gives up
removes those that are queued.

### TaskSync

The variables named like fields are the fields of `task_sync_t`. `task` says where
each task of the group is; `mem` whether the sync, with the group and the chunks
it owns, is allocated. The *owner* is the thread that issued the request; its
position `opc` runs

    post -> hand -> check <-> blocked
                       |         | (deadline)
                       |         v
                       |      cancel -> add -> release -> free -> done
                       +-------------------------^

and `lost` is where a receive that failed after its registration ends. The
*worker* (`wpc`) takes a queued task, executes it, stores the status of a failed
send, marks the group, and frees the sync if it was the last.

| action | code |
|---|---|
| `PostOk`, `PostFail` | the end of `os_transport_send` and `os_transport_recv` |
| `EndRequest` | the caller calls `wait_and_free_sync`, `..._timeout` or `os_transport_cancel_tasks` |
| `WaitCheck`, `WaitWake`, `WaitSpurious`, `WaitTimeout` | `wait_for_task_complete_common` |
| `CancelQueued` | `thread_pool_cancel_tasks_by_req` |
| `AddCanceledTasks` | `task_sync_add_canceled_tasks` |
| `RequestRelease`, `OwnerFree` | the end of `wait_and_free_sync_common` and of `os_transport_cancel_tasks` |
| `StartTask`, `ExecuteOk`, `ExecuteFail` | the task functions up to their result |
| `UpdateUrmaStatus` | `update_urma_status` |
| `MarkTaskGroupCompleted`, `WorkerFree` | `mark_task_group_completed` |
| `CancelByOther` | `os_transport_cancel_tasks` with a NULL sync, by another thread |

`pthread_cond_signal` wakes only a thread that is inside the wait (`SignalIf`);
the wait may also end for no reason, and a timed wait may end with `ETIMEDOUT`
after it was signalled, because the code returns on `ETIMEDOUT` without looking
at `request_completed` again.

### ThreadPool

`queue`, `pend`, `state` and `ctx` are the structures of the code; a context that
does not exist is `NoCtx`. `opc`, `sel`, `target`, `removed` are what a thread
inside a pool operation carries from one lock to the next, `ppc`, `ptok`,
`pworker` the same for the poller, `cur`, `tok` for a worker. A worker that found
no task for a wakeup keeps its mutex while it looks for the next (`wpc = "hold"`),
and nobody else takes that worker's lock meanwhile (`Unlocked`).

A task is `[req, gen, idx]`: the identifier, which use of it, the position in the
batch. The code never sees `gen`. Requests in `Keyed` have
`has_match_user_ctx` set, as the receive path does; the others match by
identifier alone, as the send path does. Completions become due when the
submission has returned, and come in any order or not at all; `WakeFind` drops
one for which there is no context, as the code does.

`WaitsFor` says what an owner waits for before it uses its identifier again: for its
last call to return (`"return"`), for the pool to remove the context (`"context"`), or
until nothing of the last batch is under way (`"everything"`, then `CarefulReuse`). No
call of the library tells an owner of the last two; they are what an application has to
arrange by itself, and the runs and theorems say which of them each property needs.

Before that, the pool is created. The creator makes the workers one after the
other (`CreateWorker`) and, when the last has started, opens the pool for
submissions (`ThreadPoolStart`). Worker and creator use one mutex and one condition for the
handshake of `create_worker` and later for sleeping: the worker announces itself
and signals (`WorkerStart`), the creator waits for that (`CreatorChecks`,
`CreatorSpurious`). A thread that cannot be created ends the initialisation
(`CreateWorkerFails`), and what was made is destroyed.

### ChunkPlan

Operators only. `NumChunks` has the 32-bit sum of `common_split_chunks`,
`SendAccepts` and `RecvAccepts` are the limits of the two paths, `ServerTag`,
`ClientTag`, `ExpectedTag`, `NotifyTag` the user contexts of a chunk at its sender,
in its notification, at its receiver, and in the notification's own completion.
A word that is shifted and masked is the set of its bit positions, so that
`encode_request_id` and `decode_request_id` are defined, checked and proved for
every field width. `Tiles` is the reference definition of a correct split.

### Transport

Per transfer, the sender has its caller (`spc`), attempt (`sgen`), tasks
(`stask`), wakeups not yet taken (`spend`), worker (`swork`) and result (`sres`);
the receiver the same with `r`. `recorded`, `filler` and `filled` are
`urma_recv_ctx_t` (is its `jetty` the jetty, or NULL?), its lock and the loop of
`urma_recv_ctx_init`. `rqe` counts the entries in the receive queue, which holds
`depth` of them; `lost` counts the refills that failed, and the history `posted` the
entries that prefills have posted. The fabric is `wire` (writes and
notifications under way, and local completions), `cq` (completions at the receiver
not yet polled), `rpoll` (the one being dispatched), and `landed` (what is in the
peer's memory). A message says which attempt and chunk it is about, and the code
sees only its tag.

| action | code |
|---|---|
| `SendRegister`, `SendFirstChunk`, `SendFirstChunkFails` | `os_transport_send` |
| `SendReturnsOk`, `SendReturnsError`, `SendGivesUp`, and the same of `Recv` | the wait or the cancellation that ends a call |
| `LocalCompletion` | `os_transport_wake_up_task`, sending side |
| `SendTake`, `RecvTake` | `worker_routine`: which task a wakeup runs |
| `SendNotify`, `SendWrite`, `SendTaskFails` | `do_send_chunk_for_worker` and the task function around it |
| `WriteLands`, `NotificationArrives` | the fabric (external) |
| `RecvPoll`, `RecvDispatch` | `os_transport_wake_up_task`, receiving side: refill, then wakeup |
| `RefillPosts`, `RefillFails` | `urma_recv_ctx_add`, whose result the caller ignores |
| `CallbackReturns`, `CallbackFails` | `recv_task_worker_func` |
| `RecvRegister` | `os_transport_recv` up to the queue |
| `RecvTestJetty`, `RecvLockQueue`, `RecvFill`, `RecvFillEnds`, `RecvFillFails` | `urma_recv_ctx_init` |

A write that completes at its sender is in the peer's memory; notifications may
overtake each other and wait for an entry of the receive queue. Each end begins
an attempt when the other is at the same attempt or has returned from the last
one; nothing makes the receiver come first. A receive may give a jetty, or only a jfr
(`jfrOnly`); then the `jetty` it passes is NULL, which is also what is recorded at
first. A prefill ends early when the queue is full (`URMA_ENOMEM`): `depth` may be
smaller than `Capacity`, which is `recv_queue_capacity * 4`. A refill fails when no
jetty is recorded, when the queue is full, and whenever a post may fail. With `CarefulReuse` the application
also waits until nothing of the last attempt is under way.

### InjectRegistry

An action is one access that other threads or processes can see. `shm` has the
contents of each shared memory object and `named` the one the name stands for;
`mapped` and `initLock` are `g_shm` and `g_init_mutex` of each process. `pc` walks
a thread through `os_transport_inject_init` (`open`, `create`, `reopen`, `size`,
`map`, then `version`, `lock`, `count` for the creator and `poll` for the others,
`reset...` for who finds another version) and through the call it made. Calls that
take the spin lock are split where the code stores more than one word that
somebody reads without the lock: `Execute` takes from the budget, `PutBack` gives
back, `StampRecord` and `WriteRecord` write the ring. A verify whose attach fails
answers that nothing has triggered (`Unattached`). `VerifyNow`, `VerifyTail`,
`VerifyName`, `VerifyTime` are the reads of `mlcd_inject verify`, which takes no
lock. The last variables are histories: what was asked of each name (`told`), how
often it triggered since its budget was set (`fired`) and when (`fires`), whether
an initialisation overwrote something in use (`damaged`), which slots were
rewritten under a verify (`touched`).

### LogBackend

`backend`, `fd`, `callback`, `log_level`, `syslog_opened` are `OstLogState`, under
`mutex`. `stack` has the calls each thread is in, the innermost first, since a
callback may log or register; a frame holds what `ost_log_vwrite` took out of the
state. `table` is the process's descriptor table: a number is given to the lowest
free one, by this library or by anybody (`OthersOpen`, `OthersClose`). `asked`
remembers the levels each callback was registered with.

## 3. Runs that pass

| run | instance | shows |
|---|---|---|
| `sync` | 3 tasks, both kinds, the three ways to end, all failures; 9 899 states | safety, refinement and liveness of one request |
| `pool` | 2 workers, created or not, one keyed and one unkeyed request with 2 tasks each, cancellation and destruction; about 485 000 states | bookkeeping and order of the pool |
| `pool_reuse` | 2 workers, one keyed request used twice, the second time as soon as the context is gone, with completions and wakeups of the first still arriving; about 222 000 states | liveness of the pool from its creation, bookkeeping across uses of an identifier, and which completion a task runs for when stale ones are about |
| `transport` | 2 transfers: 2 chunks and 1 chunk; 3 chunks and too many; 2 chunks attempted twice and a length that wraps; a prefill of 2 entries into a queue of 1, 2 or 3; a receive with a jfr only next to one with the jetty; all failures, also of refills, and callers that give up; about 198 000 states | safety and liveness of a transfer from end to end |
| `inject` | 3 threads in 2 processes, 4 programs of calls, an older registry or none, one failing system call, a creator that dies; about 378 000 states | the table, the budgets and `verify`; initialisation ends |
| `log` | 2 threads, 2 callbacks, 2 levels, 3 descriptors, 3 calls of which one may be nested; about 347 000 states | descriptors, callbacks, progress of the logger |

*Bounds.* Three tasks let one be done and one be queued while the third runs, which
is every combination a counter can see; the theorems lift the bound on tasks. Two
workers are the smallest pool in which a task can be on the wrong one, and two
tasks the smallest batch that can be split by a cancellation or arrive out of
order. `MaxBatches` bounds how often an identifier is used. Two uses let a wakeup of
the first be found before its context goes, be pushed when the second batch is in the
queue, and take a task of it before that batch is bound.

In `transport` a chunk is 2 bytes, a word holds 16, a request has at most 3 chunks
and an identifier two fields of 2 bits in a word of 6: the smallest sizes at which a last
chunk can be short, a request too long, a sum wrap, a middle chunk have both
neighbours, and packing move bits. The two transfers share the receive queue. Its
prefill of 2 entries is smaller than the number of notifications of the larger case,
so refills are needed, and the depths of 1, 2 and 3 are a queue that is full before
the prefill ends, one that is just full, and one with room. A
single-chunk receive is accepted while its send is refused, so one case has a
receiver that nobody serves and that has to give up.

In `inject` the table has one place fewer than there are names and the ring two
slots, which wrap under a verify; `Word` is 8, so a budget taken below zero wraps
visibly. Two threads of one process meet at `g_init_mutex`, the third comes from
another process. The programs are: a budget of two that three threads draw on;
points set and cleared by all; a ring overwritten while it is read; the registry
removed under the other process. The clock ticks only while a verify is still to
come. `os_transport_inject_cleanup` unmaps without a lock and is meant for after
the tests, so only a process of one thread calls it.

In `log` three descriptors let the state, a copy and a stranger's file exist
together, and run out. Three calls suffice for a writer, a registration that
overtakes it and one more from inside the callback.

*Fairness* (`FairSpec`). Threads inside a call go on: weak fairness of the owner's,
the worker's, the poller's and the destroyer's steps, which the operating system's
scheduler gives. A deadline is an absolute time, so a timed wait that keeps coming
back to sleep times out in the end: strong fairness of `WaitTimeout`. Nothing is
assumed of completions, of callers, of spurious wakeups: `StartTask`, `WakeFind`,
`SubmitBegin`, `CancelFind`, `DestroyBegin` are not fair. Accordingly `WaitReturns`
promises an untimed wait its return only once the request is completed.

In `pool_reuse` the creator's and the workers' steps of the creation are weakly
fair too. In `transport` the calls in progress, the workers, the polling thread
and the fabric are weakly fair: a reliable URMA transport retries a notification until
there is an entry for it. Nobody has to begin or to give up. In `inject` each
thread inside a call goes on; nothing makes a process die, and nothing makes a
spin lock fair. In `log` calls go on and callbacks return; nobody has to log.

Deadlock is checked in every run. `Terminating` marks the states in which there is
nothing left to do: the request over and the worker idle, the pool destroyed, no
transfer's call in progress, every call on the registry made. (The rest of the
process never stops in `LogBackend`; there `CallsReturn` says that nobody waits for ever.)

### The properties

* `NoUseAfterFree`: after the free, no task of the request is queued or runs and
  neither thread holds the sync. It depends on the caller requesting the release
  last, and on `freeing`.
* `SuccessMeansAllRan`, `StatusTellsFailure`: what the call reports is true, under
  every race with timeouts, failures and cancellations.
* `ReleasedOrExcused`, `EventuallyFreed`: the memory comes back, but for the two
  cases of §4.
* `KeepsPromise`: `TaskSync` implements `RequestPromise`: the outcome is decided
  once, while the memory is held; OK needs all tasks; the memory goes when the
  outcome is fixed and nothing can execute any more.
* `WaitReturns`: no waiter is left asleep.
* `PendingCountExact`: `pending_count` is the number of queued and running tasks,
  corrected by what the operation in progress has still to add or to subtract.
  `NeverCountedLow` is the half of it that is left when stale completions arrive: one of
  them may run a task between `AttachNodes` and `UpdateBatchContext`, which is then
  counted off no context, so that the count stays one too high and the context is never
  removed; but no context goes while a task is queued or runs.
* `BoundTogether`: wakeups and cancellations go where the tasks are.
* `InSubmissionOrder`, `EachTaskOnce`, `NothingLeftQueued`, `BatchCallbackOnce`: what
  becomes of tasks.
* `RunsForItsCompletion`: a receive-side task runs for the completion it was registered
  for, or for that of a task of its number that was cancelled in an earlier use of the
  identifier; never for a completion that was answered before, nor for one of a later
  use. The pool compares identifier and number only, so this rests on the context
  staying as long as its batch is not over and on cancellations that leave nothing behind.
  It needs owners that wait for the context (`WaitsFor = "context"`): with owners that
  wait for their call only, a third use of an identifier may find a task of the second
  in the queue of a worker that its context does not name (`pool_rebind`).
* `WakeupsServed`, `CompletionRunsTask`, `DestroyReturns`: progress of the pool.
* `InitReturns` (pool): creation returns, although creator and worker sleep on the
  condition that wakeups are signalled on as well.
* `CallbackSeesData`: when `notify_callback` runs for chunk *k*, what woke it is the
  completion of chunk *k* of this attempt and the chunk is in memory. Between the
  write and the callback lie the shifted contexts, the codec, the queue, the
  dispatch and the matching.
* `OneChunkInFlight`: one chunk at a time moves, and all before it have landed.
* `SendOkMeansDelivered`: a send that returns OK has written every chunk.
* `SplitIsExact`: what is accepted is split without gap or overlap, and no chunk has
  the number that marks a notification's own completion.
* `CreditsConserved`: the account of the receive queue. What prefills posted is in the
  queue, is a completion still to be polled, or is a refill that failed (`lost`); a
  receive that gives the jetty and waits has had a prefill of `Capacity` entries, or as
  many as there is room for; and however many such receives begin together, there is
  one prefill only. It says that no other path drains the queue, not that it never runs dry.
* `SendReturns`, `RecvReturns`: a send whose first chunk is out returns; a receive that
  gives the jetty and all of whose chunks have been announced returns, unless the queue
  has run dry, for which as many refills must have failed as a prefill posts (`RanDry`).
* `PointsSurvive`: the table holds what the calls that succeeded asked for, each
  name once, and nothing an older build left.
* `BudgetExact`: a budget of *n* triggers *n* times over all threads and processes.
* `VerifyAnswers`: a `verify` that attached is right about every slot that was not being
  rewritten. (One that could not attach: §4.)
* `InitReturns` (registry): initialisation ends, also when the creator has died.
* `FdsAccounted`: a descriptor the logger will write to or close is open on the log
  and has one owner; none is forgotten.
* `CallbackGetsItsLevel`: a message that goes to a callback has passed a level that
  this callback was registered with.
* `CallsReturn`: a call of the logger returns, also one made inside a callback.

## 4. Where the code departs from its documents

Each is a run that TLC finds violated, on one property that states the document.

* `sync_failure_leaks`. A failed task completes the request but is counted neither
  as completed nor as canceled, so the sync of a request with a failed task is
  never freed (`ReleasedOnReturn`; `include/os_transport.h:117-119`, README 7.6).
* `sync_recv_lost`. `os_transport_recv` that cannot fill the receive queue returns
  without handing out the sync, although its tasks are queued: nothing cancels them,
  and nothing can free the sync (`FailedRecvCancels`; README §1). A caller that
  remembers the identifier can still remove the tasks, by `os_transport_cancel_tasks`
  with a NULL sync (`CancelByOther`); the sync, its group and its chunks stay lost.
* `pool_rebind`. The wait returns when the last task function has reported, and
  the worker takes that task off the context only afterwards. A new request under
  the same identifier in between is attached to one worker and bound, through the
  old context, to another: its completions wake a worker that has no such task
  (`BoundTogether`; README 5.2 and 13.3).
* `pool_batch_callback`. After a partial cancellation the running task calls
  `batch_complete_cb` for a batch that was not completed
  (`BatchCallbackMeansAllRan`; `include/os_transport_thread_pool.h:97`).
* `transport_retry`. Both ends give up a transfer and retry it under the same
  identifiers before the completions of the first attempt have been polled. The
  stale completion of the first attempt's chunk 0 runs task 0 of the new send, which
  announces a chunk that the new attempt has not written: the new receive returns
  OK without it (`RecvOkMeansArrived`; README 6.3 and 13.3).
* `pool_destroy`. Destruction frees the queued tasks instead of waiting for them
  (`DestroyWaitsForTasks`; `include/os_transport_thread_pool.h:118`).

In the passing runs these cases are set aside by name: `ReleasedOrExcused` and
`EventuallyFreed` name the excuses, `WaitsFor` (`ThreadPool`) and `CarefulReuse`
(`Transport`) make an application wait for what is left of its last use of an
identifier, `RecvReturns` and parts of `CreditsConserved` are about receives that give the jetty,
and `VerifyAnswers` is about verifies that attached.

Smaller differences met on the way, visible in the model and without a run of
their own:

* A send of a single chunk is refused (`SendAccepts`), although README 6.1
  says it is handled as one chunk and the comment at `src/os_transport.c:1091` that it
  is sent directly.
* README line 271 allows 8 chunks; the code accepts 7 (`MaxChunkNum`), and needs to,
  for the eighth number marks a notification's completion.
* README 6.3 posts a receive entry for each chunk. The code posts
  `capacity * 4` entries once per jetty and one per completion. `os_transport_wake_up_task`
  ignores whether that one was posted (line 1348): a completion polled while the first
  prefill is under way, or whose refill URMA refuses, costs the queue an entry for good
  (`lost`), and after as many as a prefill posts nothing is received any more (`RanDry`).
* `os_transport_recv` accepts a receive that gives a jfr and no jetty (line 415), and
  README 5.3 and 7.4 say that receive requests are posted to the jfr. It passes a NULL
  jetty to `urma_recv_ctx_init`, which finds NULL recorded at first and returns
  `URMA_SUCCESS` without having posted an entry (line 1204, `RecvTestJetty`): the receive
  is accepted and waits on an empty queue. `CreditsConserved` and `RecvReturns` say what
  they promise for receives that give the jetty.
* The recorded jetty is overwritten by NULL when a receive with a jfr only comes after
  one with the jetty, and refills fail from then on; the next receive with the jetty
  prefills anew (`RecvFillEnds`).
* A length within one chunk of 4 GB wraps the sum of `common_split_chunks` to zero
  chunks. Both paths refuse it in the end, but `os_transport_send` looks at the first
  chunk before that (line 1144).
* `mlcd_inject verify`, which is to "verify injection was triggered recently"
  (`mlcd_inject_cli.c:67`), prints `NOT_TRIGGERED` when it cannot attach the registry
  (lines 206-210, `Unattached`), also while the registry stands and holds a record
  that is recent enough: a failed `mmap` or a creator slower than the time-out suffices.
  `VerifyAnswers` is about verifies that attached.
* A second process that read the old version of the registry before the first one's
  reset resets it again and wipes what was set in between (`Reset`, `damaged`), and a
  creator stores lock and count after the version that lets others in (`StoreLock`,
  `StoreCount`). `PointsSurvive`, `BudgetExact` and `VerifyAnswers` leave out objects
  to which that has happened.

## 5. Theorems

### TaskSync

`TaskSyncProofs` proves, for every non-empty finite set of tasks and every choice of the
switches (`TasksAssumption`, `KindsAssumption`, `CallsAssumption`):

| theorem | statement |
|---|---|
| `Invariant` | `Spec => []IInv` |
| `TypeCorrect` | `Spec => []TypeOK` |
| `SuccessIsTotal` | `Spec => []SuccessMeansAllRan` |
| `StatusIsTrue` | `Spec => []StatusTellsFailure` |
| `FreedByTheLast` | `Spec => []NoUseAfterFree` |
| `ReleasedUnlessExcused` | `Spec => []ReleasedOrExcused` |
| `Refinement` | `Spec => KeepsPromise` |

None of the safety properties is inductive. `NoUseAfterFree` needs to know why the
sync may be freed, which is that the counters have reached the total; and a count
says something about tasks only if it is the cardinality of a set of tasks. So
`IInv` has these parts:

* `CountInv`: `completed_tasks = |In("ok")|`, and `canceled_tasks = |In("canceled")|`
  except while the caller is between removing the tasks and crediting them, when
  its local `removed` has the number;
* `QueueInv`: from that removal on nothing is queued;
* `WorkerInv`: the task the worker holds is the one that is running;
* `ReleaseInv`: `freeing` is raised exactly when the sync is releasable, and then
  one thread is about to free it or has done so;
* `OutcomeInv`: the locals of the ending call agree with what it has seen.

The one arithmetical fact is `TwoParts`: two disjoint sets of tasks have together at
most `total_tasks` members, and that many only if they are all tasks. From it follow that the
cap in `task_sync_add_canceled_tasks` never bites, that the sync cannot be claimed
there (`AddCanceledTasksIInv`), and that a sync being freed has no task left
(`FreeingIsLast`). The refinement proof maps each step to one of `Finish`, `Drop`,
`Decide`, `Release`, or to a stutter.

### ChunkPlan

`ChunkPlanProofs` proves, for every chunk size, word, number of chunks and field
width (`SplitAssumption`, `WidthAssumption`):

| theorem | statement |
|---|---|
| `SplitTiles` | an accepted length is split exactly: `Tiles(len)` |
| `CodecRoundTrip` | `decode_request_id` undoes `encode_request_id` on valid identifiers |
| `CodecInjective` | two valid identifiers never have the same encoding |
| `NotificationMatches` | what send task *i* tells the peer of chunk *i*, decoded, is the tag that receive task *i* expects, and no other's |
| `NotifyNumberReserved` | the number of a notification's own completion is that of no chunk |

`SplitTiles` rests on `AcceptedLength`: a split that has a chunk did not wrap, for a
wrapped sum is smaller than a chunk. `DivisionLaw` and `RoundedUp` are the two
facts about division it needs.

### Transport

`TransportProofs` proves, for every set of transfers, lengths, number of attempts,
prefill and depth of the queue, the smaller of the two being either, with receivers that
give the jetty or a jfr, refills that fail, careful and careless callers (the assumptions of
`ChunkPlan`, `KeysAssumption`, `CasesAssumption`, `QueueAssumption`,
`BoundsAssumption`):

| theorem | statement |
|---|---|
| `TransportInvariant` | `Spec => []IInv` |
| `TransportTypeCorrect` | `Spec => []TypeOK` |
| `TransportSplitIsExact` | `Spec => []SplitIsExact` |
| `TransportCreditsConserved` | `Spec => []CreditsConserved` |

`CreditsConserved` is not inductive. An arriving notification takes one entry and
adds one completion only if that completion is not there yet, that is, if a chunk of an
attempt is announced once. `Fresh` says so: a notification is on the wire or in
the completion queue and not in both, and no chunk that a queued task or the worker
is about to announce has been announced. Keeping `Fresh` needs `Working` (the worker
holds the one running task of its attempt) and `Accepted` (nothing is attempted
without an accepted length). `Credits` is the account itself, which a refill that fails
keeps by being counted: the entries in the queue, the completions to be polled and the
refills that failed (`Balance`) are what prefills have posted. As long as no prefill has
failed and all receives give the jetty (`Alike`), there is one prefill.
`SplitIsExact` follows from `Accepted` and `SplitTiles`.
Before it was proved, `IInv` was checked by TLC without `CarefulReuse`.

### Transport: what is delivered

`TransportDeliveryProofs` builds on that invariant. Its theorems hold for careful
callers: an identifier is used again only when nothing of its last attempt is under
way. Without that hypothesis they are false, and the run `transport_retry` refutes
one of them (§4).

| theorem | statement |
|---|---|
| `DeliveryInvariant` | `Spec => [](CarefulReuse => DInv)` |
| `DeliveryCallbackSeesData` | `Spec => [](CarefulReuse => CallbackSeesData)` |
| `DeliveryOneChunkInFlight` | `Spec => [](CarefulReuse => OneChunkInFlight)` |
| `DeliverySendOk` | `Spec => [](CarefulReuse => SendOkMeansDelivered)` |
| `DeliveryRecvOk` | `Spec => [](CarefulReuse => RecvOkMeansArrived)` |

The argument follows a token. A send is one token that goes from the write of chunk
*c* to its completion, to the wakeup of task *c*, to the worker that runs it, and to
the write of chunk *c* + 1. `Chain` says that there is one token at most, that every
chunk before it has landed and that the tasks behind it are queued, or that none is
when a cancellation came between. `Carried` says that each message has the user
context of its own chunk and is of the sender's current attempt; that the receiver
decodes the same is `NotificationMatches` and `CodecInjective`. `InStep` says that
the two ends of a transfer are at most one attempt apart and that the one behind has
nothing under way: this is where `CarefulReuse` is needed. `Dispatched` and `Arrived`
carry the facts on to the receiver's worker and result.

### ThreadPool

`ThreadPoolProofs` proves, for every number of workers, every set of requests, with
and without a match key, every number and size of batches (`WorkersAssumption` and the
other assumptions of `ThreadPool`):

| theorem | statement |
|---|---|
| `PoolInvariant` | `Spec => []IInv` |
| `PoolTypeCorrect` | `Spec => []TypeOK` |
| `PoolCountsExactly` | `Spec => [](CarefulReuse => PendingCountExact)` |
| `PoolBindsTogether` | `Spec => [](CarefulReuse => BoundTogether)` |
| `PoolRunsForCompletion` | `Spec => [](CarefulReuse => RunsForItsCompletion)` |
| `PoolKeepsOrder` | `Spec => [](CarefulReuse => InSubmissionOrder)` |
| `PoolCancelsAll` | `Spec => [](CarefulReuse => NothingLeftQueued)` |
| `PoolReportsOnce` | `Spec => [](CarefulReuse => BatchCallbackOnce)` |
| `PoolLosesNothing` | `Spec => [](CarefulReuse => EachTaskOnce)` |

The pool has no lock over the queue of a worker and the context of a request
together, so none of these is inductive: between two locks the context is behind the
queue. `IInv` says how far. `Home` places the tasks of a request: with a context they
are on its worker, without one they are on the worker that the submission in progress
has chosen, or nowhere. `Count` has the three windows: a batch attached and not yet
bound, a task taken and not yet counted, tasks removed and not yet subtracted.
`Current` says that every completion under way is of the last batch, which careful
reuse provides and `pool_rebind` shows to be needed. With it a task runs for its own
completion and no other (`OwnCompletion`), of which `RunsForItsCompletion` is a
consequence. Owners that wait for the context only (`pool_reuse`) are not covered by
these theorems. `Once` and `Somewhere` follow a
task through queue, worker and history; `Order` and `Unreported` are what
`InSubmissionOrder` and `BatchCallbackOnce` need; `Lives` says what the workers do
while the pool is created and destroyed.

The queues are lists, and what the code does to them is a walk. `ThreadPoolLemmas`
proves what each walk does for a list of any length: the search of a worker finds the
first match (`PopFinds`), unlinking a node leaves the others in order
(`RemoveMembers`), a cancellation leaves exactly the nodes of other requests
(`CancelMembers`) and unlinks as many as there were tasks (`OfRequestCount`). The
walk of the cancellation is a recursive function; its lemmas go by the least number
of steps at which they would fail (`LeastNumber`, `SetInduction`).

### LogBackend

`LogBackendProofs` proves all three safety properties of the log, for every number of
threads, callbacks, levels, descriptors and nested calls:

| theorem | statement |
|---|---|
| `LogInvariant` | `Spec => []IInv` |
| `LogTypeCorrect` | `Spec => []TypeOK` |
| `LogCallbackGetsItsLevel` | `Spec => []CallbackGetsItsLevel` |
| `LogFdsAccounted` | `Spec => []FdsAccounted` |

`Locked` reads the holder of the mutex off the points where the threads are; `Coupled`
says which fields go together at every point, also inside the mutex; `Nested` that a
suspended call is a write inside its callback, so that it holds no descriptor; and
`Owned` that the descriptors open on the log are those of the state and of the writes
under way, all different. `FdsAccounted` counts them: `Copies` and their descriptors
are in bijection.

### InjectRegistry

`InjectRegistryProofs` proves, for every number of threads and processes, every program
of calls, every size of the table and of the ring, with an older registry or without
one, and for every failure and every death in an initialisation:

| theorem | statement |
|---|---|
| `InjectInvariant` | `Spec => []IInv` |
| `InjectTypeCorrect` | `Spec => []TypeOK` |
| `InjectPointsSurvive` | `Spec => []PointsSurvive` |
| `InjectBudgetExact` | `Spec => []BudgetExact` |
| `InjectVerifyAnswers` | `Spec => []VerifyAnswers` |

The assumptions are those of the module: `ProcessAssumption`, `SizesAssumption`,
`NoneAssumption`, and `ProgramsAssumption`, which says that each call has arguments
its prototype takes. A budget is less than 2^32 (`Budget(c.arg) < Word`, a `uint32_t`
in the code), and only a process of one thread cleans up.

The three properties speak of objects at rest and none is inductive; `IInv` says what
is true while calls are under way:

* `Placed`: what a thread knows at each point (`Where`, `Origin`): the lock of its process
  while it initialises, a mapping while it calls, an object of its own before
  the version is stored; and how far an object has come (`Versions`);
* `Excluded`: one thread is between taking and giving back the spin lock of an object,
  and none while the word is 0;
* `Agreed`: the table has each name once, as it was last told;
* `Lookups`: what the search of a call found is still true when the call uses it,
  because the call has kept the lock;
* `Spendings`: trigger count and triggers make up the budget, except between the two
  accesses of `execute` that take from an empty budget and give back: there the
  count stands at `Word - 1` and everything is spent;
* `Recorded`: the ring has triggers only, except for the slot at the tail while
  its time is written and its name is not;
* `Readers`: a `verify` knows of each slot it has passed that the slot does not match, or
  that it was rewritten meanwhile (`ReadSoFar`).

All but `Typed` and `Placed` speak only of objects that no initialisation has stored
over while in use (`damaged`). The code does not keep `damaged` from happening (§4):
the creator stores lock and count after the version that lets others in, and two
processes may both reset an old registry. `Excluded` is kept in the others because a
creator builds an object alone (`Versions`) and `damaged` is raised by the store itself.

`IInv` was checked by TLC on the instance of `inject` before it was proved. The attempt
to prove it showed an error of an earlier version of the model, which TLC could not
show: two `CASE` expressions had guards that overlap, and there the value is any of
the arms' (TLC takes the first). The guards are now disjoint.

### Model-checked only

Liveness, which is beyond the prover: `EventuallyFreed`, `WaitReturns`, `WakeupsServed`,
`CompletionRunsTask`, `DestroyReturns`, both `InitReturns`, `SendReturns`, `RecvReturns`,
`CallsReturn`. Every invariant and every action property of a passing run is a theorem,
and so is the refinement `KeepsPromise`; but those of `pool_reuse`, where an owner waits
for the context only, are proved for owners that wait for everything
(`NeverCountedLow` follows from what `PoolCountsExactly` states). `RecvOkMeansArrived`
is proved for careful callers; for others `transport_retry` refutes it.

## 6. Not modelled, and why

*Everywhere.* Failing allocations (among them the batch that `update_batch_context`
leaves without a context at `os_transport_thread_pool.c:1022`, and the wakeup
dropped at line 738), validation of pointer arguments, the text of log lines, errors
of `pthread_*` calls, but for `ETIMEDOUT` and for a `pthread_create` that fails in
the pool, which are modelled.
A failed allocation is one return value at many sites; a switch for it
would multiply the runs without a new interaction, but for the two named.

*Thread pool.* The hash chains of `req_hash`. Data races on `is_destroying` and
`is_running` are taken to be benign, as on the platforms the library is built for:
the flag is written before the worker's mutex is taken to signal it. The `tid` of a
thread that could not be created, which the destruction joins, has no defined value;
the model takes the join to return.

*Life cycle.* `g_inited`, a plain `int`: one initialisation is modelled, and no call
before or after the pool's life. A configuration of no workers, for which
`os_transport_init` returns 0 with a NULL handle (`os_transport.c:1047`).

*Transport.* One jetty per handle: with two used in turn each receive would prefill anew.
A jfr that a receive gives is taken to be the one the jetty receives from, so that
there is one receive queue. `URMA_ENOMEM` is what posting to a full queue returns, as the
comment at `os_transport.c:1218` says; any other error may come at any post. The fabric
has no completions with an error status: `os_transport_wake_up_task` never looks at
`cr->status`, so what the properties say holds of a fabric on which what completes has
been done.
A receive that failed in its prefill is not retried. The filling of URMA work
request structures and the types of the fabric beyond what the library uses.

*Registry.* A process dying while it holds the spin lock, which nobody ever takes
from it; `g_shm_fd`, which keeps a closed number after a timeout (line 132); the
effects of triggered actions; `seq`, `writer_pid` and messages, which nothing reads
back; the rest of the command line tool, which formats or refuses bad arguments.

*Logging.* Formatting, level names, test hooks, and the identification of syslog
after another thread's `closelog`.

*URMA mock, tests, tools, build files.* Read for the intended use of the interfaces.
The mock is a test double; the fabric is modelled from the library's side.
`tools/datasystem_test/pipeline_h2d.cpp`, the largest file, is a test client of an
accelerator and a key-value store with a command line and no protocol of its own.

## 7. Plan

What is left, in order of importance:

1. A pool that is only a set of tasks per request, each run at most once, which
   `ThreadPool` implements under careful reuse, and which would replace the
   assumptions `TaskSync` and `Transport` make of it. The invariant of `ThreadPoolProofs`
   has the facts that this refinement needs.
2. The theorems of `ThreadPool` for owners that wait for the context only: with `Count`
   as an inequality, and with what becomes of stale completions in place of `Current`.
3. Allocation failure in `update_batch_context` as a switch of `ThreadPool`.
