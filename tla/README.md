# TLA+ model of the `aio` cooperative runtime core

This directory holds TLA+ modules and TLC configurations. They model the core of
the `aio` runtime in `src/`:

- futures and promises;
- tasks that step coroutines on a single-threaded event loop;
- cancellation that travels through the chain of awaited futures;
- the task-group scope.

Every definition is translated from the source. `PROJECT.json` maps each
definition to the lines it models, and lists the runs, the mutants, the
findings and the hazards.

## 1. Inventory

### Components

| Component | Source | State it keeps | Operations |
|---|---|---|---|
| Future | `aio/future/pure.py` `Future` | `_state`: `_PendingState(result_callbacks)` → `_SuccessState(result, scheduled_cbs)` or `_FailedState(exc, exc_retrieved, scheduled_cbs)` | `add_callback`, `remove_callback`, `_set_result` (+ `_schedule_callbacks`), `_cancel`, `__await__`, `result`, `exception` |
| Promise | `pure.py` `FuturePromise` | the future it controls | `set_result`, `set_exception` (refuses `Cancelled`), `cancel` |
| Task | `pure.py` `Task` | `_CreatedState` → `_ScheduledState(handle)` → `_RunningState(waiting_on)` → success/failed; the coroutine; the `current_task_cv` binding | `create_task`/`_schedule_first_step`, `_execute_coroutine_step` (+ `_send_to_coroutine_within_new_context`), `cancel`, `_cancel`, `_set_result` |
| Cancellation protocol | `pure.py` `Task._cancel`, `cancel_future` | none of its own | recursion through `waiting_on`, inner cancel by `coroutine.throw`, self-cancel detection |
| Event loop ready queue | not under `src/` (spec §6) | FIFO of callbacks, revocable `Handle`s | `call_soon`, `Handle.cancel`, `Handle.executed` |
| TaskGroup | `aio/task_group.py` | `_tasks`, `_is_finalized`; the join task | `spawn`, `wait_started`, `cancel`, `_join`, scope exit of `task_group()` |
| Legacy future module | `aio/future.py` | set of callbacks, `_state` enum, `_waiting_on`, `_started_promise` | the earlier `Future`/`Task`/`shield`; `task_group.py` calls this API (`_started_promise`, `is_finished()`, `exception` as a property) |
| Executor bridge | `aio/components/executor.py` | a waiter promise per call | a thread-pool result → `call_soon_thread_safe` → `set_result`/`set_exception` (ignoring `FutureFinishedError`); a cancel → `cfuture.cancel` |
| Package exports, example, tests | `aio/__init__.py`, `examples/`, `tests/` | none | re-exports, socket I/O, unit tests |

### How they interact

A Task subscribes its step (`_execute_coroutine_step`) as a callback on the
future its coroutine yields. When a future completes, `_schedule_callbacks`
puts each subscriber on the loop with `call_soon` and keeps the handles in
`scheduled_cbs`. A later `remove_callback` can revoke such a handle before
the loop runs it. Cancellation runs the other way: `Task._cancel` calls
`cancel_future` on the awaited future, recursively. When the awaited future
has already finished, `Task._cancel` revokes the wake-up and queues a step
that throws the `Cancelled` into the coroutine. A TaskGroup spawns child
tasks, cancels them all on a body exception, and joins them through a task of
its own, `shield`ed against cancellation of the scope. The executor bridge
completes promises from other threads through `call_soon_thread_safe`.

### What is hard

- Interleaving of callbacks on the FIFO: completions, cancels and steps of
  several tasks, with a cancel arriving between a completion and the wake-up
  it queued.
- Re-entrancy: a running coroutine that cancels a task whose await chain
  leads back to itself.
- Retried cancels: a task cancelled twice, which `task_group()` does on
  purpose (`task_group.py:86`).
- Stale state: `waiting_on` and the handles in `scheduled_cbs` are read
  when a step or a cancel runs, possibly long after they were written.
- Programming errors raised into the loop, such as a self-await, which can
  leave a task pending forever.
- Liveness: a cancel must reach and fail the task through any depth of
  awaited tasks.

### Properties that make each component correct

- **Future**: assigned once. Every subscriber is woken once, after
  completion. A revoked wake-up never runs.
- **Task**: one step at a time. A task completes only from its own step,
  except when it is cancelled before it ever ran. A pending task always has
  a way to be stepped again. A task is never resumed on a future that is
  still pending.
- **Cancellation**: a cancel that returns normally is delivered. The task
  then fails with that `Cancelled` unless a coroutine catches it. A task
  cannot cancel itself, directly or through a chain.
- **TaskGroup**: no child outlives the scope. Every child exception is
  aggregated. Spawning after finalisation is refused.
- **Executor bridge**: a late thread result on a cancelled waiter is
  ignored and does not raise.

## 2. Modules

### `FutureTask.tla`: futures, promises, tasks, cancellation, the loop queue

State, all per future or task unless noted:

| Variable | Code |
|---|---|
| `fstate` | the class of `_state`: `created`, `scheduled`, `running` (`_PendingState` variants; a promise's future is `running`), `success`, `failed` |
| `fexc` | `_FailedState.exc` |
| `callbacks` | `_PendingState.result_callbacks`, the tasks whose step subscribed, in insertion order |
| `scheduled` | the keys of `scheduled_cbs` |
| `waitingOn` | `_RunningState.waiting_on` |
| `coro` | `inspect.getcoroutinestate` |
| `queue` (global) | the loop's FIFO; an entry is a call of `_execute_coroutine_step`: `first`, `wake` from future `fut`, or `throw` with an `inner_cancel` |
| `current` (global) | `current_task_cv`, i.e. the task whose coroutine is running |
| `inbox` (global) | the exception propagating in the running coroutine |

Actions:

- Environment, meaning other loop callbacks:
  - `ScheduleFirstStep` (`create_task`);
  - `ResolvePromise`, `CancelPromise`;
  - `CancelTask` (`Task.cancel`).
- Loop: `ExecuteCoroutineStep` resumes a coroutine. `StepRejected` is the
  `RuntimeError` checks at the top of `_execute_coroutine_step`.
- Running coroutine:
  - `CoroAwait` is the yield path: the `finally` unsubscribe, the self-await
    check, then `add_callback` and `_RunningState`;
  - `CoroReturn` and `CoroRaise` are the `StopIteration` and `Exception`
    paths;
  - `CoroCancel` is a `Task.cancel` called from inside a coroutine.

`ChainEnd` (RECURSIVE) follows `waiting_on` the way `Task._cancel` →
`cancel_future` recurses, and detects a cycle (`RecursionError`).
`CancelRaises` gives the exception a cancel raises:

- `FutureFinishedError`;
- `SelfCancelForbidden`;
- `RecursionError`;
- `AssertionError`, from `assert not handle.executed`.

`ApplyCancel` is the effect on the end of the chain.

The coroutine is arbitrary: at each step it may return, raise, await any
pending future (`MaxSteps` awaits at most), or cancel a task. It may catch
what is thrown into it. Two constants restrict it for some runs:

- `CatchCancel = FALSE`: it never catches a `Cancelled`;
- `CoroCancels = FALSE`: it never calls `cancel`.

`SelfAwait` allows a coroutine to await its own task.

### `AbstractFuture.tla`: what a future and a task promise

A future goes from pending to done once, with one outcome. At most one
coroutine runs at a time. A task completes from its own step, or from
outside only when cancelled before it was ever resumed. `FutureTask` refines
it through `AF == INSTANCE AbstractFuture WITH ...`; the mapping is:

- pending means any `_PendingState` variant;
- `started` means the coroutine left `CORO_CREATED`;
- `active` means `current_task_cv`.

### `LegacyFuture.tla`: the future module `task_group.py` imports

`task_group.py` imports `Task`, `_create_task` and `Future` from
`aio.future`, and calls the API of the earlier implementation in
`src/aio/future.py`: `_started_promise`, `is_finished()`, `exception` as a
property. This module models that file. Which file `aio.future` resolves to
in the full repository is not settled by this snapshot: `src/aio/future/`
has no `__init__.py` here, yet `pure.py` imports `aio.future._priv`. The
model follows the API `task_group.py` actually calls.

| Variable | Code |
|---|---|
| `state` | `Future._state` (`created`, `scheduled`, `running`, `finishing`, `finished`) |
| `res` | `_value`/`_exc`: `notset`, `ok`, or an exception |
| `callbacks` | `_result_callbacks`, a set: a task's `_schedule_execution` or a shield's `future_done_cb` |
| `queue` | the loop FIFO: a step of a task, or a callback called with its future |
| `waitingOn` | `Task._waiting_on` |
| `shieldOf` | the future a `shield()` promise mirrors |
| `current`, `inbox`, `coro` | the running task, what its await returns, the coroutine state |

`_set_result` is `SetResultW`: it schedules the callbacks in every order
`SetToSeqs` gives, because a set is iterated in an order no code fixes.
Several calls within one handler (`_cancel` recursing and then completing,
`tg.cancel` looping over children) are composed on a "world" record of
`state`, `res` and `queue`. A task's `_started_promise` is a future of its
own, `SP(t)`, with its own callbacks, so a shield can subscribe to it.
`SetResultW` is `Task._set_result`: `FutureSetResultW` (the plain
`Future._set_result`), then `StartW`, which completes the started promise
unless it is done. `FirstYieldW` is the first yield of a scheduled task:
state `running`, then `_started_promise.set_result(None)`. Coroutines await
only `UserFutures`, the futures other than the private started promises.
`CancelChain` (RECURSIVE) follows
`_waiting_on` like `Task._cancel` does. `CancelRaisesW` gives what it raises:
`FutureFinishedError` at a finished end, or `RecursionError` on a cycle.
`ShieldDone` is `future_done_cb`, with its `ValueError` for a cancelled
future and `FutureFinishedError` for a shield already set.

`loopErrors` is a history: each exception that escapes a loop callback is
recorded as `LoopError(cb, e)`, with the callback that raised it (a task's
step `SE(t)`, a shield's `SH(s)`, or `None` for a cancel issued from another
callback). Properties can then tell a shield's error from the one
`Task._cancel` raises.

### `TaskGroup.tla`: the task-group scope

It EXTENDS `LegacyFuture`. Task `Parent` runs the `task_group()` scope:

- `Spawn`: `spawn`, after `CheckNotFinalized` (`_check_not_finalized`);
- `WaitStarted`: `wait_started`. It spawns the child, then awaits a fresh
  shield of the child's `_started_promise`;
- `BodyAwait`: the body awaits a promise;
- `BodyExit`: the body ends or raises. On a body exception it runs
  `tg.cancel` (`GroupCancelW`), then creates `join_task` and awaits
  `shield(join_task)` (`AwaitJoin`);
- `ScopeResume`: the shielded await returns. On `Cancelled` with `join_task`
  not cancelled it re-cancels the group and loops; otherwise it re-raises
  (`Reraise`, `BodyAborts`) or exits (`ExitScope`).

`JoinStep` is `_join`. It sets `_is_finalized`, takes the tuple of tasks, and
waits for one pending child at a time. That is `iter_done_futures`, which is
not in the repository and is modelled from spec §4.6 (`ChildDone`). Then it
raises the `MultiError` of the child exceptions (`JoinErrors`). Children are
arbitrary coroutines that await promises, return or raise.

`task_group.py` imports `shield` from `aio.funcs`, which is not in the
repository. `WaitStarted` and `AwaitJoin` use the `shield` of
`src/aio/future.py` (`AwaitShield`, `ShieldDone`) in its place: a promise
that mirrors the inner future and is not cancellable through its own handle,
as spec §6 describes `shield`. `ShieldErrorsOnlyStale`, `ScopeCompletes` and
`WaitStartedReturns` rest on this stand-in.

### `ExecutorBridge.tla`: thread-pool calls awaited on the loop

It EXTENDS `LegacyFuture`, since `executor.py` imports `aio.future`. A task
runs `execute_sync_callable(fn)`, or, if it is in `ThreadCallers`,
`_stupid_execute_on_thread(fn)`. The latter is the helper
`_close_std_executor` uses.

Task `Owner` leaves `concurrent_executor_factory`. The constant
`OverrideExecutor` says whether the factory was given an executor:

- With one (`TRUE`), the calls go to that pool. Leaving the factory
  (`OwnerExit`) closes nothing.
- Without one (`FALSE`), line 119 hands `None` to `ConcurrentExecutor`.
  `Submit` then finishes the caller with `AttributeError` before anything is
  submitted. Leaving the factory runs `_close_std_executor`: `Owner` joins
  `Threaded`, and its thread's `fn` is the shutdown of an unused pool, which
  returns (`ThreadResults`).

| Variable | Code |
|---|---|
| `cfState`, `cfResult` | the `concurrent.futures.Future` of the call: PENDING, RUNNING, FINISHED or CANCELLED, and what `fn` did |
| `work` | the pool's FIFO work queue: a call of `fn`, or a submitted `cfuture.cancel` |
| `busy` | the work item each worker thread has dequeued |
| `thread` | the thread `_stupid_execute_on_thread` starts: not yet, running, done |
| `cancelReq`, `pendingAtCancel`, `bridgeErrors` | history: the tasks a cancel was issued to (even one `_cancel` refused); the tasks whose call was still queued when their except clause ran; the errors bridge callbacks raised in the loop |

Actions:

- The task's first step is `Submit`: `submit`, `_create_promise`,
  `add_done_callback`, then `await waiter.future`.
- `Resume` returns the value or raises the exception. On `Cancelled` it
  first queues `cfuture.cancel`.
- Worker threads:
  - `Dequeue`;
  - `StartCall`, which is `set_running_or_notify_cancel`;
  - `FinishCall`, where `fn` ends and `on_result_from_executor` (`OnResult`)
    runs in the worker;
  - `RunCancel`, which is `cfuture.cancel()`.
- `Deliver` is the loop running the `call_soon_thread_safe` callback through
  `_ignore_feature_finished_error`. `SetterError` is what the waiter's setter
  raises: `ValueError` from `set_exception` for a `Cancelled`, checked
  first, or `FutureFinishedError` once the waiter is finished. The wrapper
  drops the errors in `Ignored`.
- `CancelCaller` is `Task._cancel` from another callback, on a task that
  awaits its waiter.
- A thread caller's first step is `StartThread`: `_create_promise`,
  `Thread.start`, then `await waiter.future`. `ThreadFn` is `thread_fn` in
  the new thread. `fn` ends, and `ThreadDelivery` queues the same
  `_ignore_feature_finished_error` callback. A `BaseException` becomes
  `RuntimeError`, and a return becomes `set_result(None)`. `ThreadResume`
  returns or raises what the waiter holds. There is no except clause, so a
  cancelled caller leaves its thread running.

The pool is not code of this repository. It is modelled by the documented
behaviour of `ThreadPoolExecutor`. `add_done_callback` is part of the
submitting step. When `fn` already finished, the callback runs in the loop
thread instead of the worker, but it queues the same loop callback.

### `MCFutureTask.tla`, `MCLegacyFuture.tla`, `MCTaskGroup.tla`, `MCExecutorBridge.tla`

Model values for three tasks `t1 t2 t3`, one promise `p1` and two
`Cancelled` instances `c1 c2`. For the legacy module: two tasks, one promise
and one or two shields. For the task group: two children `c1 c2`, the parent
`P`, the join task `J`, two promises (one in the progress run) and two shields (three in the progress run). For the executor:
tasks `t1 t2 t3`, their waiters `p1 p2 p3` and two workers `w1 w2`. One of
the tasks is `Owner`, the task leaving the factory.

`BridgeRefinement` instantiates `AbstractFuture` over the user futures, the
callers and their waiters. A future's status is done once it is finished,
and its outcome is its exception (`None` for a result). So every step of
the bridge, the pool, the thread and the loop is a step or a stutter of the
abstract single-assignment future.

## 3. Runs

| Run | cfg | Expect | Checks |
|---|---|---|---|
| `core` | `MCFutureTask.cfg` | pass | `TypeOK`, `NoStrandedTask`, `FutureRefinement`; 3 tasks, any coroutines, two cancels from callbacks or coroutines |
| `cancel_propagation` | `MCFutureTask_propagate.cfg` | pass | `WakeTargetsCurrentWait`, and `CancelPropagates` under weak fairness; 3 tasks, non-catching coroutines, one cancel |
| `double_cancel` | `MCFutureTask_double.cfg` | violation | `NoLoopError`: a second cancel after the awaited future finished is rejected in the loop |
| `indirect_self_cancel` | `MCFutureTask_selfchain.cfg` | violation | `CancelPropagates`: a cancel that reaches the running task through a chain is lost |
| `legacy_core` | `MCLegacyFuture.cfg` | pass | `TypeOK`, `NoStrandedTask`, `ResumeOnlyWhenDone`; 2 tasks, 1 promise, 2 shields, 2 cancels |
| `legacy_prestart_cancel` | `MCLegacyFuture_prestart.cfg` | violation | `NoStepAfterFinish`: a task cancelled before its first step still runs |
| `legacy_shield` | `MCLegacyFuture_shield.cfg` | violation | `ShieldMirrors`: a shield of a cancelled future never finishes |
| `tg_join` | `MCTaskGroup.cfg` | pass | `TGTypeOK`, `NoChildOutlivesScope`, `NoErrorLost`; 2 children, body may raise, no cancels |
| `tg_progress` | `MCTaskGroup_progress.cfg` | pass | `ShieldErrorsOnlyStale`, and `ScopeCompletes` and `WaitStartedReturns` under weak fairness; body may await a promise, use `wait_started`, and raise; one inbound cancel |
| `tg_cancel_finished_child` | `MCTaskGroup_cancelfinished.cfg` | violation | `NoChildOutlivesScope`: `tg.cancel` on a finished child aborts the scope |
| `exec_bridge` | `MCExecutorBridge.cfg` | pass | `BTypeOK`, `OutcomeFaithful`, `BridgeRefinement`, and `CallCompletes` under weak fairness; a pool caller, a thread caller and the factory's owner, 2 workers, 2 cancels |
| `exec_cancel_queued` | `MCExecutorBridge_cancel.cfg` | violation | `CancelStopsQueuedCall`: a queued call of a cancelled caller still runs |

What they show:

- **`core`**: however coroutines and cancels interleave, a pending task is
  always either running, queued, or subscribed to a pending future. This
  includes double cancels, cancels issued from inside coroutines, and
  `AssertionError`/`RecursionError` paths. Completion is single-assignment.
  A task is only completed from outside when it is an unstarted task being
  cancelled.
- **`cancel_propagation`**: every queued wake-up of a task comes from the
  future it awaits now, and is still revocable through `scheduled_cbs`. This
  only holds while no task receives a second cancel. The `core` traces show
  the counterexamples: a double cancel, or a cancel that comes back to the
  running task, leaves a stale wake-up queued behind the task's completion.
  In the same run, a cancel accepted on a task reaches the end of its
  await chain (three tasks deep). The task eventually fails with the same
  `Cancelled` instance (spec §8 scenario 3). This needs one cancel; the two
  violation runs show why.
- **`legacy_core`**: in the legacy module, a started pending task always
  has a queued step or a callback on a pending future, and no await resumes
  with `FutureNotReady`, in any callback order.
- **`tg_join`**: when the body ends normally, or raises before any child
  finished, the scope never exits while a spawned child is pending. Every
  child's error and the body's error reach what the scope raises.
- **`tg_progress`**: once the scope is joining and the promises are settled,
  it exits, even with an inbound cancel of the parent. A body suspended in
  `tg.wait_started` is resumed, and by then the child has run a step. The
  child's first yield completes the started promise, and the shield's
  callback carries it to the body. This holds even when the child then waits
  forever on a promise. That the child ran first is a consequence of the
  FIFO queue: the child's first step is queued before anything that can
  resume the body. A shield's `future_done_cb` raises into the loop only
  for a stale subscription (`ShieldErrorsOnlyStale`). That is a shield that
  `Task._cancel` already completed as `Cancelled`, when an inbound cancel
  reached it through the parent's `_waiting_on`. The error is then only
  `FutureFinishedError`, never the `ValueError` of finding 5: the scope
  shields only `join_task` and started promises, and neither is ever
  cancelled while it is shielded. The run reaches such a stale callback.
- **`exec_bridge`**: a task that awaits a thread-pool call ends with what
  `fn` did. It gets `RuntimeError` if `fn` raised a `BaseException`, and ends
  `Cancelled` only if it was cancelled. Every call, and every awaiting task,
  eventually completes. The same holds for a task awaiting
  `_stupid_execute_on_thread`. `BridgeRefinement`: the legacy futures under
  the bridge implement the abstract single-assignment future of
  `AbstractFuture`, so a worker's or a thread's result that reaches the loop
  after the cancel never overwrites the waiter.
- **Violation runs**: see Findings.

Bounds: three tasks are enough for a chain task → task → task/promise and for
a bystander. One promise is the leaf of a chain. `MaxSteps = 2` lets a
coroutine catch a thrown `Cancelled` and await again. Two `Cancelled`
instances give a retried cancel. Each cancel uses a fresh instance, so its
delivery can be traced.

For the task group, two children are enough for one to finish while the
other is pending, which is where `tg.cancel` fails. `MaxCancels = 1` gives
one inbound cancel. `MCTaskGroup.cfg` keeps the body from awaiting (a promise
or `wait_started`) and has no cancels, because with any of them the
`tg.cancel` bug of finding 6 breaks the invariants. `MCTaskGroup_progress.cfg`
has one promise, which both children may await, and three shields: one for
`wait_started`, one for the join, and one for the re-shield after the inbound
cancel. With two promises the state space grows from 282 thousand to 5.8
million states, past what a run can afford. `MCTaskGroup_inbound.cfg` is a further configuration. It
reproduces the re-cancel path of `task_group.py:86` (see finding 6).

For the executor, two workers allow a cancel item to be taken while another
worker has just dequeued the call, which is the only way the code's cancel can
succeed. A pool caller and a thread caller make their results and cancels
interleave on one loop queue. `MaxCancels = 2` lets both be cancelled. Two
pool callers are left to `MCExecutorBridge_cancel.cfg`. With two pool callers
and a thread caller, the passing run takes 2.1 million states and 20 minutes.
The factory's owner as a third task takes the run to 108 thousand states
and 1.5 minutes.

Fairness: weak fairness on the loop running its queue head, and on a resumed
coroutine reaching its next suspension. The task-group spec adds the parent's and the join task's steps. Both follow from the code: the loop
runs callbacks to completion one at a time, and a step holds nothing that
could block it. Nothing obliges the environment to resolve a promise or to
cancel anything. Each pool worker that has work proceeds: `fn` is assumed to
terminate. `CHECK_DEADLOCK FALSE`: the loop really goes idle once every
task is finished or waiting on a promise nobody resolves.

## 4. Findings

1. **Double cancel** (`pure.py:354`): cancelling a running task twice after
   its awaited future finished queues two inner-cancel steps. The second one
   is rejected with `RuntimeError` in the loop, and its `Cancelled` is never
   delivered. `task_group()` re-cancels children on every inbound cancel
   (`task_group.py:86`, with a TODO asking exactly this).
2. **Indirect self-cancel** (`pure.py:312`): running task A cancels task B,
   which awaits A. The cancel is accepted, not refused with
   `SelfCancelForbidden`, and lands on A as an inner cancel. It is then
   rejected in the loop, and B is never cancelled.
3. **Self-await** (`pure.py:396`), from the supplementary configuration
   `MCFutureTask_selfawait.cfg` (not one of the runs): the `RuntimeError`
   escapes to the loop after the coroutine suspended. The task stays pending
   with nothing left to step it. Spec §7 says it should terminate the task.
4. **Cancel before the first step** (`future.py:267`): a legacy task with no
   `_waiting_on` is completed as `Cancelled` at once. Its queued first step is
   not revoked, and `_execute_coroutine_step` has no guard, so the coroutine
   of a finished task runs. Spec §4.4 says the handle is revoked.
5. **Shield of a cancelled future** (`future.py:331`): `future_done_cb`
   passes `Cancelled` to `set_exception`. That raises `ValueError` in the
   loop, and the shield never finishes, so any task awaiting it hangs. The
   task-group scope does not reach this path: it shields only `join_task`
   and started promises, which are never cancelled while shielded
   (`ShieldErrorsOnlyStale` in `tg_progress`).
6. **`tg.cancel` on a finished child** (`task_group.py:33`): `_cancel` on
   a finished task raises `FutureFinishedError`. The loop over children stops,
   the join is never created, and the scope exits while other children are
   still pending. Spec §4.5 says `cancel` cancels every live child.
   `tg.wait_started` makes this the ordinary case. It suspends the body
   until a child has run a step, and a short child finishes in that step.
   If the body then raises, its own exception is replaced by the
   `FutureFinishedError` (with `wait_started` in `MCTaskGroup.cfg`, TLC
   reports `NoErrorLost` violated in 10 steps).
   `MCTaskGroup_inbound.cfg` reaches the same failure from the re-cancel on
   an inbound cancel (`task_group.py:86`): the recursion reaches a child's
   awaited promise that another callback already finished.
7. **Cancelling a queued executor call does not stop it**
   (`executor.py:99`). The except clause submits `cfuture.cancel` to the same
   pool as a new work item. The pool's queue is FIFO, so the call is dequeued
   and marked running before the cancel item runs. `cancel()` then fails, and
   `fn` runs for a task that is already cancelled. The cancel wins only if a
   second worker runs it between another worker's dequeue and its
   `set_running_or_notify_cancel`. With `cfuture.cancel()` called directly in
   the except clause, TLC finds no violation under the same configuration.

8. **`fn` raising aio's `Cancelled`** (`executor.py:85`, and `thread_fn`
   at line 37), from the supplementary configuration
   `MCExecutorBridge_fncancelled.cfg` (not one of the runs). `Cancelled` is
   an `Exception`, so it is passed to `waiter.set_exception`, which refuses
   it with `ValueError` (`future.py:52`). `_ignore_feature_finished_error`
   catches only `FutureFinishedError`. The `ValueError` escapes into the
   loop, the waiter never finishes, and TLC reports `CallCompletes`
   violated: the awaiting task stays suspended for ever. The root cause is
   the one of finding 5.
9. **The factory's executor is never used** (`executor.py:119`), from the
   supplementary configuration `MCExecutorBridge_default.cfg` (not one of
   the runs), with `OverrideExecutor = FALSE`.
   `ConcurrentExecutor(selector, override_executor)` gets `None` when no
   executor is given, not the `ThreadPoolExecutor` made on line 116. Every
   `execute_sync_callable` then fails with `AttributeError` before `fn` is
   submitted, and TLC reports `OutcomeFaithful` violated. Leaving the
   factory shuts down a pool that nothing used.

Two bugs in `executor.py` are in data, not in interleavings. The model
abstracts them away, and no run checks them:

- `submit(fn, args)` (line 66) passes the argument tuple as one argument and
  drops `kwargs`.
- `waiter.set_result, cfuture.result` (line 91) resolves the waiter with the
  bound method, not its value.

## 5. Not modelled

- `result()`/`exception()` reads, `exc_retrieved` and the `__del__`
  warnings. They are diagnostics.
- Context maps and labels.
- Values: a success is `None` in `fexc`.
- `coerce_cancel_arg` on strings and `None`: every cancel passes a fresh
  `Cancelled` instance.
- Cross-loop awaits and non-future yields. There is one loop, and coroutines
  yield futures. A non-future yield (`pure.py:433`) strands the task the way
  a self-await does (finding 3); it is listed as a hazard.
- The shutdown's effect on the pool. Because of the line-119 bug, the pool
  `_close_std_executor` shuts down is never one a call uses, so its
  shutdown races nothing. With an override it is not shut down at all. A
  cancelled `_close_std_executor` returns while its thread still runs the
  shutdown; nothing in the repository says the close must wait.
- The thread pool's growth (`_adjust_thread_count`) and shutdown. The model
  has a fixed set of workers.
- The loop's behaviour after a callback raises. The model records it in
  `loopErrors` and goes on.

## 6. Plan

Steps 1–7 are done.

1. `FutureTask` + `AbstractFuture`: the core of spec §4.1–4.4.
2. `LegacyFuture`: `aio/future.py`, which `task_group.py` uses.
3. `TaskGroup`: spawn, cancel, `_join` and the scope exit.
4. `ExecutorBridge`: `execute_sync_callable` over a thread pool.
5. The runs above.
6. `TaskGroup.wait_started`, with `_started_promise` as a future that
   shields can subscribe to.
7. A history of loop errors split by the callback that raised them, and
   `ShieldErrorsOnlyStale` over it. The executor factory, and the bridge's
   refinement of `AbstractFuture`.
8. A task group over `FutureTask` (the newer module), to check whether the
   scope is sound there. The join-order property (§8.7) and spawn-after-
   finalisation go with it.
