---------------------------- MODULE ExecutorBridge ----------------------------
(***************************************************************************)
(* src/aio/components/executor.py: ConcurrentExecutor.execute_sync_callable *)
(* on top of the future module it imports, aio/future.py (LegacyFuture).   *)
(*                                                                         *)
(* Each task in Tasks runs `await executor.execute_sync_callable(fn)`: it  *)
(* submits fn to a concurrent.futures thread pool, creates the waiter      *)
(* promise Waiter[t], registers on_result_from_executor as the done        *)
(* callback of the concurrent future, and awaits the waiter.  The pool's   *)
(* worker threads run concurrently with the loop thread; the done          *)
(* callback runs in the thread that completes or cancels the concurrent    *)
(* future and hands the outcome to the loop with call_soon_thread_safe.    *)
(* When the awaiting task is cancelled, the except clause submits          *)
(* cfuture.cancel to the same pool and re-raises.                          *)
(*                                                                         *)
(* The pool (concurrent.futures.ThreadPoolExecutor) is not code of this    *)
(* repository; it is modelled by its documented behaviour: one FIFO work   *)
(* queue, each worker dequeues a work item and then calls                  *)
(* set_running_or_notify_cancel, and Future.cancel succeeds only on a      *)
(* PENDING future.                                                         *)
(*                                                                         *)
(* The tasks in ThreadCallers run `await _stupid_execute_on_thread(fn)`    *)
(* instead (the helper _close_std_executor uses): a fresh thread runs fn   *)
(* and hands the outcome to the loop the same way; the caller awaits the   *)
(* waiter with no except clause, so a cancel leaves the thread running.    *)
(*                                                                         *)
(* Task Owner runs the `async with concurrent_executor_factory(...)` that  *)
(* made the executor, and leaves it: with an override executor the        *)
(* finally clause does nothing; without one it runs _close_std_executor,   *)
(* a _stupid_execute_on_thread of the fresh pool's shutdown. The factory  *)
(* hands override_executor to ConcurrentExecutor, so without an override  *)
(* its _executor is None.                                                  *)
(***************************************************************************)
EXTENDS LegacyFuture

CONSTANTS
  Waiter,    \* Waiter[t]: the promise created by task t's call
  Workers,   \* the pool's worker threads
  FnResults, \* what fn may do: return, raise an Exception (aio's Cancelled
             \*   among them), raise a BaseException
  ThreadCallers, \* the tasks that call _stupid_execute_on_thread
  Owner,         \* the task that leaves concurrent_executor_factory
  OverrideExecutor \* was the factory given override_executor

ASSUME /\ Waiter \in [Tasks -> Promises]
       /\ \A t, u \in Tasks : t # u => Waiter[t] # Waiter[u]
       /\ FnResults \subseteq {"ok", UserError, Cancelled, "BaseException"}
       /\ ThreadCallers \subseteq Tasks
       /\ Owner \in Tasks \ ThreadCallers
       /\ OverrideExecutor \in BOOLEAN

\* The tasks awaiting a thread: the callers of _stupid_execute_on_thread,
\* and Owner in _close_std_executor when the factory made its own pool.
Threaded == ThreadCallers \cup (IF OverrideExecutor THEN {} ELSE {Owner})

\* The tasks that call execute_sync_callable.
PoolCallers == Tasks \ (ThreadCallers \cup {Owner})

\* What the thread of t may do: fn, or for Owner executor.shutdown(wait=True,
\* cancel_futures=True) of a pool no call was submitted to, which returns.
ThreadResults(t) == IF t = Owner THEN {"ok"} ELSE FnResults

VARIABLES
  cfState,      \* the concurrent future of t's call: "none" before submit,
                \*   then PENDING, RUNNING, FINISHED or CANCELLED
  cfResult,     \* what fn did, once FINISHED
  work,         \* the pool's work queue: calls of fn and of cfuture.cancel
  busy,         \* busy[w]: the work item worker w has dequeued, or None
  cancelReq,    \* history: tasks a cancel was issued to, even one _cancel refused
  pendingAtCancel, \* history: tasks whose call was still queued in the pool
                   \*   when the except clause cancelled it
  bridgeErrors, \* history: exceptions a bridge callback raised in the loop
  thread        \* the thread a task awaits: "none", "running", "done"

bVars == <<cfState, cfResult, work, busy, cancelReq, pendingAtCancel,
           bridgeErrors, thread>>
allVars == <<vars, bVars>>

CallItem(t) == [fn |-> "call", cf |-> t]
CancelItem(t) == [fn |-> "cancel", cf |-> t]

\* The loop callback call_soon_thread_safe queues: the
\* _ignore_feature_finished_error wrapper around waiter.<op>(val).
DeliverEntry(t, op, v) ==
  [cb |-> [kind |-> "deliver", id |-> t], fut |-> None, step |-> FALSE,
   op |-> op, val |-> v]

BInit ==
  /\ Init
  /\ cfState = [t \in Tasks |-> "none"]
  /\ cfResult = [t \in Tasks |-> None]
  /\ work = <<>>
  /\ busy = [w \in Workers |-> None]
  /\ cancelReq = {}
  /\ pendingAtCancel = {}
  /\ bridgeErrors = {}
  /\ thread = [t \in Tasks |-> "none"]

-----------------------------------------------------------------------------
(***************************************************************************)
(* on_result_from_executor, in the thread that completed or cancelled the  *)
(* concurrent future of t: the loop callback it queues.  A BaseException  *)
(* is wrapped in RuntimeError; a result is passed as cfuture.result.       *)
(***************************************************************************)
\* Mutant: only Exception subclasses are forwarded (no isinstance check
\* and wrapping): the callback raises for a BaseException and queues nothing.
OnResultExceptionOnly(t, st, r) ==
  CASE st = "CANCELLED"   -> <<DeliverEntry(t, "cancel", None)>>
    [] r = "BaseException" -> <<>>
    [] r = "ok"          -> <<DeliverEntry(t, "set_result", "ok")>>
    [] OTHER             -> <<DeliverEntry(t, "set_exception", r)>>

\* Mutant: a BaseException is forwarded as it is, without the wrapping.
OnResultUnwrapped(t, st, r) ==
  CASE st = "CANCELLED" -> <<DeliverEntry(t, "cancel", None)>>
    [] r = "ok"        -> <<DeliverEntry(t, "set_result", "ok")>>
    [] OTHER           -> <<DeliverEntry(t, "set_exception", r)>>

OnResult(t, st, r) ==
  CASE st = "CANCELLED"   -> <<DeliverEntry(t, "cancel", None)>>
    [] r = "BaseException" -> <<DeliverEntry(t, "set_exception", "RuntimeError")>>
    [] r = "ok"          -> <<DeliverEntry(t, "set_result", "ok")>>
    [] OTHER             -> <<DeliverEntry(t, "set_exception", r)>>

-----------------------------------------------------------------------------
(***************************************************************************)
(* The pool's worker threads.                                              *)
(***************************************************************************)

\* _worker: work_queue.get() by an idle worker.
Dequeue(w) ==
  /\ busy[w] = None
  /\ work # <<>>
  /\ busy' = [busy EXCEPT ![w] = Head(work)]
  /\ work' = Tail(work)
  /\ UNCHANGED <<vars, cfState, cfResult, cancelReq, pendingAtCancel, thread,
                 bridgeErrors>>

\* _WorkItem.run of a call of fn: set_running_or_notify_cancel; a
\* cancelled future is dropped, otherwise fn runs.
StartCall(w) ==
  /\ busy[w] # None
  /\ busy[w].fn = "call"
  /\ cfState[busy[w].cf] # "RUNNING"
  /\ IF cfState[busy[w].cf] = "CANCELLED"
     THEN /\ busy' = [busy EXCEPT ![w] = None]
          /\ UNCHANGED cfState
     ELSE /\ cfState' = [cfState EXCEPT ![busy[w].cf] = "RUNNING"]
          /\ UNCHANGED busy
  /\ UNCHANGED <<vars, cfResult, work, cancelReq, pendingAtCancel, bridgeErrors,
                 thread>>

\* fn returns or raises: set_result/set_exception on the concurrent
\* future, then its done callback, on_result_from_executor, runs here.
FinishCall(w) ==
  /\ busy[w] # None
  /\ busy[w].fn = "call"
  /\ cfState[busy[w].cf] = "RUNNING"
  /\ \E r \in FnResults :
       LET t == busy[w].cf IN
       /\ cfState' = [cfState EXCEPT ![t] = "FINISHED"]
       /\ cfResult' = [cfResult EXCEPT ![t] = r]
       /\ queue' = queue \o OnResult(t, "FINISHED", r)
  /\ busy' = [busy EXCEPT ![w] = None]
  /\ UNCHANGED <<state, res, callbacks, waitingOn, coro, shieldOf,
                 current, inbox, steps, ncancel, loopErrors, work, cancelReq,
                 pendingAtCancel, bridgeErrors, thread>>

\* A submitted cfuture.cancel(): succeeds only on a PENDING future, and then
\* runs the done callback in this worker.
RunCancel(w) ==
  /\ busy[w] # None
  /\ busy[w].fn = "cancel"
  /\ LET t == busy[w].cf IN
       IF cfState[t] = "PENDING"
       THEN /\ cfState' = [cfState EXCEPT ![t] = "CANCELLED"]
            /\ queue' = queue \o OnResult(t, "CANCELLED", None)
       ELSE UNCHANGED <<cfState, queue>>
  /\ busy' = [busy EXCEPT ![w] = None]
  /\ UNCHANGED <<state, res, callbacks, waitingOn, coro, shieldOf,
                 current, inbox, steps, ncancel, loopErrors, cfResult, work,
                 cancelReq, pendingAtCancel, bridgeErrors, thread>>

Worker(w) == Dequeue(w) \/ StartCall(w) \/ FinishCall(w) \/ RunCancel(w)

-----------------------------------------------------------------------------
(***************************************************************************)
(* The loop runs a callback queued by on_result_from_executor or thread_fn: *)
(* _ignore_feature_finished_error(waiter.<op>, val).                       *)
(***************************************************************************)

\* What waiter.<op>(val) raises on promise p: _FuturePromise.set_exception
\* refuses a Cancelled with ValueError before anything else; every setter's
\* Future._set_result raises FutureFinishedError once p is finished (the
\* waiter was cancelled meanwhile).
\* Mutant: the setters lose Future._set_result's is_finished() check.
SetterErrorNoFinishedCheck(p, op, r) ==
  IF op = "set_exception" /\ r = Cancelled THEN "ValueError" ELSE None

SetterError(p, op, r) ==
  CASE op = "set_exception" /\ r = Cancelled -> "ValueError"
    [] IsFinished(p)                       -> "FutureFinishedError"
    [] OTHER                               -> None

\* `except FutureFinishedError: pass`
Ignored == {"FutureFinishedError"}

Deliver ==
  /\ current = None
  /\ queue # <<>>
  /\ Head(queue).cb.kind = "deliver"
  /\ LET p == Waiter[Head(queue).cb.id]
         r == IF Head(queue).op = "cancel" THEN Cancelled
              ELSE Head(queue).val
         e == SetterError(p, Head(queue).op, r)
     IN IF e # None
        THEN /\ bridgeErrors' = IF e \in Ignored THEN bridgeErrors
                                ELSE bridgeErrors \cup {e}
             /\ queue' = Tail(queue)
             /\ UNCHANGED <<state, res>>
        ELSE /\ SetResult(p, r, state, Tail(queue))
             /\ UNCHANGED bridgeErrors
  /\ UNCHANGED <<callbacks, waitingOn, coro, shieldOf, current, inbox, steps,
                 ncancel, loopErrors, cfState, cfResult, work, busy, cancelReq,
                 pendingAtCancel, thread>>

-----------------------------------------------------------------------------
(***************************************************************************)
(* The coroutine of task t, execute_sync_callable(fn).                     *)
(***************************************************************************)

\* First step: executor.submit(fn), _create_promise, add_done_callback
\* (which runs the callback at once when fn already finished; the outcome is
\* the same loop callback as from the worker), then `await waiter.future`.
\* With the factory's ConcurrentExecutor(selector, None), _executor.submit
\* raises AttributeError, which fails the task.
Submit(t) ==
  /\ current = t
  /\ t \in PoolCallers
  /\ coro[t] = "running"
  /\ steps[t] = 0
  /\ IF OverrideExecutor
     THEN /\ cfState' = [cfState EXCEPT ![t] = "PENDING"]
          /\ work' = Append(work, CallItem(t))
          /\ AfterYield(t, Waiter[t], callbacks, World(state, queue))
          /\ UNCHANGED <<shieldOf, ncancel, cfResult, busy, cancelReq,
                         pendingAtCancel, bridgeErrors, thread>>
     ELSE /\ Finish(t, "AttributeError")
          /\ UNCHANGED bVars

\* Mutant: the except clause also swallows the Cancelled and returns None.
ResultOnCancelSwallowed(e) == IF e = Cancelled THEN "ok" ELSE e

\* Resumed after the waiter finished: return its value, raise its
\* exception; on Cancelled, first submit cfuture.cancel to the pool.
ResultOf(e) == e

Resume(t) ==
  /\ current = t
  /\ t \in PoolCallers
  /\ steps[t] = 1
  /\ work' = IF inbox = Cancelled THEN Append(work, CancelItem(t)) ELSE work
  /\ pendingAtCancel' =
       IF inbox = Cancelled /\ CallItem(t) \in ToSet(work)
       THEN pendingAtCancel \cup {t} ELSE pendingAtCancel
  /\ Finish(t, IF inbox = None THEN "ok" ELSE ResultOf(inbox))
  /\ UNCHANGED <<cfState, cfResult, busy, cancelReq, bridgeErrors, thread>>

-----------------------------------------------------------------------------
(***************************************************************************)
(* The coroutine of a task t in Threaded, _stupid_execute_on_thread(fn),   *)
(* and the thread it starts.                                              *)
(***************************************************************************)

\* First step: _create_promise('thread-waiter'), threading.Thread(...).start(),
\* then `await waiter.future`.
StartThread(t) ==
  /\ current = t
  /\ t \in Threaded
  /\ coro[t] = "running"
  /\ steps[t] = 0
  /\ thread' = [thread EXCEPT ![t] = "running"]
  /\ AfterYield(t, Waiter[t], callbacks, World(state, queue))
  /\ UNCHANGED <<shieldOf, ncancel, cfState, cfResult, work, busy, cancelReq,
                 pendingAtCancel, bridgeErrors>>

\* thread_fn: fn returns or raises, whatever the loop did meanwhile; the
\* outcome reaches the loop through call_soon_thread_safe, a BaseException
\* as a RuntimeError, a return as set_result(None).
ThreadDelivery(t, r) ==
  CASE r = "BaseException" -> DeliverEntry(t, "set_exception", "RuntimeError")
    [] r = "ok"            -> DeliverEntry(t, "set_result", "ok")
    [] OTHER               -> DeliverEntry(t, "set_exception", r)

ThreadFn(t) ==
  /\ thread[t] = "running"
  /\ \E r \in ThreadResults(t) :
       /\ cfResult' = [cfResult EXCEPT ![t] = r]
       /\ queue' = Append(queue, ThreadDelivery(t, r))
  /\ thread' = [thread EXCEPT ![t] = "done"]
  /\ UNCHANGED <<state, res, callbacks, waitingOn, coro, shieldOf, current,
                 inbox, steps, ncancel, loopErrors, cfState, work, busy,
                 cancelReq, pendingAtCancel, bridgeErrors>>

\* Resumed after the waiter finished: `return`, or what the waiter raised
\* (no except clause: a Cancelled leaves the thread running).
ThreadResume(t) ==
  /\ current = t
  /\ t \in Threaded
  /\ steps[t] = 1
  /\ Finish(t, IF inbox = None THEN "ok" ELSE inbox)
  /\ UNCHANGED bVars

\* Another callback calls Task._cancel on t while it awaits the waiter.
CancelCaller(t) ==
  /\ waitingOn[t] # None
  /\ CancelTask(t)
  /\ cancelReq' = cancelReq \cup {t}
  /\ UNCHANGED <<cfState, cfResult, work, busy, pendingAtCancel, bridgeErrors,
                 thread>>

-----------------------------------------------------------------------------
BLoopRun == (ExecuteCoroutineStep \/ ScheduleExecution) /\ UNCHANGED bVars

\* Owner leaves the factory given an override executor: the finally clause
\* closes nothing.
OwnerExit(t) ==
  /\ current = t
  /\ t = Owner
  /\ OverrideExecutor
  /\ coro[t] = "running"
  /\ steps[t] = 0
  /\ Finish(t, "ok")
  /\ UNCHANGED bVars

BCallerStep(t) ==
  \/ Submit(t) \/ Resume(t)
  \/ StartThread(t) \/ ThreadResume(t) \/ OwnerExit(t)

BNext ==
  \/ \E t \in Tasks : CreateTask(t) /\ UNCHANGED bVars
  \/ \E t \in Tasks : CancelCaller(t)
  \/ BLoopRun
  \/ Deliver
  \/ \E t \in Tasks : BCallerStep(t)
  \/ \E w \in Workers : Worker(w)
  \/ \E t \in Threaded : ThreadFn(t)

\* The loop drains its queue and a resumed coroutine runs to its next
\* suspension; a worker thread with work, and a started thread, proceeds
\* (fn terminates).
BFairness ==
  /\ WF_allVars(BLoopRun \/ Deliver)
  /\ \A t \in Tasks : WF_allVars(BCallerStep(t))
  /\ \A w \in Workers : WF_allVars(Worker(w))
  /\ \A t \in Threaded : WF_allVars(ThreadFn(t))

BSpec == BInit /\ [][BNext]_allVars /\ BFairness
-----------------------------------------------------------------------------
BTypeOK ==
  /\ StateTypeOK
  /\ \A e \in ToSet(queue) :
       e \in {StepEntry(t) : t \in Tasks} \cup {CbEntry(SE(t), Waiter[t]) : t \in Tasks}
              \cup {DeliverEntry(t, op, v) : t \in Tasks,
                                           op \in {"set_result", "set_exception", "cancel"},
                                           v \in {"ok", UserError, Cancelled, "RuntimeError", None}}
  /\ cfState \in [Tasks -> {"none", "PENDING", "RUNNING", "FINISHED", "CANCELLED"}]
  /\ cfResult \in [Tasks -> FnResults \cup {None}]
  /\ \A i \in 1..Len(work) : work[i] \in {CallItem(t) : t \in Tasks} \cup {CancelItem(t) : t \in Tasks}
  /\ busy \in [Workers -> {None} \cup {CallItem(t) : t \in Tasks} \cup {CancelItem(t) : t \in Tasks}]
  /\ cancelReq \subseteq Tasks
  /\ pendingAtCancel \subseteq cancelReq
  /\ bridgeErrors \subseteq InternalErrors
  /\ thread \in [Tasks -> {"none", "running", "done"}]

(***************************************************************************)
(* What a call returns is what its fn did: a task that finished ends with  *)
(* fn's return or exception (RuntimeError for a BaseException), or with    *)
(* Cancelled only if it was cancelled. Breaks if a late worker result, the *)
(* cancel branch of the done callback, or the except clause of the await   *)
(* substitutes one outcome for another, or if the call fails before fn is  *)
(* ever submitted.                                                         *)
(***************************************************************************)
Expected(r) == IF r = "BaseException" THEN "RuntimeError" ELSE r

OutcomeFaithful ==
  \A t \in Tasks \ {Owner} :
    IsFinished(t) =>
      \/ res[t] = Expected(cfResult[t])
      \/ res[t] = Cancelled /\ t \in cancelReq

(***************************************************************************)
(* Every call completes: once submitted, the concurrent future is          *)
(* eventually finished or cancelled (once started, the thread eventually   *)
(* done) and the awaiting task eventually finishes, whatever fn does and   *)
(* however the cancel and the result race.                                 *)
(***************************************************************************)
Called(t) == cfState[t] # "none" \/ thread[t] # "none"
CallDone(t) == cfState[t] \in {"FINISHED", "CANCELLED"} \/ thread[t] = "done"

CallCompletes ==
  \A t \in Tasks : Called(t) ~> (IsFinished(t) /\ CallDone(t))

(***************************************************************************)
(* A call still waiting in the pool's queue when the except clause of the *)
(* cancelled caller cancels it never runs: cfuture.cancel() on a PENDING   *)
(* future succeeds and the worker then drops the call.  The code submits   *)
(* the cancel as a work item, behind the call in the same FIFO queue.      *)
(***************************************************************************)
CancelStopsQueuedCall ==
  \A t \in pendingAtCancel : cfState[t] \notin {"RUNNING", "FINISHED"}
(***************************************************************************)
(* Refinement: the bridge, with the futures and tasks of LegacyFuture      *)
(* under it, implements AbstractFuture for the futures user code sees (a   *)
(* task's _started_promise is left out). A waiter is completed once, by    *)
(* the first of the worker's or thread's result and the cancel, each later *)
(* one dropped by the setter's FutureFinishedError; a calling task         *)
(* completes only from its own step; one coroutine runs at a time. Breaks  *)
(* if a late result is applied to a finished waiter, or a cancel completes *)
(* a task whose coroutine has run.                                         *)
(***************************************************************************)
Outcome(f) == IF res[f] \in {NotSet, "ok"} THEN None ELSE res[f]

AF == INSTANCE AbstractFuture
        WITH Futures  <- UserFutures,
             status   <- [f \in UserFutures |-> IF IsFinished(f) THEN "done" ELSE "pending"],
             outcome  <- [f \in UserFutures |-> Outcome(f)],
             started  <- [t \in Tasks |-> coro[t] # "created"],
             active   <- current,
             Outcomes <- Exceptions \cup {None},
             Cancels  <- {Cancelled}

BridgeRefinement == AF!Spec
=============================================================================
