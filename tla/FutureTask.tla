----------------------------- MODULE FutureTask -----------------------------
(***************************************************************************)
(* Futures, promises and tasks of aio/future/pure.py driven by the FIFO    *)
(* ready queue of the event loop.                                          *)
(*                                                                         *)
(* A plain Future is completed through its promise; a Task is completed by *)
(* stepping its coroutine.  Every callback runs on the loop, one at a      *)
(* time: a step of a coroutine is split into LoopRun (the loop calls       *)
(* Task._execute_coroutine_step and the coroutine is resumed) and one of   *)
(* CoroAwait / CoroReturn / CoroRaise (the coroutine reaches its next      *)
(* suspension and the step finishes); while the coroutine runs it may call *)
(* Task.cancel (CoroCancel).  Between callbacks the environment (other     *)
(* loop callbacks: I/O, timers, thread-pool results) schedules tasks,      *)
(* resolves promises and cancels tasks.                                    *)
(*                                                                         *)
(* The coroutine is any coroutine: at each step it may return, raise, or   *)
(* await any pending future, and it may catch what is thrown into it.      *)
(***************************************************************************)
EXTENDS Naturals, Sequences, FiniteSets, SequencesExt

CONSTANTS
  Tasks,        \* task identities
  Promises,     \* plain futures, completed through their promise
  Cancels,      \* Cancelled instances; each cancel call uses a fresh one
  UserError,    \* an exception raised by user code
  MaxSteps,     \* bound on the awaits of one coroutine
  SelfAwait,    \* may a coroutine await its own task (a programming error)
  CoroCancels,  \* may a coroutine call Task.cancel while it runs
  CatchCancel,  \* may a coroutine catch a Cancelled thrown into it
  None          \* no task, no future, no exception

ASSUME MaxSteps \in Nat \ {0}
ASSUME {SelfAwait, CoroCancels, CatchCancel} \subseteq BOOLEAN

Futures == Tasks \cup Promises

\* Exceptions raised by the library itself.
InternalErrors ==
  {"RuntimeError", "FutureFinishedError", "SelfCancelForbidden",
   "AssertionError", "RecursionError"}
Exceptions == Cancels \cup {UserError} \cup InternalErrors

Pending  == {"created", "scheduled", "running"}   \* _PendingState variants
Terminal == {"success", "failed"}                  \* _SuccessState, _FailedState

\* A ready-queue entry: a call of task._execute_coroutine_step.  "first" is
\* the first step, "wake" the callback scheduled by future fut on its
\* completion, "throw" a step carrying an inner_cancel exc.
Entry(kind, t, f, x) == [kind |-> kind, task |-> t, fut |-> f, exc |-> x]
First(t)    == Entry("first", t, None, None)
Wake(t, f)  == Entry("wake", t, f, None)
Throw(t, c) == Entry("throw", t, None, c)

VARIABLES
  fstate,      \* the state class of each future
  fexc,        \* _FailedState.exc, None for success or pending
  callbacks,   \* _PendingState.result_callbacks: tasks whose step subscribed
  scheduled,   \* keys of _SuccessState/_FailedState.scheduled_cbs
  waitingOn,   \* _RunningState.waiting_on
  coro,        \* inspect.getcoroutinestate of each task's coroutine
  queue,       \* the loop's FIFO of ready callbacks
  current,     \* current_task_cv: the task whose coroutine runs, or None
  inbox,       \* the exception propagating in the running coroutine, or None
  steps,       \* awaits done by each coroutine (bounded by MaxSteps)
  used,        \* Cancelled instances passed to a cancel call so far
  requested,   \* history: cancels that returned normally, [target, exc]
  delivered,   \* history: Cancelled instances a future failed with or a
               \*   coroutine had thrown into it
  loopErrors   \* history: exceptions a step callback raised into the loop

vars == <<fstate, fexc, callbacks, scheduled, waitingOn, coro, queue,
          current, inbox, steps, used, requested, delivered, loopErrors>>

IsPending(f) == fstate[f] \in Pending

Queued(e) == Contains(queue, e)

-----------------------------------------------------------------------------
(***************************************************************************)
(* Future._set_result: schedule every result callback on the loop          *)
(* (_schedule_callbacks), keep their handles, switch to the terminal       *)
(* state.  q is the queue the completion appends to.                       *)
(***************************************************************************)
SetResult(f, x, q) ==
  /\ fstate'    = [fstate EXCEPT ![f] = IF x = None THEN "success" ELSE "failed"]
  /\ fexc'      = [fexc EXCEPT ![f] = x]
  /\ queue'     = q \o [i \in 1..Len(callbacks[f]) |-> Wake(callbacks[f][i], f)]
  /\ scheduled' = [scheduled EXCEPT ![f] = ToSet(callbacks[f])]
  /\ callbacks' = [callbacks EXCEPT ![f] = <<>>]
  /\ delivered' = IF x \in Cancels THEN delivered \cup {x} ELSE delivered

(* Future.remove_callback(t._execute_coroutine_step): on a pending future   *)
(* drop the subscription; on a finished one pop the handle and cancel it.  *)
RemovedCallbacks(f, t) ==
  [callbacks EXCEPT ![f] = Remove(@, t)]
RemovedScheduled(f, t) == [scheduled EXCEPT ![f] = @ \ {t}]

(* Mutant: remove_callback pops the handle but never cancels it. *)
QueueKeepingWake(f, t, q) == q
QueueWithoutWake(f, t, q) ==
  IF t \in scheduled[f] THEN Remove(q, Wake(t, f)) ELSE q

(***************************************************************************)
(* Task._cancel follows waiting_on while it is pending (cancel_future of   *)
(* the awaited future) and acts on the future where the chain ends.  A     *)
(* chain that comes back to a task recurses without end.                   *)
(***************************************************************************)
RECURSIVE ChainEnd(_, _)
ChainEnd(f, seen) ==
  IF f \in Tasks /\ fstate[f] = "running" /\ IsPending(waitingOn[f])
  THEN IF waitingOn[f] \in seen THEN None
       ELSE ChainEnd(waitingOn[f], seen \cup {f})
  ELSE f

(* The exception Task.cancel(c) called by `caller` raises, or None. *)
CancelRaises(t, caller) ==
  LET e == ChainEnd(t, {t}) IN
  CASE ~IsPending(t)                                  -> "FutureFinishedError"
    [] caller = t                                     -> "SelfCancelForbidden"
    [] e = None                                       -> "RecursionError"
    [] fstate[e] = "scheduled" /\ ~Queued(First(e))   -> "AssertionError"
    [] OTHER                                          -> None

(* Mutant: the inner-cancel branch unsubscribes but forgets to queue    *)
(* the step that throws the Cancelled in.                               *)
ApplyCancelNoThrow(t, c) ==
  LET e == ChainEnd(t, {t})
      w == waitingOn[e]
  IN
  \/ /\ e \in Promises \/ fstate[e] = "created"
     /\ SetResult(e, c, queue)
     /\ UNCHANGED <<waitingOn, coro>>
  \/ /\ e \in Tasks /\ fstate[e] = "scheduled"
     /\ SetResult(e, c, Remove(queue, First(e)))
     /\ UNCHANGED <<waitingOn, coro>>
  \/ /\ e \in Tasks /\ fstate[e] = "running"
     /\ scheduled' = RemovedScheduled(w, e)
     /\ queue' = QueueWithoutWake(w, e, queue)
     /\ UNCHANGED <<fstate, fexc, callbacks, waitingOn, coro, delivered>>

(* The effect of an accepted Task.cancel(c) on the end of the chain. *)
ApplyCancel(t, c) ==
  LET e == ChainEnd(t, {t})
      w == waitingOn[e]
  IN
  \/ /\ e \in Promises \/ fstate[e] = "created"
     /\ SetResult(e, c, queue)
     /\ UNCHANGED <<waitingOn, coro>>
  \/ /\ e \in Tasks /\ fstate[e] = "scheduled"
     \* handle.cancel() of the first step, then the cancelled result
     /\ SetResult(e, c, Remove(queue, First(e)))
     /\ UNCHANGED <<waitingOn, coro>>
  \/ /\ e \in Tasks /\ fstate[e] = "running"
     \* inner cancel: the awaited future already finished
     /\ scheduled' = RemovedScheduled(w, e)
     /\ queue' = Append(QueueWithoutWake(w, e, queue), Throw(e, c))
     /\ UNCHANGED <<fstate, fexc, callbacks, waitingOn, coro, delivered>>

-----------------------------------------------------------------------------
Init ==
  /\ fstate    = [f \in Futures |-> IF f \in Tasks THEN "created" ELSE "running"]
  /\ fexc      = [f \in Futures |-> None]
  /\ callbacks = [f \in Futures |-> <<>>]
  /\ scheduled = [f \in Futures |-> {}]
  /\ waitingOn = [t \in Tasks |-> None]
  /\ coro      = [t \in Tasks |-> "created"]
  /\ queue     = <<>>
  /\ current   = None
  /\ inbox     = None
  /\ steps     = [t \in Tasks |-> 0]
  /\ used      = {}
  /\ requested = {}
  /\ delivered = {}
  /\ loopErrors = {}

(* Task._schedule_first_step, called by create_task. *)
ScheduleFirstStep(t) ==
  /\ current = None
  /\ fstate[t] = "created"
  /\ fstate' = [fstate EXCEPT ![t] = "scheduled"]
  /\ queue' = Append(queue, First(t))
  /\ UNCHANGED <<fexc, callbacks, scheduled, waitingOn, coro, current, inbox,
                 steps, used, requested, delivered, loopErrors>>

(* FuturePromise.set_result / set_exception / cancel on a pending future. *)
ResolvePromise(p) ==
  /\ current = None
  /\ IsPending(p)
  /\ \E x \in {None, UserError} : SetResult(p, x, queue)
  /\ UNCHANGED <<waitingOn, coro, current, inbox, steps, used, requested,
                 loopErrors>>

CancelPromise(p, c) ==
  /\ current = None
  /\ IsPending(p)
  /\ c \notin used
  /\ used' = used \cup {c}
  /\ requested' = requested \cup {[target |-> p, exc |-> c]}
  /\ SetResult(p, c, queue)
  /\ UNCHANGED <<waitingOn, coro, current, inbox, steps, loopErrors>>

(* Task.cancel(c) called by another loop callback; only accepted cancels  *)
(* change anything.                                                        *)
CancelTask(t, c) ==
  /\ current = None
  /\ c \notin used
  /\ CancelRaises(t, None) = None
  /\ used' = used \cup {c}
  /\ requested' = requested \cup {[target |-> t, exc |-> c]}
  /\ ApplyCancel(t, c)
  /\ UNCHANGED <<current, inbox, steps, loopErrors>>

-----------------------------------------------------------------------------
(* Mutant: the "Trying to resume finished task" check is missing. *)
RejectedOnlyInner(e) ==
  e.kind = "throw" /\ (fstate[e.task] = "scheduled" \/ IsPending(waitingOn[e.task]))

(***************************************************************************)
(* The loop runs the head of its ready queue: Task._execute_coroutine_step *)
(* rejects a step of a finished task and an inner cancel whose awaited     *)
(* future is still pending, raising RuntimeError into the loop.            *)
(***************************************************************************)
Rejected(e) ==
  LET t == e.task IN
  \/ fstate[t] \notin {"scheduled", "running"}
  \/ e.kind = "throw" /\ (fstate[t] = "scheduled" \/ IsPending(waitingOn[t]))

StepRejected ==
  /\ current = None
  /\ queue # <<>>
  /\ Rejected(Head(queue))
  /\ queue' = Tail(queue)
  /\ loopErrors' = loopErrors \cup {"RuntimeError"}
  /\ UNCHANGED <<fstate, fexc, callbacks, scheduled, waitingOn, coro, current,
                 inbox, steps, used, requested, delivered>>

(* Mutant: the coroutine is sent the awaited future instead of its result. *)
ResumedFuture(e) ==
  LET w == waitingOn[e.task] IN
  CASE e.kind = "throw"              -> e.exc
    [] fstate[e.task] = "scheduled"  -> None
    [] IsPending(w)                  -> "RuntimeError"
    [] OTHER                         -> w

(* What the resumed coroutine receives: the thrown inner cancel, nothing  *)
(* on the first send, else the outcome of Future.__await__ on waiting_on, *)
(* which raises RuntimeError if that future is still pending.             *)
Resumed(e) ==
  LET w == waitingOn[e.task] IN
  CASE e.kind = "throw"              -> e.exc
    [] fstate[e.task] = "scheduled"  -> None
    [] IsPending(w)                  -> "RuntimeError"
    [] OTHER                         -> fexc[w]

ExecuteCoroutineStep ==
  /\ current = None
  /\ queue # <<>>
  /\ ~Rejected(Head(queue))
  /\ LET e == Head(queue) IN
     /\ queue' = Tail(queue)
     /\ current' = e.task
     /\ coro' = [coro EXCEPT ![e.task] = "running"]
     /\ inbox' = Resumed(e)
     /\ delivered' = IF e.kind = "throw" THEN delivered \cup {e.exc} ELSE delivered
  /\ UNCHANGED <<fstate, fexc, callbacks, scheduled, waitingOn, steps, used,
                 requested, loopErrors>>

(***************************************************************************)
(* The running coroutine.  It may go on past the exception in inbox       *)
(* (catch it) unless that is a Cancelled and CatchCancel is FALSE.         *)
(***************************************************************************)
Caught == inbox \notin Cancels \/ CatchCancel

(* Future.add_callback on pending f: result_callbacks is a dict keyed by  *)
(* the callback, so a step already subscribed keeps its place.            *)
AddCallback(cbs, f, t) ==
  [cbs EXCEPT ![f] = IF Contains(@, t) THEN @ ELSE Append(@, t)]

(* It yields pending future f.  The finally clause unsubscribes the step   *)
(* from the previous waiting_on; a task yielding itself raises            *)
(* RuntimeError into the loop, else it subscribes and becomes running.     *)
CoroAwait(t, f) ==
  LET w   == waitingOn[t]
      was == fstate[t] = "running"
      cb1 == IF was /\ IsPending(w) THEN RemovedCallbacks(w, t) ELSE callbacks
  IN
  /\ current = t
  /\ Caught
  /\ steps[t] < MaxSteps
  /\ IsPending(f)
  /\ f # t \/ SelfAwait
  /\ scheduled' = IF was THEN RemovedScheduled(w, t) ELSE scheduled
  /\ queue' = IF was THEN QueueWithoutWake(w, t, queue) ELSE queue
  /\ current' = None
  /\ inbox' = None
  /\ coro' = [coro EXCEPT ![t] = "suspended"]
  /\ steps' = [steps EXCEPT ![t] = @ + 1]
  /\ IF f = t
     THEN /\ loopErrors' = loopErrors \cup {"RuntimeError"}
          /\ callbacks' = cb1
          /\ UNCHANGED <<fstate, waitingOn>>
     ELSE /\ callbacks' = AddCallback(cb1, f, t)
          /\ waitingOn' = [waitingOn EXCEPT ![t] = f]
          /\ fstate' = [fstate EXCEPT ![t] = "running"]
          /\ UNCHANGED loopErrors
  /\ UNCHANGED <<fexc, used, requested, delivered>>

(* It returns (StopIteration) or raises: the task completes. *)
CoroFinish(t, x) ==
  /\ current = t
  /\ SetResult(t, x, queue)
  /\ current' = None
  /\ inbox' = None
  /\ coro' = [coro EXCEPT ![t] = "closed"]
  /\ UNCHANGED <<waitingOn, steps, used, requested, loopErrors>>

CoroReturn(t) == Caught /\ CoroFinish(t, None)

CoroRaise(t) ==
  \E x \in ({inbox} \ {None}) \cup {UserError} :
    /\ Caught \/ x = inbox
    /\ CoroFinish(t, x)

(* It calls u.cancel(c); what the call raises propagates in the coroutine. *)
CoroCancel(t, u, c) ==
  /\ current = t
  /\ CoroCancels
  /\ Caught
  /\ c \notin used
  /\ used' = used \cup {c}
  /\ inbox' = CancelRaises(u, t)
  /\ IF CancelRaises(u, t) = None
     THEN /\ requested' = requested \cup {[target |-> u, exc |-> c]}
          /\ ApplyCancel(u, c)
     ELSE UNCHANGED <<requested, fstate, fexc, callbacks, scheduled, waitingOn,
                      coro, queue, delivered>>
  /\ UNCHANGED <<current, steps, loopErrors>>

CoroStep(t) ==
  \/ \E f \in Futures : CoroAwait(t, f)
  \/ CoroReturn(t)
  \/ CoroRaise(t)

LoopRun == StepRejected \/ ExecuteCoroutineStep

Environment ==
  \/ \E t \in Tasks : ScheduleFirstStep(t)
  \/ \E p \in Promises : ResolvePromise(p)
  \/ \E p \in Promises, c \in Cancels : CancelPromise(p, c)
  \/ \E t \in Tasks, c \in Cancels : CancelTask(t, c)

Next ==
  \/ Environment
  \/ LoopRun
  \/ \E t \in Tasks : CoroStep(t)
  \/ \E t, u \in Tasks, c \in Cancels : CoroCancel(t, u, c)

(* The loop drains its ready queue and a resumed coroutine runs to its    *)
(* next suspension: one callback runs at a time, to completion.  Nothing  *)
(* obliges the environment to resolve a promise or cancel a task.         *)
Fairness ==
  /\ WF_vars(LoopRun)
  /\ \A t \in Tasks : WF_vars(CoroStep(t))

Spec == Init /\ [][Next]_vars /\ Fairness

-----------------------------------------------------------------------------
TypeOK ==
  /\ fstate \in [Futures -> Pending \cup Terminal]
  /\ \A p \in Promises : fstate[p] \in {"running"} \cup Terminal
  /\ fexc \in [Futures -> Exceptions \cup {None}]
  /\ callbacks \in [Futures -> Seq(Tasks)]
  /\ scheduled \in [Futures -> SUBSET Tasks]
  /\ waitingOn \in [Tasks -> Futures \cup {None}]
  /\ coro \in [Tasks -> {"created", "running", "suspended", "closed"}]
  /\ current \in Tasks \cup {None}
  /\ inbox \in Exceptions \cup {None}
  /\ steps \in [Tasks -> 0..MaxSteps]
  /\ used \subseteq Cancels
  /\ delivered \subseteq Cancels
  /\ loopErrors \subseteq InternalErrors

(***************************************************************************)
(* No task is stranded: a pending task that is not running has a way to   *)
(* be stepped again (its first step queued, a subscription on the pending  *)
(* future it awaits, or a wake or inner-cancel step queued).  Breaks if    *)
(* _execute_coroutine_step leaves the task suspended without subscribing,  *)
(* or if the inner-cancel branch of Task._cancel drops the wake handle     *)
(* without queueing the step that replaces it.                             *)
(***************************************************************************)
NoStrandedTask ==
  \A t \in Tasks :
    \/ fstate[t] \in {"created"} \cup Terminal
    \/ current = t
    \/ fstate[t] = "scheduled" /\ Queued(First(t))
    \/ /\ fstate[t] = "running"
       /\ \/ IsPending(waitingOn[t]) /\ Contains(callbacks[waitingOn[t]], t)
          \/ \E i \in 1..Len(queue) :
               queue[i].task = t /\ queue[i].kind \in {"wake", "throw"}

(***************************************************************************)
(* Every queued wake-up of a task comes from the future it is waiting on   *)
(* now and is still held in that future's scheduled_cbs, so that          *)
(* remove_callback can revoke it: a stale wake would resume the coroutine *)
(* on a future it no longer awaits (Future.__await__ resumed while        *)
(* pending).  It relates the loop queue, the handles kept by finished      *)
(* futures and the tasks' waiting_on across cancels and steps.             *)
(***************************************************************************)
WakeTargetsCurrentWait ==
  \A i \in 1..Len(queue) :
    queue[i].kind = "wake" =>
      /\ fstate[queue[i].task] = "running"
      /\ waitingOn[queue[i].task] = queue[i].fut
      /\ queue[i].task \in scheduled[queue[i].fut]

(***************************************************************************)
(* The loop never runs a step that _execute_coroutine_step rejects with a  *)
(* RuntimeError (a step of a finished task, or an inner cancel while the  *)
(* awaited future is pending): the spec has every step of a task accepted *)
(* and every Cancelled delivered.                                          *)
(***************************************************************************)
NoLoopError == loopErrors = {}

(***************************************************************************)
(* A cancel that returned normally makes the task fail with a Cancelled   *)
(* that was passed to a cancel of that task, when coroutines do not catch *)
(* Cancelled (spec scenario "inner cancellation cascade", generalised to  *)
(* chains of awaiting tasks): the cancel travels down waiting_on, the end *)
(* of the chain fails, and each awaiting task is woken and propagates it. *)
(***************************************************************************)
CancelPropagates ==
  \A t \in Tasks, c \in Cancels :
    [target |-> t, exc |-> c] \in requested
      ~> (fstate[t] = "failed" /\ [target |-> t, exc |-> fexc[t]] \in requested)

(***************************************************************************)
(* Refinement: FutureTask implements AbstractFuture.  A future is pending  *)
(* in any _PendingState variant, a coroutine has started once it left     *)
(* CORO_CREATED, and the active task is current_task_cv.  Breaks if a     *)
(* finished future is completed again, if a step resumes a finished task, *)
(* or if Task._cancel completes a task whose coroutine has run (or is     *)
(* running) instead of letting the coroutine propagate the Cancelled.     *)
(***************************************************************************)
AF == INSTANCE AbstractFuture
        WITH status   <- [f \in Futures |-> IF IsPending(f) THEN "pending" ELSE "done"],
             outcome  <- fexc,
             started  <- [t \in Tasks |-> coro[t] # "created"],
             active   <- current,
             Outcomes <- Exceptions \cup {None}

FutureRefinement == AF!Spec
=============================================================================
