----------------------------- MODULE LegacyFuture -----------------------------
(***************************************************************************)
(* The earlier future/task implementation, src/aio/future.py, which        *)
(* src/aio/task_group.py is written against.                               *)
(*                                                                         *)
(* It differs from aio/future/pure.py in ways that matter to concurrency:  *)
(*  - result callbacks are a Python set: they are scheduled in an          *)
(*    arbitrary order and are not cleared when the future completes;      *)
(*  - a step is queued with a plain call_soon, no revocable handle;        *)
(*  - Task._cancel marks the task "finishing" and recurses into            *)
(*    _waiting_on whatever its state, and a task with no _waiting_on is    *)
(*    completed as cancelled while its first step is still queued;         *)
(*  - _execute_coroutine_step has no guard: it always sends into the       *)
(*    coroutine;                                                           *)
(*  - shield(fut) mirrors fut into a fresh promise from a callback.        *)
(*                                                                         *)
(* A coroutine is arbitrary: each resumption ends by awaiting a pending    *)
(* future (or shield of one), returning, raising, or cancelling a task.    *)
(***************************************************************************)
EXTENDS Naturals, Sequences, FiniteSets, SequencesExt

CONSTANTS
  Tasks,        \* tasks, each created by _create_task from a loop callback
  Promises,     \* futures completed through a _FuturePromise by callbacks
  Shields,      \* the promises shield() may create, one per call
  UserError,    \* an exception a coroutine raises of its own
  MaxSteps,     \* bound on the awaits of one coroutine
  MaxCancels,   \* bound on the Task._cancel calls of a behaviour
  SelfAwait,    \* may a coroutine await its own task
  Catch,        \* may a coroutine catch what is raised at its await point
  None

\* The future of t._started_promise, created by Task.__init__.
SP(t) == [startedOf |-> t]

\* The futures a coroutine may await: everything but the private started
\* promises.
UserFutures == Tasks \cup Promises \cup Shields
Futures == UserFutures \cup {SP(t) : t \in Tasks}

\* Exception kinds; Cancelled(msg) instances are not told apart.
Cancelled == "Cancelled"
InternalErrors == {"FutureFinishedError", "FutureNotReady", "RuntimeError",
                   "KeyError", "ValueError", "RecursionError",
                   "AttributeError"}
Exceptions == {Cancelled, UserError} \cup InternalErrors

\* _value / _exc: NotSet while pending, "ok" for a value, else the exception.
NotSet == "notset"
Results == {NotSet, "ok"} \cup Exceptions

\* The callbacks put in _result_callbacks: a task's bound
\* _schedule_execution, and shield's future_done_cb closure.
SE(t) == [kind |-> "exec", id |-> t]
SH(s) == [kind |-> "shield", id |-> s]
Callbacks == {SE(t) : t \in Tasks} \cup {SH(s) : s \in Shields}

\* Loop queue entries: a call_soon(_execute_coroutine_step), or a
\* call_soon(cb, fut) from _schedule_cb.
StepEntry(t) == [cb |-> SE(t), fut |-> None, step |-> TRUE]
CbEntry(cb, f) == [cb |-> cb, fut |-> f, step |-> FALSE]

VARIABLES
  state,      \* Future._state
  res,        \* _value / _exc
  callbacks,  \* _result_callbacks
  queue,      \* the loop's FIFO of callbacks
  waitingOn,  \* Task._waiting_on
  coro,       \* the coroutine: "created", "suspended", "running", "closed"
  shieldOf,   \* the future a shield promise mirrors, None while unused
  current,    \* the task whose coroutine the loop is running, or None
  inbox,      \* what the running coroutine got at its await point
  steps,      \* awaits made by each coroutine
  ncancel,    \* Task._cancel calls so far
  loopErrors  \* history: exceptions that escaped a loop callback, each with
              \*   the callback it escaped (None for another callback)

vars == <<state, res, callbacks, queue, waitingOn, coro, shieldOf, current,
          inbox, steps, ncancel, loopErrors>>

IsFinished(f) == res[f] # NotSet
ExceptionOf(f) == IF res[f] \in {NotSet, "ok"} THEN None ELSE res[f]

Init ==
  /\ state = [f \in Futures |-> IF f \in Tasks THEN "created" ELSE "running"]
  /\ res = [f \in Futures |-> NotSet]
  /\ callbacks = [f \in Futures |-> {}]
  /\ queue = <<>>
  /\ waitingOn = [t \in Tasks |-> None]
  /\ coro = [t \in Tasks |-> "created"]
  /\ shieldOf = [s \in Shields |-> None]
  /\ current = None
  /\ inbox = None
  /\ steps = [t \in Tasks |-> 0]
  /\ ncancel = 0
  /\ loopErrors = {}

(***************************************************************************)
(* The part of the state that completing and cancelling futures changes,   *)
(* as a record, so that several _set_result and _cancel calls made by one  *)
(* callback (TaskGroup.cancel) can be composed.                            *)
(***************************************************************************)
World(st, q) == [state |-> st, res |-> res, queue |-> q]

Install(w) ==
  /\ state' = w.state
  /\ res' = w.res
  /\ queue' = w.queue

Done(w, f) == w.res[f] # NotSet

(***************************************************************************)
(* Future._set_result on a pending future f of world w, one world per      *)
(* iteration order of the callback set: state finished, the result stored, *)
(* every callback still in the set scheduled (and left in the set).        *)
(***************************************************************************)
FutureSetResultW(w, f, r) ==
  { [w EXCEPT !.res[f] = r,
              !.state[f] = "finished",
              !.queue = @ \o [i \in DOMAIN order |-> CbEntry(order[i], f)]]
    : order \in SetToSeqs(callbacks[f]) }

\* Task._set_result's tail: complete _started_promise unless it is done.
StartW(w, t) ==
  IF Done(w, SP(t)) THEN {w} ELSE FutureSetResultW(w, SP(t), "ok")

\* Mutant: _call_cbs stops after scheduling one callback.
SetResultWFirstOnly(w, f, r) ==
  LET once == { [w EXCEPT !.res[f] = r,
                          !.state[f] = "finished",
                          !.queue = IF order = <<>> THEN @
                                    ELSE Append(@, CbEntry(order[1], f))]
                : order \in SetToSeqs(callbacks[f]) }
  IN IF f \in Tasks THEN UNION {StartW(v, f) : v \in once} ELSE once

\* _set_result of f: for a task, Task._set_result, which then completes
\* its _started_promise.
SetResultW(w, f, r) ==
  IF f \in Tasks THEN UNION {StartW(v, f) : v \in FutureSetResultW(w, f, r)}
  ELSE FutureSetResultW(w, f, r)

SetResult(f, r, st, q) == \E w \in SetResultW(World(st, q), f, r) : Install(w)

\* Mutant: add_callback schedules cb without checking is_finished().
AddCallbackQueueAlways(w, f, cb, cbs) ==
  IF cb \notin cbs[f] THEN Append(w.queue, CbEntry(cb, f)) ELSE w.queue

\* Future.add_callback(cb) on f in world w, as new callbacks and queue:
\* nothing if cb is already in the set, scheduled now if f is finished.
AddCallbackCbs(w, f, cb, cbs) ==
  IF cb \in cbs[f] \/ Done(w, f) THEN cbs ELSE [cbs EXCEPT ![f] = @ \cup {cb}]
AddCallbackQueue(w, f, cb, cbs) ==
  IF cb \notin cbs[f] /\ Done(w, f) THEN Append(w.queue, CbEntry(cb, f)) ELSE w.queue

(***************************************************************************)
(* Task._cancel: the futures it visits, following _waiting_on through      *)
(* unfinished tasks; the walk stops at a finished future, a task with no   *)
(* _waiting_on, a plain future, or a task already visited (unbounded       *)
(* recursion, i.e. RecursionError).                                        *)
(***************************************************************************)
RECURSIVE CancelChain(_, _, _)
CancelChain(w, f, seen) ==
  IF f \in seen THEN <<>>
  ELSE <<f>> \o (IF f \in Tasks /\ ~Done(w, f) /\ waitingOn[f] # None
                 THEN CancelChain(w, waitingOn[f], seen \cup {f}) ELSE <<>>)

CancelEnd(w, t) == Last(CancelChain(w, t, {}))

\* The exception t._cancel() raises, None if it completes a future.
CancelRaisesW(w, t) ==
  CASE Done(w, CancelEnd(w, t)) -> "FutureFinishedError"
    [] CancelEnd(w, t) \in Tasks /\ waitingOn[CancelEnd(w, t)] # None -> "RecursionError"
    [] OTHER -> None

CancelRaises(t) == CancelRaisesW(World(state, queue), t)

\* Every unfinished task on the walk was set to "finishing" on the way.
MarkFinishing(w, t) ==
  [w EXCEPT !.state = [f \in Futures |->
     IF f \in Tasks /\ f \in ToSet(CancelChain(w, t, {})) /\ ~Done(w, f)
     THEN "finishing" ELSE @[f]]]

(***************************************************************************)
(* The whole of t._cancel() on world w: the marks, then the _set_result of *)
(* the future the walk ends at; the possible outcomes, each a world and    *)
(* the exception raised (None if none).                                    *)
(***************************************************************************)
CancelW(w, t) ==
  IF CancelRaisesW(w, t) = None
  THEN { [w |-> v, err |-> None]
         : v \in SetResultW(MarkFinishing(w, t), CancelEnd(w, t), Cancelled) }
  ELSE { [w |-> MarkFinishing(w, t), err |-> CancelRaisesW(w, t)] }

ApplyCancel(t) == \E o \in CancelW(World(state, queue), t) : Install(o.w)

\* The callback cb raises e into the loop.
LoopError(cb, e) == [by |-> cb, exc |-> e]
RaiseInLoop(cb, e) == loopErrors' = loopErrors \cup {LoopError(cb, e)}

(***************************************************************************)
(* Loop callbacks other than the ones modelled below: they create tasks,   *)
(* complete or cancel promises and cancel tasks.                           *)
(***************************************************************************)

\* _create_task in world w: Task(coro), then _schedule_execution().
CreateTaskW(w, t) ==
  [w EXCEPT !.queue = Append(@, StepEntry(t)), !.state[t] = "scheduled"]

CreateTask(t) ==
  /\ current = None
  /\ state[t] = "created"
  /\ Install(CreateTaskW(World(state, queue), t))
  /\ UNCHANGED <<callbacks, waitingOn, coro, shieldOf, current, inbox, steps,
                 ncancel, loopErrors>>

\* _FuturePromise.set_result / set_exception on a pending promise.
ResolvePromise(p, r) ==
  /\ current = None
  /\ ~IsFinished(p)
  /\ SetResult(p, r, state, queue)
  /\ UNCHANGED <<callbacks, waitingOn, coro, shieldOf, current, inbox, steps,
                 ncancel, loopErrors>>

\* _FuturePromise.cancel on a pending promise.
CancelPromise(p) ==
  /\ current = None
  /\ ~IsFinished(p)
  /\ SetResult(p, Cancelled, state, queue)
  /\ UNCHANGED <<callbacks, waitingOn, coro, shieldOf, current, inbox, steps,
                 ncancel, loopErrors>>

\* Task._cancel called from a callback; what it raises escapes to the loop.
CancelTask(t) ==
  /\ current = None
  /\ state[t] # "created"
  /\ ncancel < MaxCancels
  /\ ApplyCancel(t)
  /\ ncancel' = ncancel + 1
  /\ loopErrors' = IF CancelRaises(t) = None THEN loopErrors
                   ELSE loopErrors \cup {LoopError(None, CancelRaises(t))}
  /\ UNCHANGED <<callbacks, waitingOn, coro, shieldOf, current, inbox, steps>>

(***************************************************************************)
(* The loop runs the head of its queue.                                    *)
(***************************************************************************)

\* Mutant: the awaited future itself is delivered instead of its exception.
AwaitResultFuture(t) ==
  IF coro[t] = "created" THEN None ELSE waitingOn[t]

\* What the coroutine gets when resumed: Future.__await__ after its yield.
AwaitResult(t) ==
  IF coro[t] = "created" THEN None
  ELSE IF ~IsFinished(waitingOn[t]) THEN "FutureNotReady"
  ELSE ExceptionOf(waitingOn[t])

\* Task._execute_coroutine_step: coroutine.send(None). A closed coroutine
\* raises RuntimeError, and _set_result on the finished task raises
\* FutureFinishedError out of the step.
ExecuteCoroutineStep ==
  /\ current = None
  /\ queue # <<>>
  /\ Head(queue).step
  /\ LET t == Head(queue).cb.id IN
       IF coro[t] = "closed"
       THEN /\ RaiseInLoop(SE(t), "FutureFinishedError")
            /\ UNCHANGED <<current, inbox, coro>>
       ELSE /\ current' = t
            /\ coro' = [coro EXCEPT ![t] = "running"]
            /\ inbox' = AwaitResult(t)
            /\ UNCHANGED loopErrors
  /\ queue' = Tail(queue)
  /\ UNCHANGED <<state, res, callbacks, waitingOn, shieldOf, steps,
                 ncancel>>

\* Mutant: call_soon placed under the `if state == created` branch.
ScheduleExecutionOnce ==
  /\ current = None
  /\ queue # <<>>
  /\ ~Head(queue).step
  /\ Head(queue).cb.kind = "exec"
  /\ LET t == Head(queue).cb.id IN
       /\ queue' = IF state[t] = "created" THEN Append(Tail(queue), StepEntry(t))
                   ELSE Tail(queue)
       /\ state' = IF state[t] = "created"
                   THEN [state EXCEPT ![t] = "scheduled"] ELSE state
  /\ UNCHANGED <<res, callbacks, waitingOn, coro, shieldOf, current,
                 inbox, steps, ncancel, loopErrors>>

\* Task._schedule_execution, called back by a completed future.
ScheduleExecution ==
  /\ current = None
  /\ queue # <<>>
  /\ ~Head(queue).step
  /\ Head(queue).cb.kind = "exec"
  /\ LET t == Head(queue).cb.id IN
       /\ queue' = Append(Tail(queue), StepEntry(t))
       /\ state' = IF state[t] = "created"
                   THEN [state EXCEPT ![t] = "scheduled"] ELSE state
  /\ UNCHANGED <<res, callbacks, waitingOn, coro, shieldOf, current,
                 inbox, steps, ncancel, loopErrors>>

\* shield's future_done_cb: mirror the shielded future into the promise.
\* set_exception refuses a Cancelled with ValueError; either setter raises
\* FutureFinishedError when the shield promise was cancelled meanwhile.
ShieldDone ==
  /\ current = None
  /\ queue # <<>>
  /\ ~Head(queue).step
  /\ Head(queue).cb.kind = "shield"
  /\ LET s == Head(queue).cb.id
         f == Head(queue).fut
         r == IF ExceptionOf(f) = None THEN "ok" ELSE ExceptionOf(f)
     IN IF r = Cancelled \/ IsFinished(s)
        THEN /\ RaiseInLoop(SH(s), IF r = Cancelled THEN "ValueError"
                            ELSE "FutureFinishedError")
             /\ queue' = Tail(queue)
             /\ UNCHANGED <<state, res>>
        ELSE /\ SetResult(s, r, state, Tail(queue))
             /\ UNCHANGED loopErrors
  /\ UNCHANGED <<callbacks, waitingOn, coro, shieldOf, current, inbox, steps,
                 ncancel>>

(***************************************************************************)
(* The running coroutine ends its step.                                    *)
(***************************************************************************)

\* It may go on (await, return, cancel) only if nothing is being raised at
\* its await point, or if it catches it.
Ready(t) == current = t /\ (inbox = None \/ Catch)

\* Mutant: the first yield marks the task running but never completes
\* _started_promise.
FirstYieldWNoStart(w, t) ==
  IF w.state[t] = "scheduled" THEN {[w EXCEPT !.state[t] = "running"]} ELSE {w}

\* The first yield of a scheduled task: state running, then
\* _started_promise.set_result(None).
FirstYieldW(w, t) ==
  IF w.state[t] = "scheduled"
  THEN FutureSetResultW([w EXCEPT !.state[t] = "running"], SP(t), "ok")
  ELSE {w}

\* The rest of _execute_coroutine_step once the coroutine yielded f, with
\* callbacks cbs and world w: FirstYieldW;
\* a yield of the task itself raises RuntimeError; then remove_callback on
\* the old _waiting_on, whose set.remove raises KeyError (not the
\* ValueError it catches) when the callback is gone; then add_callback.
AfterYield(t, f, cbs, w) ==
  LET old == waitingOn[t]
      unsub == IF old # None THEN [cbs EXCEPT ![old] = @ \ {SE(t)}] ELSE cbs
  IN \E v \in FirstYieldW(w, t) :
     /\ coro' = [coro EXCEPT ![t] = "suspended"]
     /\ steps' = [steps EXCEPT ![t] = @ + 1]
     /\ current' = None
     /\ inbox' = None
     /\ IF f = t \/ (old # None /\ SE(t) \notin cbs[old])
        THEN /\ RaiseInLoop(SE(t), IF f = t THEN "RuntimeError" ELSE "KeyError")
             /\ callbacks' = cbs
             /\ Install(v)
             /\ UNCHANGED waitingOn
        ELSE /\ callbacks' = AddCallbackCbs(v, f, SE(t), unsub)
             /\ Install([v EXCEPT !.queue = AddCallbackQueue(v, f, SE(t), unsub)])
             /\ waitingOn' = [waitingOn EXCEPT ![t] = f]
             /\ UNCHANGED loopErrors

\* await f, f pending (a finished f does not suspend).
CoroAwait(t, f) ==
  /\ Ready(t)
  /\ steps[t] < MaxSteps
  /\ ~IsFinished(f)
  /\ f \notin Shields
  /\ f # t \/ SelfAwait
  /\ AfterYield(t, f, callbacks, World(state, queue))
  /\ UNCHANGED <<shieldOf, ncancel>>

\* shield(f) in world w: a fresh promise s, future_done_cb added to f; then
\* s is awaited.
AwaitShield(t, f, s, w) ==
  /\ shieldOf[s] = None
  /\ shieldOf' = [shieldOf EXCEPT ![s] = f]
  /\ AfterYield(t, s, AddCallbackCbs(w, f, SH(s), callbacks),
                [w EXCEPT !.queue = AddCallbackQueue(w, f, SH(s), callbacks)])

CoroAwaitShield(t, f, s) ==
  /\ Ready(t)
  /\ steps[t] < MaxSteps
  /\ f # t
  /\ AwaitShield(t, f, s, World(state, queue))
  /\ UNCHANGED ncancel

\* StopIteration or an exception out of send(), in world w:
\* Task._set_result, which raises FutureFinishedError out of the step if
\* the task already finished.
FinishIn(t, r, w) ==
  /\ coro' = [coro EXCEPT ![t] = "closed"]
  /\ current' = None
  /\ inbox' = None
  /\ IF Done(w, t)
     THEN /\ RaiseInLoop(SE(t), "FutureFinishedError")
          /\ Install(w)
     ELSE /\ \E v \in SetResultW(w, t, r) : Install(v)
          /\ UNCHANGED loopErrors
  /\ UNCHANGED <<callbacks, waitingOn, shieldOf, steps>>

Finish(t, r) == FinishIn(t, r, World(state, queue)) /\ UNCHANGED ncancel

CoroReturn(t) == Ready(t) /\ Finish(t, "ok")

\* The coroutine raises what reached it, or an error of its own.
CoroRaise(t) ==
  /\ current = t
  /\ \/ inbox # None /\ Finish(t, inbox)
     \/ Ready(t) /\ Finish(t, UserError)

\* The coroutine calls u._cancel(); what that raises is raised in it.
CoroCancel(t, u) ==
  /\ Ready(t)
  /\ state[u] # "created"
  /\ ncancel < MaxCancels
  /\ ApplyCancel(u)
  /\ ncancel' = ncancel + 1
  /\ inbox' = CancelRaises(u)
  /\ UNCHANGED <<callbacks, waitingOn, coro, shieldOf, current, steps,
                 loopErrors>>

Environment ==
  \/ \E t \in Tasks : CreateTask(t) \/ CancelTask(t)
  \/ \E p \in Promises : CancelPromise(p) \/ \E r \in {"ok", UserError} : ResolvePromise(p, r)

LoopRun == ExecuteCoroutineStep \/ ScheduleExecution \/ ShieldDone

CoroStep(t) ==
  \/ CoroReturn(t) \/ CoroRaise(t)
  \/ \E f \in UserFutures : CoroAwait(t, f)
  \/ \E f \in UserFutures, s \in Shields : CoroAwaitShield(t, f, s)

Next ==
  \/ Environment
  \/ LoopRun
  \/ \E t \in Tasks : CoroStep(t) \/ \E u \in Tasks : CoroCancel(t, u)

\* The loop drains its queue, and a resumed coroutine reaches its next
\* suspension; callbacks and cancels are never forced.
Fairness == WF_vars(LoopRun) /\ \A t \in Tasks : WF_vars(CoroStep(t))

Spec == Init /\ [][Next]_vars /\ Fairness

\* The types of everything but the loop queue, whose entries other
\* components (the executor bridge) extend.
StateTypeOK ==
  /\ state \in [Futures -> {"created", "scheduled", "running", "finishing",
                            "finished"}]
  /\ res \in [Futures -> Results]
  /\ callbacks \in [Futures -> SUBSET Callbacks]
  /\ waitingOn \in [Tasks -> Futures \cup {None}]
  /\ coro \in [Tasks -> {"created", "suspended", "running", "closed"}]
  /\ shieldOf \in [Shields -> Futures \cup {None}]
  /\ current \in Tasks \cup {None}
  /\ inbox \in Exceptions \cup {None}
  /\ steps \in [Tasks -> 0..MaxSteps]
  /\ ncancel \in 0..MaxCancels
  /\ loopErrors \subseteq [by : Callbacks \cup {None}, exc : InternalErrors]

TypeOK ==
  /\ StateTypeOK
  /\ \A e \in ToSet(queue) : e \in {StepEntry(t) : t \in Tasks}
                                 \cup {CbEntry(cb, f) : cb \in Callbacks, f \in Futures}

\* A queued call that will step t: its step, or its _schedule_execution.
StepPending(t) == \E i \in 1..Len(queue) : queue[i].cb = SE(t)

(***************************************************************************)
(* No task is stranded: a pending, created task whose coroutine is not     *)
(* running has a queued call that steps it, or is subscribed to the        *)
(* pending future it awaits.                                               *)
(***************************************************************************)
NoStrandedTask ==
  \A t \in Tasks :
    (state[t] # "created" /\ ~IsFinished(t) /\ current # t) =>
      \/ StepPending(t)
      \/ /\ waitingOn[t] # None
         /\ ~IsFinished(waitingOn[t])
         /\ SE(t) \in callbacks[waitingOn[t]]

(***************************************************************************)
(* A coroutine is only resumed for a task that has not finished: a task    *)
(* cancelled before its first step never runs its body (spec 4.4).         *)
(***************************************************************************)
NoStepAfterFinish ==
  [][\A t \in Tasks : current' = t /\ current # t => ~IsFinished(t)]_vars

(***************************************************************************)
(* A coroutine is only resumed once the future it awaits is done, so the   *)
(* FutureNotReady check in Future.__await__ never fires: every path that   *)
(* schedules _execute_coroutine_step (a completion's callbacks,            *)
(* add_callback on a finished future, _create_task) must agree with the    *)
(* subscription the last step made.                                        *)
(***************************************************************************)
ResumeOnlyWhenDone == inbox # "FutureNotReady"

(***************************************************************************)
(* shield(fut) mirrors fut: once the shielded future is done, the shield   *)
(* promise is eventually done too (spec 4.7), so whoever awaits it is      *)
(* woken.                                                                  *)
(***************************************************************************)
ShieldMirrors ==
  \A s \in Shields :
    (shieldOf[s] # None /\ IsFinished(shieldOf[s])) ~> IsFinished(s)
=============================================================================
