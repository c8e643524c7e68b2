------------------------------ MODULE TaskGroup ------------------------------
(***************************************************************************)
(* src/aio/task_group.py on top of the future module it imports,           *)
(* aio/future.py (LegacyFuture).                                           *)
(*                                                                         *)
(* Task Parent runs `async with task_group() as tg: <body>`. The body      *)
(* spawns children and may await a promise or raise. At scope exit,       *)
(* task_group() cancels the group if the body raised, creates join_task    *)
(* running tg._join(), and awaits shield(join_task) in a loop. Each        *)
(* Cancelled that reaches Parent there re-cancels the group and awaits a   *)
(* fresh shield. Children are arbitrary coroutines that await promises.    *)
(*                                                                         *)
(* iter_done_futures (aio/gather.py) is not in the repository. It is       *)
(* modelled from spec 4.6: _join wakes whenever an awaited child is done   *)
(* and does not see the children's exceptions.                             *)
(***************************************************************************)
EXTENDS LegacyFuture

CONSTANTS
  Children,    \* the coroutines the body may spawn
  Parent,      \* the task whose coroutine runs the task_group() scope
  Join,        \* join_task, created at scope exit
  BodyAwaits,  \* may the body await a promise before it ends
  BodyRaises,  \* may the body raise an exception of its own
  BodyWaitsStarted  \* may the body spawn with tg.wait_started

ASSUME Tasks = Children \cup {Parent, Join}

VARIABLES
  tgTasks,    \* TaskGroup._tasks
  finalized,  \* TaskGroup._is_finalized
  joined,     \* tuple(self._tasks), taken by _join
  bodyExc,    \* body_exc in task_group()
  scope,      \* Parent's coroutine: in the "body", "joining", "exited"
  scopeExc,   \* what task_group() raised at exit, "ok" if nothing
  joinParts,  \* the inner exceptions of the MultiError _join raised
  scopeParts  \* the inner exceptions of the MultiError task_group() raised

tgVars == <<tgTasks, finalized, joined, bodyExc, scope, scopeExc, joinParts,
            scopeParts>>
allVars == <<vars, tgVars>>

(***************************************************************************)
(* MultiError from create_multi_error: its inner exceptions, flattened,    *)
(* each tagged with the task it came from (Parent for the body's).         *)
(***************************************************************************)
MultiError == "MultiError"
Part(t, e) == [from |-> t, exc |-> e]

\* create_multi_error("Body exception aborts children task", body_exc, exc),
\* where exc is Cancelled or the MultiError of join_task.
BodyAborts(b, e) ==
  {Part(Parent, b)} \cup (IF e = MultiError THEN joinParts ELSE {Part(Parent, e)})

TGInit ==
  /\ Init
  /\ tgTasks = <<>>
  /\ finalized = FALSE
  /\ joined = {}
  /\ bodyExc = None
  /\ scope = "body"
  /\ scopeExc = None
  /\ joinParts = {}
  /\ scopeParts = {}

(***************************************************************************)
(* TaskGroup.cancel: task._cancel(msg) on every task of the group, in      *)
(* order; the first one that raises aborts the loop and raises.            *)
(***************************************************************************)
RECURSIVE GroupCancelW(_, _)
GroupCancelW(w, ts) ==
  IF ts = <<>> THEN {[w |-> w, err |-> None]}
  ELSE UNION { IF o.err # None THEN {o} ELSE GroupCancelW(o.w, Tail(ts))
               : o \in CancelW(w, Head(ts)) }

\* The scope leaves task_group() raising e (a MultiError of the given
\* parts): the rest of Parent's coroutine completes the task with it.
ExitScope(e, parts, w) ==
  /\ scope' = "exited"
  /\ scopeExc' = e
  /\ scopeParts' = parts
  /\ FinishIn(Parent, e, w)

\* Create join_task and await a fresh shield(join_task), in world w.
AwaitJoin(w) ==
  \E s \in Shields : AwaitShield(Parent, Join, s, w)

(***************************************************************************)
(* Parent's coroutine.                                                     *)
(***************************************************************************)

\* TaskGroup._check_not_finalized: spawning after _join started raises.
CheckNotFinalized == ~finalized

\* tg.spawn(coro): _check_not_finalized, _create_task, append.
Spawn(c) ==
  /\ current = Parent
  /\ scope = "body"
  /\ inbox = None
  /\ CheckNotFinalized
  /\ state[c] = "created"
  /\ Install(CreateTaskW(World(state, queue), c))
  /\ tgTasks' = Append(tgTasks, c)
  /\ UNCHANGED <<callbacks, waitingOn, coro, shieldOf, current, inbox, steps,
                 ncancel, loopErrors, finalized, joined, bodyExc, scope,
                 scopeExc, joinParts, scopeParts>>

(***************************************************************************)
(* tg.wait_started(coro): _check_not_finalized, spawn, then await          *)
(* shield(task._started_promise.future), a fresh shield s of the child's   *)
(* started promise.                                                        *)
(***************************************************************************)
WaitStarted(c, s) ==
  /\ current = Parent
  /\ scope = "body"
  /\ BodyWaitsStarted
  /\ inbox = None
  /\ steps[Parent] < MaxSteps
  /\ CheckNotFinalized
  /\ state[c] = "created"
  /\ AwaitShield(Parent, SP(c), s, CreateTaskW(World(state, queue), c))
  /\ tgTasks' = Append(tgTasks, c)
  /\ UNCHANGED <<ncancel, finalized, joined, bodyExc, scope, scopeExc,
                 joinParts, scopeParts>>

\* The body awaits a promise.
BodyAwait(p) ==
  /\ scope = "body"
  /\ BodyAwaits
  /\ inbox = None
  /\ CoroAwait(Parent, p)
  /\ UNCHANGED tgVars

(***************************************************************************)
(* The body ends, raising e (None if it does not): `except Exception`      *)
(* keeps it as body_exc; if set, tg.cancel() runs before join_task exists, *)
(* outside any try, so what it raises leaves the scope at once; otherwise  *)
(* join_task is created and shield(join_task) awaited.                     *)
(***************************************************************************)
BodyExit ==
  /\ current = Parent
  /\ scope = "body"
  /\ \E e \in IF inbox # None THEN {inbox}
              ELSE {None} \cup (IF BodyRaises THEN {UserError} ELSE {}) :
       /\ bodyExc' = e
       /\ \E o \in IF e # None THEN GroupCancelW(World(state, queue), tgTasks)
                   ELSE {[w |-> World(state, queue), err |-> None]} :
            IF o.err # None
            THEN ExitScope(o.err, {}, o.w) /\ UNCHANGED ncancel
            ELSE /\ AwaitJoin(CreateTaskW(o.w, Join))
                 /\ scope' = "joining"
                 /\ UNCHANGED <<ncancel, scopeExc, scopeParts>>
  /\ UNCHANGED <<tgTasks, finalized, joined, joinParts>>

\* `except (MultiError, Cancelled) as exc`: re-raised, wrapped with body_exc.
Reraise(e, w) ==
  IF bodyExc # None THEN ExitScope(MultiError, BodyAborts(bodyExc, e), w)
  ELSE ExitScope(e, IF e = MultiError THEN joinParts ELSE {}, w)

(***************************************************************************)
(* Parent resumed from `await shield(join_task)`:                          *)
(*  - it returned: break; re-raise body_exc if any, else leave normally;   *)
(*  - Cancelled with join_task cancelled: re-raise;                        *)
(*  - Cancelled otherwise: tg.cancel() (whatever it raises is neither      *)
(*    MultiError nor Cancelled and leaves the scope), then a fresh shield; *)
(*  - MultiError, or any other exception of join_task: (re-)raise.         *)
(***************************************************************************)
ScopeResume ==
  /\ current = Parent
  /\ scope = "joining"
  /\ LET w == World(state, queue) IN
       CASE inbox = None ->
              /\ ExitScope(IF bodyExc = None THEN "ok" ELSE bodyExc, {}, w)
              /\ UNCHANGED ncancel
         [] inbox = Cancelled /\ ExceptionOf(Join) # Cancelled ->
              \E o \in GroupCancelW(w, tgTasks) :
                IF o.err # None
                THEN ExitScope(o.err, {}, o.w) /\ UNCHANGED ncancel
                ELSE /\ AwaitJoin(o.w)
                     /\ UNCHANGED <<ncancel, scope, scopeExc, scopeParts>>
         [] inbox \in {Cancelled, MultiError} ->
              Reraise(inbox, w) /\ UNCHANGED ncancel
         [] OTHER ->
              ExitScope(inbox, {}, w) /\ UNCHANGED ncancel
  /\ UNCHANGED <<tgTasks, finalized, joined, bodyExc, joinParts>>

ParentStep ==
  \/ \E c \in Children : Spawn(c) \/ \E s \in Shields : WaitStarted(c, s)
  \/ \E p \in Promises : BodyAwait(p)
  \/ BodyExit
  \/ ScopeResume

(***************************************************************************)
(* join_task, running tg._join().                                          *)
(***************************************************************************)

\* Mutant: a child counts as done once it has started (_started_promise).
ChildDoneStarted(c) == IsFinished(SP(c))

\* Mutant: only one child exception is raised.
JoinErrorsFirst(snap) ==
  LET errs == {Part(c, ExceptionOf(c)) : c \in {c \in snap : ExceptionOf(c) # None}}
  IN IF errs = {} THEN {} ELSE {CHOOSE x \in errs : TRUE}

\* A task of the group that iter_done_futures still waits for.
ChildDone(c) == IsFinished(c)

\* [task.exception for task in tasks if task.exception]
JoinErrors(snap) == {Part(c, ExceptionOf(c)) : c \in {c \in snap : ExceptionOf(c) # None}}

(***************************************************************************)
(* One step of _join: the first sets _is_finalized and takes the tuple of  *)
(* tasks; while one is not done, iter_done_futures waits; then the         *)
(* exceptions of all are raised as a MultiError, or it returns.            *)
(***************************************************************************)
JoinStep ==
  /\ current = Join
  /\ LET snap == IF finalized THEN joined ELSE ToSet(tgTasks)
         waiting == {c \in snap : ~ChildDone(c)}
     IN /\ finalized' = TRUE
        /\ joined' = snap
        /\ IF waiting # {}
           THEN \E c \in waiting :
                  /\ AfterYield(Join, c, callbacks, World(state, queue))
                  /\ UNCHANGED <<shieldOf, ncancel, joinParts>>
           ELSE /\ Finish(Join, IF JoinErrors(snap) = {} THEN "ok" ELSE MultiError)
                /\ joinParts' = JoinErrors(snap)
  /\ UNCHANGED <<tgTasks, bodyExc, scope, scopeExc, scopeParts>>

(***************************************************************************)
(* A child coroutine: awaits promises, returns or raises.                  *)
(***************************************************************************)
ChildStep(c) ==
  \/ CoroReturn(c)
  \/ CoroRaise(c)
  \/ \E p \in Promises : CoroAwait(c, p)

(***************************************************************************)
(* Other callbacks: the one that creates Parent, promise completions, and  *)
(* cancellation of Parent from outside (e.g. its own parent cancelled).    *)
(***************************************************************************)
TGEnvironment ==
  \/ CreateTask(Parent)
  \/ CancelTask(Parent)
  \/ \E p \in Promises :
       \/ CancelPromise(p)
       \/ \E r \in {"ok", UserError} : ResolvePromise(p, r)

TGLoopRun == LoopRun /\ UNCHANGED tgVars
TGChildStep(c) == ChildStep(c) /\ UNCHANGED tgVars

TGNext ==
  \/ TGEnvironment /\ UNCHANGED tgVars
  \/ TGLoopRun
  \/ ParentStep
  \/ JoinStep
  \/ \E c \in Children : TGChildStep(c)

\* As in LegacyFuture: the loop drains its queue and a resumed coroutine
\* reaches its next suspension.
TGFairness ==
  /\ WF_allVars(TGLoopRun)
  /\ WF_allVars(ParentStep)
  /\ WF_allVars(JoinStep)
  /\ \A c \in Children : WF_allVars(TGChildStep(c))

TGSpec == TGInit /\ [][TGNext]_allVars /\ TGFairness

-----------------------------------------------------------------------------

TGTypeOK ==
  /\ tgTasks \in Seq(Children)
  /\ finalized \in BOOLEAN
  /\ joined \subseteq Children
  /\ bodyExc \in Exceptions \cup {None}
  /\ scope \in {"body", "joining", "exited"}
  /\ res \in [Futures -> Results \cup {MultiError}]
  /\ waitingOn \in [Tasks -> Futures \cup {None}]
  /\ current \in Tasks \cup {None}
  /\ inbox \in Exceptions \cup {MultiError, None}

(***************************************************************************)
(* No task spawned inside the group is still pending once task_group()     *)
(* has exited (spec invariant 6): the shielded join, the re-cancel loop    *)
(* and TaskGroup.cancel must together make the scope wait for every child. *)
(***************************************************************************)
NoChildOutlivesScope ==
  scope = "exited" => \A c \in ToSet(tgTasks) : IsFinished(c)

(***************************************************************************)
(* The group never loses an exception (spec 7): when the scope exits, the  *)
(* body's exception and the error every child raised of its own are what  *)
(* task_group() raised, or inner exceptions of the MultiError it raised    *)
(* (built by _join and wrapped with body_exc by the scope).                *)
(***************************************************************************)
Raised(t, e) ==
  \/ scopeExc = e /\ t = Parent
  \/ scopeExc = MultiError /\ Part(t, e) \in scopeParts

NoErrorLost ==
  scope = "exited" =>
    /\ bodyExc # None => Raised(Parent, bodyExc)
    /\ \A c \in ToSet(tgTasks) : ExceptionOf(c) = UserError => Raised(c, UserError)

(***************************************************************************)
(* Once every promise the children await is settled, the scope exits: the *)
(* join wakes for each child and the shield wakes Parent.                  *)
(***************************************************************************)
ScopeCompletes ==
  (scope = "joining" /\ \A p \in Promises : IsFinished(p)) ~> scope = "exited"
(***************************************************************************)
(* tg.wait_started(coro) returns (spec 4.6): a body suspended on the      *)
(* shield of a child's _started_promise is resumed, and by then the        *)
(* child's coroutine has executed a step. The first yield of the child     *)
(* (or its Task._set_result) must complete the started promise, and the    *)
(* shield's callback must carry it to Parent through the loop.             *)
(***************************************************************************)
WaitingStarted(c, s) ==
  /\ scope = "body"
  /\ current # Parent
  /\ waitingOn[Parent] = s
  /\ shieldOf[s] = SP(c)

WaitStartedReturns ==
  \A c \in Children, s \in Shields :
    WaitingStarted(c, s) ~> (current = Parent /\ coro[c] # "created")

(***************************************************************************)
(* The shields of the scope isolate join_task and the started promises     *)
(* (spec 6, shield): a shield's future_done_cb raises into the loop only   *)
(* for a stale subscription, a shield that Task._cancel completed as       *)
(* Cancelled when it reached it through Parent's _waiting_on, and then     *)
(* only FutureFinishedError. A callback that fires while its shield still  *)
(* mirrors, or a ValueError because join_task or a started promise was     *)
(* itself cancelled, breaks it. Each inbound cancel in the join loop (and  *)
(* in wait_started) leaves one such subscription behind.                   *)
(***************************************************************************)
ShieldErrorsOnlyStale ==
  \A e \in loopErrors :
    e.by \in {SH(s) : s \in Shields} =>
      /\ e.exc = "FutureFinishedError"
      /\ res[e.by.id] = Cancelled

=============================================================================
