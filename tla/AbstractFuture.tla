--------------------------- MODULE AbstractFuture ---------------------------
(***************************************************************************)
(* What a Future and a Task promise (spec sections 3 and 4.3), without     *)
(* callbacks, handles or the loop queue.                                   *)
(*                                                                         *)
(*  - a future is assigned once: pending, then done with one outcome;      *)
(*  - at most one coroutine runs at a time, and only a pending task's;     *)
(*  - a task completes itself, by returning or raising out of its own      *)
(*    step; the only way it completes from outside is cancellation before  *)
(*    its coroutine was ever resumed.                                      *)
(***************************************************************************)
CONSTANTS Futures, Tasks, Outcomes, Cancels, None

VARIABLES
  status,    \* "pending" or "done", per future
  outcome,   \* the exception it failed with, None for success or pending
  started,   \* has the task's coroutine been resumed
  active     \* the task whose coroutine is running, or None

avars == <<status, outcome, started, active>>

Init ==
  /\ status  = [f \in Futures |-> "pending"]
  /\ outcome = [f \in Futures |-> None]
  /\ started = [t \in Tasks |-> FALSE]
  /\ active  = None

Resume(t) ==
  /\ active = None
  /\ status[t] = "pending"
  /\ active' = t
  /\ started' = [started EXCEPT ![t] = TRUE]
  /\ UNCHANGED <<status, outcome>>

Suspend(t) ==
  /\ active = t
  /\ active' = None
  /\ UNCHANGED <<status, outcome, started>>

Done(f, o) ==
  /\ status[f] = "pending"
  /\ status' = [status EXCEPT ![f] = "done"]
  /\ outcome' = [outcome EXCEPT ![f] = o]

\* The running coroutine returns or raises: its task completes.
Return(t, o) ==
  /\ active = t
  /\ o \in Outcomes
  /\ Done(t, o)
  /\ active' = None
  /\ UNCHANGED started

\* A future completes from outside; a task only if cancelled unstarted.
Complete(f, o) ==
  /\ f # active
  /\ o \in Outcomes
  /\ f \in Tasks => ~started[f] /\ o \in Cancels
  /\ Done(f, o)
  /\ UNCHANGED <<started, active>>

Next ==
  \/ \E t \in Tasks : Resume(t) \/ Suspend(t)
  \/ \E t \in Tasks, o \in Outcomes : Return(t, o)
  \/ \E f \in Futures, o \in Outcomes : Complete(f, o)

Spec == Init /\ [][Next]_avars
=============================================================================
