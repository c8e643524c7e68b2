---------------------------- MODULE MCFutureTask ----------------------------
(***************************************************************************)
(* Model-checking instance of FutureTask.  Tasks, promises and Cancelled   *)
(* instances are model values; three tasks let a cancel travel down a      *)
(* chain of two awaiting tasks to a promise or a third task.               *)
(***************************************************************************)
EXTENDS FutureTask

CONSTANTS t1, t2, t3, p1, c1, c2

MCTasks     == {t1, t2, t3}
MCTwoTasks  == {t1, t2}
MCPromises  == {p1}
MCCancels   == {c1, c2}
MCOneCancel == {c1}
=============================================================================
