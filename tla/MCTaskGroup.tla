---------------------------- MODULE MCTaskGroup ----------------------------
(***************************************************************************)
(* Model-checking instance of TaskGroup: two children, the parent running  *)
(* the scope, join_task, a promise per child, and shield promises.         *)
(***************************************************************************)
EXTENDS TaskGroup

CONSTANTS c1, c2, P, J, p1, p2, s1, s2, s3

MCChildren == {c1, c2}
MCTGTasks  == {c1, c2, P, J}
MCTGPromises == {p1, p2}
MCTGShields == {s1, s2}
MCTGShields3 == {s1, s2, s3}
MCTGPromise1 == {p1}
=============================================================================
