--------------------------- MODULE MCLegacyFuture ---------------------------
(***************************************************************************)
(* Model-checking instance of LegacyFuture: tasks, promises and shield     *)
(* promises are model values.                                              *)
(***************************************************************************)
EXTENDS LegacyFuture

CONSTANTS t1, t2, p1, s1, s2

MCTasks   == {t1, t2}
MCPromises == {p1}
MCShields == {s1, s2}
MCOneShield == {s1}
=============================================================================
