--------------------------- MODULE MCExecutorBridge ---------------------------
EXTENDS ExecutorBridge, TLC

CONSTANTS t1, t2, t3, p1, p2, p3, w1, w2

MCBTasks == {t1, t2}
MCBPromises == {p1, p2}
MCWaiter == (t1 :> p1) @@ (t2 :> p2)
MCOneWorker == {w1}
MCTwoWorkers == {w1, w2}
MCPoolAndThread == {t1, t3}
MCPoolAndThreadPromises == {p1, p3}
MCWaiterPT == (t1 :> p1) @@ (t3 :> p3)
MCThreadCallers == {t3}
MCAllTasks == {t1, t2, t3}
MCAllPromises == {p1, p2, p3}
MCWaiterAll == (t1 :> p1) @@ (t2 :> p2) @@ (t3 :> p3)
MCFnResults == {"ok", UserError, "BaseException"}
MCFnResultsCancelled == {"ok", Cancelled}
=============================================================================
