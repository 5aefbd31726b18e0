--------------------------- MODULE MCTaskManager ---------------------------
(***************************************************************************)
(* TLC instance of TaskManager.                                            *)
(***************************************************************************)
EXTENDS TaskManager, TLC

CONSTANTS t1, t2, t3, w1, w2

TwoTasks == {t1, t2}
ThreeTasks == {t1, t2, t3}
TwoWorkers == {w1, w2}

(* t2 overtakes the other tasks.                                           *)
Urgency == [t \in Tasks |-> IF t = t2 THEN 10 ELSE 5]

Symmetric == Permutations(Workers)
=============================================================================
