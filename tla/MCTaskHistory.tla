--------------------------- MODULE MCTaskHistory ---------------------------
(***************************************************************************)
(* TLC instance of TaskHistory.                                            *)
(***************************************************************************)
EXTENDS TaskHistory, TLC

CONSTANTS t1, t2, w1

OneTask == {t1}
TwoTasks == {t1, t2}
OneWorker == {w1}
Equal == [t \in Tasks |-> 5]
=============================================================================
