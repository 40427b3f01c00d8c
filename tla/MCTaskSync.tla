----------------------------- MODULE MCTaskSync -----------------------------
(* Model values for TaskSync: a group of three tasks, so that one can have *)
(* been executed and another still be queued while the third is running.   *)
EXTENDS TaskSync

CONSTANTS t1, t2, t3

MCTasks == {t1, t2, t3}
BothKinds == {"send", "recv"}
OnlyRecv == {"recv"}
AllCalls == {"wait", "timed", "cancel"}
=============================================================================
