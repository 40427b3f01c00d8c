--------------------------- MODULE TaskSyncProofs ---------------------------
(***************************************************************************)
(* Proofs about TaskSync, for every set of tasks, kind of request, ending  *)
(* call and choice of failures.                                            *)
(*                                                                         *)
(* The safety properties are not inductive.  What makes them so is IInv:   *)
(* the counters of the sync are the cardinalities of what became of the    *)
(* tasks, up to the cancellation that is between its two sections; freeing *)
(* is raised exactly when the sync is releasable, and one thread holds it; *)
(* and the locals of the ending call agree with what it has seen.          *)
(***************************************************************************)
EXTENDS TaskSync, FiniteSetTheorems, TLAPS

(* The task the worker holds is the one that is running.                   *)
WorkerInv ==
    /\ (running # NoTask) <=> wpc \in {"exec", "status", "mark"}
    /\ \A t \in Tasks : (task[t] = "running") <=> (t = running)
    /\ wpc = "status" => kind = "send" /\ ~wok

(* The call has emptied the queue and not returned, or has returned.       *)
QueueEmptied == opc \in {"add", "release", "free", "done"}

QueueInv == QueueEmptied => In("queued") = {}

(* completed_tasks and canceled_tasks count what they are named for.       *)
CountInv ==
    /\ completed_tasks = Cardinality(In("ok"))
    /\ ~QueueEmptied => canceled_tasks = 0 /\ In("canceled") = {}
    /\ opc = "add" => canceled_tasks = 0 /\ removed = Cardinality(In("canceled"))
    /\ opc \in {"release", "free", "done"} =>
           canceled_tasks = Cardinality(In("canceled"))

(* freeing, and the thread that has raised it.                             *)
ReleaseInv ==
    /\ release_requested <=> opc \in {"free", "done"}
    /\ freeing <=> (opc = "free" \/ wpc = "free" \/ mem = "freed")
    /\ opc = "free" => wpc # "free" /\ mem # "freed"
    /\ wpc = "free" => mem # "freed"
    /\ freeing <=> Releasable
    /\ sync_all_tasks_accounted_locked => request_completed

(* What the ending call is going to return, and what it has returned.      *)
OutcomeInv ==
    /\ opc \in {"cancel", "add"} /\ call # "cancel" => wait_ret # "OK"
    /\ opc = "release" /\ call # "cancel" /\ wait_ret = "OK" => In("ok") = Tasks
    /\ result = "PENDING" <=> opc \notin {"free", "done"}

IInv ==
    /\ TypeOK
    /\ WorkerInv
    /\ QueueInv
    /\ CountInv
    /\ ReleaseInv
    /\ OutcomeInv
    /\ SuccessMeansAllRan
    /\ StatusTellsFailure

-----------------------------------------------------------------------------
(* Two disjoint sets of tasks have together at most total_tasks members,   *)
(* and exactly that many only when they make up the group.                 *)
LEMMA TwoParts ==
    ASSUME NEW A \in SUBSET Tasks, NEW B \in SUBSET Tasks, A \cap B = {}
    PROVE  /\ total_tasks \in Nat \ {0}
           /\ Cardinality(A) \in Nat /\ Cardinality(B) \in Nat
           /\ Cardinality(A) + Cardinality(B) <= total_tasks
           /\ Cardinality(A) + Cardinality(B) = total_tasks <=> A \cup B = Tasks
<1>1. IsFiniteSet(Tasks) /\ Tasks # {}
  BY TasksAssumption
<1>2. total_tasks \in Nat \ {0}
  BY <1>1, FS_CardinalityType, FS_EmptySet, Zenon DEF total_tasks
<1>3. IsFiniteSet(A) /\ IsFiniteSet(B) /\ IsFiniteSet(A \cup B)
  BY <1>1, FS_Subset
<1>4. Cardinality(A) \in Nat /\ Cardinality(B) \in Nat
  BY <1>3, FS_CardinalityType
<1>5. Cardinality(A \cup B) = Cardinality(A) + Cardinality(B)
  <2>1. Cardinality(A \cup B)
          = Cardinality(A) + Cardinality(B) - Cardinality(A \cap B)
    BY <1>3, FS_Union
  <2>2. Cardinality(A \cap B) = 0
    BY FS_EmptySet
  <2> QED
    BY <1>4, <2>1, <2>2
<1>6. /\ Cardinality(A \cup B) <= total_tasks
      /\ Cardinality(A \cup B) = total_tasks => A \cup B = Tasks
  BY <1>1, FS_Subset DEF total_tasks
<1> QED
  BY <1>2, <1>4, <1>5, <1>6 DEF total_tasks

(* The tasks in a state are tasks of the group, and the states exclude one *)
(* another.                                                                *)
LEMMA OkCanceledDisjoint ==
    /\ In("ok") \cap In("canceled") = {}
    /\ In("ok") \cap In("queued") = {}
    /\ In("ok") \in SUBSET Tasks /\ In("canceled") \in SUBSET Tasks
    /\ In("queued") \in SUBSET Tasks
BY DEF In

(* What the two counters can be at any moment, from the sets they count.   *)
LEMMA Bounds ==
    /\ total_tasks \in Nat \ {0}
    /\ Cardinality(In("ok")) \in 0 .. total_tasks
    /\ Cardinality(In("canceled")) \in 0 .. total_tasks
    /\ Cardinality(In("queued")) \in 0 .. total_tasks
    /\ Cardinality(In("ok")) + Cardinality(In("canceled")) <= total_tasks
    /\ Cardinality(In("ok")) + Cardinality(In("canceled")) = total_tasks
         <=> In("ok") \cup In("canceled") = Tasks
    /\ Cardinality(In("ok")) = total_tasks <=> In("ok") = Tasks
<1>1. /\ Cardinality(In("ok")) + Cardinality(In("canceled")) <= total_tasks
      /\ Cardinality(In("ok")) + Cardinality(In("canceled")) = total_tasks
           <=> In("ok") \cup In("canceled") = Tasks
      /\ Cardinality(In("ok")) \in Nat /\ Cardinality(In("canceled")) \in Nat
      /\ total_tasks \in Nat \ {0}
  BY TwoParts, OkCanceledDisjoint
<1>2. /\ Cardinality(In("ok")) + Cardinality(In("queued")) <= total_tasks
      /\ Cardinality(In("queued")) \in Nat
  BY TwoParts, OkCanceledDisjoint
<1>3. Cardinality(In("ok")) = total_tasks <=> In("ok") = Tasks
  <2>1. Cardinality(In("ok")) + Cardinality({}) = total_tasks
          <=> In("ok") \cup {} = Tasks
    <3>1. In("ok") \in SUBSET Tasks /\ {} \in SUBSET Tasks /\ In("ok") \cap {} = {}
      BY OkCanceledDisjoint
    <3> QED
      BY <3>1, TwoParts
  <2> QED
    BY <2>1, <1>1, FS_EmptySet
<1> QED
  BY <1>1, <1>2, <1>3

(* The invariant holds of a request that has just been registered.         *)
LEMMA InitIInv == Init => IInv
<1> SUFFICES ASSUME Init PROVE IInv
  OBVIOUS
<1> USE TasksAssumption, KindsAssumption, CallsAssumption
<1>1. In("ok") = {} /\ In("canceled") = {} /\ In("failed") = {}
  BY DEF Init, In
<1>2. Cardinality({}) = 0 /\ total_tasks \in Nat \ {0}
  BY FS_EmptySet, Bounds
<1>3. TypeOK
  <2>1. task \in [Tasks -> TaskStates]
    BY DEF Init, TaskStates
  <2>2. /\ completed_tasks \in 0 .. total_tasks
        /\ canceled_tasks \in 0 .. total_tasks - completed_tasks
        /\ removed \in 0 .. total_tasks
    BY <1>2 DEF Init
  <2> QED
    BY <2>1, <2>2 DEF Init, TypeOK
<1>4. WorkerInv
  BY DEF Init, WorkerInv
<1>5. QueueInv /\ CountInv
  BY <1>1, <1>2 DEF Init, QueueInv, CountInv, QueueEmptied
<1>6. ReleaseInv
  BY <1>2 DEF Init, ReleaseInv, Releasable, sync_all_tasks_accounted_locked
<1>7. OutcomeInv /\ SuccessMeansAllRan
  BY DEF Init, OutcomeInv, SuccessMeansAllRan
<1>8. StatusTellsFailure
  BY <1>1 DEF Init, StatusTellsFailure
<1> QED
  BY <1>3, <1>4, <1>5, <1>6, <1>7, <1>8 DEF IInv

-----------------------------------------------------------------------------
(* Most steps leave the tasks where they are.                              *)
LEMMA SameTasks ==
    UNCHANGED task =>
        /\ In("ok")' = In("ok") /\ In("failed")' = In("failed")
        /\ In("canceled")' = In("canceled") /\ In("queued")' = In("queued")
        /\ In("dropped")' = In("dropped")
        /\ total_tasks' = total_tasks
BY DEF In, total_tasks

LEMMA PostOkIInv == IInv /\ PostOk => IInv'
BY SameTasks DEF PostOk, syncVars, workerVars, ownerVars,
       IInv, WorkerInv, QueueInv, QueueEmptied, CountInv, ReleaseInv,
       OutcomeInv, SuccessMeansAllRan, StatusTellsFailure, TypeOK, Releasable,
       sync_all_tasks_accounted_locked

LEMMA PostFailIInv == IInv /\ PostFail => IInv'
BY SameTasks DEF PostFail, syncVars, workerVars, ownerVars,
       IInv, WorkerInv, QueueInv, QueueEmptied, CountInv, ReleaseInv,
       OutcomeInv, SuccessMeansAllRan, StatusTellsFailure, TypeOK, Releasable,
       sync_all_tasks_accounted_locked, SignalIf

LEMMA EndRequestIInv == IInv /\ EndRequest => IInv'
BY SameTasks DEF EndRequest, syncVars, workerVars, ownerVars,
       IInv, WorkerInv, QueueInv, QueueEmptied, CountInv, ReleaseInv,
       OutcomeInv, SuccessMeansAllRan, StatusTellsFailure, TypeOK, Releasable,
       sync_all_tasks_accounted_locked

LEMMA WaitWakeIInv == IInv /\ WaitWake => IInv'
<1> SUFFICES ASSUME IInv, WaitWake PROVE IInv'
  OBVIOUS
<1> USE SameTasks DEF IInv, WaitWake, syncVars, workerVars, ownerVars
<1>1. TypeOK'
  <2>1. signalled' \in BOOLEAN
    BY Zenon
  <2> QED
    BY <2>1 DEF TypeOK
<1>2. WorkerInv' /\ QueueInv' /\ CountInv'
  BY DEF WorkerInv, QueueInv, CountInv, QueueEmptied
<1>3. ReleaseInv'
  BY DEF ReleaseInv, Releasable, sync_all_tasks_accounted_locked
<1>4. OutcomeInv' /\ SuccessMeansAllRan'
  BY DEF OutcomeInv, SuccessMeansAllRan
<1>5. StatusTellsFailure'
  BY DEF StatusTellsFailure, WorkerInv, TypeOK
<1> QED
  BY <1>1, <1>2, <1>3, <1>4, <1>5

LEMMA WaitSpuriousIInv == IInv /\ WaitSpurious => IInv'
BY SameTasks DEF WaitSpurious, syncVars, workerVars, ownerVars,
       IInv, WorkerInv, QueueInv, QueueEmptied, CountInv, ReleaseInv,
       OutcomeInv, SuccessMeansAllRan, StatusTellsFailure, TypeOK, Releasable,
       sync_all_tasks_accounted_locked

LEMMA WaitTimeoutIInv == IInv /\ WaitTimeout => IInv'
<1> SUFFICES ASSUME IInv, WaitTimeout PROVE IInv'
  OBVIOUS
<1> USE SameTasks DEF IInv, WaitTimeout, syncVars, workerVars, ownerVars
<1>1. TypeOK'
  <2>1. signalled' \in BOOLEAN /\ request_timedout' \in BOOLEAN
    BY Zenon
  <2> QED
    BY <2>1 DEF TypeOK
<1>2. WorkerInv' /\ QueueInv' /\ CountInv'
  BY DEF WorkerInv, QueueInv, CountInv, QueueEmptied
<1>3. ReleaseInv'
  BY DEF ReleaseInv, Releasable, sync_all_tasks_accounted_locked
<1>4. OutcomeInv' /\ SuccessMeansAllRan'
  BY DEF OutcomeInv, SuccessMeansAllRan
<1>5. StatusTellsFailure'
  BY DEF StatusTellsFailure, WorkerInv, TypeOK
<1> QED
  BY <1>1, <1>2, <1>3, <1>4, <1>5

LEMMA OwnerFreeIInv == IInv /\ OwnerFree => IInv'
BY SameTasks DEF OwnerFree, syncVars, workerVars, ownerVars,
       IInv, WorkerInv, QueueInv, QueueEmptied, CountInv, ReleaseInv,
       OutcomeInv, SuccessMeansAllRan, StatusTellsFailure, TypeOK, Releasable,
       sync_all_tasks_accounted_locked

LEMMA WorkerFreeIInv == IInv /\ WorkerFree => IInv'
BY SameTasks DEF WorkerFree, syncVars, workerVars, ownerVars,
       IInv, WorkerInv, QueueInv, QueueEmptied, CountInv, ReleaseInv,
       OutcomeInv, SuccessMeansAllRan, StatusTellsFailure, TypeOK, Releasable,
       sync_all_tasks_accounted_locked

LEMMA ExecuteOkIInv == IInv /\ ExecuteOk => IInv'
BY SameTasks DEF ExecuteOk, syncVars, workerVars, ownerVars,
       IInv, WorkerInv, QueueInv, QueueEmptied, CountInv, ReleaseInv,
       OutcomeInv, SuccessMeansAllRan, StatusTellsFailure, TypeOK, Releasable,
       sync_all_tasks_accounted_locked

LEMMA ExecuteFailIInv == IInv /\ ExecuteFail => IInv'
<1> SUFFICES ASSUME IInv, ExecuteFail PROVE IInv'
  OBVIOUS
<1> USE SameTasks DEF IInv, ExecuteFail, AfterFailure, syncVars, workerVars, ownerVars
<1>1. TypeOK'
  <2>1. wok' \in BOOLEAN
    BY Zenon
  <2> QED
    BY <2>1 DEF TypeOK
<1>2. WorkerInv' /\ QueueInv' /\ CountInv'
  BY DEF WorkerInv, QueueInv, CountInv, QueueEmptied
<1>3. ReleaseInv'
  BY DEF ReleaseInv, Releasable, sync_all_tasks_accounted_locked
<1>4. OutcomeInv' /\ SuccessMeansAllRan'
  BY DEF OutcomeInv, SuccessMeansAllRan
<1>5. StatusTellsFailure'
  BY DEF StatusTellsFailure, WorkerInv, TypeOK
<1> QED
  BY <1>1, <1>2, <1>3, <1>4, <1>5

LEMMA UpdateUrmaStatusIInv == IInv /\ UpdateUrmaStatus => IInv'
BY SameTasks DEF UpdateUrmaStatus, syncVars, workerVars, ownerVars,
       IInv, WorkerInv, QueueInv, QueueEmptied, CountInv, ReleaseInv,
       OutcomeInv, SuccessMeansAllRan, StatusTellsFailure, TypeOK, Releasable,
       sync_all_tasks_accounted_locked

(* The wait succeeds only when the count of successes is that of the group.*)
LEMMA WaitCheckIInv == IInv /\ WaitCheck => IInv'
<1> SUFFICES ASSUME IInv, WaitCheck PROVE IInv'
  OBVIOUS
<1> USE SameTasks DEF IInv, WaitCheck, syncVars, workerVars
<1>1. TypeOK'
  BY DEF TypeOK
<1>2. opc' = "release" => In("ok") = Tasks
  BY Bounds DEF WaitSucceeded, CountInv
<1>3. WorkerInv'
  BY DEF WorkerInv
<1>4. QueueInv' /\ CountInv'
  <2>1. opc' = "release" => In("queued") = {} /\ In("canceled") = {}
    BY <1>2, OkCanceledDisjoint
  <2>2. opc' = "release" => canceled_tasks = Cardinality(In("canceled"))
    BY <2>1, FS_EmptySet DEF CountInv, QueueEmptied
  <2> QED
    BY <2>1, <2>2 DEF QueueInv, CountInv, QueueEmptied
<1>5. ReleaseInv'
  BY DEF ReleaseInv, Releasable, sync_all_tasks_accounted_locked
<1>6. OutcomeInv' /\ SuccessMeansAllRan'
  BY <1>2 DEF OutcomeInv, SuccessMeansAllRan
<1>7. StatusTellsFailure'
  BY DEF StatusTellsFailure
<1> QED
  BY <1>1, <1>3, <1>4, <1>5, <1>6, <1>7

(* What is removed from the queue is what the caller is told was removed.  *)
LEMMA CancelQueuedIInv == IInv /\ CancelQueued => IInv'
<1> SUFFICES ASSUME IInv, CancelQueued PROVE IInv'
  OBVIOUS
<1> USE DEF IInv
<1>1. /\ In("ok")' = In("ok") /\ In("failed")' = In("failed")
      /\ In("canceled")' = In("canceled") \cup In("queued")
      /\ In("queued")' = {}
      /\ total_tasks' = total_tasks
  BY DEF In, CancelQueued, total_tasks
<1>2. TypeOK'
  <2>1. task' \in [Tasks -> TaskStates]
    BY DEF CancelQueued, TypeOK, TaskStates
  <2>2. removed' \in 0 .. total_tasks
    BY Bounds DEF CancelQueued, RemovedCount
  <2> QED
    BY <1>1, <2>1, <2>2 DEF CancelQueued, TypeOK, syncVars, workerVars
<1>3. WorkerInv'
  BY DEF WorkerInv, CancelQueued, TypeOK, workerVars
<1>4. QueueInv' /\ CountInv'
  <2>1. In("canceled") = {} /\ canceled_tasks = 0
    BY DEF CancelQueued, CountInv, QueueEmptied
  <2>2. removed' = Cardinality(In("canceled")')
    BY <1>1, <2>1 DEF CancelQueued, RemovedCount
  <2> QED
    BY <1>1, <2>1, <2>2
       DEF CancelQueued, syncVars, QueueInv, CountInv, QueueEmptied
<1>5. ReleaseInv'
  BY <1>1 DEF ReleaseInv, Releasable, sync_all_tasks_accounted_locked,
              CancelQueued, syncVars, workerVars
<1>6. OutcomeInv' /\ SuccessMeansAllRan'
  BY <1>1 DEF OutcomeInv, SuccessMeansAllRan, CancelQueued
<1>7. StatusTellsFailure'
  BY <1>1 DEF StatusTellsFailure, CancelQueued, syncVars, workerVars
<1> QED
  BY <1>2, <1>3, <1>4, <1>5, <1>6, <1>7

(* The cap by remain never bites: the removed tasks are all credited.  And *)
(* the sync is not claimed here, for nobody has requested its release.     *)
LEMMA AddCanceledTasksIInv == IInv /\ AddCanceledTasks => IInv'
<1> SUFFICES ASSUME IInv, AddCanceledTasks PROVE IInv'
  OBVIOUS
<1> USE SameTasks DEF IInv
<1>1. canceled_tasks' = Cardinality(In("canceled"))
  BY Bounds DEF AddCanceledTasks, CanceledTasksAfterAdd, Least, CountInv, QueueEmptied
<1>2. ~Releasable' /\ ~freeing /\ ~freeing'
  BY DEF AddCanceledTasks, ClaimIfReleasable, ReleaseInv, Releasable
<1>3. mem' = mem
  BY <1>2 DEF AddCanceledTasks, Claimed
<1>4. TypeOK'
  <2>1. /\ request_canceled' \in BOOLEAN /\ request_timedout' \in BOOLEAN
        /\ freeing' \in BOOLEAN
    BY Zenon DEF AddCanceledTasks, ClaimIfReleasable, TypeOK
  <2>2. request_completed' \in BOOLEAN /\ signalled' \in BOOLEAN
    BY Zenon DEF AddCanceledTasks, SignalIf, TypeOK
  <2>3. canceled_tasks' \in 0 .. total_tasks - completed_tasks
    BY <1>1, Bounds DEF CountInv
  <2> QED
    BY <1>3, <2>1, <2>2, <2>3 DEF AddCanceledTasks, TypeOK, workerVars
<1>5. WorkerInv'
  BY DEF WorkerInv, AddCanceledTasks, workerVars
<1>6. QueueInv' /\ CountInv'
  BY <1>1 DEF QueueInv, CountInv, QueueEmptied, AddCanceledTasks
<1>7. ReleaseInv'
  BY <1>2, <1>3 DEF ReleaseInv, AddCanceledTasks, workerVars
<1>8. OutcomeInv' /\ SuccessMeansAllRan'
  BY DEF OutcomeInv, SuccessMeansAllRan, AddCanceledTasks
<1>9. StatusTellsFailure'
  BY DEF StatusTellsFailure, AddCanceledTasks, workerVars
<1> QED
  BY <1>4, <1>5, <1>6, <1>7, <1>8, <1>9

(* The owner is the last, or some task is not accounted for.               *)
LEMMA RequestReleaseIInv == IInv /\ RequestRelease => IInv'
<1> SUFFICES ASSUME IInv, RequestRelease PROVE IInv'
  OBVIOUS
<1> USE SameTasks DEF IInv
<1>1. ~freeing /\ wpc # "free" /\ mem # "freed"
  BY DEF RequestRelease, ReleaseInv, Releasable
<1>2. freeing' <=> Releasable'
  BY <1>1 DEF RequestRelease, ClaimIfReleasable
<1>3. opc' = IF Releasable' THEN "free" ELSE "done"
  BY <1>1 DEF RequestRelease, Claimed
<1>4. TypeOK'
  <2>1. freeing' \in BOOLEAN /\ release_requested' \in BOOLEAN
    BY Zenon DEF RequestRelease, ClaimIfReleasable, TypeOK, Releasable
  <2>2. result' \in {"OK", "ERROR", "TIMEOUT", "CANCELED"}
    BY DEF RequestRelease, TypeOK
  <2> QED
    BY <1>3, <2>1, <2>2 DEF RequestRelease, TypeOK, workerVars
<1>5. WorkerInv'
  BY DEF WorkerInv, RequestRelease, workerVars
<1>6. QueueInv' /\ CountInv'
  BY <1>3 DEF QueueInv, CountInv, QueueEmptied, RequestRelease
<1>7. ReleaseInv'
  <2>1. release_requested' <=> opc' \in {"free", "done"}
    BY <1>3 DEF RequestRelease
  <2>2. sync_all_tasks_accounted_locked' => request_completed'
    BY DEF RequestRelease, ReleaseInv, sync_all_tasks_accounted_locked
  <2>3. wpc' # "free" /\ mem' # "freed"
    BY <1>1 DEF RequestRelease, workerVars
  <2> QED
    BY <1>2, <1>3, <2>1, <2>2, <2>3 DEF ReleaseInv
<1>8. OutcomeInv' /\ SuccessMeansAllRan'
  BY <1>3 DEF OutcomeInv, SuccessMeansAllRan, RequestRelease, TypeOK
<1>9. StatusTellsFailure'
  BY DEF StatusTellsFailure, RequestRelease, workerVars
<1> QED
  BY <1>4, <1>5, <1>6, <1>7, <1>8, <1>9

(* A task that is taken was queued, so the call has not emptied the queue. *)
LEMMA StartTaskIInv == ASSUME NEW t \in Tasks PROVE IInv /\ StartTask(t) => IInv'
<1> SUFFICES ASSUME IInv, StartTask(t) PROVE IInv'
  OBVIOUS
<1> USE DEF IInv
<1>1. /\ In("ok")' = In("ok") /\ In("failed")' = In("failed")
      /\ In("canceled")' = In("canceled")
      /\ In("queued")' \subseteq In("queued")
      /\ total_tasks' = total_tasks
  BY DEF In, StartTask, total_tasks, TypeOK
<1>2. t \in In("queued") /\ t # NoTask
  BY TasksAssumption DEF In, StartTask
<1>3. ~QueueEmptied
  BY <1>2 DEF QueueInv
<1>4. TypeOK'
  <2>1. task' \in [Tasks -> TaskStates]
    BY DEF StartTask, TypeOK, TaskStates
  <2> QED
    BY <1>1, <2>1 DEF StartTask, TypeOK, syncVars, ownerVars
<1>5. WorkerInv'
  BY <1>2, TasksAssumption DEF WorkerInv, StartTask, TypeOK
<1>6. QueueInv' /\ CountInv'
  BY <1>1, <1>3 DEF QueueInv, CountInv, QueueEmptied, StartTask, syncVars, ownerVars
<1>7. ReleaseInv'
  BY <1>1 DEF ReleaseInv, Releasable, sync_all_tasks_accounted_locked,
              StartTask, syncVars, ownerVars
<1>8. OutcomeInv' /\ SuccessMeansAllRan'
  BY <1>1 DEF OutcomeInv, SuccessMeansAllRan, StartTask, ownerVars
<1>9. StatusTellsFailure'
  BY <1>1 DEF StatusTellsFailure, StartTask, syncVars
<1> QED
  BY <1>4, <1>5, <1>6, <1>7, <1>8, <1>9

(* The running task joins those that succeeded, or those that failed; the  *)
(* counter follows; and the worker claims the sync if it has become the    *)
(* last.                                                                   *)
LEMMA MarkTaskGroupCompletedIInv == IInv /\ MarkTaskGroupCompleted => IInv'
<1> SUFFICES ASSUME IInv, MarkTaskGroupCompleted PROVE IInv'
  OBVIOUS
<1> USE DEF IInv
<1>1. running \in Tasks /\ task[running] = "running" /\ wok \in BOOLEAN
  BY DEF MarkTaskGroupCompleted, WorkerInv, TypeOK
<1>2. /\ In("ok")' = IF wok THEN In("ok") \cup {running} ELSE In("ok")
      /\ In("failed")' = IF wok THEN In("failed") ELSE In("failed") \cup {running}
      /\ In("canceled")' = In("canceled") /\ In("queued")' = In("queued")
      /\ total_tasks' = total_tasks
  BY <1>1 DEF In, MarkTaskGroupCompleted, total_tasks, TypeOK
<1>3. completed_tasks' = Cardinality(In("ok")')
  <2>1. running \notin In("ok")
    BY <1>1 DEF In
  <2>2. IsFiniteSet(In("ok"))
    BY TasksAssumption, OkCanceledDisjoint, FS_Subset
  <2>3. Cardinality(In("ok") \cup {running}) = Cardinality(In("ok")) + 1
    BY <2>1, <2>2, FS_AddElement
  <2> QED
    BY <1>1, <1>2, <2>3 DEF MarkTaskGroupCompleted, CountInv
<1>4. In("ok") # Tasks
  BY <1>1 DEF In
<1>5. QueueInv' /\ CountInv'
  BY <1>2, <1>3 DEF QueueInv, CountInv, QueueEmptied, MarkTaskGroupCompleted
<1>6. ~Releasable /\ ~freeing
  <2>1. running \notin In("ok") /\ running \notin In("canceled")
    BY <1>1 DEF In
  <2>2. ASSUME Releasable PROVE In("ok") \cup In("canceled") = Tasks
    BY <2>2, Bounds DEF Releasable, ReleaseInv, CountInv,
       sync_all_tasks_accounted_locked
  <2> QED
    BY <1>1, <2>1, <2>2 DEF ReleaseInv
<1>7. /\ freeing' <=> Releasable'
      /\ wpc' = IF Releasable' THEN "free" ELSE "idle"
  BY <1>6 DEF MarkTaskGroupCompleted, WorkerClaims, ClaimIfReleasable, Claimed
<1>8. TypeOK'
  <2>1. task' \in [Tasks -> TaskStates]
    BY <1>1 DEF MarkTaskGroupCompleted, TypeOK, TaskStates
  <2>2. /\ request_canceled' \in BOOLEAN /\ request_completed' \in BOOLEAN
        /\ freeing' \in BOOLEAN /\ signalled' \in BOOLEAN
    BY Zenon DEF MarkTaskGroupCompleted, TypeOK, WorkerClaims,
                 ClaimIfReleasable, SignalIf
  <2>3. /\ completed_tasks' \in 0 .. total_tasks
        /\ canceled_tasks' \in 0 .. total_tasks - completed_tasks'
    <3>1. /\ Cardinality(In("ok")') \in 0 .. total_tasks
          /\ Cardinality(In("ok")') + Cardinality(In("canceled")') <= total_tasks
          /\ Cardinality(In("canceled")') \in 0 .. total_tasks
      <4>1. /\ In("ok")' \in SUBSET Tasks /\ In("canceled")' \in SUBSET Tasks
            /\ In("ok")' \cap In("canceled")' = {}
        BY DEF In
      <4> QED
        BY <4>1, TwoParts
    <3> QED
      BY <3>1, <1>2, <1>3, <1>5, Bounds
         DEF CountInv, QueueEmptied, MarkTaskGroupCompleted, TypeOK
  <2> QED
    BY <1>2, <1>7, <2>1, <2>2, <2>3 DEF MarkTaskGroupCompleted, TypeOK
<1>9. WorkerInv'
  BY <1>1, <1>7, TasksAssumption DEF WorkerInv, MarkTaskGroupCompleted, TypeOK
<1>10. ReleaseInv'
  <2>1. opc # "free" /\ mem # "freed"
    BY <1>6 DEF ReleaseInv
  <2>2. sync_all_tasks_accounted_locked' => request_completed'
    BY Zenon DEF MarkTaskGroupCompleted
  <2> QED
    BY <1>7, <2>1, <2>2 DEF ReleaseInv, MarkTaskGroupCompleted
<1>11. OutcomeInv' /\ SuccessMeansAllRan'
  BY <1>4 DEF OutcomeInv, SuccessMeansAllRan, MarkTaskGroupCompleted
<1>12. StatusTellsFailure'
  BY <1>1, <1>2, <1>7 DEF StatusTellsFailure, MarkTaskGroupCompleted
<1> QED
  BY <1>5, <1>8, <1>9, <1>10, <1>11, <1>12

(* A cancellation by a stranger touches neither counter.                   *)
LEMMA CancelByOtherIInv == IInv /\ CancelByOther => IInv'
<1> SUFFICES ASSUME IInv, CancelByOther PROVE IInv'
  OBVIOUS
<1> USE DEF IInv
<1>1. /\ In("ok")' = In("ok") /\ In("failed")' = In("failed")
      /\ In("canceled")' = In("canceled") /\ In("queued")' = {}
      /\ total_tasks' = total_tasks
  BY DEF In, CancelByOther, total_tasks
<1>2. TypeOK'
  <2>1. task' \in [Tasks -> TaskStates]
    BY DEF CancelByOther, TypeOK, TaskStates
  <2> QED
    BY <1>1, <2>1 DEF CancelByOther, TypeOK, syncVars, workerVars, ownerVars
<1>3. WorkerInv'
  BY DEF WorkerInv, CancelByOther, TypeOK, workerVars
<1>4. QueueInv' /\ CountInv'
  BY <1>1 DEF QueueInv, CountInv, QueueEmptied, CancelByOther, syncVars, ownerVars
<1>5. ReleaseInv'
  BY <1>1 DEF ReleaseInv, Releasable, sync_all_tasks_accounted_locked,
              CancelByOther, syncVars, workerVars, ownerVars
<1>6. OutcomeInv' /\ SuccessMeansAllRan'
  BY <1>1 DEF OutcomeInv, SuccessMeansAllRan, CancelByOther, ownerVars
<1>7. StatusTellsFailure'
  BY <1>1 DEF StatusTellsFailure, CancelByOther, syncVars, workerVars
<1> QED
  BY <1>2, <1>3, <1>4, <1>5, <1>6, <1>7

-----------------------------------------------------------------------------
(* Every step keeps the invariant.                                         *)
LEMMA NextIInv == IInv /\ [Next]_vars => IInv'
<1> SUFFICES ASSUME IInv, [Next]_vars PROVE IInv'
  OBVIOUS
<1>1. CASE Post
  BY <1>1, PostOkIInv, PostFailIInv DEF Post
<1>2. CASE OwnerStep
  BY <1>2, EndRequestIInv, WaitCheckIInv, WaitWakeIInv, CancelQueuedIInv,
     AddCanceledTasksIInv, RequestReleaseIInv, OwnerFreeIInv DEF OwnerStep
<1>3. CASE WaitSpurious \/ WaitTimeout
  BY <1>3, WaitSpuriousIInv, WaitTimeoutIInv
<1>4. CASE \E t \in Tasks : StartTask(t)
  BY <1>4, StartTaskIInv
<1>5. CASE WorkerStep
  BY <1>5, ExecuteOkIInv, ExecuteFailIInv, UpdateUrmaStatusIInv,
     MarkTaskGroupCompletedIInv, WorkerFreeIInv DEF WorkerStep
<1>6. CASE CancelByOther
  BY <1>6, CancelByOtherIInv
<1>7. CASE UNCHANGED vars
  BY <1>7, SameTasks
     DEF vars, syncVars, workerVars, ownerVars, IInv, TypeOK, WorkerInv,
         QueueInv, QueueEmptied, CountInv, ReleaseInv, Releasable,
         sync_all_tasks_accounted_locked, OutcomeInv, SuccessMeansAllRan,
         StatusTellsFailure
<1> QED
  BY <1>1, <1>2, <1>3, <1>4, <1>5, <1>6, <1>7 DEF Next, Terminating

(* The counters count, one thread frees, the locals tell the truth.        *)
THEOREM Invariant == Spec => []IInv
<1>1. Init => IInv
  BY InitIInv
<1>2. IInv /\ [Next]_vars => IInv'
  BY NextIInv
<1> QED
  BY <1>1, <1>2, PTL DEF Spec

(* The fields of task_sync_t keep their types, and no more tasks are       *)
(* completed and canceled together than the group has.                     *)
THEOREM TypeCorrect == Spec => []TypeOK
<1>1. IInv => TypeOK
  BY DEF IInv
<1> QED
  BY <1>1, Invariant, PTL

(* A call that returns OK means that every task ran and succeeded.         *)
THEOREM SuccessIsTotal == Spec => []SuccessMeansAllRan
<1>1. IInv => SuccessMeansAllRan
  BY DEF IInv
<1> QED
  BY <1>1, Invariant, PTL

(* The urma status of a send request is set exactly when a task failed.    *)
THEOREM StatusIsTrue == Spec => []StatusTellsFailure
<1>1. IInv => StatusTellsFailure
  BY DEF IInv
<1> QED
  BY <1>1, Invariant, PTL

(* When the sync is claimed, the ending call is on its way out and every   *)
(* task has ended.                                                         *)
LEMMA FreeingIsLast ==
    IInv /\ freeing =>
        /\ opc \in {"free", "done"}
        /\ In("ok") \cup In("canceled") = Tasks
        /\ In("queued") = {} /\ In("running") = {} /\ running = NoTask
<1> SUFFICES ASSUME IInv, freeing
             PROVE  /\ opc \in {"free", "done"}
                    /\ In("ok") \cup In("canceled") = Tasks
                    /\ In("queued") = {} /\ In("running") = {}
                    /\ running = NoTask
  OBVIOUS
<1>1. Releasable /\ opc \in {"free", "done"}
  BY DEF IInv, ReleaseInv, Releasable
<1>2. In("ok") \cup In("canceled") = Tasks
  BY <1>1, Bounds DEF Releasable, sync_all_tasks_accounted_locked, IInv, CountInv
<1>3. In("queued") = {} /\ In("running") = {}
  BY <1>2 DEF In
<1>4. running = NoTask
  BY <1>3 DEF In, IInv, WorkerInv, TypeOK
<1> QED
  BY <1>1, <1>2, <1>3, <1>4

(* Nobody uses the sync, or what it owns, once it has been freed.          *)
THEOREM FreedByTheLast == Spec => []NoUseAfterFree
<1>1. IInv => NoUseAfterFree
  <2> SUFFICES ASSUME IInv, mem = "freed"
               PROVE  /\ In("queued") = {} /\ running = NoTask
                      /\ wpc = "idle" /\ opc = "done"
    BY DEF NoUseAfterFree
  <2>1. freeing /\ opc # "free" /\ wpc # "free"
    BY DEF IInv, ReleaseInv
  <2> QED
    BY <2>1, FreeingIsLast DEF IInv, WorkerInv, TypeOK
<1> QED
  BY <1>1, Invariant, PTL

(* A call that returns without a failure and without a stranger's          *)
(* cancellation leaves the sync freed, or to somebody who will free it.    *)
THEOREM ReleasedUnlessExcused == Spec => []ReleasedOrExcused
<1>1. IInv => ReleasedOrExcused
  <2> SUFFICES ASSUME IInv, opc = "done", running = NoTask,
                      In("failed") = {}, In("dropped") = {}
               PROVE  mem = "freed" \/ wpc = "free"
    BY DEF ReleasedOrExcused
  <2>1. In("queued") = {} /\ In("running") = {}
    BY TasksAssumption DEF In, IInv, QueueInv, QueueEmptied, WorkerInv
  <2>2. In("ok") \cup In("canceled") = Tasks
    BY <2>1 DEF In, IInv, TypeOK, TaskStates
  <2>3. Releasable
    BY <2>2, Bounds DEF Releasable, sync_all_tasks_accounted_locked, IInv,
       CountInv, ReleaseInv
  <2> QED
    BY <2>3 DEF IInv, ReleaseInv
<1> QED
  BY <1>1, Invariant, PTL

-----------------------------------------------------------------------------
(* The refinement.  The promise sees four things of a request: the tasks   *)
(* that may still execute, those that succeeded, the outcome, and whether  *)
(* the memory is held.                                                     *)
Open == In("queued") \cup In("running")

LEMMA InitPromise == Init => Promise!Init
<1> SUFFICES ASSUME Init PROVE Promise!Init
  OBVIOUS
<1>1. In("queued") = Tasks /\ In("running") = {} /\ In("ok") = {}
  BY DEF Init, In
<1> QED
  BY <1>1 DEF Init, Promise!Init

(* Steps that the promise does not see.                                    *)
LEMMA Unseen ==
    UNCHANGED <<Open, In("ok"), result, mem>> => UNCHANGED Promise!vars
BY DEF Promise!vars, Open

LEMMA UnseenTask ==
    UNCHANGED <<task, result, mem>> => UNCHANGED Promise!vars
<1> SUFFICES ASSUME UNCHANGED <<task, result, mem>> PROVE UNCHANGED Promise!vars
  OBVIOUS
<1>1. UNCHANGED <<Open, In("ok")>>
  BY DEF Open, In
<1> QED
  BY <1>1, Unseen

(* A cancellation, whoever makes it, drops all open tasks but the one that *)
(* is running.                                                             *)
LEMMA CancelDrops ==
    ASSUME IInv, mem = "live", UNCHANGED <<result, mem>>,
           In("queued")' = {}, In("running")' = In("running"),
           In("ok")' = In("ok")
    PROVE  Promise!Drop \/ UNCHANGED Promise!vars
<1>1. In("running") = {} \/ In("running") = {running}
  BY DEF In, IInv, WorkerInv
<1>2. CASE Open = {}
  <2>1. Open' = Open
    BY <1>2 DEF Open
  <2> QED
    BY <2>1, Unseen
<1>3. CASE Open # {}
  BY <1>1, <1>3 DEF Promise!Drop, Open
<1> QED
  BY <1>2, <1>3

(* A task that ends is an open task, and its memory is still held.         *)
LEMMA MarkFinishes ==
    IInv /\ MarkTaskGroupCompleted => \E t \in Tasks : Promise!Finish(t)
<1> SUFFICES ASSUME IInv, MarkTaskGroupCompleted PROVE Promise!Finish(running)
                                                    /\ running \in Tasks
  OBVIOUS
<1>1. running \in Tasks /\ task[running] = "running"
  BY DEF MarkTaskGroupCompleted, IInv, WorkerInv, TypeOK
<1>2. In("running") = {running}
  BY <1>1 DEF In, IInv, WorkerInv
<1>3. /\ In("ok")' \in {In("ok"), In("ok") \cup {running}}
      /\ In("queued")' = In("queued") /\ In("running")' = {}
  BY <1>1 DEF In, MarkTaskGroupCompleted, IInv, WorkerInv, TypeOK
<1>4. running \notin In("queued")
  BY <1>1 DEF In
<1>5. mem = "live"
  <2>1. ~freeing
    BY <1>1, FreeingIsLast, TasksAssumption
  <2> QED
    BY <2>1 DEF IInv, ReleaseInv, TypeOK
<1>6. result' = result /\ mem' = mem
  BY DEF MarkTaskGroupCompleted
<1> QED
  BY <1>1, <1>2, <1>3, <1>4, <1>5, <1>6 DEF Promise!Finish

(* The outcome is decided once, while the memory is held.                  *)
LEMMA ReleaseDecides ==
    IInv /\ RequestRelease => \E o \in Promise!Outcomes : Promise!Decide(o)
<1> SUFFICES ASSUME IInv, RequestRelease
             PROVE  result' \in Promise!Outcomes /\ Promise!Decide(result')
  OBVIOUS
<1>1. UNCHANGED <<Open, In("ok"), mem>>
  BY DEF RequestRelease, Open, In
<1>2. result = "PENDING" /\ mem = "live"
  BY DEF IInv, OutcomeInv, ReleaseInv, Releasable, RequestRelease, TypeOK
<1>3. result' \in Promise!Outcomes
  BY DEF RequestRelease, Promise!Outcomes, IInv, TypeOK
<1>4. result' = "OK" => In("ok") = Tasks
  BY DEF IInv, OutcomeInv, RequestRelease
<1> QED
  BY <1>1, <1>2, <1>3, <1>4 DEF Promise!Decide, Open

(* Whichever thread frees, the outcome is known and no task is open.       *)
LEMMA FreeReleases == IInv /\ (OwnerFree \/ WorkerFree) => Promise!Release
<1> SUFFICES ASSUME IInv, OwnerFree \/ WorkerFree PROVE Promise!Release
  OBVIOUS
<1>1. UNCHANGED <<Open, In("ok"), result>> /\ mem' = "freed"
  BY DEF OwnerFree, WorkerFree, Open, In, ownerVars
<1>2. freeing /\ mem = "live"
  BY DEF IInv, ReleaseInv, OwnerFree, WorkerFree, TypeOK
<1>3. Open = {} /\ result # "PENDING"
  BY <1>2, FreeingIsLast DEF Open, IInv, OutcomeInv
<1> QED
  BY <1>1, <1>2, <1>3 DEF Promise!Release, Open

LEMMA NextPromise == IInv /\ [Next]_vars => [Promise!Next]_(Promise!vars)
<1> SUFFICES ASSUME IInv, [Next]_vars PROVE [Promise!Next]_(Promise!vars)
  OBVIOUS
<1>1. CASE \/ Post \/ EndRequest \/ WaitCheck \/ WaitWake
           \/ WaitSpurious \/ WaitTimeout \/ ExecuteOk \/ ExecuteFail
           \/ UpdateUrmaStatus \/ Terminating \/ UNCHANGED vars
  <2>1. UNCHANGED <<task, result, mem>>
    BY <1>1 DEF Post, PostOk, PostFail, EndRequest, WaitCheck, WaitWake,
       WaitSpurious, WaitTimeout, ExecuteOk, ExecuteFail, UpdateUrmaStatus,
       Terminating, vars, ownerVars
  <2> QED
    BY <2>1, UnseenTask
<1>2. CASE AddCanceledTasks
  <2>1. ~Releasable'
    BY <1>2 DEF AddCanceledTasks, IInv, ReleaseInv, Releasable
  <2>2. UNCHANGED <<task, result, mem>>
    BY <1>2, <2>1 DEF AddCanceledTasks, Claimed
  <2> QED
    BY <2>2, UnseenTask
<1>3. CASE CancelQueued
  <2>1. mem = "live"
    BY <1>3 DEF CancelQueued, IInv, ReleaseInv, Releasable, TypeOK
  <2>2. /\ In("queued")' = {} /\ In("running")' = In("running")
        /\ In("ok")' = In("ok") /\ UNCHANGED <<result, mem>>
    BY <1>3 DEF CancelQueued, In
  <2> QED
    BY <2>1, <2>2, CancelDrops DEF Promise!Next
<1>4. CASE CancelByOther
  <2>1. mem = "live"
    BY <1>4, FreeingIsLast DEF CancelByOther, IInv, ReleaseInv, TypeOK
  <2>2. /\ In("queued")' = {} /\ In("running")' = In("running")
        /\ In("ok")' = In("ok") /\ UNCHANGED <<result, mem>>
    BY <1>4 DEF CancelByOther, In, ownerVars
  <2> QED
    BY <2>1, <2>2, CancelDrops DEF Promise!Next
<1>5. ASSUME NEW t \in Tasks, StartTask(t) PROVE UNCHANGED Promise!vars
  <2>1. UNCHANGED <<Open, In("ok"), result, mem>>
    BY <1>5 DEF StartTask, Open, In, IInv, TypeOK, ownerVars
  <2> QED
    BY <2>1, Unseen
<1>6. CASE MarkTaskGroupCompleted
  BY <1>6, MarkFinishes DEF Promise!Next
<1>7. CASE RequestRelease
  BY <1>7, ReleaseDecides DEF Promise!Next
<1>8. CASE OwnerFree \/ WorkerFree
  BY <1>8, FreeReleases DEF Promise!Next
<1> QED
  BY <1>1, <1>2, <1>3, <1>4, <1>5, <1>6, <1>7, <1>8
     DEF Next, OwnerStep, WorkerStep

(* What one sync does is what the caller of one request was promised.      *)
THEOREM Refinement == Spec => KeepsPromise
<1>1. Init => Promise!Init
  BY InitPromise
<1>2. IInv /\ [Next]_vars => [Promise!Next]_(Promise!vars)
  BY NextPromise
<1> QED
  BY <1>1, <1>2, Invariant, PTL DEF Spec, KeepsPromise, Promise!Spec

=============================================================================
