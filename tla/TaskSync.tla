------------------------------ MODULE TaskSync ------------------------------
(***************************************************************************)
(* The life of one task_sync_t (src/src/os_transport.c): the object that a *)
(* request's caller waits on, that the worker running the request's tasks  *)
(* counts into, and that whichever of the two comes last frees.            *)
(*                                                                         *)
(* Each action is one critical section of sync->mutex, or one piece of     *)
(* code between two of them.  The thread pool appears only through what it *)
(* promises for a request identifier in use once: every task of the        *)
(* request sits in one worker's queue, that worker runs at most one of     *)
(* them at a time, and a cancellation removes all that still wait.  Module *)
(* ThreadPool models the pool itself.                                      *)
(*                                                                         *)
(* The owner is the thread that issued the request and ends it with one of *)
(* wait_and_free_sync, wait_and_free_sync_timeout, os_transport_cancel_tasks*)
(***************************************************************************)
EXTENDS Integers, FiniteSets

CONSTANTS
    Tasks,          \* the tasks of the request's group
    NoTask,         \* no task: the worker runs nothing of this request
    Kinds,          \* which of "send", "recv" the request may be
    Calls,          \* which of "wait", "timed", "cancel" may end it
    TaskMayFail,    \* an URMA call or the notify callback may fail
    PostMayFail,    \* posting chunk 0, or filling the receive queue, may fail
    ForeignCancel   \* another thread calls os_transport_cancel_tasks(_, NULL, id)

ASSUME TasksAssumption == IsFiniteSet(Tasks) /\ Tasks # {} /\ NoTask \notin Tasks
ASSUME KindsAssumption == Kinds \subseteq {"send", "recv"}
ASSUME CallsAssumption == Calls \subseteq {"wait", "timed", "cancel"}
ASSUME SwitchAssumption ==
    TaskMayFail \in BOOLEAN /\ PostMayFail \in BOOLEAN /\ ForeignCancel \in BOOLEAN

VARIABLES
    \* the fields of task_sync_t
    request_completed, request_canceled, request_timedout,
    release_requested, freeing, completed_tasks, canceled_tasks, urma_status,
    mem,            \* is the sync (with its task group and chunks) allocated?
    \* the request and its tasks
    kind, posted, task,
    \* the worker the request is bound to
    wpc, running, wok,
    \* the owner: position, call made, and that call's local variables
    opc, call, wait_ret, removed, signalled, result

syncVars   == <<request_completed, request_canceled, request_timedout,
                release_requested, freeing, completed_tasks, canceled_tasks,
                urma_status>>
workerVars == <<wpc, running, wok>>
ownerVars  == <<opc, call, wait_ret, removed, signalled, result>>
vars == <<syncVars, mem, kind, posted, task, workerVars, ownerVars>>

(* Where a task can be.  "dropped": removed by a cancellation that did not *)
(* tell the sync.                                                          *)
TaskStates == {"queued", "running", "ok", "failed", "canceled", "dropped"}
In(s) == {t \in Tasks : task[t] = s}

total_tasks == Cardinality(Tasks)

-----------------------------------------------------------------------------
(* Mutant: a task that is still running is taken for accounted.            *)
Accounted_OneShort == completed_tasks + canceled_tasks + 1 >= total_tasks

sync_all_tasks_accounted_locked ==
    total_tasks = 0 \/ completed_tasks + canceled_tasks >= total_tasks

(* The condition of sync_should_free_locked but for ~freeing, which is read *)
(* before the caller sets it.                                              *)
Releasable ==
    release_requested /\ request_completed /\ sync_all_tasks_accounted_locked

(* The tail shared by every critical section that may be the last: whoever *)
(* finds the sync releasable claims it, and frees it after the unlock.     *)
ClaimIfReleasable == freeing' = (freeing \/ Releasable')
Claimed == Releasable' /\ ~freeing

(* Mutant: the worker never looks whether it has become the one to free.   *)
WorkerClaims_Never == UNCHANGED freeing /\ wpc' = "idle"

WorkerClaims == ClaimIfReleasable /\ wpc' = IF Claimed THEN "free" ELSE "idle"

(* Mutant: nobody is signalled.                                            *)
SignalIf_Never(done) == signalled' = signalled

(* pthread_cond_signal, if done: only a thread inside cond_wait is woken.  *)
SignalIf(done) == signalled' = (signalled \/ (done /\ opc = "blocked"))

-----------------------------------------------------------------------------
(* register_tasks_and_bind_chunks has returned: tasks queued, sync zeroed. *)
Init ==
    /\ request_completed = FALSE /\ request_canceled = FALSE
    /\ request_timedout = FALSE /\ release_requested = FALSE
    /\ freeing = FALSE /\ completed_tasks = 0 /\ canceled_tasks = 0
    /\ urma_status = "SUCCESS" /\ mem = "live"
    /\ kind \in Kinds /\ posted = FALSE
    /\ task = [t \in Tasks |-> "queued"]
    /\ wpc = "idle" /\ running = NoTask /\ wok = TRUE
    /\ opc = "post" /\ call \in Calls /\ wait_ret = "OK"
    /\ removed = 0 /\ signalled = FALSE /\ result = "PENDING"

(* The rest of os_transport_send / os_transport_recv: chunk 0 is written,  *)
(* or the receive queue filled.                                            *)
PostOk ==
    /\ opc = "post"
    /\ posted' = TRUE
    /\ opc' = "hand"
    /\ UNCHANGED <<syncVars, mem, kind, task, workerVars, call, wait_ret,
                   removed, signalled, result>>

(* ... or that fails.  os_transport_send has already given the sync to its *)
(* caller; os_transport_recv returns without doing so, and the sync is lost.*)
PostFail ==
    /\ PostMayFail
    /\ opc = "post"
    /\ request_completed' = TRUE
    /\ SignalIf(TRUE)
    /\ opc' = IF kind = "send" THEN "hand" ELSE "lost"
    /\ UNCHANGED <<request_canceled, request_timedout, release_requested,
                   freeing, completed_tasks, canceled_tasks, urma_status, mem,
                   kind, posted, task, workerVars, call, wait_ret, removed,
                   result>>

-----------------------------------------------------------------------------
(* The owner.  It ends the request by waiting or by cancelling.            *)
EndRequest ==
    /\ opc = "hand"
    /\ opc' = IF call = "cancel" THEN "cancel" ELSE "check"
    /\ UNCHANGED <<syncVars, mem, kind, posted, task, workerVars, call,
                   wait_ret, removed, signalled, result>>

(* Mutant: success is judged by the counts alone.                          *)
WaitSucceeded_NoTotal == ~request_canceled /\ ~request_timedout

WaitSucceeded ==
    /\ completed_tasks = total_tasks
    /\ ~request_canceled
    /\ ~request_timedout

(* The loop head of wait_for_task_complete_common, under the lock.         *)
WaitCheck ==
    /\ opc = "check"
    /\ IF request_completed
         THEN /\ wait_ret' = IF WaitSucceeded THEN "OK" ELSE "ERROR"
              /\ opc' = IF WaitSucceeded THEN "release" ELSE "cancel"
         ELSE opc' = "blocked" /\ UNCHANGED wait_ret
    /\ UNCHANGED <<syncVars, mem, kind, posted, task, workerVars, call,
                   removed, signalled, result>>

(* pthread_cond_wait returns because it was signalled ...                  *)
WaitWake ==
    /\ opc = "blocked"
    /\ signalled
    /\ signalled' = FALSE
    /\ opc' = "check"
    /\ UNCHANGED <<syncVars, mem, kind, posted, task, workerVars, call,
                   wait_ret, removed, result>>

(* ... or for no reason, as POSIX allows.                                  *)
WaitSpurious ==
    /\ opc = "blocked"
    /\ ~signalled
    /\ opc' = "check"
    /\ UNCHANGED <<syncVars, mem, kind, posted, task, workerVars, call,
                   wait_ret, removed, signalled, result>>

(* pthread_cond_timedwait returns ETIMEDOUT.  It may do so after a signal  *)
(* has been sent: the code then does not look at request_completed again.  *)
WaitTimeout ==
    /\ opc = "blocked"
    /\ call = "timed"
    /\ request_timedout' = TRUE
    /\ wait_ret' = "TIMEOUT"
    /\ signalled' = FALSE
    /\ opc' = "cancel"
    /\ UNCHANGED <<request_completed, request_canceled, release_requested,
                   freeing, completed_tasks, canceled_tasks, urma_status, mem,
                   kind, posted, task, workerVars, call, removed, result>>

(* Mutant: the running task is counted with the removed ones.              *)
RemovedCount_WithRunning == Cardinality(In("queued") \cup In("running"))

RemovedCount == Cardinality(In("queued"))

(* thread_pool_cancel_tasks_by_req: every task still in the queue goes.    *)
CancelQueued ==
    /\ opc = "cancel"
    /\ task' = [t \in Tasks |-> IF task[t] = "queued" THEN "canceled" ELSE task[t]]
    /\ removed' = RemovedCount
    /\ opc' = "add"
    /\ UNCHANGED <<syncVars, mem, kind, posted, workerVars, call, wait_ret,
                   signalled, result>>

Least(a, b) == IF a <= b THEN a ELSE b

(* Mutant: the removed tasks are not credited to the sync.                 *)
CanceledTasksAfterAdd_NoCredit == canceled_tasks

CanceledTasksAfterAdd ==
    LET remain == total_tasks - (completed_tasks + canceled_tasks)
    IN  IF remain > 0 THEN canceled_tasks + Least(removed, remain)
                      ELSE canceled_tasks

(* task_sync_add_canceled_tasks.  Were the sync to be claimed here, it     *)
(* would be freed and then locked again by the caller's next statement.    *)
AddCanceledTasks ==
    /\ opc = "add"
    /\ request_canceled' = TRUE
    /\ request_timedout' = (request_timedout \/ wait_ret = "TIMEOUT")
    /\ canceled_tasks' = CanceledTasksAfterAdd
    /\ UNCHANGED <<completed_tasks, release_requested>>
    /\ request_completed' = (request_completed \/ sync_all_tasks_accounted_locked')
    /\ SignalIf(sync_all_tasks_accounted_locked')
    /\ ClaimIfReleasable
    /\ mem' = IF Claimed THEN "freed" ELSE mem
    /\ opc' = "release"
    /\ UNCHANGED <<urma_status, kind, posted, task, workerVars, call,
                   wait_ret, removed, result>>

(* The last critical section of wait_and_free_sync_common and of           *)
(* os_transport_cancel_tasks.                                              *)
RequestRelease ==
    /\ opc = "release"
    /\ release_requested' = TRUE
    /\ UNCHANGED <<request_completed, completed_tasks, canceled_tasks>>
    /\ ClaimIfReleasable
    /\ opc' = IF Claimed THEN "free" ELSE "done"
    /\ result' = CASE call = "cancel" -> "CANCELED"
                   [] call # "cancel" /\ urma_status # "SUCCESS" -> "ERROR"
                   [] OTHER -> wait_ret
    /\ UNCHANGED <<request_canceled, request_timedout, urma_status, mem, kind,
                   posted, task, workerVars, call, wait_ret, removed, signalled>>

(* free_sync_owned_resources, by the owner.                                *)
OwnerFree ==
    /\ opc = "free"
    /\ mem' = "freed"
    /\ opc' = "done"
    /\ UNCHANGED <<syncVars, kind, posted, task, workerVars, call, wait_ret,
                   removed, signalled, result>>

-----------------------------------------------------------------------------
(* The worker.  A completion makes it take a task of the request.  Nothing *)
(* completes on the send side before chunk 0 has been written.             *)
StartTask(t) ==
    /\ wpc = "idle"
    /\ task[t] = "queued"
    /\ kind = "send" => posted
    /\ task' = [task EXCEPT ![t] = "running"]
    /\ running' = t
    /\ wpc' = "exec"
    /\ UNCHANGED <<syncVars, mem, kind, posted, wok, ownerVars>>

(* do_send_chunk_for_worker or the notify callback.                        *)
ExecuteOk ==
    /\ wpc = "exec"
    /\ wok' = TRUE
    /\ wpc' = "mark"
    /\ UNCHANGED <<syncVars, mem, kind, posted, task, running, ownerVars>>

(* Mutant: the group is marked without the status, and a waiter can slip in.*)
AfterFailure_Mark == "mark"

AfterFailure == IF kind = "send" THEN "status" ELSE "mark"

ExecuteFail ==
    /\ TaskMayFail
    /\ wpc = "exec"
    /\ wok' = FALSE
    /\ wpc' = AfterFailure
    /\ UNCHANGED <<syncVars, mem, kind, posted, task, running, ownerVars>>

(* update_urma_status: send tasks only, and the first failure is kept.     *)
UpdateUrmaStatus ==
    /\ wpc = "status"
    /\ urma_status' = "FAILED"
    /\ wpc' = "mark"
    /\ UNCHANGED <<request_completed, request_canceled, request_timedout,
                   release_requested, freeing, completed_tasks, canceled_tasks,
                   mem, kind, posted, task, running, wok, ownerVars>>

(* mark_task_group_completed.  A failed task completes the request at once *)
(* but is counted neither as completed nor as canceled.                    *)
MarkTaskGroupCompleted ==
    /\ wpc = "mark"
    /\ task' = [task EXCEPT ![running] = IF wok THEN "ok" ELSE "failed"]
    /\ running' = NoTask
    /\ completed_tasks' = IF wok THEN completed_tasks + 1 ELSE completed_tasks
    /\ UNCHANGED <<canceled_tasks, release_requested>>
    /\ request_canceled' = (request_canceled \/ ~wok)
    /\ request_completed' =
         (request_completed \/ ~wok \/ sync_all_tasks_accounted_locked')
    /\ SignalIf(~wok \/ sync_all_tasks_accounted_locked')
    /\ WorkerClaims
    /\ UNCHANGED <<request_timedout, urma_status, mem, kind, posted, wok, opc,
                   call, wait_ret, removed, result>>

(* free_sync_owned_resources, by the worker.                               *)
WorkerFree ==
    /\ wpc = "free"
    /\ mem' = "freed"
    /\ wpc' = "idle"
    /\ UNCHANGED <<syncVars, kind, posted, task, running, wok, ownerVars>>

(* os_transport_cancel_tasks(handle, NULL, request_id) by another thread:  *)
(* the queue is emptied and no sync hears of it.                           *)
CancelByOther ==
    /\ ForeignCancel
    /\ In("queued") # {}
    /\ task' = [t \in Tasks |-> IF task[t] = "queued" THEN "dropped" ELSE task[t]]
    /\ UNCHANGED <<syncVars, mem, kind, posted, workerVars, ownerVars>>

(* The request is over and the worker has no more of it.                   *)
Terminating ==
    /\ opc \in {"done", "lost"}
    /\ wpc = "idle"
    /\ UNCHANGED vars

-----------------------------------------------------------------------------
Post == PostOk \/ PostFail

OwnerStep ==
    \/ EndRequest \/ WaitCheck \/ WaitWake \/ CancelQueued
    \/ AddCanceledTasks \/ RequestRelease \/ OwnerFree

WorkerStep ==
    \/ ExecuteOk \/ ExecuteFail \/ UpdateUrmaStatus
    \/ MarkTaskGroupCompleted \/ WorkerFree

Next ==
    \/ Post
    \/ OwnerStep
    \/ WaitSpurious
    \/ WaitTimeout
    \/ \E t \in Tasks : StartTask(t)
    \/ WorkerStep
    \/ CancelByOther
    \/ Terminating

Spec == Init /\ [][Next]_vars

(* Threads keep running, and nothing is assumed of completions, which need *)
(* not arrive (StartTask is not fair).  A deadline is an absolute time: it *)
(* passes, and from then on every return to the timed wait times out, so a *)
(* run of spurious wakeups cannot put it off forever (strong fairness).    *)
Fairness ==
    /\ WF_vars(Post)
    /\ WF_vars(OwnerStep)
    /\ SF_vars(WaitTimeout)
    /\ WF_vars(WorkerStep)

FairSpec == Spec /\ Fairness

-----------------------------------------------------------------------------
TypeOK ==
    /\ request_completed \in BOOLEAN /\ request_canceled \in BOOLEAN
    /\ request_timedout \in BOOLEAN /\ release_requested \in BOOLEAN
    /\ freeing \in BOOLEAN
    /\ completed_tasks \in 0 .. total_tasks
    /\ canceled_tasks \in 0 .. total_tasks - completed_tasks
    /\ urma_status \in {"SUCCESS", "FAILED"} /\ mem \in {"live", "freed"}
    /\ kind \in {"send", "recv"} /\ posted \in BOOLEAN
    /\ task \in [Tasks -> TaskStates]
    /\ wpc \in {"idle", "exec", "status", "mark", "free"}
    /\ running \in Tasks \cup {NoTask} /\ wok \in BOOLEAN
    /\ opc \in {"post", "hand", "check", "blocked", "cancel", "add", "release",
                "free", "done", "lost"}
    /\ call \in {"wait", "timed", "cancel"}
    /\ wait_ret \in {"OK", "ERROR", "TIMEOUT"} /\ removed \in 0 .. total_tasks
    /\ signalled \in BOOLEAN
    /\ result \in {"PENDING", "OK", "ERROR", "TIMEOUT", "CANCELED"}

(* Nobody reaches for the sync, or for the task arguments and chunks it    *)
(* owns, once one of the two threads has freed it -- and so nobody frees   *)
(* it twice.  (sync_should_free_locked, free_sync_owned_resources)         *)
NoUseAfterFree ==
    mem = "freed" =>
        /\ In("queued") = {} /\ running = NoTask
        /\ wpc = "idle"
        /\ opc = "done"

(* A call that returns OK means that every task of the request ran and     *)
(* succeeded, whatever cancellations, timeouts and failures raced with it. *)
(* (wait_for_task_complete_common, the computation of success)             *)
SuccessMeansAllRan == result = "OK" => In("ok") = Tasks

(* The urma status of a send request tells a task failure from a library   *)
(* error: it is set exactly when a task failed, and set before the failure *)
(* can end anybody's wait.  (update_urma_status before                     *)
(* mark_task_group_completed; the comment in os_transport.h)               *)
StatusTellsFailure ==
    kind = "send" =>
        ((urma_status # "SUCCESS") <=>
            \/ In("failed") # {}
            \/ wpc = "mark" /\ ~wok)

(* When the ending call has returned, the resources are freed, or the task *)
(* still running is going to free them, or a task failed, or somebody      *)
(* cancelled behind the owner's back: nothing else leaks the sync.         *)
(* (the release protocol between RequestRelease and the last task)         *)
ReleasedOrExcused ==
    opc = "done" =>
        \/ mem = "freed" \/ running # NoTask \/ wpc = "free"
        \/ In("failed") # {} \/ In("dropped") # {}

(* The header's promise without the excuses: on return the resources are   *)
(* released, or a running task is left that releases them.                 *)
ReleasedOnReturn ==
    opc = "done" => mem = "freed" \/ running # NoTask \/ wpc = "free"

(* A waiter is never left asleep: once the request is completed, or at the *)
(* deadline of a timed wait, the call returns.                             *)
(* (pthread_cond_signal in every section that sets request_completed)      *)
WaitReturns ==
    (opc \in {"check", "blocked"} /\ (call = "timed" \/ request_completed))
        ~> opc = "done"

(* A returned request gives its memory back in the end, by whichever       *)
(* thread is last, unless a task failed or was cancelled by a stranger.    *)
EventuallyFreed ==
    opc = "done" ~> (mem = "freed" \/ In("failed") # {} \/ In("dropped") # {})

(* README, section 1: on failure the remaining tasks are cancelled.  After *)
(* a failed os_transport_recv no task of the request stays queued.         *)
FailedRecvCancels == opc = "lost" ~> In("queued") = {}

-----------------------------------------------------------------------------
(* What the caller was promised, and how this module keeps it.             *)
Promise == INSTANCE RequestPromise WITH
    open    <- In("queued") \cup In("running"),
    good    <- In("ok"),
    outcome <- result,
    held    <- mem = "live"

KeepsPromise == Promise!Spec
=============================================================================
