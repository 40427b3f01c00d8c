----------------------------- MODULE ThreadPool -----------------------------
(***************************************************************************)
(* The thread pool of src/src/os_transport_thread_pool.c.                  *)
(*                                                                         *)
(* A batch of tasks that share a request identifier is appended to the     *)
(* queue of one worker, and a request context records which one.  Tasks do *)
(* not run because they are queued: a completion looks the context up,     *)
(* appends a wakeup to that worker's pending list and signals it; the      *)
(* worker then takes the first queued task the wakeup matches.             *)
(*                                                                         *)
(* The pool has no lock over all of this.  req_hash_mutex guards the       *)
(* contexts, each worker's mutex its queue and pending list, and every     *)
(* operation takes them one after the other, letting go in between.  Each  *)
(* action below is one such critical section; the variables sel, target,   *)
(* removed, ptok and pworker are the locals carried from one to the next.  *)
(***************************************************************************)
EXTENDS Integers, Sequences, FiniteSets, SequencesExt

CONSTANTS
    NWorkers,       \* worker_count
    Requests,       \* request identifiers; each has one owning thread
    Keyed,          \* those whose tasks have has_match_user_ctx set (receive side)
    BatchSize,      \* tasks of a batch
    MaxBatches,     \* how many batches an owner submits under its identifier
    WaitsFor,       \* what an owner waits for before it uses its identifier again
    MayCancel,      \* may owners give up waiting and cancel?
    MayDestroy,     \* may the pool be destroyed?
    MayFailToCreate, \* may pthread_create fail?
    NoTask          \* what an idle worker holds

ASSUME WorkersAssumption == NWorkers \in Nat \ {0}
ASSUME BatchAssumption == BatchSize \in Nat \ {0} /\ MaxBatches \in Nat \ {0}
ASSUME KeyedAssumption == Keyed \subseteq Requests /\ IsFiniteSet(Requests)
ASSUME SwitchAssumption ==
    /\ WaitsFor \in {"return", "context", "everything"}
    /\ MayCancel \in BOOLEAN /\ MayDestroy \in BOOLEAN /\ MayFailToCreate \in BOOLEAN

Workers == 0 .. NWorkers - 1

(* A task, and the completion that is sent for it: the idx-th of batch gen *)
(* of request req.  The code sees req, and idx in the immediate data; gen  *)
(* tells two uses of one identifier apart and is never looked at.          *)
Task == [req : Requests, gen : 1 .. MaxBatches, idx : 1 .. BatchSize]

ASSUME NoTaskAssumption == NoTask \notin Task

(* RequestContext: no context is worker -1.                                *)
NoCtx == [worker |-> -1, pending |-> 0, batch |-> 0]

VARIABLES
    queue, pend,            \* per worker: queued tasks, pending wakeups
    wpc, state, signalled,  \* per worker: position, WorkerState, condvar
    cur, tok,               \* per worker: the task it took, the wakeup it took it for
    ctx,                    \* per request: its RequestContext
    opc, gen, sel, target, removed,  \* per owner: position, batch, locals
    due, ppc, ptok, pworker,         \* completions under way, the poller
    dpc, di, is_destroying,          \* thread_pool_init and thread_pool_destroy
    ran, canceled, freed,   \* what became of tasks
    notified                \* per request: how often batch_cb was called, by batch

workerVars == <<queue, pend, wpc, state, signalled, cur, tok>>
ownerVars  == <<opc, gen, sel, target, removed>>
pollVars   == <<due, ppc, ptok, pworker>>
destroyVars == <<dpc, di, is_destroying>>
fateVars   == <<ran, canceled, freed, notified>>
vars == <<workerVars, ctx, ownerVars, pollVars, destroyVars, fateVars>>

Batch(r) == [i \in 1 .. BatchSize |-> [req |-> r, gen |-> gen[r], idx |-> i]]
BatchTasks(r) == {Batch(r)[i] : i \in 1 .. BatchSize}

(* A worker that is between two iterations of its loop keeps its mutex.    *)
Unlocked(w) == wpc[w] # "hold"

(* Mutant: a worker is not signalled.                                      *)
Signal_Never(w) == signalled' = signalled

(* pthread_cond_signal: only a worker inside cond_wait is woken.           *)
Signal(w) == signalled' = [signalled EXCEPT ![w] = @ \/ wpc[w] = "wait"]

(* The callers keep the one rule of every C handle: no call is made on the *)
(* pool before os_transport_init has returned it, none is in progress when *)
(* it is destroyed, and none is made afterwards.                           *)
PoolInUse == dpc = "no"

NoScan == [i |-> 0, best |-> -1, load |-> 0, bias |-> 0]

Init ==
    /\ queue = [w \in Workers |-> <<>>] /\ pend = [w \in Workers |-> <<>>]
    /\ wpc = [w \in Workers |-> "none"] /\ state = [w \in Workers |-> "INIT"]
    /\ signalled = [w \in Workers |-> FALSE]
    /\ cur = [w \in Workers |-> NoTask] /\ tok = [w \in Workers |-> NoTask]
    /\ ctx = [r \in Requests |-> NoCtx]
    /\ opc = [r \in Requests |-> "idle"] /\ gen = [r \in Requests |-> 0]
    /\ sel = [r \in Requests |-> NoScan]
    /\ target = [r \in Requests |-> 0] /\ removed = [r \in Requests |-> 0]
    /\ due = {} /\ ppc = "idle" /\ ptok = NoTask /\ pworker = 0
    /\ dpc = "create" /\ di = 0 /\ is_destroying = FALSE
    /\ ran = {} /\ canceled = {} /\ freed = {}
    /\ notified = [r \in Requests |-> [g \in 1 .. MaxBatches |-> 0]]

-----------------------------------------------------------------------------
(* thread_pool_init.  create_worker starts a thread while it holds that    *)
(* worker's mutex, which it gives up only to wait on the condition the     *)
(* worker will sleep on, too, until the worker has left WORKER_STATE_INIT. *)
CreateWorker ==
    /\ dpc = "create"
    /\ wpc' = [wpc EXCEPT ![di] = "born"]
    /\ dpc' = "handshake"
    /\ UNCHANGED <<queue, pend, state, signalled, cur, tok, ctx, ownerVars,
                   pollVars, di, is_destroying, fateVars>>

(* pthread_create fails: thread_pool_destroy, on the workers there are.    *)
CreateWorkerFails ==
    /\ MayFailToCreate
    /\ dpc = "create"
    /\ is_destroying' = TRUE
    /\ dpc' = "signal" /\ di' = 0
    /\ UNCHANGED <<workerVars, ctx, ownerVars, pollVars, fateVars>>

(* Mutant: the worker does not tell that it is there.                      *)
AfterWorkerStart_Silent(w) == dpc

(* pthread_cond_signal, when the creator is inside pthread_cond_wait.      *)
AfterWorkerStart(w) == IF dpc = "handshake" /\ di = w THEN "woken" ELSE dpc

(* The head of worker_routine; the worker keeps its mutex.                 *)
WorkerStart(w) ==
    /\ wpc[w] = "born"
    /\ wpc' = [wpc EXCEPT ![w] = "hold"]
    /\ state' = [state EXCEPT ![w] = "IDLE"]
    /\ dpc' = AfterWorkerStart(w)
    /\ UNCHANGED <<queue, pend, signalled, cur, tok, ctx, ownerVars, pollVars,
                   di, is_destroying, fateVars>>

CreatorSpurious ==
    /\ dpc = "handshake"
    /\ dpc' = "woken"
    /\ UNCHANGED <<workerVars, ctx, ownerVars, pollVars, di, is_destroying, fateVars>>

(* The creator has its mutex back and looks at the state again.            *)
CreatorChecks ==
    /\ dpc = "woken"
    /\ Unlocked(di)
    /\ IF state[di] = "INIT"
         THEN dpc' = "handshake" /\ UNCHANGED di
         ELSE /\ di' = IF di + 1 = NWorkers THEN 0 ELSE di + 1
              /\ dpc' = IF di + 1 = NWorkers THEN "created" ELSE "create"
    /\ UNCHANGED <<workerVars, ctx, ownerVars, pollVars, is_destroying, fateVars>>

(* thread_pool_start, and os_transport_init returns the handle.            *)
ThreadPoolStart ==
    /\ dpc = "created"
    /\ dpc' = "no"
    /\ UNCHANGED <<workerVars, ctx, ownerVars, pollVars, di, is_destroying, fateVars>>

-----------------------------------------------------------------------------
(* thread_pool_submit_batch_tasks, by the owner of r.  A single task is a  *)
(* batch of one: thread_pool_submit_task takes the same two locks in the   *)
(* same order.  An owner uses its identifier again when its last call has  *)
(* returned; or it waits until the pool has removed the context, or until  *)
(* nothing of the last batch is under way.  No call tells it of either.    *)
Quiet(r) ==
    /\ ctx[r] = NoCtx
    /\ \A d \in due : d.req # r
    /\ ppc = "push" => ptok.req # r
    /\ \A w \in Workers : \A i \in DOMAIN pend[w] : pend[w][i].req # r

CarefulReuse == WaitsFor = "everything"

SubmitBegin(r) ==
    /\ PoolInUse
    /\ opc[r] = "idle"
    /\ gen[r] < MaxBatches
    /\ WaitsFor = "context" => ctx[r] = NoCtx
    /\ CarefulReuse => Quiet(r)
    /\ gen' = [gen EXCEPT ![r] = @ + 1]
    /\ opc' = [opc EXCEPT ![r] = "scan"]
    /\ sel' = [sel EXCEPT ![r] = NoScan]
    /\ UNCHANGED <<workerVars, ctx, target, removed, pollVars, destroyVars, fateVars>>

(* select_best_worker: the workers are looked at one by one, each under    *)
(* its own lock; a free one ends the search, else the least loaded wins.   *)
SelectBestWorker(r) ==
    LET w    == sel[r].i
        load == Len(queue[w]) + Len(pend[w])
        bias == IF state[w] = "BUSY" THEN 1 ELSE 0
        s    == sel[r]
        better == \/ s.best = -1
                  \/ load < s.load
                  \/ load = s.load /\ bias < s.bias
        best == IF better THEN w ELSE s.best
        free == load = 0 /\ bias = 0
    IN  /\ opc[r] = "scan"
        /\ Unlocked(w)
        /\ IF free \/ w + 1 = NWorkers
             THEN /\ target' = [target EXCEPT ![r] = IF free THEN w ELSE best]
                  /\ opc' = [opc EXCEPT ![r] = "attach"]
                  /\ sel' = [sel EXCEPT ![r] = NoScan]
             ELSE /\ sel' = [sel EXCEPT ![r] =
                               [i |-> w + 1, best |-> best,
                                load |-> IF better THEN load ELSE s.load,
                                bias |-> IF better THEN bias ELSE s.bias]]
                  /\ UNCHANGED <<target, opc>>
        /\ UNCHANGED <<workerVars, ctx, gen, removed, pollVars, destroyVars, fateVars>>

AttachNodes(r) ==
    /\ opc[r] = "attach"
    /\ Unlocked(target[r])
    /\ queue' = [queue EXCEPT ![target[r]] = @ \o Batch(r)]
    /\ opc' = [opc EXCEPT ![r] = "bind"]
    /\ UNCHANGED <<pend, wpc, state, signalled, cur, tok, ctx, gen, sel, target,
                   removed, pollVars, destroyVars, fateVars>>

(* Mutant: the context is made for one task, as in thread_pool_submit_task.*)
ContextAfterBind_One(r) ==
    IF ctx[r] # NoCtx THEN [ctx[r] EXCEPT !.pending = @ + BatchSize]
    ELSE [worker |-> target[r], pending |-> 1, batch |-> gen[r]]

(* Mutant: the batch is bound to the next worker.                          *)
ContextAfterBind_Other(r) ==
    [worker |-> (target[r] + 1) % NWorkers, pending |-> ctx[r].pending + BatchSize,
     batch |-> gen[r]]

(* A context that exists keeps its worker and its batch callback.          *)
ContextAfterBind(r) ==
    IF ctx[r] # NoCtx THEN [ctx[r] EXCEPT !.pending = @ + BatchSize]
    ELSE [worker |-> target[r], pending |-> BatchSize, batch |-> gen[r]]

(* update_batch_context.  The submission returns, and from now on the      *)
(* completions of the batch may come, in any order.                        *)
UpdateBatchContext(r) ==
    /\ opc[r] = "bind"
    /\ ctx' = [ctx EXCEPT ![r] = ContextAfterBind(r)]
    /\ opc' = [opc EXCEPT ![r] = "bound"]
    /\ due' = due \cup BatchTasks(r)
    /\ UNCHANGED <<workerVars, gen, sel, target, removed, ppc, ptok, pworker,
                   destroyVars, fateVars>>

(* The owner has waited for the whole batch, and its call returns.  The    *)
(* functions of the tasks have told it; the pool may not know yet.         *)
AllRan(r) ==
    /\ opc[r] = "bound"
    /\ BatchTasks(r) \subseteq ran
    /\ opc' = [opc EXCEPT ![r] = "idle"]
    /\ UNCHANGED <<workerVars, ctx, gen, sel, target, removed, pollVars,
                   destroyVars, fateVars>>

-----------------------------------------------------------------------------
(* thread_pool_cancel_tasks_by_req, by the owner that gives up.            *)
CancelFind(r) ==
    /\ PoolInUse
    /\ MayCancel
    /\ opc[r] = "bound"
    /\ IF ctx[r] = NoCtx
         THEN opc' = [opc EXCEPT ![r] = "idle"] /\ UNCHANGED target
         ELSE /\ target' = [target EXCEPT ![r] = ctx[r].worker]
              /\ opc' = [opc EXCEPT ![r] = "remove"]
    /\ UNCHANGED <<workerVars, ctx, gen, sel, removed, pollVars, destroyVars,
                   fateVars>>

(* The walk over a list that unlinks the nodes of r and keeps the others.  *)
OfRequest(q, r) == {i \in DOMAIN q : q[i].req = r}

NotOfRequest(q, r) ==
    LET kept[n \in 0 .. Len(q)] ==
          IF n = 0 THEN <<>>
          ELSE IF q[n].req = r THEN kept[n - 1] ELSE Append(kept[n - 1], q[n])
    IN  kept[Len(q)]

(* Mutant: the walk over the queue stops at the first task it removes.     *)
QueueAfterCancel_First(q, r) == RemoveFirstMatch(q, LAMBDA t : t.req = r)

QueueAfterCancel(q, r) == NotOfRequest(q, r)

RemovedBy(w, r) == Cardinality(OfRequest(queue[w], r))

CancelInWorkerQueue(r) ==
    LET w == target[r]
    IN  /\ opc[r] = "remove"
        /\ Unlocked(w)
        /\ queue' = [queue EXCEPT ![w] = QueueAfterCancel(@, r)]
        /\ pend' = [pend EXCEPT ![w] = NotOfRequest(@, r)]
        /\ removed' = [removed EXCEPT ![r] = RemovedBy(w, r)]
        /\ canceled' = canceled \cup {queue[w][i] : i \in OfRequest(queue[w], r)}
        /\ opc' = [opc EXCEPT ![r] = IF removed'[r] > 0 THEN "update" ELSE "idle"]
        /\ UNCHANGED <<wpc, state, signalled, cur, tok, ctx, gen, sel, target,
                       pollVars, destroyVars, ran, freed, notified>>

(* Mutant: the context goes whatever is still running.                     *)
ContextAfterCancel_Always(r) == NoCtx

ContextAfterCancel(r) ==
    IF removed[r] >= ctx[r].pending THEN NoCtx
    ELSE [ctx[r] EXCEPT !.pending = @ - removed[r]]

(* update_context_after_cancel.  A context that goes here goes without its *)
(* batch callback.                                                         *)
UpdateContextAfterCancel(r) ==
    /\ opc[r] = "update"
    /\ ctx' = [ctx EXCEPT ![r] = ContextAfterCancel(r)]
    /\ removed' = [removed EXCEPT ![r] = 0]
    /\ opc' = [opc EXCEPT ![r] = "idle"]
    /\ UNCHANGED <<workerVars, gen, sel, target, pollVars, destroyVars, fateVars>>

-----------------------------------------------------------------------------
(* thread_pool_wake_up_worker_by_req_id, by the thread that polls for      *)
(* completions.  Without a context the completion is lost; and the context *)
(* is not looked at again before the push.                                 *)
WakeFind(t) ==
    /\ PoolInUse
    /\ ppc = "idle"
    /\ t \in due
    /\ due' = due \ {t}
    /\ IF ctx[t.req] = NoCtx
         THEN UNCHANGED <<ppc, ptok, pworker>>
         ELSE ppc' = "push" /\ ptok' = t /\ pworker' = ctx[t.req].worker
    /\ UNCHANGED <<workerVars, ctx, ownerVars, destroyVars, fateVars>>

WakePush ==
    /\ ppc = "push"
    /\ Unlocked(pworker)
    /\ pend' = [pend EXCEPT ![pworker] = Append(@, ptok)]
    /\ Signal(pworker)
    /\ ppc' = "idle" /\ ptok' = NoTask /\ pworker' = 0
    /\ UNCHANGED <<queue, wpc, state, cur, tok, ctx, ownerVars, due,
                   destroyVars, fateVars>>

-----------------------------------------------------------------------------
(* worker_routine.  A waiting worker leaves pthread_cond_wait when it is   *)
(* signalled, or for no reason.                                            *)
WorkerWake(w) ==
    /\ wpc[w] = "wait"
    /\ signalled[w]
    /\ signalled' = [signalled EXCEPT ![w] = FALSE]
    /\ wpc' = [wpc EXCEPT ![w] = "ready"]
    /\ UNCHANGED <<queue, pend, state, cur, tok, ctx, ownerVars, pollVars,
                   destroyVars, fateVars>>

WorkerSpurious(w) ==
    /\ wpc[w] = "wait"
    /\ ~signalled[w]
    /\ wpc' = [wpc EXCEPT ![w] = "ready"]
    /\ UNCHANGED <<queue, pend, state, signalled, cur, tok, ctx, ownerVars,
                   pollVars, destroyVars, fateVars>>

(* Mutant: a request's completion takes any of its tasks, keyed or not.    *)
Matches_RequestOnly(t, wake) == t.req = wake.req

Matches(t, wake) ==
    /\ t.req = wake.req
    /\ t.req \in Keyed => t.idx = wake.idx

(* Mutant: the queue is searched from its tail.                            *)
PopIndex_Last(q, wake) == SelectLastInSeq(q, LAMBDA t : Matches(t, wake))

(* worker_queue_pop_by_req_and_user_data: the first task that matches; 0   *)
(* when none does, and then the wakeup is used up all the same.            *)
PopIndex(q, wake) == SelectInSeq(q, LAMBDA t : Matches(t, wake))

AtLoopHead(w) == wpc[w] \in {"ready", "hold"}

WorkerExit(w) ==
    /\ AtLoopHead(w)
    /\ is_destroying
    /\ wpc' = [wpc EXCEPT ![w] = "exited"]
    /\ state' = [state EXCEPT ![w] = "EXIT"]
    /\ UNCHANGED <<queue, pend, signalled, cur, tok, ctx, ownerVars, pollVars,
                   destroyVars, fateVars>>

WorkerSleep(w) ==
    /\ AtLoopHead(w)
    /\ ~is_destroying
    /\ pend[w] = <<>>
    /\ wpc' = [wpc EXCEPT ![w] = "wait"]
    /\ state' = [state EXCEPT ![w] = "IDLE"]
    /\ UNCHANGED <<queue, pend, signalled, cur, tok, ctx, ownerVars, pollVars,
                   destroyVars, fateVars>>

WorkerTake(w) ==
    LET wake == Head(pend[w])
        i    == PopIndex(queue[w], wake)
    IN  /\ AtLoopHead(w)
        /\ ~is_destroying
        /\ pend[w] # <<>>
        /\ pend' = [pend EXCEPT ![w] = Tail(@)]
        /\ IF i # 0
             THEN /\ queue' = [queue EXCEPT ![w] = RemoveAt(@, i)]
                  /\ cur' = [cur EXCEPT ![w] = queue[w][i]]
                  /\ tok' = [tok EXCEPT ![w] = wake]
                  /\ state' = [state EXCEPT ![w] = "BUSY"]
                  /\ wpc' = [wpc EXCEPT ![w] = "run"]
             ELSE /\ state' = [state EXCEPT ![w] = "IDLE"]
                  /\ wpc' = [wpc EXCEPT ![w] = "hold"]
                  /\ UNCHANGED <<queue, cur, tok>>
        /\ UNCHANGED <<signalled, ctx, ownerVars, pollVars, destroyVars, fateVars>>

(* worker_process_task: the function runs without any lock ...             *)
WorkerRun(w) ==
    /\ wpc[w] = "run"
    /\ ran' = ran \cup {cur[w]}
    /\ wpc' = [wpc EXCEPT ![w] = "count"]
    /\ UNCHANGED <<queue, pend, state, signalled, cur, tok, ctx, ownerVars,
                   pollVars, destroyVars, canceled, freed, notified>>

(* Mutant: the context is dropped one task early.                          *)
LastOne_Early(c) == c.pending <= 2

LastOne(c) == c.pending = 1

(* ... and then it is counted off the context of its identifier, if there  *)
(* is one.  The last one removes the context and calls the batch callback. *)
WorkerCount(w) ==
    LET r == tok[w].req
        c == ctx[r]
    IN  /\ wpc[w] = "count"
        /\ ctx' = CASE c = NoCtx -> ctx
                    [] c # NoCtx /\ LastOne(c) -> [ctx EXCEPT ![r] = NoCtx]
                    [] OTHER -> [ctx EXCEPT ![r].pending = @ - 1]
        /\ notified' = IF c # NoCtx /\ LastOne(c)
                         THEN [notified EXCEPT ![r][c.batch] = @ + 1]
                         ELSE notified
        /\ cur' = [cur EXCEPT ![w] = NoTask]
        /\ tok' = [tok EXCEPT ![w] = NoTask]
        /\ wpc' = [wpc EXCEPT ![w] = "ready"]
        /\ UNCHANGED <<queue, pend, state, signalled, ownerVars, pollVars,
                       destroyVars, ran, canceled, freed>>

-----------------------------------------------------------------------------
(* thread_pool_destroy: raise the flag (under a lock no worker takes),     *)
(* signal every worker under its own, join them, free what is left.        *)
DestroyBegin ==
    /\ MayDestroy
    /\ PoolInUse
    /\ ppc = "idle"
    /\ \A r \in Requests : opc[r] \in {"idle", "bound"}
    /\ is_destroying' = TRUE
    /\ dpc' = "signal" /\ di' = 0
    /\ UNCHANGED <<workerVars, ctx, ownerVars, pollVars, fateVars>>

(* Mutant: the loop over the workers runs one too far.                     *)
LastWorker_OneMore(i) == i = NWorkers

LastWorker(i) == i + 1 = NWorkers

ShutdownThreads ==
    /\ dpc = "signal"
    /\ Unlocked(di)
    /\ Signal(di)
    /\ di' = IF LastWorker(di) THEN 0 ELSE di + 1
    /\ dpc' = IF LastWorker(di) THEN "join" ELSE "signal"
    /\ UNCHANGED <<queue, pend, wpc, state, cur, tok, ctx, ownerVars, pollVars,
                   is_destroying, fateVars>>

DestroyAll ==
    /\ dpc = "join"
    /\ \A w \in Workers : wpc[w] \in {"exited", "none"}
    /\ freed' = UNION {ToSet(queue[w]) : w \in Workers}
    /\ queue' = [w \in Workers |-> <<>>]
    /\ pend' = [w \in Workers |-> <<>>]
    /\ ctx' = [r \in Requests |-> NoCtx]
    /\ dpc' = "gone"
    /\ UNCHANGED <<wpc, state, signalled, cur, tok, ownerVars, pollVars, di,
                   is_destroying, ran, canceled, notified>>

Terminating == dpc = "gone" /\ UNCHANGED vars

-----------------------------------------------------------------------------
OwnerStep(r) ==
    \/ SelectBestWorker(r) \/ AttachNodes(r) \/ UpdateBatchContext(r)
    \/ CancelInWorkerQueue(r) \/ UpdateContextAfterCancel(r)

WorkerStep(w) ==
    \/ WorkerStart(w) \/ WorkerWake(w) \/ WorkerExit(w) \/ WorkerSleep(w) \/ WorkerTake(w)
    \/ WorkerRun(w) \/ WorkerCount(w)

InitStep == CreateWorker \/ CreateWorkerFails \/ CreatorChecks \/ ThreadPoolStart

DestroyStep == ShutdownThreads \/ DestroyAll

Next ==
    \/ \E r \in Requests : SubmitBegin(r) \/ AllRan(r) \/ CancelFind(r)
    \/ \E r \in Requests : OwnerStep(r)
    \/ \E t \in due : WakeFind(t)
    \/ WakePush
    \/ \E w \in Workers : WorkerStep(w) \/ WorkerSpurious(w)
    \/ InitStep
    \/ CreatorSpurious
    \/ DestroyBegin
    \/ DestroyStep
    \/ Terminating

Spec == Init /\ [][Next]_vars

(* Threads inside a call keep running and task functions return; nobody    *)
(* has to submit, complete, cancel or destroy anything.                    *)
Fairness ==
    /\ \A r \in Requests : WF_vars(OwnerStep(r))
    /\ \A w \in Workers : WF_vars(WorkerStep(w))
    /\ WF_vars(WakePush)
    /\ WF_vars(InitStep)
    /\ WF_vars(DestroyStep)

FairSpec == Spec /\ Fairness

-----------------------------------------------------------------------------
QueuedTasks == UNION {ToSet(queue[w]) : w \in Workers}
Working(w) == wpc[w] \in {"run", "count"}

TypeOK ==
    /\ queue \in [Workers -> Seq(Task)] /\ pend \in [Workers -> Seq(Task)]
    /\ wpc \in [Workers -> {"none", "born", "wait", "ready", "hold", "run", "count",
                        "exited"}]
    /\ state \in [Workers -> {"INIT", "IDLE", "BUSY", "EXIT"}]
    /\ signalled \in [Workers -> BOOLEAN]
    /\ cur \in [Workers -> Task \cup {NoTask}] /\ tok \in [Workers -> Task \cup {NoTask}]
    /\ ctx \in [Requests -> [worker : Workers \cup {-1}, pending : Nat,
                             batch : 0 .. MaxBatches]]
    /\ opc \in [Requests -> {"idle", "scan", "attach", "bind", "bound", "remove",
                             "update"}]
    /\ gen \in [Requests -> 0 .. MaxBatches]
    /\ sel \in [Requests -> [i : Workers, best : Workers \cup {-1}, load : Nat,
                             bias : {0, 1}]]
    /\ target \in [Requests -> Workers] /\ removed \in [Requests -> Nat]
    /\ due \subseteq Task /\ ppc \in {"idle", "push"}
    /\ ptok \in Task \cup {NoTask} /\ pworker \in Workers
    /\ dpc \in {"create", "handshake", "woken", "created", "no", "signal",
               "join", "gone"} /\ di \in Workers
    /\ is_destroying \in BOOLEAN
    /\ ran \subseteq Task /\ canceled \subseteq Task /\ freed \subseteq Task
    /\ notified \in [Requests -> [1 .. MaxBatches -> Nat]]

(* pending_count is exactly the number of the request's tasks that are     *)
(* queued or running, up to the operation of the owner that is between its *)
(* two locks.  Too low, and the context goes while tasks need it to be     *)
(* woken; too high, and it never goes and captures the identifier.         *)
Outstanding(r) ==
    Cardinality({t \in QueuedTasks : t.req = r})
      + Cardinality({w \in Workers : Working(w) /\ cur[w].req = r})

PendingCountExact ==
    PoolInUse => \A r \in Requests :
        ctx[r].pending + (IF opc[r] = "bind" THEN BatchSize ELSE 0)
            = Outstanding(r) + removed[r]

(* Half of that is left when completions of an earlier use may come between*)
(* attaching a batch and binding it (update_batch_context): the count may  *)
(* stay too high, but a context never goes while a task is queued or runs. *)
NeverCountedLow ==
    PoolInUse => \A r \in Requests :
        ctx[r].pending + (IF opc[r] = "bind" THEN BatchSize ELSE 0)
            >= Outstanding(r) + removed[r]

(* README 5.2: all tasks of one identifier are bound to the same worker.   *)
(* Once a submission has returned, its queued tasks are where the context  *)
(* sends the wakeups and the cancellations.                                *)
BoundTogether ==
    PoolInUse => \A w \in Workers : \A i \in DOMAIN queue[w] :
        LET r == queue[w][i].req
        IN  opc[r] # "bind" => ctx[r].worker = w

(* Completions of an earlier use of an identifier may arrive, or lie with a*)
(* worker, when the identifier is used again, and all that is matched is   *)
(* the request and the number.  Still a receive-side task runs for the very*)
(* completion it was registered for, or for that of a task of its number   *)
(* that was cancelled in an earlier use: never for a completion that was   *)
(* answered already, and never for a later one.  (the comment above        *)
(* worker_queue_pop_by_req_and_user_data)                                  *)
CanceledBefore(t) ==
    \E c \in canceled : c.req = t.req /\ c.idx = t.idx /\ c.gen <= t.gen

RunsForItsCompletion ==
    \A w \in Workers : Working(w) /\ cur[w].req \in Keyed =>
        \/ cur[w] = tok[w]
        \/ /\ tok[w] = [cur[w] EXCEPT !.gen = tok[w].gen]
           /\ tok[w].gen < cur[w].gen
           /\ CanceledBefore(tok[w])

(* thread_pool.h: a batch goes to one worker to keep its order.  Without a *)
(* match key the tasks of a batch start in the order of submission.        *)
InSubmissionOrder ==
    \A t \in ran \cup {cur[w] : w \in {v \in Workers : Working(v)}} :
        t.req \notin Keyed =>
            \A i \in 1 .. t.idx - 1 : [t EXCEPT !.idx = i] \in ran \cup canceled

(* No task is lost or used twice: each of a submitted batch is queued      *)
(* once, or with one worker, or has run, or was cancelled, or was freed.   *)
Times(t) ==
    Cardinality({p \in UNION {{w} \X DOMAIN queue[w] : w \in Workers} : queue[p[1]][p[2]] = t})
      + Cardinality({w \in Workers : wpc[w] = "run" /\ cur[w] = t})
      + Cardinality({f \in {"ran", "canceled", "freed"} :
                       t \in CASE f = "ran" -> ran [] f = "canceled" -> canceled
                              [] f = "freed" -> freed})

EachTaskOnce ==
    \A r \in Requests : gen[r] > 0 =>
        \A t \in BatchTasks(r) : Times(t) = IF opc[r] \in {"scan", "attach"} THEN 0 ELSE 1

(* thread_pool.h: a cancellation removes every task that has not begun.    *)
(* When the owner's call has returned, none of its tasks is queued.        *)
NothingLeftQueued ==
    \A r \in Requests : opc[r] \in {"idle", "update"} =>
        \A t \in QueuedTasks : t.req # r

(* thread_pool.h: batch_complete_cb is called when all tasks of the batch  *)
(* are complete.                                                           *)
BatchCallbackMeansAllRan ==
    \A r \in Requests, g \in 1 .. MaxBatches : notified[r][g] > 0 =>
        {t \in Task : t.req = r /\ t.gen = g} \subseteq ran

(* ... which holds as far as this goes: the callback is called at most once*)
(* for a batch, and by then none of its tasks is queued or running.        *)
BatchCallbackOnce ==
    \A r \in Requests, g \in 1 .. MaxBatches :
        /\ notified[r][g] <= 1
        /\ notified[r][g] = 1 =>
             {t \in Task : t.req = r /\ t.gen = g} \subseteq ran \cup canceled

(* thread_pool.h: thread_pool_destroy waits for all tasks to complete.     *)
DestroyWaitsForTasks == freed = {}

(* A wakeup put on a worker's list is taken from it: the worker is never   *)
(* asleep with work pending.                                               *)
WakeupsServed ==
    \A w \in Workers : pend[w] # <<>> ~> pend[w] = <<>>

(* A completion that finds its task registered makes it run, unless the    *)
(* owner cancels or the pool goes away first.                              *)
CompletionRunsTask ==
    \A t \in Task : t.req \in Keyed =>
        ((ppc = "push" /\ ptok = t /\ opc[t.req] = "bound")
            ~> (t \in ran \cup canceled \cup freed))

(* thread_pool_init returns, with a pool or, when a thread cannot be       *)
(* created, after the ones that could have been joined.  The worker signals*)
(* its creator on the condition that it then sleeps on itself.             *)
InitReturns == dpc = "create" ~> dpc \in {"no", "gone"}

(* thread_pool_destroy returns, whatever the workers were doing.           *)
DestroyReturns == dpc = "signal" ~> dpc = "gone"
=============================================================================
