-------------------------- MODULE ThreadPoolProofs --------------------------
(***************************************************************************)
(* Proofs about ThreadPool, for every number of workers and requests and   *)
(* every batch size.  Types are right whatever the callers do; the rest    *)
(* holds for owners that use an identifier again when nothing of its last  *)
(* use is left (ThreadPool, CarefulReuse); the run pool_rebind shows that  *)
(* it does not for owners that wait for nothing but their own call.        *)
(***************************************************************************)
EXTENDS ThreadPoolLemmas

Holders(r) == {w \in Workers : Working(w) /\ cur[w].req = r}
QueuedOf(r) == {t \in QueuedTasks : t.req = r}
Gone == ran \cup canceled \cup freed

(* The batch gen[r] has a number, but is not in a queue yet.               *)
Unborn(r) == opc[r] \in {"scan", "attach"}

(* The position of the owner of r as far as completions are concerned: they*)
(* can be under way once the batch is bound.                               *)
Announced(r) == opc[r] \notin {"scan", "attach", "bind"}

(* What TypeOK does not say of the variables and types depend on.          *)
Basics ==
    /\ \A w \in Workers : Working(w) => cur[w] \in Task /\ tok[w] \in Task
    /\ \A r \in Requests : ctx[r] # NoCtx =>
         ctx[r].pending > 0 /\ ctx[r].worker \in Workers /\ ctx[r].batch > 0
    /\ ppc = "push" => ptok \in Task
    /\ \A r \in Requests : gen[r] = 0 => opc[r] = "idle"

(* A worker that has not been created does nothing, owners are outside the *)
(* pool when it is being created or destroyed, the workers have left when  *)
(* it is gone, and nothing is freed before.                                *)
Lives ==
    /\ dpc = "create" => \A w \in Workers : w >= di => wpc[w] = "none"
    /\ dpc \in {"handshake", "woken"} => \A w \in Workers : w > di => wpc[w] = "none"
    /\ \A r \in Requests : opc[r] \notin {"idle", "bound"} => dpc = "no"
    /\ dpc = "gone" => \A w \in Workers : wpc[w] \in {"exited", "none"}
    /\ freed # {} => dpc = "gone"
    /\ \A r \in Requests : removed[r] # 0 <=> opc[r] = "update"

(* Where the tasks of a request are: with a context, on its worker; without*)
(* one, on the worker the submission in progress has chosen, or nowhere.   *)
Home ==
    \A r \in Requests :
        /\ ctx[r] # NoCtx =>
             /\ opc[r] \notin {"scan", "attach", "bind"}
             /\ \A w \in Workers : \A t \in ToSet(queue[w]) :
                  t.req = r => w = ctx[r].worker
             /\ \A w \in Workers : Working(w) /\ cur[w].req = r => w = ctx[r].worker
             /\ opc[r] = "remove" => target[r] = ctx[r].worker
        /\ ctx[r] = NoCtx =>
             /\ \A w \in Workers : Working(w) => cur[w].req # r
             /\ \A w \in Workers : \A t \in ToSet(queue[w]) :
                  t.req = r => opc[r] = "bind" /\ w = target[r]

(* Whatever is queued, and every completion under way, is of the batch that*)
(* was submitted last; a batch that has not been bound has no completions. *)
Current ==
    /\ \A w \in Workers : \A t \in ToSet(queue[w]) : t.gen = gen[t.req]
    /\ \A w \in Workers : \A d \in ToSet(pend[w]) : d.gen = gen[d.req] /\ Announced(d.req)
    /\ \A d \in due : d.gen = gen[d.req] /\ Announced(d.req)
    /\ ppc = "push" => ptok.gen = gen[ptok.req] /\ Announced(ptok.req)

(* A task is in one place.  (That it is in one queue only is Home's.)      *)
Once ==
    /\ \A w \in Workers : \A t \in ToSet(queue[w]) : t \notin Gone
    /\ \A w \in Workers : wpc[w] = "run" => cur[w] \notin Gone
    /\ \A w, v \in Workers : wpc[w] = "run" => cur[w] \notin ToSet(queue[v])
    /\ \A w \in Workers : wpc[w] = "count" => cur[w] \in ran
    /\ ran \cap canceled = {} /\ ran \cap freed = {} /\ canceled \cap freed = {}

(* Has the task been submitted and put in a queue?                         *)
Entered(t) == t.gen <= gen[t.req] /\ (t.gen = gen[t.req] => ~Unborn(t.req))

(* Where a task that has been put in a queue is.                           *)
Known(t) ==
    \/ \E w \in Workers : t \in ToSet(queue[w])
    \/ \E w \in Workers : wpc[w] = "run" /\ cur[w] = t
    \/ t \in Gone

Somewhere == \A t \in Task : Known(t) <=> Entered(t)

Count ==
    \A r \in Requests :
        /\ IsFiniteSet(QueuedOf(r)) /\ IsFiniteSet(Holders(r))
        /\ ctx[r].pending + (IF opc[r] = "bind" THEN BatchSize ELSE 0)
             = Cardinality(QueuedOf(r)) + Cardinality(Holders(r)) + removed[r]

(* The tasks of a request stand in its queue in the order of submission.   *)
Order == \A w \in Workers : InOrder(queue[w])

(* A batch that is outstanding or still to come has not been reported.     *)
Unreported ==
    \A r \in Requests :
        /\ ctx[r] # NoCtx => ctx[r].batch = gen[r]
        /\ \A g \in 1 .. MaxBatches :
             (\/ g > gen[r]
              \/ g = gen[r] /\ (ctx[r] # NoCtx \/ opc[r] \in {"scan", "attach", "bind"}))
                => notified[r][g] = 0

(* A task is run for a completion of its request; a keyed one for its own. *)
OwnCompletion ==
    \A w \in Workers : Working(w) =>
        /\ cur[w].req = tok[w].req
        /\ cur[w].req \in Keyed => cur[w] = tok[w]

Safe ==
    /\ Lives /\ Home /\ Current /\ Once /\ Somewhere /\ Count /\ Order /\ Unreported
    /\ OwnCompletion /\ InSubmissionOrder /\ NothingLeftQueued /\ BatchCallbackOnce

TypeInv == TypeOK /\ Basics

IInv == TypeInv /\ (CarefulReuse => Safe)

-----------------------------------------------------------------------------
(* Every step is one of the steps of ThreadPool by one of its actors.      *)
LEMMA NextCases ==
  ASSUME Next
  PROVE  \/ \E r \in Requests : SubmitBegin(r) \/ AllRan(r) \/ CancelFind(r) \/ OwnerStep(r)
         \/ \E t \in due : WakeFind(t)
         \/ WakePush
         \/ \E w \in Workers : WorkerStep(w) \/ WorkerSpurious(w)
         \/ InitStep \/ CreatorSpurious \/ DestroyBegin \/ DestroyStep
         \/ UNCHANGED vars
  BY Zenon DEF Next, Terminating

(* The workers are numbered from 0.                                        *)
LEMMA WorkerNumbers ==
  /\ 0 \in Workers /\ -1 \notin Workers /\ Workers \subseteq Nat
  /\ \A w \in Workers : w + 1 # NWorkers => w + 1 \in Workers
  BY WorkersAssumption DEF Workers

(* A request context.                                                      *)
Contexts == [worker : Workers \cup {-1}, pending : Nat, batch : 0 .. MaxBatches]

(* Counting on a context changes nothing else of it.                       *)
LEMMA ContextCounts ==
  ASSUME NEW c \in Contexts, NEW n \in Nat
  PROVE  LET d == [c EXCEPT !.pending = n]
         IN  /\ d \in Contexts
             /\ d.worker = c.worker /\ d.pending = n /\ d.batch = c.batch
             /\ c.worker # -1 => d # NoCtx
  BY DEF Contexts, NoCtx

(* The context of a batch.                                                 *)
LEMMA NewContext ==
  ASSUME NEW v \in Workers, NEW n \in Nat, NEW g \in 0 .. MaxBatches
  PROVE  LET d == [worker |-> v, pending |-> n, batch |-> g]
         IN  /\ d \in Contexts
             /\ d.worker = v /\ d.pending = n /\ d.batch = g
             /\ d # NoCtx
  BY WorkerNumbers DEF Contexts, NoCtx

(* NoCtx is one.                                                           *)
LEMMA NoContext ==
  NoCtx \in Contexts /\ NoCtx.pending = 0 /\ NoCtx.worker = -1
  BY BatchAssumption DEF Contexts, NoCtx

(* Counting one call of a batch callback.                                  *)
LEMMA ReportTypes ==
  ASSUME NEW f \in [Requests -> [1 .. MaxBatches -> Nat]], NEW r \in Requests,
         NEW b \in 1 .. MaxBatches
  PROVE  [f EXCEPT ![r][b] = @ + 1] \in [Requests -> [1 .. MaxBatches -> Nat]]
  <1>1. f[r] \in [1 .. MaxBatches -> Nat]
    OBVIOUS
  <1>2. f[r][b] + 1 \in Nat
    BY <1>1
  <1>3. [f[r] EXCEPT ![b] = @ + 1] \in [1 .. MaxBatches -> Nat]
    BY <1>1, <1>2
  <1> QED BY <1>3

(* What a queue holds are tasks.                                           *)
LEMMA MembersAreTasks ==
  ASSUME NEW q \in Seq(Task), NEW t \in ToSet(q)
  PROVE  t \in Task
  BY DEF ToSet

(* A task's request is one, and its batch has a number.                    *)
LEMMA TaskFields ==
  ASSUME NEW t \in Task
  PROVE  t.req \in Requests /\ t.gen \in 1 .. MaxBatches /\ t.idx \in 1 .. BatchSize
  BY DEF Task

(* Types hold at the start.                                                *)
LEMMA InitTypeInv ==
  ASSUME Init
  PROVE  TypeInv
  <1>1. 0 \in Workers /\ MaxBatches \in Nat
    BY WorkerNumbers, BatchAssumption
  <1>2. 0 \in 0 .. MaxBatches
    BY <1>1
  <1>3. NoCtx \in Contexts
    BY NoContext
  <1>4. NoScan \in [i : Workers, best : Workers \cup {-1}, load : Nat, bias : {0, 1}]
    BY <1>1 DEF NoScan
  <1>5. TypeOK
    <2>1. /\ queue \in [Workers -> Seq(Task)] /\ pend \in [Workers -> Seq(Task)]
          /\ wpc \in [Workers -> {"none", "born", "wait", "ready", "hold", "run", "count",
                              "exited"}]
          /\ state \in [Workers -> {"INIT", "IDLE", "BUSY", "EXIT"}]
          /\ signalled \in [Workers -> BOOLEAN]
          /\ cur \in [Workers -> Task \cup {NoTask}] /\ tok \in [Workers -> Task \cup {NoTask}]
      BY DEF Init
    <2>2. ctx \in [Requests -> Contexts]
      BY <1>3 DEF Init
    <2>3. /\ opc \in [Requests -> {"idle", "scan", "attach", "bind", "bound", "remove",
                                   "update"}]
          /\ gen \in [Requests -> 0 .. MaxBatches]
          /\ sel \in [Requests -> [i : Workers, best : Workers \cup {-1}, load : Nat,
                                  bias : {0, 1}]]
          /\ target \in [Requests -> Workers] /\ removed \in [Requests -> Nat]
      BY <1>1, <1>2, <1>4 DEF Init
    <2>4. notified \in [Requests -> [1 .. MaxBatches -> Nat]]
      BY DEF Init
    <2>5. /\ due \subseteq Task /\ ppc \in {"idle", "push"}
          /\ ptok \in Task \cup {NoTask} /\ pworker \in Workers
          /\ dpc \in {"create", "handshake", "woken", "created", "no", "signal",
                     "join", "gone"} /\ di \in Workers
          /\ is_destroying \in BOOLEAN
          /\ ran \subseteq Task /\ canceled \subseteq Task /\ freed \subseteq Task
      BY <1>1 DEF Init
    <2> QED BY <2>1, <2>2, <2>3, <2>4, <2>5 DEF TypeOK, Contexts
  <1>6. Basics
    BY DEF Init, Basics, Working
  <1> QED BY <1>5, <1>6 DEF TypeInv

(* An owner inside the pool has submitted a batch, to a worker.            *)
LEMMA Submitted ==
  ASSUME TypeInv, NEW r \in Requests, opc[r] # "idle"
  PROVE  gen[r] \in 1 .. MaxBatches /\ target[r] \in Workers
  <1>1. gen[r] \in 0 .. MaxBatches /\ target[r] \in Workers
    BY DEF TypeInv, TypeOK
  <1>2. gen[r] # 0
    BY DEF TypeInv, Basics
  <1> QED BY ONLY <1>1, <1>2, BatchAssumption

(* Types are kept by the owners' steps ...                                 *)
LEMMA OwnersKeepTypeInv ==
  ASSUME TypeInv, NEW r \in Requests,
         SubmitBegin(r) \/ AllRan(r) \/ CancelFind(r) \/ OwnerStep(r)
  PROVE  TypeInv'
  <1> USE DEF TypeInv, TypeOK, Basics, Working, workerVars, ownerVars, pollVars, destroyVars, fateVars
  <1>1. CASE SubmitBegin(r)
    <2>1. gen[r] + 1 \in 0 .. MaxBatches /\ gen[r] + 1 # 0
      <3>1. gen[r] \in 0 .. MaxBatches /\ gen[r] < MaxBatches
        BY <1>1 DEF SubmitBegin
      <3> QED BY ONLY <3>1, BatchAssumption
    <2>2. NoScan \in [i : Workers, best : Workers \cup {-1}, load : Nat, bias : {0, 1}]
      BY WorkerNumbers DEF NoScan
    <2> QED BY <1>1, <2>1, <2>2 DEF SubmitBegin
  <1>2. CASE AllRan(r)
    BY <1>2 DEF AllRan
  <1>3. CASE CancelFind(r)
    BY <1>3 DEF CancelFind
  <1>4. CASE SelectBestWorker(r)
    <2> DEFINE w == sel[r].i
               load == Len(queue[w]) + Len(pend[w])
               bias == IF state[w] = "BUSY" THEN 1 ELSE 0
               s == sel[r]
               better == s.best = -1 \/ load < s.load \/ (load = s.load /\ bias < s.bias)
               best == IF better THEN w ELSE s.best
               free == load = 0 /\ bias = 0
    <2>1. w \in Workers /\ load \in Nat /\ bias \in {0, 1}
      OBVIOUS
    <2>2. best \in Workers /\ s.load \in Nat /\ s.bias \in {0, 1}
      OBVIOUS
    <2> HIDE DEF w, load, bias, better, best
    <2>3. CASE free \/ w + 1 = NWorkers
      <3>1. /\ target' = [target EXCEPT ![r] = IF free THEN w ELSE best]
            /\ opc' = [opc EXCEPT ![r] = "attach"]
            /\ sel' = [sel EXCEPT ![r] = NoScan]
        BY <1>4, <2>3 DEF SelectBestWorker, w, load, bias, better, best
      <3>2. NoScan \in [i : Workers, best : Workers \cup {-1}, load : Nat, bias : {0, 1}]
        BY WorkerNumbers DEF NoScan
      <3> QED BY <3>1, <3>2, <2>1, <2>2, <1>4 DEF SelectBestWorker
    <2>4. CASE ~(free \/ w + 1 = NWorkers)
      <3>1. /\ sel' = [sel EXCEPT ![r] = [i |-> w + 1, best |-> best,
                                         load |-> IF better THEN load ELSE s.load,
                                         bias |-> IF better THEN bias ELSE s.bias]]
            /\ UNCHANGED <<target, opc>>
        BY <1>4, <2>4 DEF SelectBestWorker, w, load, bias, better, best
      <3>2. w + 1 \in Workers
        BY <2>1, <2>4, WorkerNumbers
      <3> QED BY <3>1, <3>2, <2>1, <2>2, <1>4 DEF SelectBestWorker
    <2> QED BY <2>3, <2>4
  <1>5. CASE AttachNodes(r)
    <2>1. gen[r] \in 1 .. MaxBatches
      BY <1>5, Submitted DEF AttachNodes
    <2>2. queue[target[r]] \o Batch(r) \in Seq(Task)
      BY <2>1, BatchFacts, AppendMembers
    <2> QED BY <1>5, <2>2 DEF AttachNodes
  <1>6. CASE UpdateBatchContext(r)
    <2>1. gen[r] \in 1 .. MaxBatches
      BY <1>6, Submitted DEF UpdateBatchContext
    <2>2. BatchTasks(r) \subseteq Task
      BY <2>1, BatchFacts
    <2>3. /\ ContextAfterBind(r) \in Contexts
          /\ ContextAfterBind(r) # NoCtx =>
               /\ ContextAfterBind(r).pending > 0 /\ ContextAfterBind(r).batch > 0
               /\ ContextAfterBind(r).worker \in Workers
      <3>1. CASE ctx[r] # NoCtx
        <4>1. ContextAfterBind(r) = [ctx[r] EXCEPT !.pending = ctx[r].pending + BatchSize]
          BY <3>1 DEF ContextAfterBind
        <4>2. ctx[r] \in Contexts
          BY DEF Contexts
        <4>3. ctx[r].pending + BatchSize \in Nat /\ ctx[r].pending + BatchSize > 0
          <5>1. ctx[r].pending \in Nat
            OBVIOUS
          <5> QED BY ONLY <5>1, BatchAssumption
        <4>4. ctx[r].worker \in Workers /\ ctx[r].batch > 0
          BY <3>1
        <4> QED BY ONLY <4>1, <4>2, <4>3, <4>4, ContextCounts
      <3>2. CASE ctx[r] = NoCtx
        <4>1. ContextAfterBind(r) = [worker |-> target[r], pending |-> BatchSize, batch |-> gen[r]]
          BY <3>2 DEF ContextAfterBind
        <4>2. target[r] \in Workers /\ BatchSize \in Nat /\ BatchSize > 0 /\ gen[r] > 0
              /\ gen[r] \in 0 .. MaxBatches
          BY <2>1, BatchAssumption
        <4> QED BY ONLY <4>1, <4>2, NewContext
      <3> QED BY <3>1, <3>2
    <2>4. TypeOK'
      <3>1. ctx' \in [Requests -> Contexts]
        BY <1>6, <2>3 DEF UpdateBatchContext, Contexts
      <3> HIDE DEF Basics
      <3> QED BY <1>6, <2>2, <3>1 DEF UpdateBatchContext, Contexts
    <2>5. Basics'
      BY <1>6, <2>3 DEF UpdateBatchContext
    <2> QED BY <2>4, <2>5
  <1>7. CASE CancelInWorkerQueue(r)
    <2> DEFINE w == target[r]
               gone == {queue[w][i] : i \in OfRequest(queue[w], r)}
    <2>1. w \in Workers /\ queue[w] \in Seq(Task) /\ pend[w] \in Seq(Task)
      OBVIOUS
    <2>2. NotOfRequest(queue[w], r) \in Seq(Task) /\ NotOfRequest(pend[w], r) \in Seq(Task)
      BY <2>1, CancelMembers
    <2>3. RemovedBy(w, r) \in Nat
      BY <2>1, OfRequestCount DEF RemovedBy
    <2>4. gone \subseteq Task
      <3>1. gone = {t \in ToSet(queue[w]) : t.req = r}
        BY ONLY <2>1, OfRequestCount DEF gone
      <3> QED BY ONLY <2>1, <3>1, MembersAreTasks
    <2> HIDE DEF w, gone
    <2>5. /\ queue' = [queue EXCEPT ![w] = NotOfRequest(@, r)]
          /\ pend' = [pend EXCEPT ![w] = NotOfRequest(@, r)]
          /\ removed' = [removed EXCEPT ![r] = RemovedBy(w, r)]
          /\ canceled' = canceled \cup gone
          /\ opc' = [opc EXCEPT ![r] = IF removed'[r] > 0 THEN "update" ELSE "idle"]
          /\ opc[r] = "remove"
          /\ UNCHANGED <<wpc, state, signalled, cur, tok, ctx, gen, sel, target,
                         pollVars, destroyVars, ran, freed, notified>>
      BY <1>7 DEF CancelInWorkerQueue, QueueAfterCancel, w, gone
    <2> QED BY <2>1, <2>2, <2>3, <2>4, <2>5
  <1>8. CASE UpdateContextAfterCancel(r)
    <2>1. ctx'[r] = ContextAfterCancel(r) /\ ctx' = [ctx EXCEPT ![r] = ContextAfterCancel(r)]
      BY <1>8 DEF UpdateContextAfterCancel
    <2>2. /\ ContextAfterCancel(r) \in Contexts
          /\ ContextAfterCancel(r) # NoCtx =>
               /\ ContextAfterCancel(r).pending > 0 /\ ContextAfterCancel(r).batch > 0
               /\ ContextAfterCancel(r).worker \in Workers
      <3>1. CASE removed[r] >= ctx[r].pending
        BY <3>1, NoContext DEF ContextAfterCancel
      <3>2. CASE removed[r] < ctx[r].pending
        <4>1. ctx[r] # NoCtx
          BY <3>2 DEF NoCtx
        <4>2. ContextAfterCancel(r) = [ctx[r] EXCEPT !.pending = ctx[r].pending - removed[r]]
          BY <3>2 DEF ContextAfterCancel
        <4>3. ctx[r].pending - removed[r] \in Nat /\ ctx[r].pending - removed[r] > 0
          <5>1. ctx[r].pending \in Nat /\ removed[r] \in Nat
            OBVIOUS
          <5> QED BY ONLY <5>1, <3>2
        <4>4. ctx[r].worker \in Workers /\ ctx[r].batch > 0
          BY <4>1
        <4>5. ctx[r] \in Contexts
          BY DEF Contexts
        <4> QED BY ONLY <4>2, <4>3, <4>4, <4>5, ContextCounts
      <3> QED BY <3>1, <3>2
    <2>3. TypeOK'
      <3>1. ctx' \in [Requests -> Contexts]
        BY <2>1, <2>2 DEF Contexts
      <3> HIDE DEF Basics
      <3> QED BY <1>8, <3>1 DEF UpdateContextAfterCancel, Contexts
    <2>4. Basics'
      BY <1>8, <2>1, <2>2 DEF UpdateContextAfterCancel
    <2> QED BY <2>3, <2>4
  <1> QED BY <1>1, <1>2, <1>3, <1>4, <1>5, <1>6, <1>7, <1>8 DEF OwnerStep

(* ... by those of the workers ...                                         *)
LEMMA WorkersKeepTypeInv ==
  ASSUME TypeInv, NEW w \in Workers, WorkerStep(w) \/ WorkerSpurious(w)
  PROVE  TypeInv'
  <1> USE DEF TypeInv, TypeOK, Basics, Working, workerVars, ownerVars, pollVars, destroyVars, fateVars
  <1>1. CASE WorkerStart(w)
    BY <1>1 DEF WorkerStart, AfterWorkerStart
  <1>2. CASE WorkerWake(w)
    BY <1>2 DEF WorkerWake
  <1>3. CASE WorkerExit(w)
    BY <1>3 DEF WorkerExit
  <1>4. CASE WorkerSleep(w)
    BY <1>4 DEF WorkerSleep
  <1>5. CASE WorkerTake(w)
    <2> DEFINE wake == Head(pend[w])
               i == PopIndex(queue[w], wake)
    <2>1. queue[w] \in Seq(Task) /\ pend[w] \in Seq(Task) /\ pend[w] # <<>>
      BY <1>5 DEF WorkerTake
    <2>2. wake \in Task /\ Tail(pend[w]) \in Seq(Task)
      BY <2>1
    <2>3. i \in 0 .. Len(queue[w])
      BY <2>1, PopFinds
    <2> HIDE DEF wake, i
    <2>4. CASE i # 0
      <3>1. RemoveAt(queue[w], i) \in Seq(Task) /\ queue[w][i] \in Task
        <4>1. i \in 1 .. Len(queue[w])
          BY <2>1, <2>3, <2>4
        <4>2. queue[w][i] \in Task
          BY ONLY <2>1, <4>1
        <4> QED BY ONLY <2>1, <4>1, <4>2, RemoveAtLeaves
      <3>2. /\ pend' = [pend EXCEPT ![w] = Tail(@)]
            /\ queue' = [queue EXCEPT ![w] = RemoveAt(@, i)]
            /\ cur' = [cur EXCEPT ![w] = queue[w][i]]
            /\ tok' = [tok EXCEPT ![w] = wake]
            /\ state' = [state EXCEPT ![w] = "BUSY"]
            /\ wpc' = [wpc EXCEPT ![w] = "run"]
            /\ UNCHANGED <<signalled, ctx, ownerVars, pollVars, destroyVars, fateVars>>
        BY <2>4, <1>5 DEF WorkerTake, wake, i
      <3>3. TypeOK'
        BY <3>1, <3>2, <2>2
      <3>4. Basics'
        BY <3>1, <3>2, <2>2
      <3> QED BY <3>3, <3>4
    <2>5. CASE i = 0
      BY <2>2, <2>5, <1>5 DEF WorkerTake, AtLoopHead, wake, i
    <2> QED BY <2>4, <2>5
  <1>6. CASE WorkerRun(w)
    BY <1>6 DEF WorkerRun
  <1>7. CASE WorkerCount(w)
    <2> DEFINE r == tok[w].req
               c == ctx[r]
    <2>1. tok[w] \in Task /\ r \in Requests
      BY <1>7, TaskFields DEF WorkerCount
    <2>2. ctx' = [ctx EXCEPT ![r] = ctx'[r]]
      BY <1>7, <2>1 DEF WorkerCount
    <2>3. /\ ctx'[r] \in Contexts
          /\ ctx'[r] # NoCtx =>
               ctx'[r].pending > 0 /\ ctx'[r].worker \in Workers /\ ctx'[r].batch > 0
      <3>1. CASE c = NoCtx
        <4>1. ctx' = ctx
          BY ONLY <3>1, <1>7 DEF WorkerCount
        <4> QED BY ONLY <4>1, <3>1, NoContext
      <3>2. CASE c # NoCtx /\ LastOne(c)
        <4>1. ctx' = [ctx EXCEPT ![r] = NoCtx]
          BY ONLY <3>2, <1>7 DEF WorkerCount
        <4> QED BY <4>1, <2>1, NoContext
      <3>3. CASE c # NoCtx /\ ~LastOne(c)
        <4>1. ctx' = [ctx EXCEPT ![r].pending = @ - 1]
          BY ONLY <3>3, <1>7 DEF WorkerCount
        <4>2. ctx'[r] = [c EXCEPT !.pending = c.pending - 1]
          BY <4>1, <2>1
        <4>3. c \in Contexts /\ c.worker \in Workers /\ c.batch > 0 /\ c.pending > 0
          BY <3>3, <2>1 DEF Contexts
        <4>4. c.pending - 1 \in Nat /\ c.pending - 1 > 0
          BY ONLY <4>3, <3>3 DEF LastOne, Contexts
        <4> HIDE DEF c
        <4> QED BY ONLY <4>2, <4>3, <4>4, ContextCounts
      <3> QED BY <3>1, <3>2, <3>3
    <2>4. notified' \in [Requests -> [1 .. MaxBatches -> Nat]]
      <3>1. CASE c # NoCtx /\ LastOne(c)
        <4>1. c.batch \in 1 .. MaxBatches
          <5>1. c.batch \in 0 .. MaxBatches /\ c.batch > 0
            BY <3>1, <2>1
          <5> QED BY ONLY <5>1, BatchAssumption
        <4>2. notified' = [notified EXCEPT ![r][c.batch] = @ + 1]
          BY ONLY <3>1, <1>7 DEF WorkerCount
        <4>3. notified \in [Requests -> [1 .. MaxBatches -> Nat]]
          OBVIOUS
        <4> QED BY ONLY <4>1, <4>2, <4>3, <2>1, ReportTypes
      <3>2. CASE ~(c # NoCtx /\ LastOne(c))
        BY <3>2, <1>7 DEF WorkerCount
      <3> QED BY <3>1, <3>2
    <2> HIDE DEF r, c
    <2>5. ctx' \in [Requests -> Contexts]
      <3>1. ctx \in [Requests -> Contexts]
        BY DEF Contexts
      <3> QED BY ONLY <2>1, <2>2, <2>3, <3>1
    <2>6. TypeOK'
      <3> HIDE DEF Basics
      <3> QED BY <1>7, <2>4, <2>5 DEF WorkerCount, Contexts
    <2>7. Basics'
      BY <1>7, <2>1, <2>2, <2>3 DEF WorkerCount
    <2> QED BY <2>6, <2>7
  <1>8. CASE WorkerSpurious(w)
    BY <1>8 DEF WorkerSpurious
  <1> QED BY <1>1, <1>2, <1>3, <1>4, <1>5, <1>6, <1>7, <1>8 DEF WorkerStep

(* ... and by the others.                                                  *)
LEMMA OthersKeepTypeInv ==
  ASSUME TypeInv,
         \/ \E t \in due : WakeFind(t)
         \/ WakePush
         \/ InitStep \/ CreatorSpurious \/ DestroyBegin \/ DestroyStep
         \/ UNCHANGED vars
  PROVE  TypeInv'
  <1> USE DEF TypeInv, TypeOK, Basics, Working, workerVars, ownerVars, pollVars, destroyVars, fateVars
  <1>1. CASE \E t \in due : WakeFind(t)
    <2> PICK t \in due : WakeFind(t)
      BY <1>1
    <2>1. t \in Task /\ t.req \in Requests
      BY TaskFields
    <2> QED BY <2>1 DEF WakeFind
  <1>2. CASE WakePush
    <2>1. Append(pend[pworker], ptok) \in Seq(Task)
      BY <1>2 DEF WakePush
    <2> QED BY <1>2, <2>1, WorkerNumbers DEF WakePush, Signal
  <1>3. CASE CreateWorker
    BY <1>3 DEF CreateWorker
  <1>4. CASE CreateWorkerFails
    BY <1>4, WorkerNumbers DEF CreateWorkerFails
  <1>5. CASE CreatorChecks
    BY <1>5, WorkerNumbers DEF CreatorChecks
  <1>6. CASE ThreadPoolStart
    BY <1>6 DEF ThreadPoolStart
  <1>7. CASE CreatorSpurious
    BY <1>7 DEF CreatorSpurious
  <1>8. CASE DestroyBegin
    BY <1>8, WorkerNumbers DEF DestroyBegin
  <1>9. CASE ShutdownThreads
    BY <1>9, WorkerNumbers DEF ShutdownThreads, Signal, LastWorker
  <1>10. CASE DestroyAll
    <2>1. UNION {ToSet(queue[w]) : w \in Workers} \subseteq Task
      BY MembersAreTasks
    <2> QED BY <1>10, <2>1, NoContext DEF DestroyAll, Contexts
  <1>11. CASE UNCHANGED vars
    BY <1>11 DEF vars
  <1> QED BY <1>1, <1>2, <1>3, <1>4, <1>5, <1>6, <1>7, <1>8, <1>9, <1>10, <1>11 DEF InitStep, DestroyStep

-----------------------------------------------------------------------------
(* No worker takes, starts or ends a task in this step.                    *)
SameWork ==
    \A w \in Workers :
        /\ wpc'[w] = "run" <=> wpc[w] = "run"
        /\ wpc'[w] = "count" <=> wpc[w] = "count"

(* No batch is submitted, queued or bound in this step.                    *)
SameStage ==
    \A r \in Requests :
        /\ opc'[r] \in {"scan", "attach"} <=> opc[r] \in {"scan", "attach"}
        /\ opc'[r] = "bind" <=> opc[r] = "bind"

(* What each part of the invariant depends on.                             *)
LEMMA FrameHome ==
  ASSUME Home, SameWork, UNCHANGED <<queue, cur, ctx, opc, target>>
  PROVE  Home'
  BY DEF Home, SameWork, Working

LEMMA FrameCurrent ==
  ASSUME TypeOK, Basics, Current, SameStage, UNCHANGED <<queue, pend, due, ppc, ptok, gen>>
  PROVE  Current'
  <1>1. \A r \in Requests : Announced(r) => Announced(r)'
    BY DEF SameStage, Announced
  <1>2. \A d \in due : d.req \in Requests
    BY TaskFields DEF TypeOK
  <1>3. \A w \in Workers : \A d \in ToSet(pend[w]) : d.req \in Requests
    BY TaskFields, MembersAreTasks DEF TypeOK
  <1>4. ppc = "push" => ptok.req \in Requests
    BY TaskFields DEF Basics
  <1> QED BY <1>1, <1>2, <1>3, <1>4 DEF Current

LEMMA FrameOnce ==
  ASSUME Once, SameWork, UNCHANGED <<queue, cur, ran, canceled, freed>>
  PROVE  Once'
  BY DEF Once, Gone, SameWork

LEMMA FrameSomewhere ==
  ASSUME Somewhere, SameStage, UNCHANGED gen, \A t \in Task : Known(t)' <=> Known(t)
  PROVE  Somewhere'
  <1>1. ASSUME NEW t \in Task PROVE Entered(t)' <=> Entered(t)
    BY TaskFields DEF Entered, Unborn, SameStage
  <1> QED BY <1>1 DEF Somewhere

LEMMA FrameKnown ==
  ASSUME SameWork, UNCHANGED <<queue, cur, ran, canceled, freed>>
  PROVE  \A t \in Task : Known(t)' <=> Known(t)
  BY DEF Known, Gone, SameWork

LEMMA FrameHolders ==
  ASSUME SameWork, UNCHANGED cur
  PROVE  \A r \in Requests : Holders(r)' = Holders(r)
  BY DEF Holders, Working, SameWork

LEMMA FrameCount ==
  ASSUME Count, SameWork, UNCHANGED <<queue, cur, ctx, removed>>,
         \A r \in Requests : opc'[r] = "bind" <=> opc[r] = "bind"
  PROVE  Count'
  <1>1. \A r \in Requests : QueuedOf(r)' = QueuedOf(r)
    BY DEF QueuedOf, QueuedTasks
  <1>2. \A r \in Requests : Holders(r)' = Holders(r)
    BY FrameHolders
  <1> QED BY <1>1, <1>2 DEF Count

LEMMA FrameOrder ==
  ASSUME Order, UNCHANGED queue
  PROVE  Order'
  BY DEF Order

LEMMA FrameUnreported ==
  ASSUME Unreported, SameStage, UNCHANGED <<ctx, gen, notified>>
  PROVE  Unreported'
  <1>1. \A r \in Requests : opc'[r] \in {"scan", "attach", "bind"}
                          <=> opc[r] \in {"scan", "attach", "bind"}
    BY DEF SameStage
  <1> QED BY <1>1 DEF Unreported

LEMMA FrameOwnCompletion ==
  ASSUME OwnCompletion, SameWork, UNCHANGED <<cur, tok>>
  PROVE  OwnCompletion'
  BY DEF OwnCompletion, Working, SameWork

LEMMA FrameInSubmissionOrder ==
  ASSUME InSubmissionOrder, SameWork, UNCHANGED <<cur, ran>>, canceled \subseteq canceled'
  PROVE  InSubmissionOrder'
  <1>1. {v \in Workers : Working(v)}' = {v \in Workers : Working(v)}
    BY DEF Working, SameWork
  <1> QED BY <1>1 DEF InSubmissionOrder

LEMMA FrameNothingLeftQueued ==
  ASSUME NothingLeftQueued, UNCHANGED <<queue, opc>>
  PROVE  NothingLeftQueued'
  BY DEF NothingLeftQueued, QueuedTasks

LEMMA FrameBatchCallbackOnce ==
  ASSUME BatchCallbackOnce, UNCHANGED notified, ran \subseteq ran', canceled \subseteq canceled'
  PROVE  BatchCallbackOnce'
  BY DEF BatchCallbackOnce

(* A step that only moves threads about keeps all but Lives.               *)
LEMMA QuietStep ==
  ASSUME TypeInv, Safe, Lives', SameWork,
         UNCHANGED <<queue, pend, cur, tok, ctx, opc, gen, target, removed, due, ppc, ptok,
                     ran, canceled, freed, notified>>
  PROVE  Safe'
  <1>1. SameStage
    BY DEF SameStage
  <1> QED BY <1>1, FrameHome, FrameCurrent, FrameOnce, FrameSomewhere, FrameKnown, FrameCount,
             FrameOrder, FrameUnreported, FrameOwnCompletion, FrameInSubmissionOrder,
             FrameNothingLeftQueued, FrameBatchCallbackOnce DEF Safe, TypeInv

(* The threads' comings and goings.                                        *)
LEMMA QuietWorkersKeepSafe ==
  ASSUME TypeInv, TypeInv', Safe, NEW w \in Workers,
         WorkerStart(w) \/ WorkerWake(w) \/ WorkerSpurious(w) \/ WorkerExit(w) \/ WorkerSleep(w)
  PROVE  Safe'
  <1>1. /\ UNCHANGED <<queue, pend, cur, tok, ctx, opc, gen, target, removed, due, ppc, ptok,
                       ran, canceled, freed, notified, di>>
        /\ dpc' = dpc \/ (dpc = "handshake" /\ dpc' = "woken")
        /\ wpc[w] \in {"born", "wait", "ready", "hold"}
        /\ \E c \in {"hold", "ready", "exited", "wait"} : wpc' = [wpc EXCEPT ![w] = c]
    BY DEF WorkerStart, WorkerWake, WorkerSpurious, WorkerExit, WorkerSleep, AfterWorkerStart,
           AtLoopHead, ownerVars, pollVars, destroyVars, fateVars
  <1>2. \A v \in Workers : v # w => wpc'[v] = wpc[v]
    BY <1>1 DEF TypeInv, TypeOK
  <1>3. wpc'[w] \in {"hold", "ready", "exited", "wait"}
    BY <1>1 DEF TypeInv, TypeOK
  <1>4. SameWork
    BY <1>1, <1>2, <1>3 DEF SameWork
  <1>5. Lives'
    BY <1>1, <1>2, <1>3 DEF Safe, Lives
  <1> QED BY <1>1, <1>4, <1>5, QuietStep

LEMMA QuietOthersKeepSafe ==
  ASSUME TypeInv, TypeInv', Safe,
         InitStep \/ CreatorSpurious \/ DestroyBegin \/ ShutdownThreads \/ UNCHANGED vars
  PROVE  Safe'
  <1> USE DEF workerVars, ownerVars, pollVars, destroyVars, fateVars
  <1>1. CASE CreateWorker
    <2>1. \A v \in Workers : wpc'[v] = IF v = di THEN "born" ELSE wpc[v]
      BY <1>1 DEF CreateWorker, TypeInv, TypeOK
    <2>2. di \in Workers /\ wpc[di] = "none" /\ \A v \in Workers : v > di => wpc[v] = "none"
      BY <1>1, WorkerNumbers DEF CreateWorker, TypeInv, TypeOK, Safe, Lives
    <2>3. SameWork
      BY <2>1, <2>2 DEF SameWork
    <2>4. Lives'
      BY <1>1, <2>1, <2>2, WorkerNumbers DEF CreateWorker, Safe, Lives
    <2> QED BY <1>1, <2>3, <2>4, QuietStep DEF CreateWorker
  <1>2. CASE CreateWorkerFails
    <2>1. Lives'
      BY <1>2 DEF CreateWorkerFails, Safe, Lives
    <2> QED BY <1>2, <2>1, QuietStep DEF CreateWorkerFails, SameWork
  <1>3. CASE CreatorChecks
    <2>1. \A v \in Workers : v >= di + 1 => v > di
      BY WorkerNumbers DEF TypeInv, TypeOK
    <2>2. Lives'
      BY <1>3, <2>1 DEF CreatorChecks, Safe, Lives
    <2> QED BY <1>3, <2>2, QuietStep DEF CreatorChecks, SameWork
  <1>4. CASE ThreadPoolStart
    <2>1. Lives'
      BY <1>4 DEF ThreadPoolStart, Safe, Lives
    <2> QED BY <1>4, <2>1, QuietStep DEF ThreadPoolStart, SameWork
  <1>5. CASE CreatorSpurious
    <2>1. Lives'
      BY <1>5 DEF CreatorSpurious, Safe, Lives
    <2> QED BY <1>5, <2>1, QuietStep DEF CreatorSpurious, SameWork
  <1>6. CASE DestroyBegin
    <2>1. Lives'
      BY <1>6 DEF DestroyBegin, PoolInUse, Safe, Lives
    <2> QED BY <1>6, <2>1, QuietStep DEF DestroyBegin, SameWork
  <1>7. CASE ShutdownThreads
    <2>1. Lives'
      BY <1>7 DEF ShutdownThreads, Safe, Lives
    <2> QED BY <1>7, <2>1, QuietStep DEF ShutdownThreads, SameWork
  <1>8. CASE UNCHANGED vars
    <2>1. Lives'
      BY <1>8 DEF vars, Safe, Lives
    <2> QED BY <1>8, <2>1, QuietStep DEF vars, SameWork
  <1> QED BY <1>1, <1>2, <1>3, <1>4, <1>5, <1>6, <1>7, <1>8 DEF InitStep

-----------------------------------------------------------------------------
(* A submission takes a number for its batch.                              *)
LEMMA SubmitBeginKeepsSafe ==
  ASSUME TypeInv, Safe, CarefulReuse, NEW r \in Requests, SubmitBegin(r)
  PROVE  Safe'
  <1>1. /\ dpc = "no" /\ opc[r] = "idle" /\ ctx[r] = NoCtx
        /\ \A d \in due : d.req # r
        /\ ppc = "push" => ptok.req # r
        /\ \A w \in Workers : \A d \in ToSet(pend[w]) : d.req # r
        /\ UNCHANGED <<queue, pend, cur, tok, ctx, target, removed, due, ppc, ptok, wpc, dpc, di,
                       ran, canceled, freed, notified>>
    BY DEF SubmitBegin, Quiet, PoolInUse, ToSet, workerVars, pollVars, destroyVars, fateVars
  <1>2. \A x \in Requests : opc'[x] = IF x = r THEN "scan" ELSE opc[x]
    BY DEF SubmitBegin, TypeInv, TypeOK
  <1>3. \A x \in Requests : gen'[x] = IF x = r THEN gen[x] + 1 ELSE gen[x]
    BY DEF SubmitBegin, TypeInv, TypeOK
  <1>4. \A x \in Requests : gen[x] \in Int
    BY BatchAssumption DEF TypeInv, TypeOK
  <1>5. SameWork
    BY <1>1 DEF SameWork
  <1>6. \A w \in Workers : \A t \in ToSet(queue[w]) : t.req \in Requests /\ t.req # r
    BY <1>1, TaskFields, MembersAreTasks DEF TypeInv, TypeOK, Safe, Home
  <1>7. Lives'
    BY <1>1, <1>2 DEF Safe, Lives
  <1>8. Home'
    BY <1>1, <1>2, <1>6 DEF Safe, Home, Working
  <1>9. Current'
    <2>1. /\ \A d \in due : d.req \in Requests
          /\ \A w \in Workers : \A d \in ToSet(pend[w]) : d.req \in Requests
          /\ ppc = "push" => ptok.req \in Requests
      BY TaskFields, MembersAreTasks DEF TypeInv, TypeOK, Basics
    <2> QED BY <1>1, <1>2, <1>3, <1>6, <2>1 DEF Safe, Current, Announced
  <1>10. Once'
    BY <1>1, <1>5, FrameOnce DEF Safe
  <1>11. Somewhere'
    <2>1. \A t \in Task : Known(t)' <=> Known(t)
      BY <1>1, <1>5, FrameKnown
    <2>2. ASSUME NEW t \in Task PROVE Entered(t)' <=> Entered(t)
      <3>1. t.req \in Requests /\ t.gen \in Int
        BY TaskFields
      <3> QED BY <3>1, <1>1, <1>2, <1>3, <1>4 DEF Entered, Unborn
    <2> QED BY <2>1, <2>2 DEF Safe, Somewhere
  <1>12. Count'
    BY <1>1, <1>2, <1>5, FrameCount DEF Safe
  <1>13. Order'
    BY <1>1, FrameOrder DEF Safe
  <1>14. Unreported'
    BY <1>1, <1>2, <1>3, <1>4 DEF Safe, Unreported
  <1>15. OwnCompletion' /\ InSubmissionOrder' /\ BatchCallbackOnce'
    BY <1>1, <1>5, FrameOwnCompletion, FrameInSubmissionOrder, FrameBatchCallbackOnce
       DEF Safe
  <1>16. NothingLeftQueued'
    BY <1>1, <1>2 DEF Safe, NothingLeftQueued, QueuedTasks
  <1> QED BY <1>7, <1>8, <1>9, <1>10, <1>11, <1>12, <1>13, <1>14, <1>15, <1>16 DEF Safe

(* What an owner does that touches neither queues nor contexts and does not*)
(* change the stage of its batch: it looks for a worker, its call returns, *)
(* or it begins to cancel.                                                 *)
LEMMA OwnerMoves ==
  ASSUME TypeInv, Safe, NEW r \in Requests, SameStage,
         UNCHANGED <<queue, pend, cur, tok, ctx, gen, removed, due, ppc, ptok, wpc, dpc, di,
                     ran, canceled, freed, notified>>,
         \A x \in Requests : x # r => opc'[x] = opc[x] /\ target'[x] = target[x],
         opc[r] # "update", opc'[r] # "update", opc'[r] \notin {"idle", "bound"} => dpc = "no",
         opc[r] # "bind", opc'[r] = "remove" /\ ctx[r] # NoCtx => target'[r] = ctx[r].worker,
         opc'[r] = "idle" => \A w \in Workers : \A t \in ToSet(queue[w]) : t.req # r
  PROVE  Safe'
  <1>1. SameWork
    BY DEF SameWork
  <1>2. Lives'
    BY DEF Safe, Lives
  <1>3. Home'
    <2> SUFFICES ASSUME NEW x \in Requests
                 PROVE  /\ ctx[x] # NoCtx =>
                             /\ opc'[x] \notin {"scan", "attach", "bind"}
                             /\ opc'[x] = "remove" => target'[x] = ctx[x].worker
                        /\ ctx[x] = NoCtx =>
                             \A w \in Workers : \A t \in ToSet(queue[w]) :
                                t.req = x => opc'[x] = "bind" /\ w = target'[x]
      BY DEF Safe, Home, Working
    <2> QED BY DEF Safe, Home, SameStage
  <1>4. NothingLeftQueued'
    BY DEF Safe, NothingLeftQueued, QueuedTasks
  <1>5. Count'
    BY <1>1, FrameCount DEF Safe, SameStage
  <1> QED BY <1>1, <1>2, <1>3, <1>4, <1>5, FrameCurrent, FrameOnce, FrameSomewhere, FrameKnown,
             FrameOrder, FrameUnreported, FrameOwnCompletion, FrameInSubmissionOrder,
             FrameBatchCallbackOnce DEF Safe, TypeInv

LEMMA OwnerMovesKeepSafe ==
  ASSUME TypeInv, Safe, NEW r \in Requests,
         SelectBestWorker(r) \/ AllRan(r) \/ CancelFind(r)
  PROVE  Safe'
  <1> DEFINE Rest == UNCHANGED <<queue, pend, cur, tok, ctx, gen, removed, due, ppc, ptok, wpc,
                                 dpc, di, ran, canceled, freed, notified>>
  <1>1. CASE SelectBestWorker(r)
    <2>1. Rest /\ opc[r] = "scan"
      BY <1>1 DEF SelectBestWorker, workerVars, pollVars, destroyVars, fateVars
    <2>2. \A x \in Requests : x # r => opc'[x] = opc[x] /\ target'[x] = target[x]
      <3>1. opc' = [opc EXCEPT ![r] = "attach"] \/ opc' = opc
        BY <1>1 DEF SelectBestWorker
      <3>2. (\E v : target' = [target EXCEPT ![r] = v]) \/ target' = target
        BY <1>1 DEF SelectBestWorker
      <3> QED BY <3>1, <3>2 DEF TypeInv, TypeOK
    <2>3. opc'[r] \in {"scan", "attach"}
      <3>1. opc' = [opc EXCEPT ![r] = "attach"] \/ opc' = opc
        BY <1>1 DEF SelectBestWorker
      <3> QED BY <3>1, <2>1 DEF TypeInv, TypeOK
    <2>4. SameStage
      BY <2>1, <2>2, <2>3 DEF SameStage
    <2>5. dpc = "no"
      BY <2>1 DEF Safe, Lives
    <2> QED BY <2>1, <2>2, <2>3, <2>4, <2>5, OwnerMoves
  <1>2. CASE AllRan(r)
    <2>1. Rest /\ opc[r] = "bound" /\ BatchTasks(r) \subseteq ran /\ target' = target
      BY <1>2 DEF AllRan, workerVars, pollVars, destroyVars, fateVars
    <2>2. \A x \in Requests : opc'[x] = IF x = r THEN "idle" ELSE opc[x]
      BY <1>2 DEF AllRan, TypeInv, TypeOK
    <2>3. SameStage
      BY <2>1, <2>2 DEF SameStage
    <2>4. ASSUME NEW w \in Workers, NEW t \in ToSet(queue[w]), t.req = r PROVE FALSE
      <3>1. t \in Task /\ t.gen = gen[r]
        BY <2>4, MembersAreTasks DEF TypeInv, TypeOK, Safe, Current
      <3>2. gen[r] \in 1 .. MaxBatches
        BY <3>1, TaskFields
      <3>3. t \in ran
        BY <3>1, <3>2, <2>1, <2>4, BatchFacts
      <3> QED BY <3>3 DEF Safe, Once, Gone
    <2> QED BY <2>1, <2>2, <2>3, <2>4, OwnerMoves
  <1>3. CASE CancelFind(r)
    <2>1. /\ Rest /\ opc[r] = "bound" /\ dpc = "no"
          /\ \A x \in Requests : x # r => opc'[x] = opc[x] /\ target'[x] = target[x]
      BY <1>3 DEF CancelFind, PoolInUse, TypeInv, TypeOK, workerVars, pollVars, destroyVars,
                  fateVars
    <2>2. CASE ctx[r] = NoCtx
      <3>1. opc'[r] = "idle"
        BY <2>2, <1>3 DEF CancelFind, TypeInv, TypeOK
      <3>2. SameStage
        BY <2>1, <3>1 DEF SameStage
      <3>3. \A w \in Workers : \A t \in ToSet(queue[w]) : t.req # r
        BY <2>1, <2>2 DEF Safe, Home
      <3> QED BY <2>1, <3>1, <3>2, <3>3, OwnerMoves
    <2>3. CASE ctx[r] # NoCtx
      <3>1. opc'[r] = "remove" /\ target'[r] = ctx[r].worker
        BY <2>3, <1>3 DEF CancelFind, TypeInv, TypeOK
      <3>2. SameStage
        BY <2>1, <3>1 DEF SameStage
      <3> QED BY <2>1, <3>1, <3>2, OwnerMoves
    <2> QED BY <2>2, <2>3
  <1> QED BY <1>1, <1>2, <1>3

-----------------------------------------------------------------------------
(* The batch is appended to the queue of the chosen worker.                *)
LEMMA AttachNodesKeepsSafe ==
  ASSUME TypeInv, Safe, NEW r \in Requests, AttachNodes(r)
  PROVE  Safe'
  <1> DEFINE h == target[r]
  <1>1. /\ opc[r] = "attach" /\ h \in Workers
        /\ UNCHANGED <<pend, cur, tok, ctx, gen, target, removed, due, ppc, ptok, wpc, dpc, di,
                       ran, canceled, freed, notified>>
    BY DEF AttachNodes, TypeInv, TypeOK, pollVars, destroyVars, fateVars
  <1>2. \A x \in Requests : opc'[x] = IF x = r THEN "bind" ELSE opc[x]
    BY DEF AttachNodes, TypeInv, TypeOK
  <1>3. gen[r] \in 1 .. MaxBatches
    BY <1>1, Submitted
  <1>4. \A w \in Workers : queue[w] \in Seq(Task)
    BY DEF TypeInv, TypeOK
  <1>5. \A w \in Workers : queue'[w] = IF w = h THEN queue[w] \o Batch(r) ELSE queue[w]
    BY <1>1 DEF AttachNodes, TypeInv, TypeOK
  <1>6. \A w \in Workers : ToSet(queue'[w]) =
          IF w = h THEN ToSet(queue[w]) \cup BatchTasks(r) ELSE ToSet(queue[w])
    <2>1. Batch(r) \in Seq(Task) /\ ToSet(Batch(r)) = BatchTasks(r)
      BY <1>3, BatchFacts
    <2>2. \A w \in Workers : ToSet(queue[w] \o Batch(r)) = ToSet(queue[w]) \cup BatchTasks(r)
      BY <2>1, <1>4, AppendMembers
    <2> QED BY <2>2, <1>5
  <1>7. \A t \in Task : t \in BatchTasks(r) <=> t.req = r /\ t.gen = gen[r]
    BY <1>3, BatchFacts
  <1>8. BatchTasks(r) \subseteq Task
    BY <1>3, BatchFacts
  <1>9. \A w \in Workers : \A t \in ToSet(queue[w]) : t \in Task /\ t.req \in Requests
    BY <1>4, TaskFields, MembersAreTasks
  <1>10. ctx[r] = NoCtx /\ \A w \in Workers : \A t \in ToSet(queue[w]) : t.req # r
    BY <1>1 DEF Safe, Home
  <1>11. SameWork
    BY <1>1 DEF SameWork
  <1>12. \A t \in BatchTasks(r) : ~Known(t)
    BY <1>1, <1>7, <1>8 DEF Safe, Somewhere, Entered, Unborn
  <1> HIDE DEF h
  <1>13. Lives'
    BY <1>1, <1>2 DEF Safe, Lives
  <1>14. Home'
    <2> SUFFICES ASSUME NEW x \in Requests
                 PROVE  /\ ctx[x] # NoCtx =>
                             /\ opc'[x] \notin {"scan", "attach", "bind"}
                             /\ \A w \in Workers : \A t \in ToSet(queue'[w]) :
                                  t.req = x => w = ctx[x].worker
                             /\ opc'[x] = "remove" => target[x] = ctx[x].worker
                        /\ ctx[x] = NoCtx =>
                             \A w \in Workers : \A t \in ToSet(queue'[w]) :
                                t.req = x => opc'[x] = "bind" /\ w = target[x]
      BY <1>1 DEF Safe, Home, Working
    <2>1. CASE x = r
      BY <2>1, <1>2, <1>6, <1>10 DEF h
    <2>2. CASE x # r
      <3>1. \A w \in Workers : \A t \in ToSet(queue'[w]) : t.req = x => t \in ToSet(queue[w])
        BY <2>2, <1>6, <1>7, <1>8
      <3> QED BY <2>2, <3>1, <1>2 DEF Safe, Home
    <2> QED BY <2>1, <2>2
  <1>15. Current'
    <2>1. ASSUME NEW w \in Workers, NEW t \in ToSet(queue'[w])
          PROVE  t.gen = gen[t.req]
      <3>1. CASE t \in ToSet(queue[w])
        BY <3>1 DEF Safe, Current
      <3>2. CASE t \notin ToSet(queue[w])
        BY <1>6, <1>7, <1>8, <3>2
      <3> QED BY <3>1, <3>2
    <2>2. \A x \in Requests : Announced(x) => Announced(x)'
      BY <1>1, <1>2 DEF Announced
    <2>3. /\ \A d \in due : d.req \in Requests
          /\ \A w \in Workers : \A d \in ToSet(pend[w]) : d.req \in Requests
          /\ ppc = "push" => ptok.req \in Requests
      BY TaskFields, MembersAreTasks DEF TypeInv, TypeOK, Basics
    <2> QED BY <1>1, <2>1, <2>2, <2>3 DEF Safe, Current
  <1>16. Once'
    <2>1. \A t \in BatchTasks(r) : t \notin Gone /\ \A w \in Workers : wpc[w] = "run" => cur[w] # t
      BY <1>12 DEF Known
    <2>2. Gone' = Gone
      BY <1>1 DEF Gone
    <2> QED BY <1>1, <1>6, <2>1, <2>2 DEF Safe, Once
  <1>17. Somewhere'
    <2> SUFFICES ASSUME NEW t \in Task PROVE Known(t)' <=> Entered(t)'
      BY DEF Somewhere
    <2>1. t.req \in Requests /\ t.gen \in 1 .. MaxBatches
      BY TaskFields
    <2>2. CASE t \in BatchTasks(r)
      <3>1. t \in ToSet(queue'[h])
        BY <2>2, <1>1, <1>6
      <3>2. Known(t)'
        BY <3>1, <1>1 DEF Known, h
      <3>3. Entered(t)'
        BY <2>1, <2>2, <1>1, <1>2, <1>3, <1>7 DEF Entered, Unborn
      <3> QED BY <3>2, <3>3
    <2>3. CASE t \notin BatchTasks(r)
      <3>1. \A w \in Workers : t \in ToSet(queue'[w]) <=> t \in ToSet(queue[w])
        BY <2>3, <1>6
      <3>2. Known(t)' <=> Known(t)
        BY <3>1, <1>1 DEF Known, Gone
      <3>3. Entered(t)' <=> Entered(t)
        BY <2>1, <2>3, <1>1, <1>2, <1>7 DEF Entered, Unborn
      <3> QED BY <3>2, <3>3 DEF Safe, Somewhere
    <2> QED BY <2>2, <2>3
  <1>18. Count'
    <2> SUFFICES ASSUME NEW x \in Requests
                 PROVE  /\ IsFiniteSet(QueuedOf(x)') /\ IsFiniteSet(Holders(x)')
                        /\ ctx[x].pending + (IF opc'[x] = "bind" THEN BatchSize ELSE 0)
                             = Cardinality(QueuedOf(x)') + Cardinality(Holders(x)') + removed[x]
      BY <1>1 DEF Count
    <2>1. Holders(x)' = Holders(x)
      BY <1>1, <1>11, FrameHolders
    <2>2. CASE x # r
      <3>1. QueuedOf(x)' = QueuedOf(x)
        <4>1. \A w \in Workers : \A t : t.req = x =>
                (t \in ToSet(queue'[w]) <=> t \in ToSet(queue[w]))
          BY <2>2, <1>6, <1>7, <1>8
        <4> QED BY <4>1 DEF QueuedOf, QueuedTasks
      <3> QED BY <2>1, <2>2, <3>1, <1>2 DEF Safe, Count
    <2>3. CASE x = r
      <3>1. QueuedOf(x)' = BatchTasks(r)
        <4>1. \A w \in Workers : \A t : t.req = r =>
                (t \in ToSet(queue'[w]) <=> w = h /\ t \in BatchTasks(r))
          BY <1>6, <1>10
        <4>2. \A t \in BatchTasks(r) : t.req = r
          BY <1>7, <1>8
        <4> QED BY <2>3, <1>1, <4>1, <4>2 DEF QueuedOf, QueuedTasks
      <3>2. QueuedOf(x) = {}
        BY <2>3, <1>10 DEF QueuedOf, QueuedTasks
      <3>3. ctx[x].pending = 0
        BY <2>3, <1>10, NoContext
      <3>4. Cardinality(QueuedOf(x)) = 0 /\ Cardinality(Holders(x)) \in Nat /\ removed[x] \in Nat
        BY <3>2, FS_EmptySet, FS_CardinalityType DEF TypeInv, TypeOK, Safe, Count
      <3>5. Cardinality(Holders(x)) = 0 /\ removed[x] = 0
        BY <2>3, <3>3, <3>4, <1>1 DEF Safe, Count
      <3>6. IsFiniteSet(BatchTasks(r)) /\ Cardinality(BatchTasks(r)) = BatchSize
        BY <1>3, BatchFacts
      <3> QED BY <2>1, <2>3, <3>1, <3>3, <3>5, <3>6, <1>2, BatchAssumption DEF Safe, Count
    <2> QED BY <2>2, <2>3
  <1>19. Order'
    <2> SUFFICES ASSUME NEW w \in Workers PROVE InOrder(queue'[w])
      BY DEF Order
    <2>1. CASE w = h
      <3>1. \A t \in ToSet(queue[w]), u \in ToSet(Batch(r)) : t.req # u.req
        BY <1>3, <1>7, <1>8, <1>10, BatchFacts
      <3>2. Batch(r) \in Seq(Task) /\ InOrder(Batch(r)) /\ InOrder(queue[w])
        BY <1>3, BatchFacts DEF Safe, Order
      <3> QED BY <2>1, <3>1, <3>2, <1>4, <1>5, AppendMembers
    <2>2. CASE w # h
      BY <2>2, <1>5 DEF Safe, Order
    <2> QED BY <2>1, <2>2
  <1>20. Unreported'
    BY <1>1, <1>2 DEF Safe, Unreported
  <1>21. OwnCompletion' /\ InSubmissionOrder' /\ BatchCallbackOnce'
    BY <1>1, <1>11, FrameOwnCompletion, FrameInSubmissionOrder, FrameBatchCallbackOnce
       DEF Safe
  <1>22. NothingLeftQueued'
    <2> SUFFICES ASSUME NEW x \in Requests, opc'[x] \in {"idle", "update"},
                        NEW w \in Workers, NEW t \in ToSet(queue'[w])
                 PROVE  t.req # x
      BY DEF NothingLeftQueued, QueuedTasks
    <2>1. x # r /\ opc[x] \in {"idle", "update"}
      BY <1>2
    <2>2. CASE t \in BatchTasks(r)
      BY <2>1, <2>2, <1>7, <1>8
    <2>3. CASE t \in ToSet(queue[w])
      BY <2>1, <2>3 DEF Safe, NothingLeftQueued, QueuedTasks
    <2> QED BY <2>2, <2>3, <1>6
  <1> QED BY <1>13, <1>14, <1>15, <1>16, <1>17, <1>18, <1>19, <1>20, <1>21, <1>22 DEF Safe

(* The batch is bound: a context is made, and completions may come.        *)
LEMMA UpdateBatchContextKeepsSafe ==
  ASSUME TypeInv, Safe, NEW r \in Requests, UpdateBatchContext(r)
  PROVE  Safe'
  <1> DEFINE c == [worker |-> target[r], pending |-> BatchSize, batch |-> gen[r]]
  <1>1. /\ opc[r] = "bind"
        /\ UNCHANGED <<queue, pend, cur, tok, gen, target, removed, ppc, ptok, wpc, dpc, di,
                       ran, canceled, freed, notified>>
        /\ due' = due \cup BatchTasks(r)
    BY DEF UpdateBatchContext, workerVars, destroyVars, fateVars
  <1>2. \A x \in Requests : opc'[x] = IF x = r THEN "bound" ELSE opc[x]
    BY DEF UpdateBatchContext, TypeInv, TypeOK
  <1>3. gen[r] \in 1 .. MaxBatches /\ target[r] \in Workers
    BY <1>1, Submitted
  <1>4. ctx[r] = NoCtx
    BY <1>1 DEF Safe, Home
  <1>5. ctx' = [ctx EXCEPT ![r] = c]
    BY <1>4 DEF UpdateBatchContext, ContextAfterBind
  <1>6. c # NoCtx /\ c.worker = target[r] /\ c.pending = BatchSize /\ c.batch = gen[r]
    BY <1>3, BatchAssumption, NewContext
  <1> HIDE DEF c
  <1>7. \A x \in Requests : ctx'[x] = IF x = r THEN c ELSE ctx[x]
    BY <1>5 DEF TypeInv, TypeOK
  <1>8. SameWork
    BY <1>1 DEF SameWork
  <1>9. Lives'
    BY <1>1, <1>2 DEF Safe, Lives
  <1>10. Home'
    <2> SUFFICES ASSUME NEW x \in Requests
                 PROVE  /\ ctx'[x] # NoCtx =>
                             /\ opc'[x] \notin {"scan", "attach", "bind"}
                             /\ \A w \in Workers : \A t \in ToSet(queue[w]) :
                                  t.req = x => w = ctx'[x].worker
                             /\ \A w \in Workers : Working(w) /\ cur[w].req = x => w = ctx'[x].worker
                             /\ opc'[x] = "remove" => target[x] = ctx'[x].worker
                        /\ ctx'[x] = NoCtx =>
                             /\ \A w \in Workers : Working(w) => cur[w].req # x
                             /\ \A w \in Workers : \A t \in ToSet(queue[w]) :
                                  t.req = x => opc'[x] = "bind" /\ w = target[x]
      BY <1>1 DEF Home, Working
    <2>1. CASE x = r
      BY <2>1, <1>1, <1>2, <1>4, <1>6, <1>7 DEF Safe, Home
    <2>2. CASE x # r
      BY <2>2, <1>2, <1>7 DEF Safe, Home
    <2> QED BY <2>1, <2>2
  <1>11. Current'
    <2>1. \A x \in Requests : Announced(x) => Announced(x)'
      BY <1>2 DEF Announced
    <2>2. /\ \A d \in due : d.req \in Requests
          /\ \A w \in Workers : \A d \in ToSet(pend[w]) : d.req \in Requests
          /\ ppc = "push" => ptok.req \in Requests
      BY TaskFields, MembersAreTasks DEF TypeInv, TypeOK, Basics
    <2>3. \A d \in BatchTasks(r) : d.req = r /\ d.gen = gen[r]
      BY <1>3, BatchFacts
    <2>4. Announced(r)'
      BY <1>2 DEF Announced
    <2> QED BY <1>1, <2>1, <2>2, <2>3, <2>4 DEF Safe, Current
  <1>12. Once' /\ Order'
    BY <1>1, <1>8, FrameOnce, FrameOrder DEF Safe
  <1>13. Somewhere'
    <2>1. \A t \in Task : Known(t)' <=> Known(t)
      BY <1>1, <1>8, FrameKnown
    <2>2. ASSUME NEW t \in Task PROVE Entered(t)' <=> Entered(t)
      BY <1>1, <1>2, TaskFields DEF Entered, Unborn
    <2> QED BY <2>1, <2>2 DEF Safe, Somewhere
  <1>14. Count'
    <2> SUFFICES ASSUME NEW x \in Requests
                 PROVE  /\ IsFiniteSet(QueuedOf(x)') /\ IsFiniteSet(Holders(x)')
                        /\ ctx'[x].pending + (IF opc'[x] = "bind" THEN BatchSize ELSE 0)
                             = Cardinality(QueuedOf(x)') + Cardinality(Holders(x)') + removed[x]
      BY <1>1 DEF Count
    <2>1. QueuedOf(x)' = QueuedOf(x) /\ Holders(x)' = Holders(x)
      BY <1>1, <1>8, FrameHolders DEF QueuedOf, QueuedTasks
    <2>2. CASE x = r
      BY <2>1, <2>2, <1>1, <1>2, <1>4, <1>6, <1>7, NoContext, BatchAssumption DEF Safe, Count
    <2>3. CASE x # r
      BY <2>1, <2>3, <1>2, <1>7 DEF Safe, Count
    <2> QED BY <2>2, <2>3
  <1>15. Unreported'
    <2> SUFFICES ASSUME NEW x \in Requests
                 PROVE  /\ ctx'[x] # NoCtx => ctx'[x].batch = gen[x]
                        /\ \A g \in 1 .. MaxBatches :
                             (\/ g > gen[x]
                              \/ g = gen[x] /\ (\/ ctx'[x] # NoCtx
                                               \/ opc'[x] \in {"scan", "attach", "bind"}))
                                => notified[x][g] = 0
      BY <1>1 DEF Unreported
    <2>1. CASE x = r
      BY <2>1, <1>1, <1>6, <1>7 DEF Safe, Unreported
    <2>2. CASE x # r
      BY <2>2, <1>2, <1>7 DEF Safe, Unreported
    <2> QED BY <2>1, <2>2
  <1>16. OwnCompletion' /\ InSubmissionOrder' /\ BatchCallbackOnce'
    BY <1>1, <1>8, FrameOwnCompletion, FrameInSubmissionOrder, FrameBatchCallbackOnce
       DEF Safe
  <1>17. NothingLeftQueued'
    BY <1>1, <1>2 DEF Safe, NothingLeftQueued, QueuedTasks
  <1> QED BY <1>9, <1>10, <1>11, <1>12, <1>13, <1>14, <1>15, <1>16, <1>17 DEF Safe

-----------------------------------------------------------------------------
(* A cancellation empties the queue of the request.                        *)
LEMMA CancelInWorkerQueueKeepsSafe ==
  ASSUME TypeInv, Safe, NEW r \in Requests, CancelInWorkerQueue(r)
  PROVE  Safe'
  <1> DEFINE h == target[r]
             gone == {queue[h][i] : i \in OfRequest(queue[h], r)}
  <1>1. /\ opc[r] = "remove" /\ h \in Workers
        /\ UNCHANGED <<cur, tok, ctx, gen, target, due, ppc, ptok, wpc, dpc, di,
                       ran, freed, notified>>
        /\ canceled' = canceled \cup gone
    BY DEF CancelInWorkerQueue, TypeInv, TypeOK, pollVars, destroyVars
  <1>2. \A w \in Workers : queue[w] \in Seq(Task) /\ pend[w] \in Seq(Task)
    BY DEF TypeInv, TypeOK
  <1>3. /\ \A w \in Workers : queue'[w] = IF w = h THEN NotOfRequest(queue[w], r) ELSE queue[w]
        /\ \A w \in Workers : pend'[w] = IF w = h THEN NotOfRequest(pend[w], r) ELSE pend[w]
    BY <1>1 DEF CancelInWorkerQueue, QueueAfterCancel, TypeInv, TypeOK
  <1>4. \A w \in Workers : w # h => \A t \in ToSet(queue[w]) : t.req # r
    BY <1>1 DEF Safe, Home
  <1>5. \A w \in Workers : ToSet(queue'[w]) = {t \in ToSet(queue[w]) : t.req # r}
    <2>1. ToSet(NotOfRequest(queue[h], r)) = {t \in ToSet(queue[h]) : t.req # r}
      BY <1>1, <1>2, CancelMembers
    <2> QED BY <2>1, <1>3, <1>4
  <1>6. \A w \in Workers : ToSet(pend'[w]) \subseteq ToSet(pend[w])
    <2>1. ToSet(NotOfRequest(pend[h], r)) = {t \in ToSet(pend[h]) : t.req # r}
      BY <1>1, <1>2, CancelMembers
    <2> QED BY <2>1, <1>3
  <1>7. gone = {t \in ToSet(queue[h]) : t.req = r}
    BY <1>1, <1>2, OfRequestCount
  <1>8. gone = QueuedOf(r)
    BY <1>1, <1>4, <1>7 DEF QueuedOf, QueuedTasks
  <1>9. removed'[r] = Cardinality(QueuedOf(r)) /\ IsFiniteSet(QueuedOf(r))
    <2>1. removed'[r] = Cardinality(OfRequest(queue[h], r))
      BY <1>1 DEF CancelInWorkerQueue, RemovedBy, TypeInv, TypeOK
    <2>2. InOrder(queue[h])
      BY <1>1 DEF Safe, Order
    <2>3. queue[h] \in Seq(Task)
      BY <1>1, <1>2
    <2> HIDE DEF h, gone
    <2>4. /\ IsFiniteSet({t \in ToSet(queue[h]) : t.req = r})
          /\ Cardinality({t \in ToSet(queue[h]) : t.req = r}) = Cardinality(OfRequest(queue[h], r))
      BY ONLY <2>2, <2>3, OfRequestCount
    <2> QED BY ONLY <2>1, <2>4, <1>7, <1>8
  <1> HIDE DEF h, gone
  <1>10. \A x \in Requests : x # r => removed'[x] = removed[x] /\ opc'[x] = opc[x]
    BY DEF CancelInWorkerQueue, TypeInv, TypeOK
  <1>11. opc'[r] = IF removed'[r] > 0 THEN "update" ELSE "idle"
    BY DEF CancelInWorkerQueue, TypeInv, TypeOK
  <1>12. Cardinality(QueuedOf(r)) \in Nat /\ (Cardinality(QueuedOf(r)) = 0 <=> QueuedOf(r) = {})
    BY <1>9, FS_CardinalityType, FS_EmptySet
  <1>13. SameWork
    BY <1>1 DEF SameWork
  <1>14. SameStage
    BY <1>1, <1>10, <1>11 DEF SameStage
  <1>15. \A w \in Workers : \A t \in ToSet(queue[w]) : t \in Task
    BY <1>2, MembersAreTasks
  <1>16. Lives'
    <2>1. dpc = "no"
      BY <1>1 DEF Safe, Lives
    <2>2. removed'[r] # 0 <=> opc'[r] = "update"
      BY <1>9, <1>11, <1>12
    <2> QED BY <1>1, <1>10, <2>1, <2>2 DEF Safe, Lives
  <1>17. Home'
    <2> SUFFICES ASSUME NEW x \in Requests
                 PROVE  /\ ctx[x] # NoCtx =>
                             /\ opc'[x] \notin {"scan", "attach", "bind"}
                             /\ \A w \in Workers : \A t \in ToSet(queue'[w]) :
                                  t.req = x => w = ctx[x].worker
                             /\ opc'[x] = "remove" => target[x] = ctx[x].worker
                        /\ ctx[x] = NoCtx =>
                             \A w \in Workers : \A t \in ToSet(queue'[w]) :
                                t.req = x => opc'[x] = "bind" /\ w = target[x]
      BY <1>1 DEF Safe, Home, Working
    <2>1. CASE x = r
      BY <2>1, <1>5, <1>11
    <2>2. CASE x # r
      BY <2>2, <1>5, <1>10 DEF Safe, Home
    <2> QED BY <2>1, <2>2
  <1>18. Current'
    <2>1. \A x \in Requests : Announced(x) => Announced(x)'
      BY <1>14 DEF SameStage, Announced
    <2>2. /\ \A d \in due : d.req \in Requests
          /\ \A w \in Workers : \A d \in ToSet(pend[w]) : d.req \in Requests
          /\ ppc = "push" => ptok.req \in Requests
      BY TaskFields, MembersAreTasks DEF TypeInv, TypeOK, Basics
    <2> QED BY <1>1, <1>5, <1>6, <2>1, <2>2 DEF Safe, Current
  <1>19. \A t \in gone : t \in QueuedTasks /\ t.req = r
    BY <1>8 DEF QueuedOf
  <1>20. \A t \in gone : t \notin Gone /\ \A w \in Workers : wpc[w] = "run" => cur[w] # t
    BY <1>19 DEF Safe, Once, QueuedTasks
  <1>21. Once'
    <2>1. Gone' = Gone \cup gone
      BY <1>1 DEF Gone
    <2>2. \A w \in Workers : \A t \in ToSet(queue'[w]) : t \notin Gone'
      BY <1>5, <1>19, <2>1 DEF Safe, Once
    <2>3. \A w \in Workers : wpc[w] = "run" => cur[w] \notin Gone'
      BY <1>20, <2>1 DEF Safe, Once
    <2>4. \A w, v \in Workers : wpc[w] = "run" => cur[w] \notin ToSet(queue'[v])
      BY <1>5 DEF Safe, Once
    <2>5. ran \cap canceled' = {} /\ canceled' \cap freed = {}
      BY <1>1, <1>20 DEF Safe, Once, Gone
    <2> QED BY <1>1, <2>2, <2>3, <2>4, <2>5 DEF Safe, Once
  <1>22. Somewhere'
    <2> SUFFICES \A t \in Task : Known(t)' <=> Known(t)
      BY <1>1, <1>14, FrameSomewhere DEF Safe
    <2> SUFFICES ASSUME NEW t \in Task PROVE Known(t)' <=> Known(t)
      OBVIOUS
    <2>1. (\E w \in Workers : t \in ToSet(queue[w])) <=>
            (\E w \in Workers : t \in ToSet(queue'[w])) \/ t \in gone
      BY <1>5, <1>8 DEF QueuedOf, QueuedTasks
    <2>2. t \in Gone' <=> t \in Gone \/ t \in gone
      BY <1>1 DEF Gone
    <2> QED BY <2>1, <2>2, <1>1 DEF Known
  <1>23. Count'
    <2> SUFFICES ASSUME NEW x \in Requests
                 PROVE  /\ IsFiniteSet(QueuedOf(x)') /\ IsFiniteSet(Holders(x)')
                        /\ ctx[x].pending + (IF opc'[x] = "bind" THEN BatchSize ELSE 0)
                             = Cardinality(QueuedOf(x)') + Cardinality(Holders(x)') + removed'[x]
      BY <1>1 DEF Count
    <2>1. Holders(x)' = Holders(x)
      BY <1>1, <1>13, FrameHolders
    <2>2. CASE x = r
      <3>1. QueuedOf(x)' = {}
        BY <2>2, <1>5 DEF QueuedOf, QueuedTasks
      <3>2. IsFiniteSet(QueuedOf(x)') /\ Cardinality(QueuedOf(x)') = 0
        BY <3>1, FS_EmptySet
      <3>3. removed[r] = 0
        BY <1>1 DEF Safe, Lives
      <3>4. opc[r] # "bind" /\ opc'[r] # "bind"
        BY <1>1, <1>11
      <3>5. IsFiniteSet(Holders(x)) /\ Cardinality(Holders(x)) \in Nat
        BY FS_CardinalityType DEF Safe, Count
      <3>6. ctx[x].pending + 0 = Cardinality(QueuedOf(x)) + Cardinality(Holders(x)) + 0
        BY <2>2, <3>3, <3>4 DEF Safe, Count
      <3>7. ctx[x].pending \in Nat
        BY DEF TypeInv, TypeOK
      <3> QED BY <2>1, <2>2, <3>2, <3>4, <3>5, <3>6, <3>7, <1>9, <1>12
    <2>3. CASE x # r
      <3>1. QueuedOf(x)' = QueuedOf(x)
        BY <2>3, <1>5 DEF QueuedOf, QueuedTasks
      <3> QED BY <2>1, <2>3, <3>1, <1>10 DEF Safe, Count
    <2> QED BY <2>2, <2>3
  <1>24. Order'
    <2> SUFFICES ASSUME NEW w \in Workers PROVE InOrder(queue'[w])
      BY DEF Order
    <2>1. InOrder(queue[w])
      BY DEF Safe, Order
    <2> QED BY <2>1, <1>2, <1>3, CancelMembers
  <1>25. Unreported'
    BY <1>1, <1>14, FrameUnreported DEF Safe
  <1>26. OwnCompletion' /\ InSubmissionOrder' /\ BatchCallbackOnce'
    BY <1>1, <1>13, FrameOwnCompletion, FrameInSubmissionOrder, FrameBatchCallbackOnce
       DEF Safe
  <1>27. NothingLeftQueued'
    <2>1. \A x \in Requests : x # r /\ opc'[x] \in {"idle", "update"} =>
            \A w \in Workers : \A t \in ToSet(queue[w]) : t.req # x
      BY <1>10 DEF Safe, NothingLeftQueued, QueuedTasks
    <2> QED BY <2>1, <1>5 DEF NothingLeftQueued, QueuedTasks
  <1> QED BY <1>16, <1>17, <1>18, <1>21, <1>22, <1>23, <1>24, <1>25, <1>26, <1>27 DEF Safe

(* The cancelled tasks are counted off the context; with the last one it   *)
(* goes.                                                                   *)
LEMMA UpdateContextAfterCancelKeepsSafe ==
  ASSUME TypeInv, Safe, NEW r \in Requests, UpdateContextAfterCancel(r)
  PROVE  Safe'
  <1>1. /\ opc[r] = "update"
        /\ UNCHANGED <<queue, pend, cur, tok, gen, target, due, ppc, ptok, wpc, dpc, di,
                       ran, canceled, freed, notified>>
    BY DEF UpdateContextAfterCancel, workerVars, pollVars, destroyVars, fateVars
  <1>2. /\ \A x \in Requests : opc'[x] = IF x = r THEN "idle" ELSE opc[x]
        /\ \A x \in Requests : removed'[x] = IF x = r THEN 0 ELSE removed[x]
        /\ \A x \in Requests : ctx'[x] = IF x = r THEN ContextAfterCancel(r) ELSE ctx[x]
    BY DEF UpdateContextAfterCancel, TypeInv, TypeOK
  <1>3. SameWork /\ SameStage
    BY <1>1, <1>2 DEF SameWork, SameStage
  <1>4. \A w \in Workers : \A t \in ToSet(queue[w]) : t.req # r
    BY <1>1 DEF Safe, NothingLeftQueued, QueuedTasks
  <1>5. IsFiniteSet(QueuedOf(r)) /\ Cardinality(QueuedOf(r)) = 0
    <2>1. QueuedOf(r) = {}
      BY <1>4 DEF QueuedOf, QueuedTasks
    <2> QED BY <2>1, FS_EmptySet
  <1>6. /\ IsFiniteSet(Holders(r)) /\ Cardinality(Holders(r)) \in Nat
        /\ Cardinality(Holders(r)) = 0 <=> Holders(r) = {}
    BY FS_CardinalityType, FS_EmptySet DEF Safe, Count
  <1>7. removed[r] \in Nat /\ removed[r] > 0 /\ ctx[r] \in Contexts /\ ctx[r].pending \in Nat
    BY <1>1 DEF Safe, Lives, TypeInv, TypeOK, Contexts
  <1>8. ctx[r].pending = Cardinality(Holders(r)) + removed[r]
    BY <1>1, <1>5, <1>6, <1>7 DEF Safe, Count
  <1>9. ctx[r] # NoCtx /\ ctx[r].worker \in Workers
    <2>1. ctx[r] # NoCtx
      BY <1>6, <1>7, <1>8, NoContext
    <2> QED BY <2>1 DEF TypeInv, Basics
  <1>10. /\ ctx'[r].pending = Cardinality(Holders(r))
         /\ ctx'[r] # NoCtx => ctx'[r].worker = ctx[r].worker /\ ctx'[r].batch = ctx[r].batch
         /\ ctx'[r] = NoCtx => Holders(r) = {}
    <2>1. CASE Holders(r) = {}
      <3>1. ctx'[r] = NoCtx
        BY <1>2, <1>6, <1>7, <1>8, <2>1 DEF ContextAfterCancel
      <3> QED BY <3>1, <2>1, <1>6, NoContext
    <2>2. CASE Holders(r) # {}
      <3>1. ctx'[r] = [ctx[r] EXCEPT !.pending = ctx[r].pending - removed[r]]
        BY <1>2, <1>6, <1>7, <1>8, <2>2 DEF ContextAfterCancel
      <3>2. ctx[r].pending - removed[r] = Cardinality(Holders(r))
        BY <1>6, <1>7, <1>8
      <3> QED BY <3>1, <3>2, <1>6, <1>7, <1>9, WorkerNumbers, ContextCounts
    <2> QED BY <2>1, <2>2
  <1>11. Lives'
    BY <1>1, <1>2 DEF Safe, Lives
  <1>12. Home'
    <2> SUFFICES ASSUME NEW x \in Requests
                 PROVE  /\ ctx'[x] # NoCtx =>
                             /\ opc'[x] \notin {"scan", "attach", "bind"}
                             /\ \A w \in Workers : \A t \in ToSet(queue[w]) :
                                  t.req = x => w = ctx'[x].worker
                             /\ \A w \in Workers : Working(w) /\ cur[w].req = x => w = ctx'[x].worker
                             /\ opc'[x] = "remove" => target[x] = ctx'[x].worker
                        /\ ctx'[x] = NoCtx =>
                             /\ \A w \in Workers : Working(w) => cur[w].req # x
                             /\ \A w \in Workers : \A t \in ToSet(queue[w]) :
                                  t.req = x => opc'[x] = "bind" /\ w = target[x]
      BY <1>1 DEF Home, Working
    <2>1. CASE x = r
      BY <2>1, <1>2, <1>4, <1>9, <1>10 DEF Safe, Home, Holders
    <2>2. CASE x # r
      BY <2>2, <1>2 DEF Safe, Home
    <2> QED BY <2>1, <2>2
  <1>13. Count'
    <2> SUFFICES ASSUME NEW x \in Requests
                 PROVE  /\ IsFiniteSet(QueuedOf(x)') /\ IsFiniteSet(Holders(x)')
                        /\ ctx'[x].pending + (IF opc'[x] = "bind" THEN BatchSize ELSE 0)
                             = Cardinality(QueuedOf(x)') + Cardinality(Holders(x)') + removed'[x]
      BY <1>1 DEF Count
    <2>1. QueuedOf(x)' = QueuedOf(x) /\ Holders(x)' = Holders(x)
      BY <1>1, <1>3, FrameHolders DEF QueuedOf, QueuedTasks
    <2>2. CASE x = r
      BY <2>1, <2>2, <1>2, <1>5, <1>6, <1>10
    <2>3. CASE x # r
      BY <2>1, <2>3, <1>2 DEF Safe, Count
    <2> QED BY <2>2, <2>3
  <1>14. Unreported'
    <2> SUFFICES ASSUME NEW x \in Requests
                 PROVE  /\ ctx'[x] # NoCtx => ctx'[x].batch = gen[x]
                        /\ \A g \in 1 .. MaxBatches :
                             (\/ g > gen[x]
                              \/ g = gen[x] /\ (\/ ctx'[x] # NoCtx
                                               \/ opc'[x] \in {"scan", "attach", "bind"}))
                                => notified[x][g] = 0
      BY <1>1 DEF Unreported
    <2>1. CASE x = r
      BY <2>1, <1>2, <1>9, <1>10 DEF Safe, Unreported
    <2>2. CASE x # r
      BY <2>2, <1>2 DEF Safe, Unreported
    <2> QED BY <2>1, <2>2
  <1>15. NothingLeftQueued'
    BY <1>1, <1>2, <1>4 DEF Safe, NothingLeftQueued, QueuedTasks
  <1> QED BY <1>1, <1>3, <1>11, <1>12, <1>13, <1>14, <1>15, FrameCurrent, FrameOnce,
             FrameSomewhere, FrameKnown, FrameOrder, FrameOwnCompletion,
             FrameInSubmissionOrder, FrameBatchCallbackOnce DEF Safe, TypeInv

-----------------------------------------------------------------------------
(* A completion looks for its context, and is handed to the worker.        *)
LEMMA WakeupsKeepSafe ==
  ASSUME TypeInv, TypeInv', Safe, (\E t \in due : WakeFind(t)) \/ WakePush
  PROVE  Safe'
  <1>1. UNCHANGED <<queue, cur, tok, ctx, opc, gen, target, removed, wpc, dpc, di,
                    ran, canceled, freed, notified>>
    BY DEF WakeFind, WakePush, workerVars, ownerVars, destroyVars, fateVars
  <1>2. SameWork /\ SameStage
    BY <1>1 DEF SameWork, SameStage
  <1>3. Lives'
    BY <1>1 DEF Safe, Lives
  <1>4. Current'
    <2>1. CASE \E t \in due : WakeFind(t)
      <3> PICK t \in due : WakeFind(t)
        BY <2>1
      <3>1. /\ due' \subseteq due /\ pend' = pend
            /\ ppc' = "push" => ptok' = t \/ (ppc = "push" /\ ptok' = ptok)
        BY DEF WakeFind, workerVars
      <3> QED BY <3>1, <1>1 DEF Safe, Current, Announced
    <2>2. CASE WakePush
      <3>1. due' = due /\ ppc = "push" /\ ppc' = "idle" /\ pworker \in Workers
            /\ ptok \in Task
        BY <2>2 DEF WakePush, TypeInv, TypeOK, Basics
      <3>2. \A w \in Workers : pend'[w] = IF w = pworker THEN Append(pend[w], ptok) ELSE pend[w]
        BY <2>2, <3>1 DEF WakePush, TypeInv, TypeOK
      <3>3. \A w \in Workers : \A d \in ToSet(pend'[w]) : d \in ToSet(pend[w]) \/ d = ptok
        <4> SUFFICES ASSUME NEW w \in Workers, NEW d \in ToSet(Append(pend[w], ptok))
                     PROVE  d \in ToSet(pend[w]) \/ d = ptok
          BY <3>2
        <4>1. pend[w] \in Seq(Task)
          BY DEF TypeInv, TypeOK
        <4>2. PICK i \in 1 .. Len(pend[w]) + 1 : d = Append(pend[w], ptok)[i]
          BY <4>1, <3>1 DEF ToSet
        <4> QED BY <4>1, <4>2, <3>1 DEF ToSet
      <3> QED BY <3>1, <3>3, <1>1 DEF Safe, Current, Announced
    <2> QED BY <2>1, <2>2
  <1> QED BY <1>1, <1>2, <1>3, <1>4, FrameHome, FrameOnce, FrameSomewhere, FrameKnown, FrameCount,
             FrameOrder, FrameUnreported, FrameOwnCompletion, FrameInSubmissionOrder,
             FrameNothingLeftQueued, FrameBatchCallbackOnce DEF Safe

-----------------------------------------------------------------------------
(* Two workers never have tasks of one request.                            *)
LEMMA OneHolder ==
  ASSUME TypeInv, Safe, NEW w \in Workers, NEW v \in Workers, Working(w), Working(v),
         cur[w].req = cur[v].req
  PROVE  w = v /\ ctx[cur[w].req] # NoCtx
  <1>1. cur[w].req \in Requests
    BY TaskFields DEF TypeInv, Basics
  <1> QED BY <1>1 DEF Safe, Home

(* A wakeup that finds no task is used up.                                 *)
LEMMA WorkerTakesNothing ==
  ASSUME TypeInv, Safe, NEW w \in Workers, WorkerTake(w),
         PopIndex(queue[w], Head(pend[w])) = 0
  PROVE  Safe'
  <1>1. /\ UNCHANGED <<queue, cur, tok, ctx, opc, gen, target, removed, due, ppc, ptok, dpc, di,
                       ran, canceled, freed, notified>>
        /\ wpc' = [wpc EXCEPT ![w] = "hold"]
        /\ wpc[w] \in {"ready", "hold"}
        /\ pend' = [pend EXCEPT ![w] = Tail(@)]
        /\ pend[w] # <<>>
    BY DEF WorkerTake, AtLoopHead, ownerVars, pollVars, destroyVars, fateVars
  <1>2. \A v \in Workers : wpc'[v] = IF v = w THEN "hold" ELSE wpc[v]
    BY <1>1 DEF TypeInv, TypeOK
  <1>3. SameWork /\ SameStage
    BY <1>1, <1>2 DEF SameWork, SameStage
  <1>4. Lives'
    BY <1>1, <1>2 DEF Safe, Lives
  <1>5. \A v \in Workers : ToSet(pend'[v]) \subseteq ToSet(pend[v])
    <2>1. pend[w] \in Seq(Task)
      BY DEF TypeInv, TypeOK
    <2>2. ToSet(Tail(pend[w])) \subseteq ToSet(pend[w])
      BY <2>1, <1>1, TailMembers
    <2> QED BY <1>1, <2>2 DEF TypeInv, TypeOK
  <1>6. Current'
    BY <1>1, <1>5 DEF Safe, Current, Announced
  <1> QED BY <1>1, <1>3, <1>4, <1>6, FrameHome, FrameOnce, FrameSomewhere, FrameKnown, FrameCount,
             FrameOrder, FrameUnreported, FrameOwnCompletion, FrameInSubmissionOrder,
             FrameNothingLeftQueued, FrameBatchCallbackOnce DEF Safe

(* A wakeup that finds a task: the worker takes it.                        *)
LEMMA WorkerTakesTask ==
  ASSUME TypeInv, Safe, NEW w \in Workers, WorkerTake(w),
         PopIndex(queue[w], Head(pend[w])) # 0
  PROVE  Safe'
  <1> DEFINE wake == Head(pend[w])
             p == PopIndex(queue[w], wake)
             t == queue[w][p]
             q == t.req
  <1>1. /\ UNCHANGED <<ctx, opc, gen, target, removed, due, ppc, ptok, dpc, di,
                       ran, canceled, freed, notified>>
        /\ wpc[w] \in {"ready", "hold"}
        /\ pend[w] # <<>>
    BY DEF WorkerTake, AtLoopHead, ownerVars, pollVars, destroyVars, fateVars
  <1>2. /\ pend' = [pend EXCEPT ![w] = Tail(@)]
        /\ queue' = [queue EXCEPT ![w] = RemoveAt(@, p)]
        /\ cur' = [cur EXCEPT ![w] = t]
        /\ tok' = [tok EXCEPT ![w] = wake]
        /\ wpc' = [wpc EXCEPT ![w] = "run"]
    BY DEF WorkerTake
  <1>3. queue[w] \in Seq(Task) /\ pend[w] \in Seq(Task) /\ InOrder(queue[w])
    BY DEF TypeInv, TypeOK, Safe, Order
  <1>4. wake \in Task /\ wake \in ToSet(pend[w]) /\ ToSet(Tail(pend[w])) \subseteq ToSet(pend[w])
    BY <1>1, <1>3, TailMembers, MembersAreTasks
  <1>5. /\ p \in 1 .. Len(queue[w]) /\ Matches(t, wake)
        /\ \A j \in 1 .. Len(queue[w]) : Matches(queue[w][j], wake) => p <= j
    <2>1. p \in 0 .. Len(queue[w]) /\ p # 0
      BY <1>3, PopFinds
    <2>2. p \in 1 .. Len(queue[w])
      BY <2>1, <1>3
    <2> QED BY <2>1, <2>2, <1>3, PopFinds
  <1>6. t \in Task /\ t \in ToSet(queue[w])
    BY <1>3, <1>5 DEF ToSet
  <1>7. ToSet(RemoveAt(queue[w], p)) = ToSet(queue[w]) \ {t} /\ InOrder(RemoveAt(queue[w], p))
    BY <1>3, <1>5, RemoveMembers
  <1> HIDE DEF wake, p, t
  <1>8. q \in Requests /\ wake.req = q /\ (q \in Keyed => t.idx = wake.idx)
    BY <1>5, <1>6, TaskFields DEF Matches
  <1>9. /\ t.gen = gen[q] /\ wake.gen = gen[q] /\ Announced(q)
    BY <1>4, <1>6, <1>8 DEF Safe, Current
  <1>10. ctx[q] # NoCtx /\ ctx[q].worker = w
    BY <1>6, <1>8, <1>9 DEF Safe, Home, Announced
  <1>11. /\ \A v \in Workers : v # w => ToSet(queue'[v]) = ToSet(queue[v]) /\ queue'[v] = queue[v]
         /\ ToSet(queue'[w]) = ToSet(queue[w]) \ {t} /\ queue'[w] = RemoveAt(queue[w], p)
    BY <1>2, <1>7 DEF TypeInv, TypeOK
  <1>12. \A v \in Workers : ToSet(pend'[v]) \subseteq ToSet(pend[v])
    BY <1>2, <1>4 DEF TypeInv, TypeOK
  <1>13. /\ \A v \in Workers : wpc'[v] = IF v = w THEN "run" ELSE wpc[v]
         /\ \A v \in Workers : cur'[v] = IF v = w THEN t ELSE cur[v]
         /\ \A v \in Workers : tok'[v] = IF v = w THEN wake ELSE tok[v]
    BY <1>2 DEF TypeInv, TypeOK
  <1>14. \A v \in Workers : v # w => t \notin ToSet(queue[v])
    BY <1>8, <1>10 DEF Safe, Home
  <1>15. \A v \in Workers : ToSet(queue'[v]) = ToSet(queue[v]) \ {t}
    BY <1>11, <1>14
  <1>16. \A v \in Workers : Working(v) => cur[v].req # q
    BY <1>1, <1>8, <1>10 DEF Safe, Home, Working
  <1>17. Lives'
    BY <1>1, <1>13 DEF Safe, Lives
  <1>18. Home'
    <2> SUFFICES ASSUME NEW x \in Requests
                 PROVE  /\ ctx[x] # NoCtx =>
                             /\ \A v \in Workers : \A u \in ToSet(queue'[v]) :
                                  u.req = x => v = ctx[x].worker
                             /\ \A v \in Workers : wpc'[v] \in {"run", "count"} /\ cur'[v].req = x
                                                    => v = ctx[x].worker
                        /\ ctx[x] = NoCtx =>
                             /\ \A v \in Workers : wpc'[v] \in {"run", "count"} => cur'[v].req # x
                             /\ \A v \in Workers : \A u \in ToSet(queue'[v]) :
                                  u.req = x => opc[x] = "bind" /\ v = target[x]
      BY <1>1 DEF Safe, Home, Working
    <2>1. \A v \in Workers : wpc'[v] \in {"run", "count"} =>
            (v = w /\ cur'[v] = t) \/ (Working(v) /\ cur'[v] = cur[v])
      BY <1>13 DEF Working
    <2>2. \A v \in Workers : ToSet(queue'[v]) \subseteq ToSet(queue[v])
      BY <1>15
    <2>3. x = q => ctx[x] # NoCtx /\ ctx[x].worker = w
      BY <1>10
    <2>4. ASSUME NEW v \in Workers, NEW u \in ToSet(queue'[v]), u.req = x
          PROVE  IF ctx[x] # NoCtx THEN v = ctx[x].worker ELSE opc[x] = "bind" /\ v = target[x]
      BY <2>2, <2>4 DEF Safe, Home
    <2>5. ASSUME NEW v \in Workers, wpc'[v] \in {"run", "count"}, cur'[v].req = x
          PROVE  ctx[x] # NoCtx /\ v = ctx[x].worker
      <3>1. CASE v = w /\ cur'[v] = t
        BY <2>3, <2>5, <3>1
      <3>2. CASE Working(v) /\ cur'[v] = cur[v]
        BY <2>5, <3>2 DEF Safe, Home
      <3> QED BY <2>1, <2>5, <3>1, <3>2
    <2> QED BY ONLY <2>4, <2>5
  <1>19. Current'
    BY <1>1, <1>12, <1>15 DEF Safe, Current, Announced
  <1>20. Once'
    <2>1. Gone' = Gone
      BY <1>1 DEF Gone
    <2>2. t \notin Gone
      BY <1>6 DEF Safe, Once
    <2> QED BY <2>1, <2>2, <1>1, <1>13, <1>15 DEF Safe, Once
  <1>21. Somewhere'
    <2> SUFFICES ASSUME NEW u \in Task PROVE Known(u)' <=> Known(u)
      BY <1>1, FrameSomewhere DEF Safe, SameStage
    <2>1. u \in Gone' <=> u \in Gone
      BY <1>1 DEF Gone
    <2>2. CASE u = t
      BY <2>2, <1>6, <1>13 DEF Known
    <2>3. CASE u # t
      BY <2>1, <2>3, <1>1, <1>13, <1>15 DEF Known
    <2> QED BY <2>2, <2>3
  <1>22. Count'
    <2> SUFFICES ASSUME NEW x \in Requests
                 PROVE  /\ IsFiniteSet(QueuedOf(x)') /\ IsFiniteSet(Holders(x)')
                        /\ ctx[x].pending + (IF opc[x] = "bind" THEN BatchSize ELSE 0)
                             = Cardinality(QueuedOf(x)') + Cardinality(Holders(x)') + removed[x]
      BY <1>1 DEF Count
    <2>1. CASE x # q
      <3>1. QueuedOf(x)' = QueuedOf(x)
        BY <2>1, <1>15 DEF QueuedOf, QueuedTasks
      <3>2. Holders(x)' = Holders(x)
        BY <2>1, <1>1, <1>13 DEF Holders, Working
      <3> QED BY <3>1, <3>2 DEF Safe, Count
    <2>2. CASE x = q
      <3>1. QueuedOf(x)' = QueuedOf(x) \ {t} /\ t \in QueuedOf(x)
        BY <2>2, <1>6, <1>15 DEF QueuedOf, QueuedTasks
      <3>2. Holders(x)' = Holders(x) \cup {w} /\ w \notin Holders(x)
        BY <2>2, <1>1, <1>13 DEF Holders, Working
      <3>3. /\ IsFiniteSet(QueuedOf(x)) /\ IsFiniteSet(Holders(x))
            /\ Cardinality(QueuedOf(x)) \in Nat /\ Cardinality(Holders(x)) \in Nat
        BY FS_CardinalityType DEF Safe, Count
      <3>4. IsFiniteSet(QueuedOf(x)') /\ Cardinality(QueuedOf(x)') = Cardinality(QueuedOf(x)) - 1
        BY <3>1, <3>3, FS_RemoveElement
      <3>5. IsFiniteSet(Holders(x)') /\ Cardinality(Holders(x)') = Cardinality(Holders(x)) + 1
        BY <3>2, <3>3, FS_AddElement
      <3>6. ctx[x].pending + (IF opc[x] = "bind" THEN BatchSize ELSE 0)
              = Cardinality(QueuedOf(x)) + Cardinality(Holders(x)) + removed[x]
        BY DEF Safe, Count
      <3>7. removed[x] \in Nat
        BY DEF TypeInv, TypeOK
      <3> QED BY <3>3, <3>4, <3>5, <3>6, <3>7
    <2> QED BY <2>1, <2>2
  <1>23. Order'
    BY <1>7, <1>11 DEF Safe, Order
  <1>24. Unreported' /\ BatchCallbackOnce'
    BY <1>1, FrameUnreported, FrameBatchCallbackOnce DEF Safe, SameStage
  <1>25. OwnCompletion'
    <2>1. q \in Keyed => t = wake
      <3>1. /\ t = [req |-> t.req, gen |-> t.gen, idx |-> t.idx]
            /\ wake = [req |-> wake.req, gen |-> wake.gen, idx |-> wake.idx]
        BY <1>4, <1>6 DEF Task
      <3> QED BY <3>1, <1>8, <1>9
    <2> QED BY <2>1, <1>8, <1>13 DEF Safe, OwnCompletion, Working
  <1>26. InSubmissionOrder'
    <2>1. ASSUME q \notin Keyed, NEW i \in 1 .. t.idx - 1
          PROVE  [t EXCEPT !.idx = i] \in ran \cup canceled
      <3> DEFINE u == [t EXCEPT !.idx = i]
      <3>1. u \in Task /\ u.req = q /\ u.gen = t.gen /\ u.idx = i /\ i < t.idx /\ i \in Int
        BY <2>1, <1>6, BatchAssumption DEF Task
      <3> HIDE DEF u
      <3>2. Known(u)
        BY <3>1, <1>6, <1>8 DEF Safe, Somewhere, Entered, Known
      <3>3. ASSUME NEW v \in Workers, u \in ToSet(queue[v]) PROVE FALSE
        <4>1. v = w
          BY <3>1, <3>3, <1>8, <1>10 DEF Safe, Home
        <4>2. PICK j \in 1 .. Len(queue[w]) : queue[w][j] = u
          BY <4>1, <3>3, <1>3 DEF ToSet
        <4>3. Matches(queue[w][j], wake)
          BY <4>2, <3>1, <2>1, <1>8 DEF Matches
        <4>4. p <= j /\ p # j
          BY <4>2, <4>3, <3>1, <1>5 DEF t
        <4>5. p < j
          BY <4>4, <1>5
        <4>6. t.idx < u.idx
          BY <4>2, <4>5, <3>1, <1>3, <1>5 DEF InOrder, t
        <4>7. t.idx \in Int
          BY <1>6, BatchAssumption DEF Task
        <4> QED BY <4>6, <4>7, <3>1
      <3>4. \A v \in Workers : wpc[v] = "run" => cur[v] # u
        BY <3>1, <1>16 DEF Working
      <3>5. u \notin freed
        BY <1>1 DEF Safe, Lives
      <3>6. u \in ran \cup canceled
        BY <3>2, <3>3, <3>4, <3>5 DEF Known, Gone
      <3> QED BY <3>6 DEF u
    <2>2. ASSUME NEW u \in ran' \cup {cur'[v] : v \in {v \in Workers : wpc'[v] \in {"run", "count"}}},
                 u.req \notin Keyed, NEW i \in 1 .. u.idx - 1
          PROVE  [u EXCEPT !.idx = i] \in ran' \cup canceled'
      <3>1. CASE u = t
        BY <3>1, <2>1, <2>2, <1>1
      <3>2. CASE u # t
        <4>1. u \in ran \cup {cur[v] : v \in {v \in Workers : Working(v)}}
          BY <3>2, <1>1, <1>13 DEF Working
        <4> QED BY <4>1, <2>2, <1>1 DEF Safe, InSubmissionOrder
      <3> QED BY <3>1, <3>2
    <2> QED BY <2>2 DEF InSubmissionOrder, Working
  <1>27. NothingLeftQueued'
    BY <1>1, <1>15 DEF Safe, NothingLeftQueued, QueuedTasks
  <1> QED BY <1>17, <1>18, <1>19, <1>20, <1>21, <1>22, <1>23, <1>24, <1>25, <1>26, <1>27 DEF Safe

(* The function of a task returns.                                         *)
LEMMA WorkerRunKeepsSafe ==
  ASSUME TypeInv, Safe, NEW w \in Workers, WorkerRun(w)
  PROVE  Safe'
  <1>1. /\ UNCHANGED <<queue, pend, cur, tok, ctx, opc, gen, target, removed, due, ppc, ptok, dpc,
                       di, canceled, freed, notified>>
        /\ wpc[w] = "run" /\ ran' = ran \cup {cur[w]}
    BY DEF WorkerRun, ownerVars, pollVars, destroyVars
  <1>2. \A v \in Workers : wpc'[v] = IF v = w THEN "count" ELSE wpc[v]
    BY DEF WorkerRun, TypeInv, TypeOK
  <1>3. \A v \in Workers : (wpc'[v] \in {"run", "count"}) = (wpc[v] \in {"run", "count"})
    BY <1>1, <1>2
  <1>4. cur[w] \in Task
    BY <1>1 DEF TypeInv, Basics, Working
  <1>5. SameStage
    BY <1>1 DEF SameStage
  <1>6. Lives'
    BY <1>1, <1>2 DEF Safe, Lives
  <1>7. Home'
    BY <1>1, <1>3 DEF Safe, Home, Working
  <1>8. Current'
    BY <1>1, <1>5, FrameCurrent DEF Safe, TypeInv
  <1>9. \A v \in Workers : v # w /\ wpc[v] = "run" => cur[v] # cur[w]
    BY <1>1, OneHolder DEF Working
  <1>10. Once'
    <2>1. Gone' = Gone \cup {cur[w]}
      BY <1>1 DEF Gone
    <2>2. \A v \in Workers : cur[w] \notin ToSet(queue[v])
      BY <1>1 DEF Safe, Once
    <2>3. cur[w] \notin canceled /\ cur[w] \notin freed
      BY <1>1 DEF Safe, Once, Gone
    <2> QED BY <2>1, <2>2, <2>3, <1>1, <1>2, <1>9 DEF Safe, Once
  <1>11. Somewhere'
    <2> SUFFICES ASSUME NEW u \in Task PROVE Known(u)' <=> Known(u)
      BY <1>1, <1>5, FrameSomewhere DEF Safe
    <2>1. u \in Gone' <=> u \in Gone \/ u = cur[w]
      BY <1>1 DEF Gone
    <2> QED BY <2>1, <1>1, <1>2 DEF Known
  <1>12. Count'
    <2>1. \A x \in Requests : Holders(x)' = Holders(x)
      BY <1>1, <1>3 DEF Holders, Working
    <2>2. \A x \in Requests : QueuedOf(x)' = QueuedOf(x)
      BY <1>1 DEF QueuedOf, QueuedTasks
    <2> QED BY <2>1, <2>2, <1>1 DEF Safe, Count
  <1>13. Order' /\ Unreported' /\ NothingLeftQueued' /\ BatchCallbackOnce'
    BY <1>1, <1>5, FrameOrder, FrameUnreported, FrameNothingLeftQueued, FrameBatchCallbackOnce
       DEF Safe
  <1>14. OwnCompletion'
    BY <1>1, <1>3 DEF Safe, OwnCompletion, Working
  <1>15. InSubmissionOrder'
    <2> SUFFICES ASSUME NEW u \in ran' \cup {cur[v] : v \in {v \in Workers : wpc'[v] \in {"run", "count"}}},
                        u.req \notin Keyed, NEW i \in 1 .. u.idx - 1
                 PROVE  [u EXCEPT !.idx = i] \in ran' \cup canceled'
      BY <1>1 DEF InSubmissionOrder, Working
    <2>1. u \in ran \cup {cur[v] : v \in {v \in Workers : Working(v)}}
      BY <1>1, <1>3 DEF Working
    <2> QED BY <2>1, <1>1 DEF Safe, InSubmissionOrder
  <1> QED BY <1>6, <1>7, <1>8, <1>10, <1>11, <1>12, <1>13, <1>14, <1>15 DEF Safe

(* A task that has run is counted off its context; the last one removes it *)
(* and calls the batch callback.                                           *)
LEMMA WorkerCountKeepsSafe ==
  ASSUME TypeInv, Safe, NEW w \in Workers, WorkerCount(w)
  PROVE  Safe'
  <1> DEFINE c == ctx[tok[w].req]
  <1>1. /\ UNCHANGED <<queue, pend, opc, gen, target, removed, due, ppc, ptok, dpc, di,
                       ran, canceled, freed>>
        /\ wpc[w] = "count" /\ Working(w)
    BY DEF WorkerCount, Working, ownerVars, pollVars, destroyVars
  <1>2. PICK r \in Requests : r = tok[w].req /\ r = cur[w].req
    BY <1>1, TaskFields DEF TypeInv, Basics, Safe, OwnCompletion
  <1>3. c # NoCtx /\ c.worker = w
    BY <1>1, <1>2 DEF Safe, Home
  <1>4. \A v \in Workers : v # w /\ Working(v) => cur[v].req # r
    BY <1>1, <1>2, OneHolder
  <1>5. /\ \A v \in Workers : wpc'[v] = IF v = w THEN "ready" ELSE wpc[v]
        /\ \A v \in Workers : v # w => cur'[v] = cur[v] /\ tok'[v] = tok[v]
    BY DEF WorkerCount, TypeInv, TypeOK
  <1>6. Holders(r) = {w}
    BY <1>1, <1>2, <1>4 DEF Holders
  <1>7. IsFiniteSet(Holders(r)) /\ Cardinality(Holders(r)) = 1
    BY <1>6, FS_Singleton
  <1>8. Holders(r)' = {}
    BY <1>4, <1>5 DEF Holders, Working
  <1>9. IsFiniteSet(Holders(r)') /\ Cardinality(Holders(r)') = 0
    BY <1>8, FS_EmptySet
  <1>10. /\ c \in Contexts /\ c.pending \in Nat /\ c.batch = gen[r] /\ gen[r] \in 1 .. MaxBatches
         /\ opc[r] \notin {"scan", "attach", "bind"} /\ removed[r] \in Nat
    <2>1. c \in Contexts /\ c.pending \in Nat /\ removed[r] \in Nat
      BY <1>2 DEF TypeInv, TypeOK, Contexts
    <2>2. c.batch = gen[r] /\ opc[r] \notin {"scan", "attach", "bind"}
      BY <1>2, <1>3 DEF Safe, Unreported, Home
    <2>3. c.batch > 0 /\ c.batch \in 0 .. MaxBatches
      BY <1>2, <1>3, <2>1 DEF TypeInv, Basics, Contexts
    <2> QED BY <2>1, <2>2, <2>3, BatchAssumption
  <1>11. /\ IsFiniteSet(QueuedOf(r)) /\ Cardinality(QueuedOf(r)) \in Nat
         /\ Cardinality(QueuedOf(r)) = 0 <=> QueuedOf(r) = {}
    BY <1>2, FS_CardinalityType, FS_EmptySet DEF Safe, Count
  <1>12. c.pending = Cardinality(QueuedOf(r)) + 1 + removed[r]
    BY <1>2, <1>7, <1>10, <1>11 DEF Safe, Count
  <1>13. /\ \A x \in Requests : x # r => ctx'[x] = ctx[x] /\ notified'[x] = notified[x]
         /\ LastOne(c) => /\ ctx'[r] = NoCtx
                          /\ notified' = [notified EXCEPT ![r][c.batch] = @ + 1]
         /\ ~LastOne(c) => ctx' = [ctx EXCEPT ![r].pending = @ - 1] /\ notified' = notified
    <2>1. CASE LastOne(c)
      <3>1. ctx' = [ctx EXCEPT ![r] = NoCtx] /\ notified' = [notified EXCEPT ![r][c.batch] = @ + 1]
        BY ONLY <1>2, <1>3, <2>1, WorkerCount(w) DEF WorkerCount
      <3> QED BY <3>1, <2>1, <1>2 DEF TypeInv, TypeOK
    <2>2. CASE ~LastOne(c)
      <3>1. ctx' = [ctx EXCEPT ![r].pending = @ - 1] /\ notified' = notified
        BY ONLY <1>2, <1>3, <2>2, WorkerCount(w) DEF WorkerCount
      <3> QED BY <3>1, <2>2, <1>2 DEF TypeInv, TypeOK
    <2> QED BY <2>1, <2>2
  <1>14. ~LastOne(c) => /\ ctx'[r].pending = c.pending - 1 /\ ctx'[r].worker = w
                        /\ ctx'[r].batch = c.batch /\ ctx'[r] # NoCtx
    <2> SUFFICES ASSUME ~LastOne(c)
                 PROVE  /\ ctx'[r].pending = c.pending - 1 /\ ctx'[r].worker = w
                        /\ ctx'[r].batch = c.batch /\ ctx'[r] # NoCtx
      OBVIOUS
    <2>1. ctx'[r] = [c EXCEPT !.pending = c.pending - 1]
      BY <1>2, <1>13 DEF TypeInv, TypeOK
    <2>2. c.pending - 1 \in Nat
      BY <1>10, <1>11, <1>12
    <2> QED BY <2>1, <2>2, <1>3, <1>10, WorkerNumbers, ContextCounts
  <1> HIDE DEF c
  <1>15. LastOne(c) => QueuedOf(r) = {} /\ removed[r] = 0
    BY <1>10, <1>11, <1>12 DEF LastOne
  <1>16. Lives'
    BY <1>1, <1>5 DEF Safe, Lives
  <1>17. Home'
    <2> SUFFICES ASSUME NEW x \in Requests
                 PROVE  /\ ctx'[x] # NoCtx =>
                             /\ opc[x] \notin {"scan", "attach", "bind"}
                             /\ \A v \in Workers : \A t \in ToSet(queue[v]) :
                                  t.req = x => v = ctx'[x].worker
                             /\ \A v \in Workers : wpc'[v] \in {"run", "count"} /\ cur'[v].req = x
                                                    => v = ctx'[x].worker
                             /\ opc[x] = "remove" => target[x] = ctx'[x].worker
                        /\ ctx'[x] = NoCtx =>
                             /\ \A v \in Workers : wpc'[v] \in {"run", "count"} => cur'[v].req # x
                             /\ \A v \in Workers : \A t \in ToSet(queue[v]) :
                                  t.req = x => opc[x] = "bind" /\ v = target[x]
      BY <1>1 DEF Home, Working
    <2>1. CASE x # r
      <3>1. \A v \in Workers : wpc'[v] \in {"run", "count"} /\ cur'[v].req = x
                                => Working(v) /\ cur[v].req = x
        BY <1>5 DEF Working
      <3> QED BY <2>1, <3>1, <1>13 DEF Safe, Home
    <2>2. CASE x = r
      <3>1. \A v \in Workers : ~(wpc'[v] \in {"run", "count"} /\ cur'[v].req = r)
        BY <1>8 DEF Holders, Working
      <3>2. CASE LastOne(c)
        <4>1. \A v \in Workers : \A t \in ToSet(queue[v]) : t.req # r
          BY <3>2, <1>15 DEF QueuedOf, QueuedTasks
        <4> QED BY <2>2, <3>1, <3>2, <4>1, <1>13
      <3>3. CASE ~LastOne(c)
        <4>1. ctx'[r] # NoCtx /\ ctx'[r].worker = ctx[r].worker
          BY <3>3, <1>2, <1>3, <1>14 DEF c
        <4> QED BY <2>2, <3>1, <4>1, <1>2, <1>3 DEF Safe, Home, c
      <3> QED BY <3>2, <3>3
    <2> QED BY <2>1, <2>2
  <1>18. Current' /\ Order' /\ NothingLeftQueued'
    BY <1>1, FrameCurrent, FrameOrder, FrameNothingLeftQueued DEF Safe, TypeInv, SameStage
  <1>19. Once'
    <2>1. Gone' = Gone
      BY <1>1 DEF Gone
    <2> QED BY <2>1, <1>1, <1>5 DEF Safe, Once
  <1>20. Somewhere'
    <2> SUFFICES ASSUME NEW u \in Task PROVE Known(u)' <=> Known(u)
      BY <1>1, FrameSomewhere DEF Safe, SameStage
    <2>1. u \in Gone' <=> u \in Gone
      BY <1>1 DEF Gone
    <2> QED BY <2>1, <1>1, <1>5 DEF Known
  <1>21. Count'
    <2> SUFFICES ASSUME NEW x \in Requests
                 PROVE  /\ IsFiniteSet(QueuedOf(x)') /\ IsFiniteSet(Holders(x)')
                        /\ ctx'[x].pending + (IF opc[x] = "bind" THEN BatchSize ELSE 0)
                             = Cardinality(QueuedOf(x)') + Cardinality(Holders(x)') + removed[x]
      BY <1>1 DEF Count
    <2>1. QueuedOf(x)' = QueuedOf(x)
      BY <1>1 DEF QueuedOf, QueuedTasks
    <2>2. CASE x # r
      <3>1. Holders(x)' = Holders(x)
        BY <2>2, <1>1, <1>2, <1>5 DEF Holders, Working
      <3> QED BY <2>1, <2>2, <3>1, <1>13 DEF Safe, Count
    <2>3. CASE x = r
      <3>1. CASE LastOne(c)
        <4>1. ctx'[r].pending = 0 /\ Cardinality(QueuedOf(r)) = 0 /\ removed[r] = 0
          BY <3>1, <1>11, <1>13, <1>15, NoContext
        <4>2. QueuedOf(r)' = QueuedOf(r)
          BY <2>1, <2>3
        <4> QED BY <2>3, <4>1, <4>2, <1>9, <1>10, <1>11
      <3>2. CASE ~LastOne(c)
        <4>1. ctx'[r].pending = Cardinality(QueuedOf(r)) + removed[r]
          BY <3>2, <1>10, <1>11, <1>12, <1>14
        <4>2. QueuedOf(r)' = QueuedOf(r)
          BY <2>1, <2>3
        <4> QED BY <2>3, <4>1, <4>2, <1>9, <1>10, <1>11
      <3> QED BY <3>1, <3>2
    <2> QED BY <2>2, <2>3
  <1>22. notified \in [Requests -> [1 .. MaxBatches -> Nat]]
    BY DEF TypeInv, TypeOK
  <1>23. LastOne(c) => \A g \in 1 .. MaxBatches :
           notified'[r][g] = IF g = gen[r] THEN notified[r][g] + 1 ELSE notified[r][g]
    <2> SUFFICES ASSUME LastOne(c), NEW g \in 1 .. MaxBatches
                 PROVE  notified'[r][g] = IF g = gen[r] THEN notified[r][g] + 1 ELSE notified[r][g]
      OBVIOUS
    <2>1. notified' = [notified EXCEPT ![r][gen[r]] = @ + 1]
      BY <1>10, <1>13
    <2>2. notified'[r] = [notified[r] EXCEPT ![gen[r]] = @ + 1]
      BY <2>1, <1>2, <1>22
    <2>3. notified[r] \in [1 .. MaxBatches -> Nat]
      BY <1>2, <1>22
    <2> QED BY <2>2, <2>3, <1>10
  <1>24. Unreported'
    <2> SUFFICES ASSUME NEW x \in Requests
                 PROVE  /\ ctx'[x] # NoCtx => ctx'[x].batch = gen[x]
                        /\ \A g \in 1 .. MaxBatches :
                             (\/ g > gen[x]
                              \/ g = gen[x] /\ (\/ ctx'[x] # NoCtx
                                               \/ opc[x] \in {"scan", "attach", "bind"}))
                                => notified'[x][g] = 0
      BY <1>1 DEF Unreported
    <2>1. CASE x # r
      BY <2>1, <1>13 DEF Safe, Unreported
    <2>2. CASE x = r /\ LastOne(c)
      BY <2>2, <1>10, <1>13, <1>23 DEF Safe, Unreported
    <2>3. CASE x = r /\ ~LastOne(c)
      BY <2>3, <1>2, <1>3, <1>10, <1>13, <1>14 DEF Safe, Unreported, c
    <2> QED BY <2>1, <2>2, <2>3
  <1>25. OwnCompletion'
    BY <1>5 DEF Safe, OwnCompletion, Working
  <1>26. InSubmissionOrder'
    <2>1. {cur'[v] : v \in {v \in Workers : wpc'[v] \in {"run", "count"}}}
            \subseteq {cur[v] : v \in {v \in Workers : Working(v)}}
      BY <1>5 DEF Working
    <2> QED BY <2>1, <1>1 DEF Safe, InSubmissionOrder, Working
  <1>27. BatchCallbackOnce'
    <2> SUFFICES ASSUME NEW x \in Requests, NEW g \in 1 .. MaxBatches
                 PROVE  /\ notified'[x][g] <= 1
                        /\ notified'[x][g] = 1 =>
                             {t \in Task : t.req = x /\ t.gen = g} \subseteq ran \cup canceled
      BY <1>1 DEF BatchCallbackOnce
    <2>1. CASE notified'[x][g] = notified[x][g]
      BY <2>1 DEF Safe, BatchCallbackOnce
    <2>2. CASE notified'[x][g] # notified[x][g]
      <3>1. x = r /\ LastOne(c) /\ g = gen[r]
        BY <2>2, <1>13, <1>23
      <3>2. notified[x][g] = 0
        BY <3>1, <1>2, <1>3 DEF Safe, Unreported, c
      <3>3. notified'[x][g] = 1
        BY <3>1, <3>2, <1>23
      <3>4. ASSUME NEW t \in Task, t.req = r, t.gen = gen[r] PROVE t \in ran \cup canceled
        <4>1. Known(t)
          BY <3>4, <1>2, <1>10 DEF Safe, Somewhere, Entered, Unborn
        <4>2. \A v \in Workers : t \notin ToSet(queue[v])
          BY <3>1, <3>4, <1>15 DEF QueuedOf, QueuedTasks
        <4>3. \A v \in Workers : wpc[v] = "run" => cur[v] # t
          BY <3>4, <1>1, <1>4 DEF Working
        <4>4. t \notin freed
          BY <1>1 DEF Safe, Lives
        <4> QED BY <4>1, <4>2, <4>3, <4>4 DEF Known, Gone
      <3> QED BY <3>1, <3>3, <3>4
    <2> QED BY <2>1, <2>2
  <1> QED BY <1>16, <1>17, <1>18, <1>19, <1>20, <1>21, <1>24, <1>25, <1>26, <1>27 DEF Safe

-----------------------------------------------------------------------------
(* The pool goes, with what is left in its queues.                         *)
LEMMA DestroyAllKeepsSafe ==
  ASSUME TypeInv, Safe, DestroyAll
  PROVE  Safe'
  <1>1. /\ UNCHANGED <<cur, tok, opc, gen, target, removed, due, ppc, ptok, wpc, di,
                       ran, canceled, notified>>
        /\ dpc = "join" /\ dpc' = "gone"
        /\ \A w \in Workers : wpc[w] \in {"exited", "none"}
        /\ freed' = UNION {ToSet(queue[w]) : w \in Workers}
    BY DEF DestroyAll, ownerVars, pollVars
  <1>2. \A w \in Workers : queue'[w] = <<>> /\ pend'[w] = <<>>
    BY DEF DestroyAll
  <1>3. ToSet(<<>>) = {}
    BY DEF ToSet
  <1>4. \A w \in Workers : ToSet(queue'[w]) = {} /\ ToSet(pend'[w]) = {}
    BY <1>2, <1>3
  <1>5. \A r \in Requests : ctx'[r] = NoCtx
    BY DEF DestroyAll
  <1>6. freed = {} /\ \A r \in Requests : opc[r] \in {"idle", "bound"} /\ removed[r] = 0
    BY <1>1 DEF Safe, Lives
  <1>7. \A w \in Workers : ~Working(w)
    BY <1>1 DEF Working
  <1>8. SameWork /\ SameStage
    BY <1>1 DEF SameWork, SameStage
  <1>9. Lives'
    BY <1>1, <1>6 DEF Lives
  <1>10. Home'
    BY <1>1, <1>4, <1>5, <1>7 DEF Home, Working
  <1>11. Current'
    BY <1>1, <1>4 DEF Safe, Current, Announced
  <1>12. Once'
    BY <1>1, <1>4, <1>6 DEF Safe, Once, Gone
  <1>13. Somewhere'
    <2> SUFFICES ASSUME NEW t \in Task PROVE Known(t)' <=> Known(t)
      BY <1>1, <1>8, FrameSomewhere DEF Safe
    <2>1. t \in Gone' <=> t \in Gone \/ \E w \in Workers : t \in ToSet(queue[w])
      BY <1>1, <1>6 DEF Gone
    <2> QED BY <2>1, <1>1, <1>4 DEF Known
  <1>14. Count'
    <2> SUFFICES ASSUME NEW r \in Requests
                 PROVE  /\ IsFiniteSet(QueuedOf(r)') /\ IsFiniteSet(Holders(r)')
                        /\ ctx'[r].pending + (IF opc[r] = "bind" THEN BatchSize ELSE 0)
                             = Cardinality(QueuedOf(r)') + Cardinality(Holders(r)') + removed[r]
      BY <1>1 DEF Count
    <2>1. QueuedOf(r)' = {}
      BY <1>4 DEF QueuedOf, QueuedTasks
    <2>2. Holders(r)' = {}
      BY <1>1 DEF Holders, Working
    <2>3. opc[r] # "bind" /\ removed[r] = 0
      BY <1>6
    <2> QED BY <2>1, <2>2, <2>3, <1>5, NoContext, FS_EmptySet
  <1>15. Order'
    BY <1>2 DEF Order, InOrder
  <1>16. Unreported'
    BY <1>1, <1>5 DEF Safe, Unreported
  <1>17. NothingLeftQueued'
    BY <1>4 DEF NothingLeftQueued, QueuedTasks
  <1> QED BY <1>1, <1>8, <1>9, <1>10, <1>11, <1>12, <1>13, <1>14, <1>15, <1>16, <1>17,
             FrameOwnCompletion, FrameInSubmissionOrder, FrameBatchCallbackOnce DEF Safe

(* The start.                                                              *)
LEMMA InitSafe ==
  ASSUME Init
  PROVE  Safe
  <1>1. \A w \in Workers : ToSet(queue[w]) = {} /\ ToSet(pend[w]) = {} /\ queue[w] = <<>>
    BY DEF Init, ToSet
  <1>2. /\ \A w \in Workers : wpc[w] = "none" /\ ~Working(w)
        /\ \A r \in Requests : ctx[r] = NoCtx /\ opc[r] = "idle" /\ gen[r] = 0 /\ removed[r] = 0
        /\ dpc = "create" /\ ran = {} /\ canceled = {} /\ freed = {} /\ due = {} /\ ppc = "idle"
    BY DEF Init, Working
  <1>3. \A r \in Requests, g \in 1 .. MaxBatches : notified[r][g] = 0
    BY DEF Init
  <1>4. Lives /\ Home /\ Current /\ Once
    BY <1>1, <1>2 DEF Lives, Home, Current, Once, Gone
  <1>5. Somewhere
    <2> SUFFICES ASSUME NEW t \in Task PROVE Known(t) <=> Entered(t)
      BY DEF Somewhere
    <2>1. ~Known(t)
      BY <1>1, <1>2 DEF Known, Gone
    <2>2. ~Entered(t)
      BY <1>2, TaskFields, BatchAssumption DEF Entered
    <2> QED BY <2>1, <2>2
  <1>6. Count
    <2>1. \A r \in Requests : QueuedOf(r) = {} /\ Holders(r) = {}
      BY <1>1, <1>2 DEF QueuedOf, QueuedTasks, Holders
    <2> QED BY <2>1, <1>2, NoContext, FS_EmptySet DEF Count
  <1>7. Order /\ Unreported
    BY <1>1, <1>2, <1>3 DEF Order, InOrder, Unreported
  <1>8. OwnCompletion /\ InSubmissionOrder /\ NothingLeftQueued
    BY <1>1, <1>2 DEF OwnCompletion, InSubmissionOrder, NothingLeftQueued, QueuedTasks
  <1>9. BatchCallbackOnce
    BY <1>3 DEF BatchCallbackOnce
  <1> QED BY <1>4, <1>5, <1>6, <1>7, <1>8, <1>9 DEF Safe

-----------------------------------------------------------------------------
(* Types are right, whatever the owners do.                                *)
LEMMA StepTypeInv ==
  ASSUME TypeInv, [Next]_vars
  PROVE  TypeInv'
  <1>1. CASE UNCHANGED vars
    BY <1>1, OthersKeepTypeInv
  <1>2. CASE Next
    BY <1>2, NextCases, OwnersKeepTypeInv, WorkersKeepTypeInv, OthersKeepTypeInv
  <1> QED BY <1>1, <1>2

(* Every step keeps the invariant, when owners reuse identifiers carefully.*)
LEMMA StepSafe ==
  ASSUME TypeInv, TypeInv', Safe, CarefulReuse, [Next]_vars
  PROVE  Safe'
  <1>1. CASE UNCHANGED vars
    BY <1>1, QuietOthersKeepSafe
  <1>2. ASSUME NEW r \in Requests, SubmitBegin(r) \/ AllRan(r) \/ CancelFind(r) \/ OwnerStep(r)
        PROVE  Safe'
    BY <1>2, SubmitBeginKeepsSafe, OwnerMovesKeepSafe, AttachNodesKeepsSafe,
       UpdateBatchContextKeepsSafe, CancelInWorkerQueueKeepsSafe,
       UpdateContextAfterCancelKeepsSafe DEF OwnerStep
  <1>3. ASSUME NEW w \in Workers, WorkerStep(w) \/ WorkerSpurious(w)
        PROVE  Safe'
    BY <1>3, QuietWorkersKeepSafe, WorkerTakesNothing, WorkerTakesTask, WorkerRunKeepsSafe,
       WorkerCountKeepsSafe DEF WorkerStep
  <1>4. CASE InitStep \/ CreatorSpurious \/ DestroyBegin \/ DestroyStep
    BY <1>4, QuietOthersKeepSafe, DestroyAllKeepsSafe DEF DestroyStep
  <1>5. CASE (\E t \in due : WakeFind(t)) \/ WakePush
    BY <1>5, WakeupsKeepSafe
  <1>6. CASE Next
    BY <1>1, <1>2, <1>3, <1>4, <1>5, <1>6, NextCases
  <1> QED BY <1>1, <1>6

(* The inductive invariant.                                                *)
THEOREM PoolInvariant == Spec => []IInv
  <1>1. Init => IInv
    BY InitTypeInv, InitSafe DEF IInv
  <1>2. IInv /\ [Next]_vars => IInv'
    BY StepTypeInv, StepSafe DEF IInv
  <1> QED BY <1>1, <1>2, PTL DEF Spec

(* TypeOK, for every way to use the pool.                                  *)
THEOREM PoolTypeCorrect == Spec => []TypeOK
  <1>1. IInv => TypeOK
    BY DEF IInv, TypeInv
  <1> QED BY <1>1, PoolInvariant, PTL

(* pending_count of a request context is exactly the number of the tasks   *)
(* of its request that are queued or running.                              *)
THEOREM PoolCountsExactly == Spec => [](CarefulReuse => PendingCountExact)
  <1>1. IInv => (CarefulReuse => PendingCountExact)
    BY DEF IInv, Safe, Count, PendingCountExact, Outstanding, QueuedOf, Holders
  <1> QED BY <1>1, PoolInvariant, PTL

(* The tasks of a request are all bound to the worker its context names.   *)
THEOREM PoolBindsTogether == Spec => [](CarefulReuse => BoundTogether)
  <1>1. IInv => (CarefulReuse => BoundTogether)
    <2> SUFFICES ASSUME IInv, CarefulReuse, NEW w \in Workers, NEW i \in DOMAIN queue[w],
                        opc[queue[w][i].req] # "bind"
                 PROVE  ctx[queue[w][i].req].worker = w
      BY DEF BoundTogether
    <2>1. queue[w][i] \in ToSet(queue[w])
      BY DEF ToSet
    <2>2. queue[w][i].req \in Requests
      BY <2>1, MembersAreTasks, TaskFields DEF IInv, TypeInv, TypeOK
    <2> QED BY <2>1, <2>2 DEF IInv, Safe, Home
  <1> QED BY <1>1, PoolInvariant, PTL

(* A task runs for a completion of its own request, on the receive side for*)
(* its own completion.  An owner that waits for everything leaves no stale *)
(* completion behind, so that the other half of RunsForItsCompletion, the  *)
(* completions of cancelled tasks, is not needed; the run pool_reuse checks*)
(* it where they are there.                                                *)
THEOREM PoolRunsForCompletion ==
  Spec => [](CarefulReuse => OwnCompletion /\ RunsForItsCompletion)
  <1>1. IInv => (CarefulReuse => OwnCompletion /\ RunsForItsCompletion)
    BY DEF IInv, Safe, OwnCompletion, RunsForItsCompletion
  <1> QED BY <1>1, PoolInvariant, PTL

(* Without a match key, the tasks of a batch start in order.               *)
THEOREM PoolKeepsOrder == Spec => [](CarefulReuse => InSubmissionOrder)
  <1>1. IInv => (CarefulReuse => InSubmissionOrder)
    BY DEF IInv, Safe
  <1> QED BY <1>1, PoolInvariant, PTL

(* A cancellation that has returned has left nothing in the queues.        *)
THEOREM PoolCancelsAll == Spec => [](CarefulReuse => NothingLeftQueued)
  <1>1. IInv => (CarefulReuse => NothingLeftQueued)
    BY DEF IInv, Safe
  <1> QED BY <1>1, PoolInvariant, PTL

(* The batch callback is called at most once for a batch, when nothing of  *)
(* it is queued or running.                                                *)
THEOREM PoolReportsOnce == Spec => [](CarefulReuse => BatchCallbackOnce)
  <1>1. IInv => (CarefulReuse => BatchCallbackOnce)
    BY DEF IInv, Safe
  <1> QED BY <1>1, PoolInvariant, PTL

-----------------------------------------------------------------------------
(* The three places that Times looks at: the queues, the workers and what  *)
(* has become of tasks.                                                    *)
Places(t) == {p \in UNION {{w} \X DOMAIN queue[w] : w \in Workers} : queue[p[1]][p[2]] = t}
Runners(t) == {w \in Workers : wpc[w] = "run" /\ cur[w] = t}
Fates(t) == {f \in {"ran", "canceled", "freed"} :
               t \in CASE f = "ran" -> ran [] f = "canceled" -> canceled
                      [] f = "freed" -> freed}

(* A task stands at one position of one queue if it is queued at all ...   *)
LEMMA OnePlace ==
  ASSUME TypeInv, Safe, NEW t \in Task
  PROVE  /\ (\E w \in Workers : t \in ToSet(queue[w])) => \E x : Places(t) = {x}
         /\ (\A w \in Workers : t \notin ToSet(queue[w])) => Places(t) = {}
  <1>1. \A w \in Workers : queue[w] \in Seq(Task) /\ InOrder(queue[w])
    BY DEF TypeInv, TypeOK, Safe, Order
  <1>2. \A w \in Workers : DOMAIN queue[w] = 1 .. Len(queue[w])
    BY <1>1
  <1>3. ASSUME NEW p \in Places(t)
        PROVE  \E w \in Workers : \E i \in 1 .. Len(queue[w]) : p = <<w, i>> /\ queue[w][i] = t
    BY <1>2 DEF Places
  <1>4. \A w \in Workers : \A i \in 1 .. Len(queue[w]) : queue[w][i] = t => <<w, i>> \in Places(t)
    BY <1>2 DEF Places
  <1>5. \A w \in Workers : ToSet(queue[w]) = {queue[w][i] : i \in 1 .. Len(queue[w])}
    BY <1>2 DEF ToSet
  <1>6. ASSUME NEW w \in Workers, t \in ToSet(queue[w])
        PROVE  \E x : Places(t) = {x}
    <2>1. PICK i \in 1 .. Len(queue[w]) : queue[w][i] = t
      BY <1>5, <1>6
    <2>2. ASSUME NEW p \in Places(t) PROVE p = <<w, i>>
      <3>0. PICK v \in Workers : \E j \in 1 .. Len(queue[v]) : p = <<v, j>> /\ queue[v][j] = t
        BY <1>3
      <3>1. PICK j \in 1 .. Len(queue[v]) : p = <<v, j>> /\ queue[v][j] = t
        BY <3>0
      <3>2. t \in ToSet(queue[v])
        BY <3>1, <1>5
      <3>3. v = w
        BY <3>2, <1>6, TaskFields DEF Safe, Home
      <3>4. j = i
        BY <3>1, <3>3, <2>1, <1>1, InOrderDistinct
      <3> QED BY <3>1, <3>3, <3>4
    <2> QED BY <2>1, <2>2, <1>4
  <1>7. ASSUME \A w \in Workers : t \notin ToSet(queue[w]) PROVE Places(t) = {}
    BY <1>3, <1>5, <1>7
  <1> QED BY <1>6, <1>7

(* ... is run by one worker if it is running ...                           *)
LEMMA OneRunner ==
  ASSUME TypeInv, Safe, NEW t \in Task
  PROVE  Runners(t) = {} \/ \E x : Runners(t) = {x}
  <1>1. \A v, w \in Runners(t) : v = w
    BY OneHolder DEF Runners, Working
  <1> QED BY <1>1

(* ... and has one fate if it has any.                                     *)
LEMMA OneFate ==
  ASSUME Safe, NEW t \in Task
  PROVE  /\ t \in Gone => \E x : Fates(t) = {x}
         /\ t \notin Gone => Fates(t) = {}
  <1>1. Fates(t) = {f \in {"ran", "canceled", "freed"} :
                     (f = "ran" /\ t \in ran) \/ (f = "canceled" /\ t \in canceled)
                       \/ (f = "freed" /\ t \in freed)}
    BY DEF Fates
  <1>2. ran \cap canceled = {} /\ ran \cap freed = {} /\ canceled \cap freed = {}
    BY DEF Safe, Once
  <1>3. t \in ran => Fates(t) = {"ran"}
    BY <1>1, <1>2
  <1>4. t \in canceled => Fates(t) = {"canceled"}
    BY <1>1, <1>2
  <1>5. t \in freed => Fates(t) = {"freed"}
    BY <1>1, <1>2
  <1>6. t \notin Gone => Fates(t) = {}
    BY <1>1 DEF Gone
  <1> QED BY <1>3, <1>4, <1>5, <1>6 DEF Gone

(* So a task that has entered a queue is in exactly one place, and one that*)
(* has not is in none.                                                     *)
LEMMA TimesExactly ==
  ASSUME TypeInv, Safe, NEW t \in Task
  PROVE  Times(t) = IF Entered(t) THEN 1 ELSE 0
  <1>1. Times(t) = Cardinality(Places(t)) + Cardinality(Runners(t)) + Cardinality(Fates(t))
    BY DEF Times, Places, Runners, Fates
  <1>2. /\ Cardinality({}) = 0
        /\ \A S : (\E x : S = {x}) => Cardinality(S) = 1
    BY FS_EmptySet, FS_Singleton
  <1>3. Known(t) <=> Entered(t)
    BY DEF Safe, Somewhere
  <1>4. CASE \E w \in Workers : t \in ToSet(queue[w])
    <2>1. Cardinality(Places(t)) = 1
      BY <1>2, <1>4, OnePlace
    <2>2. Runners(t) = {}
      BY <1>4 DEF Safe, Once, Runners
    <2>3. t \notin Gone
      BY <1>4 DEF Safe, Once
    <2>4. Fates(t) = {}
      BY <2>3, OneFate
    <2>5. Known(t)
      BY <1>4 DEF Known
    <2> QED BY <2>1, <2>2, <2>4, <2>5, <1>1, <1>2, <1>3
  <1>5. CASE \A w \in Workers : t \notin ToSet(queue[w])
    <2>1. Places(t) = {}
      BY <1>5, OnePlace
    <2>2. CASE Runners(t) # {}
      <3>1. Cardinality(Runners(t)) = 1
        BY <1>2, <2>2, OneRunner
      <3>2. PICK w \in Workers : wpc[w] = "run" /\ cur[w] = t
        BY <2>2 DEF Runners
      <3>3. t \notin Gone
        BY <3>2 DEF Safe, Once
      <3>4. Fates(t) = {} /\ Known(t)
        BY <3>2, <3>3, OneFate DEF Known
      <3> QED BY <2>1, <3>1, <3>4, <1>1, <1>2, <1>3
    <2>3. CASE Runners(t) = {} /\ t \in Gone
      <3>1. Cardinality(Fates(t)) = 1
        BY <1>2, <2>3, OneFate
      <3>2. Known(t)
        BY <2>3 DEF Known
      <3> QED BY <2>1, <2>3, <3>1, <3>2, <1>1, <1>2, <1>3
    <2>4. CASE Runners(t) = {} /\ t \notin Gone
      <3>1. Fates(t) = {}
        BY <2>4, OneFate
      <3>2. ~Known(t)
        BY <2>4, <1>5 DEF Known, Runners
      <3> QED BY <2>1, <2>4, <3>1, <3>2, <1>1, <1>2, <1>3
    <2> QED BY <2>2, <2>3, <2>4
  <1> QED BY <1>4, <1>5

(* No task is lost or used twice.                                          *)
THEOREM PoolLosesNothing == Spec => [](CarefulReuse => EachTaskOnce)
  <1>1. IInv => (CarefulReuse => EachTaskOnce)
    <2> SUFFICES ASSUME TypeInv, Safe, NEW r \in Requests, gen[r] > 0, NEW t \in BatchTasks(r)
                 PROVE  Times(t) = IF opc[r] \in {"scan", "attach"} THEN 0 ELSE 1
      BY DEF IInv, EachTaskOnce
    <2>1. gen[r] \in 1 .. MaxBatches
      BY BatchAssumption DEF TypeInv, TypeOK
    <2>2. t \in Task /\ t.req = r /\ t.gen = gen[r]
      BY <2>1, BatchFacts
    <2>3. Entered(t) <=> opc[r] \notin {"scan", "attach"}
      BY <2>1, <2>2 DEF Entered, Unborn
    <2> QED BY <2>2, <2>3, TimesExactly
  <1> QED BY <1>1, PoolInvariant, PTL
=============================================================================
