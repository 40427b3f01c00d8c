----------------------------- MODULE Transport ------------------------------
(***************************************************************************)
(* A transfer from end to end: os_transport_send at one process,           *)
(* os_transport_recv at its peer, and the URMA fabric between them         *)
(* (src/src/os_transport.c, src/src/os_transport_urma.c).                  *)
(*                                                                         *)
(* The sender writes chunk 0; the completion of chunk i wakes task i, which *)
(* notifies the peer of chunk i and writes chunk i + 1; the last task only *)
(* notifies.  A notification takes an entry of the peer's receive queue;   *)
(* its completion there refills the queue and wakes the receive task whose *)
(* tag it carries, which calls notify_callback.                            *)
(*                                                                         *)
(* The pool appears through what ThreadPool shows: one worker runs the     *)
(* tasks of an identifier one at a time; wakeups of a request that has     *)
(* tasks reach that worker, others are dropped; a send task takes any      *)
(* wakeup, in order, a receive task the one that matches.  The sync appears*)
(* through what RequestPromise says: OK needs every task, and a call that  *)
(* gives up removes those that are queued.                                 *)
(***************************************************************************)
EXTENDS ChunkPlan, Sequences, FiniteSets

CONSTANTS
    Transfers,              \* transfers under way between the two processes
    Cases,                  \* their lengths and attempts, and what the receiver has
    ServerKey, ClientKey,   \* per transfer: the identifiers of its two ends
    CarefulReuse,           \* is a retry put off until the last try has drained?
    Capacity,               \* recv_queue_capacity * RQE_PREFILL_MULTIPLE_DUPLEX
    PostMayFail,            \* may posting to URMA fail?
    CallbackMayFail,        \* may notify_callback return non-zero?
    MayGiveUp,              \* may a waiting caller time out or cancel?
    None                    \* no task, no completion, nobody

ASSUME KeysAssumption ==
    /\ \A x \in Transfers : {ServerKey[x], ClientKey[x]} \subseteq SUBSET (0 .. RequestIdBits - 1)
    /\ \A x, y \in Transfers :
         x # y => ServerKey[x] # ServerKey[y] /\ ClientKey[x] # ClientKey[y]
ASSUME CasesAssumption ==
    Cases \subseteq [len : [Transfers -> Length], attempts : Nat \ {0},
                     depth : Nat \ {0}, jfrOnly : SUBSET Transfers]
ASSUME QueueAssumption == Capacity \in Nat \ {0}
ASSUME BoundsAssumption ==
    /\ IsFiniteSet(Transfers) /\ None \notin Transfers
    /\ \A b \in {CarefulReuse, PostMayFail, CallbackMayFail, MayGiveUp} : b \in BOOLEAN

VARIABLES
    \* the case at hand: depth is how many entries the receive queue holds, and
    \* jfrOnly are the transfers whose receiver gives a jfr and no jetty
    len, attempts, depth, jfrOnly,
    \* the sender, per transfer: caller, attempt, tasks, wakeups, worker, result
    spc, sgen, stask, spend, swork, sres,
    \* the receiver, the same
    rpc, rgen, rtask, rpend, rwork, rres,
    \* urma_recv_ctx_t: is it the jetty that is recorded (or NULL), who holds the
    \* lock, and how many entries this prefill has posted
    recorded, filler, filled,
    rqe, lost,                      \* entries in the receive queue, and refills that failed
    posted,                         \* history: the entries that prefills have posted
    cq,                             \* completions of notifications not yet polled
    rpoll,                          \* the one being dispatched
    wire,                           \* work requests and local completions under way
    landed                          \* <<transfer, attempt, chunk>> written at the peer

senderVars == <<spc, sgen, stask, spend, swork, sres>>
receiverVars == <<rpc, rgen, rtask, rpend, rwork, rres>>
queueVars  == <<recorded, filler, filled, rqe, lost, posted>>
fabricVars == <<cq, rpoll, wire, landed>>
given == <<len, attempts, depth, jfrOnly>>
vars == <<given, senderVars, receiverVars, queueVars, fabricVars>>

N(x) == NumChunks(len[x])

(* Messages.  gen and chunk say which attempt and chunk a message is about;*)
(* the code sees only the tag.                                             *)
Write(x, c, tag) == [type |-> "write", x |-> x, gen |-> sgen[x], chunk |-> c, tag |-> tag]
Notify(x, c, tag) == [type |-> "imm", x |-> x, gen |-> sgen[x], chunk |-> c, tag |-> tag]
Done(m, tag) == [type |-> "done", x |-> m.x, gen |-> m.gen, chunk |-> m.chunk, tag |-> tag]

TaskStates == {"none", "queued", "running", "ok", "failed", "canceled"}
SIn(x, s) == {i \in Chunks(len[x]) : stask[x][i] = s}
RIn(x, s) == {i \in Chunks(len[x]) : rtask[x][i] = s}
AllTasks(x, s) == [i \in Chunks(len[x]) |-> s]
Canceled(tasks) == [i \in DOMAIN tasks |-> IF tasks[i] = "queued" THEN "canceled" ELSE tasks[i]]

Init ==
    /\ \E c \in Cases :
         len = c.len /\ attempts = c.attempts /\ depth = c.depth /\ jfrOnly = c.jfrOnly
    /\ spc = [x \in Transfers |-> "idle"] /\ rpc = [x \in Transfers |-> "idle"]
    /\ sgen = [x \in Transfers |-> 0] /\ rgen = [x \in Transfers |-> 0]
    /\ stask = [x \in Transfers |-> AllTasks(x, "none")]
    /\ rtask = [x \in Transfers |-> AllTasks(x, "none")]
    /\ spend = [x \in Transfers |-> 0] /\ rpend = [x \in Transfers |-> <<>>]
    /\ swork = [x \in Transfers |-> None] /\ rwork = [x \in Transfers |-> None]
    /\ sres = [x \in Transfers |-> "none"] /\ rres = [x \in Transfers |-> "none"]
    /\ recorded = FALSE /\ filler = None /\ filled = 0
    /\ rqe = 0 /\ lost = 0 /\ posted = 0
    /\ cq = {} /\ rpoll = None /\ wire = {} /\ landed = {}

-----------------------------------------------------------------------------
(* The application.  Both ends of a transfer make the same attempt: a new  *)
(* one begins at either end when the call at the other has returned, or has *)
(* already begun anew.  Nothing makes the receiver come first.             *)
CallOver(pc) == pc \in {"idle", "lost"}

Drained(x) ==
    /\ \A m \in wire \cup cq : m.x # x
    /\ rpoll # None => rpoll.x # x
    /\ SIn(x, "queued") \cup RIn(x, "queued") = {}
    /\ swork[x] = None /\ rwork[x] = None
    /\ spend[x] = 0 /\ rpend[x] = <<>>

MayBegin(x, gen, otherGen, otherOver) ==
    /\ gen < attempts
    /\ \/ otherGen = gen + 1
       \/ otherGen = gen /\ otherOver /\ (CarefulReuse => Drained(x))

-----------------------------------------------------------------------------
(* os_transport_send: the tasks are registered (a length or an identifier  *)
(* that is refused leaves no trace, and is no step) ...                    *)
SendRegister(x) ==
    /\ spc[x] = "idle"
    /\ is_request_id_valid(ServerKey[x]) /\ is_request_id_valid(ClientKey[x])
    /\ SendAccepts(len[x])
    /\ MayBegin(x, sgen[x], rgen[x], CallOver(rpc[x]))
    /\ sgen' = [sgen EXCEPT ![x] = @ + 1]
    /\ stask' = [stask EXCEPT ![x] = AllTasks(x, "queued")]
    /\ sres' = [sres EXCEPT ![x] = "none"]
    /\ spc' = [spc EXCEPT ![x] = "first"]
    /\ UNCHANGED <<given, spend, swork, receiverVars, queueVars, fabricVars>>

(* ... and chunk 0 is written.  If that fails the request counts as        *)
(* completed, and the caller's wait is going to cancel its tasks.          *)
SendFirstChunk(x) ==
    /\ spc[x] = "first"
    /\ spc' = [spc EXCEPT ![x] = "wait"]
    /\ wire' = wire \cup {Write(x, 0, FirstTag(ServerKey[x]))}
    /\ UNCHANGED <<given, sgen, stask, spend, swork, sres, receiverVars, queueVars,
                   cq, rpoll, landed>>

SendFirstChunkFails(x) ==
    /\ PostMayFail
    /\ spc[x] = "first"
    /\ spc' = [spc EXCEPT ![x] = "broken"]
    /\ UNCHANGED <<given, sgen, stask, spend, swork, sres, receiverVars, queueVars,
                   fabricVars>>

(* The wait returns OK when all tasks have run ...                         *)
SendReturnsOk(x) ==
    /\ spc[x] = "wait"
    /\ SIn(x, "ok") = Chunks(len[x])
    /\ sres' = [sres EXCEPT ![x] = "OK"]
    /\ spc' = [spc EXCEPT ![x] = "idle"]
    /\ UNCHANGED <<given, sgen, stask, spend, swork, receiverVars, queueVars, fabricVars>>

(* ... and if it fails, or is given up, it takes the queued tasks and the  *)
(* wakeups of the request from the pool, and lets a running task be.       *)
SendEndsWithError(x) ==
    /\ sres' = [sres EXCEPT ![x] = "ERROR"]
    /\ spc' = [spc EXCEPT ![x] = "idle"]
    /\ stask' = [stask EXCEPT ![x] = Canceled(@)]
    /\ spend' = [spend EXCEPT ![x] = 0]
    /\ UNCHANGED <<given, sgen, swork, receiverVars, queueVars, fabricVars>>

SendReturnsError(x) ==
    /\ \/ spc[x] = "broken"
       \/ spc[x] = "wait" /\ SIn(x, "failed") # {}
    /\ SendEndsWithError(x)

SendGivesUp(x) ==
    /\ MayGiveUp
    /\ spc[x] = "wait"
    /\ SendEndsWithError(x)

-----------------------------------------------------------------------------
(* os_transport_wake_up_task at the sender.  The completion of a           *)
(* notification is told from that of a chunk by its number, and ignored.   *)
SendContext(x) == SIn(x, "queued") # {} \/ swork[x] # None

(* Mutant: the completions of notifications wake tasks, too.               *)
IgnoredAtSender_Never(tag) == FALSE

(* Mutant: the last chunk's number is taken for that of a notification.    *)
IgnoredAtSender_OneMore(tag) == tag.id >= MaxChunkNum - 1

IgnoredAtSender(tag) == tag.id >= MaxChunkNum

LocalCompletion(m) ==
    /\ m.type = "done"
    /\ wire' = wire \ {m}
    /\ spend' = [x \in Transfers |->
                   IF /\ ~IgnoredAtSender(m.tag)
                      /\ ServerKey[x] = m.tag.key
                      /\ SendContext(x)
                   THEN spend[x] + 1 ELSE spend[x]]
    /\ UNCHANGED <<given, spc, sgen, stask, swork, sres, receiverVars, queueVars,
                   cq, rpoll, landed>>

(* The worker takes the first queued task for a wakeup; a wakeup that finds *)
(* none is used up.                                                        *)
SendTake(x) ==
    /\ swork[x] = None
    /\ spend[x] > 0
    /\ spend' = [spend EXCEPT ![x] = @ - 1]
    /\ IF SIn(x, "queued") = {} THEN UNCHANGED <<stask, swork>>
       ELSE \E i \in SIn(x, "queued") :
              /\ \A j \in SIn(x, "queued") : i <= j
              /\ stask' = [stask EXCEPT ![x][i] = "running"]
              /\ swork' = [swork EXCEPT ![x] = [task |-> i, gen |-> sgen[x], at |-> "notify"]]
    /\ UNCHANGED <<given, spc, sgen, sres, receiverVars, queueVars, fabricVars>>

(* mark_task_group_completed, for the group the task belongs to.           *)
SendMark(x, outcome) ==
    /\ swork' = [swork EXCEPT ![x] = None]
    /\ stask' = IF swork[x].gen = sgen[x]
                  THEN [stask EXCEPT ![x][swork[x].task] = outcome] ELSE stask

(* do_send_chunk_for_worker: first the notification of the chunk before ...*)
SendNotify(x) ==
    LET w == swork[x]
        i == w.task
        imm  == [Notify(x, i, ClientTag(ClientKey[x], i, N(x))) EXCEPT !.gen = w.gen]
        here == Done(imm, NotifyTag(ServerKey[x], i, N(x)))
    IN  /\ w # None
        /\ w.at = "notify"
        /\ wire' = wire \cup {imm, here}
        /\ IF i + 1 < N(x)
             THEN /\ swork' = [swork EXCEPT ![x].at = "write"]
                  /\ UNCHANGED stask
             ELSE SendMark(x, "ok")
        /\ UNCHANGED <<given, spc, sgen, spend, sres, receiverVars, queueVars, cq,
                       rpoll, landed>>

(* ... then the chunk.                                                     *)
SendWrite(x) ==
    LET w == swork[x]
        c == w.task + 1
        write == [Write(x, c, ServerTag(ServerKey[x], w.task, N(x))) EXCEPT !.gen = w.gen]
    IN  /\ w # None
        /\ w.at = "write"
        /\ wire' = wire \cup {write}
        /\ SendMark(x, "ok")
        /\ UNCHANGED <<given, spc, sgen, spend, sres, receiverVars, queueVars, cq,
                       rpoll, landed>>

(* Either may fail, and then the task has failed and the chain ends.       *)
SendTaskFails(x) ==
    /\ PostMayFail
    /\ swork[x] # None
    /\ SendMark(x, "failed")
    /\ UNCHANGED <<given, spc, sgen, spend, sres, receiverVars, queueVars, fabricVars>>

-----------------------------------------------------------------------------
(* The fabric.  A write that completes at its sender is in the memory of   *)
(* the peer.                                                               *)
WriteLands(m) ==
    /\ m.type = "write"
    /\ landed' = landed \cup {<<m.x, m.gen, m.chunk>>}
    /\ wire' = (wire \ {m}) \cup {Done(m, m.tag)}
    /\ UNCHANGED <<given, senderVars, receiverVars, queueVars, cq, rpoll>>

(* A notification waits for an entry in the receive queue and takes it.    *)
(* Notifications may overtake each other.                                  *)
NotificationArrives(m) ==
    /\ m.type = "imm"
    /\ rqe > 0
    /\ rqe' = rqe - 1
    /\ wire' = wire \ {m}
    /\ cq' = cq \cup {m}
    /\ UNCHANGED <<given, senderVars, receiverVars, recorded, filler, filled, lost,
                   posted, rpoll, landed>>

-----------------------------------------------------------------------------
(* os_transport_wake_up_task at the receiver: a polled completion refills  *)
(* the queue first (urma_recv_ctx_add, without the lock), and whether that *)
(* succeeds is not looked at.  It fails when no jetty is recorded, when the*)
(* queue is full, and as every post may.                                   *)
RefillPosts ==
    /\ recorded /\ rqe < depth
    /\ rqe' = rqe + 1
    /\ UNCHANGED lost

RefillFails ==
    /\ PostMayFail \/ ~recorded \/ rqe = depth
    /\ lost' = lost + 1
    /\ UNCHANGED rqe

(* Mutant: nothing is posted.                                              *)
Refill_Never == UNCHANGED <<rqe, lost>>

Refill == RefillPosts \/ RefillFails

RecvPoll(m) ==
    /\ rpoll = None
    /\ rpoll' = m
    /\ cq' = cq \ {m}
    /\ Refill
    /\ UNCHANGED <<given, senderVars, receiverVars, recorded, filler, filled, posted,
                   wire, landed>>

(* Then the identifier is decoded and the request's worker woken, if the   *)
(* pool knows the request; if not, the completion is dropped.              *)
RecvContext(x) == RIn(x, "queued") # {} \/ rwork[x] # None

RecvDispatch ==
    /\ rpoll # None
    /\ rpoll' = None
    /\ rpend' = [x \in Transfers |->
                   IF ClientKey[x] = DecodedTag(rpoll.tag).key /\ RecvContext(x)
                     THEN Append(rpend[x], [rpoll EXCEPT !.tag = DecodedTag(@)])
                     ELSE rpend[x]]
    /\ UNCHANGED <<given, senderVars, rpc, rgen, rtask, rwork, rres, queueVars, cq,
                   wire, landed>>

(* The worker looks for the task whose tag is that of the wakeup.          *)
RMatching(x, m) ==
    {i \in RIn(x, "queued") : ExpectedTag(ClientKey[x], i, N(x)) = m.tag}

RecvTake(x) ==
    /\ rwork[x] = None
    /\ rpend[x] # <<>>
    /\ rpend' = [rpend EXCEPT ![x] = Tail(@)]
    /\ IF RMatching(x, Head(rpend[x])) = {} THEN UNCHANGED <<rtask, rwork>>
       ELSE \E i \in RMatching(x, Head(rpend[x])) :
              /\ rtask' = [rtask EXCEPT ![x][i] = "running"]
              /\ rwork' = [rwork EXCEPT ![x] =
                             [task |-> i, gen |-> rgen[x], msg |-> Head(rpend[x])]]
    /\ UNCHANGED <<given, senderVars, rpc, rgen, rres, queueVars, fabricVars>>

(* recv_task_worker_func: notify_callback has returned, well or not.       *)
RecvMark(x, outcome) ==
    /\ rwork[x] # None
    /\ rwork' = [rwork EXCEPT ![x] = None]
    /\ rtask' = IF rwork[x].gen = rgen[x]
                  THEN [rtask EXCEPT ![x][rwork[x].task] = outcome] ELSE rtask
    /\ UNCHANGED <<given, senderVars, rpc, rgen, rpend, rres, queueVars, fabricVars>>

CallbackReturns(x) == RecvMark(x, "ok")
CallbackFails(x) == CallbackMayFail /\ RecvMark(x, "failed")

-----------------------------------------------------------------------------
(* os_transport_recv: the tasks are registered ...                         *)
RecvRegister(x) ==
    /\ rpc[x] = "idle"
    /\ is_request_id_valid(ClientKey[x])
    /\ RecvAccepts(len[x])
    /\ MayBegin(x, rgen[x], sgen[x], CallOver(spc[x]))
    /\ rgen' = [rgen EXCEPT ![x] = @ + 1]
    /\ rtask' = [rtask EXCEPT ![x] = AllTasks(x, "queued")]
    /\ rres' = [rres EXCEPT ![x] = "none"]
    /\ rpc' = [rpc EXCEPT ![x] = "test"]
    /\ UNCHANGED <<given, senderVars, rpend, rwork, queueVars, fabricVars>>

(* ... then urma_recv_ctx_init looks without the lock whether the recorded *)
(* jetty is the one it is given.  A receive with a jfr only gives NULL, and*)
(* NULL is what is recorded at first: then nothing is posted, either ...   *)
GivesJetty(x) == x \notin jfrOnly

(* Mutant: it is not looked at again.                                      *)
StillToFill_Always(x) == TRUE

StillToFill(x) == recorded # GivesJetty(x)

RecvTestJetty(x) ==
    /\ rpc[x] = "test"
    /\ rpc' = [rpc EXCEPT ![x] = IF recorded # GivesJetty(x) THEN "lock" ELSE "wait"]
    /\ UNCHANGED <<given, senderVars, rgen, rtask, rpend, rwork, rres, queueVars,
                   fabricVars>>

(* ... and again with it ...                                               *)
RecvLockQueue(x) ==
    /\ rpc[x] = "lock"
    /\ filler = None
    /\ IF StillToFill(x)
         THEN /\ filler' = x
              /\ filled' = 0
              /\ rpc' = [rpc EXCEPT ![x] = "fill"]
         ELSE /\ rpc' = [rpc EXCEPT ![x] = "wait"]
              /\ UNCHANGED <<filler, filled>>
    /\ UNCHANGED <<given, senderVars, rgen, rtask, rpend, rwork, rres, recorded,
                   rqe, lost, posted, fabricVars>>

(* ... and posts one entry after the other.                                *)
RecvFill(x) ==
    /\ filler = x
    /\ filled < Capacity
    /\ rqe < depth
    /\ rqe' = rqe + 1
    /\ filled' = filled + 1
    /\ posted' = posted + 1
    /\ UNCHANGED <<given, senderVars, receiverVars, recorded, filler, lost, fabricVars>>

(* All are posted, or the queue is full (URMA_ENOMEM): the jetty, or NULL, *)
(* is recorded and os_transport_recv returns its sync.                     *)
RecvFillEnds(x) ==
    /\ filler = x
    /\ filled = Capacity \/ rqe = depth
    /\ recorded' = GivesJetty(x)
    /\ filler' = None
    /\ rpc' = [rpc EXCEPT ![x] = "wait"]
    /\ UNCHANGED <<given, senderVars, rgen, rtask, rpend, rwork, rres, filled, rqe,
                   lost, posted, fabricVars>>

(* Any other error: os_transport_recv returns -1 and no sync, and the tasks *)
(* stay queued (TaskSync, FailedRecvCancels).  The caller does not retry.  *)
RecvFillFails(x) ==
    /\ PostMayFail
    /\ filler = x
    /\ filled < Capacity
    /\ filler' = None
    /\ rpc' = [rpc EXCEPT ![x] = "lost"]
    /\ rres' = [rres EXCEPT ![x] = "ERROR"]
    /\ UNCHANGED <<given, senderVars, rgen, rtask, rpend, rwork, recorded, filled,
                   rqe, lost, posted, fabricVars>>

RecvReturnsOk(x) ==
    /\ rpc[x] = "wait"
    /\ RIn(x, "ok") = Chunks(len[x])
    /\ rres' = [rres EXCEPT ![x] = "OK"]
    /\ rpc' = [rpc EXCEPT ![x] = "idle"]
    /\ UNCHANGED <<given, senderVars, rgen, rtask, rpend, rwork, queueVars, fabricVars>>

RecvEndsWithError(x) ==
    /\ rpc[x] = "wait"
    /\ rres' = [rres EXCEPT ![x] = "ERROR"]
    /\ rpc' = [rpc EXCEPT ![x] = "idle"]
    /\ rtask' = [rtask EXCEPT ![x] = Canceled(@)]
    /\ rpend' = [rpend EXCEPT ![x] = <<>>]
    /\ UNCHANGED <<given, senderVars, rgen, rwork, queueVars, fabricVars>>

RecvReturnsError(x) == RIn(x, "failed") # {} /\ RecvEndsWithError(x)
RecvGivesUp(x) == MayGiveUp /\ RecvEndsWithError(x)

(* No call is in progress.                                                 *)
Terminating ==
    /\ \A x \in Transfers : spc[x] = "idle" /\ CallOver(rpc[x])
    /\ UNCHANGED vars

-----------------------------------------------------------------------------
SendCall(x) ==
    SendFirstChunk(x) \/ SendFirstChunkFails(x) \/ SendReturnsOk(x) \/ SendReturnsError(x)

SendWorker(x) == SendTake(x) \/ SendNotify(x) \/ SendWrite(x) \/ SendTaskFails(x)

RecvCall(x) ==
    \/ RecvTestJetty(x) \/ RecvLockQueue(x) \/ RecvFill(x) \/ RecvFillEnds(x)
    \/ RecvFillFails(x) \/ RecvReturnsOk(x) \/ RecvReturnsError(x)

RecvWorker(x) == RecvTake(x) \/ CallbackReturns(x) \/ CallbackFails(x)

Polling == RecvDispatch \/ \E m \in cq : RecvPoll(m)

Fabric == \E m \in wire : WriteLands(m) \/ LocalCompletion(m) \/ NotificationArrives(m)

Next ==
    \/ \E x \in Transfers : SendRegister(x) \/ RecvRegister(x)
    \/ \E x \in Transfers : SendCall(x) \/ SendWorker(x) \/ RecvCall(x) \/ RecvWorker(x)
    \/ \E x \in Transfers : SendGivesUp(x) \/ RecvGivesUp(x)
    \/ Polling
    \/ Fabric
    \/ Terminating

Spec == Init /\ [][Next]_vars

(* Calls, workers and pollers go on.  The fabric delivers what it can: a   *)
(* reliable transport retries a notification until there is an entry for   *)
(* it.  Nobody has to begin a transfer or to give one up.                  *)
Fairness ==
    /\ \A x \in Transfers : WF_vars(SendCall(x)) /\ WF_vars(SendWorker(x))
    /\ \A x \in Transfers : WF_vars(RecvCall(x)) /\ WF_vars(RecvWorker(x))
    /\ WF_vars(Polling)
    /\ WF_vars(Fabric)

FairSpec == Spec /\ Fairness

-----------------------------------------------------------------------------
Message == [type : {"write", "imm", "done"}, x : Transfers, gen : 1 .. attempts,
            chunk : 0 .. MaxChunkNum - 1,
            tag : [key : SUBSET (0 .. RequestIdBits - 1), last : BOOLEAN, id : 0 .. MaxChunkNum]]

TypeOK ==
    /\ len \in [Transfers -> Length]
    /\ spc \in [Transfers -> {"idle", "first", "wait", "broken"}]
    /\ rpc \in [Transfers -> {"idle", "test", "lock", "fill", "wait", "lost"}]
    /\ sgen \in [Transfers -> 0 .. attempts] /\ rgen \in [Transfers -> 0 .. attempts]
    /\ \A x \in Transfers :
         stask[x] \in [Chunks(len[x]) -> TaskStates] /\ rtask[x] \in [Chunks(len[x]) -> TaskStates]
    /\ spend \in [Transfers -> Nat]
    /\ \A x \in Transfers : swork[x] # None => swork[x].task \in Chunks(len[x])
    /\ \A x \in Transfers : rwork[x] # None => rwork[x].task \in Chunks(len[x])
    /\ sres \in [Transfers -> {"none", "OK", "ERROR"}]
    /\ rres \in [Transfers -> {"none", "OK", "ERROR"}]
    /\ recorded \in BOOLEAN /\ filler \in Transfers \cup {None} /\ filled \in 0 .. Capacity
    /\ rqe \in 0 .. depth /\ lost \in Nat /\ posted \in Nat
    /\ wire \subseteq Message /\ cq \subseteq Message /\ rpoll \in Message \cup {None}

(* os_transport.h: the user data given to notify_callback is that of the   *)
(* completion.  When the callback for chunk k runs, the completion that    *)
(* woke it is that of chunk k of this very attempt, the number it is told  *)
(* is k, and the chunk is in memory: on the way it has been through the    *)
(* shifted contexts, the codec, the queue and the matching.                *)
CallbackSeesData ==
    \A x \in Transfers : rwork[x] # None =>
        LET w == rwork[x]
        IN  /\ w.msg.x = x /\ w.msg.gen = w.gen
            /\ w.msg.chunk = w.task /\ w.msg.tag.id = w.task
            /\ <<x, w.gen, w.task>> \in landed

(* The chain keeps one chunk in flight: a chunk is written when the one    *)
(* before has landed, and nothing but the completion of that chunk makes a *)
(* task run (the comment above os_transport_send).                         *)
OneChunkInFlight ==
    \A x \in Transfers :
        LET mine == {m \in wire : m.x = x /\ m.gen = sgen[x]}
            moving == {m \in mine : m.type = "write"}
                        \cup {m \in mine : m.type = "done" /\ m.tag.id # MaxChunkNum}
        IN  /\ Cardinality(moving) <= 1
            /\ \A m \in moving : \A c \in 0 .. m.chunk - 1 : <<x, sgen[x], c>> \in landed

(* A send that has returned OK: every chunk is at the peer, and the peer   *)
(* has been or is being told of each of them.                              *)
SendOkMeansDelivered ==
    \A x \in Transfers : sres[x] = "OK" =>
        \A c \in Chunks(len[x]) : <<x, sgen[x], c>> \in landed

(* What a receive that has returned OK promises (README 6.3): the          *)
(* completion of each of its chunks has arrived.  So when its peer has made*)
(* the same attempt, the chunks of that attempt are in memory.             *)
RecvOkMeansArrived ==
    \A x \in Transfers : rres[x] = "OK" /\ sgen[x] = rgen[x] =>
        \A c \in Chunks(len[x]) : <<x, rgen[x], c>> \in landed

(* What a prefill leaves in the queue: recv_queue_capacity times four, or  *)
(* as many as there is room for.                                           *)
Prefill == IF Capacity <= depth THEN Capacity ELSE depth

(* The account of the receive queue (urma_recv_ctx_init, urma_recv_ctx_add):*)
(* an entry that a prefill posted is in the queue or is a completion still *)
(* to be polled, or else its refill has failed.  By the time a receive that*)
(* gives the jetty waits, the queue has had its prefill.  And however many *)
(* such receives begin together, it has had one only (not after a prefill  *)
(* that failed half-way: what it posted stays, and the next begins anew).  *)
CreditsConserved ==
    /\ rqe + Cardinality(cq) + lost = posted
    /\ \A x \in Transfers : rpc[x] = "wait" /\ GivesJetty(x) => posted >= Prefill
    /\ (\A x \in Transfers : rpc[x] # "lost" /\ GivesJetty(x)) => posted <= Capacity

(* A request that was accepted is split without a gap or an overlap, and   *)
(* no chunk has the number by which the completions of notifications are   *)
(* known.                                                                  *)
SplitIsExact ==
    \A x \in Transfers : sgen[x] > 0 \/ rgen[x] > 0 =>
        Tiles(len[x]) /\ Chunks(len[x]) \subseteq 0 .. MaxChunkNum - 1

(* A send whose first chunk is out returns, whatever the receiver does.    *)
SendReturns == \A x \in Transfers : spc[x] = "wait" ~> spc[x] = "idle"

(* The notifications of an attempt that a receive is still waiting for.    *)
Expecting(x) ==
    /\ rpc[x] = "wait"
    /\ \A i \in RIn(x, "queued") :
         \/ \E m \in wire \cup cq : m.type = "imm" /\ m.x = x /\ m.gen = rgen[x] /\ m.chunk = i
         \/ \E k \in DOMAIN rpend[x] : rpend[x][k].chunk = i
         \/ rpoll # None /\ rpoll.x = x /\ rpoll.chunk = i

(* A receive that gives the jetty, and all of whose outstanding chunks have*)
(* been announced, returns: nothing is lost between the wire and the       *)
(* callback once the tasks are registered.  Unless the queue has run dry,  *)
(* and for that as many refills must have failed as a prefill posts.       *)
RanDry == rqe + Cardinality(cq) = 0 /\ lost >= Prefill

RecvReturns ==
    \A x \in Transfers :
        (GivesJetty(x) /\ Expecting(x)) ~> (rpc[x] = "idle" \/ RanDry)
=============================================================================
