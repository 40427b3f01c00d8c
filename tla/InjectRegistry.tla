-------------------------- MODULE InjectRegistry --------------------------
(***************************************************************************)
(* The fault injection registry (src/src/os_transport_inject.c): a table   *)
(* of injection points and a ring of trigger records in a shared memory    *)
(* object that every process finds by name, the first one creates, and all *)
(* change under a spin lock that lies in the object itself; and `verify`   *)
(* of mlcd_inject_cli.c, which reads the ring without that lock.           *)
(*                                                                         *)
(* An action is one access of another process's business: an open, a store *)
(* of the creator, a poll, a spin lock, what is done between two of these. *)
(* Names, actions and times are small values; seq, writer_pid, messages    *)
(* and the sleep are left out: nothing reads them back.                    *)
(***************************************************************************)
EXTENDS Integers, Sequences, FiniteSets, Functions

CONSTANTS
    Threads, Processes,
    ProcessOf,      \* the process of each thread: g_shm and g_init_mutex are its
    Names,          \* the names of injection points
    Actions,        \* what a point may do when it triggers
    Programs,       \* the calls each thread makes: functions from Threads to sequences of calls
    OldBuild,       \* whether a registry of another version may be there at the start
    MaxFailures,    \* how many system calls of initialisations may fail
    MayCrash,       \* whether a process may die while it creates the registry
    MaxPoints,      \* OS_TRANSPORT_MAX_INJECT_POINTS
    RingSize,       \* OS_TRANSPORT_INJECT_RING_SIZE
    MaxPolls,       \* how often the version is polled: 1000 in the code
    MaxObjects,     \* bound: shared memory objects created in a behaviour
    MaxClock,       \* bound: ticks of the monotonic clock
    Word,           \* 2^32 in the code: trigger_count wraps
    None

ASSUME ProcessAssumption == ProcessOf \in [Threads -> Processes]
ASSUME SizesAssumption ==
    /\ {MaxPoints, RingSize, MaxObjects} \subseteq Nat \ {0}
    /\ {MaxPolls, MaxFailures, MaxClock} \subseteq Nat
    /\ Word \in Nat /\ Word > 1
    /\ {OldBuild, MayCrash} \subseteq BOOLEAN
ASSUME NoneAssumption == None \notin Names \cup Actions \cup Threads

\* A call: `arg` is the action of a set, the number given to set_frequency,
\* the seconds of a verify.
Call(op, name, arg) == [op |-> op, name |-> name, arg |-> arg]

Ops == {"set", "frequency", "clear", "clear_all", "execute", "verify", "cleanup"}

CallType == [op : Ops, name : Names, arg : Actions \cup Nat]

\* The budget a frequency stands for: up to 100 it is a percentage.
Budget(n) == IF n <= 100 THEN 0 ELSE n - 100

\* A call with arguments the interface takes, a frequency of 32 bits among
\* them. Cleanup unmaps without a lock and is meant for after the tests
\* (os_transport_inject.h:110): only a process of one thread calls it.
Legal(t, c) ==
    /\ c.op = "set" => c.arg \in Actions
    /\ c.op \in {"frequency", "verify"} => c.arg \in Nat
    /\ c.op = "frequency" => Budget(c.arg) < Word
    /\ c.op = "cleanup" => \A u \in Threads : ProcessOf[u] = ProcessOf[t] => u = t

ASSUME ProgramsAssumption ==
    \A prog \in Programs :
        /\ prog \in [Threads -> Seq(CallType)]
        /\ \A t \in Threads : \A i \in 1..Len(prog[t]) : Legal(t, prog[t][i])

Objects == 1..MaxObjects
Slots == 0..(RingSize - 1)

Blank == [name |-> None, action |-> None, enabled |-> FALSE, percent |-> 0, count |-> 0, limit |-> 0]

Zeroed == [version |-> "none", sized |-> FALSE, lock |-> 0, count |-> 0,
           points |-> [i \in 1..MaxPoints |-> Blank],
           tail |-> 0, ring |-> [s \in Slots |-> [name |-> None, time |-> 0]]]

\* What a process of another build left behind: a full table.
LeftBehind == [Zeroed EXCEPT !.version = "other", !.sized = TRUE, !.count = MaxPoints,
                             !.points = [i \in 1..MaxPoints |-> [Blank EXCEPT !.enabled = TRUE]]]

VARIABLES
    named,      \* the object the name stands for, 0 when there is none
    made,       \* how many objects there have been
    shm,        \* the contents of each object
    mapped,     \* g_shm of each process: the object it uses, 0 for NULL
    initLock,   \* the holder of each process's g_init_mutex
    todo,       \* the calls each thread has yet to finish
    pc,
    obj,        \* the object a thread's initialisation has opened
    created,    \* whether that initialisation created it
    polls,      \* its polls of the version
    found,      \* the index of the point a call works on, 0 for NULL
    scan,       \* the state of a verify: time, tail, next slot, answer and the slot it rests on
    clock,
    failures,
    told,       \* history: what the calls that succeeded last asked of each name
    fired,      \* history: triggers of each name since its budget was last set
    fires,      \* history: the triggers, with their times
    damaged,    \* history: an initialisation overwrote a table or a lock in use
    touched     \* history: slots rewritten since a verify read the tail

shared == <<named, made, shm>>
local == <<mapped, initLock, todo, pc, obj, created, polls, found, scan, clock, failures>>
history == <<told, fired, fires, damaged, touched>>
vars == <<shared, local, history>>

Idle == [now |-> 0, tail |-> 0, next |-> 0, answer |-> None, slot |-> 0]

Init ==
    /\ \E old \in IF OldBuild THEN {TRUE, FALSE} ELSE {FALSE} :
        /\ named = IF old THEN 1 ELSE 0
        /\ made = IF old THEN 1 ELSE 0
        /\ shm = [o \in Objects |-> IF old /\ o = 1 THEN LeftBehind ELSE Zeroed]
    /\ mapped = [p \in Processes |-> 0]
    /\ initLock = [p \in Processes |-> None]
    /\ todo \in Programs
    /\ pc = [t \in Threads |-> "idle"]
    /\ obj = [t \in Threads |-> 0]
    /\ created = [t \in Threads |-> FALSE]
    /\ polls = [t \in Threads |-> 0]
    /\ found = [t \in Threads |-> 0]
    /\ scan = [t \in Threads |-> Idle]
    /\ clock = 0
    /\ failures = 0
    /\ told = [o \in Objects |-> [n \in Names |-> [action |-> None, enabled |-> FALSE]]]
    /\ fired = [o \in Objects |-> [n \in Names |-> 0]]
    /\ fires = [o \in Objects |-> {}]
    /\ damaged = [o \in Objects |-> FALSE]
    /\ touched = [t \in Threads |-> {}]

-----------------------------------------------------------------------------
\* Steps of one thread.

At(t, step) == pc[t] = step
Goto(t, step) == pc' = [pc EXCEPT ![t] = step]
Process(t) == ProcessOf[t]
Op(t) == Head(todo[t])
Registry(t) == shm[mapped[Process(t)]]

\* The call is over: the thread goes on with its next one.
Finish(t) ==
    /\ Goto(t, "idle")
    /\ todo' = [todo EXCEPT ![t] = Tail(@)]

\* A call of the interface; all of them but cleanup begin with
\* os_transport_inject_init, whose first test needs no lock.
Begin(t) ==
    /\ At(t, "idle") /\ todo[t] # << >>
    /\ Goto(t, CASE Op(t).op = "cleanup" -> "cleanup"
                 [] Op(t).op # "cleanup" /\ mapped[Process(t)] = 0 -> "mutex"
                 [] OTHER -> "enter")
    /\ scan' = [scan EXCEPT ![t] = Idle]
    /\ UNCHANGED <<shared, mapped, initLock, todo, obj, created, polls, found, clock, failures, history>>

-----------------------------------------------------------------------------
\* os_transport_inject_init.

\* g_init_mutex, and the second look at g_shm.
InitMutex(t) ==
    /\ At(t, "mutex")
    /\ initLock[Process(t)] = None
    /\ IF mapped[Process(t)] # 0
       THEN Goto(t, "enter") /\ UNCHANGED initLock
       ELSE Goto(t, "open") /\ initLock' = [initLock EXCEPT ![Process(t)] = t]
    /\ created' = [created EXCEPT ![t] = FALSE]
    /\ polls' = [polls EXCEPT ![t] = 0]
    /\ UNCHANGED <<shared, mapped, todo, obj, found, scan, clock, failures, history>>

\* shm_open without O_CREAT; on ENOENT the thread tries to create.
OpenShm(t) ==
    /\ At(t, "open")
    /\ IF named # 0 THEN Goto(t, "map") ELSE Goto(t, "create")
    /\ obj' = [obj EXCEPT ![t] = named]
    /\ UNCHANGED <<shared, mapped, initLock, todo, created, polls, found, scan, clock, failures, history>>

\* shm_open with O_CREAT | O_EXCL; on EEXIST the thread opens once more.
CreateShm(t) ==
    /\ At(t, "create")
    /\ IF named # 0
       THEN Goto(t, "reopen") /\ UNCHANGED <<named, made, obj, created>>
       ELSE /\ made < MaxObjects
            /\ made' = made + 1
            /\ named' = made + 1
            /\ obj' = [obj EXCEPT ![t] = made + 1]
            /\ created' = [created EXCEPT ![t] = TRUE]
            /\ Goto(t, "size")
    /\ UNCHANGED <<shm, mapped, initLock, todo, polls, found, scan, clock, failures, history>>

ReopenShm(t) ==
    /\ At(t, "reopen")
    /\ named # 0
    /\ obj' = [obj EXCEPT ![t] = named]
    /\ Goto(t, "map")
    /\ UNCHANGED <<shared, mapped, initLock, todo, created, polls, found, scan, clock, failures, history>>

\* ftruncate: until then the object has no memory behind it.
SizeShm(t) ==
    /\ At(t, "size")
    /\ shm' = [shm EXCEPT ![obj[t]].sized = TRUE]
    /\ Goto(t, "map")
    /\ UNCHANGED <<named, made, mapped, initLock, todo, obj, created, polls, found, scan, clock, failures, history>>

MapShm(t) ==
    /\ At(t, "map")
    /\ Goto(t, IF created[t] THEN "version" ELSE "poll")
    /\ UNCHANGED <<shared, mapped, initLock, todo, obj, created, polls, found, scan, clock, failures, history>>

\* A verify that finds no registry is about to answer NOT_TRIGGERED, without a
\* look at any ring.
Unattached(t) == Goto(t, "unattached") /\ UNCHANGED todo

\* The initialisation returns NULL, and every call but a verify fails. A creator
\* that got as far as ftruncate or mmap takes the name away.
InitReturnsNull(t) ==
    /\ initLock' = [initLock EXCEPT ![Process(t)] = None]
    /\ named' = IF created[t] THEN 0 ELSE named
    /\ IF Op(t).op = "verify" THEN Unattached(t) ELSE Finish(t)
    /\ UNCHANGED <<made, shm, mapped, obj, created, polls, found, scan, clock, history>>

\* shm_open, ftruncate or mmap fails; opening again also fails when the name
\* has gone in the meantime.
InitFails(t) ==
    /\ pc[t] \in {"open", "create", "reopen", "size", "map"}
    /\ IF At(t, "reopen") /\ named = 0
       THEN UNCHANGED failures
       ELSE failures < MaxFailures /\ failures' = failures + 1
    /\ InitReturnsNull(t)

\* The creator's stores: the version first, which lets the others in, then
\* the lock and the number of points.
PublishVersion(t) ==
    /\ At(t, "version")
    /\ shm' = [shm EXCEPT ![obj[t]] = [Zeroed EXCEPT !.sized = TRUE, !.version = "current"]]
    /\ Goto(t, "lock")
    /\ UNCHANGED <<named, made, mapped, initLock, todo, obj, created, polls, found, scan, clock, failures, history>>

StoreLock(t) ==
    /\ At(t, "lock")
    /\ shm' = [shm EXCEPT ![obj[t]].lock = 0]
    /\ damaged' = [damaged EXCEPT ![obj[t]] = @ \/ shm[obj[t]].lock # 0]
    /\ Goto(t, "count")
    /\ UNCHANGED <<named, made, mapped, initLock, todo, obj, created, polls, found, scan, clock, failures,
                   told, fired, fires, touched>>

\* g_shm is set, g_init_mutex released, and the call goes on.
Attach(t) ==
    /\ mapped' = [mapped EXCEPT ![Process(t)] = obj[t]]
    /\ initLock' = [initLock EXCEPT ![Process(t)] = None]
    /\ Goto(t, "enter")
    /\ UNCHANGED <<named, made, todo, obj, created, found, scan, clock, failures>>

StoreCount(t) ==
    /\ At(t, "count")
    /\ shm' = [shm EXCEPT ![obj[t]].count = 0]
    /\ damaged' = [damaged EXCEPT ![obj[t]] = @ \/ shm[obj[t]].count # 0]
    /\ Attach(t)
    /\ UNCHANGED <<polls, told, fired, fires, touched>>

\* A process dies with all its threads.
Die(p) == pc' = [t \in Threads |-> IF ProcessOf[t] = p THEN "dead" ELSE pc[t]]

\* The version is read; an object that has no memory yet kills the reader.
PollUnsized(t) ==
    /\ At(t, "poll")
    /\ ~shm[obj[t]].sized
    /\ Die(Process(t))
    /\ UNCHANGED <<shared, mapped, initLock, todo, obj, created, polls, found, scan, clock, failures, history>>

\* Mutant: the version is waited for without an end.
LastPoll_Never(n) == FALSE
LastPoll(n) == n = MaxPolls

PollAgain(t) ==
    /\ At(t, "poll")
    /\ shm[obj[t]].sized /\ shm[obj[t]].version = "none"
    /\ ~LastPoll(polls[t])
    /\ polls' = [polls EXCEPT ![t] = IF @ < MaxPolls THEN @ + 1 ELSE @]
    /\ UNCHANGED <<shared, mapped, initLock, todo, pc, obj, created, found, scan, clock, failures, history>>

PollTimesOut(t) ==
    /\ At(t, "poll")
    /\ shm[obj[t]].sized /\ shm[obj[t]].version = "none"
    /\ LastPoll(polls[t])
    /\ InitReturnsNull(t)
    /\ UNCHANGED failures

PollFindsVersion(t) ==
    /\ At(t, "poll")
    /\ shm[obj[t]].version = "current"
    /\ Attach(t)
    /\ UNCHANGED <<shm, polls, history>>

\* Another build's registry is reset under its lock.
PollFindsOther(t) ==
    /\ At(t, "poll")
    /\ shm[obj[t]].version = "other"
    /\ Goto(t, "reset lock")
    /\ UNCHANGED <<shared, mapped, initLock, todo, obj, created, polls, found, scan, clock, failures, history>>

LockToReset(t) ==
    /\ At(t, "reset lock")
    /\ shm[obj[t]].lock = 0
    /\ shm' = [shm EXCEPT ![obj[t]].lock = 1]
    /\ Goto(t, "reset")
    /\ UNCHANGED <<named, made, mapped, initLock, todo, obj, created, polls, found, scan, clock, failures, history>>

\* The version is not looked at again: a second process that read it before
\* the first one's reset wipes what has been set since.
Reset(t) ==
    /\ At(t, "reset")
    /\ shm' = [shm EXCEPT ![obj[t]] = [Zeroed EXCEPT !.sized = TRUE, !.version = "current", !.lock = 1]]
    /\ damaged' = [damaged EXCEPT ![obj[t]] =
                      @ \/ (shm[obj[t]].version = "current" /\ shm[obj[t]].count # 0)]
    /\ Goto(t, "reset unlock")
    /\ UNCHANGED <<named, made, mapped, initLock, todo, obj, created, polls, found, scan, clock, failures,
                   told, fired, fires, touched>>

UnlockReset(t) ==
    /\ At(t, "reset unlock")
    /\ shm' = [shm EXCEPT ![obj[t]].lock = 0]
    /\ Attach(t)
    /\ UNCHANGED <<polls, history>>

CrashWhileCreating(t) ==
    /\ MayCrash
    /\ created[t] /\ pc[t] \in {"size", "map", "version"}
    /\ Die(Process(t))
    /\ UNCHANGED <<shared, mapped, initLock, todo, obj, created, polls, found, scan, clock, failures, history>>

-----------------------------------------------------------------------------
\* The calls that hold the spin lock.

Locks(t) == Op(t).op \in {"set", "frequency", "clear", "clear_all", "execute"}

\* spin_lock.
SpinLock(t) ==
    /\ At(t, "enter") /\ Locks(t)
    /\ Registry(t).lock = 0
    /\ shm' = [shm EXCEPT ![mapped[Process(t)]].lock = 1]
    /\ Goto(t, "find")
    /\ UNCHANGED <<named, made, mapped, initLock, todo, obj, created, polls, found, scan, clock, failures, history>>

\* Mutant: the last point is not looked at.
IndexOf_OneShort(r, name) ==
    LET hits == {i \in 1..(r.count - 1) : r.points[i].name = name}
    IN  IF hits = {} THEN 0 ELSE CHOOSE i \in hits : \A j \in hits : i <= j

\* The first point of that name below the count.
IndexOf(r, name) ==
    LET hits == {i \in 1..r.count : r.points[i].name = name}
    IN  IF hits = {} THEN 0 ELSE CHOOSE i \in hits : \A j \in hits : i <= j

FindPoint(t) ==
    /\ At(t, "find")
    /\ found' = [found EXCEPT ![t] = IF Op(t).op = "clear_all" THEN 0 ELSE IndexOf(Registry(t), Op(t).name)]
    /\ Goto(t, Op(t).op)
    /\ UNCHANGED <<shared, mapped, initLock, todo, obj, created, polls, scan, clock, failures, history>>

\* Changes that leave everything but the object and the histories alone.
Change(t, r) ==
    /\ shm' = [shm EXCEPT ![mapped[Process(t)]] = r]
    /\ UNCHANGED <<named, made, mapped, initLock, todo, obj, created, polls, found, scan, clock, failures, damaged>>

\* Where a set writes: the point found, or a fresh one when there is room. The
\* count it read before the search is read again here, and can only differ in an
\* object that `damaged` excludes from every property.
Target(t) ==
    CASE found[t] # 0 -> found[t]
      [] found[t] = 0 /\ Registry(t).count < MaxPoints -> Registry(t).count + 1
      [] OTHER -> 0

\* os_transport_inject_set_sleep, _set_return_error and _set_print. A point
\* that exists keeps its frequency.
SetPoint(t) ==
    LET r == Registry(t)
        i == Target(t)
        base == IF found[t] # 0 THEN r.points[i] ELSE [Blank EXCEPT !.name = Op(t).name]
    IN  /\ At(t, "set")
        /\ IF i = 0
           THEN Change(t, r) /\ UNCHANGED told
           ELSE /\ Change(t, [r EXCEPT !.points[i] = [base EXCEPT !.action = Op(t).arg, !.enabled = TRUE],
                                       !.count = IF found[t] # 0 THEN @ ELSE @ + 1])
                /\ told' = [told EXCEPT ![mapped[Process(t)]][Op(t).name] = [action |-> Op(t).arg, enabled |-> TRUE]]
        /\ Goto(t, "unlock")
        /\ UNCHANGED <<fired, fires, touched>>

\* os_transport_inject_set_frequency: a percentage or a budget.
SetFrequency(t) ==
    LET r == Registry(t)
        n == Op(t).arg
        p == r.points[found[t]]
    IN  /\ At(t, "frequency")
        /\ IF found[t] = 0
           THEN Change(t, r) /\ UNCHANGED fired
           ELSE /\ Change(t, [r EXCEPT !.points[found[t]] =
                                 [p EXCEPT !.limit = Budget(n),
                                           !.percent = IF n <= 100 THEN n ELSE 0,
                                           !.count = IF n <= 100 THEN @ ELSE Budget(n)]])
                /\ fired' = [fired EXCEPT ![mapped[Process(t)]][Op(t).name] = 0]
        /\ Goto(t, "unlock")
        /\ UNCHANGED <<told, fires, touched>>

\* os_transport_inject_clear switches the point off and keeps it.
ClearPoint(t) ==
    LET r == Registry(t)
    IN  /\ At(t, "clear")
        /\ IF found[t] = 0
           THEN Change(t, r) /\ UNCHANGED told
           ELSE /\ Change(t, [r EXCEPT !.points[found[t]].enabled = FALSE])
                /\ told' = [told EXCEPT ![mapped[Process(t)]][Op(t).name].enabled = FALSE]
        /\ Goto(t, "unlock")
        /\ UNCHANGED <<fired, fires, touched>>

\* os_transport_inject_clear_all also gives every point its budget back.
ClearAll(t) ==
    LET r == Registry(t)
        o == mapped[Process(t)]
        cleared == [i \in 1..MaxPoints |-> IF i <= r.count
                        THEN [r.points[i] EXCEPT !.enabled = FALSE, !.count = r.points[i].limit]
                        ELSE r.points[i]]
    IN  /\ At(t, "clear_all")
        /\ Change(t, [r EXCEPT !.points = cleared])
        /\ told' = [told EXCEPT ![o] = [n \in Names |-> [told[o][n] EXCEPT !.enabled = FALSE]]]
        /\ fired' = [fired EXCEPT ![o] = [n \in Names |-> 0]]
        /\ Goto(t, "unlock")
        /\ UNCHANGED <<fires, touched>>

\* os_transport_inject_execute: a budget is taken from before it is tested,
\* in 32 bits; a percentage is drawn; otherwise the point always triggers.
Spent(n) == (n - 1) % Word

Execute(t) ==
    LET r == Registry(t)
        o == mapped[Process(t)]
        p == r.points[found[t]]
    IN  /\ At(t, "execute")
        /\ \/ /\ ~(found[t] # 0 /\ p.enabled)
              /\ Change(t, r) /\ UNCHANGED fired
              /\ Goto(t, "unlock")
           \/ /\ found[t] # 0 /\ p.enabled /\ p.limit > 0
              /\ Change(t, [r EXCEPT !.points[found[t]].count = Spent(@)])
              /\ IF p.count > 0
                 THEN Goto(t, "stamp") /\ fired' = [fired EXCEPT ![o][Op(t).name] = @ + 1]
                 ELSE Goto(t, "put back") /\ UNCHANGED fired
           \/ /\ found[t] # 0 /\ p.enabled /\ p.limit = 0
              /\ Change(t, r) /\ UNCHANGED fired
              /\ \/ Goto(t, "stamp")
                 \/ p.percent \in 1..99 /\ Goto(t, "unlock")
        /\ UNCHANGED <<told, fires, touched>>

\* Mutant: what was taken too much is not given back.
Restored_Never(n) == n
Restored(n) == (n + 1) % Word

\* A budget that was already used up gets its one back.
PutBack(t) ==
    /\ At(t, "put back")
    /\ Change(t, [Registry(t) EXCEPT !.points[found[t]].count = Restored(@)])
    /\ Goto(t, "unlock")
    /\ UNCHANGED <<told, fired, fires, touched>>

\* The trigger record: the time goes into the slot before the name does.
StampRecord(t) ==
    LET r == Registry(t)
        o == mapped[Process(t)]
    IN  /\ At(t, "stamp")
        /\ Change(t, [r EXCEPT !.ring[r.tail].time = clock])
        /\ fires' = [fires EXCEPT ![o] = @ \cup {<<Op(t).name, clock>>}]
        /\ touched' = [u \in Threads |->
                          IF mapped[ProcessOf[u]] = o THEN touched[u] \cup {r.tail} ELSE touched[u]]
        /\ Goto(t, "record")
        /\ UNCHANGED <<told, fired>>

\* Mutant: the ring does not wrap.
NextSlot_NoWrap(s) == s + 1
NextSlot(s) == (s + 1) % RingSize

WriteRecord(t) ==
    LET r == Registry(t)
    IN  /\ At(t, "record")
        /\ Change(t, [r EXCEPT !.ring[r.tail].name = Op(t).name, !.tail = NextSlot(@)])
        /\ Goto(t, "unlock")
        /\ UNCHANGED <<told, fired, fires, touched>>

\* spin_unlock; what a triggered point then does is the caller's business.
SpinUnlock(t) ==
    /\ At(t, "unlock")
    /\ shm' = [shm EXCEPT ![mapped[Process(t)]].lock = 0]
    /\ Finish(t)
    /\ UNCHANGED <<named, made, mapped, initLock, obj, created, polls, found, scan, clock, failures, history>>

-----------------------------------------------------------------------------
\* os_transport_inject_cleanup, and mlcd_inject's verify.

Cleanup(t) ==
    /\ At(t, "cleanup")
    /\ mapped' = [mapped EXCEPT ![Process(t)] = 0]
    /\ named' = 0
    /\ Finish(t)
    /\ UNCHANGED <<made, shm, initLock, obj, created, polls, found, scan, clock, failures, history>>

Scan(t, s) ==
    /\ scan' = [scan EXCEPT ![t] = s]
    /\ UNCHANGED <<shared, mapped, initLock, obj, created, polls, found, clock, failures,
                   told, fired, fires, damaged>>

\* The clock is read first, then the tail.
VerifyNow(t) ==
    /\ At(t, "enter") /\ Op(t).op = "verify"
    /\ Scan(t, [scan[t] EXCEPT !.now = clock])
    /\ Goto(t, "tail")
    /\ UNCHANGED <<todo, touched>>

HalfWritten(o) ==
    {shm[o].tail : u \in {w \in Threads : At(w, "record") /\ mapped[ProcessOf[w]] = o}}

VerifyTail(t) ==
    /\ At(t, "tail")
    /\ Scan(t, [scan[t] EXCEPT !.tail = Registry(t).tail])
    /\ touched' = [touched EXCEPT ![t] = HalfWritten(mapped[Process(t)])]
    /\ Goto(t, "name")
    /\ UNCHANGED todo

\* The slots are taken newest first.
SlotAt(t) == (scan[t].tail - 1 - scan[t].next + RingSize) % RingSize

Answer(t, a) ==
    /\ Scan(t, [scan[t] EXCEPT !.answer = a, !.slot = SlotAt(t)])
    /\ Goto(t, "answered")

\* Mutant: the oldest slot is left out.
MoreSlots_OneShort(i) == i + 2 < RingSize
MoreSlots(i) == i + 1 < RingSize

\* The scan goes on to the next slot, or has seen them all.
NextRecord(t) ==
    IF MoreSlots(scan[t].next)
    THEN Scan(t, [scan[t] EXCEPT !.next = @ + 1]) /\ Goto(t, "name")
    ELSE Answer(t, "NOT_TRIGGERED")

VerifyName(t) ==
    /\ At(t, "name")
    /\ IF Registry(t).ring[SlotAt(t)].name = Op(t).name
       THEN Goto(t, "time") /\ Scan(t, scan[t])
       ELSE NextRecord(t)
    /\ UNCHANGED <<todo, touched>>

\* now - timestamp <= threshold, unsigned: a time after now is out of range.
Recent(now, time, threshold) == time <= now /\ now - time <= threshold

VerifyTime(t) ==
    /\ At(t, "time")
    /\ IF Recent(scan[t].now, Registry(t).ring[SlotAt(t)].time, Op(t).arg)
       THEN Answer(t, "TRIGGERED")
       ELSE NextRecord(t)
    /\ UNCHANGED <<todo, touched>>

\* The answer is printed: the one of the scan, or NOT_TRIGGERED when there was
\* no scan because the initialisation returned NULL.
VerifyReturns(t) ==
    /\ pc[t] \in {"answered", "unattached"}
    /\ Finish(t)
    /\ Scan(t, Idle)
    /\ UNCHANGED touched

\* Time passes while somebody has yet to ask for it.
Tick ==
    /\ clock < MaxClock
    /\ \E t \in Threads : \E i \in DOMAIN todo[t] : todo[t][i].op = "verify"
    /\ clock' = clock + 1
    /\ UNCHANGED <<shared, mapped, initLock, todo, pc, obj, created, polls, found, scan, failures, history>>

-----------------------------------------------------------------------------
Initialise(t) ==
    \/ InitMutex(t) \/ OpenShm(t) \/ CreateShm(t) \/ ReopenShm(t) \/ SizeShm(t) \/ MapShm(t) \/ InitFails(t)
    \/ PublishVersion(t) \/ StoreLock(t) \/ StoreCount(t)
    \/ PollUnsized(t) \/ PollAgain(t) \/ PollTimesOut(t) \/ PollFindsVersion(t) \/ PollFindsOther(t)
    \/ LockToReset(t) \/ Reset(t) \/ UnlockReset(t)

Operate(t) ==
    \/ Begin(t) \/ SpinLock(t) \/ FindPoint(t)
    \/ SetPoint(t) \/ SetFrequency(t) \/ ClearPoint(t) \/ ClearAll(t)
    \/ Execute(t) \/ PutBack(t) \/ StampRecord(t) \/ WriteRecord(t) \/ SpinUnlock(t)
    \/ Cleanup(t)
    \/ VerifyNow(t) \/ VerifyTail(t) \/ VerifyName(t) \/ VerifyTime(t) \/ VerifyReturns(t)

\* Every call has been made, or its process is dead.
Terminating ==
    /\ \A t \in Threads : At(t, "dead") \/ (At(t, "idle") /\ todo[t] = << >>)
    /\ UNCHANGED vars

Next ==
    \/ \E t \in Threads : Initialise(t) \/ Operate(t) \/ CrashWhileCreating(t)
    \/ Tick
    \/ Terminating

Spec == Init /\ [][Next]_vars

\* Threads are scheduled; nothing makes a process crash or the clock tick.
FairSpec == Spec /\ \A t \in Threads : WF_vars(Initialise(t) \/ Operate(t))

-----------------------------------------------------------------------------
PointType == [name : Names \cup {None}, action : Actions \cup {None}, enabled : BOOLEAN,
              percent : 0..100, count : 0..(Word - 1), limit : 0..(Word - 1)]

\* Types of the shared objects, and who may be inside an object: a thread
\* past the spin lock has its process mapped, one past the open has an object.
TypeOK ==
    /\ named \in 0..made /\ made \in 0..MaxObjects
    /\ \A o \in Objects :
        /\ shm[o].version \in {"none", "other", "current"} /\ shm[o].lock \in {0, 1}
        /\ shm[o].count \in 0..MaxPoints /\ shm[o].tail \in Slots
        /\ \A i \in 1..MaxPoints : shm[o].points[i] \in PointType
        /\ shm[o].version # "none" => shm[o].sized
    /\ mapped \in [Processes -> 0..made]
    /\ initLock \in [Processes -> Threads \cup {None}]
    /\ \A t \in Threads : found[t] \in 0..MaxPoints /\ polls[t] \in 0..MaxPolls
    /\ \A t \in Threads :
        pc[t] \in {"find", "unlock", "stamp", "record", "put back", "tail", "name", "time"} =>
            mapped[Process(t)] # 0 /\ Registry(t).version = "current"

\* An object in which nobody is at work, and no initialisation has overwritten
\* a table or a lock that was in use.
Quiet(o) == shm[o].version = "current" /\ shm[o].lock = 0 /\ ~damaged[o]

\* What the calls that succeeded asked for is what the table holds, whoever
\* made them: each name once, with its last action, on or off as last told,
\* and nothing of a registry that another build left.
PointsSurvive ==
    \A o \in Objects : Quiet(o) =>
        \A n \in Names :
            LET at == {i \in 1..shm[o].count : shm[o].points[i].name = n}
            IN  /\ Cardinality(at) = IF told[o][n].action = None THEN 0 ELSE 1
                /\ \A i \in at : /\ shm[o].points[i].action = told[o][n].action
                                 /\ shm[o].points[i].enabled = told[o][n].enabled

\* A point with a budget of n has triggered n times, in whatever threads and
\* processes, exactly when nothing is left of it, although execute takes from
\* the budget before it looks (os_transport_inject.c:393).
BudgetExact ==
    \A o \in Objects : Quiet(o) =>
        \A i \in 1..shm[o].count :
            LET p == shm[o].points[i]
            IN  p.limit > 0 => p.count + fired[o][p.name] = p.limit

\* A verify that has attached reads the ring while others write it. TRIGGERED
\* means that the point did trigger within the time asked for, NOT_TRIGGERED
\* that no record of such a trigger stood in the ring throughout the scan; the
\* one exception is a slot that was being rewritten meanwhile. (One that has not
\* attached says NOT_TRIGGERED without having looked, and may well be wrong.)
VerifyAnswers ==
    \A t \in Threads : At(t, "answered") /\ ~damaged[mapped[Process(t)]] =>
        LET o == mapped[Process(t)]
            InTime(time) == Recent(scan[t].now, time, Op(t).arg)
        IN  /\ scan[t].answer = "TRIGGERED" =>
                \/ scan[t].slot \in touched[t]
                \/ \E f \in fires[o] : f[1] = Op(t).name /\ InTime(f[2])
            /\ scan[t].answer = "NOT_TRIGGERED" =>
                \A s \in Slots \ touched[t] :
                    ~(shm[o].ring[s].name = Op(t).name /\ InTime(shm[o].ring[s].time))

\* An initialisation comes to an end, even when the process that created the
\* object died before it stored the version: it returns, or its process dies.
InitSteps == {"mutex", "open", "create", "reopen", "size", "map", "version", "lock", "count", "poll",
              "reset lock", "reset", "reset unlock"}

InitReturns == \A t \in Threads : pc[t] \in InitSteps ~> pc[t] \notin InitSteps

=============================================================================
