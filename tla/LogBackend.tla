---------------------------- MODULE LogBackend ----------------------------
(***************************************************************************)
(* The log of the library (src/src/os_transport_log.c): one state, under a *)
(* mutex, that names the backend in use. A write chooses the backend and   *)
(* tests the level under the mutex, takes what it needs to write (a copy   *)
(* of the file descriptor, or the callback), and writes without it. The    *)
(* callback may log, or register another callback, from within.            *)
(*                                                                         *)
(* Lines, formats and times are left out. File descriptors are numbers     *)
(* that the rest of the process opens and closes, too.                     *)
(***************************************************************************)
EXTENDS Integers, Sequences, FiniteSets

CONSTANTS
    Threads,
    Callbacks,
    Levels,         \* LogLevel
    Fds,            \* bound: the descriptors of the process
    MaxCalls,       \* bound: calls made in a behaviour
    MaxNesting,     \* bound: calls inside callbacks
    NoFd, None

ASSUME LevelsAssumption == Levels \subseteq Nat /\ 0 \in Levels
ASSUME FdsAssumption == Fds \subseteq Nat /\ IsFiniteSet(Fds) /\ NoFd \notin Fds
ASSUME LogBoundsAssumption == MaxCalls \in Nat /\ MaxNesting \in Nat
ASSUME LogNoneAssumption == None \notin Callbacks \cup Threads

VARIABLES
    mutex,          \* the thread that holds it
    backend, fd, callback, log_level, syslog_opened,    \* OstLogState
    stack,          \* the calls each thread is in, the innermost first
    table,          \* what each descriptor is open on: the log, something else, nothing
    fileOk,         \* whether the file of OST_LOG_FILE_PATH can be opened now
    syslogOk,       \* whether the probe finds a syslog socket now
    calls,
    asked           \* history: the levels each callback was registered with

state == <<backend, fd, callback, log_level, syslog_opened>>
env == <<fileOk, syslogOk>>
vars == <<mutex, state, stack, table, env, calls, asked>>

Backends == {"UNINITIALIZED", "FILE", "SYSLOG", "CALLBACK", "DISABLED"}

Init ==
    /\ mutex = None
    /\ backend = "UNINITIALIZED"
    /\ fd = NoFd
    /\ callback = None
    /\ log_level = 0
    /\ syslog_opened = FALSE
    /\ stack = [t \in Threads |-> << >>]
    /\ table \in [Fds -> {"free", "other"}]
    /\ fileOk \in BOOLEAN /\ syslogOk \in BOOLEAN
    /\ calls = 0
    /\ asked = [c \in Callbacks |-> {}]

-----------------------------------------------------------------------------
Frame(call, level, cb) ==
    [call |-> call, at |-> "lock", level |-> level, backend |-> "DISABLED", fd |-> NoFd, cb |-> cb]

Busy(t) == stack[t] # << >>
Top(t) == stack[t][1]
At(t, call, at) == Busy(t) /\ Top(t).call = call /\ Top(t).at = at
Becomes(t, frame) == stack' = [stack EXCEPT ![t][1] = frame]
Goto(t, at) == stack' = [stack EXCEPT ![t][1].at = at]
Return(t) == stack' = [stack EXCEPT ![t] = Tail(@)]

\* A thread calls the log; inside a callback it does so from the callback.
Start(t, call, level, cb) ==
    /\ calls < MaxCalls
    /\ ~Busy(t) \/ (At(t, "write", "emit") /\ Top(t).cb # None /\ Len(stack[t]) <= MaxNesting)
    /\ calls' = calls + 1
    /\ stack' = [stack EXCEPT ![t] = <<Frame(call, level, cb)>> \o @]
    /\ UNCHANGED <<mutex, state, table, env, asked>>

StartWrite(t) == \E level \in Levels : Start(t, "write", level, None)
StartReg(t) == \E level \in Levels, cb \in Callbacks : Start(t, "reg", level, cb)

Lock(t) ==
    /\ Busy(t) /\ Top(t).at = "lock"
    /\ mutex = None
    /\ mutex' = t
    /\ Goto(t, IF Top(t).call = "write" THEN "select" ELSE "close")
    /\ UNCHANGED <<state, table, env, calls, asked>>

-----------------------------------------------------------------------------
\* ost_log_vwrite.

FreeFds == {f \in Fds : table[f] = "free"}
LowestFree == CHOOSE f \in FreeFds : \A g \in FreeFds : f <= g

\* Mutant: syslog stays open when the file takes over.
SyslogUnderFile_Kept == syslog_opened
SyslogUnderFile == FALSE

\* ost_log_install_file_backend_locked: the file is opened anew, whatever was
\* there before is closed.
OpenFile ==
    /\ fileOk /\ FreeFds # {}
    /\ fd' = LowestFree
    /\ backend' = "FILE"
    /\ syslog_opened' = SyslogUnderFile
    /\ table' = [f \in Fds |-> CASE f = LowestFree -> "log" [] f = fd -> "free" [] OTHER -> table[f]]

OpenSyslog ==
    /\ syslogOk
    /\ syslog_opened' = TRUE
    /\ backend' = "SYSLOG"
    /\ UNCHANGED <<fd, table>>

Settled == backend \in {"CALLBACK", "FILE"}

CanOpenFile == fileOk /\ FreeFds # {}

\* ost_log_select_backend_locked: the callback and the file stay, syslog gives
\* way to the file, and what is disabled is tried again.
Select(t) ==
    /\ At(t, "write", "select")
    /\ \/ Settled /\ UNCHANGED <<backend, fd, syslog_opened, table>>
       \/ ~Settled /\ CanOpenFile /\ OpenFile
       \/ /\ ~Settled /\ ~CanOpenFile
          /\ \/ backend = "SYSLOG" /\ UNCHANGED <<backend, fd, syslog_opened, table>>
             \/ backend # "SYSLOG" /\ OpenSyslog
             \/ /\ backend # "SYSLOG" /\ ~syslogOk
                /\ backend' = "DISABLED"
                /\ UNCHANGED <<fd, syslog_opened, table>>
    /\ Goto(t, "filter")
    /\ UNCHANGED <<mutex, callback, log_level, env, calls, asked>>

FilteredOut(t) ==
    /\ At(t, "write", "filter")
    /\ Top(t).level < log_level
    /\ mutex' = None
    /\ Return(t)
    /\ UNCHANGED <<state, table, env, calls, asked>>

\* Mutant: the mutex is released as soon as the level has been tested.
AfterFilter_Released == None
AfterFilter == mutex

Passes(t) ==
    /\ At(t, "write", "filter")
    /\ Top(t).level >= log_level
    /\ mutex' = AfterFilter
    /\ Goto(t, "take")
    /\ UNCHANGED <<state, table, env, calls, asked>>

\* Mutant: the writer uses the descriptor of the state itself.
DupFd_Shared == fd
DupFd == IF FreeFds = {} THEN NoFd ELSE LowestFree

\* Mutant: the mutex is held until the message is out.
AfterTake_Held == mutex
AfterTake == None

\* The target is taken; dup fails when the process has no descriptor left.
Take(t) ==
    LET copy == IF backend = "FILE" /\ fd # NoFd THEN DupFd ELSE NoFd
        cb   == IF backend = "CALLBACK" THEN callback ELSE None
    IN  /\ At(t, "write", "take")
        /\ Becomes(t, [Top(t) EXCEPT !.at = "emit", !.backend = backend, !.fd = copy, !.cb = cb])
        /\ table' = [f \in Fds |-> IF f = copy THEN "log" ELSE table[f]]
        /\ mutex' = AfterTake
        /\ UNCHANGED <<state, env, calls, asked>>

\* ost_log_emit: the file takes the line or does not, syslog takes it, the
\* callback returns.
Emit(t) ==
    /\ At(t, "write", "emit")
    /\ Goto(t, "done")
    /\ UNCHANGED <<mutex, state, table, env, calls, asked>>

WriteReturns(t) ==
    /\ At(t, "write", "done")
    /\ table' = [f \in Fds |-> IF f = Top(t).fd THEN "free" ELSE table[f]]
    /\ mutex' = IF mutex = t THEN None ELSE mutex
    /\ Return(t)
    /\ UNCHANGED <<state, env, calls, asked>>

-----------------------------------------------------------------------------
\* os_transport_log_reg, with a callback: without one it returns at once.

\* ost_log_close_locked.
CloseBackend(t) ==
    /\ At(t, "reg", "close")
    /\ table' = [f \in Fds |-> IF f = fd THEN "free" ELSE table[f]]
    /\ fd' = NoFd
    /\ syslog_opened' = FALSE
    /\ backend' = "UNINITIALIZED"
    /\ Goto(t, "store")
    /\ UNCHANGED <<mutex, callback, log_level, env, calls, asked>>

StoreCallback(t) ==
    LET cb == Top(t).cb
    IN  /\ At(t, "reg", "store")
        /\ callback' = cb
        /\ log_level' = Top(t).level
        /\ backend' = "CALLBACK"
        /\ asked' = [asked EXCEPT ![cb] = @ \cup {Top(t).level}]
        /\ mutex' = None
        /\ Return(t)
        /\ UNCHANGED <<fd, syslog_opened, table, env, calls>>

-----------------------------------------------------------------------------
\* The rest of the process opens and closes descriptors; files and sockets
\* come and go.
OthersOpen ==
    /\ FreeFds # {}
    /\ table' = [table EXCEPT ![LowestFree] = "other"]
    /\ UNCHANGED <<mutex, state, stack, env, calls, asked>>

OthersClose ==
    /\ \E f \in Fds : table[f] = "other" /\ table' = [table EXCEPT ![f] = "free"]
    /\ UNCHANGED <<mutex, state, stack, env, calls, asked>>

EnvironmentChanges ==
    /\ fileOk' \in BOOLEAN /\ syslogOk' \in BOOLEAN
    /\ UNCHANGED <<mutex, state, stack, table, calls, asked>>

Work(t) ==
    \/ Lock(t) \/ Select(t) \/ FilteredOut(t) \/ Passes(t) \/ Take(t) \/ Emit(t) \/ WriteReturns(t)
    \/ CloseBackend(t) \/ StoreCallback(t)

Next ==
    \/ \E t \in Threads : StartWrite(t) \/ StartReg(t) \/ Work(t)
    \/ OthersOpen \/ OthersClose \/ EnvironmentChanges

Spec == Init /\ [][Next]_vars

\* Threads are scheduled and callbacks return; nobody has to call.
FairSpec == Spec /\ \A t \in Threads : WF_vars(Work(t))

-----------------------------------------------------------------------------
Frames(t) == {stack[t][i] : i \in 1..Len(stack[t])}

FrameType == [call : {"write", "reg"},
              at : {"lock", "select", "filter", "take", "emit", "done", "close", "store"},
              level : Levels, backend : Backends, fd : Fds \cup {NoFd}, cb : Callbacks \cup {None}]

\* Types, and the parts of OstLogState that go together when nobody holds the
\* mutex: a descriptor with the file, an open syslog with syslog, a callback
\* with the callback.
TypeOK ==
    /\ mutex \in Threads \cup {None}
    /\ backend \in Backends /\ fd \in Fds \cup {NoFd} /\ callback \in Callbacks \cup {None}
    /\ log_level \in Levels /\ syslog_opened \in BOOLEAN
    /\ table \in [Fds -> {"free", "log", "other"}]
    /\ \A t \in Threads : Frames(t) \subseteq FrameType
    /\ mutex = None =>
        /\ backend = "FILE" <=> fd # NoFd
        /\ backend = "SYSLOG" <=> syslog_opened
        /\ backend = "CALLBACK" => callback # None

\* Every descriptor the library will write to or close is open on the log and
\* has one owner, the state or one write under way, and none is left open that
\* has no owner: no write reaches a file of the rest of the process through a
\* number that was closed and used again, and no copy is forgotten.
FdsAccounted ==
    LET copies == {c \in Threads \X (1..(MaxNesting + 1)) :
                      c[2] <= Len(stack[c[1]]) /\ stack[c[1]][c[2]].fd # NoFd}
        CopyFd(c) == stack[c[1]][c[2]].fd
        owned == {CopyFd(c) : c \in copies} \cup ({fd} \ {NoFd})
    IN  /\ owned = {f \in Fds : table[f] = "log"}
        /\ Cardinality(owned) = Cardinality(copies) + IF fd = NoFd THEN 0 ELSE 1

\* A message that is on its way to a callback has passed a level that this very
\* callback was registered with, whoever replaces it meanwhile.
CallbackGetsItsLevel ==
    \A t \in Threads : \A f \in Frames(t) :
        (f.call = "write" /\ f.cb # None) => \E level \in asked[f.cb] : f.level >= level

\* Every call returns, the ones that a callback makes included: the callback
\* runs without the mutex.
CallsReturn == \A t \in Threads : Busy(t) ~> ~Busy(t)
=============================================================================
