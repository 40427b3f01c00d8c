------------------------- MODULE LogBackendProofs -------------------------
(* What holds of the log for every number of threads, callbacks, levels,   *)
(* descriptors and nested calls. The invariant says who holds the mutex    *)
(* from where each thread is (Locked), which fields of the state go        *)
(* together at every point and not only when the mutex is free (Coupled),  *)
(* that the calls a thread has suspended are writes inside their callback  *)
(* (Nested), and that the descriptors that are open on the log are those   *)
(* of the state and of the writes under way, one each (Owned).             *)
EXTENDS LogBackend, FiniteSetTheorems, WellFoundedInduction, TLAPS

Typed ==
    /\ mutex \in Threads \cup {None}
    /\ backend \in Backends /\ fd \in Fds \cup {NoFd} /\ callback \in Callbacks \cup {None}
    /\ log_level \in Levels /\ syslog_opened \in BOOLEAN
    /\ table \in [Fds -> {"free", "log", "other"}]
    /\ stack \in [Threads -> Seq(FrameType)]
    /\ asked \in [Callbacks -> SUBSET Levels]
    /\ \A t \in Threads : Len(stack[t]) <= MaxNesting + 1

(* Only a write that is inside its callback has calls above it.            *)
Nested ==
    \A t \in Threads : \A i \in 2 .. Len(stack[t]) :
        stack[t][i].call = "write" /\ stack[t][i].at = "emit" /\ stack[t][i].cb # None

(* A write has a target, a descriptor or a callback, once it has taken it; *)
(* a callback has been registered with a level that lets the message pass. *)
Sound(f, heard) ==
    /\ f.call = "write" => f.at \in {"lock", "select", "filter", "take", "emit", "done"}
    /\ f.call = "reg" => f.at \in {"lock", "close", "store"} /\ f.cb # None /\ f.fd = NoFd
    /\ f.at \notin {"emit", "done"} => f.fd = NoFd /\ (f.call = "write" => f.cb = None)
    /\ f.call = "write" /\ f.cb # None =>
         f.fd = NoFd /\ \E level \in heard[f.cb] : f.level >= level

Targets == \A t \in Threads : \A i \in 1 .. Len(stack[t]) : Sound(stack[t][i], asked)

(* The threads at the points of the code that are under the mutex.         *)
Inside == {t \in Threads : Busy(t) /\ Top(t).at \in {"select", "filter", "take", "close", "store"}}

Locked ==
    /\ Inside = {mutex} \ {None}
    /\ \A t \in Threads :
        /\ At(t, "write", "take") => Top(t).level >= log_level
        /\ At(t, "reg", "store") => backend = "UNINITIALIZED"

Coupled ==
    /\ backend = "FILE" <=> fd # NoFd
    /\ backend = "SYSLOG" <=> syslog_opened
    /\ backend = "CALLBACK" => callback # None
    /\ callback # None => log_level \in asked[callback]

(* The copy of the descriptor that each thread writes to.                  *)
Copy == [t \in Threads |-> IF Busy(t) THEN Top(t).fd ELSE NoFd]

Owned ==
    /\ fd # NoFd => table[fd] = "log"
    /\ \A t \in Threads : Copy[t] # NoFd => table[Copy[t]] = "log" /\ Copy[t] # fd
    /\ \A t, u \in Threads : Copy[t] # NoFd /\ Copy[t] = Copy[u] => t = u
    /\ \A f \in Fds : table[f] = "log" => f = fd \/ \E t \in Threads : f = Copy[t]

IInv == Typed /\ Nested /\ Targets /\ Locked /\ Coupled /\ Owned

-----------------------------------------------------------------------------
(* A set of naturals that is not empty has a least member, so that there is*)
(* a lowest free descriptor.                                               *)
LEMMA LowestFreeIsFree ==
    ASSUME Typed, FreeFds # {}
    PROVE  LowestFree \in Fds /\ LowestFree # NoFd /\ table[LowestFree] = "free"
  <1>1. FreeFds \subseteq Nat /\ FreeFds \subseteq Fds
    BY FdsAssumption DEF FreeFds
  <1>2. PICK m \in FreeFds : \A g \in FreeFds : ~(<<g, m>> \in OpToRel(<, Nat))
    <2>1. IsWellFoundedOn(OpToRel(<, Nat), Nat)
      BY NatLessThanWellFounded
    <2> QED BY <1>1, <2>1, WFMin
  <1>3. \A g \in FreeFds : m <= g
    <2>1. \A g \in FreeFds : ~(g < m)
      BY <1>1, <1>2 DEF OpToRel
    <2> QED BY <1>1, <2>1
  <1>4. LowestFree \in FreeFds
    BY <1>2, <1>3 DEF LowestFree
  <1> QED BY <1>4, FdsAssumption DEF FreeFds

(* The three ways a stack changes: its top is replaced, a call returns, a  *)
(* call is made.                                                           *)
LEMMA Replaced ==
    ASSUME Typed, NEW t \in Threads, Busy(t), NEW f \in FrameType, Becomes(t, f)
    PROVE  /\ stack' \in [Threads -> Seq(FrameType)]
           /\ \A u \in Threads : u # t => stack'[u] = stack[u]
           /\ stack'[t] # <<>> /\ Len(stack'[t]) = Len(stack[t]) /\ stack'[t][1] = f
           /\ \A i \in 2 .. Len(stack[t]) : stack'[t][i] = stack[t][i]
  <1>1. stack \in [Threads -> Seq(FrameType)] /\ stack[t] \in Seq(FrameType) /\ stack[t] # <<>>
    BY DEF Typed, Busy
  <1>2. 1 \in 1 .. Len(stack[t])
    BY <1>1
  <1>3. \A u \in Threads : stack'[u] = IF u = t THEN [stack[t] EXCEPT ![1] = f] ELSE stack[u]
    BY <1>1 DEF Becomes
  <1>4. [stack[t] EXCEPT ![1] = f] \in Seq(FrameType)
    BY <1>1, <1>2
  <1>5. stack' \in [Threads -> Seq(FrameType)]
    BY <1>1, <1>4 DEF Becomes
  <1>6. /\ Len([stack[t] EXCEPT ![1] = f]) = Len(stack[t])
        /\ [stack[t] EXCEPT ![1] = f][1] = f
        /\ \A i \in 2 .. Len(stack[t]) : [stack[t] EXCEPT ![1] = f][i] = stack[t][i]
    BY <1>1, <1>2
  <1>7. stack'[t] # <<>>
    BY <1>1, <1>2, <1>3, <1>6
  <1> QED BY <1>3, <1>5, <1>6, <1>7

LEMMA Moved ==
    ASSUME Typed, NEW t \in Threads, Busy(t), NEW at, Goto(t, at)
    PROVE  Becomes(t, [Top(t) EXCEPT !.at = at])
  BY DEF Goto, Becomes, Top

LEMMA Returned ==
    ASSUME Typed, NEW t \in Threads, Busy(t), Return(t)
    PROVE  /\ stack' \in [Threads -> Seq(FrameType)]
           /\ \A u \in Threads : u # t => stack'[u] = stack[u]
           /\ Len(stack'[t]) = Len(stack[t]) - 1
           /\ \A i \in 1 .. Len(stack'[t]) :
                i + 1 \in 2 .. Len(stack[t]) /\ stack'[t][i] = stack[t][i + 1]
           /\ stack'[t] # <<>> => 2 \in 2 .. Len(stack[t]) /\ stack'[t][1] = stack[t][2]
  <1>1. stack \in [Threads -> Seq(FrameType)] /\ stack[t] \in Seq(FrameType) /\ stack[t] # <<>>
    BY DEF Typed, Busy
  <1>2. \A u \in Threads : stack'[u] = IF u = t THEN Tail(stack[t]) ELSE stack[u]
    BY <1>1 DEF Return
  <1>3. Tail(stack[t]) \in Seq(FrameType) /\ Len(Tail(stack[t])) = Len(stack[t]) - 1
    BY <1>1
  <1>4. stack' \in [Threads -> Seq(FrameType)]
    BY <1>1, <1>3 DEF Return
  <1>5. \A i \in 1 .. Len(Tail(stack[t])) :
          i + 1 \in 2 .. Len(stack[t]) /\ Tail(stack[t])[i] = stack[t][i + 1]
    BY <1>1
  <1>6. Tail(stack[t]) # <<>> => 1 \in 1 .. Len(Tail(stack[t]))
    BY <1>3
  <1>7. Tail(stack[t]) # <<>> => 2 \in 2 .. Len(stack[t]) /\ Tail(stack[t])[1] = stack[t][2]
    BY <1>5, <1>6
  <1>8. stack'[t] = Tail(stack[t]) /\ \A u \in Threads : u # t => stack'[u] = stack[u]
    BY <1>2
  <1> QED BY ONLY <1>3, <1>4, <1>5, <1>7, <1>8

LEMMA Called ==
    ASSUME Typed, NEW t \in Threads, NEW f \in FrameType,
           stack' = [stack EXCEPT ![t] = <<f>> \o @]
    PROVE  /\ stack' \in [Threads -> Seq(FrameType)]
           /\ \A u \in Threads : u # t => stack'[u] = stack[u]
           /\ stack'[t] # <<>> /\ Len(stack'[t]) = Len(stack[t]) + 1 /\ stack'[t][1] = f
           /\ \A i \in 2 .. Len(stack'[t]) :
                i - 1 \in 1 .. Len(stack[t]) /\ stack'[t][i] = stack[t][i - 1]
  <1>1. stack \in [Threads -> Seq(FrameType)] /\ stack[t] \in Seq(FrameType)
    BY DEF Typed
  <1>2. \A u \in Threads : stack'[u] = IF u = t THEN <<f>> \o stack[t] ELSE stack[u]
    BY <1>1
  <1>3. <<f>> \in Seq(FrameType) /\ Len(<<f>>) = 1 /\ <<f>>[1] = f
    OBVIOUS
  <1>4. /\ <<f>> \o stack[t] \in Seq(FrameType)
        /\ Len(<<f>> \o stack[t]) = Len(stack[t]) + 1
        /\ (<<f>> \o stack[t])[1] = f
        /\ \A i \in 2 .. Len(stack[t]) + 1 :
             i - 1 \in 1 .. Len(stack[t]) /\ (<<f>> \o stack[t])[i] = stack[t][i - 1]
    BY <1>1, <1>3
  <1>5. stack' \in [Threads -> Seq(FrameType)]
    BY <1>1, <1>4
  <1>6. <<f>> \o stack[t] # <<>>
    BY <1>1, <1>4
  <1> QED BY <1>1, <1>2, <1>4, <1>5, <1>6

(* The top of a stack, typed and sound.                                    *)
LEMMA TopFacts ==
    ASSUME Typed, Targets, NEW t \in Threads, Busy(t)
    PROVE  Top(t) \in FrameType /\ Sound(Top(t), asked) /\ 1 \in 1 .. Len(stack[t])
  <1>1. stack[t] \in Seq(FrameType) /\ stack[t] # <<>>
    BY DEF Typed, Busy
  <1>2. 1 \in 1 .. Len(stack[t])
    BY <1>1
  <1> QED BY <1>1, <1>2 DEF Targets, Top

(* What the three ways leave of the calls below the top.                   *)
LEMMA Advance ==
    ASSUME Typed, Nested, Targets, NEW t \in Threads, NEW f \in FrameType,
           Busy(t), Becomes(t, f), asked' = asked, Sound(f, asked)
    PROVE  /\ stack' \in [Threads -> Seq(FrameType)] /\ Nested' /\ Targets'
           /\ \A u \in Threads : Len(stack'[u]) <= MaxNesting + 1
           /\ \A u \in Threads : u # t => stack'[u] = stack[u]
           /\ stack'[t] # <<>> /\ stack'[t][1] = f
  <1>1. /\ stack' \in [Threads -> Seq(FrameType)]
        /\ \A u \in Threads : u # t => stack'[u] = stack[u]
        /\ stack'[t] # <<>> /\ Len(stack'[t]) = Len(stack[t]) /\ stack'[t][1] = f
        /\ \A i \in 2 .. Len(stack[t]) : stack'[t][i] = stack[t][i]
    BY Replaced
  <1>2. Nested'
    BY <1>1 DEF Nested
  <1>3. Targets'
    <2>1. ASSUME NEW u \in Threads, NEW i \in 1 .. Len(stack'[u])
          PROVE  Sound(stack'[u][i], asked')
      <3>1. CASE u = t /\ i = 1
        BY <1>1, <3>1
      <3>2. CASE ~(u = t /\ i = 1)
        <4>1. i \in 1 .. Len(stack[u]) /\ stack'[u][i] = stack[u][i]
          BY <1>1, <3>2 DEF Typed
        <4>2. Sound(stack[u][i], asked)
          BY <4>1 DEF Targets
        <4> QED BY <4>1, <4>2
      <3> QED BY <3>1, <3>2
    <2> QED BY <2>1 DEF Targets
  <1>4. \A u \in Threads : Len(stack'[u]) <= MaxNesting + 1
    BY <1>1 DEF Typed
  <1> QED BY <1>1, <1>2, <1>3, <1>4

LEMMA Resume ==
    ASSUME Typed, Nested, Targets, NEW t \in Threads, Busy(t), Return(t),
           \A c \in Callbacks : asked[c] \subseteq asked'[c]
    PROVE  /\ stack' \in [Threads -> Seq(FrameType)] /\ Nested' /\ Targets'
           /\ \A u \in Threads : Len(stack'[u]) <= MaxNesting + 1
           /\ \A u \in Threads : u # t => stack'[u] = stack[u]
           /\ stack'[t] # <<>> => /\ stack'[t][1].call = "write" /\ stack'[t][1].at = "emit"
                                  /\ stack'[t][1].fd = NoFd
  <1>1. /\ stack' \in [Threads -> Seq(FrameType)]
        /\ \A u \in Threads : u # t => stack'[u] = stack[u]
        /\ Len(stack'[t]) = Len(stack[t]) - 1
        /\ \A i \in 1 .. Len(stack'[t]) :
             i + 1 \in 2 .. Len(stack[t]) /\ stack'[t][i] = stack[t][i + 1]
        /\ stack'[t] # <<>> => 2 \in 2 .. Len(stack[t]) /\ stack'[t][1] = stack[t][2]
    BY Returned
  <1>2. Nested'
    <2>1. \A i \in 2 .. Len(stack'[t]) : i \in 1 .. Len(stack'[t])
      BY <1>1
    <2> QED BY <1>1, <2>1 DEF Nested
  <1>3. ASSUME NEW u \in Threads, NEW i \in 1 .. Len(stack[u])
        PROVE  Sound(stack[u][i], asked')
    <2>1. PICK f : f = stack[u][i]
      OBVIOUS
    <2>2. f \in FrameType /\ Sound(f, asked)
      BY <2>1 DEF Typed, Targets
    <2>3. f.cb \in Callbacks \cup {None}
      BY <2>2 DEF FrameType
    <2> QED BY <2>1, <2>2, <2>3 DEF Sound
  <1>4. Targets'
    <2>1. ASSUME NEW u \in Threads, NEW i \in 1 .. Len(stack'[u])
          PROVE  Sound(stack'[u][i], asked')
      <3>1. CASE u = t
        <4>1. Len(stack[t]) \in Nat
          BY DEF Typed
        <4>2. i + 1 \in 1 .. Len(stack[t]) /\ stack'[u][i] = stack[t][i + 1]
          BY <1>1, <3>1, <4>1
        <4> QED BY <1>3, <4>2
      <3>2. CASE u # t
        BY <1>1, <1>3, <3>2
      <3> QED BY <3>1, <3>2
    <2> QED BY <2>1 DEF Targets
  <1>5. \A u \in Threads : Len(stack'[u]) <= MaxNesting + 1
    <2>1. Len(stack[t]) \in Nat /\ MaxNesting \in Nat
      BY LogBoundsAssumption DEF Typed
    <2>2. Len(stack[t]) <= MaxNesting + 1 /\ Len(stack'[t]) = Len(stack[t]) - 1
      BY <1>1 DEF Typed
    <2>3. Len(stack'[t]) <= MaxNesting + 1
      BY ONLY <2>1, <2>2
    <2> QED BY <1>1, <2>3 DEF Typed
  <1>6. stack'[t] # <<>> => /\ stack'[t][1].call = "write" /\ stack'[t][1].at = "emit"
                            /\ stack'[t][1].fd = NoFd
    <2>1. \A i \in 2 .. Len(stack[t]) : i \in 1 .. Len(stack[t])
      BY DEF Typed
    <2> QED BY <1>1, <2>1 DEF Nested, Targets, Sound
  <1> QED BY <1>1, <1>2, <1>4, <1>5, <1>6

LEMMA Suspend ==
    ASSUME Typed, Nested, Targets, NEW t \in Threads, NEW f \in FrameType,
           stack' = [stack EXCEPT ![t] = <<f>> \o @], asked' = asked, Sound(f, asked),
           ~Busy(t) \/ (At(t, "write", "emit") /\ Top(t).cb # None /\ Len(stack[t]) <= MaxNesting)
    PROVE  /\ stack' \in [Threads -> Seq(FrameType)] /\ Nested' /\ Targets'
           /\ \A u \in Threads : Len(stack'[u]) <= MaxNesting + 1
           /\ \A u \in Threads : u # t => stack'[u] = stack[u]
           /\ stack'[t] # <<>> /\ stack'[t][1] = f
  <1>1. /\ stack' \in [Threads -> Seq(FrameType)]
        /\ \A u \in Threads : u # t => stack'[u] = stack[u]
        /\ stack'[t] # <<>> /\ Len(stack'[t]) = Len(stack[t]) + 1 /\ stack'[t][1] = f
        /\ \A i \in 2 .. Len(stack'[t]) :
             i - 1 \in 1 .. Len(stack[t]) /\ stack'[t][i] = stack[t][i - 1]
    BY Called
  <1>2. Len(stack[t]) \in Nat
    BY DEF Typed
  <1>3. Nested'
    <2>1. ASSUME NEW i \in 2 .. Len(stack'[t])
          PROVE  LET g == stack'[t][i] IN g.call = "write" /\ g.at = "emit" /\ g.cb # None
      <3>1. i - 1 \in 1 .. Len(stack[t]) /\ stack'[t][i] = stack[t][i - 1]
        BY <1>1, <2>1
      <3>2. CASE i = 2
        BY <1>2, <3>1, <3>2 DEF At, Top, Busy, Typed
      <3>3. CASE i # 2
        <4>1. i - 1 \in 2 .. Len(stack[t])
          BY <1>2, <3>1, <3>3
        <4> QED BY <3>1, <4>1 DEF Nested
      <3> QED BY <3>2, <3>3
    <2> QED BY <1>1, <2>1 DEF Nested
  <1>4. Targets'
    <2>1. ASSUME NEW u \in Threads, NEW i \in 1 .. Len(stack'[u])
          PROVE  Sound(stack'[u][i], asked')
      <3>1. CASE u # t
        BY <1>1, <3>1 DEF Targets
      <3>2. CASE u = t /\ i = 1
        BY <1>1, <3>2
      <3>3. CASE u = t /\ i # 1
        <4>1. i \in 2 .. Len(stack'[t])
          BY <1>1, <1>2, <3>3
        <4> QED BY <1>1, <3>3, <4>1 DEF Targets
      <3> QED BY <3>1, <3>2, <3>3
    <2> QED BY <2>1 DEF Targets
  <1>5. Len(stack'[t]) <= MaxNesting + 1
    <2>1. MaxNesting \in Nat /\ Len(stack[t]) <= MaxNesting
      BY LogBoundsAssumption DEF Busy, Typed
    <2> QED BY <1>1, <1>2, <2>1
  <1> QED BY <1>1, <1>3, <1>4, <1>5 DEF Typed

(* A call of t moves the point and the copy of no other thread.            *)
LEMMA OthersStay ==
    ASSUME NEW t \in Threads, \A u \in Threads : u # t => stack'[u] = stack[u]
    PROVE  /\ \A u \in Threads : u # t => Copy'[u] = Copy[u]
           /\ Inside' \ {t} = Inside \ {t}
           /\ stack'[t] = <<>> => Copy'[t] = NoFd /\ t \notin Inside'
           /\ stack'[t] # <<>> =>
                /\ Copy'[t] = stack'[t][1].fd
                /\ t \in Inside' <=>
                     stack'[t][1].at \in {"select", "filter", "take", "close", "store"}
           /\ Copy \in [Threads -> {Copy[u] : u \in Threads}]
           /\ Copy' \in [Threads -> {Copy'[u] : u \in Threads}]
  BY DEF Copy, Inside, Busy, Top

LEMMA OwnedStays ==
    ASSUME Owned, table' = table, fd' = fd, \A u \in Threads : Copy'[u] = Copy[u]
    PROVE  Owned'
  BY DEF Owned

(* A thread under the mutex stays there with it, or leaves with it.        *)
LEMMA LockedStays ==
    ASSUME Typed, Locked, NEW t \in Threads, t \in Inside,
           \A u \in Threads : u # t => stack'[u] = stack[u],
           mutex' = IF t \in Inside' THEN t ELSE None,
           stack'[t] # <<>> =>
             /\ stack'[t][1].call = "write" /\ stack'[t][1].at = "take" =>
                  stack'[t][1].level >= log_level'
             /\ stack'[t][1].call = "reg" /\ stack'[t][1].at = "store" =>
                  backend' = "UNINITIALIZED"
    PROVE  Locked'
  <1>1. Inside = {t}
    BY DEF Locked
  <1>2. Inside' \ {t} = {}
    BY <1>1, OthersStay
  <1>3. None \notin Threads
    BY LogNoneAssumption
  <1>4. Inside' = {mutex'} \ {None}
    BY <1>2, <1>3
  <1>5. ASSUME NEW u \in Threads, u # t
        PROVE  ~At(u, "write", "take")' /\ ~At(u, "reg", "store")'
    BY <1>2, <1>5 DEF At, Inside
  <1>6. /\ At(t, "write", "take")' => stack'[t][1].level >= log_level'
        /\ At(t, "reg", "store")' => backend' = "UNINITIALIZED"
    BY DEF At, Busy, Top
  <1> QED BY <1>4, <1>5, <1>6 DEF Locked, Top

(* A thread outside the mutex that stays outside changes nothing of this.  *)
LEMMA LockedElsewhere ==
    ASSUME Typed, Locked, NEW t \in Threads, t \notin Inside, t \notin Inside',
           \A u \in Threads : u # t => stack'[u] = stack[u],
           UNCHANGED <<mutex, log_level, backend>>
    PROVE  Locked'
  <1>1. Inside' = Inside
    <2>1. Inside' \ {t} = Inside \ {t}
      BY OthersStay
    <2> QED BY <2>1
  <1>2. ~At(t, "write", "take")' /\ ~At(t, "reg", "store")'
    BY DEF At, Inside
  <1>3. ASSUME NEW u \in Threads, u # t
        PROVE  /\ At(u, "write", "take")' => Top(u)'.level >= log_level'
               /\ At(u, "reg", "store")' => backend' = "UNINITIALIZED"
    BY <1>3 DEF At, Busy, Top, Locked
  <1> QED BY <1>1, <1>2, <1>3 DEF Locked

(* The call goes to another point of the code.                             *)
LEMMA GotoTop ==
    ASSUME Typed, Targets, NEW t \in Threads, Busy(t),
           NEW at \in {"lock", "select", "filter", "take", "emit", "done", "close", "store"},
           Goto(t, at)
    PROVE  \E f \in FrameType :
             /\ Becomes(t, f)
             /\ f.at = at /\ f.call = Top(t).call /\ f.level = Top(t).level
             /\ f.fd = Top(t).fd /\ f.cb = Top(t).cb
  <1>1. PICK f : f = [Top(t) EXCEPT !.at = at]
    OBVIOUS
  <1>2. Becomes(t, f)
    BY <1>1, Moved
  <1>3. Top(t) \in FrameType
    BY TopFacts
  <1>4. /\ f \in FrameType /\ f.at = at /\ f.call = Top(t).call /\ f.level = Top(t).level
        /\ f.fd = Top(t).fd /\ f.cb = Top(t).cb
    BY <1>1, <1>3 DEF FrameType
  <1> QED BY <1>2, <1>4

-----------------------------------------------------------------------------
LEMMA InitIInv == Init => IInv
  <1> SUFFICES ASSUME Init PROVE IInv
    OBVIOUS
  <1>1. \A t \in Threads : stack[t] = <<>> /\ Len(stack[t]) = 0 /\ ~Busy(t)
    BY DEF Init, Busy
  <1>2. Typed
    <2>1. stack \in [Threads -> Seq(FrameType)]
      BY DEF Init
    <2>2. table \in [Fds -> {"free", "log", "other"}]
      BY DEF Init
    <2>3. asked \in [Callbacks -> SUBSET Levels]
      BY DEF Init
    <2>4. \A t \in Threads : Len(stack[t]) <= MaxNesting + 1
      <3>1. 0 <= MaxNesting + 1
        BY LogBoundsAssumption
      <3> QED BY <1>1, <3>1
    <2>5. /\ mutex \in Threads \cup {None} /\ backend \in Backends
          /\ fd \in Fds \cup {NoFd} /\ callback \in Callbacks \cup {None}
          /\ log_level \in Levels /\ syslog_opened \in BOOLEAN
      BY LevelsAssumption DEF Init, Backends
    <2> QED BY <2>1, <2>2, <2>3, <2>4, <2>5 DEF Typed
  <1>3. Nested /\ Targets
    BY <1>1 DEF Nested, Targets
  <1>4. Locked
    BY <1>1 DEF Init, Locked, Inside, At
  <1>5. Coupled
    BY DEF Init, Coupled
  <1>6. Owned
    BY <1>1 DEF Init, Owned, Copy
  <1> QED BY <1>2, <1>3, <1>4, <1>5, <1>6 DEF IInv

-----------------------------------------------------------------------------
(* One lemma per action.                                                   *)
LEMMA StartKeeps ==
    ASSUME IInv, NEW t \in Threads, NEW call \in {"write", "reg"}, NEW level \in Levels,
           NEW cb \in Callbacks \cup {None}, call = "reg" <=> cb # None,
           Start(t, call, level, cb)
    PROVE  IInv'
  <1> USE DEF IInv
  <1>1. PICK f : f = Frame(call, level, cb)
    OBVIOUS
  <1>2. f \in FrameType /\ Sound(f, asked) /\ f.at = "lock" /\ f.fd = NoFd
    BY <1>1 DEF Frame, FrameType, Sound, Backends
  <1>3. /\ ~Busy(t) \/ (At(t, "write", "emit") /\ Top(t).cb # None /\ Len(stack[t]) <= MaxNesting)
        /\ stack' = [stack EXCEPT ![t] = <<f>> \o @]
        /\ UNCHANGED <<mutex, backend, fd, callback, log_level, syslog_opened, table, asked>>
    BY <1>1 DEF Start, state
  <1>4. /\ stack' \in [Threads -> Seq(FrameType)] /\ Nested' /\ Targets'
        /\ \A u \in Threads : Len(stack'[u]) <= MaxNesting + 1
        /\ \A u \in Threads : u # t => stack'[u] = stack[u]
        /\ stack'[t] # <<>> /\ stack'[t][1] = f
    BY <1>2, <1>3, Suspend
  <1>5. Typed'
    BY <1>3, <1>4 DEF Typed
  <1>6. Locked'
    <2>1. t \notin Inside
      BY <1>3 DEF Inside, At
    <2>2. Inside' = Inside
      <3>1. Inside' \ {t} = Inside \ {t}
        BY <1>4, OthersStay
      <3>2. t \notin Inside'
        BY <1>2, <1>4 DEF Inside, Top
      <3> QED BY <2>1, <3>1, <3>2
    <2>3. \A u \in Threads : At(u, "write", "take")' => At(u, "write", "take") /\ Top(u)' = Top(u)
      BY <1>2, <1>4 DEF At, Busy, Top
    <2>4. \A u \in Threads : At(u, "reg", "store")' => At(u, "reg", "store")
      BY <1>2, <1>4 DEF At, Busy, Top
    <2> QED BY <1>3, <2>2, <2>3, <2>4 DEF Locked
  <1>7. Coupled'
    BY <1>3 DEF Coupled
  <1>8. Owned'
    <2>1. Copy[t] = NoFd
      BY <1>3, TopFacts DEF Copy, At, Sound
    <2>2. Copy'[t] = NoFd
      BY <1>2, <1>4, OthersStay
    <2> QED BY <1>3, <1>4, <2>1, <2>2, OthersStay, OwnedStays
  <1> QED BY <1>4, <1>5, <1>6, <1>7, <1>8

LEMMA LockKeeps ==
    ASSUME IInv, NEW t \in Threads, Lock(t)
    PROVE  IInv'
  <1> USE DEF IInv
  <1>1. /\ Busy(t) /\ Top(t).at = "lock" /\ mutex = None /\ mutex' = t
        /\ UNCHANGED <<backend, fd, callback, log_level, syslog_opened, table, asked>>
    BY DEF Lock, state
  <1>2. Top(t) \in FrameType /\ Sound(Top(t), asked)
    BY <1>1, TopFacts
  <1>3. PICK f \in FrameType :
          /\ Becomes(t, f)
          /\ f.at = (IF Top(t).call = "write" THEN "select" ELSE "close")
          /\ f.call = Top(t).call /\ f.fd = Top(t).fd /\ f.cb = Top(t).cb
    BY <1>1, GotoTop DEF Lock
  <1>4. Sound(f, asked)
    BY <1>1, <1>2, <1>3 DEF Sound, FrameType
  <1>5. /\ stack' \in [Threads -> Seq(FrameType)] /\ Nested' /\ Targets'
        /\ \A u \in Threads : Len(stack'[u]) <= MaxNesting + 1
        /\ \A u \in Threads : u # t => stack'[u] = stack[u]
        /\ stack'[t] # <<>> /\ stack'[t][1] = f
    BY <1>1, <1>3, <1>4, Advance
  <1>6. Typed'
    BY <1>1, <1>5 DEF Typed
  <1>7. Locked'
    <2>1. Inside = {} /\ Inside' \ {t} = Inside \ {t}
      BY <1>1, <1>5, OthersStay DEF Locked
    <2>2. t \in Inside'
      BY <1>3, <1>5 DEF Inside, Top, Busy
    <2>3. Inside' = {mutex'} \ {None}
      BY <1>1, <2>1, <2>2, LogNoneAssumption
    <2>4. ASSUME NEW u \in Threads
          PROVE  ~At(u, "write", "take")' /\ ~At(u, "reg", "store")'
      <3>1. CASE u = t
        BY <1>3, <1>5, <3>1 DEF At, Top
      <3>2. CASE u # t
        BY <2>1, <3>2 DEF At, Inside
      <3> QED BY <3>1, <3>2
    <2> QED BY <2>3, <2>4 DEF Locked
  <1>8. Coupled'
    BY <1>1 DEF Coupled
  <1>9. Owned'
    <2>1. Copy[t] = Top(t).fd /\ Copy'[t] = f.fd
      BY <1>1, <1>5, OthersStay DEF Copy
    <2> QED BY <1>1, <1>3, <1>5, <2>1, OthersStay, OwnedStays
  <1> QED BY <1>5, <1>6, <1>7, <1>8, <1>9

LEMMA SelectKeeps ==
    ASSUME IInv, NEW t \in Threads, Select(t)
    PROVE  IInv'
  <1> USE DEF IInv
  <1>1. /\ Busy(t) /\ Top(t).call = "write" /\ Top(t).at = "select"
        /\ Goto(t, "filter")
        /\ UNCHANGED <<mutex, callback, log_level, asked>>
    BY DEF Select, At
  <1>2. Top(t) \in FrameType /\ Sound(Top(t), asked)
    BY <1>1, TopFacts
  <1>3. PICK f \in FrameType :
          Becomes(t, f) /\ f.at = "filter" /\ f.call = "write" /\ f.fd = Top(t).fd /\ f.cb = Top(t).cb
    BY <1>1, GotoTop
  <1>4. Sound(f, asked)
    BY <1>1, <1>2, <1>3 DEF Sound
  <1>5. /\ stack' \in [Threads -> Seq(FrameType)] /\ Nested' /\ Targets'
        /\ \A u \in Threads : Len(stack'[u]) <= MaxNesting + 1
        /\ \A u \in Threads : u # t => stack'[u] = stack[u]
        /\ stack'[t] # <<>> /\ stack'[t][1] = f
    BY <1>1, <1>3, <1>4, Advance
  <1>6. Locked'
    <2>1. t \in Inside /\ t \in Inside'
      BY <1>1, <1>3, <1>5 DEF Inside, Busy, Top
    <2>2. mutex' = t
      BY <1>1, <2>1 DEF Locked
    <2> QED BY <1>3, <1>5, <2>1, <2>2, LockedStays
  <1>7. \A u \in Threads : Copy'[u] = Copy[u]
    <2>1. Copy[t] = Top(t).fd /\ Copy'[t] = f.fd
      BY <1>1, <1>5, OthersStay DEF Copy
    <2> QED BY <1>3, <1>5, <2>1, OthersStay
  <1>8. CASE ~Settled /\ CanOpenFile /\ OpenFile
    <2>1. /\ LowestFree \in Fds /\ LowestFree # NoFd /\ table[LowestFree] = "free"
          /\ fd = NoFd
      BY <1>8, LowestFreeIsFree DEF CanOpenFile, Settled, Coupled
    <2>2. /\ fd' = LowestFree /\ backend' = "FILE" /\ syslog_opened' = FALSE
          /\ \A g \in Fds : table'[g] = IF g = LowestFree THEN "log" ELSE table[g]
          /\ table' \in [Fds -> {"free", "log", "other"}]
      <3>1. table' = [g \in Fds |-> IF g = LowestFree THEN "log" ELSE table[g]]
        BY <1>8, <2>1, FdsAssumption DEF OpenFile
      <3> QED BY <1>8, <3>1 DEF OpenFile, SyslogUnderFile, Typed
    <2>3. Typed'
      BY <1>1, <1>5, <2>1, <2>2 DEF Typed, Backends
    <2>4. Coupled'
      BY <1>1, <2>1, <2>2 DEF Coupled
    <2>5. Owned'
      <3>1. \A u \in Threads : Copy[u] # NoFd => table[Copy[u]] = "log"
        BY DEF Owned
      <3>2. \A u \in Threads : Copy'[u] # NoFd => Copy'[u] \in Fds
        <4>1. \A u \in Threads : Copy[u] \in Fds \cup {NoFd}
          BY TopFacts DEF Copy, FrameType
        <4> QED BY <1>7, <4>1
      <3>3. \A u \in Threads : Copy'[u] # NoFd => table'[Copy'[u]] = "log" /\ Copy'[u] # fd'
        BY <1>7, <2>1, <2>2, <3>1, <3>2
      <3>4. \A u, v \in Threads : Copy'[u] # NoFd /\ Copy'[u] = Copy'[v] => u = v
        BY <1>7 DEF Owned
      <3>5. \A g \in Fds : table'[g] = "log" => g = fd' \/ \E u \in Threads : g = Copy'[u]
        BY <1>7, <2>1, <2>2, FdsAssumption DEF Owned
      <3> QED BY <2>1, <2>2, <3>3, <3>4, <3>5 DEF Owned
    <2> QED BY <1>5, <1>6, <2>3, <2>4, <2>5
  <1>9. CASE ~(~Settled /\ CanOpenFile /\ OpenFile)
    <2>1. UNCHANGED <<fd, table>>
      BY <1>9 DEF Select, OpenSyslog
    <2>2. /\ backend' \in Backends /\ syslog_opened' \in BOOLEAN
          /\ backend' = "FILE" <=> fd # NoFd
          /\ backend' = "SYSLOG" <=> syslog_opened'
          /\ backend' = "CALLBACK" => callback # None
      <3>1. CASE UNCHANGED <<backend, syslog_opened>>
        BY <3>1 DEF Coupled, Typed
      <3>2. CASE ~Settled /\ OpenSyslog
        BY <3>2 DEF OpenSyslog, Settled, Coupled, Backends
      <3>3. CASE /\ ~Settled /\ backend # "SYSLOG" /\ backend' = "DISABLED"
                 /\ syslog_opened' = syslog_opened
        BY <3>3 DEF Settled, Coupled, Typed, Backends
      <3> QED BY <1>9, <3>1, <3>2, <3>3 DEF Select
    <2>3. Typed'
      BY <1>1, <1>5, <2>1, <2>2 DEF Typed
    <2>4. Coupled'
      BY <1>1, <2>1, <2>2 DEF Coupled
    <2> QED BY <1>5, <1>6, <1>7, <2>1, <2>3, <2>4, OwnedStays
  <1> QED BY <1>8, <1>9

LEMMA FilteredOutKeeps ==
    ASSUME IInv, NEW t \in Threads, FilteredOut(t)
    PROVE  IInv'
  <1> USE DEF IInv
  <1>1. /\ Busy(t) /\ Top(t).call = "write" /\ Top(t).at = "filter" /\ Return(t)
        /\ mutex' = None
        /\ UNCHANGED <<backend, fd, callback, log_level, syslog_opened, table, asked>>
    BY DEF FilteredOut, At, state
  <1>2. /\ stack' \in [Threads -> Seq(FrameType)] /\ Nested' /\ Targets'
        /\ \A u \in Threads : Len(stack'[u]) <= MaxNesting + 1
        /\ \A u \in Threads : u # t => stack'[u] = stack[u]
        /\ stack'[t] # <<>> => /\ stack'[t][1].call = "write" /\ stack'[t][1].at = "emit"
                               /\ stack'[t][1].fd = NoFd
    BY <1>1, Resume
  <1>3. Typed'
    BY <1>1, <1>2 DEF Typed
  <1>4. Locked'
    <2>1. t \in Inside
      BY <1>1 DEF Inside
    <2>2. t \notin Inside'
      BY <1>2 DEF Inside, Busy, Top
    <2> QED BY <1>1, <1>2, <2>1, <2>2, LockedStays
  <1>5. Coupled'
    BY <1>1 DEF Coupled
  <1>6. Owned'
    <2>1. Copy[t] = NoFd
      BY <1>1, TopFacts DEF Copy, Sound
    <2>2. Copy'[t] = NoFd
      BY <1>2, OthersStay
    <2> QED BY <1>1, <1>2, <2>1, <2>2, OthersStay, OwnedStays
  <1> QED BY <1>2, <1>3, <1>4, <1>5, <1>6

LEMMA PassesKeeps ==
    ASSUME IInv, NEW t \in Threads, Passes(t)
    PROVE  IInv'
  <1> USE DEF IInv
  <1>1. /\ Busy(t) /\ Top(t).call = "write" /\ Top(t).at = "filter"
        /\ Top(t).level >= log_level /\ Goto(t, "take")
        /\ UNCHANGED <<mutex, backend, fd, callback, log_level, syslog_opened, table, asked>>
    BY DEF Passes, At, state, AfterFilter
  <1>2. Top(t) \in FrameType /\ Sound(Top(t), asked)
    BY <1>1, TopFacts
  <1>3. PICK f \in FrameType :
          /\ Becomes(t, f) /\ f.at = "take" /\ f.call = "write" /\ f.level = Top(t).level
          /\ f.fd = Top(t).fd /\ f.cb = Top(t).cb
    BY <1>1, GotoTop
  <1>4. Sound(f, asked)
    BY <1>1, <1>2, <1>3 DEF Sound
  <1>5. /\ stack' \in [Threads -> Seq(FrameType)] /\ Nested' /\ Targets'
        /\ \A u \in Threads : Len(stack'[u]) <= MaxNesting + 1
        /\ \A u \in Threads : u # t => stack'[u] = stack[u]
        /\ stack'[t] # <<>> /\ stack'[t][1] = f
    BY <1>1, <1>3, <1>4, Advance
  <1>6. Typed'
    BY <1>1, <1>5 DEF Typed
  <1>7. Locked'
    <2>1. t \in Inside /\ t \in Inside'
      BY <1>1, <1>3, <1>5 DEF Inside, Busy, Top
    <2>2. mutex' = t
      BY <1>1, <2>1 DEF Locked
    <2> QED BY <1>1, <1>3, <1>5, <2>1, <2>2, LockedStays
  <1>8. Coupled'
    BY <1>1 DEF Coupled
  <1>9. Owned'
    <2>1. Copy[t] = Top(t).fd /\ Copy'[t] = f.fd
      BY <1>1, <1>5, OthersStay DEF Copy
    <2> QED BY <1>1, <1>3, <1>5, <2>1, OthersStay, OwnedStays
  <1> QED BY <1>5, <1>6, <1>7, <1>8, <1>9

LEMMA TakeKeeps ==
    ASSUME IInv, NEW t \in Threads, Take(t)
    PROVE  IInv'
  <1> USE DEF IInv
  <1>1. PICK copy : copy = IF backend = "FILE" /\ fd # NoFd THEN DupFd ELSE NoFd
    OBVIOUS
  <1>2. PICK cb : cb = IF backend = "CALLBACK" THEN callback ELSE None
    OBVIOUS
  <1>3. PICK f : f = [Top(t) EXCEPT !.at = "emit", !.backend = backend, !.fd = copy, !.cb = cb]
    OBVIOUS
  <1>4. /\ Busy(t) /\ Top(t).call = "write" /\ Top(t).at = "take"
        /\ Becomes(t, f) /\ mutex' = None
        /\ table' = [g \in Fds |-> IF g = copy THEN "log" ELSE table[g]]
        /\ UNCHANGED <<backend, fd, callback, log_level, syslog_opened, asked>>
    BY <1>1, <1>2, <1>3 DEF Take, At, state, AfterTake
  <1>5. Top(t) \in FrameType /\ Sound(Top(t), asked) /\ Top(t).level >= log_level
    BY <1>4, TopFacts DEF Locked, At
  <1>6. copy # NoFd => copy \in Fds /\ table[copy] = "free" /\ backend = "FILE"
    BY <1>1, LowestFreeIsFree DEF DupFd
  <1>7. cb # None => cb \in Callbacks /\ backend = "CALLBACK" /\ log_level \in asked[cb]
    BY <1>2 DEF Coupled, Typed
  <1>8. /\ f \in FrameType /\ f.call = "write" /\ f.at = "emit" /\ f.fd = copy /\ f.cb = cb
        /\ f.level = Top(t).level
    <2>1. backend \in Backends /\ copy \in Fds \cup {NoFd} /\ cb \in Callbacks \cup {None}
      BY <1>6, <1>7 DEF Typed
    <2> QED BY <1>3, <1>4, <1>5, <2>1 DEF FrameType
  <1>9. Sound(f, asked)
    BY <1>5, <1>6, <1>7, <1>8 DEF Sound
  <1>10. /\ stack' \in [Threads -> Seq(FrameType)] /\ Nested' /\ Targets'
         /\ \A u \in Threads : Len(stack'[u]) <= MaxNesting + 1
         /\ \A u \in Threads : u # t => stack'[u] = stack[u]
         /\ stack'[t] # <<>> /\ stack'[t][1] = f
    BY <1>4, <1>8, <1>9, Advance
  <1>11. Typed'
    BY <1>4, <1>10 DEF Typed
  <1>12. Locked'
    <2>1. t \in Inside
      BY <1>4 DEF Inside
    <2>2. t \notin Inside'
      BY <1>8, <1>10 DEF Inside, Busy, Top
    <2> QED BY <1>4, <1>8, <1>10, <2>1, <2>2, LockedStays
  <1>13. Coupled'
    BY <1>4 DEF Coupled
  <1>14. Owned'
    <2>1. Copy[t] = NoFd /\ Copy'[t] = copy /\ \A u \in Threads : u # t => Copy'[u] = Copy[u]
      <3>1. Copy[t] = NoFd
        BY <1>4, <1>5 DEF Copy, Sound
      <3>2. Copy'[t] = copy
        BY <1>8, <1>10, OthersStay
      <3> QED BY <1>10, <3>1, <3>2, OthersStay
    <2>2. \A u \in Threads : Copy[u] \in Fds \cup {NoFd}
      BY TopFacts DEF Copy, FrameType
    <2>3. fd' # NoFd => table'[fd'] = "log"
      BY <1>4, <1>6 DEF Owned, Typed
    <2>4. ASSUME NEW u \in Threads, Copy'[u] # NoFd
          PROVE  table'[Copy'[u]] = "log" /\ Copy'[u] # fd'
      <3>1. CASE u = t
        BY <1>4, <1>6, <2>1, <2>4, <3>1 DEF Owned
      <3>2. CASE u # t
        BY <1>4, <1>6, <2>1, <2>2, <2>4, <3>2 DEF Owned
      <3> QED BY <3>1, <3>2
    <2>5. \A u, v \in Threads : Copy'[u] # NoFd /\ Copy'[u] = Copy'[v] => u = v
      BY <1>6, <2>1 DEF Owned
    <2>6. \A g \in Fds : table'[g] = "log" => g = fd' \/ \E u \in Threads : g = Copy'[u]
      BY <1>4, <2>1, FdsAssumption DEF Owned
    <2> QED BY <2>3, <2>4, <2>5, <2>6 DEF Owned
  <1> QED BY <1>10, <1>11, <1>12, <1>13, <1>14

LEMMA EmitKeeps ==
    ASSUME IInv, NEW t \in Threads, Emit(t)
    PROVE  IInv'
  <1> USE DEF IInv
  <1>1. /\ Busy(t) /\ Top(t).call = "write" /\ Top(t).at = "emit" /\ Goto(t, "done")
        /\ UNCHANGED <<mutex, backend, fd, callback, log_level, syslog_opened, table, asked>>
    BY DEF Emit, At, state
  <1>2. Top(t) \in FrameType /\ Sound(Top(t), asked)
    BY <1>1, TopFacts
  <1>3. PICK f \in FrameType :
          /\ Becomes(t, f) /\ f.at = "done" /\ f.call = "write" /\ f.level = Top(t).level
          /\ f.fd = Top(t).fd /\ f.cb = Top(t).cb
    BY <1>1, GotoTop
  <1>4. Sound(f, asked)
    BY <1>1, <1>2, <1>3 DEF Sound
  <1>5. /\ stack' \in [Threads -> Seq(FrameType)] /\ Nested' /\ Targets'
        /\ \A u \in Threads : Len(stack'[u]) <= MaxNesting + 1
        /\ \A u \in Threads : u # t => stack'[u] = stack[u]
        /\ stack'[t] # <<>> /\ stack'[t][1] = f
    BY <1>1, <1>3, <1>4, Advance
  <1>6. Typed'
    BY <1>1, <1>5 DEF Typed
  <1>7. Locked'
    <2>1. t \notin Inside /\ t \notin Inside'
      BY <1>1, <1>3, <1>5 DEF Inside, Busy, Top
    <2> QED BY <1>1, <1>5, <2>1, LockedElsewhere
  <1>8. Coupled'
    BY <1>1 DEF Coupled
  <1>9. Owned'
    <2>1. Copy[t] = Top(t).fd /\ Copy'[t] = f.fd
      BY <1>1, <1>5, OthersStay DEF Copy
    <2> QED BY <1>1, <1>3, <1>5, <2>1, OthersStay, OwnedStays
  <1> QED BY <1>5, <1>6, <1>7, <1>8, <1>9

(* A writer that is done closes its own copy.                              *)
LEMMA WriteReturnsKeeps ==
    ASSUME IInv, NEW t \in Threads, WriteReturns(t)
    PROVE  IInv'
  <1> USE DEF IInv
  <1>1. PICK own : own = Top(t).fd
    OBVIOUS
  <1>2. /\ Busy(t) /\ Top(t).call = "write" /\ Top(t).at = "done" /\ Return(t)
        /\ table' = [g \in Fds |-> IF g = own THEN "free" ELSE table[g]]
        /\ mutex' = IF mutex = t THEN None ELSE mutex
        /\ UNCHANGED <<backend, fd, callback, log_level, syslog_opened, asked>>
    BY <1>1 DEF WriteReturns, At, state
  <1>3. /\ stack' \in [Threads -> Seq(FrameType)] /\ Nested' /\ Targets'
        /\ \A u \in Threads : Len(stack'[u]) <= MaxNesting + 1
        /\ \A u \in Threads : u # t => stack'[u] = stack[u]
        /\ stack'[t] # <<>> => /\ stack'[t][1].call = "write" /\ stack'[t][1].at = "emit"
                               /\ stack'[t][1].fd = NoFd
    BY <1>2, Resume
  <1>4. t \notin Inside /\ t \notin Inside'
    BY <1>2, <1>3 DEF Inside, Busy, Top
  <1>5. mutex' = mutex
    BY <1>2, <1>4, LogNoneAssumption DEF Locked
  <1>6. Typed'
    BY <1>2, <1>3, <1>5 DEF Typed
  <1>7. Locked'
    BY <1>2, <1>3, <1>4, <1>5, LockedElsewhere
  <1>8. Coupled'
    BY <1>2 DEF Coupled
  <1>9. Owned'
    <2>1. Copy[t] = own /\ Copy'[t] = NoFd /\ \A u \in Threads : u # t => Copy'[u] = Copy[u]
      <3>1. Copy[t] = own
        BY <1>1, <1>2 DEF Copy
      <3>2. Copy'[t] = NoFd
        BY <1>3, OthersStay
      <3> QED BY <1>3, <3>1, <3>2, OthersStay
    <2>2. \A u \in Threads : Copy[u] \in Fds \cup {NoFd}
      BY TopFacts DEF Copy, FrameType
    <2>3. own # NoFd => own # fd /\ \A u \in Threads : u # t => Copy[u] # own
      BY <2>1 DEF Owned
    <2>4. fd' # NoFd => table'[fd'] = "log"
      BY <1>2, <2>3 DEF Owned, Typed
    <2>5. \A u \in Threads : Copy'[u] # NoFd => table'[Copy'[u]] = "log" /\ Copy'[u] # fd'
      BY <1>2, <2>1, <2>2, <2>3 DEF Owned
    <2>6. \A u, v \in Threads : Copy'[u] # NoFd /\ Copy'[u] = Copy'[v] => u = v
      BY <2>1 DEF Owned
    <2>7. \A g \in Fds : table'[g] = "log" => g = fd' \/ \E u \in Threads : g = Copy'[u]
      BY <1>2, <2>1, FdsAssumption DEF Owned
    <2> QED BY <2>4, <2>5, <2>6, <2>7 DEF Owned
  <1> QED BY <1>3, <1>6, <1>7, <1>8, <1>9

LEMMA CloseBackendKeeps ==
    ASSUME IInv, NEW t \in Threads, CloseBackend(t)
    PROVE  IInv'
  <1> USE DEF IInv
  <1>1. /\ Busy(t) /\ Top(t).call = "reg" /\ Top(t).at = "close" /\ Goto(t, "store")
        /\ table' = [g \in Fds |-> IF g = fd THEN "free" ELSE table[g]]
        /\ fd' = NoFd /\ syslog_opened' = FALSE /\ backend' = "UNINITIALIZED"
        /\ UNCHANGED <<mutex, callback, log_level, asked>>
    BY DEF CloseBackend, At
  <1>2. Top(t) \in FrameType /\ Sound(Top(t), asked)
    BY <1>1, TopFacts
  <1>3. PICK f \in FrameType :
          /\ Becomes(t, f) /\ f.at = "store" /\ f.call = "reg" /\ f.level = Top(t).level
          /\ f.fd = Top(t).fd /\ f.cb = Top(t).cb
    BY <1>1, GotoTop
  <1>4. Sound(f, asked)
    BY <1>1, <1>2, <1>3 DEF Sound
  <1>5. /\ stack' \in [Threads -> Seq(FrameType)] /\ Nested' /\ Targets'
        /\ \A u \in Threads : Len(stack'[u]) <= MaxNesting + 1
        /\ \A u \in Threads : u # t => stack'[u] = stack[u]
        /\ stack'[t] # <<>> /\ stack'[t][1] = f
    BY <1>1, <1>3, <1>4, Advance
  <1>6. Typed'
    BY <1>1, <1>5 DEF Typed, Backends
  <1>7. Locked'
    <2>1. t \in Inside /\ t \in Inside'
      BY <1>1, <1>3, <1>5 DEF Inside, Busy, Top
    <2>2. mutex' = t
      BY <1>1, <2>1 DEF Locked
    <2> QED BY <1>1, <1>3, <1>5, <2>1, <2>2, LockedStays
  <1>8. Coupled'
    BY <1>1 DEF Coupled
  <1>9. Owned'
    <2>1. \A u \in Threads : Copy'[u] = Copy[u]
      <3>1. Copy[t] = Top(t).fd /\ Copy'[t] = f.fd
        BY <1>1, <1>5, OthersStay DEF Copy
      <3> QED BY <1>3, <1>5, <3>1, OthersStay
    <2>2. \A u \in Threads : Copy[u] \in Fds \cup {NoFd}
      BY TopFacts DEF Copy, FrameType
    <2>3. \A u \in Threads : Copy'[u] # NoFd => table'[Copy'[u]] = "log" /\ Copy'[u] # fd'
      BY <1>1, <2>1, <2>2 DEF Owned
    <2>4. \A u, v \in Threads : Copy'[u] # NoFd /\ Copy'[u] = Copy'[v] => u = v
      BY <2>1 DEF Owned
    <2>5. \A g \in Fds : table'[g] = "log" => g = fd' \/ \E u \in Threads : g = Copy'[u]
      BY <1>1, <2>1 DEF Owned
    <2> QED BY <1>1, <2>3, <2>4, <2>5 DEF Owned
  <1> QED BY <1>5, <1>6, <1>7, <1>8, <1>9

LEMMA StoreCallbackKeeps ==
    ASSUME IInv, NEW t \in Threads, StoreCallback(t)
    PROVE  IInv'
  <1> USE DEF IInv
  <1>1. PICK cb : cb = Top(t).cb
    OBVIOUS
  <1>2. PICK level : level = Top(t).level
    OBVIOUS
  <1>3. /\ Busy(t) /\ Top(t).call = "reg" /\ Top(t).at = "store" /\ Return(t)
        /\ callback' = cb /\ log_level' = level /\ backend' = "CALLBACK" /\ mutex' = None
        /\ asked' = [asked EXCEPT ![cb] = @ \cup {level}]
        /\ UNCHANGED <<fd, syslog_opened, table>>
    BY <1>1, <1>2 DEF StoreCallback, At
  <1>4. cb \in Callbacks /\ cb # None /\ level \in Levels
    BY <1>1, <1>2, <1>3, TopFacts, LogNoneAssumption DEF Sound, FrameType
  <1>5. backend = "UNINITIALIZED" /\ fd = NoFd /\ ~syslog_opened
    BY <1>3 DEF Locked, At, Coupled
  <1>6. /\ asked' \in [Callbacks -> SUBSET Levels]
        /\ \A c \in Callbacks : asked[c] \subseteq asked'[c]
        /\ level \in asked'[cb]
    BY <1>3, <1>4 DEF Typed
  <1>7. /\ stack' \in [Threads -> Seq(FrameType)] /\ Nested' /\ Targets'
        /\ \A u \in Threads : Len(stack'[u]) <= MaxNesting + 1
        /\ \A u \in Threads : u # t => stack'[u] = stack[u]
        /\ stack'[t] # <<>> => /\ stack'[t][1].call = "write" /\ stack'[t][1].at = "emit"
                               /\ stack'[t][1].fd = NoFd
    BY <1>3, <1>6, Resume
  <1>8. Typed'
    BY <1>3, <1>4, <1>6, <1>7 DEF Typed, Backends
  <1>9. Locked'
    <2>1. t \in Inside
      BY <1>3 DEF Inside
    <2>2. t \notin Inside'
      BY <1>7 DEF Inside, Busy, Top
    <2> QED BY <1>3, <1>7, <2>1, <2>2, LockedStays
  <1>10. Coupled'
    BY <1>3, <1>4, <1>5, <1>6 DEF Coupled
  <1>11. Owned'
    <2>1. Copy[t] = NoFd
      BY <1>3, TopFacts DEF Copy, Sound
    <2>2. Copy'[t] = NoFd
      BY <1>7, OthersStay
    <2> QED BY <1>3, <1>7, <2>1, <2>2, OthersStay, OwnedStays
  <1> QED BY <1>7, <1>8, <1>9, <1>10, <1>11

(* The rest of the process touches no descriptor of the log.               *)
LEMMA ProcessKeeps ==
    ASSUME IInv, OthersOpen \/ OthersClose
    PROVE  IInv'
  <1> USE DEF IInv
  <1>1. UNCHANGED <<mutex, backend, fd, callback, log_level, syslog_opened, stack, asked>>
    BY DEF OthersOpen, OthersClose, state
  <1>2. /\ table' \in [Fds -> {"free", "log", "other"}]
        /\ \A f \in Fds : table'[f] = "log" <=> table[f] = "log"
    <2>1. CASE OthersOpen
      BY <2>1, LowestFreeIsFree DEF OthersOpen, Typed
    <2>2. CASE OthersClose
      BY <2>2 DEF OthersClose, Typed
    <2> QED BY <2>1, <2>2
  <1>3. Copy' = Copy /\ Inside' = Inside
    BY <1>1 DEF Copy, Inside, Busy, Top
  <1>4. Typed'
    BY <1>1, <1>2 DEF Typed
  <1>5. Nested' /\ Targets'
    BY <1>1 DEF Nested, Targets
  <1>6. Locked'
    BY <1>1, <1>3 DEF Locked, At, Busy, Top
  <1>7. Coupled'
    BY <1>1 DEF Coupled
  <1>8. Owned'
    <2>1. \A u \in Threads : Copy[u] \in Fds \cup {NoFd}
      BY TopFacts DEF Copy, FrameType
    <2>2. fd \in Fds \cup {NoFd}
      BY DEF Typed
    <2> QED BY <1>1, <1>2, <1>3, <2>1, <2>2 DEF Owned
  <1> QED BY <1>4, <1>5, <1>6, <1>7, <1>8

LEMMA StutterKeeps ==
    ASSUME IInv, UNCHANGED <<mutex, state, stack, table, asked>>
    PROVE  IInv'
  <1>1. /\ Typed' /\ Nested' /\ Targets' /\ Coupled'
    BY DEF IInv, state, Typed, Nested, Targets, Coupled
  <1>2. Copy' = Copy /\ Inside' = Inside
    BY DEF Copy, Inside, Busy, Top
  <1>3. Locked'
    BY <1>2 DEF IInv, state, Locked, At, Busy, Top
  <1>4. Owned'
    BY <1>2 DEF IInv, state, Owned
  <1> QED BY <1>1, <1>3, <1>4 DEF IInv

LEMMA NextKeeps == IInv /\ [Next]_vars => IInv'
  <1> SUFFICES ASSUME IInv, [Next]_vars PROVE IInv'
    OBVIOUS
  <1>1. ASSUME NEW t \in Threads, StartWrite(t) PROVE IInv'
    <2>1. PICK level \in Levels : Start(t, "write", level, None)
      BY <1>1 DEF StartWrite
    <2> QED BY <2>1, StartKeeps
  <1>2. ASSUME NEW t \in Threads, StartReg(t) PROVE IInv'
    <2>1. PICK level \in Levels, cb \in Callbacks : Start(t, "reg", level, cb)
      BY <1>2 DEF StartReg
    <2>2. cb # None
      BY LogNoneAssumption
    <2> QED BY <2>1, <2>2, StartKeeps
  <1>3. ASSUME NEW t \in Threads, Work(t) PROVE IInv'
    BY <1>3, LockKeeps, SelectKeeps, FilteredOutKeeps, PassesKeeps, TakeKeeps, EmitKeeps,
       WriteReturnsKeeps, CloseBackendKeeps, StoreCallbackKeeps DEF Work
  <1>4. ASSUME EnvironmentChanges \/ UNCHANGED vars PROVE IInv'
    BY <1>4, StutterKeeps DEF EnvironmentChanges, vars
  <1> QED BY <1>1, <1>2, <1>3, <1>4, ProcessKeeps DEF Next

-----------------------------------------------------------------------------
(* In every reachable state the invariant holds.                           *)
THEOREM LogInvariant == Spec => []IInv
  <1> QED BY InitIInv, NextKeeps, PTL DEF Spec

(* The state has its types, and its fields go together whenever the mutex  *)
(* is free: a descriptor with the file, an open syslog with syslog, a      *)
(* callback with the callback (OstLogState under its mutex).               *)
THEOREM LogTypeCorrect == Spec => []TypeOK
  <1>1. IInv => TypeOK
    <2> SUFFICES ASSUME IInv PROVE TypeOK
      OBVIOUS
    <2>1. \A t \in Threads : Frames(t) \subseteq FrameType
      BY DEF IInv, Typed, Frames
    <2> QED BY <2>1 DEF IInv, Typed, Coupled, TypeOK
  <1> QED BY <1>1, LogInvariant, PTL

(* A message on its way to a callback has passed a level that this callback*)
(* was registered with, whoever replaces the callback meanwhile: the level *)
(* is tested and the callback taken under one hold of the mutex.           *)
THEOREM LogCallbackGetsItsLevel == Spec => []CallbackGetsItsLevel
  <1>1. IInv => CallbackGetsItsLevel
    BY DEF IInv, Targets, Sound, Frames, CallbackGetsItsLevel
  <1> QED BY <1>1, LogInvariant, PTL

-----------------------------------------------------------------------------
(* The calls that hold a copy of the descriptor, and the writers' copies.  *)
Copies == {c \in Threads \X (1..(MaxNesting + 1)) :
              c[2] <= Len(stack[c[1]]) /\ stack[c[1]][c[2]].fd # NoFd}
CopyFds == {stack[c[1]][c[2]].fd : c \in Copies}

(* Only the call at the top of a stack has a copy.                         *)
LEMMA CopiesOnTop ==
    ASSUME IInv
    PROVE  /\ \A c \in Copies : /\ c[1] \in Threads /\ c = <<c[1], 1>>
                                /\ stack[c[1]][c[2]].fd = Copy[c[1]] /\ Copy[c[1]] # NoFd
           /\ \A t \in Threads : Copy[t] # NoFd => <<t, 1>> \in Copies /\ stack[t][1].fd = Copy[t]
  <1>1. ASSUME NEW c \in Copies
        PROVE  /\ c[1] \in Threads /\ c = <<c[1], 1>>
               /\ stack[c[1]][c[2]].fd = Copy[c[1]] /\ Copy[c[1]] # NoFd
    <2>1. /\ c[1] \in Threads /\ c[2] \in 1 .. MaxNesting + 1 /\ c = <<c[1], c[2]>>
          /\ c[2] <= Len(stack[c[1]]) /\ stack[c[1]][c[2]].fd # NoFd
      BY <1>1 DEF Copies
    <2>2. stack[c[1]] \in Seq(FrameType) /\ MaxNesting \in Nat
      BY <2>1, LogBoundsAssumption DEF IInv, Typed
    <2>3. c[2] \in 1 .. Len(stack[c[1]])
      BY <2>1, <2>2
    <2>4. c[2] = 1
      <3> SUFFICES ASSUME c[2] # 1 PROVE FALSE
        OBVIOUS
      <3>1. c[2] \in 2 .. Len(stack[c[1]])
        BY <2>3
      <3>2. stack[c[1]][c[2]].call = "write" /\ stack[c[1]][c[2]].cb # None
        BY <2>1, <3>1 DEF IInv, Nested
      <3>3. Sound(stack[c[1]][c[2]], asked)
        BY <2>1, <2>3 DEF IInv, Targets
      <3> QED BY <2>1, <3>2, <3>3 DEF Sound
    <2>5. Busy(c[1])
      BY <2>2, <2>3 DEF Busy
    <2> QED BY <2>1, <2>4, <2>5 DEF Copy, Top
  <1>2. ASSUME NEW t \in Threads, Copy[t] # NoFd
        PROVE  <<t, 1>> \in Copies /\ stack[t][1].fd = Copy[t]
    <2>1. Busy(t) /\ stack[t][1].fd = Copy[t]
      BY <1>2 DEF Copy, Top
    <2>2. 1 \in 1 .. MaxNesting + 1 /\ 1 <= Len(stack[t])
      BY <2>1, TopFacts, LogBoundsAssumption DEF IInv, Typed
    <2> QED BY <1>2, <2>1, <2>2 DEF Copies
  <1> QED BY <1>1, <1>2

(* Every descriptor the library will write to or close is open on the log  *)
(* and has one owner, the state or one write under way, and none is left   *)
(* without one: dup, open, close and the swap of the backend never lose a  *)
(* descriptor and never write through a number that was used again.        *)
THEOREM LogFdsAccounted == Spec => []FdsAccounted
  <1>1. ASSUME IInv PROVE FdsAccounted
    <2>1. /\ \A c \in Copies : /\ c[1] \in Threads /\ c = <<c[1], 1>>
                               /\ stack[c[1]][c[2]].fd = Copy[c[1]] /\ Copy[c[1]] # NoFd
          /\ \A t \in Threads : Copy[t] # NoFd => <<t, 1>> \in Copies /\ stack[t][1].fd = Copy[t]
      BY <1>1, CopiesOnTop
    <2>2. \A g : g \in CopyFds <=> \E t \in Threads : Copy[t] # NoFd /\ g = Copy[t]
      <3>1. ASSUME NEW g \in CopyFds
            PROVE  \E t \in Threads : Copy[t] # NoFd /\ g = Copy[t]
        <4>1. PICK c \in Copies : g = stack[c[1]][c[2]].fd
          BY <3>1 DEF CopyFds
        <4> QED BY <2>1, <4>1
      <3>2. ASSUME NEW t \in Threads, Copy[t] # NoFd
            PROVE  Copy[t] \in CopyFds
        <4>1. <<t, 1>> \in Copies /\ Copy[t] = stack[<<t, 1>>[1]][<<t, 1>>[2]].fd
          BY <2>1, <3>2
        <4> QED BY ONLY <4>1 DEF CopyFds
      <3> QED BY <3>1, <3>2
    <2>3. \A t \in Threads : Copy[t] \in Fds \cup {NoFd}
      BY <1>1, TopFacts DEF IInv, Copy, FrameType
    <2>4. fd \in Fds \cup {NoFd}
      BY <1>1 DEF IInv, Typed
    <2>5. CopyFds \cup ({fd} \ {NoFd}) = {f \in Fds : table[f] = "log"}
      <3>1. \A g \in CopyFds : g \in Fds /\ table[g] = "log"
        BY <1>1, <2>2, <2>3 DEF IInv, Owned
      <3>2. \A g \in {fd} \ {NoFd} : g \in Fds /\ table[g] = "log"
        BY <1>1, <2>4 DEF IInv, Owned
      <3>3. \A g \in Fds : table[g] = "log" => g \in CopyFds \cup ({fd} \ {NoFd})
        BY <1>1, <2>2, FdsAssumption DEF IInv, Owned
      <3> QED BY ONLY <3>1, <3>2, <3>3
    <2>6. IsFiniteSet(CopyFds)
      BY <2>2, <2>3, FdsAssumption, FS_Subset
    <2>7. IsFiniteSet(Copies) /\ Cardinality(Copies) = Cardinality(CopyFds)
      <3>1. PICK g : g = [c \in Copies |-> stack[c[1]][c[2]].fd]
        OBVIOUS
      <3>2. g \in Surjection(Copies, CopyFds)
        BY <3>1 DEF Surjection, CopyFds
      <3>3. \A c, d \in Copies : g[c] = g[d] => c = d
        BY <1>1, <2>1, <3>1 DEF IInv, Owned
      <3>4. g \in Injection(Copies, CopyFds)
        BY <3>1, <3>2, <3>3 DEF Injection, IsInjective, Surjection
      <3> QED BY <2>6, <3>2, <3>4, FS_Injection
    <2>8. fd # NoFd => fd \notin CopyFds
      BY <1>1, <2>2 DEF IInv, Owned
    <2>9. Cardinality(CopyFds \cup ({fd} \ {NoFd}))
            = Cardinality(Copies) + IF fd = NoFd THEN 0 ELSE 1
      <3>1. Cardinality(CopyFds) \in Nat
        BY <2>6, FS_CardinalityType
      <3>2. CASE fd = NoFd
        <4>1. CopyFds \cup ({fd} \ {NoFd}) = CopyFds
          BY <3>2
        <4>2. Cardinality(Copies) + 0 = Cardinality(Copies)
          BY <2>7, <3>1
        <4> QED BY ONLY <2>7, <3>2, <4>1, <4>2
      <3>3. CASE fd # NoFd
        <4>1. CopyFds \cup ({fd} \ {NoFd}) = CopyFds \cup {fd}
          BY <3>3
        <4> QED BY <2>6, <2>7, <2>8, <3>3, <4>1, FS_AddElement
      <3> QED BY <3>2, <3>3
    <2> QED BY <2>5, <2>9 DEF FdsAccounted, Copies, CopyFds
  <1> QED BY <1>1, LogInvariant, PTL
=============================================================================
