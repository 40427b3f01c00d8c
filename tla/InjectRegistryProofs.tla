------------------------ MODULE InjectRegistryProofs ------------------------
(***************************************************************************)
(* What holds of the fault injection registry for every number of threads  *)
(* and processes, every program of calls, every size of the table and of   *)
(* the ring, and every failure of an initialisation.                       *)
(*                                                                         *)
(* The spin lock excludes as long as no initialisation stores over a lock  *)
(* or a table in use (Excluded), and only where it does is anything said   *)
(* of an object. Behind it the table agrees with what was asked (Agreed),  *)
(* a budget with the triggers (Spendings), and the ring with the triggers  *)
(* but for the slot that is being written (Recorded). A reader without the *)
(* lock knows of the slots it has passed that they do not match, unless    *)
(* they were rewritten under it (ReadSoFar).                               *)
(***************************************************************************)
EXTENDS InjectRegistry, WellFoundedInduction, FiniteSetTheorems, TLAPS

Holding == InitSteps \ {"mutex"}
Critical == {"find", "set", "frequency", "clear", "clear_all", "execute", "put back", "stamp",
             "record", "unlock"}
Reading == {"tail", "name", "time", "answered"}
Steps ==
    InitSteps \cup Critical \cup Reading \cup {"idle", "enter", "cleanup", "unattached", "dead"}

ObjectType ==
    [version : {"none", "other", "current"}, sized : BOOLEAN, lock : {0, 1},
     count : 0..MaxPoints, points : [1..MaxPoints -> PointType],
     tail : Slots, ring : [Slots -> [name : Names \cup {None}, time : Nat]]]

ScanType == [now : Nat, tail : Slots, next : Slots,
             answer : {None, "TRIGGERED", "NOT_TRIGGERED"}, slot : Slots]

NumberTypes ==
    /\ made \in 0..MaxObjects /\ named \in 0..made
    /\ mapped \in [Processes -> 0..made]
    /\ obj \in [Threads -> 0..made]

MemoryType == shm \in [Objects -> ObjectType]

CallTypes ==
    /\ todo \in [Threads -> Seq(CallType)]
    /\ \A t \in Threads : \A i \in 1..Len(todo[t]) : Legal(t, todo[t][i])

ThreadTypes ==
    /\ initLock \in [Processes -> Threads \cup {None}]
    /\ pc \in [Threads -> Steps] /\ created \in [Threads -> BOOLEAN]
    /\ polls \in [Threads -> 0..MaxPolls] /\ found \in [Threads -> 0..MaxPoints]

ScanTypes == scan \in [Threads -> ScanType] /\ clock \in Nat

ToldType == [action : Actions \cup {None}, enabled : BOOLEAN]

HistoryTypes ==
    /\ told \in [Objects -> [Names -> ToldType]]
    /\ fired \in [Objects -> [Names -> Nat]]
    /\ fires \in [Objects -> SUBSET (Names \X Nat)]
    /\ damaged \in [Objects -> BOOLEAN]
    /\ touched \in [Threads -> SUBSET Slots]

Typed == NumberTypes /\ MemoryType /\ CallTypes /\ ThreadTypes /\ ScanTypes /\ HistoryTypes

(* What a thread knows at each point: its call, its process's lock and     *)
(* mapping, ...                                                            *)
Where(t) ==
    /\ pc[t] \notin {"idle", "dead"} => todo[t] # <<>>
    /\ pc[t] \in Holding => initLock[Process(t)] = t /\ mapped[Process(t)] = 0
    /\ pc[t] \in Critical \cup Reading \cup {"enter"} => mapped[Process(t)] # 0
    /\ pc[t] = "find" => Locks(t)
    /\ pc[t] \in {"cleanup", "set", "frequency", "clear", "clear_all", "execute"} =>
         Op(t).op = pc[t]
    /\ pc[t] \in Reading => Op(t).op = "verify"
    /\ pc[t] = "put back" => found[t] # 0
    /\ pc[t] \in InitSteps \cup {"enter", "tail"} => scan[t].next = 0

(* ... and the object it initialises.                                      *)
Builds(t) == created[t] /\ pc[t] \in {"size", "map", "version"}

Origin(t) ==
    /\ pc[t] \in {"open", "create", "reopen"} => ~created[t]
    /\ pc[t] \in {"size", "version"} => created[t]
    /\ pc[t] \in Holding \ {"open", "create", "reopen"} => obj[t] # 0
    /\ Builds(t) => shm[obj[t]].version = "none"
    /\ pc[t] \in {"lock", "count", "reset unlock"} => shm[obj[t]].version = "current"
    /\ pc[t] \in {"reset lock", "reset"} => shm[obj[t]].version # "none"

Versions ==
    /\ \A t, u \in Threads : Builds(t) /\ Builds(u) /\ obj[t] = obj[u] => t = u
    /\ \A p \in Processes : mapped[p] # 0 => shm[mapped[p]].version = "current"
    /\ \A o \in Objects : o > made => shm[o].version = "none"
    /\ \A o \in Objects : shm[o].version # "none" => shm[o].sized
    /\ \A o \in Objects : shm[o].version # "current" =>
         \A n \in Names : told[o][n].action = None

Placed == (\A t \in Threads : Where(t) /\ Origin(t)) /\ Versions

(* The threads between taking the spin lock of an object and giving it     *)
(* back.                                                                   *)
Inside(o) ==
    {t \in Threads : \/ pc[t] \in Critical /\ mapped[Process(t)] = o
                     \/ pc[t] \in {"reset", "reset unlock"} /\ obj[t] = o}

Excluded ==
    \A o \in Objects : ~damaged[o] =>
        /\ \A t, u \in Inside(o) : t = u
        /\ shm[o].lock = 0 => Inside(o) = {}

Sane(o) == shm[o].version = "current" /\ ~damaged[o]

(* The table has what was asked, each name once.                           *)
AgreedOn(o) ==
    /\ \A i \in 1..shm[o].count :
         LET p == shm[o].points[i]
         IN  /\ p.name \in Names /\ p.action \in Actions
             /\ told[o][p.name].action = p.action /\ told[o][p.name].enabled = p.enabled
    /\ \A i, j \in 1..shm[o].count : shm[o].points[i].name = shm[o].points[j].name => i = j
    /\ \A n \in Names : told[o][n].action # None =>
         \E i \in 1..shm[o].count : shm[o].points[i].name = n

Agreed == \A o \in Objects : Sane(o) => AgreedOn(o)

(* What the search of a call found is still true of the table.             *)
Lookup(t) ==
    LET r == Registry(t)
    IN  /\ pc[t] \in {"set", "frequency", "clear", "execute"} =>
             /\ found[t] = 0 => \A i \in 1..r.count : r.points[i].name # Op(t).name
             /\ found[t] # 0 => found[t] \in 1..r.count /\ r.points[found[t]].name = Op(t).name
        /\ pc[t] = "put back" =>
             found[t] \in 1..r.count /\ r.points[found[t]].name = Op(t).name
        /\ pc[t] \in {"put back", "stamp", "record"} => r.count # 0

Lookups == \A t \in Threads : pc[t] \in Critical /\ ~damaged[mapped[Process(t)]] => Lookup(t)

(* The budget of a point, between what execute takes and what it gives     *)
(* back.                                                                   *)
Overdrawn(o, i) ==
    \E t \in Threads : pc[t] = "put back" /\ mapped[Process(t)] = o /\ found[t] = i

SpentOn(o) ==
    \A i \in 1..shm[o].count :
        LET p == shm[o].points[i]
        IN  p.limit > 0 =>
              IF Overdrawn(o, i) THEN p.count = Word - 1 /\ fired[o][p.name] = p.limit
              ELSE p.count + fired[o][p.name] = p.limit

Spendings == \A o \in Objects : Sane(o) => SpentOn(o)

(* The ring has triggers only, but for a slot whose time is that of a      *)
(* trigger and whose name is not.                                          *)
Half(o) == {t \in Threads : pc[t] = "record" /\ mapped[Process(t)] = o}

RecordedIn(o) ==
    /\ \A s \in Slots : shm[o].ring[s].name # None /\ (s # shm[o].tail \/ Half(o) = {}) =>
         <<shm[o].ring[s].name, shm[o].ring[s].time>> \in fires[o]
    /\ \A t \in Half(o) : <<Op(t).name, shm[o].ring[shm[o].tail].time>> \in fires[o]
    /\ shm[o].count = 0 => \A s \in Slots : shm[o].ring[s].name = None

Recorded == \A o \in Objects : Sane(o) => RecordedIn(o)

(* What a verify knows of the slots it has passed.                         *)
SlotBack(tail, j) == (tail - 1 - j + RingSize) % RingSize
Matches(t, s) ==
    LET e == Registry(t).ring[s]
    IN  e.name = Op(t).name /\ Recent(scan[t].now, e.time, Op(t).arg)

ReadSoFar(t) ==
    /\ pc[t] \in {"name", "time", "answered"} =>
         (Half(mapped[Process(t)]) # {} => Registry(t).tail \in touched[t])
    /\ pc[t] \in {"name", "time"} =>
         \A j \in 0..(scan[t].next - 1) :
            SlotBack(scan[t].tail, j) \notin touched[t] => ~Matches(t, SlotBack(scan[t].tail, j))
    /\ pc[t] = "time" /\ SlotAt(t) \notin touched[t] =>
         Registry(t).ring[SlotAt(t)].name = Op(t).name
    /\ pc[t] = "answered" /\ scan[t].answer = "TRIGGERED" =>
         \/ scan[t].slot \in touched[t]
         \/ \E f \in fires[mapped[Process(t)]] :
              f[1] = Op(t).name /\ Recent(scan[t].now, f[2], Op(t).arg)
    /\ pc[t] = "answered" /\ scan[t].answer = "NOT_TRIGGERED" =>
         \A s \in Slots \ touched[t] : ~Matches(t, s)

Readers == \A t \in Threads : pc[t] \in Reading /\ ~damaged[mapped[Process(t)]] => ReadSoFar(t)

IInv == Typed /\ Placed /\ Excluded /\ Agreed /\ Lookups /\ Spendings /\ Recorded /\ Readers

-----------------------------------------------------------------------------
(* Types.                                                                  *)

LEMMA Sizes ==
    /\ MaxPoints \in Nat /\ MaxPoints > 0 /\ RingSize \in Nat /\ RingSize > 0
    /\ MaxObjects \in Nat /\ MaxPolls \in Nat
    /\ Word \in Nat /\ Word > 1
    /\ 0 \in Slots /\ Slots \subseteq Nat
    /\ 0 \in 0..MaxPoints /\ 0 \in 0..MaxPolls
  BY SizesAssumption DEF Slots

(* Fields keep the type of an object.                                      *)
LEMMA ObjectFields ==
    ASSUME NEW r \in ObjectType
    PROVE  /\ \A k \in {0, 1} : [r EXCEPT !.lock = k] \in ObjectType
           /\ [r EXCEPT !.sized = TRUE] \in ObjectType
           /\ \A k \in 0..MaxPoints : [r EXCEPT !.count = k] \in ObjectType
           /\ \A i \in 1..MaxPoints : \A p \in PointType : [r EXCEPT !.points[i] = p] \in ObjectType
           /\ \A x \in Nat : \A s \in Slots : [r EXCEPT !.ring[s].time = x] \in ObjectType
           /\ \A n \in Names : \A s, k \in Slots :
                [r EXCEPT !.ring[s].name = n, !.tail = k] \in ObjectType
           /\ \A i \in 1..MaxPoints : \A p \in PointType : \A k \in 0..MaxPoints :
                [r EXCEPT !.points[i] = p, !.count = k] \in ObjectType
           /\ \A ps \in [1..MaxPoints -> PointType] : [r EXCEPT !.points = ps] \in ObjectType
  <1>1. /\ \A k \in {0, 1} : [r EXCEPT !.lock = k] \in ObjectType
        /\ [r EXCEPT !.sized = TRUE] \in ObjectType
        /\ \A k \in 0..MaxPoints : [r EXCEPT !.count = k] \in ObjectType
    BY DEF ObjectType
  <1>2. ASSUME NEW i \in 1..MaxPoints, NEW p \in PointType
        PROVE  [r EXCEPT !.points[i] = p] \in ObjectType
    BY DEF ObjectType
  <1>3. ASSUME NEW x \in Nat, NEW s \in Slots
        PROVE  [r EXCEPT !.ring[s].time = x] \in ObjectType
    BY DEF ObjectType
  <1>4. ASSUME NEW n \in Names, NEW s \in Slots, NEW k \in Slots
        PROVE  [r EXCEPT !.ring[s].name = n, !.tail = k] \in ObjectType
    <2>1. [r EXCEPT !.ring[s].name = n] \in ObjectType
      <3>1. [r.ring EXCEPT ![s].name = n] \in [Slots -> [name : Names \cup {None}, time : Nat]]
        BY DEF ObjectType
      <3> QED
        BY <3>1 DEF ObjectType
    <2>2. \A q \in ObjectType : [q EXCEPT !.tail = k] \in ObjectType
      BY DEF ObjectType
    <2>3. [r EXCEPT !.ring[s].name = n, !.tail = k]
            = [[r EXCEPT !.ring[s].name = n] EXCEPT !.tail = k]
      BY DEF ObjectType
    <2> QED
      BY <2>1, <2>2, <2>3
  <1>5. ASSUME NEW i \in 1..MaxPoints, NEW p \in PointType, NEW k \in 0..MaxPoints
        PROVE  [r EXCEPT !.points[i] = p, !.count = k] \in ObjectType
    <2>1. \A q \in ObjectType : [q EXCEPT !.count = k] \in ObjectType
      BY DEF ObjectType
    <2>2. [r EXCEPT !.points[i] = p, !.count = k]
            = [[r EXCEPT !.points[i] = p] EXCEPT !.count = k]
      BY DEF ObjectType
    <2> QED
      BY <1>2, <2>1, <2>2
  <1>6. \A ps \in [1..MaxPoints -> PointType] : [r EXCEPT !.points = ps] \in ObjectType
    BY DEF ObjectType
  <1> QED
    BY <1>1, <1>2, <1>3, <1>4, <1>5, <1>6

(* Fields keep the type of a point.                                        *)
LEMMA PointFields ==
    ASSUME NEW p \in PointType
    PROVE  /\ \A a \in Actions : [p EXCEPT !.action = a, !.enabled = TRUE] \in PointType
           /\ \A n \in Names : [p EXCEPT !.name = n] \in PointType
           /\ [p EXCEPT !.enabled = FALSE] \in PointType
           /\ \A k \in 0..(Word - 1) : [p EXCEPT !.count = k] \in PointType
           /\ \A k \in 0..(Word - 1) : [p EXCEPT !.enabled = FALSE, !.count = k] \in PointType
           /\ \A l, k \in 0..(Word - 1) : \A c \in 0..100 :
                [p EXCEPT !.limit = l, !.percent = c, !.count = k] \in PointType
  BY Zenon DEF PointType

LEMMA FreshObjects ==
    /\ Blank \in PointType
    /\ \A v \in {"none", "other", "current"} : \A k \in {0, 1} : \A b \in BOOLEAN :
         [Zeroed EXCEPT !.sized = b, !.version = v, !.lock = k] \in ObjectType
    /\ Zeroed \in ObjectType /\ LeftBehind \in ObjectType
  <1>1. Blank \in PointType
    BY Sizes DEF Blank, PointType
  <1>2. 0 \in Slots
    BY Sizes DEF Slots
  <1>3. Zeroed \in ObjectType
    BY <1>1, <1>2, Sizes DEF Zeroed, ObjectType
  <1>4. LeftBehind \in ObjectType
    <2>1. [Blank EXCEPT !.enabled = TRUE] \in PointType
      BY <1>1 DEF PointType
    <2>2. MaxPoints \in 0..MaxPoints
      BY Sizes
    <2> QED
      BY <1>3, <2>1, <2>2 DEF ObjectType, LeftBehind
  <1> QED
    BY <1>1, <1>3, <1>4 DEF ObjectType

LEMMA CallOf ==
    ASSUME Typed, NEW t \in Threads, todo[t] # <<>>
    PROVE  Op(t) \in CallType /\ Legal(t, Op(t))
  BY DEF Op, Typed, CallTypes

(* A thread that is at work has an object and a call.                      *)
LEMMA Situated ==
    ASSUME Typed, NEW t \in Threads, Where(t), Origin(t)
    PROVE  /\ Process(t) \in Processes
           /\ pc[t] \in Critical \cup Reading \cup {"enter"} =>
                mapped[Process(t)] \in Objects /\ Registry(t) \in ObjectType
           /\ pc[t] \in Holding \ {"open", "create", "reopen"} =>
                obj[t] \in Objects /\ shm[obj[t]] \in ObjectType
           /\ pc[t] \notin {"idle", "dead"} => Op(t) \in CallType /\ Legal(t, Op(t))
  <1>1. Process(t) \in Processes
    BY ProcessAssumption DEF Process
  <1>2. made <= MaxObjects /\ made \in Nat
    BY Sizes DEF Typed, NumberTypes
  <1>3. ASSUME pc[t] \in Critical \cup Reading \cup {"enter"}
        PROVE  mapped[Process(t)] \in Objects
    <2>1. mapped[Process(t)] # 0
      BY <1>3 DEF Where
    <2>2. mapped[Process(t)] \in 0..made
      BY <1>1 DEF Typed, NumberTypes
    <2> QED
      BY <1>2, <2>1, <2>2, Sizes DEF Objects
  <1>4. ASSUME pc[t] \in Holding \ {"open", "create", "reopen"}
        PROVE  obj[t] \in Objects
    <2>1. obj[t] # 0
      BY <1>4 DEF Origin
    <2>2. obj[t] \in 0..made
      BY DEF Typed, NumberTypes
    <2> QED
      BY <1>2, <2>1, <2>2, Sizes DEF Objects
  <1>5. ASSUME todo[t] # <<>>
        PROVE  Op(t) \in CallType /\ Legal(t, Op(t))
    BY <1>5 DEF Op, Typed, CallTypes
  <1> QED
    BY <1>1, <1>3, <1>4, <1>5 DEF Where, Registry, Typed, MemoryType

(* The arithmetic of 32 bits, and of the slots of the ring.                *)
LEMMA Wrapping ==
    ASSUME NEW n \in Nat \ {0}
    PROVE  /\ \A k \in 0..(n - 1) : k % n = k
           /\ \A k \in n..(2 * n - 1) : k % n = k - n
           /\ (-1) % n = n - 1
  OBVIOUS

LEMMA TargetType ==
    ASSUME Typed, NEW t \in Threads, Registry(t) \in ObjectType
    PROVE  /\ Target(t) \in 0..MaxPoints
           /\ Target(t) # 0 /\ found[t] = 0 => Target(t) = Registry(t).count + 1
           /\ found[t] # 0 => Target(t) = found[t]
  <1>1. found[t] \in 0..MaxPoints /\ Registry(t).count \in 0..MaxPoints
    BY DEF Typed, ThreadTypes, ObjectType
  <1>2. CASE found[t] # 0
    <2>1. Target(t) = found[t]
      BY <1>2 DEF Target
    <2> HIDE DEF Target
    <2> QED
      BY <1>1, <1>2, <2>1
  <1>3. CASE found[t] = 0
    <2>1. Target(t) = IF Registry(t).count < MaxPoints THEN Registry(t).count + 1 ELSE 0
      BY <1>3 DEF Target
    <2> HIDE DEF Target
    <2> QED
      BY <1>1, <1>3, <2>1, Sizes
  <1> QED
    BY <1>2, <1>3

LEMMA SpentType ==
    ASSUME NEW k \in 0..(Word - 1)
    PROVE  Spent(k) \in 0..(Word - 1) /\ Restored(k) \in 0..(Word - 1)
  BY Sizes DEF Spent, Restored

LEMMA NextSlotType ==
    ASSUME NEW s \in Slots
    PROVE  NextSlot(s) \in Slots
  BY Sizes DEF NextSlot, Slots

LEMMA LeastNumber ==
    ASSUME NEW S, S \subseteq Nat, S # {}
    PROVE  \E m \in S : \A y \in S : m <= y
  <1>1. IsWellFoundedOn(OpToRel(<, Nat), Nat)
    BY NatLessThanWellFounded
  <1>2. PICK m \in S : \A y \in S : ~(<<y, m>> \in OpToRel(<, Nat))
    BY <1>1, WFMin
  <1>3. \A y \in S : ~(y < m)
    BY <1>2 DEF OpToRel
  <1> QED
    BY <1>3

(* The search finds a point of that name below the count, or there is none.*)
LEMMA IndexOfFinds ==
    ASSUME NEW r \in ObjectType, NEW name
    PROVE  /\ IndexOf(r, name) \in 0..r.count
           /\ IndexOf(r, name) = 0 => \A i \in 1..r.count : r.points[i].name # name
           /\ IndexOf(r, name) # 0 => r.points[IndexOf(r, name)].name = name
  <1> DEFINE hits == {i \in 1..r.count : r.points[i].name = name}
  <1>1. r.count \in Nat
    BY Sizes DEF ObjectType
  <1>2. CASE hits = {}
    <2>1. IndexOf(r, name) = 0
      BY <1>2 DEF IndexOf
    <2> QED
      BY <1>1, <1>2, <2>1
  <1>3. CASE hits # {}
    <2>1. hits \subseteq Nat
      BY <1>1
    <2>2. \E i \in hits : \A j \in hits : i <= j
      BY <1>3, <2>1, LeastNumber
    <2>3. IndexOf(r, name) = CHOOSE i \in hits : \A j \in hits : i <= j
      BY <1>3 DEF IndexOf
    <2>4. IndexOf(r, name) \in hits
      BY <2>2, <2>3
    <2> QED
      BY <1>1, <2>4
  <1> QED
    BY <1>2, <1>3

LEMMA ScanFields ==
    /\ Idle \in ScanType
    /\ \A s \in ScanType :
         /\ \A n \in Nat : [s EXCEPT !.now = n] \in ScanType
         /\ \A k \in Slots : [s EXCEPT !.tail = k] \in ScanType
         /\ s.next + 1 \in Slots => [s EXCEPT !.next = @ + 1] \in ScanType
         /\ \A a \in {"TRIGGERED", "NOT_TRIGGERED"} : \A k \in Slots :
              [s EXCEPT !.answer = a, !.slot = k] \in ScanType
  BY Sizes DEF Idle, ScanType

(* Going back from the tail, j slots reach every slot once.                *)
LEMMA SlotBackValue ==
    ASSUME NEW tail \in Slots, NEW j \in Slots
    PROVE  /\ SlotBack(tail, j) = IF j < tail THEN tail - 1 - j ELSE tail - 1 - j + RingSize
           /\ SlotBack(tail, j) \in Slots
  <1>1. tail \in Nat /\ j \in Nat /\ tail < RingSize /\ j < RingSize
    BY Sizes DEF Slots
  <1>2. PICK k \in Int : k = tail - 1 - j + RingSize
    BY <1>1, Sizes
  <1>3. CASE j < tail
    <2>1. k \in RingSize..(2 * RingSize - 1)
      BY <1>1, <1>2, <1>3, Sizes
    <2>2. k % RingSize = k - RingSize
      BY <2>1, Sizes, Wrapping
    <2> QED
      BY <1>1, <1>2, <1>3, <2>2, Sizes DEF SlotBack, Slots
  <1>4. CASE ~(j < tail)
    <2>1. k \in 0..(RingSize - 1)
      BY <1>1, <1>2, <1>4, Sizes
    <2>2. k % RingSize = k
      BY <2>1, Sizes, Wrapping
    <2> QED
      BY <1>1, <1>2, <1>4, <2>1, <2>2, Sizes DEF SlotBack, Slots
  <1> QED
    BY <1>3, <1>4

LEMMA SlotAtType ==
    ASSUME Typed, NEW t \in Threads
    PROVE  SlotAt(t) = SlotBack(scan[t].tail, scan[t].next) /\ SlotAt(t) \in Slots
  <1>1. scan[t].tail \in Slots /\ scan[t].next \in Slots
    BY DEF Typed, ScanTypes, ScanType
  <1> QED
    BY <1>1, SlotBackValue DEF SlotAt, SlotBack

LEMMA ToldFields ==
    /\ \A a \in Actions : [action |-> a, enabled |-> TRUE] \in ToldType
    /\ \A v \in ToldType : [v EXCEPT !.enabled = FALSE] \in ToldType
  BY DEF ToldType

LEMMA WithinBounds ==
    ASSUME NEW m \in Nat, NEW n \in 0..m
    PROVE  (n < m => n + 1 \in 0..m) /\ 0..n \subseteq 0..m
  OBVIOUS

LEMMA CallTypesKept ==
    ASSUME Typed, NEW t \in Threads, Where(t),
           todo' = todo \/ (pc[t] \notin {"idle", "dead"} /\ Finish(t))
    PROVE  CallTypes'
  <1>1. ASSUME todo' = todo
        PROVE  CallTypes'
    BY <1>1 DEF Typed, CallTypes
  <1>2. ASSUME pc[t] \notin {"idle", "dead"}, Finish(t)
        PROVE  CallTypes'
    <2>1. todo[t] # <<>> /\ todo[t] \in Seq(CallType)
      BY <1>2 DEF Where, Typed, CallTypes
    <2>2. /\ Tail(todo[t]) \in Seq(CallType) /\ Len(Tail(todo[t])) = Len(todo[t]) - 1
          /\ \A i \in 1..Len(Tail(todo[t])) : i + 1 \in 1..Len(todo[t]) /\
               Tail(todo[t])[i] = todo[t][i + 1]
      BY <2>1
    <2>3. \A u \in Threads : todo'[u] = IF u = t THEN Tail(todo[t]) ELSE todo[u]
      BY <1>2 DEF Finish, Typed, CallTypes
    <2>4. todo' \in [Threads -> Seq(CallType)]
      BY <1>2, <2>2, Zenon DEF Finish, Typed, CallTypes
    <2>5. ASSUME NEW u \in Threads, NEW i \in 1..Len(todo'[u])
          PROVE  Legal(u, todo'[u][i])
      <3>1. CASE u = t
        <4>1. todo'[u] = Tail(todo[t])
          BY <2>3, <3>1
        <4>2. i + 1 \in 1..Len(todo[t]) /\ todo'[u][i] = todo[t][i + 1]
          BY <2>2, <4>1
        <4> QED
          BY <3>1, <4>2 DEF Typed, CallTypes
      <3>2. CASE u # t
        BY <2>3, <3>2 DEF Typed, CallTypes
      <3> QED
        BY <3>1, <3>2
    <2> QED
      BY <2>4, <2>5 DEF CallTypes
  <1> QED
    BY <1>1, <1>2

LEMMA NumberTypesKept ==
    ASSUME Typed, NEW t \in Threads, Where(t), Origin(t),
           Initialise(t) \/ Operate(t) \/ CrashWhileCreating(t)
    PROVE  NumberTypes'
  <1>1. Process(t) \in Processes
    BY Situated
  <1>a. NumberTypes
    BY DEF Typed
  <1> USE <1>a DEF shared, history, At, Goto, Finish, NumberTypes
  <1>2. CASE InitMutex(t)
    BY <1>2 DEF InitMutex
  <1>3. CASE OpenShm(t)
    BY <1>3 DEF OpenShm
  <1>4. CASE CreateShm(t)
    BY <1>4, Sizes DEF CreateShm
  <1>5. CASE ReopenShm(t)
    BY <1>5 DEF ReopenShm
  <1>6. CASE SizeShm(t)
    BY <1>6 DEF SizeShm
  <1>7. CASE MapShm(t)
    BY <1>7 DEF MapShm
  <1>8. CASE InitFails(t)
    BY <1>8 DEF InitFails, InitReturnsNull, Unattached
  <1>9. CASE PublishVersion(t)
    BY <1>9 DEF PublishVersion
  <1>10. CASE StoreLock(t)
    BY <1>10 DEF StoreLock
  <1>11. CASE StoreCount(t)
    BY <1>11 DEF StoreCount, Attach
  <1>12. CASE PollUnsized(t)
    BY <1>12 DEF PollUnsized, Die
  <1>13. CASE PollAgain(t)
    BY <1>13 DEF PollAgain
  <1>14. CASE PollTimesOut(t)
    BY <1>14 DEF PollTimesOut, InitReturnsNull, Unattached
  <1>15. CASE PollFindsVersion(t)
    BY <1>15 DEF PollFindsVersion, Attach
  <1>16. CASE PollFindsOther(t)
    BY <1>16 DEF PollFindsOther
  <1>17. CASE LockToReset(t)
    BY <1>17 DEF LockToReset
  <1>18. CASE Reset(t)
    BY <1>18 DEF Reset
  <1>19. CASE UnlockReset(t)
    BY <1>19 DEF UnlockReset, Attach
  <1>20. CASE Begin(t)
    BY <1>20 DEF Begin
  <1>21. CASE SpinLock(t)
    BY <1>21 DEF SpinLock
  <1>22. CASE FindPoint(t)
    BY <1>22 DEF FindPoint
  <1>23. CASE SetPoint(t)
    BY <1>23 DEF SetPoint, Change
  <1>24. CASE SetFrequency(t)
    BY <1>24 DEF SetFrequency, Change
  <1>25. CASE ClearPoint(t)
    BY <1>25 DEF ClearPoint, Change
  <1>26. CASE ClearAll(t)
    BY <1>26 DEF ClearAll, Change
  <1>27. CASE Execute(t)
    BY <1>27 DEF Execute, Change
  <1>28. CASE PutBack(t)
    BY <1>28 DEF PutBack, Change
  <1>29. CASE StampRecord(t)
    BY <1>29 DEF StampRecord, Change
  <1>30. CASE WriteRecord(t)
    BY <1>30 DEF WriteRecord, Change
  <1>31. CASE SpinUnlock(t)
    BY <1>31 DEF SpinUnlock
  <1>32. CASE Cleanup(t)
    <2>1. 0 \in 0..made
      BY Sizes
    <2> QED
      BY <1>32, <2>1 DEF Cleanup
  <1>33. CASE VerifyNow(t)
    BY <1>33 DEF VerifyNow, Scan
  <1>34. CASE VerifyTail(t)
    BY <1>34 DEF VerifyTail, Scan
  <1>35. CASE VerifyName(t)
    BY <1>35 DEF VerifyName, Scan, NextRecord, Answer
  <1>36. CASE VerifyTime(t)
    BY <1>36 DEF VerifyTime, Scan, NextRecord, Answer
  <1>37. CASE VerifyReturns(t)
    BY <1>37 DEF VerifyReturns, Scan
  <1>38. CASE CrashWhileCreating(t)
    BY <1>38 DEF CrashWhileCreating, Die
  <1> QED
    BY <1>2, <1>3, <1>4, <1>5, <1>6, <1>7, <1>8, <1>9, <1>10, <1>11, <1>12, <1>13, <1>14, <1>15,
       <1>16, <1>17, <1>18, <1>19, <1>20, <1>21, <1>22, <1>23, <1>24, <1>25, <1>26, <1>27, <1>28,
       <1>29, <1>30, <1>31, <1>32, <1>33, <1>34, <1>35, <1>36, <1>37, <1>38 DEF Initialise,
       Operate

LEMMA MemoryTypeKept ==
    ASSUME Typed, NEW t \in Threads, Where(t), Origin(t),
           Initialise(t) \/ Operate(t) \/ CrashWhileCreating(t)
    PROVE  MemoryType'
  <1>a. MemoryType
    BY DEF Typed
  <1> USE <1>a DEF shared, history, At, Goto, Finish, MemoryType
  <1>1. CASE InitMutex(t)
    BY <1>1 DEF InitMutex
  <1>2. CASE OpenShm(t)
    BY <1>2 DEF OpenShm
  <1>3. CASE CreateShm(t)
    BY <1>3 DEF CreateShm
  <1>4. CASE ReopenShm(t)
    BY <1>4 DEF ReopenShm
  <1>5. CASE SizeShm(t)
    <2>1. shm[obj[t]] \in ObjectType
      BY <1>5, Situated DEF SizeShm, Holding, InitSteps, At
    <2> QED
      BY <1>5, <2>1, ObjectFields, Sizes DEF SizeShm
  <1>6. CASE MapShm(t)
    BY <1>6 DEF MapShm
  <1>7. CASE InitFails(t)
    BY <1>7 DEF InitFails, InitReturnsNull, Unattached
  <1>8. CASE PublishVersion(t)
    <2>1. [Zeroed EXCEPT !.sized = TRUE, !.version = "current"] \in ObjectType
      BY FreshObjects DEF ObjectType
    <2> QED
      BY <1>8, <2>1 DEF PublishVersion
  <1>9. CASE StoreLock(t)
    <2>1. shm[obj[t]] \in ObjectType
      BY <1>9, Situated DEF StoreLock, Holding, InitSteps, At
    <2> QED
      BY <1>9, <2>1, ObjectFields, Sizes DEF StoreLock
  <1>10. CASE StoreCount(t)
    <2>1. shm[obj[t]] \in ObjectType
      BY <1>10, Situated DEF StoreCount, Holding, InitSteps, At
    <2>2. [shm[obj[t]] EXCEPT !.count = 0] \in ObjectType
      BY <2>1, ObjectFields, Sizes
    <2> QED
      BY <1>10, <2>2 DEF StoreCount
  <1>11. CASE PollUnsized(t)
    BY <1>11 DEF PollUnsized, Die
  <1>12. CASE PollAgain(t)
    BY <1>12 DEF PollAgain
  <1>13. CASE PollTimesOut(t)
    BY <1>13 DEF PollTimesOut, InitReturnsNull, Unattached
  <1>14. CASE PollFindsVersion(t)
    BY <1>14 DEF PollFindsVersion, Attach
  <1>15. CASE PollFindsOther(t)
    BY <1>15 DEF PollFindsOther
  <1>16. CASE LockToReset(t)
    <2>1. shm[obj[t]] \in ObjectType
      BY <1>16, Situated DEF LockToReset, Holding, InitSteps, At
    <2> QED
      BY <1>16, <2>1, ObjectFields, Sizes DEF LockToReset
  <1>17. CASE Reset(t)
    <2>1. [Zeroed EXCEPT !.sized = TRUE, !.version = "current", !.lock = 1] \in ObjectType
      BY FreshObjects DEF ObjectType
    <2> QED
      BY <1>17, <2>1 DEF Reset
  <1>18. CASE UnlockReset(t)
    <2>1. shm[obj[t]] \in ObjectType
      BY <1>18, Situated DEF UnlockReset, Attach, Holding, InitSteps, At
    <2> QED
      BY <1>18, <2>1, ObjectFields, Sizes DEF UnlockReset, Attach
  <1>19. CASE Begin(t)
    BY <1>19 DEF Begin
  <1>20. CASE SpinLock(t)
    <2>1. Registry(t) \in ObjectType
      BY <1>20, Situated DEF SpinLock, Critical, Reading, At
    <2> QED
      BY <1>20, <2>1, ObjectFields, Sizes DEF SpinLock, Registry
  <1>21. CASE FindPoint(t)
    BY <1>21 DEF FindPoint
  <1>22. CASE SetPoint(t)
    <2> DEFINE r == Registry(t)
    <2>1. r \in ObjectType /\ Op(t) \in CallType /\ Legal(t, Op(t))
      BY <1>22, Situated DEF Critical, SetPoint, Change
    <2> DEFINE i == Target(t)
               base == IF found[t] # 0 THEN r.points[i] ELSE [Blank EXCEPT !.name = Op(t).name]
               p == [base EXCEPT !.action = Op(t).arg, !.enabled = TRUE]
               k == IF found[t] # 0 THEN r.count ELSE r.count + 1
    <2>2. CASE i = 0
      BY <1>22, <2>2 DEF SetPoint, Change, Registry
    <2>3. CASE i # 0
      <3>1. i \in 1..MaxPoints
        BY <2>1, <2>3, TargetType, Sizes
      <3>2. Op(t).name \in Names /\ Op(t).arg \in Actions
        BY <1>22, <2>1, Where(t) DEF Where, Legal, CallType, SetPoint, At
      <3>3. base \in PointType
        <4>1. r.points[i] \in PointType
          BY <2>1, <3>1, Zenon DEF ObjectType
        <4>2. [Blank EXCEPT !.name = Op(t).name] \in PointType
          BY <3>2, FreshObjects, PointFields, Zenon
        <4> QED
          BY <4>1, <4>2
      <3>4. p \in PointType
        BY <3>2, <3>3, PointFields, Zenon
      <3>5. k \in 0..MaxPoints
        BY <2>1, <2>3, TargetType, Sizes DEF ObjectType
      <3>6. [r EXCEPT !.points[i] = p, !.count = k] \in ObjectType
        BY <2>1, <3>1, <3>4, <3>5, ObjectFields
      <3>7. shm' = [shm EXCEPT ![mapped[Process(t)]] = [r EXCEPT !.points[i] = p, !.count = k]]
        BY <1>22, <2>1, <2>3 DEF SetPoint, Change, ObjectType
      <3> HIDE DEF r, i, base, p, k
      <3> QED
        BY <3>6, <3>7
    <2> QED
      BY <2>2, <2>3
  <1>23. CASE SetFrequency(t)
    <2> DEFINE r == Registry(t)
    <2>1. r \in ObjectType /\ Op(t) \in CallType /\ Legal(t, Op(t))
      BY <1>23, Situated DEF Critical, SetFrequency, Change
    <2> DEFINE n == Op(t).arg
               q == r.points[found[t]]
               p == [q EXCEPT !.limit = Budget(n), !.percent = IF n <= 100 THEN n ELSE 0,
                              !.count = IF n <= 100 THEN q.count ELSE Budget(n)]
    <2>2. CASE found[t] = 0
      BY <1>23, <2>2 DEF SetFrequency, Change, Registry
    <2>3. CASE found[t] # 0
      <3>1. found[t] \in 1..MaxPoints
        BY <2>3, Sizes DEF Typed, ThreadTypes
      <3>2. n \in Nat /\ Budget(n) < Word
        BY <1>23, <2>1 DEF Where, Legal, SetFrequency, At
      <3>3. Budget(n) \in 0..(Word - 1)
        BY <3>2, Sizes DEF Budget
      <3>4. q \in PointType
        BY <2>1, <3>1 DEF ObjectType
      <3>5. q.count \in 0..(Word - 1)
        BY <3>4 DEF PointType
      <3>6. p \in PointType
        <4>1. (IF n <= 100 THEN n ELSE 0) \in 0..100
          BY <3>2
        <4>2. (IF n <= 100 THEN q.count ELSE Budget(n)) \in 0..(Word - 1)
          BY <3>3, <3>5
        <4> HIDE DEF n, q
        <4> QED
          BY <3>3, <3>4, <4>1, <4>2, PointFields, Zenon
      <3>7. [r EXCEPT !.points[found[t]] = p] \in ObjectType
        BY <2>1, <3>1, <3>6, ObjectFields
      <3>8. shm' = [shm EXCEPT ![mapped[Process(t)]] = [r EXCEPT !.points[found[t]] = p]]
        BY <1>23, <2>1, <2>3 DEF SetFrequency, Change
      <3> HIDE DEF r, q, p, n
      <3> QED
        BY <3>7, <3>8
    <2> QED
      BY <2>2, <2>3
  <1>24. CASE ClearPoint(t)
    <2> DEFINE r == Registry(t)
    <2>1. r \in ObjectType /\ Op(t) \in CallType /\ Legal(t, Op(t))
      BY <1>24, Situated DEF Critical, ClearPoint, Change
    <2> DEFINE q == r.points[found[t]]
               p == [q EXCEPT !.enabled = FALSE]
    <2>2. CASE ~(found[t] # 0)
      BY <1>24, <2>2 DEF ClearPoint, Change, Registry
    <2>3. CASE found[t] # 0
      <3>1. found[t] \in 1..MaxPoints
        BY <2>3, Sizes DEF Typed, ThreadTypes
      <3>2. q \in PointType /\ q.count \in 0..(Word - 1)
        BY <2>1, <3>1, Zenon DEF ObjectType, PointType
      <3>3. p \in PointType
        BY <3>2, PointFields, Zenon
      <3>4. [r EXCEPT !.points[found[t]] = p] \in ObjectType
        BY <2>1, <3>1, <3>3, ObjectFields
      <3>5. shm' = [shm EXCEPT ![mapped[Process(t)]] = [r EXCEPT !.points[found[t]] = p]]
        BY <1>24, <2>1, <2>3 DEF ClearPoint, Change
      <3> HIDE DEF r, q, p
      <3> QED
        BY <3>4, <3>5
    <2> QED
      BY <2>2, <2>3
  <1>25. CASE ClearAll(t)
    <2> DEFINE r == Registry(t)
    <2>1. r \in ObjectType /\ Op(t) \in CallType /\ Legal(t, Op(t))
      BY <1>25, Situated DEF Critical, ClearAll, Change
    <2> DEFINE ps == [i \in 1..MaxPoints |->
                       IF i <= r.count
                       THEN [r.points[i] EXCEPT !.enabled = FALSE, !.count = r.points[i].limit]
                       ELSE r.points[i]]
    <2>2. ps \in [1..MaxPoints -> PointType]
      <3> SUFFICES ASSUME NEW i \in 1..MaxPoints PROVE ps[i] \in PointType
        OBVIOUS
      <3>1. r.points[i] \in PointType /\ r.points[i].limit \in 0..(Word - 1)
        BY <2>1 DEF ObjectType, PointType
      <3> QED
        BY <3>1, PointFields, Zenon
    <2>3. [r EXCEPT !.points = ps] \in ObjectType
      BY <2>1, <2>2, ObjectFields
    <2>4. shm' = [shm EXCEPT ![mapped[Process(t)]] = [r EXCEPT !.points = ps]]
      BY <1>25, <2>1 DEF ClearAll, Change
    <2> HIDE DEF r, ps
    <2> QED
      BY <2>3, <2>4, Zenon
  <1>26. CASE Execute(t)
    <2> DEFINE r == Registry(t)
    <2>1. r \in ObjectType /\ Op(t) \in CallType /\ Legal(t, Op(t))
      BY <1>26, Situated DEF Critical, Execute, Change
    <2> DEFINE q == r.points[found[t]]
               p == [q EXCEPT !.count = Spent(q.count)]
    <2>2. CASE Change(t, r)
      BY <2>2, Zenon DEF Change, Registry
    <2>3. CASE found[t] # 0 /\ Change(t, [r EXCEPT !.points[found[t]].count = Spent(@)])
      <3>1. found[t] \in 1..MaxPoints
        BY <2>3, Sizes DEF Typed, ThreadTypes
      <3>2. q \in PointType /\ q.count \in 0..(Word - 1)
        BY <2>1, <3>1 DEF ObjectType, PointType
      <3>3. p \in PointType
        BY <3>2, PointFields, SpentType, Zenon
      <3>4. [r EXCEPT !.points[found[t]] = p] \in ObjectType
        BY <2>1, <3>1, <3>3, ObjectFields
      <3>5. shm' = [shm EXCEPT ![mapped[Process(t)]] = [r EXCEPT !.points[found[t]] = p]]
        BY <2>3 DEF Change
      <3> HIDE DEF r, q, p
      <3> QED
        BY <3>4, <3>5
    <2> QED
      BY <1>26, <2>2, <2>3 DEF Execute
  <1>27. CASE PutBack(t)
    <2> DEFINE r == Registry(t)
    <2>1. r \in ObjectType /\ Op(t) \in CallType /\ Legal(t, Op(t))
      BY <1>27, Situated DEF Critical, PutBack, Change
    <2> DEFINE q == r.points[found[t]]
               p == [q EXCEPT !.count = Restored(q.count)]
    <2>2. found[t] # 0
      BY <1>27 DEF Where, PutBack
    <2>3. found[t] \in 1..MaxPoints
      BY <2>2, Sizes DEF Typed, ThreadTypes
    <2>4. q \in PointType /\ q.count \in 0..(Word - 1)
      BY <2>1, <2>3 DEF ObjectType, PointType
    <2>5. p \in PointType
      BY <2>4, PointFields, SpentType, Zenon
    <2>6. [r EXCEPT !.points[found[t]] = p] \in ObjectType
      BY <2>1, <2>3, <2>5, ObjectFields
    <2>7. shm' = [shm EXCEPT ![mapped[Process(t)]] = [r EXCEPT !.points[found[t]] = p]]
      BY <1>27 DEF PutBack, Change
    <2> HIDE DEF r, q, p
    <2> QED
      BY <2>6, <2>7
  <1>28. CASE StampRecord(t)
    <2> DEFINE r == Registry(t)
    <2>1. r \in ObjectType /\ Op(t) \in CallType /\ Legal(t, Op(t))
      BY <1>28, Situated DEF Critical, StampRecord, Change
    <2>2. r.tail \in Slots /\ clock \in Nat
      BY <2>1 DEF ObjectType, Typed, ScanTypes
    <2>3. [r EXCEPT !.ring[r.tail].time = clock] \in ObjectType
      BY <2>1, <2>2, ObjectFields
    <2> QED
      BY <1>28, <2>3 DEF StampRecord, Change
  <1>29. CASE WriteRecord(t)
    <2> DEFINE r == Registry(t)
    <2>1. r \in ObjectType /\ Op(t) \in CallType /\ Legal(t, Op(t))
      BY <1>29, Situated DEF Critical, WriteRecord, Change
    <2>2. r.tail \in Slots /\ NextSlot(r.tail) \in Slots /\ Op(t).name \in Names
      BY <2>1, NextSlotType DEF ObjectType, CallType
    <2> DEFINE q == [r EXCEPT !.ring[r.tail].name = Op(t).name, !.tail = NextSlot(r.tail)]
    <2>3. q \in ObjectType
      BY <2>1, <2>2, ObjectFields
    <2>4. shm' = [shm EXCEPT ![mapped[Process(t)]] = q]
      BY <1>29, <2>1 DEF WriteRecord, Change, ObjectType
    <2> HIDE DEF q, r
    <2> QED
      BY <2>3, <2>4
  <1>30. CASE SpinUnlock(t)
    <2>1. Registry(t) \in ObjectType
      BY <1>30, Situated DEF SpinUnlock, Critical, Reading, At
    <2> QED
      BY <1>30, <2>1, ObjectFields, Sizes DEF SpinUnlock, Registry
  <1>31. CASE Cleanup(t)
    BY <1>31 DEF Cleanup
  <1>32. CASE VerifyNow(t)
    BY <1>32 DEF VerifyNow, Scan
  <1>33. CASE VerifyTail(t)
    BY <1>33 DEF VerifyTail, Scan
  <1>34. CASE VerifyName(t)
    BY <1>34 DEF VerifyName, Scan, NextRecord, Answer
  <1>35. CASE VerifyTime(t)
    BY <1>35 DEF VerifyTime, Scan, NextRecord, Answer
  <1>36. CASE VerifyReturns(t)
    BY <1>36 DEF VerifyReturns, Scan
  <1>37. CASE CrashWhileCreating(t)
    BY <1>37 DEF CrashWhileCreating, Die
  <1> QED
    BY <1>1, <1>2, <1>3, <1>4, <1>5, <1>6, <1>7, <1>8, <1>9, <1>10, <1>11, <1>12, <1>13, <1>14,
       <1>15, <1>16, <1>17, <1>18, <1>19, <1>20, <1>21, <1>22, <1>23, <1>24, <1>25, <1>26, <1>27,
       <1>28, <1>29, <1>30, <1>31, <1>32, <1>33, <1>34, <1>35, <1>36, <1>37 DEF Initialise,
       Operate

LEMMA ThreadTypesKept ==
    ASSUME Typed, NEW t \in Threads, Where(t), Origin(t),
           Initialise(t) \/ Operate(t) \/ CrashWhileCreating(t)
    PROVE  ThreadTypes'
  <1>1. Process(t) \in Processes
    BY Situated
  <1>a. ThreadTypes
    BY DEF Typed
  <1> USE <1>a DEF shared, history, At, Goto, Finish, ThreadTypes, Steps, InitSteps, Critical,
          Reading
  <1>2. CASE InitMutex(t)
    BY <1>2, Sizes DEF InitMutex
  <1>3. CASE OpenShm(t)
    BY <1>3 DEF OpenShm
  <1>4. CASE CreateShm(t)
    BY <1>4 DEF CreateShm
  <1>5. CASE ReopenShm(t)
    BY <1>5 DEF ReopenShm
  <1>6. CASE SizeShm(t)
    BY <1>6 DEF SizeShm
  <1>7. CASE MapShm(t)
    BY <1>7 DEF MapShm
  <1>8. CASE InitFails(t)
    BY <1>8 DEF InitFails, InitReturnsNull, Unattached
  <1>9. CASE PublishVersion(t)
    BY <1>9 DEF PublishVersion
  <1>10. CASE StoreLock(t)
    BY <1>10 DEF StoreLock
  <1>11. CASE StoreCount(t)
    BY <1>11 DEF StoreCount, Attach
  <1>12. CASE PollUnsized(t)
    BY <1>12 DEF PollUnsized, Die
  <1>13. CASE PollAgain(t)
    <2>1. PICK n \in 0..MaxPolls : n = polls[t]
      OBVIOUS
    <2>2. (IF n < MaxPolls THEN n + 1 ELSE n) \in 0..MaxPolls
      BY Sizes, WithinBounds
    <2>3. polls' = [polls EXCEPT ![t] = IF n < MaxPolls THEN n + 1 ELSE n]
      BY <1>13, <2>1 DEF PollAgain
    <2>4. polls' \in [Threads -> 0..MaxPolls]
      BY <2>2, <2>3
    <2> QED
      BY <1>13, <2>4 DEF PollAgain
  <1>14. CASE PollTimesOut(t)
    BY <1>14 DEF PollTimesOut, InitReturnsNull, Unattached
  <1>15. CASE PollFindsVersion(t)
    BY <1>15 DEF PollFindsVersion, Attach
  <1>16. CASE PollFindsOther(t)
    BY <1>16 DEF PollFindsOther
  <1>17. CASE LockToReset(t)
    BY <1>17 DEF LockToReset
  <1>18. CASE Reset(t)
    BY <1>18 DEF Reset
  <1>19. CASE UnlockReset(t)
    BY <1>19 DEF UnlockReset, Attach
  <1>20. CASE Begin(t)
    BY <1>20 DEF Begin
  <1>21. CASE SpinLock(t)
    BY <1>21 DEF SpinLock
  <1>22. CASE FindPoint(t)
    <2>1. Op(t) \in CallType /\ Locks(t) /\ Registry(t) \in ObjectType
      BY <1>22, Situated DEF FindPoint, Where
    <2>2. IndexOf(Registry(t), Op(t).name) \in 0..MaxPoints
      <3>1. Registry(t).count \in 0..MaxPoints
        BY <2>1 DEF ObjectType
      <3>2. IndexOf(Registry(t), Op(t).name) \in 0..Registry(t).count
        BY <2>1, IndexOfFinds
      <3> QED
        BY <3>1, <3>2, Sizes, WithinBounds
    <2>3. Op(t).op \in {"set", "frequency", "clear", "clear_all", "execute"}
      BY <2>1 DEF Locks
    <2> QED
      BY <1>22, <2>2, <2>3, Sizes DEF FindPoint
  <1>23. CASE SetPoint(t)
    BY <1>23 DEF SetPoint, Change
  <1>24. CASE SetFrequency(t)
    BY <1>24 DEF SetFrequency, Change
  <1>25. CASE ClearPoint(t)
    BY <1>25 DEF ClearPoint, Change
  <1>26. CASE ClearAll(t)
    BY <1>26 DEF ClearAll, Change
  <1>27. CASE Execute(t)
    BY <1>27 DEF Execute, Change
  <1>28. CASE PutBack(t)
    BY <1>28 DEF PutBack, Change
  <1>29. CASE StampRecord(t)
    BY <1>29 DEF StampRecord, Change
  <1>30. CASE WriteRecord(t)
    BY <1>30 DEF WriteRecord, Change
  <1>31. CASE SpinUnlock(t)
    BY <1>31 DEF SpinUnlock
  <1>32. CASE Cleanup(t)
    BY <1>32 DEF Cleanup
  <1>33. CASE VerifyNow(t)
    BY <1>33 DEF VerifyNow, Scan
  <1>34. CASE VerifyTail(t)
    BY <1>34 DEF VerifyTail, Scan
  <1>35. CASE VerifyName(t)
    BY <1>35 DEF VerifyName, Scan, NextRecord, Answer
  <1>36. CASE VerifyTime(t)
    BY <1>36 DEF VerifyTime, Scan, NextRecord, Answer
  <1>37. CASE VerifyReturns(t)
    BY <1>37 DEF VerifyReturns, Scan
  <1>38. CASE CrashWhileCreating(t)
    BY <1>38 DEF CrashWhileCreating, Die
  <1> QED
    BY <1>2, <1>3, <1>4, <1>5, <1>6, <1>7, <1>8, <1>9, <1>10, <1>11, <1>12, <1>13, <1>14, <1>15,
       <1>16, <1>17, <1>18, <1>19, <1>20, <1>21, <1>22, <1>23, <1>24, <1>25, <1>26, <1>27, <1>28,
       <1>29, <1>30, <1>31, <1>32, <1>33, <1>34, <1>35, <1>36, <1>37, <1>38 DEF Initialise,
       Operate

LEMMA ScanTypesKept ==
    ASSUME Typed, NEW t \in Threads, Where(t), Origin(t),
           Initialise(t) \/ Operate(t) \/ CrashWhileCreating(t)
    PROVE  ScanTypes'
  <1>a. ScanTypes
    BY DEF Typed
  <1> USE <1>a DEF shared, history, At, Goto, Finish, ScanTypes
  <1>1. CASE InitMutex(t)
    BY <1>1 DEF InitMutex
  <1>2. CASE OpenShm(t)
    BY <1>2 DEF OpenShm
  <1>3. CASE CreateShm(t)
    BY <1>3 DEF CreateShm
  <1>4. CASE ReopenShm(t)
    BY <1>4 DEF ReopenShm
  <1>5. CASE SizeShm(t)
    BY <1>5 DEF SizeShm
  <1>6. CASE MapShm(t)
    BY <1>6 DEF MapShm
  <1>7. CASE InitFails(t)
    BY <1>7 DEF InitFails, InitReturnsNull, Unattached
  <1>8. CASE PublishVersion(t)
    BY <1>8 DEF PublishVersion
  <1>9. CASE StoreLock(t)
    BY <1>9 DEF StoreLock
  <1>10. CASE StoreCount(t)
    BY <1>10 DEF StoreCount, Attach
  <1>11. CASE PollUnsized(t)
    BY <1>11 DEF PollUnsized, Die
  <1>12. CASE PollAgain(t)
    BY <1>12 DEF PollAgain
  <1>13. CASE PollTimesOut(t)
    BY <1>13 DEF PollTimesOut, InitReturnsNull, Unattached
  <1>14. CASE PollFindsVersion(t)
    BY <1>14 DEF PollFindsVersion, Attach
  <1>15. CASE PollFindsOther(t)
    BY <1>15 DEF PollFindsOther
  <1>16. CASE LockToReset(t)
    BY <1>16 DEF LockToReset
  <1>17. CASE Reset(t)
    BY <1>17 DEF Reset
  <1>18. CASE UnlockReset(t)
    BY <1>18 DEF UnlockReset, Attach
  <1>19. CASE Begin(t)
    <2>1. Idle \in ScanType
      BY ScanFields
    <2> QED
      BY <1>19, <2>1 DEF Begin
  <1>20. CASE SpinLock(t)
    BY <1>20 DEF SpinLock
  <1>21. CASE FindPoint(t)
    BY <1>21 DEF FindPoint
  <1>22. CASE SetPoint(t)
    BY <1>22 DEF SetPoint, Change
  <1>23. CASE SetFrequency(t)
    BY <1>23 DEF SetFrequency, Change
  <1>24. CASE ClearPoint(t)
    BY <1>24 DEF ClearPoint, Change
  <1>25. CASE ClearAll(t)
    BY <1>25 DEF ClearAll, Change
  <1>26. CASE Execute(t)
    BY <1>26 DEF Execute, Change
  <1>27. CASE PutBack(t)
    BY <1>27 DEF PutBack, Change
  <1>28. CASE StampRecord(t)
    BY <1>28 DEF StampRecord, Change
  <1>29. CASE WriteRecord(t)
    BY <1>29 DEF WriteRecord, Change
  <1>30. CASE SpinUnlock(t)
    BY <1>30 DEF SpinUnlock
  <1>31. CASE Cleanup(t)
    BY <1>31 DEF Cleanup
  <1>32. CASE VerifyNow(t)
    <2>1. [scan[t] EXCEPT !.now = clock] \in ScanType
      BY ScanFields
    <2> QED
      BY <1>32, <2>1 DEF VerifyNow, Scan
  <1>33. CASE VerifyTail(t)
    <2>1. Registry(t) \in ObjectType
      BY <1>33, Situated DEF VerifyTail, Reading, At
    <2>2. [scan[t] EXCEPT !.tail = Registry(t).tail] \in ScanType
      BY <2>1, ScanFields DEF ObjectType
    <2> QED
      BY <1>33, <2>2 DEF VerifyTail, Scan
  <1>34. CASE VerifyName(t)
    <2>1. SlotAt(t) \in Slots /\ scan[t] \in ScanType
      BY SlotAtType DEF Typed
    <2>2. MoreSlots(scan[t].next) => scan[t].next + 1 \in Slots
      BY <2>1, Sizes DEF MoreSlots, Slots, ScanType
    <2>3. CASE Scan(t, scan[t])
      BY <2>3 DEF Scan
    <2>4. CASE MoreSlots(scan[t].next) /\ Scan(t, [scan[t] EXCEPT !.next = @ + 1])
      <3>1. [scan[t] EXCEPT !.next = @ + 1] \in ScanType
        BY <2>1, <2>2, <2>4, ScanFields
      <3> QED
        BY <2>4, <3>1 DEF Scan
    <2>5. ASSUME NEW a \in {"TRIGGERED", "NOT_TRIGGERED"}, Answer(t, a)
          PROVE  ScanTypes'
      <3>1. [scan[t] EXCEPT !.answer = a, !.slot = SlotAt(t)] \in ScanType
        BY <2>1, ScanFields
      <3> QED
        BY <2>5, <3>1 DEF Scan, Answer
    <2> QED
      BY <1>34, <2>3, <2>4, <2>5 DEF VerifyName, NextRecord
  <1>35. CASE VerifyTime(t)
    <2>1. SlotAt(t) \in Slots /\ scan[t] \in ScanType
      BY SlotAtType DEF Typed
    <2>2. MoreSlots(scan[t].next) => scan[t].next + 1 \in Slots
      BY <2>1, Sizes DEF MoreSlots, Slots, ScanType
    <2>3. CASE Scan(t, scan[t])
      BY <2>3 DEF Scan
    <2>4. CASE MoreSlots(scan[t].next) /\ Scan(t, [scan[t] EXCEPT !.next = @ + 1])
      <3>1. [scan[t] EXCEPT !.next = @ + 1] \in ScanType
        BY <2>1, <2>2, <2>4, ScanFields
      <3> QED
        BY <2>4, <3>1 DEF Scan
    <2>5. ASSUME NEW a \in {"TRIGGERED", "NOT_TRIGGERED"}, Answer(t, a)
          PROVE  ScanTypes'
      <3>1. [scan[t] EXCEPT !.answer = a, !.slot = SlotAt(t)] \in ScanType
        BY <2>1, ScanFields
      <3> QED
        BY <2>5, <3>1 DEF Scan, Answer
    <2> QED
      BY <1>35, <2>3, <2>4, <2>5 DEF VerifyTime, NextRecord
  <1>36. CASE VerifyReturns(t)
    <2>1. Idle \in ScanType
      BY ScanFields
    <2> QED
      BY <1>36, <2>1 DEF VerifyReturns, Scan
  <1>37. CASE CrashWhileCreating(t)
    BY <1>37 DEF CrashWhileCreating, Die
  <1> QED
    BY <1>1, <1>2, <1>3, <1>4, <1>5, <1>6, <1>7, <1>8, <1>9, <1>10, <1>11, <1>12, <1>13, <1>14,
       <1>15, <1>16, <1>17, <1>18, <1>19, <1>20, <1>21, <1>22, <1>23, <1>24, <1>25, <1>26, <1>27,
       <1>28, <1>29, <1>30, <1>31, <1>32, <1>33, <1>34, <1>35, <1>36, <1>37 DEF Initialise,
       Operate

LEMMA HistoryTypesKept ==
    ASSUME Typed, NEW t \in Threads, Where(t), Origin(t),
           Initialise(t) \/ Operate(t) \/ CrashWhileCreating(t)
    PROVE  HistoryTypes'
  <1>a. HistoryTypes
    BY DEF Typed
  <1> USE <1>a DEF shared, history, At, Goto, Finish, HistoryTypes
  <1>1. CASE InitMutex(t)
    BY <1>1 DEF InitMutex
  <1>2. CASE OpenShm(t)
    BY <1>2 DEF OpenShm
  <1>3. CASE CreateShm(t)
    BY <1>3 DEF CreateShm
  <1>4. CASE ReopenShm(t)
    BY <1>4 DEF ReopenShm
  <1>5. CASE SizeShm(t)
    BY <1>5 DEF SizeShm
  <1>6. CASE MapShm(t)
    BY <1>6 DEF MapShm
  <1>7. CASE InitFails(t)
    BY <1>7 DEF InitFails, InitReturnsNull, Unattached
  <1>8. CASE PublishVersion(t)
    BY <1>8 DEF PublishVersion
  <1>9. CASE StoreLock(t)
    BY <1>9 DEF StoreLock
  <1>10. CASE StoreCount(t)
    BY <1>10 DEF StoreCount, Attach
  <1>11. CASE PollUnsized(t)
    BY <1>11 DEF PollUnsized, Die
  <1>12. CASE PollAgain(t)
    BY <1>12 DEF PollAgain
  <1>13. CASE PollTimesOut(t)
    BY <1>13 DEF PollTimesOut, InitReturnsNull, Unattached
  <1>14. CASE PollFindsVersion(t)
    BY <1>14 DEF PollFindsVersion, Attach
  <1>15. CASE PollFindsOther(t)
    BY <1>15 DEF PollFindsOther
  <1>16. CASE LockToReset(t)
    BY <1>16 DEF LockToReset
  <1>17. CASE Reset(t)
    BY <1>17 DEF Reset
  <1>18. CASE UnlockReset(t)
    BY <1>18 DEF UnlockReset, Attach
  <1>19. CASE Begin(t)
    BY <1>19 DEF Begin
  <1>20. CASE SpinLock(t)
    BY <1>20 DEF SpinLock
  <1>21. CASE FindPoint(t)
    BY <1>21 DEF FindPoint
  <1>22. CASE SetPoint(t)
    <2>1. mapped[Process(t)] \in Objects /\ Registry(t) \in ObjectType /\ Op(t) \in CallType /\
            Legal(t, Op(t))
      BY <1>22, Situated DEF Critical, Reading, SetPoint, At
    <2>2. Op(t).name \in Names /\ Op(t).arg \in Actions
      BY <1>22, <2>1 DEF Where, Legal, CallType, SetPoint
    <2>3. ASSUME told' = [told EXCEPT ![mapped[Process(t)]][Op(t).name] = [action |-> Op(t).arg, enabled |-> TRUE]]
          PROVE  told' \in [Objects -> [Names -> ToldType]]
      BY <2>2, <2>3, ToldFields
    <2> QED
      BY <1>22, <2>3 DEF SetPoint, Change
  <1>23. CASE SetFrequency(t)
    <2>1. mapped[Process(t)] \in Objects /\ Registry(t) \in ObjectType /\ Op(t) \in CallType /\
            Legal(t, Op(t))
      BY <1>23, Situated DEF Critical, Reading, SetFrequency, At
    <2>2. ASSUME fired' = [fired EXCEPT ![mapped[Process(t)]][Op(t).name] = 0]
          PROVE  fired' \in [Objects -> [Names -> Nat]]
      BY <2>2
    <2> QED
      BY <1>23, <2>2 DEF SetFrequency, Change
  <1>24. CASE ClearPoint(t)
    <2>1. mapped[Process(t)] \in Objects /\ Registry(t) \in ObjectType /\ Op(t) \in CallType /\
            Legal(t, Op(t))
      BY <1>24, Situated DEF Critical, Reading, ClearPoint, At
    <2>2. ASSUME told' = [told EXCEPT ![mapped[Process(t)]][Op(t).name].enabled = FALSE]
          PROVE  told' \in [Objects -> [Names -> ToldType]]
      <3>1. \A n \in Names : [told[mapped[Process(t)]][n] EXCEPT !.enabled = FALSE] \in ToldType
        BY <2>1, ToldFields
      <3> QED
        BY <2>1, <2>2, <3>1
    <2> QED
      BY <1>24, <2>2 DEF ClearPoint, Change
  <1>25. CASE ClearAll(t)
    <2>1. mapped[Process(t)] \in Objects /\ Registry(t) \in ObjectType /\ Op(t) \in CallType /\
            Legal(t, Op(t))
      BY <1>25, Situated DEF Critical, Reading, ClearAll, At
    <2>2. told' \in [Objects -> [Names -> ToldType]]
      <3>1. \A n \in Names : [told[mapped[Process(t)]][n] EXCEPT !.enabled = FALSE] \in ToldType
        BY <2>1, ToldFields
      <3>2. [n \in Names |-> [told[mapped[Process(t)]][n] EXCEPT !.enabled = FALSE]] \in [Names -> ToldType]
        BY <3>1
      <3>3. told' = [told EXCEPT ![mapped[Process(t)]] =
                      [n \in Names |-> [told[mapped[Process(t)]][n] EXCEPT !.enabled = FALSE]]]
        BY <1>25 DEF ClearAll
      <3> QED
        BY <3>2, <3>3
    <2>3. fired' \in [Objects -> [Names -> Nat]]
      BY <1>25, <2>1 DEF ClearAll
    <2> QED
      BY <1>25, <2>2, <2>3 DEF ClearAll, Change
  <1>26. CASE Execute(t)
    <2>1. mapped[Process(t)] \in Objects /\ Registry(t) \in ObjectType /\ Op(t) \in CallType /\
            Legal(t, Op(t))
      BY <1>26, Situated DEF Critical, Reading, Execute, At
    <2>2. Op(t).name \in Names
      BY <2>1 DEF CallType
    <2>3. ASSUME fired' = [fired EXCEPT ![mapped[Process(t)]][Op(t).name] = @ + 1]
          PROVE  fired' \in [Objects -> [Names -> Nat]]
      BY <2>1, <2>2, <2>3
    <2> QED
      BY <1>26, <2>3 DEF Execute, Change
  <1>27. CASE PutBack(t)
    BY <1>27 DEF PutBack, Change
  <1>28. CASE StampRecord(t)
    <2>1. mapped[Process(t)] \in Objects /\ Registry(t) \in ObjectType /\ Op(t) \in CallType /\
            Legal(t, Op(t))
      BY <1>28, Situated DEF Critical, Reading, StampRecord, At
    <2>2. Op(t).name \in Names /\ clock \in Nat /\ Registry(t).tail \in Slots
      BY <2>1 DEF CallType, Typed, ScanTypes, ObjectType
    <2> DEFINE o == mapped[Process(t)]
               k == Registry(t).tail
    <2>3. touched' = [u \in Threads |-> IF mapped[ProcessOf[u]] = o THEN touched[u] \cup {k} ELSE touched[u]]
      BY <1>28 DEF StampRecord
    <2>4. fires' = [fires EXCEPT ![o] = fires[o] \cup {<<Op(t).name, clock>>}]
      BY <1>28 DEF StampRecord
    <2> HIDE DEF o, k
    <2>5. \A u \in Threads : touched[u] \cup {k} \in SUBSET Slots
      BY <2>2 DEF k
    <2>6. touched' \in [Threads -> SUBSET Slots]
      BY <2>3, <2>5
    <2>7. fires[o] \cup {<<Op(t).name, clock>>} \in SUBSET (Names \X Nat)
      BY <2>1, <2>2 DEF o
    <2>8. fires' \in [Objects -> SUBSET (Names \X Nat)]
      BY <2>4, <2>7
    <2> QED
      BY <1>28, <2>6, <2>8 DEF StampRecord, Change
  <1>29. CASE WriteRecord(t)
    BY <1>29 DEF WriteRecord, Change
  <1>30. CASE SpinUnlock(t)
    BY <1>30 DEF SpinUnlock
  <1>31. CASE Cleanup(t)
    BY <1>31 DEF Cleanup
  <1>32. CASE VerifyNow(t)
    BY <1>32 DEF VerifyNow, Scan
  <1>33. CASE VerifyTail(t)
    <2>1. mapped[Process(t)] \in Objects /\ Registry(t) \in ObjectType /\ Op(t) \in CallType /\
            Legal(t, Op(t))
      BY <1>33, Situated DEF Critical, Reading, VerifyTail, At
    <2>2. HalfWritten(mapped[Process(t)]) \subseteq Slots
      BY <2>1 DEF HalfWritten, ObjectType, Registry
    <2> QED
      BY <1>33, <2>2 DEF VerifyTail, Scan
  <1>34. CASE VerifyName(t)
    BY <1>34 DEF VerifyName, Scan, NextRecord, Answer
  <1>35. CASE VerifyTime(t)
    BY <1>35 DEF VerifyTime, Scan, NextRecord, Answer
  <1>36. CASE VerifyReturns(t)
    BY <1>36 DEF VerifyReturns, Scan
  <1>37. CASE CrashWhileCreating(t)
    BY <1>37 DEF CrashWhileCreating, Die
  <1> QED
    BY <1>1, <1>2, <1>3, <1>4, <1>5, <1>6, <1>7, <1>8, <1>9, <1>10, <1>11, <1>12, <1>13, <1>14,
       <1>15, <1>16, <1>17, <1>18, <1>19, <1>20, <1>21, <1>22, <1>23, <1>24, <1>25, <1>26, <1>27,
       <1>28, <1>29, <1>30, <1>31, <1>32, <1>33, <1>34, <1>35, <1>36, <1>37 DEF Initialise,
       Operate

-----------------------------------------------------------------------------
(* What the calls under the spin lock do to the object they work on.       *)

LEMMA ChangeAt ==
    ASSUME Typed, NEW t \in Threads, mapped[Process(t)] \in Objects, NEW r, Change(t, r)
    PROVE  /\ shm'[mapped[Process(t)]] = r
           /\ \A x \in Objects : x # mapped[Process(t)] => shm'[x] = shm[x]
           /\ damaged' = damaged /\ mapped' = mapped /\ initLock' = initLock /\ todo' = todo
           /\ obj' = obj /\ created' = created /\ found' = found /\ scan' = scan
  BY DEF Change, Typed, MemoryType

(* The calls that change the table or the ring.                            *)
Works(t) ==
    \/ SetPoint(t) \/ SetFrequency(t) \/ ClearPoint(t) \/ ClearAll(t)
    \/ Execute(t) \/ PutBack(t) \/ StampRecord(t) \/ WriteRecord(t)

TableFrame(t, o) ==
    /\ \A x \in Objects : x # o =>
         shm'[x] = shm[x] /\ told'[x] = told[x] /\ fired'[x] = fired[x] /\ fires'[x] = fires[x]
    /\ shm'[o].version = shm[o].version /\ shm'[o].sized = shm[o].sized /\
         shm'[o].lock = shm[o].lock
    /\ damaged' = damaged /\ mapped' = mapped /\ initLock' = initLock /\ todo' = todo
    /\ obj' = obj /\ created' = created /\ found' = found /\ scan' = scan
    /\ \A u \in Threads : u # t => pc'[u] = pc[u]

LEMMA WorksFrame ==
    ASSUME Typed, NEW t \in Threads, Where(t), Origin(t), Works(t)
    PROVE  TableFrame(t, mapped[Process(t)])
  <1> DEFINE o == mapped[Process(t)]
             r == Registry(t)
  <1>a. o \in Objects /\ r = shm[o] /\ r \in ObjectType
    BY Situated, Zenon DEF Works, Registry, Critical, SetPoint, SetFrequency, ClearPoint,
      ClearAll,
                    Execute, PutBack, StampRecord, WriteRecord, At
  <1>b. ASSUME NEW q, Change(t, q), q.version = r.version, q.sized = r.sized, q.lock = r.lock,
               \A x \in Objects : x # o => told'[x] = told[x] /\ fired'[x] = fired[x] /\
                 fires'[x] = fires[x],
               NEW step, Goto(t, step)
        PROVE  TableFrame(t, o)
    BY <1>a, <1>b, ChangeAt DEF TableFrame, Goto, Typed, ThreadTypes
  <1>c. HistoryTypes
    BY DEF Typed
  <1> USE <1>a, <1>c DEF HistoryTypes, ObjectType
  <1>1. CASE SetPoint(t)
    BY <1>1, <1>b DEF SetPoint
  <1>2. CASE SetFrequency(t)
    BY <1>2, <1>b DEF SetFrequency
  <1>3. CASE ClearPoint(t)
    BY <1>3, <1>b DEF ClearPoint
  <1>4. CASE ClearAll(t)
    BY <1>4, <1>b DEF ClearAll
  <1>5. CASE Execute(t)
    BY <1>5, <1>b, Zenon DEF Execute
  <1>6. CASE PutBack(t)
    BY <1>6, <1>b DEF PutBack
  <1>7. CASE StampRecord(t)
    BY <1>7, <1>b DEF StampRecord
  <1>8. CASE WriteRecord(t)
    BY <1>8, <1>b DEF WriteRecord
  <1> QED
    BY <1>1, <1>2, <1>3, <1>4, <1>5, <1>6, <1>7, <1>8 DEF Works

-----------------------------------------------------------------------------
(* Where the threads are.                                                  *)

(* What a step of t does to the other threads: they may die, and otherwise *)
(* find their call, their lock and their mapping as they were.             *)
Elsewhere(t) ==
    \A u \in Threads : u # t =>
        /\ pc'[u] = pc[u] \/ pc'[u] = "dead"
        /\ todo'[u] = todo[u] /\ obj'[u] = obj[u] /\ created'[u] = created[u]
        /\ found'[u] = found[u] /\ scan'[u] = scan[u]
        /\ pc[u] \in Holding \cup Critical \cup Reading \cup {"enter"} =>
             mapped'[Process(u)] = mapped[Process(u)]
        /\ pc[u] \in Critical \cup Reading \cup {"enter"} => pc'[u] = pc[u]
        /\ pc[u] \in Holding => initLock'[Process(u)] = initLock[Process(u)]

LEMMA OthersKept ==
    ASSUME Typed, \A u \in Threads : Where(u), NEW t \in Threads,
           Initialise(t) \/ Operate(t) \/ CrashWhileCreating(t)
    PROVE  Elsewhere(t)
  <1>a. NumberTypes /\ CallTypes /\ ThreadTypes /\ ScanTypes
    BY DEF Typed
  <1>b. \A u \in Threads : Process(u) \in Processes
    BY ProcessAssumption DEF Process
  <1>c. \A u \in Threads : pc[u] \in Holding => initLock[Process(u)] = u /\ mapped[Process(u)] = 0
    BY DEF Where
  <1>d. \A u \in Threads : pc[u] \in Critical \cup Reading \cup {"enter"} =>
          mapped[Process(u)] # 0
    BY DEF Where
  <1> USE <1>a, <1>b DEF shared, history, At, Goto, Elsewhere, NumberTypes, CallTypes,
          ThreadTypes, ScanTypes
  <1>1. CASE InitMutex(t)
    BY <1>1, <1>c, NoneAssumption DEF InitMutex
  <1>2. CASE OpenShm(t)
    BY <1>2 DEF OpenShm
  <1>3. CASE CreateShm(t)
    BY <1>3 DEF CreateShm
  <1>4. CASE ReopenShm(t)
    BY <1>4 DEF ReopenShm
  <1>5. CASE SizeShm(t)
    BY <1>5 DEF SizeShm
  <1>6. CASE MapShm(t)
    BY <1>6 DEF MapShm
  <1>7. CASE InitFails(t)
    <2>1. pc[t] \in Holding
      BY <1>7 DEF InitFails, Holding, InitSteps
    <2>2. \A u \in Threads : u # t /\ pc[u] \in Holding => Process(u) # Process(t)
      BY <1>c, <2>1
    <2> QED
      BY <1>7, <2>2 DEF InitFails, InitReturnsNull, Unattached, Finish
  <1>8. CASE PublishVersion(t)
    BY <1>8 DEF PublishVersion
  <1>9. CASE StoreLock(t)
    BY <1>9 DEF StoreLock
  <1>10. CASE StoreCount(t)
    <2>1. pc[t] \in Holding
      BY <1>10 DEF StoreCount, Holding, InitSteps
    <2>2. \A u \in Threads : u # t /\ pc[u] \in Holding => Process(u) # Process(t)
      BY <1>c, <2>1
    <2>3. \A u \in Threads : pc[u] \in Critical \cup Reading \cup {"enter"} =>
            Process(u) # Process(t)
      BY <1>c, <1>d, <2>1
    <2> QED
      BY <1>10, <2>2, <2>3 DEF StoreCount, Attach
  <1>11. CASE PollUnsized(t)
    <2>1. pc[t] \in Holding
      BY <1>11 DEF PollUnsized, Holding, InitSteps
    <2>2. \A u \in Threads : pc[u] \in Critical \cup Reading \cup {"enter"} =>
            Process(u) # Process(t)
      BY <1>c, <1>d, <2>1
    <2> QED
      BY <1>11, <2>2 DEF PollUnsized, Die, Process
  <1>12. CASE PollAgain(t)
    BY <1>12 DEF PollAgain
  <1>13. CASE PollTimesOut(t)
    <2>1. pc[t] \in Holding
      BY <1>13 DEF PollTimesOut, Holding, InitSteps
    <2>2. \A u \in Threads : u # t /\ pc[u] \in Holding => Process(u) # Process(t)
      BY <1>c, <2>1
    <2> QED
      BY <1>13, <2>2 DEF PollTimesOut, InitReturnsNull, Unattached, Finish
  <1>14. CASE PollFindsVersion(t)
    <2>1. pc[t] \in Holding
      BY <1>14 DEF PollFindsVersion, Holding, InitSteps
    <2>2. \A u \in Threads : u # t /\ pc[u] \in Holding => Process(u) # Process(t)
      BY <1>c, <2>1
    <2>3. \A u \in Threads : pc[u] \in Critical \cup Reading \cup {"enter"} =>
            Process(u) # Process(t)
      BY <1>c, <1>d, <2>1
    <2> QED
      BY <1>14, <2>2, <2>3 DEF PollFindsVersion, Attach
  <1>15. CASE PollFindsOther(t)
    BY <1>15 DEF PollFindsOther
  <1>16. CASE LockToReset(t)
    BY <1>16 DEF LockToReset
  <1>17. CASE Reset(t)
    BY <1>17 DEF Reset
  <1>18. CASE UnlockReset(t)
    <2>1. pc[t] \in Holding
      BY <1>18 DEF UnlockReset, Holding, InitSteps
    <2>2. \A u \in Threads : u # t /\ pc[u] \in Holding => Process(u) # Process(t)
      BY <1>c, <2>1
    <2>3. \A u \in Threads : pc[u] \in Critical \cup Reading \cup {"enter"} =>
            Process(u) # Process(t)
      BY <1>c, <1>d, <2>1
    <2> QED
      BY <1>18, <2>2, <2>3 DEF UnlockReset, Attach
  <1>19. CASE Begin(t)
    BY <1>19 DEF Begin
  <1>20. CASE SpinLock(t)
    BY <1>20 DEF SpinLock
  <1>21. CASE FindPoint(t)
    BY <1>21 DEF FindPoint
  <1>22. CASE SetPoint(t)
    BY <1>22 DEF SetPoint, Change
  <1>23. CASE SetFrequency(t)
    BY <1>23 DEF SetFrequency, Change
  <1>24. CASE ClearPoint(t)
    BY <1>24 DEF ClearPoint, Change
  <1>25. CASE ClearAll(t)
    BY <1>25 DEF ClearAll, Change
  <1>26. CASE Execute(t)
    BY <1>26 DEF Execute, Change
  <1>27. CASE PutBack(t)
    BY <1>27 DEF PutBack, Change
  <1>28. CASE StampRecord(t)
    BY <1>28 DEF StampRecord, Change
  <1>29. CASE WriteRecord(t)
    BY <1>29 DEF WriteRecord, Change
  <1>30. CASE SpinUnlock(t)
    BY <1>30 DEF SpinUnlock, Finish
  <1>31. CASE Cleanup(t)
    <2>1. Op(t).op = "cleanup" /\ Legal(t, Op(t))
      BY <1>31, CallOf DEF Where, Cleanup
    <2>2. \A u \in Threads : Process(u) = Process(t) => u = t
      BY <2>1 DEF Legal, Process
    <2> QED
      BY <1>31, <2>2 DEF Cleanup, Finish
  <1>32. CASE VerifyNow(t)
    BY <1>32 DEF VerifyNow, Scan
  <1>33. CASE VerifyTail(t)
    BY <1>33 DEF VerifyTail, Scan
  <1>34. CASE VerifyName(t)
    BY <1>34 DEF VerifyName, Scan, NextRecord, Answer
  <1>35. CASE VerifyTime(t)
    BY <1>35 DEF VerifyTime, Scan, NextRecord, Answer
  <1>36. CASE VerifyReturns(t)
    BY <1>36 DEF VerifyReturns, Scan, Finish
  <1>37. CASE CrashWhileCreating(t)
    <2>1. pc[t] \in Holding
      BY <1>37 DEF CrashWhileCreating, Holding, InitSteps
    <2>2. \A u \in Threads : pc[u] \in Critical \cup Reading \cup {"enter"} =>
            Process(u) # Process(t)
      BY <1>c, <1>d, <2>1
    <2> QED
      BY <1>37, <2>2 DEF CrashWhileCreating, Die, Process
  <1> QED
    BY <1>1, <1>2, <1>3, <1>4, <1>5, <1>6, <1>7, <1>8, <1>9, <1>10, <1>11, <1>12, <1>13, <1>14,
       <1>15, <1>16, <1>17, <1>18, <1>19, <1>20, <1>21, <1>22, <1>23, <1>24, <1>25, <1>26, <1>27,
       <1>28, <1>29, <1>30, <1>31, <1>32, <1>33, <1>34, <1>35, <1>36, <1>37 DEF Initialise,
       Operate

(* What a step does to the versions.                                       *)
VersionStep(t) ==
    \A o \in Objects :
        /\ \/ shm'[o].version = shm[o].version
           \/ shm'[o].version = "current" /\ shm[o].version # "none"
           \/ shm'[o].version = "current" /\ Builds(t) /\ obj[t] = o /\ pc'[t] = "lock"
        /\ shm[o].sized => shm'[o].sized
        /\ shm'[o].version # shm[o].version => shm'[o].sized
        /\ shm[o].version # "current" => told'[o] = told[o]

LEMMA VersionsStep ==
    ASSUME Typed, \A u \in Threads : Where(u) /\ Origin(u), Versions, NEW t \in Threads,
           Initialise(t) \/ Operate(t) \/ CrashWhileCreating(t)
    PROVE  VersionStep(t)
  <1>a. MemoryType /\ ThreadTypes
    BY DEF Typed
  <1> USE <1>a DEF shared, history, At, Goto, VersionStep, MemoryType, ObjectType
  <1>1. CASE InitMutex(t)
    BY <1>1 DEF InitMutex
  <1>2. CASE OpenShm(t)
    BY <1>2 DEF OpenShm
  <1>3. CASE CreateShm(t)
    BY <1>3 DEF CreateShm
  <1>4. CASE ReopenShm(t)
    BY <1>4 DEF ReopenShm
  <1>5. CASE SizeShm(t)
    BY <1>5 DEF SizeShm
  <1>6. CASE MapShm(t)
    BY <1>6 DEF MapShm
  <1>7. CASE InitFails(t)
    BY <1>7 DEF InitFails, InitReturnsNull, Unattached, Finish
  <1>8. CASE PublishVersion(t)
    <2>1. obj[t] \in Objects
      BY <1>8, Situated DEF PublishVersion, Holding, InitSteps
    <2>2. Builds(t)
      BY <1>8 DEF PublishVersion, Origin, Builds
    <2>3. /\ shm' = [shm EXCEPT ![obj[t]] = [Zeroed EXCEPT !.sized = TRUE, !.version = "current"]]
          /\ told' = told /\ pc'[t] = "lock"
      BY <1>8 DEF PublishVersion, ThreadTypes
    <2>4. /\ shm'[obj[t]].version = "current" /\ shm'[obj[t]].sized
          /\ \A o \in Objects : o # obj[t] => shm'[o] = shm[o]
      BY <2>1, <2>3 DEF Zeroed
    <2> QED
      BY <2>2, <2>3, <2>4
  <1>9. CASE StoreLock(t)
    BY <1>9 DEF StoreLock
  <1>10. CASE StoreCount(t)
    BY <1>10 DEF StoreCount, Attach
  <1>11. CASE PollUnsized(t)
    BY <1>11 DEF PollUnsized, Die
  <1>12. CASE PollAgain(t)
    BY <1>12 DEF PollAgain
  <1>13. CASE PollTimesOut(t)
    BY <1>13 DEF PollTimesOut, InitReturnsNull, Unattached, Finish
  <1>14. CASE PollFindsVersion(t)
    BY <1>14 DEF PollFindsVersion, Attach
  <1>15. CASE PollFindsOther(t)
    BY <1>15 DEF PollFindsOther
  <1>16. CASE LockToReset(t)
    <2>1. obj[t] \in Objects
      BY <1>16, Situated DEF LockToReset, Holding, InitSteps
    <2>2. shm' = [shm EXCEPT ![obj[t]].lock = 1] /\ told' = told
      BY <1>16 DEF LockToReset
    <2> QED
      BY <2>1, <2>2
  <1>17. CASE Reset(t)
    <2>1. obj[t] \in Objects
      BY <1>17, Situated DEF Reset, Holding, InitSteps
    <2>2. PICK q : q = [Zeroed EXCEPT !.sized = TRUE, !.version = "current", !.lock = 1]
      OBVIOUS
    <2>3. q.version = "current" /\ q.sized = TRUE
      BY <2>2 DEF Zeroed
    <2>4. shm' = [shm EXCEPT ![obj[t]] = q] /\ told' = told
      BY <1>17, <2>2 DEF Reset
    <2>5. shm[obj[t]].version # "none"
      BY <1>17 DEF Reset, Origin
    <2> QED
      BY <2>1, <2>3, <2>4, <2>5
  <1>18. CASE UnlockReset(t)
    BY <1>18 DEF UnlockReset, Attach
  <1>19. CASE Begin(t)
    BY <1>19 DEF Begin
  <1>20. CASE SpinLock(t)
    BY <1>20 DEF SpinLock
  <1>21. CASE FindPoint(t)
    BY <1>21 DEF FindPoint
  <1>22. CASE SetPoint(t)
    <2>1. TableFrame(t, mapped[Process(t)])
      BY <1>22, WorksFrame DEF Works
    <2>2. shm[mapped[Process(t)]].version = "current"
      BY <1>22, Situated DEF Versions, Where, SetPoint, Critical
    <2> QED
      BY <2>1, <2>2 DEF TableFrame
  <1>23. CASE SetFrequency(t)
    <2>1. TableFrame(t, mapped[Process(t)])
      BY <1>23, WorksFrame DEF Works
    <2>2. shm[mapped[Process(t)]].version = "current"
      BY <1>23, Situated DEF Versions, Where, SetFrequency, Critical
    <2> QED
      BY <2>1, <2>2 DEF TableFrame
  <1>24. CASE ClearPoint(t)
    <2>1. TableFrame(t, mapped[Process(t)])
      BY <1>24, WorksFrame DEF Works
    <2>2. shm[mapped[Process(t)]].version = "current"
      BY <1>24, Situated DEF Versions, Where, ClearPoint, Critical
    <2> QED
      BY <2>1, <2>2 DEF TableFrame
  <1>25. CASE ClearAll(t)
    <2>1. TableFrame(t, mapped[Process(t)])
      BY <1>25, WorksFrame DEF Works
    <2>2. shm[mapped[Process(t)]].version = "current"
      BY <1>25, Situated DEF Versions, Where, ClearAll, Critical
    <2> QED
      BY <2>1, <2>2 DEF TableFrame
  <1>26. CASE Execute(t)
    <2>1. TableFrame(t, mapped[Process(t)])
      BY <1>26, WorksFrame DEF Works
    <2>2. shm[mapped[Process(t)]].version = "current"
      BY <1>26, Situated, Zenon DEF Versions, Where, Execute, Critical
    <2> QED
      BY <2>1, <2>2 DEF TableFrame
  <1>27. CASE PutBack(t)
    <2>1. TableFrame(t, mapped[Process(t)])
      BY <1>27, WorksFrame DEF Works
    <2>2. shm[mapped[Process(t)]].version = "current"
      BY <1>27, Situated DEF Versions, Where, PutBack, Critical
    <2> QED
      BY <2>1, <2>2 DEF TableFrame
  <1>28. CASE StampRecord(t)
    <2>1. TableFrame(t, mapped[Process(t)])
      BY <1>28, WorksFrame DEF Works
    <2>2. shm[mapped[Process(t)]].version = "current"
      BY <1>28, Situated DEF Versions, Where, StampRecord, Critical
    <2> QED
      BY <2>1, <2>2 DEF TableFrame
  <1>29. CASE WriteRecord(t)
    <2>1. TableFrame(t, mapped[Process(t)])
      BY <1>29, WorksFrame DEF Works
    <2>2. shm[mapped[Process(t)]].version = "current"
      BY <1>29, Situated DEF Versions, Where, WriteRecord, Critical
    <2> QED
      BY <2>1, <2>2 DEF TableFrame
  <1>30. CASE SpinUnlock(t)
    BY <1>30 DEF SpinUnlock, Finish
  <1>31. CASE Cleanup(t)
    BY <1>31 DEF Cleanup, Finish
  <1>32. CASE VerifyNow(t)
    BY <1>32 DEF VerifyNow, Scan
  <1>33. CASE VerifyTail(t)
    BY <1>33 DEF VerifyTail, Scan
  <1>34. CASE VerifyName(t)
    BY <1>34 DEF VerifyName, Scan, NextRecord, Answer
  <1>35. CASE VerifyTime(t)
    BY <1>35 DEF VerifyTime, Scan, NextRecord, Answer
  <1>36. CASE VerifyReturns(t)
    BY <1>36 DEF VerifyReturns, Scan, Finish
  <1>37. CASE CrashWhileCreating(t)
    BY <1>37 DEF CrashWhileCreating, Die
  <1> QED
    BY <1>1, <1>2, <1>3, <1>4, <1>5, <1>6, <1>7, <1>8, <1>9, <1>10, <1>11, <1>12, <1>13, <1>14,
       <1>15, <1>16, <1>17, <1>18, <1>19, <1>20, <1>21, <1>22, <1>23, <1>24, <1>25, <1>26, <1>27,
       <1>28, <1>29, <1>30, <1>31, <1>32, <1>33, <1>34, <1>35, <1>36, <1>37 DEF Initialise,
       Operate

LEMMA WhereElse ==
    ASSUME NEW t \in Threads, Elsewhere(t), NEW u \in Threads, u # t, Where(u)
    PROVE  Where(u)'
  <1>1. CASE pc'[u] = pc[u]
    <2>1. todo'[u] = todo[u] /\ found'[u] = found[u] /\ scan'[u] = scan[u]
      BY DEF Elsewhere
    <2>2. pc[u] \in Holding => initLock'[Process(u)] = u /\ mapped'[Process(u)] = 0
      BY DEF Elsewhere, Where
    <2>3. pc[u] \in Critical \cup Reading \cup {"enter"} => mapped'[Process(u)] # 0
      BY DEF Elsewhere, Where
    <2> QED
      BY <1>1, <2>1, <2>2, <2>3 DEF Where, Op, Locks
  <1>2. CASE pc'[u] = "dead"
    BY <1>2 DEF Where, Holding, Critical, Reading, InitSteps
  <1> QED
    BY <1>1, <1>2 DEF Elsewhere

LEMMA WhereOwn ==
    ASSUME Typed, NEW t \in Threads, Where(t), Origin(t),
           Initialise(t) \/ Operate(t) \/ CrashWhileCreating(t)
    PROVE  Where(t)'
  <1>a. NumberTypes /\ CallTypes /\ ThreadTypes /\ ScanTypes
    BY DEF Typed
  <1>b. Process(t) \in Processes
    BY ProcessAssumption DEF Process
  <1> USE <1>a, <1>b DEF shared, history, At, Goto, NumberTypes, CallTypes, ThreadTypes,
          ScanTypes, Where, Op, Locks, Holding, Critical, Reading, InitSteps
  <1>1. CASE InitMutex(t)
    BY <1>1 DEF InitMutex
  <1>2. CASE OpenShm(t)
    BY <1>2 DEF OpenShm
  <1>3. CASE CreateShm(t)
    BY <1>3 DEF CreateShm
  <1>4. CASE ReopenShm(t)
    BY <1>4 DEF ReopenShm
  <1>5. CASE SizeShm(t)
    BY <1>5 DEF SizeShm
  <1>6. CASE MapShm(t)
    BY <1>6 DEF MapShm
  <1>7. CASE InitFails(t)
    <2>1. todo[t] # <<>>
      BY <1>7 DEF InitFails
    <2>2. pc'[t] = "idle" \/ (pc'[t] = "unattached" /\ todo' = todo)
      BY <1>7 DEF InitFails, InitReturnsNull, Unattached, Finish
    <2> QED
      BY <2>1, <2>2
  <1>8. CASE PublishVersion(t)
    BY <1>8 DEF PublishVersion
  <1>9. CASE StoreLock(t)
    BY <1>9 DEF StoreLock
  <1>10. CASE StoreCount(t)
    <2>1. obj[t] # 0
      BY <1>10 DEF Origin, StoreCount
    <2> QED
      BY <1>10, <2>1 DEF StoreCount, Attach
  <1>11. CASE PollUnsized(t)
    BY <1>11 DEF PollUnsized, Die
  <1>12. CASE PollAgain(t)
    BY <1>12 DEF PollAgain
  <1>13. CASE PollTimesOut(t)
    <2>1. todo[t] # <<>>
      BY <1>13 DEF PollTimesOut
    <2>2. pc'[t] = "idle" \/ (pc'[t] = "unattached" /\ todo' = todo)
      BY <1>13 DEF PollTimesOut, InitReturnsNull, Unattached, Finish
    <2> QED
      BY <2>1, <2>2
  <1>14. CASE PollFindsVersion(t)
    <2>1. obj[t] # 0
      BY <1>14 DEF Origin, PollFindsVersion
    <2> QED
      BY <1>14, <2>1 DEF PollFindsVersion, Attach
  <1>15. CASE PollFindsOther(t)
    BY <1>15 DEF PollFindsOther
  <1>16. CASE LockToReset(t)
    BY <1>16 DEF LockToReset
  <1>17. CASE Reset(t)
    BY <1>17 DEF Reset
  <1>18. CASE UnlockReset(t)
    <2>1. obj[t] # 0
      BY <1>18 DEF Origin, UnlockReset
    <2> QED
      BY <1>18, <2>1 DEF UnlockReset, Attach
  <1>19. CASE Begin(t)
    <2>1. /\ todo'[t] = todo[t] /\ todo[t] # <<>> /\ mapped' = mapped /\ scan'[t].next = 0
          /\ \/ pc'[t] = "cleanup" /\ Op(t).op = "cleanup"
             \/ pc'[t] = "mutex"
             \/ pc'[t] = "enter" /\ mapped[Process(t)] # 0
      BY <1>19 DEF Begin, Idle
    <2> QED
      BY <2>1
  <1>20. CASE SpinLock(t)
    BY <1>20 DEF SpinLock
  <1>21. CASE FindPoint(t)
    BY <1>21 DEF FindPoint
  <1>22. CASE SetPoint(t)
    BY <1>22 DEF SetPoint, Change
  <1>23. CASE SetFrequency(t)
    BY <1>23 DEF SetFrequency, Change
  <1>24. CASE ClearPoint(t)
    BY <1>24 DEF ClearPoint, Change
  <1>25. CASE ClearAll(t)
    BY <1>25 DEF ClearAll, Change
  <1>26. CASE Execute(t)
    <2>1. /\ todo'[t] = todo[t] /\ found'[t] = found[t] /\ mapped' = mapped
          /\ \/ pc'[t] \in {"unlock", "stamp"}
             \/ pc'[t] = "put back" /\ found[t] # 0
      BY <1>26 DEF Execute, Change
    <2>2. todo[t] # <<>> /\ mapped[Process(t)] # 0
      BY <1>26 DEF Execute
    <2> QED
      BY <2>1, <2>2
  <1>27. CASE PutBack(t)
    BY <1>27 DEF PutBack, Change
  <1>28. CASE StampRecord(t)
    BY <1>28 DEF StampRecord, Change
  <1>29. CASE WriteRecord(t)
    BY <1>29 DEF WriteRecord, Change
  <1>30. CASE SpinUnlock(t)
    BY <1>30 DEF SpinUnlock, Finish
  <1>31. CASE Cleanup(t)
    BY <1>31 DEF Cleanup, Finish
  <1>32. CASE VerifyNow(t)
    BY <1>32 DEF VerifyNow, Scan
  <1>33. CASE VerifyTail(t)
    <2>1. todo'[t] = todo[t] /\ mapped' = mapped /\ pc'[t] \in {"name", "time", "answered"}
      BY <1>33 DEF VerifyTail, Scan
    <2>2. pc[t] \in Reading
      BY <1>33 DEF VerifyTail
    <2> QED
      BY <2>1, <2>2
  <1>34. CASE VerifyName(t)
    <2>1. todo'[t] = todo[t] /\ mapped' = mapped /\ pc'[t] \in {"name", "time", "answered"}
      BY <1>34 DEF VerifyName, Scan, NextRecord, Answer
    <2>2. pc[t] \in Reading
      BY <1>34 DEF VerifyName
    <2> QED
      BY <2>1, <2>2
  <1>35. CASE VerifyTime(t)
    <2>1. todo'[t] = todo[t] /\ mapped' = mapped /\ pc'[t] \in {"name", "time", "answered"}
      BY <1>35 DEF VerifyTime, Scan, NextRecord, Answer
    <2>2. pc[t] \in Reading
      BY <1>35 DEF VerifyTime
    <2> QED
      BY <2>1, <2>2
  <1>36. CASE VerifyReturns(t)
    BY <1>36 DEF VerifyReturns, Scan, Finish
  <1>37. CASE CrashWhileCreating(t)
    BY <1>37 DEF CrashWhileCreating, Die
  <1> QED
    BY <1>1, <1>2, <1>3, <1>4, <1>5, <1>6, <1>7, <1>8, <1>9, <1>10, <1>11, <1>12, <1>13, <1>14,
       <1>15, <1>16, <1>17, <1>18, <1>19, <1>20, <1>21, <1>22, <1>23, <1>24, <1>25, <1>26, <1>27,
       <1>28, <1>29, <1>30, <1>31, <1>32, <1>33, <1>34, <1>35, <1>36, <1>37 DEF Initialise,
       Operate

LEMMA OriginElse ==
    ASSUME Typed, Placed, NEW t \in Threads, Elsewhere(t), VersionStep(t), NEW u \in Threads,
           u # t
    PROVE  Origin(u)'
  <1>1. CASE pc'[u] = "dead"
    BY <1>1 DEF Origin, Holding, InitSteps, Builds
  <1>2. CASE pc'[u] = pc[u]
    <2>1. obj'[u] = obj[u] /\ created'[u] = created[u] /\ Origin(u)
      BY DEF Elsewhere, Placed
    <2>2. CASE pc[u] \in {"size", "map", "version", "lock", "count", "reset unlock", "reset lock", "reset"}
      <3>1. obj[u] \in Objects
        BY <2>2, Situated DEF Placed, Holding, InitSteps
      <3>2. Builds(t) /\ Builds(u) /\ obj[t] = obj[u] => t = u
        BY DEF Placed, Versions
      <3>3. Builds(u) => shm'[obj[u]].version = "none"
        BY <2>1, <3>1, <3>2 DEF VersionStep, Origin
      <3>4. shm[obj[u]].version = "current" => shm'[obj[u]].version = "current"
        BY <3>1 DEF VersionStep
      <3>5. shm[obj[u]].version # "none" => shm'[obj[u]].version # "none"
        BY <3>1 DEF VersionStep
      <3> QED
        BY <1>2, <2>1, <2>2, <3>3, <3>4, <3>5 DEF Origin, Builds
    <2>3. CASE pc[u] \notin {"size", "map", "version", "lock", "count", "reset unlock", "reset lock", "reset"}
      BY <1>2, <2>1, <2>3 DEF Origin, Builds
    <2> QED
      BY <2>2, <2>3
  <1> QED
    BY <1>1, <1>2 DEF Elsewhere

LEMMA OriginOwn ==
    ASSUME Typed, Placed, NEW t \in Threads,
           Initialise(t) \/ Operate(t) \/ CrashWhileCreating(t)
    PROVE  Origin(t)'
  <1>a. NumberTypes /\ MemoryType /\ ThreadTypes
    BY DEF Typed
  <1>b. Where(t) /\ Origin(t) /\ Versions
    BY DEF Placed
  <1>c. made \in Nat
    BY <1>a, Sizes DEF NumberTypes
  <1>d. made + 1 > made /\ made + 1 # 0
    BY <1>c
  <1> USE <1>a, <1>b DEF shared, history, At, Goto, NumberTypes, ThreadTypes, Origin, Builds,
          Holding, InitSteps
  <1>1. CASE InitMutex(t)
    BY <1>1 DEF InitMutex
  <1>2. CASE OpenShm(t)
    BY <1>2 DEF OpenShm
  <1>3. CASE CreateShm(t)
    <2>1. created'[t] => obj'[t] = made + 1 /\ made + 1 \in Objects /\ shm' = shm
      BY <1>3, Sizes DEF CreateShm, Objects
    <2>2. created'[t] => shm'[obj'[t]].version = "none" /\ obj'[t] # 0
      <3>1. \A o \in Objects : o > made => shm[o].version = "none"
        BY DEF Versions
      <3>2. created'[t] => obj'[t] > made /\ obj'[t] # 0
        BY <1>d, <2>1, Zenon
      <3> QED
        BY <2>1, <3>1, <3>2
    <2> QED
      BY <1>3, <2>2 DEF CreateShm
  <1>4. CASE ReopenShm(t)
    BY <1>4 DEF ReopenShm
  <1>5. CASE SizeShm(t)
    <2>1. obj[t] \in Objects
      BY <1>5, Situated DEF SizeShm, Holding, InitSteps
    <2>2. Origin(t)
      OBVIOUS
    <2> QED
      BY <1>5, <2>1, <2>2 DEF SizeShm, MemoryType, ObjectType, Zeroed
  <1>6. CASE MapShm(t)
    BY <1>6 DEF MapShm
  <1>7. CASE InitFails(t)
    BY <1>7 DEF InitFails, InitReturnsNull, Unattached, Finish
  <1>8. CASE PublishVersion(t)
    <2>1. obj[t] \in Objects
      BY <1>8, Situated DEF PublishVersion, Holding, InitSteps
    <2>2. Origin(t)
      OBVIOUS
    <2> QED
      BY <1>8, <2>1, <2>2 DEF PublishVersion, MemoryType, ObjectType, Zeroed
  <1>9. CASE StoreLock(t)
    <2>1. obj[t] \in Objects
      BY <1>9, Situated DEF StoreLock, Holding, InitSteps
    <2>2. Origin(t)
      OBVIOUS
    <2> QED
      BY <1>9, <2>1, <2>2 DEF StoreLock, MemoryType, ObjectType, Zeroed
  <1>10. CASE StoreCount(t)
    <2>1. obj[t] \in Objects
      BY <1>10, Situated DEF StoreCount, Holding, InitSteps
    <2>2. Origin(t)
      OBVIOUS
    <2> QED
      BY <1>10, <2>1, <2>2 DEF StoreCount, Attach, MemoryType, ObjectType, Zeroed
  <1>11. CASE PollUnsized(t)
    BY <1>11 DEF PollUnsized, Die
  <1>12. CASE PollAgain(t)
    BY <1>12 DEF PollAgain
  <1>13. CASE PollTimesOut(t)
    BY <1>13 DEF PollTimesOut, InitReturnsNull, Unattached, Finish
  <1>14. CASE PollFindsVersion(t)
    BY <1>14 DEF PollFindsVersion, Attach
  <1>15. CASE PollFindsOther(t)
    BY <1>15 DEF PollFindsOther
  <1>16. CASE LockToReset(t)
    <2>1. obj[t] \in Objects
      BY <1>16, Situated DEF LockToReset
    <2>2. shm' = [shm EXCEPT ![obj[t]].lock = 1]
      BY <1>16 DEF LockToReset
    <2>3. shm[obj[t]] \in ObjectType
      BY <2>1 DEF MemoryType
    <2>4. shm'[obj[t]].version = shm[obj[t]].version
      BY <2>1, <2>2, <2>3 DEF MemoryType, ObjectType
    <2> QED
      BY <1>16, <2>1, <2>4 DEF LockToReset
  <1>17. CASE Reset(t)
    <2>1. obj[t] \in Objects
      BY <1>17, Situated DEF Reset, Holding, InitSteps
    <2>2. Origin(t)
      OBVIOUS
    <2> QED
      BY <1>17, <2>1, <2>2 DEF Reset, MemoryType, ObjectType, Zeroed
  <1>18. CASE UnlockReset(t)
    <2>1. obj[t] \in Objects
      BY <1>18, Situated DEF UnlockReset, Holding, InitSteps
    <2>2. Origin(t)
      OBVIOUS
    <2> QED
      BY <1>18, <2>1, <2>2 DEF UnlockReset, Attach, MemoryType, ObjectType, Zeroed
  <1>19. CASE Begin(t)
    BY <1>19 DEF Begin
  <1>20. CASE SpinLock(t)
    BY <1>20 DEF SpinLock
  <1>21. CASE FindPoint(t)
    <2>1. Op(t).op \in Critical /\ pc'[t] = Op(t).op /\ mapped' = mapped /\ made' = made
      BY <1>21 DEF FindPoint, Where, Locks, Critical
    <2> QED
      BY <2>1 DEF Critical
  <1>22. CASE SetPoint(t)
    <2>1. pc'[t] \in Critical /\ created'[t] = created[t]
      BY <1>22 DEF SetPoint, Change, Critical
    <2> QED
      BY <2>1 DEF Critical
  <1>23. CASE SetFrequency(t)
    <2>1. pc'[t] \in Critical /\ created'[t] = created[t]
      BY <1>23 DEF SetFrequency, Change, Critical
    <2> QED
      BY <2>1 DEF Critical
  <1>24. CASE ClearPoint(t)
    <2>1. pc'[t] \in Critical /\ created'[t] = created[t]
      BY <1>24 DEF ClearPoint, Change, Critical
    <2> QED
      BY <2>1 DEF Critical
  <1>25. CASE ClearAll(t)
    <2>1. pc'[t] \in Critical /\ created'[t] = created[t]
      BY <1>25 DEF ClearAll, Change, Critical
    <2> QED
      BY <2>1 DEF Critical
  <1>26. CASE Execute(t)
    <2>1. pc'[t] \in Critical /\ created'[t] = created[t]
      BY <1>26 DEF Execute, Change, Critical
    <2> QED
      BY <2>1 DEF Critical
  <1>27. CASE PutBack(t)
    <2>1. pc'[t] \in Critical /\ created'[t] = created[t]
      BY <1>27 DEF PutBack, Change, Critical
    <2> QED
      BY <2>1 DEF Critical
  <1>28. CASE StampRecord(t)
    <2>1. pc'[t] \in Critical /\ created'[t] = created[t]
      BY <1>28 DEF StampRecord, Change, Critical
    <2> QED
      BY <2>1 DEF Critical
  <1>29. CASE WriteRecord(t)
    <2>1. pc'[t] \in Critical /\ created'[t] = created[t]
      BY <1>29 DEF WriteRecord, Change, Critical
    <2> QED
      BY <2>1 DEF Critical
  <1>30. CASE SpinUnlock(t)
    BY <1>30 DEF SpinUnlock, Finish
  <1>31. CASE Cleanup(t)
    BY <1>31 DEF Cleanup, Finish
  <1>32. CASE VerifyNow(t)
    BY <1>32 DEF VerifyNow, Scan
  <1>33. CASE VerifyTail(t)
    BY <1>33 DEF VerifyTail, Scan
  <1>34. CASE VerifyName(t)
    BY <1>34 DEF VerifyName, Scan, NextRecord, Answer
  <1>35. CASE VerifyTime(t)
    BY <1>35 DEF VerifyTime, Scan, NextRecord, Answer
  <1>36. CASE VerifyReturns(t)
    BY <1>36 DEF VerifyReturns, Scan, Finish
  <1>37. CASE CrashWhileCreating(t)
    BY <1>37 DEF CrashWhileCreating, Die
  <1> QED
    BY <1>1, <1>2, <1>3, <1>4, <1>5, <1>6, <1>7, <1>8, <1>9, <1>10, <1>11, <1>12, <1>13, <1>14,
       <1>15, <1>16, <1>17, <1>18, <1>19, <1>20, <1>21, <1>22, <1>23, <1>24, <1>25, <1>26, <1>27,
       <1>28, <1>29, <1>30, <1>31, <1>32, <1>33, <1>34, <1>35, <1>36, <1>37 DEF Initialise,
       Operate

(* A step builds no other object but a fresh one, and maps only objects of *)
(* this version.                                                           *)
BuildStep(t) ==
    /\ Builds(t)' => (Builds(t) /\ obj'[t] = obj[t]) \/ obj'[t] > made
    /\ \A p \in Processes :
         \/ mapped'[p] \in {0, mapped[p]}
         \/ mapped'[p] = obj[t] /\ obj[t] \in Objects /\ shm'[obj[t]].version = "current"
    /\ made' \in {made, made + 1}

LEMMA BuildsStep ==
    ASSUME Typed, Placed, NEW t \in Threads,
           Initialise(t) \/ Operate(t) \/ CrashWhileCreating(t)
    PROVE  BuildStep(t)
  <1>a. NumberTypes /\ MemoryType /\ ThreadTypes
    BY DEF Typed
  <1>b. Where(t) /\ Origin(t)
    BY DEF Placed
  <1>c. made \in Nat
    BY <1>a, Sizes DEF NumberTypes
  <1> USE <1>a, <1>b, <1>c DEF shared, history, At, Goto, NumberTypes, ThreadTypes, BuildStep,
          Builds
  <1>1. CASE InitMutex(t)
    BY <1>1 DEF InitMutex
  <1>2. CASE OpenShm(t)
    BY <1>2 DEF OpenShm, Origin
  <1>3. CASE CreateShm(t)
    BY <1>3 DEF CreateShm
  <1>4. CASE ReopenShm(t)
    BY <1>4 DEF ReopenShm, Origin
  <1>5. CASE SizeShm(t)
    BY <1>5 DEF SizeShm
  <1>6. CASE MapShm(t)
    BY <1>6 DEF MapShm
  <1>7. CASE InitFails(t)
    BY <1>7 DEF InitFails, InitReturnsNull, Unattached, Finish
  <1>8. CASE PublishVersion(t)
    BY <1>8 DEF PublishVersion
  <1>9. CASE StoreLock(t)
    BY <1>9 DEF StoreLock
  <1>10. CASE StoreCount(t)
    <2>1. obj[t] \in Objects
      BY <1>10, Situated DEF StoreCount, Holding, InitSteps
    <2>2. shm[obj[t]].version = "current"
      BY <1>10 DEF StoreCount, Origin
    <2>3. shm'[obj[t]].version = "current"
      BY <1>10, <2>1, <2>2 DEF StoreCount, Attach, MemoryType, ObjectType
    <2> QED
      BY <1>10, <2>1, <2>3 DEF StoreCount, Attach
  <1>11. CASE PollUnsized(t)
    BY <1>11 DEF PollUnsized, Die
  <1>12. CASE PollAgain(t)
    BY <1>12 DEF PollAgain
  <1>13. CASE PollTimesOut(t)
    BY <1>13 DEF PollTimesOut, InitReturnsNull, Unattached, Finish
  <1>14. CASE PollFindsVersion(t)
    <2>1. obj[t] \in Objects
      BY <1>14, Situated DEF PollFindsVersion, Holding, InitSteps
    <2>2. shm[obj[t]].version = "current"
      BY <1>14 DEF PollFindsVersion, Origin
    <2>3. shm'[obj[t]].version = "current"
      BY <1>14, <2>1, <2>2 DEF PollFindsVersion, Attach, MemoryType, ObjectType
    <2> QED
      BY <1>14, <2>1, <2>3 DEF PollFindsVersion, Attach
  <1>15. CASE PollFindsOther(t)
    <2>1. pc'[t] \notin {"size", "map", "version"} /\ mapped' = mapped /\ made' = made
      BY <1>15 DEF PollFindsOther
    <2> QED
      BY <2>1
  <1>16. CASE LockToReset(t)
    <2>1. pc'[t] \notin {"size", "map", "version"} /\ mapped' = mapped /\ made' = made
      BY <1>16 DEF LockToReset
    <2> QED
      BY <2>1
  <1>17. CASE Reset(t)
    <2>1. pc'[t] \notin {"size", "map", "version"} /\ mapped' = mapped /\ made' = made
      BY <1>17 DEF Reset
    <2> QED
      BY <2>1
  <1>18. CASE UnlockReset(t)
    <2>1. obj[t] \in Objects
      BY <1>18, Situated DEF UnlockReset, Holding, InitSteps
    <2>2. shm[obj[t]].version = "current"
      BY <1>18 DEF UnlockReset, Origin
    <2>3. shm'[obj[t]].version = "current"
      BY <1>18, <2>1, <2>2 DEF UnlockReset, Attach, MemoryType, ObjectType
    <2> QED
      BY <1>18, <2>1, <2>3 DEF UnlockReset, Attach
  <1>19. CASE Begin(t)
    BY <1>19 DEF Begin
  <1>20. CASE SpinLock(t)
    BY <1>20 DEF SpinLock
  <1>21. CASE FindPoint(t)
    <2>1. Op(t).op \in Critical /\ pc'[t] = Op(t).op /\ mapped' = mapped /\ made' = made
      BY <1>21 DEF FindPoint, Where, Locks, Critical
    <2> QED
      BY <2>1 DEF Critical
  <1>22. CASE SetPoint(t)
    <2>1. pc'[t] \notin {"size", "map", "version"} /\ mapped' = mapped /\ made' = made
      BY <1>22 DEF SetPoint, Change
    <2> QED
      BY <2>1
  <1>23. CASE SetFrequency(t)
    <2>1. pc'[t] \notin {"size", "map", "version"} /\ mapped' = mapped /\ made' = made
      BY <1>23 DEF SetFrequency, Change
    <2> QED
      BY <2>1
  <1>24. CASE ClearPoint(t)
    <2>1. pc'[t] \notin {"size", "map", "version"} /\ mapped' = mapped /\ made' = made
      BY <1>24 DEF ClearPoint, Change
    <2> QED
      BY <2>1
  <1>25. CASE ClearAll(t)
    <2>1. pc'[t] \notin {"size", "map", "version"} /\ mapped' = mapped /\ made' = made
      BY <1>25 DEF ClearAll, Change
    <2> QED
      BY <2>1
  <1>26. CASE Execute(t)
    <2>1. pc'[t] \notin {"size", "map", "version"} /\ mapped' = mapped /\ made' = made
      BY <1>26 DEF Execute, Change
    <2> QED
      BY <2>1
  <1>27. CASE PutBack(t)
    <2>1. pc'[t] \notin {"size", "map", "version"} /\ mapped' = mapped /\ made' = made
      BY <1>27 DEF PutBack, Change
    <2> QED
      BY <2>1
  <1>28. CASE StampRecord(t)
    <2>1. pc'[t] \notin {"size", "map", "version"} /\ mapped' = mapped /\ made' = made
      BY <1>28 DEF StampRecord, Change
    <2> QED
      BY <2>1
  <1>29. CASE WriteRecord(t)
    <2>1. pc'[t] \notin {"size", "map", "version"} /\ mapped' = mapped /\ made' = made
      BY <1>29 DEF WriteRecord, Change
    <2> QED
      BY <2>1
  <1>30. CASE SpinUnlock(t)
    BY <1>30 DEF SpinUnlock, Finish
  <1>31. CASE Cleanup(t)
    BY <1>31 DEF Cleanup, Finish
  <1>32. CASE VerifyNow(t)
    BY <1>32 DEF VerifyNow, Scan
  <1>33. CASE VerifyTail(t)
    BY <1>33 DEF VerifyTail, Scan
  <1>34. CASE VerifyName(t)
    BY <1>34 DEF VerifyName, Scan, NextRecord, Answer
  <1>35. CASE VerifyTime(t)
    BY <1>35 DEF VerifyTime, Scan, NextRecord, Answer
  <1>36. CASE VerifyReturns(t)
    BY <1>36 DEF VerifyReturns, Scan, Finish
  <1>37. CASE CrashWhileCreating(t)
    BY <1>37 DEF CrashWhileCreating, Die
  <1> QED
    BY <1>1, <1>2, <1>3, <1>4, <1>5, <1>6, <1>7, <1>8, <1>9, <1>10, <1>11, <1>12, <1>13, <1>14,
       <1>15, <1>16, <1>17, <1>18, <1>19, <1>20, <1>21, <1>22, <1>23, <1>24, <1>25, <1>26, <1>27,
       <1>28, <1>29, <1>30, <1>31, <1>32, <1>33, <1>34, <1>35, <1>36, <1>37 DEF Initialise,
       Operate

LEMMA VersionsKept ==
    ASSUME Typed, Placed, NEW t \in Threads, Elsewhere(t), VersionStep(t), BuildStep(t)
    PROVE  Versions'
  <1>a. made \in Nat /\ \A u \in Threads : obj[u] \in Nat /\ obj[u] <= made
    BY Sizes DEF Typed, NumberTypes
  <1>b. \A u \in Threads : u # t /\ Builds(u)' => Builds(u) /\ obj'[u] = obj[u]
    BY DEF Elsewhere, Builds
  <1>1. ASSUME NEW x \in Threads, NEW y \in Threads, Builds(x)', Builds(y)', obj'[x] = obj'[y]
        PROVE  x = y
    <2>1. CASE x # t /\ y # t
      BY <1>1, <1>b, <2>1 DEF Placed, Versions
    <2>2. ASSUME NEW u \in Threads, u # t, Builds(u)', Builds(t)', obj'[u] = obj'[t]
          PROVE  FALSE
      <3>1. Builds(u) /\ obj'[t] <= made /\ obj'[t] \in Nat
        BY <1>a, <1>b, <2>2
      <3>2. Builds(t) /\ obj[u] = obj[t]
        BY <1>a, <1>b, <2>2, <3>1 DEF BuildStep
      <3> QED
        BY <2>2, <3>1, <3>2 DEF Placed, Versions
    <2> QED
      BY <1>1, <2>1, <2>2
  <1>2. ASSUME NEW p \in Processes, mapped'[p] # 0
        PROVE  shm'[mapped'[p]].version = "current"
    <2>1. CASE mapped'[p] = mapped[p]
      <3>1. mapped[p] \in Objects /\ shm[mapped[p]].version = "current"
        BY <1>2, <2>1, Sizes DEF Placed, Versions, Typed, NumberTypes, Objects
      <3> QED
        BY <2>1, <3>1 DEF VersionStep
    <2> QED
      BY <1>2, <2>1 DEF BuildStep
  <1>3. ASSUME NEW o \in Objects, o > made'
        PROVE  shm'[o].version = "none"
    <2>1. o > made /\ o \in Nat
      BY <1>3, <1>a, Sizes DEF BuildStep, Objects
    <2>2. shm[o].version = "none" /\ obj[t] # o
      BY <2>1, <1>a DEF Placed, Versions
    <2> QED
      BY <2>2 DEF VersionStep
  <1>4. ASSUME NEW o \in Objects
        PROVE  shm'[o].version # "none" => shm'[o].sized
    BY DEF VersionStep, Placed, Versions
  <1>5. ASSUME NEW o \in Objects, shm'[o].version # "current"
        PROVE  \A n \in Names : told'[o][n].action = None
    <2>1. shm[o].version # "current"
      BY <1>5 DEF VersionStep
    <2> QED
      BY <2>1 DEF VersionStep, Placed, Versions
  <1> QED
    BY <1>1, <1>2, <1>3, <1>4, <1>5 DEF Versions

LEMMA PlacedKept ==
    ASSUME Typed, Placed, NEW t \in Threads,
           Initialise(t) \/ Operate(t) \/ CrashWhileCreating(t)
    PROVE  Placed'
  <1>1. Elsewhere(t) /\ VersionStep(t) /\ BuildStep(t)
    BY OthersKept, VersionsStep, BuildsStep DEF Placed
  <1>2. Versions'
    BY <1>1, VersionsKept
  <1>3. ASSUME NEW u \in Threads
        PROVE  Where(u)' /\ Origin(u)'
    <2>1. CASE u = t
      BY <2>1, WhereOwn, OriginOwn DEF Placed
    <2>2. CASE u # t
      BY <2>2, <1>1, WhereElse, OriginElse DEF Placed
    <2> QED
      BY <2>1, <2>2
  <1> QED
    BY <1>2, <1>3 DEF Placed

-----------------------------------------------------------------------------
(* The spin lock.                                                          *)

(* Nobody is inside an object without a version.                           *)
LEMMA NobodyInside ==
    ASSUME Placed, NEW o, shm[o].version = "none", Typed
    PROVE  Inside(o) = {}
  <1>1. SUFFICES ASSUME NEW t \in Inside(o) PROVE FALSE
    OBVIOUS
  <1>2. t \in Threads /\ Where(t) /\ Origin(t) /\ Process(t) \in Processes
    BY ProcessAssumption DEF Placed, Inside, Process
  <1>3. CASE pc[t] \in Critical /\ mapped[Process(t)] = o
    <2>1. mapped[Process(t)] # 0
      BY <1>2, <1>3 DEF Where
    <2>2. \A p \in Processes : mapped[p] # 0 => shm[mapped[p]].version = "current"
      BY DEF Placed, Versions
    <2> QED
      BY <1>2, <1>3, <2>1, <2>2
  <1>4. CASE pc[t] \in {"reset", "reset unlock"} /\ obj[t] = o
    BY <1>2, <1>4 DEF Origin
  <1> QED
    BY <1>3, <1>4 DEF Inside

(* What a step of t does to the lock of o and to its own place.            *)
LockStep(t, o) ==
    /\ damaged[o] => damaged'[o]
    /\ \/ (t \in Inside(o)' => t \in Inside(o)) /\ (shm'[o].lock = 0 => shm[o].lock = 0)
       \/ shm[o].lock = 0 /\ shm'[o].lock # 0
       \/ t \in Inside(o) /\ t \notin Inside(o)'
       \/ Inside(o) = {} /\ t \notin Inside(o)'
       \/ damaged'[o]

LEMMA LocksStep ==
    ASSUME Typed, Placed, NEW o \in Objects, NEW t \in Threads,
           Initialise(t) \/ Operate(t) \/ CrashWhileCreating(t)
    PROVE  LockStep(t, o)
  <1>a. ThreadTypes /\ MemoryType /\ HistoryTypes
    BY DEF Typed
  <1>b. NumberTypes
    BY DEF Typed
  <1>c. Where(t) /\ Origin(t)
    BY DEF Placed
  <1> USE <1>a, <1>c DEF shared, history, At, Goto, ThreadTypes, LockStep, Inside, Holding,
          InitSteps, Critical
  <1>1. CASE InitMutex(t)
    BY <1>1 DEF InitMutex
  <1>2. CASE OpenShm(t)
    BY <1>2 DEF OpenShm
  <1>3. CASE CreateShm(t)
    BY <1>3 DEF CreateShm
  <1>4. CASE ReopenShm(t)
    BY <1>4 DEF ReopenShm
  <1>5. CASE SizeShm(t)
    <2>1. obj[t] \in Objects /\ shm[obj[t]] \in ObjectType
      BY <1>5, Situated DEF SizeShm
    <2> QED
      BY <1>5, <2>1 DEF SizeShm, MemoryType, ObjectType, Zeroed, HistoryTypes
  <1>6. CASE MapShm(t)
    BY <1>6 DEF MapShm
  <1>7. CASE InitFails(t)
    BY <1>7 DEF InitFails, InitReturnsNull, Unattached, Finish
  <1>8. CASE PublishVersion(t)
    <2>1. Builds(t)
      BY <1>8 DEF PublishVersion, Origin, Builds
    <2>2. shm[obj[t]].version = "none" /\ obj[t] \in Objects
      BY <1>8, <2>1, Situated DEF Origin, PublishVersion
    <2>3. obj[t] = o => Inside(o) = {}
      BY <2>2, NobodyInside
    <2>4. obj[t] # o => shm'[o] = shm[o]
      BY <1>8 DEF PublishVersion, MemoryType
    <2>5. pc'[t] = "lock" /\ damaged' = damaged
      BY <1>8 DEF PublishVersion
    <2> HIDE DEF Inside
    <2>6. t \notin Inside(o)'
      BY <2>5 DEF Inside
    <2> QED
      BY <2>3, <2>4, <2>5, <2>6
  <1>9. CASE StoreLock(t)
    <2>1. obj[t] \in Objects /\ shm[obj[t]] \in ObjectType
      BY <1>9, Situated DEF StoreLock
    <2> QED
      BY <1>9, <2>1 DEF StoreLock, MemoryType, ObjectType, Zeroed, HistoryTypes
  <1>10. CASE StoreCount(t)
    <2>1. obj[t] \in Objects /\ shm[obj[t]] \in ObjectType
      BY <1>10, Situated DEF StoreCount
    <2> QED
      BY <1>10, <2>1 DEF StoreCount, Attach, MemoryType, ObjectType, Zeroed, HistoryTypes
  <1>11. CASE PollUnsized(t)
    BY <1>11 DEF PollUnsized, Die
  <1>12. CASE PollAgain(t)
    BY <1>12 DEF PollAgain
  <1>13. CASE PollTimesOut(t)
    BY <1>13 DEF PollTimesOut, InitReturnsNull, Unattached, Finish
  <1>14. CASE PollFindsVersion(t)
    BY <1>14 DEF PollFindsVersion, Attach
  <1>15. CASE PollFindsOther(t)
    BY <1>15 DEF PollFindsOther
  <1>16. CASE LockToReset(t)
    <2>1. obj[t] \in Objects /\ shm[obj[t]] \in ObjectType
      BY <1>16, Situated DEF LockToReset
    <2>2. /\ shm' = [shm EXCEPT ![obj[t]].lock = 1] /\ shm[obj[t]].lock = 0
          /\ pc'[t] = "reset" /\ obj' = obj /\ damaged' = damaged
      BY <1>16 DEF LockToReset
    <2>3. obj[t] = o => shm'[o].lock = 1
      BY <2>1, <2>2 DEF ObjectType, MemoryType
    <2>4. obj[t] # o => shm'[o] = shm[o]
      BY <2>1, <2>2
    <2>5. obj[t] # o => t \notin Inside(o)'
      BY <2>2
    <2> HIDE DEF Inside
    <2> QED
      BY <2>2, <2>3, <2>4, <2>5
  <1>17. CASE Reset(t)
    <2>1. obj[t] \in Objects /\ shm[obj[t]] \in ObjectType
      BY <1>17, Situated DEF Reset
    <2> QED
      BY <1>17, <2>1 DEF Reset, MemoryType, ObjectType, Zeroed, HistoryTypes
  <1>18. CASE UnlockReset(t)
    <2>1. obj[t] \in Objects /\ shm[obj[t]] \in ObjectType
      BY <1>18, Situated DEF UnlockReset
    <2> QED
      BY <1>18, <2>1 DEF UnlockReset, Attach, MemoryType, ObjectType, Zeroed, HistoryTypes
  <1>19. CASE Begin(t)
    BY <1>19 DEF Begin
  <1>20. CASE SpinLock(t)
    <2> DEFINE m == mapped[Process(t)]
    <2>1. m \in Objects /\ shm[m] \in ObjectType
      BY <1>20, Situated DEF SpinLock, Registry
    <2>2. /\ shm' = [shm EXCEPT ![m].lock = 1] /\ shm[m].lock = 0
          /\ pc'[t] = "find" /\ mapped' = mapped /\ damaged' = damaged
      BY <1>20 DEF SpinLock, Registry
    <2> HIDE DEF m
    <2>3. m = o => shm'[o].lock = 1
      BY <2>1, <2>2 DEF ObjectType, MemoryType
    <2>4. m # o => shm'[o] = shm[o]
      BY <2>1, <2>2
    <2>5. m # o => t \notin Inside(o)'
      BY <2>2 DEF m, Process
    <2> HIDE DEF Inside
    <2> QED
      BY <2>2, <2>3, <2>4, <2>5
  <1>21. CASE FindPoint(t)
    <2>1. shm' = shm /\ pc[t] \in Critical /\ mapped' = mapped /\ damaged' = damaged
      BY <1>21 DEF FindPoint
    <2>2. pc'[t] \notin {"reset", "reset unlock"}
      BY <1>21 DEF FindPoint, Where, Locks
    <2>3. t \in Inside(o)' => t \in Inside(o)
      BY <2>1, <2>2 DEF Process
    <2> HIDE DEF Inside
    <2> QED
      BY <2>1, <2>3
  <1>22. CASE SetPoint(t)
    <2>1. TableFrame(t, mapped[Process(t)])
      BY <1>22, WorksFrame DEF Works
    <2>2. pc[t] \in Critical /\ pc'[t] \in Critical /\ mapped' = mapped /\ damaged' = damaged
      BY <1>22 DEF SetPoint, Change
    <2>3. shm'[o].lock = shm[o].lock
      BY <2>1 DEF TableFrame
    <2>4. t \in Inside(o)' => t \in Inside(o)
      BY <2>2 DEF Process
    <2> QED
      BY <2>2, <2>3, <2>4
  <1>23. CASE SetFrequency(t)
    <2>1. TableFrame(t, mapped[Process(t)])
      BY <1>23, WorksFrame DEF Works
    <2>2. pc[t] \in Critical /\ pc'[t] \in Critical /\ mapped' = mapped /\ damaged' = damaged
      BY <1>23 DEF SetFrequency, Change
    <2>3. shm'[o].lock = shm[o].lock
      BY <2>1 DEF TableFrame
    <2>4. t \in Inside(o)' => t \in Inside(o)
      BY <2>2 DEF Process
    <2> QED
      BY <2>2, <2>3, <2>4
  <1>24. CASE ClearPoint(t)
    <2>1. TableFrame(t, mapped[Process(t)])
      BY <1>24, WorksFrame DEF Works
    <2>2. pc[t] \in Critical /\ pc'[t] \in Critical /\ mapped' = mapped /\ damaged' = damaged
      BY <1>24 DEF ClearPoint, Change
    <2>3. shm'[o].lock = shm[o].lock
      BY <2>1 DEF TableFrame
    <2>4. t \in Inside(o)' => t \in Inside(o)
      BY <2>2 DEF Process
    <2> QED
      BY <2>2, <2>3, <2>4
  <1>25. CASE ClearAll(t)
    <2>1. TableFrame(t, mapped[Process(t)])
      BY <1>25, WorksFrame DEF Works
    <2>2. pc[t] \in Critical /\ pc'[t] \in Critical /\ mapped' = mapped /\ damaged' = damaged
      BY <1>25 DEF ClearAll, Change
    <2>3. shm'[o].lock = shm[o].lock
      BY <2>1 DEF TableFrame
    <2>4. t \in Inside(o)' => t \in Inside(o)
      BY <2>2 DEF Process
    <2> QED
      BY <2>2, <2>3, <2>4
  <1>26. CASE Execute(t)
    <2>1. TableFrame(t, mapped[Process(t)])
      BY <1>26, WorksFrame DEF Works
    <2>2. pc[t] \in Critical /\ pc'[t] \in Critical /\ mapped' = mapped /\ damaged' = damaged
      BY <1>26 DEF Execute, Change
    <2>3. shm'[o].lock = shm[o].lock
      BY <2>1 DEF TableFrame
    <2>4. t \in Inside(o)' => t \in Inside(o)
      BY <2>2 DEF Process
    <2> QED
      BY <2>2, <2>3, <2>4
  <1>27. CASE PutBack(t)
    <2>1. TableFrame(t, mapped[Process(t)])
      BY <1>27, WorksFrame DEF Works
    <2>2. pc[t] \in Critical /\ pc'[t] \in Critical /\ mapped' = mapped /\ damaged' = damaged
      BY <1>27 DEF PutBack, Change
    <2>3. shm'[o].lock = shm[o].lock
      BY <2>1 DEF TableFrame
    <2>4. t \in Inside(o)' => t \in Inside(o)
      BY <2>2 DEF Process
    <2> QED
      BY <2>2, <2>3, <2>4
  <1>28. CASE StampRecord(t)
    <2>1. TableFrame(t, mapped[Process(t)])
      BY <1>28, WorksFrame DEF Works
    <2>2. pc[t] \in Critical /\ pc'[t] \in Critical /\ mapped' = mapped /\ damaged' = damaged
      BY <1>28 DEF StampRecord, Change
    <2>3. shm'[o].lock = shm[o].lock
      BY <2>1 DEF TableFrame
    <2>4. t \in Inside(o)' => t \in Inside(o)
      BY <2>2 DEF Process
    <2> QED
      BY <2>2, <2>3, <2>4
  <1>29. CASE WriteRecord(t)
    <2>1. TableFrame(t, mapped[Process(t)])
      BY <1>29, WorksFrame DEF Works
    <2>2. pc[t] \in Critical /\ pc'[t] \in Critical /\ mapped' = mapped /\ damaged' = damaged
      BY <1>29 DEF WriteRecord, Change
    <2>3. shm'[o].lock = shm[o].lock
      BY <2>1 DEF TableFrame
    <2>4. t \in Inside(o)' => t \in Inside(o)
      BY <2>2 DEF Process
    <2> QED
      BY <2>2, <2>3, <2>4
  <1>30. CASE SpinUnlock(t)
    <2>1. mapped[Process(t)] \in Objects /\ shm[mapped[Process(t)]] \in ObjectType
      BY <1>30, Situated DEF SpinUnlock, Registry
    <2> QED
      BY <1>30, <2>1 DEF SpinUnlock, Finish, MemoryType, ObjectType
  <1>31. CASE Cleanup(t)
    BY <1>31, <1>b DEF Cleanup, Finish
  <1>32. CASE VerifyNow(t)
    BY <1>32 DEF VerifyNow, Scan
  <1>33. CASE VerifyTail(t)
    BY <1>33 DEF VerifyTail, Scan
  <1>34. CASE VerifyName(t)
    BY <1>34 DEF VerifyName, Scan, NextRecord, Answer
  <1>35. CASE VerifyTime(t)
    BY <1>35 DEF VerifyTime, Scan, NextRecord, Answer
  <1>36. CASE VerifyReturns(t)
    BY <1>36 DEF VerifyReturns, Scan, Finish
  <1>37. CASE CrashWhileCreating(t)
    BY <1>37 DEF CrashWhileCreating, Die
  <1> QED
    BY <1>1, <1>2, <1>3, <1>4, <1>5, <1>6, <1>7, <1>8, <1>9, <1>10, <1>11, <1>12, <1>13, <1>14,
       <1>15, <1>16, <1>17, <1>18, <1>19, <1>20, <1>21, <1>22, <1>23, <1>24, <1>25, <1>26, <1>27,
       <1>28, <1>29, <1>30, <1>31, <1>32, <1>33, <1>34, <1>35, <1>36, <1>37, Zenon DEF Initialise,
       Operate

(* The other threads come into an object by steps of their own only.       *)
LEMMA InsideElse ==
    ASSUME NEW t \in Threads, Elsewhere(t), NEW o, NEW u \in Threads, u # t, u \in Inside(o)'
    PROVE  u \in Inside(o)
  <1>1. pc'[u] = pc[u] /\ obj'[u] = obj[u]
    BY DEF Elsewhere, Inside, Critical
  <1>2. pc[u] \in Critical => mapped'[Process(u)] = mapped[Process(u)]
    BY DEF Elsewhere
  <1> QED
    BY <1>1, <1>2 DEF Inside

LEMMA ExcludedKept ==
    ASSUME Typed, Placed, Excluded, NEW t \in Threads,
           Initialise(t) \/ Operate(t) \/ CrashWhileCreating(t)
    PROVE  Excluded'
  <1>1. SUFFICES ASSUME NEW o \in Objects, ~damaged'[o]
                 PROVE  /\ \A x, y \in Inside(o)' : x = y
                        /\ shm'[o].lock = 0 => Inside(o)' = {}
    BY DEF Excluded
  <1>2. Elsewhere(t) /\ LockStep(t, o)
    BY OthersKept, LocksStep DEF Placed
  <1>3. /\ \A x, y \in Inside(o) : x = y
        /\ shm[o].lock = 0 => Inside(o) = {}
    BY <1>1, <1>2 DEF Excluded, LockStep
  <1>4. \A u \in Inside(o)' : u # t => u \in Inside(o)
    BY <1>2, InsideElse DEF Inside
  <1> QED
    BY <1>1, <1>2, <1>3, <1>4 DEF LockStep

-----------------------------------------------------------------------------
(* What the other steps do to an object.                                   *)

Same(o) ==
    /\ shm'[o].version = shm[o].version /\ shm'[o].count = shm[o].count
    /\ shm'[o].points = shm[o].points
    /\ shm'[o].ring = shm[o].ring /\ shm'[o].tail = shm[o].tail
    /\ told'[o] = told[o] /\ fired'[o] = fired[o] /\ fires'[o] = fires[o]

(* An object without a version, or of another one, is made an empty one of *)
(* this version; so may an empty one, under its readers.                   *)
Wiped(o) ==
    /\ shm[o].version # "current" \/ shm[o].count = 0
    /\ shm'[o].count = 0 /\ shm'[o].tail = 0 /\ \A s \in Slots : shm'[o].ring[s].name = None
    /\ told'[o] = told[o] /\ fired'[o] = fired[o] /\ fires'[o] = fires[o]
    /\ \A u \in Threads : ~(pc[u] \in Critical /\ mapped[Process(u)] = o)

MemoryStep(t, o) ==
    \/ damaged'[o]
    \/ Same(o)
    \/ Wiped(o) /\ ~Works(t) /\ pc'[t] \notin Critical \cup Reading
    \/ Works(t) /\ mapped[Process(t)] = o

LEMMA MemorySteps ==
    ASSUME Typed, Placed, Excluded, NEW o \in Objects, NEW t \in Threads,
           Initialise(t) \/ Operate(t) \/ CrashWhileCreating(t)
    PROVE  MemoryStep(t, o)
  <1>a. MemoryType /\ HistoryTypes /\ ThreadTypes
    BY DEF Typed
  <1>b. Where(t) /\ Origin(t)
    BY DEF Placed
  <1> USE <1>a, <1>b DEF shared, history, At, Goto, MemoryStep, Same, MemoryType
  <1>1. CASE InitMutex(t)
    BY <1>1 DEF InitMutex
  <1>2. CASE OpenShm(t)
    BY <1>2 DEF OpenShm
  <1>3. CASE CreateShm(t)
    BY <1>3 DEF CreateShm
  <1>4. CASE ReopenShm(t)
    BY <1>4 DEF ReopenShm
  <1>5. CASE SizeShm(t)
    <2>1. obj[t] \in Objects /\ shm[obj[t]] \in ObjectType
      BY <1>5, Situated DEF SizeShm, Holding, InitSteps
    <2>2. shm' = [shm EXCEPT ![obj[t]].sized = TRUE]
      BY <1>5 DEF SizeShm
    <2>3. told' = told /\ fired' = fired /\ fires' = fires
      BY <1>5 DEF SizeShm
    <2> QED
      BY <2>1, <2>2, <2>3 DEF ObjectType
  <1>6. CASE MapShm(t)
    BY <1>6 DEF MapShm
  <1>7. CASE InitFails(t)
    BY <1>7 DEF InitFails, InitReturnsNull, Unattached, Finish
  <1>8. CASE PublishVersion(t)
    <2>1. Builds(t)
      BY <1>8 DEF PublishVersion, Origin, Builds
    <2>2. shm[obj[t]].version = "none" /\ obj[t] \in Objects
      BY <1>8, <2>1, Situated DEF Origin, PublishVersion, Holding, InitSteps
    <2>3. obj[t] # o => Same(o)
      BY <1>8 DEF PublishVersion
    <2>4. ASSUME obj[t] = o
          PROVE  Wiped(o) /\ ~Works(t) /\ pc'[t] \notin Critical \cup Reading
      <3>1. Inside(o) = {}
        BY <2>2, <2>4, NobodyInside
      <3>2. shm'[o] = [Zeroed EXCEPT !.sized = TRUE, !.version = "current"]
        BY <1>8, <2>2, <2>4 DEF PublishVersion
      <3>3. shm'[o].count = 0 /\ shm'[o].tail = 0 /\ \A s \in Slots : shm'[o].ring[s].name = None
        BY <3>2 DEF Zeroed
      <3>4. told' = told /\ fired' = fired /\ fires' = fires
        BY <1>8 DEF PublishVersion
      <3>5. pc[t] = "version" /\ pc'[t] = "lock"
        BY <1>8 DEF PublishVersion, ThreadTypes
      <3>6. ~Works(t)
        BY <3>5 DEF Works, SetPoint, SetFrequency, ClearPoint, ClearAll, Execute, PutBack,
           StampRecord, WriteRecord
      <3> QED
        BY <2>2, <2>4, <3>1, <3>3, <3>4, <3>5, <3>6 DEF Wiped, Inside, Critical, Reading
    <2> QED
      BY <2>3, <2>4
  <1>9. CASE StoreLock(t)
    <2>1. obj[t] \in Objects /\ shm[obj[t]] \in ObjectType
      BY <1>9, Situated DEF StoreLock, Holding, InitSteps
    <2>2. shm' = [shm EXCEPT ![obj[t]].lock = 0]
      BY <1>9 DEF StoreLock
    <2>3. told' = told /\ fired' = fired /\ fires' = fires
      BY <1>9 DEF StoreLock
    <2> QED
      BY <2>1, <2>2, <2>3 DEF ObjectType
  <1>10. CASE StoreCount(t)
    <2>1. obj[t] \in Objects /\ shm[obj[t]] \in ObjectType
      BY <1>10, Situated DEF StoreCount, Holding, InitSteps
    <2>2. shm' = [shm EXCEPT ![obj[t]].count = 0]
      BY <1>10 DEF StoreCount, Attach
    <2>3. told' = told /\ fired' = fired /\ fires' = fires
      BY <1>10 DEF StoreCount, Attach
    <2>4. o = obj[t] => damaged'[o] \/ shm[o].count = 0
      BY <1>10 DEF StoreCount, Attach, HistoryTypes
    <2> QED
      BY <2>1, <2>2, <2>3, <2>4 DEF ObjectType
  <1>11. CASE PollUnsized(t)
    BY <1>11 DEF PollUnsized, Die
  <1>12. CASE PollAgain(t)
    BY <1>12 DEF PollAgain
  <1>13. CASE PollTimesOut(t)
    BY <1>13 DEF PollTimesOut, InitReturnsNull, Unattached, Finish
  <1>14. CASE PollFindsVersion(t)
    BY <1>14 DEF PollFindsVersion, Attach
  <1>15. CASE PollFindsOther(t)
    BY <1>15 DEF PollFindsOther
  <1>16. CASE LockToReset(t)
    <2>1. obj[t] \in Objects /\ shm[obj[t]] \in ObjectType
      BY <1>16, Situated DEF LockToReset, Holding, InitSteps
    <2>2. shm' = [shm EXCEPT ![obj[t]].lock = 1]
      BY <1>16 DEF LockToReset
    <2>3. told' = told /\ fired' = fired /\ fires' = fires
      BY <1>16 DEF LockToReset
    <2> QED
      BY <2>1, <2>2, <2>3 DEF ObjectType
  <1>17. CASE Reset(t)
    <2>1. obj[t] \in Objects /\ t \in Inside(obj[t])
      BY <1>17, Situated DEF Reset, Holding, InitSteps, Inside
    <2>2. obj[t] # o => Same(o)
      BY <1>17 DEF Reset
    <2>3. ASSUME obj[t] = o, ~damaged'[o]
          PROVE  Wiped(o) /\ ~Works(t) /\ pc'[t] \notin Critical \cup Reading
      <3>1. ~damaged[o] /\ (shm[o].version # "current" \/ shm[o].count = 0)
        BY <1>17, <2>1, <2>3 DEF Reset, HistoryTypes
      <3>2. \A u \in Inside(o) : u = t
        BY <2>1, <2>3, <3>1 DEF Excluded
      <3>3. shm'[o] = [Zeroed EXCEPT !.sized = TRUE, !.version = "current", !.lock = 1]
        BY <1>17, <2>1, <2>3 DEF Reset
      <3>4. shm'[o].count = 0 /\ shm'[o].tail = 0 /\ \A s \in Slots : shm'[o].ring[s].name = None
        BY <3>3 DEF Zeroed
      <3>5. told' = told /\ fired' = fired /\ fires' = fires
        BY <1>17 DEF Reset
      <3>6. pc[t] = "reset" /\ pc'[t] = "reset unlock"
        BY <1>17 DEF Reset, ThreadTypes
      <3>7. ~Works(t)
        BY <3>6 DEF Works, SetPoint, SetFrequency, ClearPoint, ClearAll, Execute, PutBack,
           StampRecord, WriteRecord
      <3>8. \A u \in Threads : ~(pc[u] \in Critical /\ mapped[Process(u)] = o)
        BY <3>2, <3>6 DEF Inside, Critical
      <3> QED
        BY <3>1, <3>4, <3>5, <3>6, <3>7, <3>8 DEF Wiped, Critical, Reading
    <2> QED
      BY <2>2, <2>3
  <1>18. CASE UnlockReset(t)
    <2>1. obj[t] \in Objects /\ shm[obj[t]] \in ObjectType
      BY <1>18, Situated DEF UnlockReset, Holding, InitSteps
    <2>2. shm' = [shm EXCEPT ![obj[t]].lock = 0]
      BY <1>18 DEF UnlockReset, Attach
    <2>3. told' = told /\ fired' = fired /\ fires' = fires
      BY <1>18 DEF UnlockReset, Attach
    <2> QED
      BY <2>1, <2>2, <2>3 DEF ObjectType
  <1>19. CASE Begin(t)
    BY <1>19 DEF Begin
  <1>20. CASE SpinLock(t)
    <2> DEFINE m == mapped[Process(t)]
    <2>1. m \in Objects /\ shm[m] \in ObjectType
      BY <1>20, Situated DEF SpinLock, Registry, Critical
    <2>2. shm' = [shm EXCEPT ![m].lock = 1]
      BY <1>20 DEF SpinLock
    <2>3. told' = told /\ fired' = fired /\ fires' = fires
      BY <1>20 DEF SpinLock
    <2> HIDE DEF m
    <2> QED
      BY <2>1, <2>2, <2>3 DEF ObjectType
  <1>21. CASE FindPoint(t)
    BY <1>21 DEF FindPoint
  <1>22. CASE SetPoint(t)
    BY <1>22, WorksFrame DEF Works, TableFrame
  <1>23. CASE SetFrequency(t)
    BY <1>23, WorksFrame DEF Works, TableFrame
  <1>24. CASE ClearPoint(t)
    BY <1>24, WorksFrame DEF Works, TableFrame
  <1>25. CASE ClearAll(t)
    BY <1>25, WorksFrame DEF Works, TableFrame
  <1>26. CASE Execute(t)
    BY <1>26, WorksFrame DEF Works, TableFrame
  <1>27. CASE PutBack(t)
    BY <1>27, WorksFrame DEF Works, TableFrame
  <1>28. CASE StampRecord(t)
    BY <1>28, WorksFrame DEF Works, TableFrame
  <1>29. CASE WriteRecord(t)
    BY <1>29, WorksFrame DEF Works, TableFrame
  <1>30. CASE SpinUnlock(t)
    <2> DEFINE m == mapped[Process(t)]
    <2>1. m \in Objects /\ shm[m] \in ObjectType
      BY <1>30, Situated DEF SpinUnlock, Registry, Critical
    <2>2. shm' = [shm EXCEPT ![m].lock = 0]
      BY <1>30 DEF SpinUnlock, Finish
    <2>3. told' = told /\ fired' = fired /\ fires' = fires
      BY <1>30 DEF SpinUnlock, Finish
    <2> HIDE DEF m
    <2> QED
      BY <2>1, <2>2, <2>3 DEF ObjectType
  <1>31. CASE Cleanup(t)
    BY <1>31 DEF Cleanup, Finish
  <1>32. CASE VerifyNow(t)
    BY <1>32 DEF VerifyNow, Scan
  <1>33. CASE VerifyTail(t)
    BY <1>33 DEF VerifyTail, Scan
  <1>34. CASE VerifyName(t)
    BY <1>34 DEF VerifyName, Scan, NextRecord, Answer
  <1>35. CASE VerifyTime(t)
    BY <1>35 DEF VerifyTime, Scan, NextRecord, Answer
  <1>36. CASE VerifyReturns(t)
    BY <1>36 DEF VerifyReturns, Scan, Finish
  <1>37. CASE CrashWhileCreating(t)
    BY <1>37 DEF CrashWhileCreating, Die
  <1> QED
    BY <1>1, <1>2, <1>3, <1>4, <1>5, <1>6, <1>7, <1>8, <1>9, <1>10, <1>11, <1>12, <1>13, <1>14,
       <1>15, <1>16, <1>17, <1>18, <1>19, <1>20, <1>21, <1>22, <1>23, <1>24, <1>25, <1>26, <1>27,
       <1>28, <1>29, <1>30, <1>31, <1>32, <1>33, <1>34, <1>35, <1>36, <1>37 DEF Initialise,
       Operate

(* No damage is forgotten.                                                 *)
LEMMA DamageStays ==
    ASSUME Typed, Placed, NEW t \in Threads, NEW o \in Objects,
           Initialise(t) \/ Operate(t) \/ CrashWhileCreating(t), ~damaged'[o]
    PROVE  ~damaged[o]
  BY LocksStep DEF LockStep

-----------------------------------------------------------------------------
(* What each call does to the table, point by point.                       *)

RingSame(o) == shm'[o].ring = shm[o].ring /\ shm'[o].tail = shm[o].tail /\ fires'[o] = fires[o]
OtherPoints(o, i) ==
    \A j \in 1..MaxPoints : j # i => shm'[o].points[j] = shm[o].points[j]

LEMMA WorkPlace ==
    ASSUME Typed, NEW t \in Threads, Where(t), Origin(t), Works(t)
    PROVE  /\ mapped[Process(t)] \in Objects /\ Registry(t) = shm[mapped[Process(t)]]
           /\ Registry(t) \in ObjectType /\ Op(t) \in CallType /\ Legal(t, Op(t))
           /\ pc[t] \in Critical
  <1>1. pc[t] \in Critical
    BY Zenon DEF Works, Critical, SetPoint, SetFrequency, ClearPoint, ClearAll,
           Execute, PutBack, StampRecord, WriteRecord, At
  <1>2. pc[t] \notin {"idle", "dead"}
    BY <1>1 DEF Critical
  <1> QED
    BY <1>1, <1>2, Situated DEF Registry

PointSet(t, o, i) ==
    /\ i = 0 => Same(o)
    /\ i # 0 =>
         /\ RingSame(o) /\ fired'[o] = fired[o] /\ OtherPoints(o, i)
         /\ shm'[o].count = IF found[t] # 0 THEN shm[o].count ELSE shm[o].count + 1
         /\ shm'[o].points[i].action = Op(t).arg
         /\ shm'[o].points[i].enabled = told'[o][Op(t).name].enabled
         /\ found[t] # 0 =>
              /\ shm'[o].points[i].name = shm[o].points[i].name
              /\ shm'[o].points[i].limit = shm[o].points[i].limit
              /\ shm'[o].points[i].count = shm[o].points[i].count
         /\ found[t] = 0 =>
              shm'[o].points[i].name = Op(t).name /\ shm'[o].points[i].limit = 0
         /\ told'[o][Op(t).name].action = Op(t).arg
         /\ \A n \in Names : n # Op(t).name => told'[o][n] = told[o][n]
    /\ pc'[t] = "unlock"

LEMMA SetEffect ==
    ASSUME Typed, NEW t \in Threads, Where(t), Origin(t), SetPoint(t), NEW o,
           o = mapped[Process(t)],
           NEW i \in Nat, i = Target(t)
    PROVE  PointSet(t, o, i)
  <1> USE DEF PointSet
  <1>1. o \in Objects /\ Registry(t) = shm[o] /\ Registry(t) \in ObjectType
    BY WorkPlace DEF Works
  <1> DEFINE r == shm[o]
             base == IF found[t] # 0 THEN r.points[i] ELSE [Blank EXCEPT !.name = Op(t).name]
             q == [r EXCEPT !.points[i] = [base EXCEPT !.action = Op(t).arg, !.enabled = TRUE],
                            !.count = IF found[t] # 0 THEN @ ELSE @ + 1]
  <1>2. HistoryTypes /\ MemoryType /\ ThreadTypes
    BY DEF Typed
  <1>3. CASE i = 0
    <2>1. Change(t, r) /\ told' = told /\ fired' = fired /\ fires' = fires /\
            pc' = [pc EXCEPT ![t] = "unlock"]
      BY <1>1, <1>3 DEF SetPoint, Goto
    <2>2. shm'[o] = r
      BY <1>1, <2>1, ChangeAt
    <2> QED
      BY <1>2, <1>3, <2>1, <2>2 DEF Same, ThreadTypes
  <1>4. CASE i # 0
    <2>1. /\ Change(t, q) /\ fired' = fired /\ fires' = fires /\ pc' = [pc EXCEPT ![t] = "unlock"]
          /\ told' = [told EXCEPT ![o][Op(t).name] = [action |-> Op(t).arg, enabled |-> TRUE]]
      BY <1>1, <1>4 DEF SetPoint, Goto
    <2>2. shm'[o] = q
      BY <1>1, <2>1, ChangeAt
    <2>3. i \in 1..MaxPoints
      BY <1>1, <1>4, TargetType, Sizes
    <2>4. /\ q.count = IF found[t] # 0 THEN r.count ELSE r.count + 1
          /\ q.ring = r.ring /\ q.tail = r.tail
          /\ \A j \in 1..MaxPoints : j # i => q.points[j] = r.points[j]
          /\ q.points[i] = [base EXCEPT !.action = Op(t).arg, !.enabled = TRUE]
      BY <1>1, <2>3 DEF ObjectType
    <2>5. base \in [name : Names \cup {None}, action : Actions \cup {None}, enabled : BOOLEAN,
                    percent : 0..100, count : 0..(Word - 1), limit : 0..(Word - 1)]
      <3>1. r.points[i] \in PointType
        BY <1>1, <2>3 DEF ObjectType
      <3>2. [Blank EXCEPT !.name = Op(t).name] \in PointType
        BY WorkPlace, FreshObjects, PointFields, Zenon DEF Works, CallType
      <3> QED
        BY <3>1, <3>2, Zenon DEF PointType
    <2>6. found[t] = 0 => base.name = Op(t).name /\ base.limit = 0
      BY DEF Blank
    <2>7. found[t] # 0 => base = r.points[i]
      OBVIOUS
    <2> HIDE DEF q, base
    <2>8. /\ q.points[i].action = Op(t).arg /\ q.points[i].enabled = TRUE
          /\ q.points[i].name = base.name /\ q.points[i].limit = base.limit
          /\ q.points[i].count = base.count
      BY <2>4, <2>5
    <2>9. /\ told'[o][Op(t).name] = [action |-> Op(t).arg, enabled |-> TRUE]
          /\ \A n \in Names : n # Op(t).name => told'[o][n] = told[o][n]
      BY <1>1, <1>2, <2>1, WorkPlace DEF HistoryTypes, Works, CallType
    <2>10. /\ told'[o][Op(t).name].action = Op(t).arg
           /\ q.points[i].enabled = told'[o][Op(t).name].enabled
      <3>1. told'[o][Op(t).name].action = Op(t).arg /\ told'[o][Op(t).name].enabled = TRUE
        BY <2>9
      <3> QED
        BY <2>8, <3>1, Zenon
    <2>11. pc'[t] = "unlock"
      BY <1>2, <2>1 DEF ThreadTypes
    <2> QED
      BY <1>4, <2>1, <2>2, <2>4, <2>8, <2>6, <2>9, <2>11, <2>7, <2>10 DEF RingSame, OtherPoints
  <1> QED
    BY <1>3, <1>4

(* The calls that change a point and leave its name and its action.        *)
FrequencySet(t, o, i) ==
    /\ i = 0 => Same(o)
    /\ i # 0 =>
         /\ RingSame(o) /\ told'[o] = told[o] /\ OtherPoints(o, i)
         /\ shm'[o].count = shm[o].count
         /\ shm'[o].points[i].name = shm[o].points[i].name
         /\ shm'[o].points[i].action = shm[o].points[i].action
         /\ shm'[o].points[i].enabled = shm[o].points[i].enabled
         /\ shm'[o].points[i].limit > 0 => shm'[o].points[i].count = shm'[o].points[i].limit
         /\ \A n \in Names : fired'[o][n] = IF n = Op(t).name THEN 0 ELSE fired[o][n]
    /\ pc'[t] = "unlock"

LEMMA FrequencyEffect ==
    ASSUME Typed, NEW t \in Threads, Where(t), Origin(t), SetFrequency(t),
           NEW o, o = mapped[Process(t)], NEW i \in Nat, i = found[t]
    PROVE  FrequencySet(t, o, i)
  <1> USE DEF FrequencySet
  <1>1. o \in Objects /\ Registry(t) = shm[o] /\ Registry(t) \in ObjectType
    BY WorkPlace DEF Works
  <1> DEFINE r == shm[o]
             n == Op(t).arg
             b == r.points[i]
             p == [b EXCEPT !.limit = Budget(n), !.percent = IF n <= 100 THEN n ELSE 0,
                            !.count = IF n <= 100 THEN b.count ELSE Budget(n)]
             q == [r EXCEPT !.points[i] = p]
  <1>2. HistoryTypes /\ MemoryType /\ ThreadTypes
    BY DEF Typed
  <1>3. CASE i = 0
    <2>1. Change(t, r) /\ told' = told /\ fired' = fired /\ fires' = fires /\
            pc' = [pc EXCEPT ![t] = "unlock"]
      BY <1>1, <1>3 DEF SetFrequency, Goto
    <2>2. shm'[o] = r
      BY <1>1, <2>1, ChangeAt
    <2> QED
      BY <1>2, <1>3, <2>1, <2>2 DEF Same, ThreadTypes
  <1>4. CASE i # 0
    <2>1. /\ Change(t, q) /\ told' = told /\ fires' = fires /\ pc' = [pc EXCEPT ![t] = "unlock"]
          /\ fired' = [fired EXCEPT ![o][Op(t).name] = 0]
      BY <1>1, <1>4 DEF SetFrequency, Goto
    <2>2. shm'[o] = q
      BY <1>1, <2>1, ChangeAt
    <2>3. i \in 1..MaxPoints
      BY <1>2, <1>4, Sizes DEF ThreadTypes
    <2>4. /\ q.count = r.count /\ q.ring = r.ring /\ q.tail = r.tail
          /\ \A j \in 1..MaxPoints : j # i => q.points[j] = r.points[j]
          /\ q.points[i] = p
      BY <1>1, <2>3 DEF ObjectType
    <2>5. b \in PointType
      BY <1>1, <2>3 DEF ObjectType
    <2>6. /\ p.name = b.name /\ p.action = b.action /\ p.enabled = b.enabled
          /\ p.limit = Budget(n) /\ p.count = IF n <= 100 THEN b.count ELSE Budget(n)
      BY <2>5 DEF PointType
    <2>7. p.limit > 0 => p.count = p.limit
      BY <2>6 DEF Budget
    <2>8. \A m \in Names : fired'[o][m] = IF m = Op(t).name THEN 0 ELSE fired[o][m]
      BY <1>1, <1>2, <2>1 DEF HistoryTypes
    <2>9. pc'[t] = "unlock"
      BY <1>2, <2>1 DEF ThreadTypes
    <2> HIDE DEF q, p
    <2> QED
      BY <1>4, <2>1, <2>2, <2>4, <2>6, <2>7, <2>8, <2>9 DEF RingSame, OtherPoints
  <1> QED
    BY <1>3, <1>4

PointCleared(t, o, i) ==
    /\ i = 0 => Same(o)
    /\ i # 0 =>
         /\ RingSame(o) /\ fired'[o] = fired[o] /\ OtherPoints(o, i)
         /\ shm'[o].count = shm[o].count
         /\ shm'[o].points[i].name = shm[o].points[i].name
         /\ shm'[o].points[i].action = shm[o].points[i].action
         /\ shm'[o].points[i].enabled = told'[o][Op(t).name].enabled
         /\ shm'[o].points[i].limit = shm[o].points[i].limit
         /\ shm'[o].points[i].count = shm[o].points[i].count
         /\ \A n \in Names : /\ n # Op(t).name => told'[o][n] = told[o][n]
                             /\ told'[o][n].action = told[o][n].action
    /\ pc'[t] = "unlock"

LEMMA ClearEffect ==
    ASSUME Typed, NEW t \in Threads, Where(t), Origin(t), ClearPoint(t),
           NEW o, o = mapped[Process(t)], NEW i \in Nat, i = found[t]
    PROVE  PointCleared(t, o, i)
  <1> USE DEF PointCleared
  <1>1. o \in Objects /\ Registry(t) = shm[o] /\ Registry(t) \in ObjectType
    BY WorkPlace DEF Works
  <1> DEFINE r == shm[o]
             b == r.points[i]
             q == [r EXCEPT !.points[i].enabled = FALSE]
  <1>2. HistoryTypes /\ MemoryType /\ ThreadTypes
    BY DEF Typed
  <1>3. CASE i = 0
    <2>1. Change(t, r) /\ told' = told /\ fired' = fired /\ fires' = fires /\
            pc' = [pc EXCEPT ![t] = "unlock"]
      BY <1>1, <1>3 DEF ClearPoint, Goto
    <2>2. shm'[o] = r
      BY <1>1, <2>1, ChangeAt
    <2> QED
      BY <1>2, <1>3, <2>1, <2>2 DEF Same, ThreadTypes
  <1>4. CASE i # 0
    <2>1. /\ Change(t, q) /\ fired' = fired /\ fires' = fires /\ pc' = [pc EXCEPT ![t] = "unlock"]
          /\ told' = [told EXCEPT ![o][Op(t).name].enabled = FALSE]
      BY <1>1, <1>4 DEF ClearPoint, Goto
    <2>2. shm'[o] = q
      BY <1>1, <2>1, ChangeAt
    <2>3. i \in 1..MaxPoints
      BY <1>2, <1>4, Sizes DEF ThreadTypes
    <2>4. /\ q.count = r.count /\ q.ring = r.ring /\ q.tail = r.tail
          /\ \A j \in 1..MaxPoints : j # i => q.points[j] = r.points[j]
          /\ q.points[i] = [b EXCEPT !.enabled = FALSE]
      BY <1>1, <2>3 DEF ObjectType
    <2>5. b \in PointType
      BY <1>1, <2>3 DEF ObjectType
    <2>6. /\ q.points[i].name = b.name /\ q.points[i].action = b.action /\
               q.points[i].enabled = FALSE
          /\ q.points[i].limit = b.limit /\ q.points[i].count = b.count
      BY <2>4, <2>5 DEF PointType
    <2>7. ASSUME NEW n \in Names
          PROVE  /\ n # Op(t).name => told'[o][n] = told[o][n]
                 /\ told'[o][n].action = told[o][n].action
                 /\ n = Op(t).name => told'[o][n].enabled = FALSE
      <3>1. told[o][n] \in ToldType
        BY <1>1, <1>2 DEF HistoryTypes
      <3>2. told'[o][n] = IF n = Op(t).name THEN [told[o][n] EXCEPT !.enabled = FALSE] ELSE told[o][n]
        BY <1>1, <1>2, <2>1 DEF HistoryTypes
      <3> QED
        BY <3>1, <3>2 DEF ToldType
    <2>8. pc'[t] = "unlock"
      BY <1>2, <2>1 DEF ThreadTypes
    <2> HIDE DEF q
    <2>9. q.points[i].enabled = told'[o][Op(t).name].enabled
      BY <2>6, <2>7, WorkPlace DEF Works, CallType
    <2> QED
      BY <1>4, <2>1, <2>2, <2>4, <2>6, <2>7, <2>8, <2>9 DEF RingSame, OtherPoints
  <1> QED
    BY <1>3, <1>4

AllCleared(t, o) ==
    /\ RingSame(o) /\ shm'[o].count = shm[o].count
    /\ \A i \in 1..shm[o].count :
         /\ shm'[o].points[i].name = shm[o].points[i].name
         /\ shm'[o].points[i].action = shm[o].points[i].action
         /\ \A n \in Names : shm'[o].points[i].enabled = told'[o][n].enabled
         /\ shm'[o].points[i].limit = shm[o].points[i].limit
         /\ shm'[o].points[i].count = shm[o].points[i].limit
    /\ \A n \in Names : /\ told'[o][n].action = told[o][n].action
                        /\ fired'[o][n] = 0
    /\ pc'[t] = "unlock"

LEMMA ClearAllEffect ==
    ASSUME Typed, NEW t \in Threads, Where(t), Origin(t), ClearAll(t), NEW o,
           o = mapped[Process(t)]
    PROVE  AllCleared(t, o)
  <1>1. o \in Objects /\ Registry(t) = shm[o] /\ Registry(t) \in ObjectType
    BY WorkPlace DEF Works
  <1> DEFINE r == shm[o]
             ps == [i \in 1..MaxPoints |-> IF i <= r.count
                       THEN [r.points[i] EXCEPT !.enabled = FALSE, !.count = r.points[i].limit]
                       ELSE r.points[i]]
             q == [r EXCEPT !.points = ps]
  <1>2. HistoryTypes /\ MemoryType /\ ThreadTypes
    BY DEF Typed
  <1>3. /\ Change(t, q) /\ fires' = fires /\ pc' = [pc EXCEPT ![t] = "unlock"]
        /\ told' = [told EXCEPT ![o] = [n \in Names |-> [told[o][n] EXCEPT !.enabled = FALSE]]]
        /\ fired' = [fired EXCEPT ![o] = [n \in Names |-> 0]]
    BY <1>1 DEF ClearAll, Goto
  <1>4. shm'[o] = q
    BY <1>1, <1>3, ChangeAt
  <1>5. q.count = r.count /\ q.ring = r.ring /\ q.tail = r.tail /\ q.points = ps
    BY <1>1 DEF ObjectType
  <1>6. ASSUME NEW i \in 1..r.count
        PROVE  /\ ps[i].name = r.points[i].name /\ ps[i].action = r.points[i].action
               /\ ps[i].enabled = FALSE /\ ps[i].limit = r.points[i].limit
               /\ ps[i].count = r.points[i].limit
    <2>1. i \in 1..MaxPoints /\ i <= r.count
      BY <1>1, <1>6, Sizes DEF ObjectType
    <2>2. r.points[i] \in PointType
      BY <1>1, <2>1 DEF ObjectType
    <2>3. ps[i] = [r.points[i] EXCEPT !.enabled = FALSE, !.count = r.points[i].limit]
      BY <2>1
    <2> HIDE DEF ps
    <2> QED
      BY <2>2, <2>3 DEF PointType
  <1>7. ASSUME NEW n \in Names
        PROVE  told'[o][n].action = told[o][n].action /\ told'[o][n].enabled = FALSE /\
                 fired'[o][n] = 0
    <2>1. told[o][n] \in ToldType
      BY <1>1, <1>2 DEF HistoryTypes
    <2>2. told'[o][n] = [told[o][n] EXCEPT !.enabled = FALSE] /\ fired'[o][n] = 0
      BY <1>1, <1>2, <1>3 DEF HistoryTypes
    <2> QED
      BY <2>1, <2>2 DEF ToldType
  <1>8. pc'[t] = "unlock" /\ fires' = fires
    BY <1>2, <1>3 DEF ThreadTypes
  <1> HIDE DEF q, ps
  <1>9. \A i \in 1..r.count : \A n \in Names : ps[i].enabled = told'[o][n].enabled
    BY <1>6, <1>7
  <1>10. RingSame(o) /\ shm'[o].count = r.count /\ shm'[o].points = ps
    BY <1>4, <1>5, <1>8 DEF RingSame
  <1> QED
    BY <1>6, <1>7, <1>8, <1>9, <1>10 DEF AllCleared

(* What is taken from a budget and given back.                             *)
CountChanged(o, i, k) ==
    /\ shm'[o].ring = shm[o].ring /\ shm'[o].tail = shm[o].tail /\ OtherPoints(o, i)
    /\ shm'[o].count = shm[o].count
    /\ shm'[o].points[i].name = shm[o].points[i].name
    /\ shm'[o].points[i].action = shm[o].points[i].action
    /\ shm'[o].points[i].enabled = shm[o].points[i].enabled
    /\ shm'[o].points[i].limit = shm[o].points[i].limit
    /\ shm'[o].points[i].count = k

LEMMA CountEffect ==
    ASSUME Typed, NEW t \in Threads, Where(t), Origin(t), Works(t), NEW o, o = mapped[Process(t)],
           NEW i, i = found[t], i # 0, NEW k,
           Change(t, [Registry(t) EXCEPT !.points[i].count = k])
    PROVE  CountChanged(o, i, k)
  <1> DEFINE r == shm[o]
             b == r.points[i]
             q == [r EXCEPT !.points[i].count = k]
  <1>1. o \in Objects /\ Registry(t) = r /\ r \in ObjectType
    BY WorkPlace
  <1>2. i \in 1..MaxPoints
    BY Sizes DEF Typed, ThreadTypes
  <1>3. shm'[o] = q
    BY <1>1, ChangeAt
  <1>4. /\ q.count = r.count /\ q.ring = r.ring /\ q.tail = r.tail
        /\ \A j \in 1..MaxPoints : j # i => q.points[j] = r.points[j]
        /\ q.points[i] = [b EXCEPT !.count = k]
    BY <1>1, <1>2 DEF ObjectType
  <1>5. b \in PointType
    BY <1>1, <1>2 DEF ObjectType
  <1>6. /\ q.points[i].name = b.name /\ q.points[i].action = b.action /\
             q.points[i].enabled = b.enabled
        /\ q.points[i].limit = b.limit /\ q.points[i].count = k
    BY <1>4, <1>5 DEF PointType
  <1> HIDE DEF q
  <1> QED
    BY <1>3, <1>4, <1>6 DEF OtherPoints, CountChanged

(* One more trigger of a name.                                             *)
FiredOnce(o, name) ==
    \A n \in Names : fired'[o][n] = IF n = name THEN fired[o][n] + 1 ELSE fired[o][n]

(* No trigger, a trigger without a budget, and the two outcomes of a       *)
(* budget.                                                                 *)
Executed(t, o, i) ==
    \/ Same(o) /\ pc'[t] = "unlock"
    \/ Same(o) /\ pc'[t] = "stamp" /\ i # 0
    \/ /\ i # 0 /\ shm[o].points[i].limit > 0 /\ shm[o].points[i].count > 0
       /\ CountChanged(o, i, Spent(shm[o].points[i].count))
       /\ pc'[t] = "stamp" /\ FiredOnce(o, Op(t).name)
    \/ /\ i # 0 /\ shm[o].points[i].limit > 0 /\ ~(shm[o].points[i].count > 0)
       /\ CountChanged(o, i, Spent(shm[o].points[i].count))
       /\ pc'[t] = "put back" /\ fired'[o] = fired[o]

LEMMA ExecuteEffect ==
    ASSUME Typed, NEW t \in Threads, Where(t), Origin(t), Execute(t),
           NEW o, o = mapped[Process(t)], NEW i \in Nat, i = found[t]
    PROVE  told' = told /\ RingSame(o) /\ Executed(t, o, i)
  <1> DEFINE r == shm[o]
             b == r.points[i]
  <1>1. o \in Objects /\ Registry(t) = r /\ r \in ObjectType
    BY WorkPlace DEF Works
  <1>2. HistoryTypes /\ MemoryType /\ ThreadTypes
    BY DEF Typed
  <1>3. told' = told /\ fires' = fires
    BY DEF Execute
  <1>4. ASSUME Change(t, r), fired' = fired
        PROVE  Same(o)
    <2>1. shm'[o] = r
      BY <1>1, <1>4, ChangeAt
    <2> QED
      BY <1>3, <1>4, <2>1 DEF Same
  <1> DEFINE q == [Registry(t) EXCEPT !.points[i].count = Spent(b.count)]
             Off == ~(i # 0 /\ b.enabled) /\ Change(t, r) /\ fired' = fired /\ Goto(t, "unlock")
             Counted ==
               /\ i # 0 /\ b.enabled /\ b.limit > 0 /\ Change(t, q)
               /\ IF b.count > 0
                  THEN Goto(t, "stamp") /\ fired' = [fired EXCEPT ![o][Op(t).name] = @ + 1]
                  ELSE Goto(t, "put back") /\ fired' = fired
             Drawn ==
               /\ i # 0 /\ b.enabled /\ b.limit = 0 /\ Change(t, r) /\ fired' = fired
               /\ Goto(t, "stamp") \/ Goto(t, "unlock")
  <1>5. Off \/ Counted \/ Drawn
    <2>1. Registry(t).points[found[t]] = b
      BY <1>1
    <2> QED
      BY <1>1, <2>1, Zenon DEF Execute
  <1>6. CASE Off
    BY <1>2, <1>3, <1>4, <1>6 DEF Executed, Same, RingSame, Goto, ThreadTypes
  <1>7. CASE Counted
    <2>1. Change(t, q) /\ i # 0 /\ b.limit > 0
      BY <1>7
    <2>2. IF b.count > 0 THEN pc'[t] = "stamp" /\ fired' = [fired EXCEPT ![o][Op(t).name] = @ + 1]
                         ELSE pc'[t] = "put back" /\ fired' = fired
      BY <1>2, <1>7 DEF Goto, ThreadTypes
    <2>3. shm'[o] = q
      BY <1>1, <2>1, ChangeAt
    <2>4. q.ring = r.ring /\ q.tail = r.tail
      BY <1>1 DEF ObjectType
    <2>5. fired' = [fired EXCEPT ![o][Op(t).name] = @ + 1] => FiredOnce(o, Op(t).name)
      BY <1>1, <1>2 DEF HistoryTypes, FiredOnce
    <2>6. CountChanged(o, i, Spent(shm[o].points[i].count))
      <3>1. PICK k : k = Spent(b.count)
        OBVIOUS
      <3>2. Change(t, [Registry(t) EXCEPT !.points[i].count = k])
        BY <2>1, <3>1
      <3> QED
        BY <2>1, <3>1, <3>2, CountEffect DEF Works
    <2> HIDE DEF q
    <2>7. RingSame(o)
      BY <1>3, <2>3, <2>4 DEF RingSame
    <2> QED
      BY <1>3, <2>1, <2>2, <2>5, <2>6, <2>7 DEF Executed
  <1>8. CASE Drawn
    BY <1>2, <1>3, <1>4, <1>8 DEF Executed, Same, RingSame, Goto, ThreadTypes
  <1> QED
    BY <1>5, <1>6, <1>7, <1>8

LEMMA PutBackEffect ==
    ASSUME Typed, NEW t \in Threads, Where(t), Origin(t), PutBack(t),
           NEW o, o = mapped[Process(t)], NEW i \in Nat, i = found[t]
    PROVE  /\ i # 0 /\ told' = told /\ fired' = fired /\ RingSame(o) /\ pc'[t] = "unlock"
           /\ CountChanged(o, i, Restored(shm[o].points[i].count))
  <1>1. o \in Objects /\ Registry(t) = shm[o] /\ Registry(t) \in ObjectType
    BY WorkPlace DEF Works
  <1>2. i # 0
    BY DEF Where, PutBack, At
  <1>3. PICK k : k = Restored(shm[o].points[i].count)
    OBVIOUS
  <1>4. /\ told' = told /\ fired' = fired /\ fires' = fires /\ pc'[t] = "unlock"
        /\ Change(t, [Registry(t) EXCEPT !.points[i].count = k])
    BY <1>1, <1>3 DEF PutBack, Goto, Typed, ThreadTypes
  <1>5. CountChanged(o, i, k)
    BY <1>1, <1>2, <1>4, CountEffect DEF Works
  <1> QED
    BY <1>2, <1>3, <1>4, <1>5 DEF RingSame, CountChanged

(* A trigger record leaves the table alone.                                *)
TableSame(o) ==
    /\ shm'[o].count = shm[o].count /\ shm'[o].points = shm[o].points
    /\ told'[o] = told[o] /\ fired'[o] = fired[o]

Stamped(t, o) ==
    /\ TableSame(o) /\ shm'[o].tail = shm[o].tail
    /\ \A s \in Slots : /\ shm'[o].ring[s].name = shm[o].ring[s].name
                        /\ s # shm[o].tail => shm'[o].ring[s].time = shm[o].ring[s].time
    /\ shm'[o].ring[shm[o].tail].time = clock
    /\ fires'[o] = fires[o] \cup {<<Op(t).name, clock>>}
    /\ \A u \in Threads : touched'[u] = IF mapped[Process(u)] = o THEN touched[u] \cup {shm[o].tail}
                                        ELSE touched[u]
    /\ pc'[t] = "record"

LEMMA StampEffect ==
    ASSUME Typed, NEW t \in Threads, Where(t), Origin(t), StampRecord(t), NEW o,
           o = mapped[Process(t)]
    PROVE  Stamped(t, o)
  <1> DEFINE r == shm[o]
             q == [r EXCEPT !.ring[r.tail].time = clock]
  <1>1. o \in Objects /\ Registry(t) = r /\ r \in ObjectType
    BY WorkPlace DEF Works
  <1>2. HistoryTypes /\ MemoryType /\ ThreadTypes
    BY DEF Typed
  <1>3. /\ Change(t, q) /\ told' = told /\ fired' = fired /\ pc'[t] = "record"
        /\ fires' = [fires EXCEPT ![o] = @ \cup {<<Op(t).name, clock>>}]
        /\ \A u \in Threads : touched'[u] = IF mapped[Process(u)] = o THEN touched[u] \cup {r.tail}
                                            ELSE touched[u]
    BY <1>1, <1>2, Zenon DEF StampRecord, Goto, ThreadTypes, Process
  <1>4. shm'[o] = q
    BY <1>1, <1>3, ChangeAt
  <1>5. r.tail \in Slots /\ r.ring \in [Slots -> [name : Names \cup {None}, time : Nat]]
    BY <1>1 DEF ObjectType
  <1>6. /\ q.count = r.count /\ q.points = r.points /\ q.tail = r.tail
        /\ q.ring = [r.ring EXCEPT ![r.tail].time = clock]
    BY <1>1 DEF ObjectType
  <1>7. /\ \A s \in Slots : /\ q.ring[s].name = r.ring[s].name
                            /\ s # r.tail => q.ring[s].time = r.ring[s].time
        /\ q.ring[r.tail].time = clock
    BY <1>5, <1>6
  <1>8. fires'[o] = fires[o] \cup {<<Op(t).name, clock>>}
    BY <1>1, <1>2, <1>3 DEF HistoryTypes
  <1> HIDE DEF q
  <1>9. TableSame(o) /\ shm'[o].tail = r.tail /\ shm'[o].ring = q.ring
    BY <1>3, <1>4, <1>6 DEF TableSame
  <1> QED
    BY <1>3, <1>7, <1>8, <1>9, Zenon DEF Stamped

Written(t, o) ==
    /\ TableSame(o) /\ fires' = fires /\ touched' = touched
    /\ \A s \in Slots : /\ shm'[o].ring[s].time = shm[o].ring[s].time
                        /\ s # shm[o].tail => shm'[o].ring[s].name = shm[o].ring[s].name
    /\ shm'[o].ring[shm[o].tail].name = Op(t).name
    /\ pc'[t] = "unlock"

LEMMA WriteEffect ==
    ASSUME Typed, NEW t \in Threads, Where(t), Origin(t), WriteRecord(t), NEW o,
           o = mapped[Process(t)]
    PROVE  Written(t, o)
  <1> DEFINE r == shm[o]
             q == [r EXCEPT !.ring[r.tail].name = Op(t).name, !.tail = NextSlot(@)]
  <1>1. o \in Objects /\ Registry(t) = r /\ r \in ObjectType
    BY WorkPlace DEF Works
  <1>2. /\ Change(t, q) /\ told' = told /\ fired' = fired /\ fires' = fires /\ touched' = touched
        /\ pc'[t] = "unlock"
    BY <1>1 DEF WriteRecord, Goto, Typed, ThreadTypes
  <1>3. shm'[o] = q
    BY <1>1, <1>2, ChangeAt
  <1>4. r.tail \in Slots /\ r.ring \in [Slots -> [name : Names \cup {None}, time : Nat]]
    BY <1>1 DEF ObjectType
  <1>5. q.count = r.count /\ q.points = r.points /\
          q.ring = [r.ring EXCEPT ![r.tail].name = Op(t).name]
    BY <1>1 DEF ObjectType
  <1>6. /\ \A s \in Slots : /\ q.ring[s].time = r.ring[s].time
                            /\ s # r.tail => q.ring[s].name = r.ring[s].name
        /\ q.ring[r.tail].name = Op(t).name
    BY <1>4, <1>5
  <1> HIDE DEF q
  <1>7. TableSame(o) /\ shm'[o].ring = q.ring
    BY <1>2, <1>3, <1>5 DEF TableSame
  <1> QED
    BY <1>2, <1>6, <1>7 DEF Written

-----------------------------------------------------------------------------
(* The table has what was asked.                                           *)

LEMMA Counts ==
    ASSUME Typed, NEW o \in Objects
    PROVE  /\ shm[o].count \in Nat /\ 1..shm[o].count \subseteq 1..MaxPoints
           /\ \A i \in 1..MaxPoints : shm[o].points[i] \in PointType
  BY Sizes DEF Typed, MemoryType, ObjectType

(* Changes that keep the names, the actions and the switches keep the      *)
(* agreement.                                                              *)
LEMMA AgreedFrame ==
    ASSUME NEW o \in Objects, AgreedOn(o), shm'[o].count = shm[o].count, told'[o] = told[o],
           \A j \in 1..shm[o].count :
               /\ shm'[o].points[j].name = shm[o].points[j].name
               /\ shm'[o].points[j].action = shm[o].points[j].action
               /\ shm'[o].points[j].enabled = shm[o].points[j].enabled
    PROVE  AgreedOn(o)'
  BY DEF AgreedOn

LEMMA AgreedSet ==
    ASSUME Typed, NEW t \in Threads, Where(t), Origin(t), SetPoint(t), NEW o,
           o = mapped[Process(t)],
           AgreedOn(o), Lookup(t)
    PROVE  AgreedOn(o)'
  <1>1. PICK i \in Nat : i = Target(t)
    BY WorkPlace, TargetType DEF Works
  <1>2. /\ o \in Objects /\ Registry(t) = shm[o] /\ Op(t).name \in Names /\ Op(t).arg \in Actions
        /\ pc[t] = "set"
    BY WorkPlace DEF Works, CallType, Legal, SetPoint, At, Where
  <1>s. PointSet(t, o, i)
    BY <1>1, SetEffect
  <1>3. CASE i = 0
    <2>1. Same(o)
      BY <1>1, <1>3, <1>s DEF PointSet
    <2> QED
      BY <1>2, <2>1, AgreedFrame DEF Same
  <1>4. CASE i # 0
    <2> DEFINE n == Op(t).name
    <2>1. i \in 1..shm'[o].count /\ \A j \in 1..shm'[o].count : j # i => j \in 1..shm[o].count
      <3>1. CASE found[t] # 0
        <4>1. i = found[t] /\ i \in 1..shm[o].count
          BY <1>1, <1>2, <3>1, TargetType, WorkPlace DEF Lookup, Works
        <4> QED
          BY <1>1, <1>4, <3>1, <4>1, <1>s DEF PointSet
      <3>2. CASE found[t] = 0
        <4>1. i = shm[o].count + 1 /\ shm'[o].count = shm[o].count + 1
          BY <1>1, <1>2, <1>4, <3>2, TargetType, WorkPlace, <1>s DEF Works, PointSet
        <4>2. shm[o].count \in Nat
          BY <1>2, Counts
        <4> QED
          BY <4>1, <4>2
      <3> QED
        BY <3>1, <3>2
    <2>2. \A j \in 1..shm[o].count : j # i =>
            shm'[o].points[j] = shm[o].points[j] /\ shm[o].points[j].name # n
      <3>1. SUFFICES ASSUME NEW j \in 1..shm[o].count, j # i
                     PROVE  shm'[o].points[j] = shm[o].points[j] /\ shm[o].points[j].name # n
        OBVIOUS
      <3>2. shm'[o].points[j] = shm[o].points[j]
        BY <1>1, <1>2, <1>4, <3>1, <1>s, Counts DEF OtherPoints, PointSet
      <3>3. CASE found[t] # 0
        BY <1>1, <1>2, <3>1, <3>2, <3>3, TargetType, WorkPlace DEF Lookup, Works, AgreedOn
      <3>4. CASE found[t] = 0
        BY <1>2, <3>2, <3>4 DEF Lookup
      <3> QED
        BY <3>3, <3>4
    <2>3. /\ shm'[o].points[i].name = n /\ shm'[o].points[i].action = Op(t).arg
          /\ shm'[o].points[i].enabled = told'[o][n].enabled
      <3>1. found[t] # 0 => i = found[t] /\ shm[o].points[i].name = n
        BY <1>1, <1>2, TargetType, WorkPlace DEF Lookup, Works
      <3> QED
        BY <1>1, <1>4, <3>1, <1>s DEF PointSet
    <2>4. /\ told'[o][n].action = Op(t).arg
          /\ \A m \in Names : m # n => told'[o][m] = told[o][m]
      BY <1>1, <1>4, <1>s DEF PointSet
    <2>5. 1..shm[o].count \subseteq 1..shm'[o].count
      <3>1. shm'[o].count \in {shm[o].count, shm[o].count + 1}
        BY <1>1, <1>4, <1>s DEF PointSet
      <3> QED
        BY <1>2, <3>1, Counts
    <2> HIDE DEF n
    <2>6. \A j \in 1..shm'[o].count :
            /\ shm'[o].points[j].name \in Names /\ shm'[o].points[j].action \in Actions
            /\ told'[o][shm'[o].points[j].name].action = shm'[o].points[j].action
            /\ told'[o][shm'[o].points[j].name].enabled = shm'[o].points[j].enabled
      <3>1. SUFFICES ASSUME NEW j \in 1..shm'[o].count
                     PROVE  /\ shm'[o].points[j].name \in Names /\
                                 shm'[o].points[j].action \in Actions
                            /\ told'[o][shm'[o].points[j].name].action = shm'[o].points[j].action
                            /\ told'[o][shm'[o].points[j].name].enabled
                                 = shm'[o].points[j].enabled
        OBVIOUS
      <3>2. CASE j = i
        BY <1>2, <2>3, <2>4, <3>2 DEF n
      <3>3. CASE j # i
        <4>1. j \in 1..shm[o].count /\ shm'[o].points[j] = shm[o].points[j] /\
                shm[o].points[j].name # n
          BY <2>1, <2>2, <3>1, <3>3
        <4>2. /\ shm[o].points[j].name \in Names /\ shm[o].points[j].action \in Actions
              /\ told[o][shm[o].points[j].name].action = shm[o].points[j].action
              /\ told[o][shm[o].points[j].name].enabled = shm[o].points[j].enabled
          BY <4>1 DEF AgreedOn
        <4>3. told'[o][shm[o].points[j].name] = told[o][shm[o].points[j].name]
          BY <2>4, <4>1, <4>2
        <4> QED
          BY <4>1, <4>2, <4>3
      <3> QED
        BY <3>2, <3>3
    <2>7. \A j, k \in 1..shm'[o].count : shm'[o].points[j].name = shm'[o].points[k].name => j = k
      <3>1. ASSUME NEW j \in 1..shm'[o].count, j # i
            PROVE  shm'[o].points[j].name = shm[o].points[j].name /\ shm[o].points[j].name # n
        BY <2>1, <2>2, <3>1
      <3>2. \A j, k \in 1..shm[o].count : shm[o].points[j].name = shm[o].points[k].name => j = k
        BY DEF AgreedOn
      <3> QED
        BY <2>1, <2>3, <3>1, <3>2
    <2>8. \A m \in Names : told'[o][m].action # None =>
            \E j \in 1..shm'[o].count : shm'[o].points[j].name = m
      <3>1. SUFFICES ASSUME NEW m \in Names, told'[o][m].action # None
                     PROVE  \E j \in 1..shm'[o].count : shm'[o].points[j].name = m
        OBVIOUS
      <3>2. CASE m = n
        BY <2>1, <2>3, <3>2
      <3>3. CASE m # n
        <4>1. PICK j \in 1..shm[o].count : shm[o].points[j].name = m
          BY <2>4, <3>1, <3>3 DEF AgreedOn
        <4>2. CASE j = i
          <5>1. found[t] # 0 => shm[o].points[i].name = n
            BY <1>1, <1>2, TargetType, WorkPlace DEF Lookup, Works, n
          <5>2. found[t] = 0 => i = shm[o].count + 1
            BY <1>1, <1>2, <1>4, TargetType, WorkPlace DEF Works
          <5>3. shm[o].count \in Nat
            BY <1>2, Counts
          <5>4. i # shm[o].count + 1
            BY <4>2, <5>3
          <5> QED
            BY <3>3, <4>1, <4>2, <5>1, <5>2, <5>4
        <4>3. CASE j # i
          BY <2>2, <2>5, <4>1, <4>3
        <4> QED
          BY <4>2, <4>3
      <3> QED
        BY <3>2, <3>3
    <2> QED
      BY <2>6, <2>7, <2>8 DEF AgreedOn
  <1> QED
    BY <1>3, <1>4

(* Changes that keep the names and the actions agree when the switches do. *)
LEMMA AgreedTable ==
    ASSUME NEW o \in Objects, AgreedOn(o), shm'[o].count = shm[o].count,
           \A n \in Names : told'[o][n].action = told[o][n].action,
           \A j \in 1..shm[o].count :
               /\ shm'[o].points[j].name = shm[o].points[j].name
               /\ shm'[o].points[j].action = shm[o].points[j].action,
           \A j \in 1..shm[o].count :
               /\ shm[o].points[j].name \in Names /\ shm[o].points[j].action \in Actions
               /\ told'[o][shm[o].points[j].name].action = shm[o].points[j].action
               /\ told'[o][shm[o].points[j].name].enabled = shm'[o].points[j].enabled
    PROVE  AgreedOn(o)'
  BY DEF AgreedOn

LEMMA AgreedClear ==
    ASSUME Typed, NEW t \in Threads, Where(t), Origin(t), ClearPoint(t), NEW o,
           o = mapped[Process(t)],
           AgreedOn(o), Lookup(t)
    PROVE  AgreedOn(o)'
  <1>1. PICK i \in Nat : i = found[t]
    BY DEF Typed, ThreadTypes
  <1>2. o \in Objects /\ Registry(t) = shm[o] /\ Op(t).name \in Names /\ pc[t] = "clear"
    BY WorkPlace DEF Works, CallType, ClearPoint, At
  <1>s. PointCleared(t, o, i)
    BY <1>1, ClearEffect
  <1>3. CASE i = 0
    <2>1. Same(o)
      BY <1>1, <1>3, <1>s DEF PointCleared
    <2> QED
      BY <1>2, <2>1, AgreedFrame DEF Same
  <1>4. CASE i # 0
    <2>1. i \in 1..shm[o].count /\ shm[o].points[i].name = Op(t).name
      BY <1>1, <1>2, <1>4 DEF Lookup
    <2>2. /\ shm'[o].count = shm[o].count
          /\ \A j \in 1..shm[o].count :
               /\ shm'[o].points[j].name = shm[o].points[j].name
               /\ shm'[o].points[j].action = shm[o].points[j].action
               /\ j # i => shm'[o].points[j].enabled = shm[o].points[j].enabled
          /\ shm'[o].points[i].enabled = told'[o][Op(t).name].enabled
      BY <1>1, <1>2, <1>4, <1>s, Counts, Zenon DEF OtherPoints, PointCleared
    <2>3. /\ \A m \in Names : told'[o][m].action = told[o][m].action
          /\ \A m \in Names : m # Op(t).name => told'[o][m] = told[o][m]
      BY <1>4, <1>s, Zenon DEF PointCleared
    <2>4. \A j \in 1..shm[o].count : shm[o].points[j].name = Op(t).name => j = i
      BY <2>1 DEF AgreedOn
    <2>5. ASSUME NEW j \in 1..shm[o].count
          PROVE  /\ shm[o].points[j].name \in Names /\ shm[o].points[j].action \in Actions
                 /\ told'[o][shm[o].points[j].name].action = shm[o].points[j].action
                 /\ told'[o][shm[o].points[j].name].enabled = shm'[o].points[j].enabled
      <3>1. /\ shm[o].points[j].name \in Names /\ shm[o].points[j].action \in Actions
            /\ told[o][shm[o].points[j].name].action = shm[o].points[j].action
            /\ told[o][shm[o].points[j].name].enabled = shm[o].points[j].enabled
        BY DEF AgreedOn
      <3>2. CASE j = i
        BY <2>1, <2>2, <2>3, <3>1, <3>2, Zenon
      <3>3. CASE j # i
        <4>1. shm[o].points[j].name # Op(t).name
          BY <2>4, <3>3
        <4> QED
          BY <2>2, <2>3, <3>1, <3>3, <4>1, Zenon
      <3> QED
        BY <3>2, <3>3
    <2> QED
      BY <1>2, <2>2, <2>3, <2>5, AgreedTable, Zenon
  <1> QED
    BY <1>3, <1>4

LEMMA AgreedClearAll ==
    ASSUME Typed, NEW t \in Threads, Where(t), Origin(t), ClearAll(t), NEW o,
           o = mapped[Process(t)],
           AgreedOn(o)
    PROVE  AgreedOn(o)'
  <1>1. /\ shm'[o].count = shm[o].count
        /\ \A j \in 1..shm[o].count :
             /\ shm'[o].points[j].name = shm[o].points[j].name
             /\ shm'[o].points[j].action = shm[o].points[j].action
             /\ \A n \in Names : shm'[o].points[j].enabled = told'[o][n].enabled
        /\ \A n \in Names : told'[o][n].action = told[o][n].action
    BY ClearAllEffect DEF AllCleared
  <1>2. o \in Objects
    BY WorkPlace DEF Works
  <1>3. ASSUME NEW j \in 1..shm[o].count
        PROVE  /\ shm[o].points[j].name \in Names /\ shm[o].points[j].action \in Actions
               /\ told'[o][shm[o].points[j].name].action = shm[o].points[j].action
               /\ told'[o][shm[o].points[j].name].enabled = shm'[o].points[j].enabled
    <2>1. /\ shm[o].points[j].name \in Names /\ shm[o].points[j].action \in Actions
          /\ told[o][shm[o].points[j].name].action = shm[o].points[j].action
      BY DEF AgreedOn
    <2> QED
      BY <1>1, <2>1
  <1>4. \A j \in 1..shm[o].count :
          /\ shm'[o].points[j].name = shm[o].points[j].name
          /\ shm'[o].points[j].action = shm[o].points[j].action
    BY <1>1
  <1>5. /\ shm'[o].count = shm[o].count
        /\ \A n \in Names : told'[o][n].action = told[o][n].action
    BY <1>1
  <1> QED
    BY <1>2, <1>3, <1>4, <1>5, AgreedTable

LEMMA AgreedWorks ==
    ASSUME Typed, NEW t \in Threads, Where(t), Origin(t), Works(t), NEW o, o = mapped[Process(t)],
           AgreedOn(o), Lookup(t)
    PROVE  AgreedOn(o)'
  <1>1. PICK i \in Nat : i = found[t]
    BY DEF Typed, ThreadTypes
  <1>2. o \in Objects
    BY WorkPlace
  <1>3. 1..shm[o].count \subseteq 1..MaxPoints
    BY <1>2, Counts
  <1>a. Same(o) => AgreedOn(o)'
    BY <1>2, AgreedFrame DEF Same
  <1>b. ASSUME NEW k, told' = told, CountChanged(o, i, k)
        PROVE  AgreedOn(o)'
    BY <1>2, <1>3, <1>b, AgreedFrame DEF OtherPoints, CountChanged
  <1>4. CASE SetPoint(t)
    BY <1>4, AgreedSet
  <1>5. CASE SetFrequency(t)
    <2>s. FrequencySet(t, o, i)
      BY <1>1, <1>5, FrequencyEffect
    <2>1. CASE i = 0
      BY <1>1, <1>5, <1>a, <2>1, <2>s DEF FrequencySet
    <2>2. CASE i # 0
      <3>1. /\ told'[o] = told[o] /\ OtherPoints(o, i) /\ shm'[o].count = shm[o].count
            /\ shm'[o].points[i].name = shm[o].points[i].name
            /\ shm'[o].points[i].action = shm[o].points[i].action
            /\ shm'[o].points[i].enabled = shm[o].points[i].enabled
        BY <1>1, <1>5, <2>2, <2>s DEF FrequencySet
      <3> QED
        BY <1>2, <1>3, <3>1, AgreedFrame DEF OtherPoints
    <2> QED
      BY <2>1, <2>2
  <1>6. CASE ClearPoint(t)
    BY <1>6, AgreedClear
  <1>7. CASE ClearAll(t)
    BY <1>7, AgreedClearAll
  <1>8. CASE Execute(t)
    <2>1. PICK k : k = Spent(shm[o].points[i].count)
      OBVIOUS
    <2>2. told' = told /\ (Same(o) \/ CountChanged(o, i, k))
      BY <1>1, <1>8, <2>1, ExecuteEffect DEF Executed
    <2> QED
      BY <1>a, <1>b, <2>2
  <1>9. CASE PutBack(t)
    <2>1. PICK k : k = Restored(shm[o].points[i].count)
      OBVIOUS
    <2>2. told' = told /\ CountChanged(o, i, k)
      BY <1>1, <1>9, <2>1, PutBackEffect
    <2> QED
      BY <1>b, <2>2
  <1>10. CASE StampRecord(t)
    BY <1>2, <1>10, StampEffect, AgreedFrame DEF TableSame, Stamped
  <1>11. CASE WriteRecord(t)
    BY <1>2, <1>11, WriteEffect, AgreedFrame DEF TableSame, Written
  <1> QED
    BY <1>4, <1>5, <1>6, <1>7, <1>8, <1>9, <1>10, <1>11 DEF Works

LEMMA AgreedKept ==
    ASSUME Typed, Placed, Excluded, Agreed, Lookups, NEW t \in Threads,
           Initialise(t) \/ Operate(t) \/ CrashWhileCreating(t)
    PROVE  Agreed'
  <1>1. SUFFICES ASSUME NEW o \in Objects, Sane(o)'
                 PROVE  AgreedOn(o)'
    BY DEF Agreed
  <1>2. ~damaged[o] /\ ~damaged'[o] /\ MemoryStep(t, o) /\ Where(t) /\ Origin(t)
    BY <1>1, DamageStays, MemorySteps DEF Sane, Placed
  <1>3. CASE Same(o)
    <2>1. Sane(o)
      BY <1>1, <1>2, <1>3 DEF Sane, Same
    <2> QED
      BY <1>3, <2>1, AgreedFrame DEF Agreed, Same
  <1>4. CASE Wiped(o)
    <2>1. \A n \in Names : told[o][n].action = None
      <3>1. CASE shm[o].version # "current"
        BY <3>1 DEF Placed, Versions
      <3>2. CASE shm[o].version = "current" /\ shm[o].count = 0
        BY <1>2, <3>2 DEF Agreed, AgreedOn, Sane
      <3> QED
        BY <1>4, <3>1, <3>2 DEF Wiped
    <2> QED
      BY <1>4, <2>1 DEF Wiped, AgreedOn
  <1>5. CASE Works(t) /\ mapped[Process(t)] = o
    <2>1. Sane(o)
      <3>1. o \in Objects /\ o # 0 /\ Process(t) \in Processes
        BY <1>2, <1>5, WorkPlace, Situated DEF Objects
      <3> QED
        BY <1>2, <1>5, <3>1 DEF Sane, Placed, Versions
    <2>2. Lookup(t)
      BY <1>2, <1>5, WorkPlace DEF Lookups
    <2> QED
      BY <1>2, <1>5, <2>1, <2>2, AgreedWorks DEF Agreed
  <1> QED
    BY <1>2, <1>3, <1>4, <1>5 DEF MemoryStep

-----------------------------------------------------------------------------
(* What a call has found.                                                  *)

Informed == {"set", "frequency", "clear", "execute", "put back", "stamp", "record"}

(* Only three steps lead to where something is known of the table.         *)

LEMMA InformedSteps ==
    ASSUME Typed, NEW t \in Threads,
           Initialise(t) \/ Operate(t) \/ CrashWhileCreating(t)
    PROVE  FindPoint(t) \/ Execute(t) \/ StampRecord(t) \/ pc'[t] \notin Informed
  <1>a. ThreadTypes
    BY DEF Typed
  <1> USE <1>a DEF At, Goto, ThreadTypes, Informed
  <1>1. CASE InitMutex(t)
    BY <1>1 DEF InitMutex
  <1>2. CASE OpenShm(t)
    BY <1>2 DEF OpenShm
  <1>3. CASE CreateShm(t)
    BY <1>3 DEF CreateShm
  <1>4. CASE ReopenShm(t)
    BY <1>4 DEF ReopenShm
  <1>5. CASE SizeShm(t)
    BY <1>5 DEF SizeShm
  <1>6. CASE MapShm(t)
    BY <1>6 DEF MapShm
  <1>7. CASE InitFails(t)
    BY <1>7 DEF InitFails, InitReturnsNull, Unattached, Finish
  <1>8. CASE PublishVersion(t)
    BY <1>8 DEF PublishVersion
  <1>9. CASE StoreLock(t)
    BY <1>9 DEF StoreLock
  <1>10. CASE StoreCount(t)
    BY <1>10 DEF StoreCount, Attach
  <1>11. CASE PollUnsized(t)
    BY <1>11 DEF PollUnsized, Die
  <1>12. CASE PollAgain(t)
    BY <1>12 DEF PollAgain
  <1>13. CASE PollTimesOut(t)
    BY <1>13 DEF PollTimesOut, InitReturnsNull, Unattached, Finish
  <1>14. CASE PollFindsVersion(t)
    BY <1>14 DEF PollFindsVersion, Attach
  <1>15. CASE PollFindsOther(t)
    BY <1>15 DEF PollFindsOther
  <1>16. CASE LockToReset(t)
    BY <1>16 DEF LockToReset
  <1>17. CASE Reset(t)
    BY <1>17 DEF Reset
  <1>18. CASE UnlockReset(t)
    BY <1>18 DEF UnlockReset, Attach
  <1>19. CASE Begin(t)
    BY <1>19 DEF Begin
  <1>20. CASE SpinLock(t)
    BY <1>20 DEF SpinLock
  <1>21. CASE FindPoint(t)
    BY <1>21
  <1>22. CASE SetPoint(t)
    BY <1>22 DEF SetPoint, Change
  <1>23. CASE SetFrequency(t)
    BY <1>23 DEF SetFrequency, Change
  <1>24. CASE ClearPoint(t)
    BY <1>24 DEF ClearPoint, Change
  <1>25. CASE ClearAll(t)
    BY <1>25 DEF ClearAll, Change
  <1>26. CASE Execute(t)
    BY <1>26
  <1>27. CASE PutBack(t)
    BY <1>27 DEF PutBack, Change
  <1>28. CASE StampRecord(t)
    BY <1>28
  <1>29. CASE WriteRecord(t)
    BY <1>29 DEF WriteRecord, Change
  <1>30. CASE SpinUnlock(t)
    BY <1>30 DEF SpinUnlock, Finish
  <1>31. CASE Cleanup(t)
    BY <1>31 DEF Cleanup, Finish
  <1>32. CASE VerifyNow(t)
    BY <1>32 DEF VerifyNow, Scan
  <1>33. CASE VerifyTail(t)
    BY <1>33 DEF VerifyTail, Scan
  <1>34. CASE VerifyName(t)
    BY <1>34 DEF VerifyName, Scan, NextRecord, Answer
  <1>35. CASE VerifyTime(t)
    BY <1>35 DEF VerifyTime, Scan, NextRecord, Answer
  <1>36. CASE VerifyReturns(t)
    BY <1>36 DEF VerifyReturns, Scan, Finish
  <1>37. CASE CrashWhileCreating(t)
    BY <1>37 DEF CrashWhileCreating, Die
  <1> QED
    BY <1>1, <1>2, <1>3, <1>4, <1>5, <1>6, <1>7, <1>8, <1>9, <1>10, <1>11, <1>12, <1>13, <1>14,
       <1>15, <1>16, <1>17, <1>18, <1>19, <1>20, <1>21, <1>22, <1>23, <1>24, <1>25, <1>26, <1>27,
       <1>28, <1>29, <1>30, <1>31, <1>32, <1>33, <1>34, <1>35, <1>36, <1>37 DEF Initialise,
       Operate

LEMMA InformedWorks ==
    ASSUME Typed, NEW t \in Threads,
           Initialise(t) \/ Operate(t) \/ CrashWhileCreating(t),
           pc[t] \in Informed
    PROVE  Works(t)
  <1> USE DEF At, Works, Informed, Critical
  <1>1. CASE InitMutex(t)
    BY <1>1 DEF InitMutex
  <1>2. CASE OpenShm(t)
    BY <1>2 DEF OpenShm
  <1>3. CASE CreateShm(t)
    BY <1>3 DEF CreateShm
  <1>4. CASE ReopenShm(t)
    BY <1>4 DEF ReopenShm
  <1>5. CASE SizeShm(t)
    BY <1>5 DEF SizeShm
  <1>6. CASE MapShm(t)
    BY <1>6 DEF MapShm
  <1>7. CASE InitFails(t)
    BY <1>7 DEF InitFails, InitReturnsNull, Unattached, Finish
  <1>8. CASE PublishVersion(t)
    BY <1>8 DEF PublishVersion
  <1>9. CASE StoreLock(t)
    BY <1>9 DEF StoreLock
  <1>10. CASE StoreCount(t)
    BY <1>10 DEF StoreCount, Attach
  <1>11. CASE PollUnsized(t)
    BY <1>11 DEF PollUnsized, Die, ThreadTypes, Typed
  <1>12. CASE PollAgain(t)
    BY <1>12 DEF PollAgain
  <1>13. CASE PollTimesOut(t)
    BY <1>13 DEF PollTimesOut, InitReturnsNull, Unattached, Finish
  <1>14. CASE PollFindsVersion(t)
    BY <1>14 DEF PollFindsVersion, Attach
  <1>15. CASE PollFindsOther(t)
    BY <1>15 DEF PollFindsOther
  <1>16. CASE LockToReset(t)
    BY <1>16 DEF LockToReset
  <1>17. CASE Reset(t)
    BY <1>17 DEF Reset
  <1>18. CASE UnlockReset(t)
    BY <1>18 DEF UnlockReset, Attach
  <1>19. CASE Begin(t)
    BY <1>19 DEF Begin
  <1>20. CASE SpinLock(t)
    BY <1>20 DEF SpinLock
  <1>21. CASE FindPoint(t)
    BY <1>21 DEF FindPoint
  <1>22. CASE SetPoint(t)
    BY <1>22
  <1>23. CASE SetFrequency(t)
    BY <1>23
  <1>24. CASE ClearPoint(t)
    BY <1>24
  <1>25. CASE ClearAll(t)
    BY <1>25
  <1>26. CASE Execute(t)
    BY <1>26
  <1>27. CASE PutBack(t)
    BY <1>27
  <1>28. CASE StampRecord(t)
    BY <1>28
  <1>29. CASE WriteRecord(t)
    BY <1>29
  <1>30. CASE SpinUnlock(t)
    BY <1>30 DEF SpinUnlock, Finish
  <1>31. CASE Cleanup(t)
    BY <1>31 DEF Cleanup, Finish
  <1>32. CASE VerifyNow(t)
    BY <1>32 DEF VerifyNow, Scan
  <1>33. CASE VerifyTail(t)
    BY <1>33 DEF VerifyTail, Scan
  <1>34. CASE VerifyName(t)
    BY <1>34 DEF VerifyName, Scan, NextRecord, Answer
  <1>35. CASE VerifyTime(t)
    BY <1>35 DEF VerifyTime, Scan, NextRecord, Answer
  <1>36. CASE VerifyReturns(t)
    BY <1>36 DEF VerifyReturns, Scan, Finish
  <1>37. CASE CrashWhileCreating(t)
    BY <1>37 DEF CrashWhileCreating, Die, ThreadTypes, Typed
  <1> QED
    BY <1>1, <1>2, <1>3, <1>4, <1>5, <1>6, <1>7, <1>8, <1>9, <1>10, <1>11, <1>12, <1>13, <1>14,
       <1>15, <1>16, <1>17, <1>18, <1>19, <1>20, <1>21, <1>22, <1>23, <1>24, <1>25, <1>26, <1>27,
       <1>28, <1>29, <1>30, <1>31, <1>32, <1>33, <1>34, <1>35, <1>36, <1>37 DEF Initialise,
       Operate

LEMMA LookupFrame ==
    ASSUME Typed, NEW u \in Threads, Lookup(u), NEW o, o = mapped[Process(u)], pc[u] \in Critical,
           pc'[u] = pc[u], mapped'[Process(u)] = o, todo'[u] = todo[u], found'[u] = found[u],
             Same(o)
    PROVE  Lookup(u)'
  <1>1. Registry(u)' = shm'[o] /\ Registry(u) = shm[o] /\ Op(u)' = Op(u)
    BY DEF Registry, Process, Op
  <1> QED
    BY <1>1 DEF Lookup, Same

LEMMA LookupFind ==
    ASSUME Typed, NEW t \in Threads, Where(t), Origin(t), FindPoint(t)
    PROVE  Lookup(t)'
  <1>1. Registry(t) \in ObjectType /\ pc[t] \in Critical
    BY Situated DEF FindPoint, At, Critical
  <1>2. Registry(t)' = Registry(t) /\ Op(t)' = Op(t)
    BY DEF FindPoint, Registry, Op, shared
  <1>3. pc'[t] = Op(t).op /\ Locks(t)
    BY DEF FindPoint, Goto, At, Where, Typed, ThreadTypes
  <1>4. Op(t).op # "clear_all" => found'[t] = IndexOf(Registry(t), Op(t).name)
    BY DEF FindPoint, Typed, ThreadTypes
  <1>5. pc'[t] \notin {"put back", "stamp", "record"}
    BY <1>3 DEF Locks
  <1>6. PICK i : i = IndexOf(Registry(t), Op(t).name)
    OBVIOUS
  <1>7. /\ i \in 0..Registry(t).count
        /\ i = 0 => \A j \in 1..Registry(t).count : Registry(t).points[j].name # Op(t).name
        /\ i # 0 => Registry(t).points[i].name = Op(t).name
    BY <1>1, <1>6, IndexOfFinds
  <1>8. Registry(t).count \in Nat
    BY <1>1, Sizes DEF ObjectType
  <1>9. i # 0 => i \in 1..Registry(t).count
    BY <1>7, <1>8
  <1> QED
    BY <1>2, <1>3, <1>4, <1>5, <1>6, <1>7, <1>9 DEF Lookup

LEMMA LookupOwn ==
    ASSUME Typed, Placed, NEW t \in Threads, Initialise(t) \/ Operate(t) \/ CrashWhileCreating(t),
           pc[t] \in Informed => Lookup(t)
    PROVE  Lookup(t)'
  <1>1. Where(t) /\ Origin(t)
    BY DEF Placed
  <1>2. CASE FindPoint(t)
    BY <1>1, <1>2, LookupFind
  <1>3. CASE Execute(t) \/ StampRecord(t)
    <2>1. PICK o \in Objects : o = mapped[Process(t)]
      BY <1>1, <1>3, WorkPlace DEF Works
    <2>2. Registry(t)' = shm'[o] /\ Registry(t) = shm[o] /\ Op(t)' = Op(t) /\ found' = found
      BY <1>1, <1>3, <2>1, WorksFrame DEF Works, TableFrame, Registry, Process, Op
    <2>3. shm[o].count \in Nat
      BY Counts
    <2>4. CASE StampRecord(t)
      <3>1. shm'[o].count = shm[o].count /\ pc'[t] = "record"
        BY <1>1, <2>1, <2>4, StampEffect DEF TableSame, Stamped
      <3>2. shm[o].count # 0
        BY <2>2, <2>4 DEF Lookup, StampRecord, At, Informed
      <3> QED
        BY <2>2, <3>1, <3>2 DEF Lookup
    <2>5. CASE Execute(t)
      <3>1. PICK i \in Nat : i = found[t]
        BY DEF Typed, ThreadTypes
      <3>2. i # 0 => i \in 1..shm[o].count /\ shm[o].points[i].name = Op(t).name
        BY <2>2, <2>5, <3>1, Zenon DEF Lookup, Execute, At, Informed
      <3>3. \/ pc'[t] = "unlock"
            \/ /\ pc'[t] \in {"stamp", "put back"} /\ i # 0
               /\ shm'[o].count = shm[o].count /\ shm'[o].points[i].name = shm[o].points[i].name
        <4>1. PICK k : k = Spent(shm[o].points[i].count)
          OBVIOUS
        <4>2. \/ pc'[t] = "unlock"
              \/ pc'[t] = "stamp" /\ i # 0 /\ Same(o)
              \/ pc'[t] \in {"stamp", "put back"} /\ i # 0 /\ CountChanged(o, i, k)
          <5>1. Where(t) /\ Origin(t) /\ Execute(t)
            BY <1>1, <2>5
          <5> QED
            BY <5>1, <2>1, <3>1, <4>1, ExecuteEffect DEF Executed
        <4> QED
          BY <4>2 DEF Same, CountChanged
      <3>4. CASE pc'[t] = "unlock"
        BY <3>4 DEF Lookup
      <3>5. CASE /\ pc'[t] \in {"stamp", "put back"} /\ i # 0
                 /\ shm'[o].count = shm[o].count /\ shm'[o].points[i].name = shm[o].points[i].name
        <4>1. i \in 1..shm[o].count
          BY <3>2, <3>5
        <4>2. shm[o].count # 0
          BY <2>3, <4>1
        <4> QED
          BY <2>2, <3>1, <3>2, <3>5, <4>2 DEF Lookup
      <3> QED
        BY <3>3, <3>4, <3>5
    <2> QED
      BY <1>3, <2>4, <2>5
  <1>4. CASE pc'[t] \notin Informed
    BY <1>4 DEF Lookup, Informed
  <1> QED
    BY <1>2, <1>3, <1>4, InformedSteps

LEMMA LookupsKept ==
    ASSUME Typed, Placed, Excluded, Lookups, NEW t \in Threads,
           Initialise(t) \/ Operate(t) \/ CrashWhileCreating(t)
    PROVE  Lookups'
  <1>1. SUFFICES ASSUME NEW u \in Threads, pc'[u] \in Critical, ~damaged'[mapped'[Process(u)]]
                 PROVE  Lookup(u)'
    BY DEF Lookups, Process
  <1>2. Elsewhere(t)
    BY OthersKept DEF Placed
  <1>3. CASE u = t
    <2>1. ASSUME pc[t] \in Informed
          PROVE  Lookup(t)
      <3>1. Works(t)
        BY <2>1, <1>1, <1>3, InformedWorks
      <3>2. mapped'[Process(t)] = mapped[Process(t)] /\ damaged' = damaged
        BY <3>1, WorksFrame DEF Placed, TableFrame
      <3>3. pc[t] \in Critical
        BY <2>1 DEF Informed, Critical
      <3> QED
        BY <1>1, <1>3, <3>2, <3>3 DEF Lookups
    <2> QED
      BY <1>3, <2>1, LookupOwn
  <1>4. CASE u # t
    <2>1. /\ pc'[u] = pc[u] /\ todo'[u] = todo[u] /\ found'[u] = found[u]
          /\ mapped'[Process(u)] = mapped[Process(u)]
      BY <1>1, <1>2, <1>4 DEF Elsewhere, Critical
    <2>2. PICK o : o = mapped[Process(u)]
      OBVIOUS
    <2>3. o \in Objects /\ ~damaged'[o] /\ ~damaged[o] /\ MemoryStep(t, o) /\ Lookup(u)
      <3>1. o \in Objects
        BY <1>1, <2>1, <2>2, Situated DEF Placed
      <3>2. ~damaged'[o] /\ ~damaged[o]
        BY <1>1, <2>1, <2>2, <3>1, DamageStays
      <3> QED
        BY <1>1, <2>1, <2>2, <3>1, <3>2, MemorySteps DEF Lookups
    <2>4. u \in Inside(o)
      BY <1>1, <2>1, <2>2 DEF Inside
    <2>5. CASE Same(o)
      BY <1>1, <2>1, <2>2, <2>3, <2>5, LookupFrame
    <2>6. CASE Wiped(o)
      BY <1>1, <2>1, <2>2, <2>6 DEF Wiped
    <2>7. CASE Works(t) /\ mapped[Process(t)] = o
      <3>1. t \in Inside(o)
        BY <2>7, WorkPlace DEF Inside, Placed
      <3> QED
        BY <1>4, <2>3, <2>4, <3>1 DEF Excluded
    <2> QED
      BY <2>3, <2>5, <2>6, <2>7 DEF MemoryStep
  <1> QED
    BY <1>3, <1>4

-----------------------------------------------------------------------------
(* The budgets.                                                            *)

(* Where nobody else works, a budget is overdrawn by the step's own thread *)
(* or by none.                                                             *)
LEMMA OverdrawnAlone ==
    ASSUME Typed, Placed, Excluded, NEW t \in Threads, Works(t), Elsewhere(t),
           NEW o \in Objects, o = mapped[Process(t)], ~damaged[o], NEW i
    PROVE  /\ Overdrawn(o, i) <=> pc[t] = "put back" /\ found[t] = i
           /\ Overdrawn(o, i)' <=> pc'[t] = "put back" /\ found[t] = i
  <1>1. mapped' = mapped /\ found' = found
    BY WorksFrame DEF Placed, TableFrame
  <1>2. t \in Inside(o)
    BY WorkPlace DEF Inside, Placed
  <1>3. ASSUME NEW u \in Threads, u # t, mapped[Process(u)] = o
        PROVE  pc[u] # "put back" /\ pc'[u] # "put back"
    <2>1. pc[u] \notin Critical
      BY <1>2, <1>3 DEF Excluded, Inside
    <2> QED
      BY <1>3, <2>1 DEF Elsewhere, Critical
  <1> QED
    BY <1>1, <1>3 DEF Overdrawn, Process

(* The steps of a thread that works elsewhere, or not at all, overdraw     *)
(* nothing.                                                                *)
LEMMA OverdrawnElse ==
    ASSUME Typed, Placed, NEW t \in Threads, Initialise(t) \/ Operate(t) \/ CrashWhileCreating(t),
           NEW o, ~(Works(t) /\ mapped[Process(t)] = o), NEW i
    PROVE  Overdrawn(o, i)' <=> Overdrawn(o, i)
  <1>1. Elsewhere(t)
    BY OthersKept DEF Placed
  <1>2. ASSUME NEW u \in Threads, u # t
        PROVE  (pc'[u] = "put back" /\ mapped'[Process(u)] = o /\ found'[u] = i)
                 <=> (pc[u] = "put back" /\ mapped[Process(u)] = o /\ found[u] = i)
    BY <1>1, <1>2 DEF Elsewhere, Critical
  <1>3. ~(pc[t] = "put back" /\ mapped[Process(t)] = o)
    BY InformedWorks DEF Informed
  <1>4. ~(pc'[t] = "put back" /\ mapped'[Process(t)] = o)
    <2>1. SUFFICES ASSUME pc'[t] = "put back"
                   PROVE  mapped'[Process(t)] # o
      OBVIOUS
    <2>2. CASE FindPoint(t)
      BY <2>1, <2>2 DEF FindPoint, Goto, At, Placed, Where, Locks, Typed, ThreadTypes
    <2>3. CASE Execute(t) \/ StampRecord(t)
      BY <2>3, WorksFrame DEF Works, Placed, TableFrame
    <2> QED
      BY <2>1, <2>2, <2>3, InformedSteps DEF Informed
  <1> QED
    BY <1>2, <1>3, <1>4 DEF Overdrawn, Process

(* Points that keep their name and budget, or have none, stay as spent as  *)
(* they were.                                                              *)
LEMMA SpentFrame ==
    ASSUME NEW o \in Objects, SpentOn(o), fired'[o] = fired[o],
           \A i : Overdrawn(o, i)' <=> Overdrawn(o, i),
           \A j \in 1..shm'[o].count : shm'[o].points[j].limit > 0 =>
               /\ j \in 1..shm[o].count
               /\ shm'[o].points[j].name = shm[o].points[j].name
               /\ shm'[o].points[j].limit = shm[o].points[j].limit
               /\ shm'[o].points[j].count = shm[o].points[j].count
    PROVE  SpentOn(o)'
  <1>1. SUFFICES ASSUME NEW j \in 1..shm'[o].count, shm'[o].points[j].limit > 0
                 PROVE  IF Overdrawn(o, j)'
                        THEN shm'[o].points[j].count = Word - 1 /\
                               fired'[o][shm'[o].points[j].name] = shm'[o].points[j].limit
                        ELSE shm'[o].points[j].count + fired'[o][shm'[o].points[j].name]
                               = shm'[o].points[j].limit
    BY DEF SpentOn
  <1>2. /\ j \in 1..shm[o].count
        /\ shm'[o].points[j].name = shm[o].points[j].name
        /\ shm'[o].points[j].limit = shm[o].points[j].limit
        /\ shm'[o].points[j].count = shm[o].points[j].count
    BY <1>1
  <1>3. IF Overdrawn(o, j)
        THEN shm[o].points[j].count = Word - 1 /\
               fired[o][shm[o].points[j].name] = shm[o].points[j].limit
        ELSE shm[o].points[j].count + fired[o][shm[o].points[j].name] = shm[o].points[j].limit
    BY <1>1, <1>2 DEF SpentOn
  <1>4. Overdrawn(o, j)' <=> Overdrawn(o, j)
    OBVIOUS
  <1> QED
    BY <1>2, <1>3, <1>4

(* When the budget of one point changes, the others are as spent as they   *)
(* were if no name of theirs is counted differently.                       *)
LEMMA SpentOne ==
    ASSUME NEW o \in Objects, SpentOn(o), NEW i \in 1..shm[o].count,
           shm'[o].count = shm[o].count,
           \A j \in 1..shm[o].count : j # i =>
               /\ shm'[o].points[j] = shm[o].points[j]
               /\ fired'[o][shm[o].points[j].name] = fired[o][shm[o].points[j].name]
               /\ ~Overdrawn(o, j) /\ ~Overdrawn(o, j)',
           shm'[o].points[i].limit > 0 =>
               IF Overdrawn(o, i)'
               THEN shm'[o].points[i].count = Word - 1 /\
                      fired'[o][shm'[o].points[i].name] = shm'[o].points[i].limit
               ELSE shm'[o].points[i].count + fired'[o][shm'[o].points[i].name]
                      = shm'[o].points[i].limit
    PROVE  SpentOn(o)'
  <1>1. ASSUME NEW j \in 1..shm'[o].count, shm'[o].points[j].limit > 0
        PROVE  IF Overdrawn(o, j)'
               THEN shm'[o].points[j].count = Word - 1 /\
                      fired'[o][shm'[o].points[j].name] = shm'[o].points[j].limit
               ELSE shm'[o].points[j].count + fired'[o][shm'[o].points[j].name]
                      = shm'[o].points[j].limit
    <2>1. CASE j = i
      BY <1>1, <2>1
    <2>2. CASE j # i
      <3>1. /\ shm'[o].points[j] = shm[o].points[j]
            /\ fired'[o][shm[o].points[j].name] = fired[o][shm[o].points[j].name]
            /\ ~Overdrawn(o, j) /\ ~Overdrawn(o, j)'
        BY <1>1, <2>2
      <3>2. shm[o].points[j].count + fired[o][shm[o].points[j].name] = shm[o].points[j].limit
        BY <1>1, <3>1 DEF SpentOn
      <3> QED
        BY <3>1, <3>2
    <2> QED
      BY <2>1, <2>2
  <1> QED
    BY <1>1 DEF SpentOn

(* What a call knows of the point it works on: nobody else bears its name. *)
LEMMA Alone ==
    ASSUME Typed, NEW t \in Threads, Where(t), Origin(t), Works(t),
           pc[t] \in {"frequency", "clear", "execute", "put back"}, Lookup(t),
           NEW o, o = mapped[Process(t)], AgreedOn(o), NEW i \in Nat, i = found[t], i # 0
    PROVE  /\ i \in 1..shm[o].count /\ shm[o].points[i].name = Op(t).name
           /\ \A j \in 1..shm[o].count : j # i => shm[o].points[j].name # Op(t).name
           /\ \A j \in 1..shm[o].count : shm[o].points[j].name \in Names
           /\ \A j \in 1..shm[o].count : j \in 1..MaxPoints
  <1>1. i \in 1..shm[o].count /\ shm[o].points[i].name = Op(t).name
    BY WorkPlace DEF Lookup
  <1>2. \A j \in 1..shm[o].count : j # i => shm[o].points[j].name # Op(t).name
    <2>1. \A j, k \in 1..shm[o].count : shm[o].points[j].name = shm[o].points[k].name => j = k
      BY DEF AgreedOn
    <2> QED
      BY <1>1, <2>1
  <1>3. \A j \in 1..shm[o].count : shm[o].points[j].name \in Names
    BY DEF AgreedOn
  <1>4. \A j \in 1..shm[o].count : j \in 1..MaxPoints
    BY WorkPlace, Counts
  <1> QED
    BY <1>1, <1>2, <1>3, <1>4

LEMMA SpentWorks ==
    ASSUME Typed, MemoryType', Placed, Excluded, NEW t \in Threads, Works(t), Elsewhere(t),
           NEW o, o \in Objects, o = mapped[Process(t)], ~damaged[o],
           SpentOn(o), AgreedOn(o), Lookup(t)
    PROVE  SpentOn(o)'
  <1>a. Where(t) /\ Origin(t)
    BY DEF Placed
  <1>b. PICK i \in Nat : i = found[t]
    BY DEF Typed, ThreadTypes
  <1>c. shm[o].count \in Nat /\ 1..shm[o].count \subseteq 1..MaxPoints
    BY Counts
  <1>d. ASSUME pc[t] # "put back", pc'[t] # "put back"
        PROVE  \A j : ~Overdrawn(o, j) /\ ~Overdrawn(o, j)'
    BY <1>d, OverdrawnAlone
  <1>e. ASSUME pc[t] # "put back", pc'[t] # "put back", Same(o)
        PROVE  SpentOn(o)'
    <2>1. \A j : Overdrawn(o, j)' <=> Overdrawn(o, j)
      BY <1>d, <1>e
    <2> QED
      BY <1>e, <2>1, SpentFrame DEF Same
  <1>1. CASE SetPoint(t)
    <2>1. PICK k \in Nat : k = Target(t)
      BY <1>a, <1>1, WorkPlace, TargetType DEF Works
    <2>s. PointSet(t, o, k)
      BY <1>a, <1>1, <2>1, SetEffect
    <2>2. pc[t] = "set" /\ pc'[t] = "unlock"
      BY <1>a, <1>1, <2>1, <2>s DEF SetPoint, At, PointSet
    <2>3. CASE k = 0
      <3>1. Same(o)
        BY <1>a, <1>1, <2>1, <2>3, <2>s DEF PointSet
      <3> QED
        BY <1>e, <2>2, <3>1
    <2>4. CASE k # 0
      <3>1. /\ OtherPoints(o, k) /\ fired'[o] = fired[o]
            /\ shm'[o].count = IF found[t] # 0 THEN shm[o].count ELSE shm[o].count + 1
            /\ found[t] # 0 =>
                 /\ shm'[o].points[k].name = shm[o].points[k].name
                 /\ shm'[o].points[k].limit = shm[o].points[k].limit
                 /\ shm'[o].points[k].count = shm[o].points[k].count
            /\ found[t] = 0 => shm'[o].points[k].limit = 0
        BY <1>a, <1>1, <2>1, <2>4, <2>s DEF PointSet
      <3>2. \A j : Overdrawn(o, j)' <=> Overdrawn(o, j)
        BY <1>d, <2>2
      <3>3. /\ found[t] # 0 => k = found[t]
            /\ found[t] = 0 => k = shm[o].count + 1
        BY <1>a, <1>1, <2>1, <2>4, WorkPlace, TargetType DEF Works
      <3>4. shm'[o].count \in Nat /\ 1..shm'[o].count \subseteq 1..MaxPoints
        BY Sizes DEF MemoryType, ObjectType
      <3>5. ASSUME NEW j \in 1..shm'[o].count, shm'[o].points[j].limit > 0
            PROVE  /\ j \in 1..shm[o].count
                   /\ shm'[o].points[j].name = shm[o].points[j].name
                   /\ shm'[o].points[j].limit = shm[o].points[j].limit
                   /\ shm'[o].points[j].count = shm[o].points[j].count
        <4>1. found[t] = 0 => j # k
          BY <3>1, <3>5
        <4>2. j \in 1..shm[o].count
          BY <1>c, <3>1, <3>3, <4>1
        <4>3. j # k => shm'[o].points[j] = shm[o].points[j]
          BY <3>1, <3>4 DEF OtherPoints
        <4> QED
          BY <3>1, <4>1, <4>2, <4>3
      <3> QED
        BY <3>1, <3>2, <3>5, SpentFrame
    <2> QED
      BY <2>3, <2>4
  <1>2. CASE SetFrequency(t)
    <2>s. FrequencySet(t, o, i)
      BY <1>a, <1>b, <1>2, FrequencyEffect
    <2>1. pc[t] = "frequency" /\ pc'[t] = "unlock"
      BY <1>a, <1>b, <1>2, <2>s DEF SetFrequency, At, FrequencySet
    <2>2. CASE i = 0
      <3>1. Same(o)
        BY <1>b, <2>2, <2>s DEF FrequencySet
      <3> QED
        BY <1>e, <2>1, <3>1
    <2>3. CASE i # 0
      <3>1. /\ i \in 1..shm[o].count /\ shm[o].points[i].name = Op(t).name
            /\ \A j \in 1..shm[o].count : j # i => shm[o].points[j].name # Op(t).name
            /\ \A j \in 1..shm[o].count : shm[o].points[j].name \in Names
        BY <1>a, <1>b, <2>1, <2>3, Alone
      <3>2. /\ OtherPoints(o, i) /\ shm'[o].count = shm[o].count
            /\ shm'[o].points[i].name = shm[o].points[i].name
            /\ shm'[o].points[i].limit > 0 => shm'[o].points[i].count = shm'[o].points[i].limit
            /\ \A n \in Names : fired'[o][n] = IF n = Op(t).name THEN 0 ELSE fired[o][n]
        BY <1>a, <1>b, <1>2, <2>3, <2>s DEF FrequencySet
      <3>3. \A j \in 1..shm[o].count : j # i =>
               /\ shm'[o].points[j] = shm[o].points[j]
               /\ fired'[o][shm[o].points[j].name] = fired[o][shm[o].points[j].name]
               /\ ~Overdrawn(o, j) /\ ~Overdrawn(o, j)'
        BY <1>c, <1>d, <2>1, <3>1, <3>2 DEF OtherPoints
      <3>4. shm'[o].points[i].limit > 0 =>
              /\ ~Overdrawn(o, i)'
              /\ shm'[o].points[i].count + fired'[o][shm'[o].points[i].name]
                   = shm'[o].points[i].limit
        <4>1. shm'[o].points[i] \in PointType
          BY <1>c, <3>1 DEF MemoryType, ObjectType
        <4>2. shm'[o].points[i].limit \in Int
          BY <4>1, Sizes DEF PointType
        <4>3. fired'[o][shm'[o].points[i].name] = 0
          BY <3>1, <3>2
        <4>4. ~Overdrawn(o, i)'
          BY <1>d, <2>1
        <4>5. shm'[o].points[i].limit + 0 = shm'[o].points[i].limit
          BY <4>2
        <4> QED
          BY <3>2, <4>3, <4>4, <4>5
      <3>5. shm'[o].points[i].limit > 0 =>
              IF Overdrawn(o, i)'
              THEN /\ shm'[o].points[i].count = Word - 1
                   /\ fired'[o][shm'[o].points[i].name] = shm'[o].points[i].limit
              ELSE shm'[o].points[i].count + fired'[o][shm'[o].points[i].name]
                     = shm'[o].points[i].limit
        BY <3>4
      <3>6. i \in 1..shm[o].count /\ shm'[o].count = shm[o].count
        BY <3>1, <3>2
      <3> QED
        BY <3>3, <3>5, <3>6, SpentOne, Zenon
    <2> QED
      BY <2>2, <2>3
  <1>3. CASE ClearPoint(t)
    <2>s. PointCleared(t, o, i)
      BY <1>a, <1>b, <1>3, ClearEffect
    <2>1. pc[t] = "clear" /\ pc'[t] = "unlock"
      BY <1>a, <1>b, <1>3, <2>s DEF ClearPoint, At, PointCleared
    <2>2. CASE i = 0
      <3>1. Same(o)
        BY <1>b, <2>2, <2>s DEF PointCleared
      <3> QED
        BY <1>e, <2>1, <3>1
    <2>3. CASE i # 0
      <3>1. /\ OtherPoints(o, i) /\ shm'[o].count = shm[o].count /\ fired'[o] = fired[o]
            /\ shm'[o].points[i].name = shm[o].points[i].name
            /\ shm'[o].points[i].limit = shm[o].points[i].limit
            /\ shm'[o].points[i].count = shm[o].points[i].count
        BY <1>a, <1>b, <1>3, <2>3, <2>s DEF PointCleared
      <3>2. \A j : Overdrawn(o, j)' <=> Overdrawn(o, j)
        BY <1>d, <2>1
      <3> QED
        BY <1>c, <3>1, <3>2, SpentFrame DEF OtherPoints
    <2> QED
      BY <2>2, <2>3
  <1>4. CASE ClearAll(t)
    <2>1. /\ pc'[t] = "unlock" /\ shm'[o].count = shm[o].count
          /\ \A j \in 1..shm[o].count :
               /\ shm'[o].points[j].name = shm[o].points[j].name
               /\ shm'[o].points[j].limit = shm[o].points[j].limit
               /\ shm'[o].points[j].count = shm[o].points[j].limit
          /\ \A n \in Names : fired'[o][n] = 0
      BY <1>a, <1>4, ClearAllEffect DEF AllCleared
    <2>2. pc[t] = "clear_all"
      BY <1>4 DEF ClearAll, At
    <2>3. ASSUME NEW j \in 1..shm'[o].count
          PROVE  ~Overdrawn(o, j)' /\ shm'[o].points[j].count + fired'[o][shm'[o].points[j].name] = shm'[o].points[j].limit
      <3>1. shm'[o].points[j].name \in Names
        BY <2>1 DEF AgreedOn
      <3>2. shm[o].points[j] \in PointType
        BY <1>c, <2>1, Counts
      <3>3. shm[o].points[j].limit \in Int
        BY <3>2, Sizes DEF PointType
      <3>4. shm[o].points[j].limit + 0 = shm[o].points[j].limit
        BY <3>3
      <3> QED
        BY <1>d, <2>1, <2>2, <3>1, <3>4
    <2> QED
      BY <2>3 DEF SpentOn
  <1>5. CASE Execute(t)
    <2>1. Executed(t, o, i)
      BY <1>a, <1>b, <1>5, ExecuteEffect
    <2> DEFINE b == shm[o].points[i]
    <2>2. pc[t] = "execute"
      BY <1>5 DEF Execute, At
    <2>3. CASE Same(o) /\ pc'[t] \in {"unlock", "stamp"}
      BY <1>e, <2>2, <2>3
    <2>4. CASE /\ i # 0 /\ b.limit > 0 /\ CountChanged(o, i, Spent(b.count))
               /\ \/ b.count > 0 /\ pc'[t] = "stamp" /\ FiredOnce(o, Op(t).name)
                  \/ ~(b.count > 0) /\ pc'[t] = "put back" /\ fired'[o] = fired[o]
      <3>a. PICK k : k = Spent(b.count)
        OBVIOUS
      <3>b. \/ b.count > 0 /\ pc'[t] = "stamp" /\ FiredOnce(o, Op(t).name)
            \/ ~(b.count > 0) /\ pc'[t] = "put back" /\ fired'[o] = fired[o]
        BY <2>4
      <3>1. /\ i \in 1..shm[o].count /\ b.name = Op(t).name
            /\ \A j \in 1..shm[o].count : j # i => shm[o].points[j].name # Op(t).name
            /\ \A j \in 1..shm[o].count : shm[o].points[j].name \in Names
        <4>1. i # 0
          BY <2>4
        <4> QED
          BY <1>a, <1>b, <2>2, <4>1, Alone
      <3>2. \A j : /\ ~Overdrawn(o, j)
                   /\ Overdrawn(o, j)' <=> pc'[t] = "put back" /\ i = j
        BY <1>b, <2>2, OverdrawnAlone
      <3>3. /\ shm'[o].count = shm[o].count /\ OtherPoints(o, i)
            /\ shm'[o].points[i].name = b.name /\ shm'[o].points[i].limit = b.limit
            /\ shm'[o].points[i].count = k
        BY <2>4, <3>a DEF CountChanged
      <3>4. /\ b \in PointType /\ b.name \in Names /\ fired[o][b.name] \in Nat
        BY <1>c, <3>1, Counts DEF Typed, HistoryTypes
      <3>5. b.count \in 0..(Word - 1) /\ b.limit \in Nat
        <4>1. b.count \in 0..(Word - 1) /\ b.limit \in 0..(Word - 1)
          BY <3>4, Zenon DEF PointType
        <4> QED
          BY <4>1, Sizes
      <3>6. b.count + fired[o][b.name] = b.limit
        <4>1. ~Overdrawn(o, i) /\ i \in 1..shm[o].count /\ b.limit > 0
          BY <2>4, <3>1, <3>2
        <4> QED
          BY <4>1 DEF SpentOn
      <3>7. CASE b.count > 0
        <4>1. k = b.count - 1
          <5>1. b.count - 1 \in 0..(Word - 1)
            BY <3>5, <3>7, Sizes
          <5>2. (b.count - 1) % Word = b.count - 1
            <6>1. Word \in Nat \ {0}
              BY Sizes
            <6> QED
              BY <5>1, <6>1, Wrapping, Zenon
          <5> QED
            BY <3>a, <5>2 DEF Spent
        <4>2. fired'[o][b.name] = fired[o][b.name] + 1
          <5>1. FiredOnce(o, Op(t).name)
            BY <3>b, <3>7
          <5> QED
            BY <3>1, <3>4, <5>1 DEF FiredOnce
        <4> HIDE DEF b
        <4>3. k + fired'[o][b.name] = b.limit
          BY <3>4, <3>5, <3>6, <4>1, <4>2
        <4>4. \A j \in 1..shm[o].count : j # i =>
                 /\ shm'[o].points[j] = shm[o].points[j]
                 /\ fired'[o][shm[o].points[j].name] = fired[o][shm[o].points[j].name]
                 /\ ~Overdrawn(o, j) /\ ~Overdrawn(o, j)'
          BY <1>c, <3>b, <3>1, <3>2, <3>3, <3>7 DEF OtherPoints, FiredOnce
        <4>5. ~Overdrawn(o, i)'
          BY <3>b, <3>2, <3>7
        <4>6. shm'[o].points[i].count + fired'[o][shm'[o].points[i].name]
                = shm'[o].points[i].limit
          BY <3>3, <4>3 DEF b
        <4> QED
          BY <3>1, <3>3, <4>4, <4>5, <4>6, SpentOne
      <3>8. CASE ~(b.count > 0)
        <4>1. b.count = 0
          BY <3>5, <3>8
        <4>2. k = Word - 1
          <5>1. (-1) % Word = Word - 1
            <6>1. Word \in Nat \ {0}
              BY Sizes
            <6> QED
              BY <6>1, Wrapping, Zenon
          <5>2. 0 - 1 = -1
            OBVIOUS
          <5> QED
            BY <3>a, <4>1, <5>1, <5>2 DEF Spent
        <4>3. fired'[o] = fired[o] /\ pc'[t] = "put back"
          BY <3>b, <3>8
        <4>4. fired[o][b.name] = b.limit
          BY <3>4, <3>6, <4>1
        <4>5. \A j \in 1..shm[o].count : j # i =>
                 /\ shm'[o].points[j] = shm[o].points[j]
                 /\ fired'[o][shm[o].points[j].name] = fired[o][shm[o].points[j].name]
                 /\ ~Overdrawn(o, j) /\ ~Overdrawn(o, j)'
          BY <1>c, <3>2, <3>3, <4>3 DEF OtherPoints
        <4>6. Overdrawn(o, i)'
          BY <3>2, <4>3
        <4>7. shm'[o].points[i].count = Word - 1 /\
                fired'[o][shm'[o].points[i].name] = shm'[o].points[i].limit
          BY <3>3, <4>2, <4>3, <4>4
        <4> QED
          BY <3>1, <3>3, <4>5, <4>6, <4>7, SpentOne, Zenon
      <3> QED
        BY <3>7, <3>8
    <2> QED
      BY <2>1, <2>3, <2>4 DEF Executed
  <1>6. CASE PutBack(t)
    <2> DEFINE b == shm[o].points[i]
    <2>1. PICK k : k = Restored(b.count)
      OBVIOUS
    <2>2. pc[t] = "put back"
      BY <1>6 DEF PutBack, At
    <2>3. i # 0 /\ fired' = fired /\ pc'[t] = "unlock" /\ CountChanged(o, i, k)
      BY <1>a, <1>b, <1>6, <2>1, PutBackEffect
    <2>4. i \in 1..shm[o].count
      BY <1>a, <1>b, <2>2, <2>3, Alone
    <2>5. \A j : /\ Overdrawn(o, j) <=> i = j
                 /\ ~Overdrawn(o, j)'
      BY <1>b, <2>2, <2>3, OverdrawnAlone
    <2>6. /\ shm'[o].count = shm[o].count /\ OtherPoints(o, i)
          /\ shm'[o].points[i].name = b.name /\ shm'[o].points[i].limit = b.limit
          /\ shm'[o].points[i].count = k
      BY <2>3 DEF CountChanged
    <2>7. ASSUME b.limit > 0
          PROVE  k + fired[o][b.name] = b.limit
      <3>1. b.count = Word - 1 /\ fired[o][b.name] = b.limit
        BY <2>4, <2>5, <2>7 DEF SpentOn
      <3>2. k = 0
        <4>1. Word \in Word..(2 * Word - 1) /\ Word % Word = Word - Word
          BY Sizes, Wrapping
        <4>2. b.count + 1 = Word
          BY <3>1, Sizes
        <4> QED
          BY <2>1, <4>1, <4>2, Sizes DEF Restored
      <3>3. b.limit \in Int
        <4>1. b \in PointType
          BY <1>c, <2>4, Counts
        <4> QED
          BY <4>1, Sizes DEF PointType
      <3> QED
        BY <3>1, <3>2, <3>3
    <2>8. \A j \in 1..shm[o].count : j # i =>
             /\ shm'[o].points[j] = shm[o].points[j]
             /\ fired'[o][shm[o].points[j].name] = fired[o][shm[o].points[j].name]
             /\ ~Overdrawn(o, j) /\ ~Overdrawn(o, j)'
      BY <1>c, <2>3, <2>5, <2>6 DEF OtherPoints
    <2> QED
      BY <2>3, <2>4, <2>5, <2>6, <2>7, <2>8, SpentOne
  <1>7. CASE StampRecord(t) \/ WriteRecord(t)
    <2>1. TableSame(o) /\ pc'[t] # "put back"
      <3>1. CASE StampRecord(t)
        BY <1>a, <3>1, StampEffect DEF Stamped
      <3>2. CASE WriteRecord(t)
        BY <1>a, <3>2, WriteEffect DEF Written
      <3> QED
        BY <1>7, <3>1, <3>2
    <2>2. pc[t] # "put back"
      BY <1>7 DEF StampRecord, WriteRecord, At
    <2>3. \A j : Overdrawn(o, j)' <=> Overdrawn(o, j)
      BY <1>d, <2>1, <2>2
    <2> QED
      BY <2>1, <2>3, SpentFrame DEF TableSame
  <1> QED
    BY <1>1, <1>2, <1>3, <1>4, <1>5, <1>6, <1>7 DEF Works

LEMMA SpendingsKept ==
    ASSUME Typed, MemoryType', Placed, Excluded, Agreed, Lookups, Spendings, NEW t \in Threads,
           Initialise(t) \/ Operate(t) \/ CrashWhileCreating(t)
    PROVE  Spendings'
  <1>1. SUFFICES ASSUME NEW o \in Objects, Sane(o)'
                 PROVE  SpentOn(o)'
    BY DEF Spendings
  <1>2. /\ ~damaged[o] /\ ~damaged'[o] /\ MemoryStep(t, o) /\ Where(t) /\ Origin(t)
        /\ Elsewhere(t)
    BY <1>1, DamageStays, MemorySteps, OthersKept DEF Sane, Placed
  <1>3. CASE Works(t) /\ mapped[Process(t)] = o
    <2>1. Sane(o)
      <3>1. o # 0 /\ Process(t) \in Processes
        BY <1>2, <1>3, WorkPlace, Situated DEF Objects
      <3> QED
        BY <1>2, <1>3, <3>1 DEF Sane, Placed, Versions
    <2>2. Lookup(t)
      BY <1>2, <1>3, WorkPlace DEF Lookups
    <2> QED
      BY <1>2, <1>3, <2>1, <2>2, SpentWorks DEF Agreed, Spendings
  <1>4. CASE ~(Works(t) /\ mapped[Process(t)] = o)
    <2>1. \A i : Overdrawn(o, i)' <=> Overdrawn(o, i)
      BY <1>4, OverdrawnElse
    <2>2. CASE Same(o)
      <3>1. Sane(o)
        BY <1>1, <1>2, <2>2 DEF Sane, Same
      <3> QED
        BY <2>1, <2>2, <3>1, SpentFrame DEF Spendings, Same
    <2>3. CASE Wiped(o)
      BY <2>3 DEF Wiped, SpentOn
    <2> QED
      BY <1>2, <1>4, <2>2, <2>3 DEF MemoryStep
  <1> QED
    BY <1>3, <1>4

-----------------------------------------------------------------------------
(* The ring.                                                               *)

(* As long as nobody else works in the object, it is the step's own thread *)
(* that is between the two stores of a record, or nobody.                  *)
LEMMA HalfAlone ==
    ASSUME Typed, Placed, Excluded, NEW t \in Threads, Works(t), Elsewhere(t),
           NEW o, o \in Objects, o = mapped[Process(t)], ~damaged[o]
    PROVE  /\ \A u \in Half(o) : u = t /\ pc[t] = "record"
           /\ \A u \in Half(o)' : u = t /\ pc'[t] = "record"
           /\ pc[t] = "record" => t \in Half(o)
           /\ pc'[t] = "record" => t \in Half(o)'
           /\ Op(t)' = Op(t)
  <1>1. mapped' = mapped /\ todo' = todo
    BY WorksFrame DEF Placed, TableFrame
  <1>2. t \in Inside(o)
    BY WorkPlace DEF Inside, Placed
  <1>3. ASSUME NEW u \in Threads, u # t, mapped[Process(u)] = o
        PROVE  pc[u] # "record" /\ pc'[u] # "record"
    <2>1. pc[u] \notin Critical
      BY <1>2, <1>3 DEF Excluded, Inside
    <2> QED
      BY <1>3, <2>1 DEF Elsewhere, Critical
  <1> QED
    BY <1>1, <1>3 DEF Half, Process, Op

LEMMA HalfElse ==
    ASSUME Typed, Placed, NEW t \in Threads, Initialise(t) \/ Operate(t) \/ CrashWhileCreating(t),
           NEW o, ~(Works(t) /\ mapped[Process(t)] = o)
    PROVE  /\ Half(o)' = Half(o) /\ t \notin Half(o)
           /\ \A u \in Half(o) : Op(u)' = Op(u)
  <1>1. Elsewhere(t)
    BY OthersKept DEF Placed
  <1>2. ASSUME NEW u \in Threads, u # t
        PROVE  /\ (pc'[u] = "record" /\ mapped'[Process(u)] = o)
                    <=> (pc[u] = "record" /\ mapped[Process(u)] = o)
               /\ Op(u)' = Op(u)
    BY <1>1, <1>2 DEF Elsewhere, Critical, Op
  <1>3. ~(pc[t] = "record" /\ mapped[Process(t)] = o)
    BY InformedWorks DEF Informed
  <1>4. ~(pc'[t] = "record" /\ mapped'[Process(t)] = o)
    <2>1. SUFFICES ASSUME pc'[t] = "record"
                   PROVE  mapped'[Process(t)] # o
      OBVIOUS
    <2>2. CASE FindPoint(t)
      BY <2>1, <2>2 DEF FindPoint, Goto, At, Placed, Where, Locks, Typed, ThreadTypes
    <2>3. CASE Execute(t) \/ StampRecord(t)
      BY <2>3, WorksFrame DEF Works, Placed, TableFrame
    <2> QED
      BY <2>1, <2>2, <2>3, InformedSteps DEF Informed
  <1> QED
    BY <1>2, <1>3, <1>4 DEF Half, Process

LEMMA RecordedFrame ==
    ASSUME NEW o, RecordedIn(o), shm'[o].ring = shm[o].ring, shm'[o].tail = shm[o].tail,
           fires'[o] = fires[o], Half(o)' = Half(o), \A u \in Half(o) : Op(u)' = Op(u),
           shm'[o].count = 0 => shm[o].count = 0
    PROVE  RecordedIn(o)'
  BY DEF RecordedIn

(* The calls that leave the ring alone do not empty the table.             *)
LEMMA RingWorks ==
    ASSUME Typed, NEW t \in Threads, Where(t), Origin(t), NEW o, o = mapped[Process(t)], Works(t)
    PROVE  \/ StampRecord(t) \/ WriteRecord(t)
           \/ /\ RingSame(o) \/ Same(o)
              /\ pc[t] # "record" /\ pc'[t] # "record"
              /\ shm'[o].count = 0 => shm[o].count = 0
  <1>1. PICK i \in Nat : i = found[t]
    BY DEF Typed, ThreadTypes
  <1>2. shm[o].count \in Nat
    BY WorkPlace, Counts
  <1>3. CASE SetPoint(t)
    <2>1. PICK k \in Nat : k = Target(t)
      BY WorkPlace, TargetType
    <2>s. PointSet(t, o, k)
      BY <1>3, <2>1, SetEffect
    <2>2. pc[t] = "set" /\ pc'[t] = "unlock"
      BY <1>3, <2>1, <2>s DEF SetPoint, At, PointSet
    <2>3. CASE k = 0
      <3>1. Same(o)
        BY <1>3, <2>1, <2>3, <2>s DEF PointSet
      <3> QED
        BY <2>2, <3>1 DEF Same
    <2>4. CASE k # 0
      <3>1. RingSame(o) /\ shm'[o].count = IF found[t] # 0 THEN shm[o].count ELSE shm[o].count + 1
        BY <1>3, <2>1, <2>4, <2>s DEF PointSet
      <3>2. shm'[o].count = 0 => shm[o].count = 0
        BY <1>2, <3>1
      <3> QED
        BY <2>2, <3>1, <3>2
    <2> QED
      BY <2>3, <2>4
  <1>4. CASE SetFrequency(t)
    <2>s. FrequencySet(t, o, i)
      BY <1>1, <1>4, FrequencyEffect
    <2>1. pc[t] = "frequency" /\ pc'[t] = "unlock"
      BY <1>1, <1>4, <2>s DEF SetFrequency, At, FrequencySet
    <2>2. CASE i = 0
      <3>1. Same(o)
        BY <1>1, <1>4, <2>2, <2>s DEF FrequencySet
      <3> QED
        BY <2>1, <3>1 DEF Same
    <2>3. CASE i # 0
      <3>1. RingSame(o) /\ shm'[o].count = shm[o].count
        BY <1>1, <1>4, <2>3, <2>s DEF FrequencySet
      <3> QED
        BY <2>1, <3>1
    <2> QED
      BY <2>2, <2>3
  <1>5. CASE ClearPoint(t)
    <2>s. PointCleared(t, o, i)
      BY <1>1, <1>5, ClearEffect
    <2>1. pc[t] = "clear" /\ pc'[t] = "unlock"
      BY <1>1, <1>5, <2>s DEF ClearPoint, At, PointCleared
    <2>2. CASE i = 0
      <3>1. Same(o)
        BY <1>1, <1>5, <2>2, <2>s DEF PointCleared
      <3> QED
        BY <2>1, <3>1 DEF Same
    <2>3. CASE i # 0
      <3>1. RingSame(o) /\ shm'[o].count = shm[o].count
        BY <1>1, <1>5, <2>3, <2>s DEF PointCleared
      <3> QED
        BY <2>1, <3>1
    <2> QED
      BY <2>2, <2>3
  <1>6. CASE ClearAll(t)
    <2>1. RingSame(o) /\ shm'[o].count = shm[o].count /\ pc'[t] = "unlock"
      BY <1>6, ClearAllEffect DEF AllCleared
    <2> QED
      BY <1>6, <2>1 DEF ClearAll, At
  <1>7. CASE Execute(t)
    <2>1. RingSame(o) /\ Executed(t, o, i)
      BY <1>1, <1>7, ExecuteEffect
    <2>2. shm'[o].count = shm[o].count /\ pc'[t] \in {"unlock", "stamp", "put back"}
      BY <2>1 DEF Executed, Same, CountChanged
    <2> QED
      BY <1>7, <2>1, <2>2 DEF Execute, At
  <1>8. CASE PutBack(t)
    <2>1. PICK k : k = Restored(shm[o].points[i].count)
      OBVIOUS
    <2>2. RingSame(o) /\ pc'[t] = "unlock" /\ CountChanged(o, i, k)
      BY <1>1, <1>8, <2>1, PutBackEffect
    <2> QED
      BY <1>8, <2>2 DEF PutBack, At, CountChanged
  <1> QED
    BY <1>3, <1>4, <1>5, <1>6, <1>7, <1>8 DEF Works

LEMMA RecordedWorks ==
    ASSUME Typed, Placed, Excluded, NEW t \in Threads, Works(t), Elsewhere(t),
           NEW o, o \in Objects, o = mapped[Process(t)], ~damaged[o], RecordedIn(o), Lookup(t)
    PROVE  RecordedIn(o)'
  <1>a. Where(t) /\ Origin(t)
    BY DEF Placed
  <1>b. Registry(t) = shm[o]
    BY DEF Registry
  <1>1. CASE StampRecord(t)
    <2>1. /\ TableSame(o) /\ shm'[o].tail = shm[o].tail /\ pc'[t] = "record"
          /\ \A s \in Slots : /\ shm'[o].ring[s].name = shm[o].ring[s].name
                              /\ s # shm[o].tail => shm'[o].ring[s].time = shm[o].ring[s].time
          /\ shm'[o].ring[shm[o].tail].time = clock
          /\ fires'[o] = fires[o] \cup {<<Op(t).name, clock>>}
      BY <1>a, <1>1, StampEffect DEF Stamped
    <2>2. pc[t] = "stamp"
      BY <1>1 DEF StampRecord, At
    <2>3. Half(o) = {} /\ (\A u \in Half(o)' : u = t) /\ t \in Half(o)' /\ Op(t)' = Op(t)
      BY <2>1, <2>2, HalfAlone
    <2>4. shm[o].count # 0
      BY <1>b, <2>2 DEF Lookup
    <2>5. \A s \in Slots : shm'[o].ring[s].name # None /\ (s # shm'[o].tail \/ Half(o)' = {}) =>
            <<shm'[o].ring[s].name, shm'[o].ring[s].time>> \in fires'[o]
      BY <2>1, <2>3 DEF RecordedIn
    <2>6. \A u \in Half(o)' : <<Op(u)'.name, shm'[o].ring[shm'[o].tail].time>> \in fires'[o]
      BY <2>1, <2>3
    <2>7. shm'[o].count # 0
      BY <2>1, <2>4 DEF TableSame
    <2> QED
      BY <2>5, <2>6, <2>7 DEF RecordedIn
  <1>2. CASE WriteRecord(t)
    <2>1. /\ TableSame(o) /\ fires' = fires /\ pc'[t] = "unlock"
          /\ \A s \in Slots : /\ shm'[o].ring[s].time = shm[o].ring[s].time
                              /\ s # shm[o].tail => shm'[o].ring[s].name = shm[o].ring[s].name
          /\ shm'[o].ring[shm[o].tail].name = Op(t).name
      BY <1>a, <1>2, WriteEffect DEF Written
    <2>2. pc[t] = "record"
      BY <1>2 DEF WriteRecord, At
    <2>3. Half(o)' = {} /\ t \in Half(o)
      BY <2>1, <2>2, HalfAlone
    <2>4. shm[o].count # 0
      BY <1>b, <2>2 DEF Lookup
    <2>5. \A s \in Slots : shm'[o].ring[s].name # None =>
            <<shm'[o].ring[s].name, shm'[o].ring[s].time>> \in fires'[o]
      <3>1. <<Op(t).name, shm[o].ring[shm[o].tail].time>> \in fires[o]
        BY <2>3 DEF RecordedIn
      <3>2. \A s \in Slots : s # shm[o].tail /\ shm[o].ring[s].name # None =>
              <<shm[o].ring[s].name, shm[o].ring[s].time>> \in fires[o]
        BY DEF RecordedIn
      <3> QED
        BY <2>1, <3>1, <3>2, Zenon
    <2>6. shm'[o].count # 0
      BY <2>1, <2>4 DEF TableSame
    <2> QED
      BY <2>3, <2>5, <2>6 DEF RecordedIn
  <1>3. CASE /\ RingSame(o) \/ Same(o)
             /\ pc[t] # "record" /\ pc'[t] # "record"
             /\ shm'[o].count = 0 => shm[o].count = 0
    <2>1. Half(o) = {} /\ Half(o)' = {}
      BY <1>3, HalfAlone
    <2> QED
      BY <1>3, <2>1, RecordedFrame DEF RingSame, Same
  <1> QED
    BY <1>a, <1>1, <1>2, <1>3, RingWorks

LEMMA RecordedKept ==
    ASSUME Typed, Placed, Excluded, Lookups, Recorded, NEW t \in Threads,
           Initialise(t) \/ Operate(t) \/ CrashWhileCreating(t)
    PROVE  Recorded'
  <1>1. SUFFICES ASSUME NEW o \in Objects, Sane(o)'
                 PROVE  RecordedIn(o)'
    BY DEF Recorded
  <1>2. /\ ~damaged[o] /\ ~damaged'[o] /\ MemoryStep(t, o) /\ Where(t) /\ Origin(t)
        /\ Elsewhere(t)
    BY <1>1, DamageStays, MemorySteps, OthersKept DEF Sane, Placed
  <1>3. CASE Works(t) /\ mapped[Process(t)] = o
    <2>1. Sane(o)
      <3>1. o # 0 /\ Process(t) \in Processes
        BY <1>2, <1>3, WorkPlace, Situated DEF Objects
      <3> QED
        BY <1>2, <1>3, <3>1 DEF Sane, Placed, Versions
    <2>2. Lookup(t)
      BY <1>2, <1>3, WorkPlace DEF Lookups
    <2> QED
      BY <1>2, <1>3, <2>1, <2>2, RecordedWorks DEF Recorded
  <1>4. CASE ~(Works(t) /\ mapped[Process(t)] = o)
    <2>1. Half(o)' = Half(o) /\ \A u \in Half(o) : Op(u)' = Op(u)
      BY <1>4, HalfElse
    <2>2. CASE Same(o)
      <3>1. Sane(o)
        BY <1>1, <1>2, <2>2 DEF Sane, Same
      <3> QED
        BY <2>1, <2>2, <3>1, RecordedFrame DEF Recorded, Same
    <2>3. CASE Wiped(o)
      <3>1. Half(o)' = {}
        BY <2>1, <2>3 DEF Wiped, Half, Critical
      <3> QED
        BY <2>3, <3>1 DEF Wiped, RecordedIn
    <2> QED
      BY <1>2, <1>4, <2>2, <2>3 DEF MemoryStep
  <1> QED
    BY <1>3, <1>4

-----------------------------------------------------------------------------
(* The readers.                                                            *)

(* Only the calls of a verify lead to where something has been read, and   *)
(* only a record changes what others have seen rewritten.                  *)
ReaderStep(t) ==
    /\ pc'[t] \notin Reading \/ VerifyNow(t) \/ VerifyTail(t) \/ VerifyName(t) \/ VerifyTime(t)
    /\ StampRecord(t) \/ \A u \in Threads : u # t => touched'[u] = touched[u]

LEMMA ReaderSteps ==
    ASSUME Typed, Placed, NEW t \in Threads,
           Initialise(t) \/ Operate(t) \/ CrashWhileCreating(t)
    PROVE  ReaderStep(t)
  <1>a. ThreadTypes /\ HistoryTypes
    BY DEF Typed
  <1> USE <1>a DEF At, Goto, ThreadTypes, HistoryTypes, Reading, ReaderStep, shared, history
  <1>1. CASE InitMutex(t)
    BY <1>1 DEF InitMutex
  <1>2. CASE OpenShm(t)
    BY <1>2 DEF OpenShm
  <1>3. CASE CreateShm(t)
    BY <1>3 DEF CreateShm
  <1>4. CASE ReopenShm(t)
    BY <1>4 DEF ReopenShm
  <1>5. CASE SizeShm(t)
    BY <1>5 DEF SizeShm
  <1>6. CASE MapShm(t)
    BY <1>6 DEF MapShm
  <1>7. CASE InitFails(t)
    BY <1>7 DEF InitFails, InitReturnsNull, Unattached, Finish
  <1>8. CASE PublishVersion(t)
    BY <1>8 DEF PublishVersion
  <1>9. CASE StoreLock(t)
    BY <1>9 DEF StoreLock
  <1>10. CASE StoreCount(t)
    BY <1>10 DEF StoreCount, Attach
  <1>11. CASE PollUnsized(t)
    BY <1>11 DEF PollUnsized, Die
  <1>12. CASE PollAgain(t)
    BY <1>12 DEF PollAgain
  <1>13. CASE PollTimesOut(t)
    BY <1>13 DEF PollTimesOut, InitReturnsNull, Unattached, Finish
  <1>14. CASE PollFindsVersion(t)
    BY <1>14 DEF PollFindsVersion, Attach
  <1>15. CASE PollFindsOther(t)
    BY <1>15 DEF PollFindsOther
  <1>16. CASE LockToReset(t)
    BY <1>16 DEF LockToReset
  <1>17. CASE Reset(t)
    BY <1>17 DEF Reset
  <1>18. CASE UnlockReset(t)
    BY <1>18 DEF UnlockReset, Attach
  <1>19. CASE Begin(t)
    BY <1>19 DEF Begin
  <1>20. CASE SpinLock(t)
    BY <1>20 DEF SpinLock
  <1>21. CASE FindPoint(t)
    BY <1>21 DEF FindPoint, Placed, Where, Locks
  <1>22. CASE SetPoint(t)
    BY <1>22 DEF SetPoint, Change
  <1>23. CASE SetFrequency(t)
    BY <1>23 DEF SetFrequency, Change
  <1>24. CASE ClearPoint(t)
    BY <1>24 DEF ClearPoint, Change
  <1>25. CASE ClearAll(t)
    BY <1>25 DEF ClearAll, Change
  <1>26. CASE Execute(t)
    BY <1>26 DEF Execute, Change
  <1>27. CASE PutBack(t)
    BY <1>27 DEF PutBack, Change
  <1>28. CASE StampRecord(t)
    BY <1>28 DEF StampRecord, Change
  <1>29. CASE WriteRecord(t)
    BY <1>29 DEF WriteRecord, Change
  <1>30. CASE SpinUnlock(t)
    BY <1>30 DEF SpinUnlock, Finish
  <1>31. CASE Cleanup(t)
    BY <1>31 DEF Cleanup, Finish
  <1>32. CASE VerifyNow(t)
    BY <1>32 DEF VerifyNow, Scan
  <1>33. CASE VerifyTail(t)
    BY <1>33 DEF VerifyTail, Scan
  <1>34. CASE VerifyName(t)
    BY <1>34 DEF VerifyName, Scan, NextRecord, Answer
  <1>35. CASE VerifyTime(t)
    BY <1>35 DEF VerifyTime, Scan, NextRecord, Answer
  <1>36. CASE VerifyReturns(t)
    BY <1>36 DEF VerifyReturns, Scan, Finish
  <1>37. CASE CrashWhileCreating(t)
    BY <1>37 DEF CrashWhileCreating, Die
  <1> QED
    BY <1>1, <1>2, <1>3, <1>4, <1>5, <1>6, <1>7, <1>8, <1>9, <1>10, <1>11, <1>12, <1>13, <1>14,
       <1>15, <1>16, <1>17, <1>18, <1>19, <1>20, <1>21, <1>22, <1>23, <1>24, <1>25, <1>26, <1>27,
       <1>28, <1>29, <1>30, <1>31, <1>32, <1>33, <1>34, <1>35, <1>36, <1>37 DEF Initialise,
       Operate

LEMMA ReadFrame ==
    ASSUME Typed, NEW u \in Threads, ReadSoFar(u), NEW o, o = mapped[Process(u)],
           pc'[u] = pc[u], scan'[u] = scan[u], todo'[u] = todo[u], mapped'[Process(u)] = o,
           touched[u] \subseteq touched'[u], fires[o] \subseteq fires'[o],
           pc[u] \in {"name", "time", "answered"} =>
             (Half(o)' # {} => shm'[o].tail \in touched'[u]),
           pc[u] \in {"time"} => \A s \in Slots : s \notin touched'[u] =>
               (shm[o].ring[s].name = Op(u).name => shm'[o].ring[s].name = Op(u).name),
           pc[u] \in {"name", "time", "answered"} => \A s \in Slots : s \notin touched'[u] =>
               (/\ shm'[o].ring[s].name = Op(u).name
                /\ Recent(scan[u].now, shm'[o].ring[s].time, Op(u).arg)
                => /\ shm[o].ring[s].name = Op(u).name
                   /\ Recent(scan[u].now, shm[o].ring[s].time, Op(u).arg))
    PROVE  ReadSoFar(u)'
  <1>1. Registry(u) = shm[o] /\ Registry(u)' = shm'[o] /\ Op(u)' = Op(u) /\ SlotAt(u)' = SlotAt(u)
    BY DEF Registry, Op, SlotAt, Process
  <1>2. Process(u)' = Process(u) /\ Half(mapped[Process(u)])' = Half(o)'
    BY DEF Process, Half
  <1>3. scan[u].next \in Slots /\ scan[u].tail \in Slots /\ SlotAt(u) \in Slots
    BY SlotAtType DEF Typed, ScanTypes, ScanType
  <1>4. \A j \in 0..(scan[u].next - 1) : SlotBack(scan[u].tail, j) \in Slots
    <2>1. \A j \in 0..(scan[u].next - 1) : j \in Slots
      BY <1>3, Sizes DEF Slots
    <2> QED
      BY <1>3, <2>1, SlotBackValue
  <1>5. ASSUME pc[u] \in {"name", "time", "answered"}, NEW s \in Slots, s \notin touched'[u],
               ~Matches(u, s)
        PROVE  ~Matches(u, s)'
    BY <1>1, <1>5 DEF Matches
  <1>6. pc'[u] \in {"name", "time", "answered"} => (Half(o)' # {} => shm'[o].tail \in touched'[u])
    OBVIOUS
  <1>7. ASSUME pc'[u] \in {"name", "time"}, NEW j \in 0..(scan'[u].next - 1),
               SlotBack(scan'[u].tail, j) \notin touched'[u]
        PROVE  ~Matches(u, SlotBack(scan[u].tail, j))'
    <2>1. ~Matches(u, SlotBack(scan[u].tail, j))
      BY <1>7 DEF ReadSoFar
    <2>2. PICK s \in Slots : s = SlotBack(scan[u].tail, j)
      BY <1>4
    <2>3. ~Matches(u, s)'
      BY <1>5, <1>7, <2>1, <2>2
    <2> QED
      BY <2>2, <2>3
  <1> QED
    BY <1>1, <1>2, <1>3, <1>5, <1>6, <1>7 DEF ReadSoFar

(* A step of another thread.                                               *)
LEMMA ReadElse ==
    ASSUME Typed, Placed, Excluded, Lookups, Recorded, NEW t \in Threads,
           Initialise(t) \/ Operate(t) \/ CrashWhileCreating(t),
           NEW u \in Threads, u # t, pc[u] \in Reading, ReadSoFar(u),
           NEW o, o \in Objects, o = mapped[Process(u)], ~damaged[o], ~damaged'[o]
    PROVE  ReadSoFar(u)'
  <1>a. /\ pc'[u] = pc[u] /\ scan'[u] = scan[u] /\ todo'[u] = todo[u] /\ mapped'[Process(u)] = o
        /\ Where(t) /\ Origin(t) /\ Elsewhere(t)
    BY OthersKept DEF Placed, Elsewhere
  <1>b. ReaderStep(t)
    BY ReaderSteps
  <1>c. Registry(u) = shm[o]
    BY DEF Registry
  <1>d. pc[u] \in {"name", "time", "answered"} => (Half(o) # {} => shm[o].tail \in touched[u])
    BY <1>c DEF ReadSoFar
  <1>1. CASE ~(Works(t) /\ mapped[Process(t)] = o)
    <2>1. touched'[u] = touched[u]
      <3>1. CASE StampRecord(t)
        <4>1. mapped[Process(t)] # mapped[Process(u)]
          BY <1>1, <3>1 DEF Works
        <4> QED
          BY <3>1, <4>1 DEF StampRecord, Process
      <3> QED
        BY <1>b, <3>1 DEF ReaderStep
    <2>2. Half(o)' = Half(o)
      BY <1>1, HalfElse
    <2>3. CASE Same(o)
      BY <1>a, <1>d, <2>1, <2>2, <2>3, ReadFrame DEF Same
    <2>4. CASE Wiped(o)
      <3>1. Half(o)' = {} /\ fires'[o] = fires[o] /\ \A s \in Slots : shm'[o].ring[s].name = None
        BY <2>2, <2>4 DEF Wiped, Half, Critical
      <3>2. shm[o].version = "current"
        <4>1. o # 0 /\ Process(u) \in Processes
          BY Situated DEF Placed, Objects
        <4> QED
          BY <4>1 DEF Placed, Versions
      <3>3. \A s \in Slots : shm[o].ring[s].name = None
        BY <2>4, <3>2 DEF Wiped, Sane, Recorded, RecordedIn
      <3>4. Op(u).name \in Names
        BY Situated DEF Placed, Reading, CallType
      <3>5. Op(u).name # None
        BY <3>4, NoneAssumption
      <3>6. touched[u] \subseteq touched'[u] /\ fires[o] \subseteq fires'[o]
        BY <2>1, <3>1
      <3> QED
        BY <1>a, <3>1, <3>3, <3>5, <3>6, ReadFrame
    <2> QED
      BY <1>1, <2>3, <2>4, MemorySteps DEF MemoryStep
  <1>2. CASE Works(t) /\ mapped[Process(t)] = o
    <2>1. CASE StampRecord(t)
      <3>s. Stamped(t, o)
        BY <1>a, <1>2, <2>1, StampEffect
      <3>1. /\ shm'[o].tail = shm[o].tail
            /\ \A s \in Slots : /\ shm'[o].ring[s].name = shm[o].ring[s].name
                                /\ s # shm[o].tail => shm'[o].ring[s].time = shm[o].ring[s].time
            /\ fires'[o] = fires[o] \cup {<<Op(t).name, clock>>}
            /\ touched'[u] = touched[u] \cup {shm[o].tail}
        BY <1>a, <3>s DEF Stamped
      <3>2. touched[u] \subseteq touched'[u] /\ fires[o] \subseteq fires'[o] /\
              shm'[o].tail \in touched'[u]
        BY <3>1
      <3>3. \A s \in Slots : s \notin touched'[u] =>
              shm'[o].ring[s].name = shm[o].ring[s].name /\
                shm'[o].ring[s].time = shm[o].ring[s].time
        BY <3>1
      <3> QED
        BY <1>a, <3>2, <3>3, ReadFrame
    <2>2. CASE WriteRecord(t)
      <3>1. /\ \A s \in Slots : /\ shm'[o].ring[s].time = shm[o].ring[s].time
                                /\ s # shm[o].tail => shm'[o].ring[s].name = shm[o].ring[s].name
            /\ fires' = fires /\ touched' = touched /\ pc'[t] = "unlock"
        BY <1>a, <1>2, <2>2, WriteEffect DEF Written
      <3>2. pc[t] = "record"
        BY <2>2 DEF WriteRecord, At
      <3>3. Half(o) # {} /\ Half(o)' = {}
        BY <1>a, <1>2, <3>1, <3>2, HalfAlone
      <3>4. pc[u] \in {"name", "time", "answered"} => \A s \in Slots : s \notin touched'[u] =>
              shm'[o].ring[s].name = shm[o].ring[s].name /\
                shm'[o].ring[s].time = shm[o].ring[s].time
        BY <1>d, <3>1, <3>3
      <3>5. touched[u] \subseteq touched'[u] /\ fires[o] \subseteq fires'[o]
        BY <3>1
      <3> QED
        BY <1>a, <3>3, <3>4, <3>5, ReadFrame
    <2>3. CASE /\ RingSame(o) \/ Same(o)
               /\ pc[t] # "record" /\ pc'[t] # "record"
               /\ ~StampRecord(t)
      <3>1. Half(o)' = {}
        BY <1>a, <1>2, <2>3, HalfAlone
      <3>2. touched'[u] = touched[u]
        BY <1>b, <2>3 DEF ReaderStep
      <3>3. shm'[o].ring = shm[o].ring /\ fires'[o] = fires[o]
        BY <2>3 DEF RingSame, Same
      <3> QED
        BY <1>a, <3>1, <3>2, <3>3, ReadFrame
    <2> QED
      BY <1>a, <1>2, <2>1, <2>2, <2>3, RingWorks
  <1> QED
    BY <1>1, <1>2

(* A scan changes its own state only.                                      *)
LEMMA ScanFrame ==
    ASSUME Typed, Placed, NEW t \in Threads, VerifyName(t) \/ VerifyTime(t), NEW o,
           o = mapped[Process(t)]
    PROVE  /\ shm' = shm /\ mapped' = mapped /\ fires' = fires /\ touched' = touched /\
                todo' = todo
           /\ Op(t)' = Op(t) /\ Registry(t)' = Registry(t) /\ Registry(t) = shm[o]
           /\ Half(mapped[Process(t)])' = Half(o) /\ pc[t] \in {"name", "time"}
  <1>1. /\ shm' = shm /\ mapped' = mapped /\ fires' = fires /\ touched' = touched /\ todo' = todo
        /\ pc[t] \in {"name", "time"}
    BY DEF VerifyName, VerifyTime, NextRecord, Answer, Scan, shared, At
  <1>2. ~Works(t)
    BY <1>1, Zenon DEF Works, SetPoint, SetFrequency, ClearPoint, ClearAll,
                Execute, PutBack, StampRecord, WriteRecord, At
  <1>3. Half(o)' = Half(o)
    BY <1>2, HalfElse DEF Operate
  <1>4. Half(mapped[Process(t)])' = Half(o)'
    BY <1>1 DEF Half, Process
  <1> QED
    BY <1>1, <1>3, <1>4 DEF Op, Registry, Process

(* Every slot is some way back from the tail.                              *)
LEMMA AllSlots ==
    ASSUME NEW tail \in Slots, NEW s \in Slots
    PROVE  \E j \in Slots : s = SlotBack(tail, j)
  <1>1. tail \in Nat /\ s \in Nat /\ tail < RingSize /\ s < RingSize
    BY Sizes DEF Slots
  <1>2. CASE s < tail
    <2>1. PICK j \in Slots : j = tail - 1 - s
      BY <1>1, <1>2, Sizes DEF Slots
    <2>2. j < tail /\ tail - 1 - j = s
      BY <1>1, <1>2, <2>1
    <2> QED
      BY <2>2, SlotBackValue
  <1>3. CASE ~(s < tail)
    <2>1. PICK j \in Slots : j = tail - 1 - s + RingSize
      BY <1>1, <1>3, Sizes DEF Slots
    <2>2. ~(j < tail) /\ tail - 1 - j + RingSize = s
      BY <1>1, <1>3, <2>1, Sizes
    <2> QED
      BY <2>2, SlotBackValue
  <1> QED
    BY <1>2, <1>3

(* A record further: the slot passed does not match, and when it was the   *)
(* last one no slot does.                                                  *)
LEMMA ReadNext ==
    ASSUME Typed, Placed, NEW t \in Threads, VerifyName(t) \/ VerifyTime(t), ReadSoFar(t),
           NextRecord(t),
           SlotAt(t) \notin touched[t] => ~Matches(t, SlotAt(t))
    PROVE  ReadSoFar(t)'
  <1>1. PICK o : o = mapped[Process(t)]
    OBVIOUS
  <1>2. /\ shm' = shm /\ mapped' = mapped /\ fires' = fires /\ touched' = touched /\ todo' = todo
        /\ Op(t)' = Op(t) /\ Registry(t)' = Registry(t) /\ Registry(t) = shm[o]
        /\ Half(mapped[Process(t)])' = Half(o) /\ pc[t] \in {"name", "time"}
    BY <1>1, ScanFrame
  <1>3. Half(o) # {} => shm[o].tail \in touched[t]
    BY <1>1, <1>2 DEF ReadSoFar
  <1>4. /\ scan[t] \in ScanType /\ scan[t].tail \in Slots /\ scan[t].next \in Nat
        /\ scan[t].next < RingSize /\ SlotAt(t) = SlotBack(scan[t].tail, scan[t].next)
    BY SlotAtType, Sizes DEF Typed, ScanTypes, ScanType, Slots
  <1>5. ASSUME NEW j \in 0..scan[t].next, SlotBack(scan[t].tail, j) \notin touched[t]
        PROVE  ~Matches(t, SlotBack(scan[t].tail, j))
    <2>1. j = scan[t].next \/ j \in 0..(scan[t].next - 1)
      BY <1>4
    <2>2. CASE j = scan[t].next
      BY <1>4, <1>5, <2>2
    <2>3. CASE j \in 0..(scan[t].next - 1)
      BY <1>2, <1>5, <2>3 DEF ReadSoFar
    <2> QED
      BY <2>1, <2>2, <2>3
  <1>6. CASE MoreSlots(scan[t].next)
    <2>1. pc'[t] = "name" /\ scan'[t] = [scan[t] EXCEPT !.next = scan[t].next + 1]
      BY <1>6 DEF NextRecord, Scan, Goto, Typed, ThreadTypes, ScanTypes
    <2>2. scan'[t].tail = scan[t].tail /\ scan'[t].now = scan[t].now /\
            scan'[t].next = scan[t].next + 1
      BY <1>4, <2>1 DEF ScanType
    <2>3. ASSUME NEW j \in 0..(scan'[t].next - 1), SlotBack(scan'[t].tail, j) \notin touched'[t]
          PROVE  ~Matches(t, SlotBack(scan[t].tail, j))'
      <3>1. j \in 0..scan[t].next
        BY <1>4, <2>2
      <3>2. ~Matches(t, SlotBack(scan[t].tail, j))
        BY <1>2, <1>5, <2>2, <2>3, <3>1
      <3> QED
        BY <1>2, <2>2, <3>2 DEF Matches
    <2> QED
      BY <1>2, <1>3, <2>1, <2>2, <2>3 DEF ReadSoFar
  <1>7. CASE ~MoreSlots(scan[t].next)
    <2>1. /\ pc'[t] = "answered"
          /\ scan'[t] = [scan[t] EXCEPT !.answer = "NOT_TRIGGERED", !.slot = SlotAt(t)]
      BY <1>7 DEF NextRecord, Answer, Scan, Goto, Typed, ThreadTypes, ScanTypes
    <2>2. scan'[t].answer = "NOT_TRIGGERED" /\ scan'[t].now = scan[t].now
      BY <1>4, <2>1 DEF ScanType
    <2>3. scan[t].next = RingSize - 1
      BY <1>4, <1>7, Sizes DEF MoreSlots
    <2>4. ASSUME NEW s \in Slots, s \notin touched'[t]
          PROVE  ~Matches(t, s)'
      <3>1. PICK j \in Slots : s = SlotBack(scan[t].tail, j)
        BY <1>4, AllSlots
      <3>2. j \in 0..scan[t].next
        BY <2>3, <3>1, Sizes DEF Slots
      <3>3. ~Matches(t, s)
        BY <1>2, <1>5, <2>4, <3>1, <3>2
      <3> QED
        BY <1>2, <2>2, <3>3 DEF Matches
    <2> QED
      BY <1>2, <1>3, <2>1, <2>2, <2>4 DEF ReadSoFar
  <1> QED
    BY <1>6, <1>7

LEMMA ReadOwn ==
    ASSUME Typed, Placed, NEW t \in Threads, Operate(t), pc[t] \in Reading => ReadSoFar(t),
           NEW o, o \in Objects, o = mapped[Process(t)], RecordedIn(o),
           VerifyNow(t) \/ VerifyTail(t) \/ VerifyName(t) \/ VerifyTime(t)
    PROVE  ReadSoFar(t)'
  <1>a. Where(t) /\ Origin(t) /\ ThreadTypes /\ ScanTypes /\ HistoryTypes
    BY DEF Placed, Typed
  <1>1. CASE VerifyNow(t)
    <2>1. pc'[t] = "tail"
      BY <1>a, <1>1 DEF VerifyNow, Goto, ThreadTypes
    <2> QED
      BY <2>1 DEF ReadSoFar
  <1>2. CASE VerifyTail(t)
    <2>1. /\ pc[t] = "tail" /\ pc'[t] = "name" /\ shm' = shm /\ mapped' = mapped
          /\ scan'[t] = [scan[t] EXCEPT !.tail = Registry(t).tail]
          /\ touched'[t] = HalfWritten(o)
      BY <1>a, <1>2 DEF VerifyTail, Scan, Goto, At, shared, ThreadTypes, ScanTypes, HistoryTypes
    <2>2. scan'[t].next = 0
      <3>1. scan[t].next = 0
        BY <1>a, <2>1 DEF Where
      <3> QED
        BY <1>a, <2>1, <3>1 DEF ScanTypes, ScanType
    <2>3. ~Works(t)
      BY <2>1 DEF Works, SetPoint, SetFrequency, ClearPoint, ClearAll,
                  Execute, PutBack, StampRecord, WriteRecord, At
    <2>4. Half(o)' = Half(o)
      BY <2>3, HalfElse
    <2>5. Half(mapped[Process(t)])' = Half(o)'
      BY <2>1 DEF Half, Process
    <2>6. Half(o) # {} => shm[o].tail \in HalfWritten(o)
      BY DEF Half, HalfWritten, At, Process
    <2>7. Registry(t)'.tail = shm[o].tail
      BY <2>1 DEF Registry, Process
    <2>8. \A j \in 0..(scan'[t].next - 1) : FALSE
      BY <2>2
    <2> QED
      BY <2>1, <2>4, <2>5, <2>6, <2>7, <2>8 DEF ReadSoFar
  <1>3. CASE VerifyName(t)
    <2>1. /\ shm' = shm /\ mapped' = mapped /\ fires' = fires /\ touched' = touched /\
               todo' = todo
          /\ Op(t)' = Op(t) /\ Registry(t)' = Registry(t) /\ Registry(t) = shm[o]
          /\ Half(mapped[Process(t)])' = Half(o) /\ pc[t] = "name" /\ ReadSoFar(t)
      BY <1>3, ScanFrame DEF VerifyName, At, Reading
    <2>2. CASE Registry(t).ring[SlotAt(t)].name = Op(t).name
      <3>1. pc'[t] = "time" /\ scan'[t] = scan[t]
        BY <1>a, <1>3, <2>2 DEF VerifyName, Scan, Goto, ThreadTypes, ScanTypes
      <3>2. SlotAt(t)' = SlotAt(t)
        BY <3>1 DEF SlotAt
      <3>3. ASSUME NEW j \in 0..(scan'[t].next - 1), SlotBack(scan'[t].tail, j) \notin touched'[t]
            PROVE  ~Matches(t, SlotBack(scan[t].tail, j))'
        <4>1. ~Matches(t, SlotBack(scan[t].tail, j))
          BY <2>1, <3>1, <3>3 DEF ReadSoFar
        <4> QED
          BY <2>1, <3>1, <4>1 DEF Matches
      <3>4. Half(o) # {} => shm[o].tail \in touched[t]
        BY <2>1 DEF ReadSoFar
      <3> QED
        BY <2>1, <2>2, <3>1, <3>2, <3>3, <3>4 DEF ReadSoFar
    <2>3. CASE Registry(t).ring[SlotAt(t)].name # Op(t).name
      <3>1. NextRecord(t) /\ ~Matches(t, SlotAt(t))
        BY <1>3, <2>3 DEF VerifyName, Matches
      <3> QED
        BY <1>3, <2>1, <3>1, ReadNext
    <2> QED
      BY <2>2, <2>3
  <1>4. CASE VerifyTime(t)
    <2>1. /\ shm' = shm /\ mapped' = mapped /\ fires' = fires /\ touched' = touched /\
               todo' = todo
          /\ Op(t)' = Op(t) /\ Registry(t)' = Registry(t) /\ Registry(t) = shm[o]
          /\ Half(mapped[Process(t)])' = Half(o) /\ pc[t] = "time" /\ ReadSoFar(t)
      BY <1>4, ScanFrame DEF VerifyTime, At, Reading
    <2>2. CASE Recent(scan[t].now, Registry(t).ring[SlotAt(t)].time, Op(t).arg)
      <3>1. /\ pc'[t] = "answered"
            /\ scan'[t] = [scan[t] EXCEPT !.answer = "TRIGGERED", !.slot = SlotAt(t)]
        BY <1>a, <1>4, <2>2 DEF VerifyTime, Answer, Scan, Goto, ThreadTypes, ScanTypes
      <3>2. scan'[t].answer = "TRIGGERED" /\ scan'[t].slot = SlotAt(t) /\
              scan'[t].now = scan[t].now
        BY <1>a, <3>1 DEF ScanTypes, ScanType
      <3>3. Half(o) # {} => shm[o].tail \in touched[t]
        BY <2>1 DEF ReadSoFar
      <3>4. ASSUME SlotAt(t) \notin touched[t]
            PROVE  <<Op(t).name, shm[o].ring[SlotAt(t)].time>> \in fires[o]
        <4>1. shm[o].ring[SlotAt(t)].name = Op(t).name
          BY <2>1, <3>4 DEF ReadSoFar
        <4>2. Op(t).name # None
          BY <1>a, <2>1, Situated, NoneAssumption DEF CallType
        <4>3. SlotAt(t) \in Slots
          BY SlotAtType
        <4> QED
          BY <3>3, <3>4, <4>1, <4>2, <4>3 DEF RecordedIn
      <3>5. \/ scan'[t].slot \in touched'[t]
            \/ \E f \in fires'[o] : f[1] = Op(t)'.name /\ Recent(scan'[t].now, f[2], Op(t)'.arg)
        <4>1. CASE SlotAt(t) \in touched[t]
          BY <2>1, <3>2, <4>1
        <4>2. CASE SlotAt(t) \notin touched[t]
          <5>1. PICK f \in fires[o] : f = <<Op(t).name, shm[o].ring[SlotAt(t)].time>>
            BY <3>4, <4>2
          <5>2. f[1] = Op(t).name /\ Recent(scan[t].now, f[2], Op(t).arg)
            BY <2>1, <2>2, <5>1
          <5> QED
            BY <2>1, <3>2, <5>2
        <4> QED
          BY <4>1, <4>2
      <3>6. mapped'[Process(t)'] = o
        BY <2>1 DEF Process
      <3> QED
        BY <2>1, <3>1, <3>2, <3>3, <3>5, <3>6 DEF ReadSoFar
    <2>3. CASE ~Recent(scan[t].now, Registry(t).ring[SlotAt(t)].time, Op(t).arg)
      <3>1. NextRecord(t) /\ ~Matches(t, SlotAt(t))
        BY <1>4, <2>3 DEF VerifyTime, Matches
      <3> QED
        BY <1>4, <2>1, <3>1, ReadNext
    <2> QED
      BY <2>2, <2>3
  <1> QED
    BY <1>1, <1>2, <1>3, <1>4

LEMMA ReadersKept ==
    ASSUME Typed, Placed, Placed', Excluded, Lookups, Recorded, Readers, NEW t \in Threads,
           Initialise(t) \/ Operate(t) \/ CrashWhileCreating(t)
    PROVE  Readers'
  <1>1. SUFFICES ASSUME NEW u \in Threads, pc'[u] \in Reading, ~damaged'[mapped'[Process(u)]]
                 PROVE  ReadSoFar(u)'
    BY DEF Readers, Process
  <1>2. Elsewhere(t) /\ ReaderStep(t)
    BY OthersKept, ReaderSteps DEF Placed
  <1>3. CASE u # t
    <2>1. pc'[u] = pc[u] /\ mapped'[Process(u)] = mapped[Process(u)]
      BY <1>1, <1>2, <1>3 DEF Elsewhere, Reading
    <2>2. PICK o : o = mapped[Process(u)]
      OBVIOUS
    <2>3. o \in Objects
      BY <1>1, <2>1, <2>2, Situated DEF Placed
    <2>4. ~damaged'[o] /\ ~damaged[o]
      BY <1>1, <2>1, <2>2, <2>3, DamageStays
    <2>5. ReadSoFar(u)
      BY <1>1, <2>1, <2>2, <2>4 DEF Readers
    <2> QED
      BY <1>1, <1>3, <2>1, <2>2, <2>3, <2>4, <2>5, ReadElse
  <1>4. CASE u = t
    <2>1. VerifyNow(t) \/ VerifyTail(t) \/ VerifyName(t) \/ VerifyTime(t)
      BY <1>1, <1>2, <1>4 DEF ReaderStep
    <2>2. Operate(t) /\ mapped' = mapped /\ damaged' = damaged /\ pc[t] \in Reading \cup {"enter"}
      BY <2>1 DEF Operate, VerifyNow, VerifyTail, VerifyName, VerifyTime, NextRecord, Answer,
         Scan, At, Reading
    <2>3. PICK o : o = mapped[Process(t)]
      OBVIOUS
    <2>4. o \in Objects /\ o # 0 /\ Process(t) \in Processes
      BY <2>2, <2>3, Situated DEF Placed, Objects
    <2>5. ~damaged[o]
      BY <1>1, <1>4, <2>2, <2>3
    <2>6. RecordedIn(o)
      BY <2>3, <2>4, <2>5 DEF Recorded, Sane, Placed, Versions
    <2>7. pc[t] \in Reading => ReadSoFar(t)
      BY <2>3, <2>5 DEF Readers
    <2> QED
      BY <1>4, <2>1, <2>2, <2>3, <2>4, <2>6, <2>7, ReadOwn
  <1> QED
    BY <1>3, <1>4

-----------------------------------------------------------------------------
(* The invariant is inductive.                                             *)

LEMMA TodoStep ==
    ASSUME Typed, NEW t \in Threads,
           Initialise(t) \/ Operate(t) \/ CrashWhileCreating(t)
    PROVE  todo' = todo \/ (pc[t] \notin {"idle", "dead"} /\ Finish(t))
  <1> USE DEF At
  <1>1. CASE InitMutex(t)
    BY <1>1 DEF InitMutex
  <1>2. CASE OpenShm(t)
    BY <1>2 DEF OpenShm
  <1>3. CASE CreateShm(t)
    BY <1>3 DEF CreateShm
  <1>4. CASE ReopenShm(t)
    BY <1>4 DEF ReopenShm
  <1>5. CASE SizeShm(t)
    BY <1>5 DEF SizeShm
  <1>6. CASE MapShm(t)
    BY <1>6 DEF MapShm
  <1>7. CASE InitFails(t)
    BY <1>7 DEF InitFails, InitReturnsNull, Unattached, Finish
  <1>8. CASE PublishVersion(t)
    BY <1>8 DEF PublishVersion
  <1>9. CASE StoreLock(t)
    BY <1>9 DEF StoreLock
  <1>10. CASE StoreCount(t)
    BY <1>10 DEF StoreCount, Attach
  <1>11. CASE PollUnsized(t)
    BY <1>11 DEF PollUnsized, Die
  <1>12. CASE PollAgain(t)
    BY <1>12 DEF PollAgain
  <1>13. CASE PollTimesOut(t)
    BY <1>13 DEF PollTimesOut, InitReturnsNull, Unattached, Finish
  <1>14. CASE PollFindsVersion(t)
    BY <1>14 DEF PollFindsVersion, Attach
  <1>15. CASE PollFindsOther(t)
    BY <1>15 DEF PollFindsOther
  <1>16. CASE LockToReset(t)
    BY <1>16 DEF LockToReset
  <1>17. CASE Reset(t)
    BY <1>17 DEF Reset
  <1>18. CASE UnlockReset(t)
    BY <1>18 DEF UnlockReset, Attach
  <1>19. CASE Begin(t)
    BY <1>19 DEF Begin
  <1>20. CASE SpinLock(t)
    BY <1>20 DEF SpinLock
  <1>21. CASE FindPoint(t)
    BY <1>21 DEF FindPoint
  <1>22. CASE SetPoint(t)
    BY <1>22 DEF SetPoint, Change
  <1>23. CASE SetFrequency(t)
    BY <1>23 DEF SetFrequency, Change
  <1>24. CASE ClearPoint(t)
    BY <1>24 DEF ClearPoint, Change
  <1>25. CASE ClearAll(t)
    BY <1>25 DEF ClearAll, Change
  <1>26. CASE Execute(t)
    BY <1>26 DEF Execute, Change
  <1>27. CASE PutBack(t)
    BY <1>27 DEF PutBack, Change
  <1>28. CASE StampRecord(t)
    BY <1>28 DEF StampRecord, Change
  <1>29. CASE WriteRecord(t)
    BY <1>29 DEF WriteRecord, Change
  <1>30. CASE SpinUnlock(t)
    BY <1>30 DEF SpinUnlock, Finish
  <1>31. CASE Cleanup(t)
    BY <1>31 DEF Cleanup, Finish
  <1>32. CASE VerifyNow(t)
    BY <1>32 DEF VerifyNow, Scan
  <1>33. CASE VerifyTail(t)
    BY <1>33 DEF VerifyTail, Scan
  <1>34. CASE VerifyName(t)
    BY <1>34 DEF VerifyName, Scan, NextRecord, Answer
  <1>35. CASE VerifyTime(t)
    BY <1>35 DEF VerifyTime, Scan, NextRecord, Answer
  <1>36. CASE VerifyReturns(t)
    BY <1>36 DEF VerifyReturns, Scan, Finish
  <1>37. CASE CrashWhileCreating(t)
    BY <1>37 DEF CrashWhileCreating, Die
  <1> QED
    BY <1>1, <1>2, <1>3, <1>4, <1>5, <1>6, <1>7, <1>8, <1>9, <1>10, <1>11, <1>12, <1>13, <1>14,
       <1>15, <1>16, <1>17, <1>18, <1>19, <1>20, <1>21, <1>22, <1>23, <1>24, <1>25, <1>26, <1>27,
       <1>28, <1>29, <1>30, <1>31, <1>32, <1>33, <1>34, <1>35, <1>36, <1>37 DEF Initialise,
       Operate

LEMMA TypedKept ==
    ASSUME Typed, Placed, NEW t \in Threads, Initialise(t) \/ Operate(t) \/ CrashWhileCreating(t)
    PROVE  Typed'
  <1>1. Where(t) /\ Origin(t)
    BY DEF Placed
  <1>2. CallTypes'
    BY <1>1, TodoStep, CallTypesKept
  <1> QED
    BY <1>1, <1>2, NumberTypesKept, MemoryTypeKept, ThreadTypesKept, ScanTypesKept,
       HistoryTypesKept DEF Typed

LEMMA ThreadStep ==
    ASSUME IInv, NEW t \in Threads, Initialise(t) \/ Operate(t) \/ CrashWhileCreating(t)
    PROVE  IInv'
  <1>1. Typed /\ Placed /\ Excluded /\ Agreed /\ Lookups /\ Spendings /\ Recorded /\ Readers
    BY DEF IInv
  <1>2. Typed' /\ MemoryType'
    BY <1>1, TypedKept DEF Typed
  <1>3. Placed'
    BY <1>1, PlacedKept
  <1>4. Excluded'
    BY <1>1, ExcludedKept
  <1>5. Agreed'
    BY <1>1, AgreedKept
  <1>6. Lookups'
    BY <1>1, LookupsKept
  <1>7. Spendings'
    BY <1>1, <1>2, SpendingsKept
  <1>8. Recorded'
    BY <1>1, RecordedKept
  <1>9. Readers'
    BY <1>1, <1>3, ReadersKept
  <1> QED
    BY <1>2, <1>3, <1>4, <1>5, <1>6, <1>7, <1>8, <1>9 DEF IInv

(* The clock is read by a verify and by a record, and kept nowhere else.   *)
LEMMA ClockStep ==
    ASSUME IInv, UNCHANGED <<shared, mapped, initLock, todo, pc, obj, created, polls, found,
           scan, history>>,
           clock' \in Nat
    PROVE  IInv'
  <1>1. /\ named' = named /\ made' = made /\ shm' = shm /\ mapped' = mapped /\
             initLock' = initLock
        /\ todo' = todo /\ pc' = pc /\ obj' = obj /\ created' = created /\ polls' = polls
        /\ found' = found /\ scan' = scan
        /\ told' = told /\ fired' = fired /\ fires' = fires /\ damaged' = damaged /\
             touched' = touched
    BY DEF shared, history
  <1> USE <1>1
  <1>2. Typed'
    <2>1. NumberTypes' /\ MemoryType' /\ CallTypes' /\ ThreadTypes'
      BY DEF IInv, Typed, NumberTypes, MemoryType, CallTypes, ThreadTypes
    <2>2. ScanTypes' /\ HistoryTypes'
      BY DEF IInv, Typed, ScanTypes, HistoryTypes
    <2> QED
      BY <2>1, <2>2 DEF Typed
  <1>3. Placed'
    <2>1. ASSUME NEW t \in Threads
          PROVE  Where(t)'
      <3>1. Where(t)
        BY DEF IInv, Placed
      <3> QED
        BY <3>1 DEF Where, Locks, Op, Process
    <2>2. ASSUME NEW t \in Threads
          PROVE  Origin(t)'
      <3>1. Origin(t)
        BY DEF IInv, Placed
      <3> QED
        BY <3>1 DEF Origin, Builds
    <2>3. Versions'
      <3>1. Versions
        BY DEF IInv, Placed
      <3> QED
        BY <3>1 DEF Versions, Builds
    <2> QED
      BY <2>1, <2>2, <2>3 DEF Placed
  <1>4. Excluded'
    <2>1. Excluded
      BY DEF IInv
    <2>2. \A o : Inside(o)' = Inside(o)
      BY DEF Inside, Process
    <2> QED
      BY <2>1, <2>2 DEF Excluded
  <1>5. Agreed'
    BY DEF IInv, Agreed, Sane, AgreedOn
  <1>6. Lookups'
    BY DEF IInv, Lookups, Lookup, Registry, Op, Process
  <1>7. Spendings'
    <2>1. ASSUME NEW o \in Objects, Sane(o)'
          PROVE  SpentOn(o)'
      <3>1. SpentOn(o)
        BY <2>1 DEF IInv, Spendings, Sane
      <3>2. \A i : Overdrawn(o, i)' <=> Overdrawn(o, i)
        BY DEF Overdrawn, Process
      <3> QED
        BY <3>1, <3>2, SpentFrame
    <2> QED
      BY <2>1 DEF Spendings
  <1>8. Recorded'
    BY DEF IInv, Recorded, Sane, RecordedIn, Half, Op, Process
  <1>9. Readers'
    BY DEF IInv, Readers, ReadSoFar, Half, Matches, Registry, SlotAt, Op, Process
  <1> QED
    BY <1>2, <1>3, <1>4, <1>5, <1>6, <1>7, <1>8, <1>9 DEF IInv

LEMMA NextKeeps == IInv /\ [Next]_vars => IInv'
  <1> SUFFICES ASSUME IInv, [Next]_vars
               PROVE  IInv'
    OBVIOUS
  <1>1. clock \in Nat
    BY DEF IInv, Typed, ScanTypes
  <1>2. CASE \E t \in Threads : Initialise(t) \/ Operate(t) \/ CrashWhileCreating(t)
    BY <1>2, ThreadStep
  <1>3. CASE Tick
    BY <1>1, <1>3, ClockStep DEF Tick
  <1>4. CASE UNCHANGED vars
    BY <1>1, <1>4, ClockStep DEF vars, local
  <1> QED
    BY <1>2, <1>3, <1>4 DEF Next, Terminating

LEMMA InitIInv == Init => IInv
  <1> SUFFICES ASSUME Init
               PROVE  IInv
    OBVIOUS
  <1>1. /\ named = made /\ made \in {0, 1}
        /\ shm \in [Objects -> {Zeroed, LeftBehind}]
        /\ \A o \in Objects : shm[o] = LeftBehind => (made = 1 /\ o = 1) \/ shm[o] = Zeroed
    <2>1. PICK old : /\ named = IF old THEN 1 ELSE 0
                     /\ made = IF old THEN 1 ELSE 0
                     /\ shm = [o \in Objects |-> IF old /\ o = 1 THEN LeftBehind ELSE Zeroed]
      BY DEF Init
    <2>2. CASE old
      BY <2>1, <2>2
    <2>3. CASE ~old
      BY <2>1, <2>3
    <2> QED
      BY <2>2, <2>3
  <1>2. /\ Zeroed.version = "none" /\ LeftBehind.version = "other" /\ LeftBehind.sized = TRUE
    BY DEF Zeroed, LeftBehind
  <1>3. \A o \in Objects : shm[o].version # "current"
    BY <1>1, <1>2
  <1>4. \A t \in Threads : pc[t] = "idle"
    BY DEF Init
  <1>5. Typed
    <2>1. NumberTypes
      <3>1. made \in 0..MaxObjects /\ named \in 0..made /\ 0 \in 0..made
        <4>1. MaxObjects \in Nat /\ MaxObjects > 0
          BY SizesAssumption
        <4> QED
          BY <1>1, <4>1
      <3> QED
        BY <3>1 DEF Init, NumberTypes
    <2>2. MemoryType
      BY <1>1, FreshObjects DEF MemoryType
    <2>3. CallTypes
      BY ProgramsAssumption DEF Init, CallTypes
    <2>4. ThreadTypes
      BY Sizes DEF Init, ThreadTypes, Steps
    <2>5. ScanTypes
      BY ScanFields DEF Init, ScanTypes
    <2>6. HistoryTypes
      BY DEF Init, HistoryTypes, ToldType
    <2> QED
      BY <2>1, <2>2, <2>3, <2>4, <2>5, <2>6 DEF Typed
  <1>6. Placed
    <2>1. ASSUME NEW t \in Threads
          PROVE  Where(t) /\ Origin(t)
      BY <1>4 DEF Where, Origin, Builds, Holding, InitSteps, Critical, Reading
    <2>2. Versions
      <3>1. \A t \in Threads : ~Builds(t)
        BY <1>4 DEF Builds
      <3>2. \A p \in Processes : mapped[p] = 0
        BY DEF Init
      <3>3. ASSUME NEW o \in Objects, o > made
            PROVE  shm[o].version = "none"
        <4>1. ~(made = 1 /\ o = 1)
          BY <3>3
        <4> QED
          BY <1>1, <1>2, <4>1
      <3>4. \A o \in Objects : shm[o].version # "none" => shm[o].sized
        BY <1>1, <1>2
      <3>5. \A o \in Objects : \A n \in Names : told[o][n].action = None
        BY DEF Init
      <3> QED
        BY <3>1, <3>2, <3>3, <3>4, <3>5 DEF Versions
    <2> QED
      BY <2>1, <2>2 DEF Placed
  <1>7. \A o : Inside(o) = {}
    BY <1>4 DEF Inside, Critical
  <1>8. \A t \in Threads : pc[t] \notin Critical \cup Reading
    BY <1>4 DEF Critical, Reading
  <1> QED
    BY <1>3, <1>5, <1>6, <1>7, <1>8 DEF IInv, Excluded, Agreed, Lookups, Spendings, Recorded,
       Readers, Sane

-----------------------------------------------------------------------------
(* The results.                                                            *)

(* The parts of the invariant hold in every reachable state: the spin lock *)
(* of a registry excludes, across threads and processes, from the first    *)
(* call that takes it on, unless an initialisation overwrote it in use.    *)
THEOREM InjectInvariant == Spec => []IInv
  BY InitIInv, NextKeeps, PTL DEF Spec

(* The types of the shared objects, and that a thread past the spin lock   *)
(* or in the middle of a verify uses an object of the current version.     *)
THEOREM InjectTypeCorrect == Spec => []TypeOK
  <1>1. ASSUME IInv
        PROVE  TypeOK
    <2>a. Typed /\ Placed
      BY <1>1 DEF IInv
    <2>1. named \in 0..made /\ made \in 0..MaxObjects
      BY <2>a DEF Typed, NumberTypes
    <2>2. ASSUME NEW o \in Objects
          PROVE  /\ shm[o].version \in {"none", "other", "current"} /\ shm[o].lock \in {0, 1}
                 /\ shm[o].count \in 0..MaxPoints /\ shm[o].tail \in Slots
                 /\ \A i \in 1..MaxPoints : shm[o].points[i] \in PointType
                 /\ shm[o].version # "none" => shm[o].sized
      <3>1. shm[o] \in ObjectType
        BY <2>a DEF Typed, MemoryType
      <3>2. shm[o].version # "none" => shm[o].sized
        BY <2>a DEF Placed, Versions
      <3> QED
        BY <3>1, <3>2 DEF ObjectType
    <2>3. mapped \in [Processes -> 0..made] /\ initLock \in [Processes -> Threads \cup {None}]
      BY <2>a DEF Typed, NumberTypes, ThreadTypes
    <2>4. \A t \in Threads : found[t] \in 0..MaxPoints /\ polls[t] \in 0..MaxPolls
      BY <2>a DEF Typed, ThreadTypes
    <2>5. ASSUME NEW t \in Threads,
                 pc[t] \in {"find", "unlock", "stamp", "record", "put back", "tail", "name", "time"}
          PROVE  mapped[Process(t)] # 0 /\ Registry(t).version = "current"
      <3>1. pc[t] \in Critical \cup Reading
        BY <2>5 DEF Critical, Reading
      <3>2. mapped[Process(t)] # 0 /\ Process(t) \in Processes
        BY <2>a, <3>1, Situated DEF Placed, Where
      <3> QED
        BY <2>a, <3>2 DEF Placed, Versions, Registry
    <2> QED
      BY <2>1, <2>2, <2>3, <2>4, <2>5 DEF TypeOK
  <1> QED
    BY <1>1, InjectInvariant, PTL

(* What the calls that succeeded asked for is what the table holds,        *)
(* whatever threads and processes made them.                               *)
THEOREM InjectPointsSurvive == Spec => []PointsSurvive
  <1>1. ASSUME IInv
        PROVE  PointsSurvive
    <2>1. SUFFICES ASSUME NEW o \in Objects, Quiet(o), NEW n \in Names
                   PROVE  LET at == {i \in 1..shm[o].count : shm[o].points[i].name = n}
                          IN  /\ Cardinality(at) = IF told[o][n].action = None THEN 0 ELSE 1
                              /\ \A i \in at : /\ shm[o].points[i].action = told[o][n].action
                                               /\ shm[o].points[i].enabled = told[o][n].enabled
      BY DEF PointsSurvive
    <2> DEFINE at == {i \in 1..shm[o].count : shm[o].points[i].name = n}
    <2>2. AgreedOn(o)
      BY <1>1, <2>1 DEF IInv, Agreed, Sane, Quiet
    <2>3. \A i \in at : /\ shm[o].points[i].action = told[o][n].action
                        /\ shm[o].points[i].enabled = told[o][n].enabled
                        /\ told[o][n].action # None
      BY <2>2, NoneAssumption DEF AgreedOn
    <2>4. CASE told[o][n].action = None
      <3>1. at = {}
        BY <2>3, <2>4
      <3> QED
        BY <2>3, <2>4, <3>1, FS_EmptySet
    <2>5. CASE told[o][n].action # None
      <3>1. PICK i \in at : TRUE
        BY <2>2, <2>5 DEF AgreedOn
      <3>2. at = {i}
        BY <2>2, <3>1 DEF AgreedOn
      <3>3. Cardinality(at) = 1
        BY <3>2, FS_Singleton
      <3> QED
        BY <2>3, <2>5, <3>3
    <2> QED
      BY <2>4, <2>5
  <1> QED
    BY <1>1, InjectInvariant, PTL

(* A budget has been used up exactly as often as the point has triggered,  *)
(* although execute takes from it before it looks.                         *)
THEOREM InjectBudgetExact == Spec => []BudgetExact
  <1>1. ASSUME IInv
        PROVE  BudgetExact
    <2>1. SUFFICES ASSUME NEW o \in Objects, Quiet(o), NEW i \in 1..shm[o].count,
                          shm[o].points[i].limit > 0
                   PROVE  shm[o].points[i].count + fired[o][shm[o].points[i].name]
                            = shm[o].points[i].limit
      BY DEF BudgetExact
    <2>2. SpentOn(o) /\ Inside(o) = {}
      BY <1>1, <2>1 DEF IInv, Spendings, Excluded, Sane, Quiet
    <2>3. ~Overdrawn(o, i)
      BY <2>2 DEF Overdrawn, Inside, Critical
    <2> QED
      BY <2>1, <2>2, <2>3 DEF SpentOn
  <1> QED
    BY <1>1, InjectInvariant, PTL

(* What a verify that has attached answers, read from a ring that others   *)
(* write. (One that has not attached answers NOT_TRIGGERED whatever the    *)
(* ring holds, and nothing is claimed of that.)                            *)
THEOREM InjectVerifyAnswers == Spec => []VerifyAnswers
  <1>1. ASSUME IInv
        PROVE  VerifyAnswers
    <2>1. SUFFICES ASSUME NEW t \in Threads, At(t, "answered"), ~damaged[mapped[Process(t)]]
                   PROVE  /\ scan[t].answer = "TRIGGERED" =>
                               \/ scan[t].slot \in touched[t]
                               \/ \E f \in fires[mapped[Process(t)]] :
                                    f[1] = Op(t).name /\ Recent(scan[t].now, f[2], Op(t).arg)
                          /\ scan[t].answer = "NOT_TRIGGERED" =>
                               \A s \in Slots \ touched[t] :
                                  ~(/\ shm[mapped[Process(t)]].ring[s].name = Op(t).name
                                    /\ Recent(scan[t].now, shm[mapped[Process(t)]].ring[s].time, Op(t).arg))
      BY DEF VerifyAnswers
    <2>2. pc[t] = "answered" /\ ReadSoFar(t)
      BY <1>1, <2>1 DEF IInv, Readers, Reading, At
    <2> QED
      BY <2>2 DEF ReadSoFar, Matches, Registry
  <1> QED
    BY <1>1, InjectInvariant, PTL
=============================================================================
