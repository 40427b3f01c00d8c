---------------------- MODULE TransportDeliveryProofs -----------------------
(***************************************************************************)
(* What a transfer delivers, proved for callers that reuse an identifier   *)
(* only when nothing of the last attempt is under way (CarefulReuse), for  *)
(* every set of transfers, lengths, numbers of attempts and every choice   *)
(* of failures: CallbackSeesData, OneChunkInFlight, SendOkMeansDelivered.  *)
(*                                                                         *)
(* The chain of a send is one token that is handed on: the write of chunk  *)
(* c, its completion, the wakeup, the worker of task c, the write of       *)
(* chunk c + 1.  Chain says there is one token at most, that the chunks    *)
(* before it have landed and that the tasks behind it are still queued.    *)
(* That each message reaches the request it is about rests on its user     *)
(* context (Carried), hence on the codec, and on the two ends being never  *)
(* more than one attempt apart, the one that is behind drained (InStep).   *)
(***************************************************************************)
EXTENDS TransportProofs

(* Chunks before c are in the peer's memory; the tasks from c on are queued, *)
(* and no other; or, after a cancellation, none is.                        *)
Landed(x, g, c) == <<x, g, c>> \in landed
LandedBefore(x, c) == \A d \in Chunks(len[x]) : d < c => Landed(x, sgen[x], d)
QueuedFrom(x, c) == \A i \in Chunks(len[x]) : stask[x][i] = "queued" <=> i >= c
NoneQueued(x) == \A i \in Chunks(len[x]) : stask[x][i] # "queued"

(* A write of a chunk, or its completion.                                  *)
IsMove(m, x) ==
    /\ m.x = x
    /\ m.type = "write" \/ (m.type = "done" /\ m.tag.id # MaxChunkNum)

(* Nothing is under way at the sender.                                     *)
Still(x) == (\A m \in wire : ~IsMove(m, x)) /\ spend[x] = 0 /\ swork[x] = None

ChainOf(x) ==
    /\ \A m \in wire : IsMove(m, x) =>
         /\ \A k \in wire : IsMove(k, x) => k = m
         /\ spend[x] = 0 /\ swork[x] = None
         /\ LandedBefore(x, IF m.type = "write" THEN m.chunk ELSE m.chunk + 1)
         /\ NoneQueued(x) \/ QueuedFrom(x, m.chunk)
    /\ spend[x] # 0 =>
         /\ spend[x] = 1 /\ swork[x] = None
         /\ \E c \in Chunks(len[x]) : LandedBefore(x, c + 1) /\ QueuedFrom(x, c)
    /\ swork[x] # None =>
         /\ swork[x].gen = sgen[x]
         /\ LandedBefore(x, swork[x].task + 1)
         /\ NoneQueued(x) \/ QueuedFrom(x, swork[x].task + 1)
    /\ spc[x] = "first" => Still(x) /\ QueuedFrom(x, 0)
    /\ \A i \in Chunks(len[x]) : stask[x][i] = "ok" => Landed(x, sgen[x], i)

Chain == \A x \in Transfers : ChainOf(x)

(* A message carries the context of its chunk, and is of the current       *)
(* attempt of the sender; what is announced has landed.                    *)
Carries(m) ==
    /\ m.gen = sgen[m.x]
    /\ m.chunk \in Chunks(len[m.x])
    /\ m.type # "imm" => m.tag.key = ServerKey[m.x]
    /\ m.type = "write" => m.tag.id = m.chunk
    /\ m.type = "imm" => /\ m.tag = ClientTag(ClientKey[m.x], m.chunk, N(m.x))
                         /\ Landed(m.x, m.gen, m.chunk)

Carried ==
    /\ \A m \in wire \cup cq : Carries(m)
    /\ rpoll # None => rpoll.type = "imm" /\ Carries(rpoll)
    /\ \A x \in Transfers : sgen[x] > 0 => is_request_id_valid(ClientKey[x])

(* What has been dispatched to a receiver is about the attempt it makes.   *)
Wakes(m, x) ==
    /\ m.x = x /\ m.gen = rgen[x] /\ m.tag.id = m.chunk
    /\ Landed(x, m.gen, m.chunk)

Dispatched ==
    /\ rpend \in [Transfers -> Seq(Message)]
    /\ \A x \in Transfers : \A k \in 1 .. Len(rpend[x]) : Wakes(rpend[x][k], x)

(* What a receiver has completed has landed.                               *)
Arrived ==
    \A x \in Transfers :
        /\ \A i \in Chunks(len[x]) : rtask[x][i] = "ok" => Landed(x, rgen[x], i)
        /\ rres[x] = "OK" => \A i \in Chunks(len[x]) : Landed(x, rgen[x], i)

(* The end that is an attempt behind has nothing under way.                *)
OnlyReceiver(x) ==
    /\ \A m \in wire \cup cq : m.x # x
    /\ rpoll # None => rpoll.x # x
    /\ spc[x] = "idle" /\ spend[x] = 0 /\ swork[x] = None
    /\ rpend[x] = <<>> /\ rwork[x] = None

OnlySender(x) ==
    /\ \A i \in Chunks(len[x]) : rtask[x][i] # "queued"
    /\ rpend[x] = <<>> /\ rwork[x] = None

InStep ==
    \A x \in Transfers :
        \/ sgen[x] = rgen[x]
        \/ sgen[x] = rgen[x] + 1 /\ OnlySender(x)
        \/ rgen[x] = sgen[x] + 1 /\ OnlyReceiver(x)

DInv ==
    /\ Chain /\ Carried /\ Dispatched /\ InStep
    /\ CallbackSeesData /\ Arrived /\ SendOkMeansDelivered

-----------------------------------------------------------------------------
(* What the types say of one transfer.                                     *)
LEMMA Typed ==
    ASSUME IInv, NEW x \in Transfers
    PROVE  /\ sgen[x] \in Nat /\ rgen[x] \in Nat /\ spend[x] \in Nat
           /\ len[x] \in Length /\ N(x) \in Int
           /\ Chunks(len[x]) = 0 .. N(x) - 1 /\ Chunks(len[x]) \subseteq Nat
           /\ stask[x] \in [Chunks(len[x]) -> TaskStates]
           /\ rtask[x] \in [Chunks(len[x]) -> TaskStates]
           /\ swork[x] # None => swork[x].task \in Chunks(len[x])
           /\ rwork[x] # None => rwork[x].task \in Chunks(len[x])
  <1>1. len[x] \in Length
    BY DEF IInv, TypeOK
  <1>2. N(x) \in Int
    BY <1>1, RoundedUp, SplitAssumption DEF N, NumChunks
  <1>3. Chunks(len[x]) = 0 .. N(x) - 1
    BY DEF Chunks, N
  <1>4. sgen[x] \in Nat /\ rgen[x] \in Nat
    <2>1. attempts \in Nat /\ sgen[x] \in 0 .. attempts /\ rgen[x] \in 0 .. attempts
      BY DEF IInv, TypeOK, Shape
    <2> QED BY <2>1
  <1>5. /\ spend[x] \in Nat
        /\ stask[x] \in [Chunks(len[x]) -> TaskStates]
        /\ rtask[x] \in [Chunks(len[x]) -> TaskStates]
        /\ swork[x] # None => swork[x].task \in Chunks(len[x])
        /\ rwork[x] # None => rwork[x].task \in Chunks(len[x])
    BY DEF IInv, TypeOK
  <1>6. Chunks(len[x]) \subseteq Nat
    BY <1>2, <1>3
  <1> QED BY <1>1, <1>2, <1>3, <1>4, <1>5, <1>6

LEMMA Functions ==
    ASSUME IInv
    PROVE  /\ DOMAIN sgen = Transfers /\ DOMAIN spc = Transfers /\ DOMAIN spend = Transfers
           /\ DOMAIN stask = Transfers /\ DOMAIN swork = Transfers /\ DOMAIN sres = Transfers
           /\ DOMAIN rgen = Transfers /\ DOMAIN rtask = Transfers /\ DOMAIN rwork = Transfers
           /\ DOMAIN rres = Transfers /\ DOMAIN rpc = Transfers
           /\ wire \subseteq Message /\ cq \subseteq Message /\ rpoll \in Message \cup {None}
           /\ \A m \in Message : m.x \in Transfers
  <1>1. \A m \in Message : m.x \in Transfers
    BY DEF Message
  <1>2. DOMAIN stask = Transfers /\ DOMAIN rtask = Transfers /\ DOMAIN rwork = Transfers
    BY DEF IInv, Shape
  <1>3. /\ DOMAIN sgen = Transfers /\ DOMAIN spc = Transfers /\ DOMAIN spend = Transfers
        /\ DOMAIN sres = Transfers /\ DOMAIN rgen = Transfers /\ DOMAIN rres = Transfers
        /\ DOMAIN rpc = Transfers
    BY DEF IInv, TypeOK
  <1>4. DOMAIN swork = Transfers
    BY DEF IInv, Shape
  <1>5. wire \subseteq Message /\ cq \subseteq Message /\ rpoll \in Message \cup {None}
    BY DEF IInv, TypeOK
  <1> QED BY <1>1, <1>2, <1>3, <1>4, <1>5

(* The numbers of chunks of a transfer that has been attempted.            *)
LEMMA Attempted ==
    ASSUME IInv, NEW x \in Transfers, sgen[x] > 0
    PROVE  /\ SendAccepts(len[x])
           /\ N(x) \in Nat /\ N(x) >= 2 /\ Chunks(len[x]) \subseteq 0 .. MaxChunkNum - 1
           /\ MaxChunkNum \in Nat
  <1>1. SendAccepts(len[x]) /\ len[x] \in Length
    BY Typed DEF IInv, Accepted
  <1>2. RecvAccepts(len[x])
    BY <1>1 DEF SendAccepts, RecvAccepts
  <1> QED BY <1>1, <1>2, ChunkNumbers DEF N, SendAccepts

-----------------------------------------------------------------------------
(* Frames: what a step that leaves a part alone keeps of the invariant.    *)
LEMMA ChainFrame ==
    ASSUME NEW x \in Transfers, ChainOf(x), len' = len, landed \subseteq landed',
           sgen'[x] = sgen[x], stask'[x] = stask[x], spend'[x] = spend[x],
           swork'[x] = swork[x], spc'[x] = "first" => spc[x] = "first",
           \A m \in wire' : IsMove(m, x) => m \in wire
    PROVE  ChainOf(x)'
  <1>1. Chunks(len'[x]) = Chunks(len[x])
    OBVIOUS
  <1>2. \A c : LandedBefore(x, c) => LandedBefore(x, c)'
    BY <1>1 DEF LandedBefore, Landed
  <1>3. \A c : QueuedFrom(x, c)' <=> QueuedFrom(x, c)
    BY <1>1 DEF QueuedFrom
  <1>4. NoneQueued(x)' <=> NoneQueued(x)
    BY <1>1 DEF NoneQueued
  <1>5. Still(x) => Still(x)'
    BY DEF Still
  <1>6. \A c : Landed(x, sgen[x], c) => Landed(x, sgen[x], c)'
    BY DEF Landed
  <1> QED BY <1>1, <1>2, <1>3, <1>4, <1>5, <1>6 DEF ChainOf

LEMMA CarriesFrame ==
    ASSUME NEW m, Carries(m), len' = len, sgen'[m.x] = sgen[m.x], landed \subseteq landed'
    PROVE  Carries(m)'
  BY DEF Carries, Landed, N

LEMMA CarriedFrame ==
    ASSUME IInv, Carried, len' = len, sgen' = sgen, landed \subseteq landed',
           \A m \in wire' \cup cq' : m \in wire \cup cq \/ Carries(m)',
           rpoll' # None => rpoll' = rpoll \/ rpoll' \in cq
    PROVE  Carried'
  <1>1. \A m \in wire \cup cq : Carries(m)'
    BY CarriesFrame DEF Carried
  <1>2. rpoll' # None => rpoll'.type = "imm" /\ Carries(rpoll')
    BY DEF Carried, IInv, Fresh
  <1>3. rpoll' # None => rpoll'.type = "imm" /\ Carries(rpoll)'
    <2> SUFFICES ASSUME rpoll' # None PROVE rpoll'.type = "imm" /\ Carries(rpoll)'
      OBVIOUS
    <2>1. rpoll'.type = "imm" /\ Carries(rpoll')
      BY <1>2
    <2> QED BY <2>1 DEF Carries, Landed, N
  <1> QED BY <1>1, <1>3 DEF Carried

LEMMA ReceiverFrame ==
    ASSUME Dispatched, CallbackSeesData, Arrived, UNCHANGED <<len, attempts>>,
           UNCHANGED <<rgen, rtask, rpend, rwork, rres>>, landed \subseteq landed'
    PROVE  Dispatched' /\ CallbackSeesData' /\ Arrived'
  <1>1. Message' = Message
    BY DEF Message
  <1>2. Dispatched'
    BY <1>1 DEF Dispatched, Wakes, Landed
  <1>3. CallbackSeesData'
    BY DEF CallbackSeesData
  <1>4. Arrived'
    BY DEF Arrived, Landed, Chunks, NumChunks
  <1> QED BY <1>2, <1>3, <1>4

LEMMA DeliveredFrame ==
    ASSUME SendOkMeansDelivered, len' = len, landed \subseteq landed',
           \A x \in Transfers : sres'[x] = "OK" => sres[x] = "OK" /\ sgen'[x] = sgen[x]
    PROVE  SendOkMeansDelivered'
  BY DEF SendOkMeansDelivered, Chunks, NumChunks

LEMMA InitDInv == Init => DInv
  <1> SUFFICES ASSUME Init PROVE DInv
    OBVIOUS
  <1>1. Chain
    BY DEF Init, AllTasks, Chain, ChainOf
  <1>2. Carried /\ InStep
    BY DEF Init, Carried, InStep
  <1>3. Dispatched
    <2>1. \A x \in Transfers : rpend[x] = <<>>
      BY DEF Init
    <2>2. rpend \in [Transfers -> Seq(Message)]
      BY DEF Init
    <2> QED BY <2>1, <2>2 DEF Dispatched
  <1>4. CallbackSeesData /\ Arrived /\ SendOkMeansDelivered
    BY DEF Init, AllTasks, CallbackSeesData, Arrived, SendOkMeansDelivered
  <1> QED BY <1>1, <1>2, <1>3, <1>4 DEF DInv

-----------------------------------------------------------------------------
(* One lemma per action of the sender.  Nothing of a transfer is under way *)
(* when an attempt begins.                                                 *)
LEMMA SendRegisterDInv ==
    ASSUME IInv, DInv, CarefulReuse, NEW x \in Transfers, SendRegister(x)
    PROVE  DInv'
  <1>1. /\ spc[x] = "idle" /\ is_request_id_valid(ClientKey[x])
        /\ MayBegin(x, sgen[x], rgen[x], CallOver(rpc[x]))
        /\ UNCHANGED <<len, attempts, spend, swork, cq, rpoll, wire, landed>>
        /\ UNCHANGED <<rgen, rtask, rpend, rwork, rres>>
    BY DEF SendRegister, given, receiverVars, fabricVars
  <1>2. \A y \in Transfers :
          /\ sgen'[y] = IF y = x THEN sgen[x] + 1 ELSE sgen[y]
          /\ stask'[y] = IF y = x THEN AllTasks(x, "queued") ELSE stask[y]
          /\ sres'[y] = IF y = x THEN "none" ELSE sres[y]
          /\ spc'[y] = IF y = x THEN "first" ELSE spc[y]
    BY Functions DEF SendRegister
  <1>3. /\ \A m \in wire \cup cq : m.x # x
        /\ rpoll # None => rpoll.x # x
        /\ spend[x] = 0 /\ swork[x] = None
        /\ \/ rgen[x] = sgen[x] /\ OnlySender(x)
           \/ rgen[x] = sgen[x] + 1
    <2>1. CASE rgen[x] = sgen[x] + 1
      BY <2>1, Typed DEF DInv, InStep, OnlyReceiver
    <2>2. CASE rgen[x] = sgen[x] /\ Drained(x)
      BY <2>2 DEF Drained, OnlySender, RIn
    <2> QED BY <1>1, <2>1, <2>2 DEF MayBegin
  <1>4. Chain'
    <2>1. ASSUME NEW y \in Transfers, y # x PROVE ChainOf(y)'
      BY <1>1, <1>2, <2>1, ChainFrame DEF DInv, Chain
    <2>2. ChainOf(x)'
      <3>1. \A i \in Chunks(len[x]) : stask'[x][i] = "queued" /\ i >= 0
        BY <1>2, Typed DEF AllTasks
      <3>2. QueuedFrom(x, 0)'
        BY <1>1, <3>1 DEF QueuedFrom
      <3>3. \A m \in wire : ~IsMove(m, x)
        BY <1>3 DEF IsMove
      <3>4. Still(x)'
        BY <1>1, <1>3, <3>3 DEF Still
      <3> QED BY <1>1, <1>3, <3>1, <3>2, <3>3, <3>4 DEF ChainOf
    <2> QED BY <2>1, <2>2 DEF Chain
  <1>5. Carried'
    <2>1. ASSUME NEW m \in wire \cup cq PROVE Carries(m)'
      <3>1. m.x \in Transfers /\ m.x # x /\ Carries(m)
        BY <1>3, Functions DEF DInv, Carried
      <3> QED BY <1>1, <1>2, <3>1, CarriesFrame
    <2>2. ASSUME rpoll # None PROVE rpoll.type = "imm" /\ Carries(rpoll)'
      <3>1. rpoll.x \in Transfers /\ rpoll.x # x /\ Carries(rpoll) /\ rpoll.type = "imm"
        BY <1>3, <2>2, Functions DEF DInv, Carried
      <3> QED BY <1>1, <1>2, <3>1 DEF Carries, Landed, N
    <2>3. \A y \in Transfers : sgen'[y] > 0 => is_request_id_valid(ClientKey[y])
      BY <1>1, <1>2 DEF DInv, Carried
    <2> QED BY <1>1, <2>1, <2>2, <2>3 DEF Carried
  <1>6. InStep'
    <2>1. ASSUME NEW y \in Transfers
          PROVE  /\ OnlySender(y)' <=> OnlySender(y)
                 /\ y # x /\ OnlyReceiver(y) => OnlyReceiver(y)'
      BY <1>1, <1>2 DEF OnlySender, OnlyReceiver, Chunks, NumChunks
    <2> QED BY <1>1, <1>2, <1>3, <2>1, Typed DEF DInv, InStep
  <1>7. SendOkMeansDelivered'
    BY <1>1, <1>2, DeliveredFrame DEF DInv
  <1> QED BY <1>1, <1>4, <1>5, <1>6, <1>7, ReceiverFrame DEF DInv

(* Steps of the caller that leave the tasks, the worker and the wire alone. *)
LEMMA SendCallerDInv ==
    ASSUME IInv, DInv,
           UNCHANGED <<len, attempts, sgen, stask, spend, swork, cq, rpoll, wire, landed>>,
           UNCHANGED <<rgen, rtask, rpend, rwork, rres>>,
           \A x \in Transfers : spc'[x] = "first" => spc[x] = "first",
           \A x \in Transfers : spc[x] = "idle" => spc'[x] = "idle",
           \A x \in Transfers : sres'[x] = "OK" =>
             sres[x] = "OK" \/ \A i \in Chunks(len[x]) : stask[x][i] = "ok"
    PROVE  DInv'
  <1>1. Chain'
    <2>1. ASSUME NEW y \in Transfers PROVE ChainOf(y)'
      BY ChainFrame DEF DInv, Chain
    <2> QED BY <2>1 DEF Chain
  <1>2. Carried'
    BY CarriedFrame DEF DInv
  <1>3. InStep'
    <2>1. ASSUME NEW y \in Transfers
          PROVE  (OnlySender(y) => OnlySender(y)') /\ (OnlyReceiver(y) => OnlyReceiver(y)')
      BY DEF OnlySender, OnlyReceiver, Chunks, NumChunks
    <2> QED BY <2>1 DEF DInv, InStep
  <1>4. SendOkMeansDelivered'
    <2> SUFFICES ASSUME NEW y \in Transfers, sres'[y] = "OK", NEW i \in Chunks(len[y])
                 PROVE  <<y, sgen[y], i>> \in landed
      BY DEF SendOkMeansDelivered, Chunks, NumChunks
    <2>1. CASE sres[y] = "OK"
      BY <2>1 DEF DInv, SendOkMeansDelivered
    <2>2. CASE stask[y][i] = "ok"
      BY <2>2 DEF DInv, Chain, ChainOf, Landed
    <2> QED BY <2>1, <2>2
  <1> QED BY <1>1, <1>2, <1>3, <1>4, ReceiverFrame DEF DInv

(* The wait returns OK when every task has run, so every chunk has landed. *)
LEMMA SendReturnsOkDInv ==
    ASSUME IInv, DInv, NEW x \in Transfers, SendReturnsOk(x) \/ SendFirstChunkFails(x)
    PROVE  DInv'
  <1>1. /\ UNCHANGED <<len, attempts, sgen, stask, spend, swork, cq, rpoll, wire, landed>>
        /\ UNCHANGED <<rgen, rtask, rpend, rwork, rres>>
    BY DEF SendReturnsOk, SendFirstChunkFails, given, receiverVars, fabricVars
  <1>2. /\ \A y \in Transfers : spc'[y] = "first" => spc[y] = "first"
        /\ \A y \in Transfers : spc[y] = "idle" => spc'[y] = "idle"
    BY Functions DEF SendReturnsOk, SendFirstChunkFails
  <1>3. \A y \in Transfers : sres'[y] = "OK" =>
          sres[y] = "OK" \/ \A i \in Chunks(len[y]) : stask[y][i] = "ok"
    BY Functions DEF SendReturnsOk, SendFirstChunkFails, SIn
  <1> QED BY <1>1, <1>2, <1>3, SendCallerDInv

(* Chunk 0 is written when nothing else is under way.                      *)
LEMMA SendFirstChunkDInv ==
    ASSUME IInv, DInv, NEW x \in Transfers, SendFirstChunk(x)
    PROVE  DInv'
  <1>0. PICK m : m = Write(x, 0, FirstTag(ServerKey[x]))
    OBVIOUS
  <1>1. /\ spc[x] = "first" /\ wire' = wire \cup {m}
        /\ UNCHANGED <<len, attempts, sgen, stask, spend, swork, sres, cq, rpoll, landed>>
        /\ UNCHANGED <<rgen, rtask, rpend, rwork, rres>>
    BY <1>0 DEF SendFirstChunk, given, receiverVars
  <1>2. \A y \in Transfers : spc'[y] = IF y = x THEN "wait" ELSE spc[y]
    BY Functions DEF SendFirstChunk
  <1>3. sgen[x] > 0
    BY <1>1 DEF IInv, Accepted
  <1>4. /\ m.type = "write" /\ m.x = x /\ m.gen = sgen[x] /\ m.chunk = 0
        /\ m.tag.key = ServerKey[x] /\ m.tag.id = 0
    BY <1>0 DEF Write, FirstTag, Tag
  <1>5. 0 \in Chunks(len[x])
    BY <1>3, Attempted, Typed
  <1>6. Still(x) /\ QueuedFrom(x, 0) /\ ChainOf(x)
    BY <1>1 DEF DInv, Chain, ChainOf
  <1>7. Chain'
    <2>1. ASSUME NEW y \in Transfers, y # x PROVE ChainOf(y)'
      <3>1. \A k \in wire' : IsMove(k, y) => k \in wire
        BY <1>1, <1>4, <2>1 DEF IsMove
      <3> QED BY <1>1, <1>2, <2>1, <3>1, ChainFrame DEF DInv, Chain
    <2>2. ChainOf(x)'
      <3>1. \A k \in wire' : IsMove(k, x) => k = m
        BY <1>1, <1>6 DEF Still
      <3>2. QueuedFrom(x, 0)'
        BY <1>1, <1>6 DEF QueuedFrom
      <3>3. LandedBefore(x, 0)'
        BY <1>1, Typed DEF LandedBefore
      <3>4. spend'[x] = 0 /\ swork'[x] = None /\ spc'[x] # "first"
        BY <1>1, <1>2, <1>6 DEF Still
      <3>5. \A i \in Chunks(len'[x]) : stask'[x][i] = "ok" => Landed(x, sgen[x], i)'
        BY <1>1, <1>6 DEF ChainOf, Landed
      <3> QED BY <1>1, <1>4, <3>1, <3>2, <3>3, <3>4, <3>5 DEF ChainOf
    <2> QED BY <2>1, <2>2 DEF Chain
  <1>8. Carried'
    <2>1. Carries(m)'
      BY <1>1, <1>4, <1>5 DEF Carries
    <2> QED BY <1>1, <2>1, CarriedFrame DEF DInv
  <1>9. InStep'
    <2>1. ASSUME NEW y \in Transfers
          PROVE  (OnlySender(y) => OnlySender(y)') /\ (OnlyReceiver(y) => OnlyReceiver(y)')
      BY <1>1, <1>2, <1>4 DEF OnlySender, OnlyReceiver, Chunks, NumChunks
    <2> QED BY <1>1, <2>1 DEF DInv, InStep
  <1>10. SendOkMeansDelivered'
    BY <1>1, DeliveredFrame DEF DInv
  <1> QED BY <1>1, <1>7, <1>8, <1>9, <1>10, ReceiverFrame DEF DInv

(* A cancellation leaves nothing queued, so nothing else will be written.  *)
LEMMA SendEndsWithErrorDInv ==
    ASSUME IInv, DInv, NEW x \in Transfers, SendEndsWithError(x)
    PROVE  DInv'
  <1>1. /\ UNCHANGED <<len, attempts, sgen, swork, cq, rpoll, wire, landed>>
        /\ UNCHANGED <<rgen, rtask, rpend, rwork, rres>>
    BY DEF SendEndsWithError, given, receiverVars, fabricVars
  <1>2. \A y \in Transfers :
          /\ stask'[y] = IF y = x THEN Canceled(stask[x]) ELSE stask[y]
          /\ spend'[y] = IF y = x THEN 0 ELSE spend[y]
          /\ sres'[y] = IF y = x THEN "ERROR" ELSE sres[y]
          /\ spc'[y] = IF y = x THEN "idle" ELSE spc[y]
    BY Functions DEF SendEndsWithError
  <1>3. Chain'
    <2>1. ASSUME NEW y \in Transfers, y # x PROVE ChainOf(y)'
      BY <1>1, <1>2, <2>1, ChainFrame DEF DInv, Chain
    <2>2. ChainOf(x)'
      <3>1. \A i \in Chunks(len[x]) :
              stask'[x][i] = IF stask[x][i] = "queued" THEN "canceled" ELSE stask[x][i]
        BY <1>2, Typed DEF Canceled
      <3>2. NoneQueued(x)'
        BY <1>1, <3>1 DEF NoneQueued
      <3>3. ChainOf(x)
        BY DEF DInv, Chain
      <3>4. \A c : LandedBefore(x, c) => LandedBefore(x, c)'
        BY <1>1 DEF LandedBefore, Landed
      <3>5. \A i \in Chunks(len'[x]) : stask'[x][i] = "ok" => Landed(x, sgen[x], i)'
        BY <1>1, <3>1, <3>3 DEF ChainOf, Landed
      <3>6. \A m \in wire : IsMove(m, x) =>
              /\ \A k \in wire : IsMove(k, x) => k = m
              /\ swork[x] = None
              /\ LandedBefore(x, IF m.type = "write" THEN m.chunk ELSE m.chunk + 1)
        BY <3>3 DEF ChainOf
      <3>7. swork[x] # None => swork[x].gen = sgen[x] /\ LandedBefore(x, swork[x].task + 1)
        BY <3>3 DEF ChainOf
      <3>8. spend'[x] = 0 /\ spc'[x] # "first"
        BY <1>2
      <3> QED BY <1>1, <3>2, <3>4, <3>5, <3>6, <3>7, <3>8 DEF ChainOf
    <2> QED BY <2>1, <2>2 DEF Chain
  <1>4. Carried'
    BY <1>1, CarriedFrame DEF DInv
  <1>5. InStep'
    <2>1. ASSUME NEW y \in Transfers
          PROVE  (OnlySender(y) => OnlySender(y)') /\ (OnlyReceiver(y) => OnlyReceiver(y)')
      BY <1>1, <1>2 DEF OnlySender, OnlyReceiver, Chunks, NumChunks
    <2> QED BY <1>1, <2>1 DEF DInv, InStep
  <1>6. SendOkMeansDelivered'
    BY <1>1, <1>2, DeliveredFrame DEF DInv
  <1> QED BY <1>1, <1>3, <1>4, <1>5, <1>6, ReceiverFrame DEF DInv

(* The worker runs the first task that is queued, and the chunk whose      *)
(* completion woke it is the one it has that number of.                    *)
LEMMA SendTakeDInv ==
    ASSUME IInv, DInv, NEW x \in Transfers, SendTake(x)
    PROVE  DInv'
  <1>1. /\ swork[x] = None /\ spend[x] > 0
        /\ UNCHANGED <<len, attempts, spc, sgen, sres, cq, rpoll, wire, landed>>
        /\ UNCHANGED <<rgen, rtask, rpend, rwork, rres>>
    BY DEF SendTake, given, receiverVars, fabricVars
  <1>2. \A y \in Transfers : spend'[y] = IF y = x THEN spend[x] - 1 ELSE spend[y]
    BY Functions DEF SendTake
  <1>3. ChainOf(x) /\ spend[x] = 1 /\ spend'[x] = 0
    BY <1>1, <1>2, Typed DEF DInv, Chain, ChainOf
  <1>4. PICK c \in Chunks(len[x]) : LandedBefore(x, c + 1) /\ QueuedFrom(x, c)
    BY <1>3 DEF ChainOf
  <1>5. /\ \A y \in Transfers : y # x => stask'[y] = stask[y] /\ swork'[y] = swork[y]
        /\ swork'[x] = [task |-> c, gen |-> sgen[x], at |-> "notify"]
        /\ \A i \in Chunks(len[x]) : stask'[x][i] = IF i = c THEN "running" ELSE stask[x][i]
    <2>1. c \in SIn(x, "queued") /\ \A i \in SIn(x, "queued") : c <= i
      BY <1>4, Typed DEF QueuedFrom, SIn
    <2>2. PICK i \in SIn(x, "queued") :
            /\ \A j \in SIn(x, "queued") : i <= j
            /\ stask' = [stask EXCEPT ![x][i] = "running"]
            /\ swork' = [swork EXCEPT ![x] = [task |-> i, gen |-> sgen[x], at |-> "notify"]]
      BY <2>1 DEF SendTake
    <2>3. i = c
      BY <2>1, <2>2, Typed DEF SIn
    <2>4. stask'[x] = [stask[x] EXCEPT ![c] = "running"]
      BY <2>2, <2>3, Functions
    <2> QED BY <2>2, <2>3, <2>4, Functions, Typed
  <1>6. Chain'
    <2>1. ASSUME NEW y \in Transfers, y # x PROVE ChainOf(y)'
      BY <1>1, <1>2, <1>5, <2>1, ChainFrame DEF DInv, Chain
    <2>2. ChainOf(x)'
      <3>1. \A m \in wire : ~IsMove(m, x)
        BY <1>3 DEF ChainOf
      <3>2. spc[x] # "first"
        BY <1>3 DEF ChainOf, Still
      <3>3. LandedBefore(x, c + 1)'
        BY <1>1, <1>4 DEF LandedBefore, Landed
      <3>4. QueuedFrom(x, c + 1)'
        BY <1>1, <1>4, <1>5, Typed DEF QueuedFrom
      <3>5. \A i \in Chunks(len'[x]) : stask'[x][i] = "ok" => Landed(x, sgen[x], i)'
        BY <1>1, <1>3, <1>5 DEF ChainOf, Landed
      <3> QED BY <1>1, <1>3, <1>5, <3>1, <3>2, <3>3, <3>4, <3>5 DEF ChainOf
    <2> QED BY <2>1, <2>2 DEF Chain
  <1>7. Carried'
    BY <1>1, CarriedFrame DEF DInv
  <1>8. InStep'
    <2>1. ASSUME NEW y \in Transfers
          PROVE  (OnlySender(y) => OnlySender(y)') /\ (OnlyReceiver(y) => OnlyReceiver(y)')
      BY <1>1, <1>2, <1>3, <1>5 DEF OnlySender, OnlyReceiver, Chunks, NumChunks
    <2> QED BY <1>1, <2>1 DEF DInv, InStep
  <1>9. SendOkMeansDelivered'
    BY <1>1, DeliveredFrame DEF DInv
  <1> QED BY <1>1, <1>6, <1>7, <1>8, <1>9, ReceiverFrame DEF DInv

(* While the worker holds a task nothing else of its transfer moves, and   *)
(* the chunks up to that of the task have landed.                          *)
LEMMA WorkerHolds ==
    ASSUME IInv, DInv, NEW x \in Transfers, swork[x] # None
    PROVE  /\ swork[x].gen = sgen[x] /\ sgen[x] > 0
           /\ swork[x].task \in Chunks(len[x]) /\ swork[x].task \in Nat
           /\ stask[x][swork[x].task] = "running"
           /\ spend[x] = 0 /\ spc[x] # "first"
           /\ \A m \in wire : ~IsMove(m, x)
           /\ LandedBefore(x, swork[x].task + 1) /\ Landed(x, sgen[x], swork[x].task)
           /\ NoneQueued(x) \/ QueuedFrom(x, swork[x].task + 1)
           /\ ~OnlyReceiver(x)
  <1>1. ChainOf(x)
    BY DEF DInv, Chain
  <1>2. swork[x].task \in Chunks(len[x]) /\ swork[x].task \in Nat
    BY Typed
  <1>3. stask[x][swork[x].task] = "running" /\ swork[x].gen = sgen[x]
    BY <1>1 DEF ChainOf, IInv, Working
  <1>4. sgen[x] > 0
    BY <1>2, <1>3 DEF IInv, Accepted
  <1>5. Landed(x, sgen[x], swork[x].task)
    BY <1>1, <1>2 DEF ChainOf, LandedBefore
  <1> QED BY <1>1, <1>2, <1>3, <1>4, <1>5 DEF ChainOf, Still, OnlyReceiver

LEMMA SendMarkPoints ==
    ASSUME IInv, DInv, NEW x \in Transfers, swork[x] # None,
           NEW outcome \in {"ok", "failed"}, SendMark(x, outcome)
    PROVE  /\ \A y \in Transfers : y # x => stask'[y] = stask[y] /\ swork'[y] = swork[y]
           /\ swork'[x] = None
           /\ \A i \in Chunks(len[x]) :
                stask'[x][i] = IF i = swork[x].task THEN outcome ELSE stask[x][i]
  <1>1. stask' = [stask EXCEPT ![x][swork[x].task] = outcome]
    BY WorkerHolds DEF SendMark
  <1>2. stask'[x] = [stask[x] EXCEPT ![swork[x].task] = outcome]
    BY <1>1, Functions
  <1> QED BY <1>1, <1>2, Functions, Typed DEF SendMark

(* The worker lets go and nothing is written: the chain has ended, or waits *)
(* for the completion of what was written before.                          *)
LEMMA SendLetsGo ==
    ASSUME IInv, DInv, NEW x \in Transfers, swork[x] # None,
           NEW outcome \in {"ok", "failed"}, SendMark(x, outcome),
           UNCHANGED <<len, sgen, spend, spc, landed>>,
           \A m \in wire' : m \in wire \/ \A y \in Transfers : ~IsMove(m, y)
    PROVE  Chain'
  <1>1. ASSUME NEW y \in Transfers, y # x PROVE ChainOf(y)'
    BY <1>1, SendMarkPoints, ChainFrame DEF DInv, Chain
  <1>2. ChainOf(x)'
    <2>1. \A m \in wire' : ~IsMove(m, x)
      BY WorkerHolds
    <2>2. swork'[x] = None /\ spend'[x] = 0 /\ spc'[x] # "first"
      BY SendMarkPoints, WorkerHolds
    <2>3. \A i \in Chunks(len'[x]) : stask'[x][i] = "ok" => Landed(x, sgen[x], i)'
      BY SendMarkPoints, WorkerHolds DEF DInv, Chain, ChainOf, Landed
    <2> QED BY <2>1, <2>2, <2>3 DEF ChainOf
  <1> QED BY <1>1, <1>2 DEF Chain

(* Steps of the worker of a sender leave its receiver alone.               *)
LEMMA SendWorkerInStep ==
    ASSUME IInv, DInv, NEW x \in Transfers, swork[x] # None,
           UNCHANGED <<len, sgen, rgen, rtask, rpend, rwork, spend, spc, cq, rpoll>>,
           \A y \in Transfers : y # x => swork'[y] = swork[y],
           \A m \in wire' : m \in wire \/ m.x = x
    PROVE  InStep'
  <1>1. ASSUME NEW y \in Transfers
        PROVE  (OnlySender(y) => OnlySender(y)') /\ (OnlyReceiver(y) => OnlyReceiver(y)')
    BY WorkerHolds DEF OnlySender, OnlyReceiver, Chunks, NumChunks
  <1> QED BY <1>1 DEF DInv, InStep

LEMMA SendTaskFailsDInv ==
    ASSUME IInv, DInv, NEW x \in Transfers, SendTaskFails(x)
    PROVE  DInv'
  <1>1. /\ swork[x] # None /\ SendMark(x, "failed")
        /\ UNCHANGED <<len, attempts, spc, sgen, spend, sres, cq, rpoll, wire, landed>>
        /\ UNCHANGED <<rgen, rtask, rpend, rwork, rres>>
    BY DEF SendTaskFails, given, receiverVars, fabricVars
  <1>2. Chain'
    BY <1>1, SendLetsGo
  <1>3. Carried'
    BY <1>1, CarriedFrame DEF DInv
  <1>4. InStep'
    BY <1>1, SendMarkPoints, SendWorkerInStep
  <1>5. SendOkMeansDelivered'
    BY <1>1, DeliveredFrame DEF DInv
  <1> QED BY <1>1, <1>2, <1>3, <1>4, <1>5, ReceiverFrame DEF DInv

(* The next chunk is written when the one before has landed.               *)
LEMMA SendWriteDInv ==
    ASSUME IInv, DInv, NEW x \in Transfers, SendWrite(x)
    PROVE  DInv'
  <1> DEFINE i == swork[x].task
  <1>0. PICK m : m = [Write(x, i + 1, ServerTag(ServerKey[x], i, N(x)))
                        EXCEPT !.gen = swork[x].gen]
    OBVIOUS
  <1>1. /\ swork[x] # None /\ swork[x].at = "write" /\ wire' = wire \cup {m}
        /\ SendMark(x, "ok")
        /\ UNCHANGED <<len, attempts, spc, sgen, spend, sres, cq, rpoll, landed>>
        /\ UNCHANGED <<rgen, rtask, rpend, rwork, rres>>
    BY <1>0 DEF SendWrite, given, receiverVars
  <1>2. /\ m.type = "write" /\ m.x = x /\ m.gen = sgen[x] /\ m.chunk = i + 1
        /\ m.tag.key = ServerKey[x] /\ m.tag.id = i + 1
    BY <1>0, <1>1, WorkerHolds DEF Write, ServerTag, ConstructedTag, Tag
  <1>3. i + 1 \in Chunks(len[x]) /\ i \in Nat
    BY <1>1, WorkerHolds DEF IInv, Working
  <1>4. Chain'
    <2>1. ASSUME NEW y \in Transfers, y # x PROVE ChainOf(y)'
      <3>1. \A k \in wire' : IsMove(k, y) => k \in wire
        BY <1>1, <1>2, <2>1 DEF IsMove
      <3> QED BY <1>1, <2>1, <3>1, SendMarkPoints, ChainFrame DEF DInv, Chain
    <2>2. ChainOf(x)'
      <3>1. \A k \in wire' : IsMove(k, x) => k = m
        BY <1>1, WorkerHolds
      <3>2. spend'[x] = 0 /\ swork'[x] = None /\ spc'[x] # "first"
        BY <1>1, SendMarkPoints, WorkerHolds
      <3>3. LandedBefore(x, i + 1)
        BY <1>1, WorkerHolds
      <3>4. \A c : LandedBefore(x, c) => LandedBefore(x, c)'
        BY <1>1 DEF LandedBefore, Landed
      <3>5. LandedBefore(x, m.chunk)'
        BY <1>1, <1>2, <3>3 DEF LandedBefore, Landed
      <3>6. NoneQueued(x) => NoneQueued(x)'
        BY <1>1, SendMarkPoints DEF NoneQueued
      <3>7. QueuedFrom(x, i + 1) => QueuedFrom(x, m.chunk)'
        <4>1. \A k \in Chunks(len[x]) : stask'[x][k] = "queued" <=> stask[x][k] = "queued"
          BY <1>1, SendMarkPoints, WorkerHolds
        <4> QED BY <1>1, <1>2, <4>1 DEF QueuedFrom
      <3>8. \A k \in Chunks(len'[x]) : stask'[x][k] = "ok" => Landed(x, sgen[x], k)'
        BY <1>1, SendMarkPoints, WorkerHolds DEF DInv, Chain, ChainOf, Landed
      <3>9. NoneQueued(x)' \/ QueuedFrom(x, m.chunk)'
        BY <1>1, <3>6, <3>7, WorkerHolds
      <3> QED BY <1>2, <3>1, <3>2, <3>5, <3>8, <3>9 DEF ChainOf
    <2> QED BY <2>1, <2>2 DEF Chain
  <1>5. Carried'
    <2>1. Carries(m)'
      BY <1>1, <1>2, <1>3 DEF Carries
    <2> QED BY <1>1, <2>1, CarriedFrame DEF DInv
  <1>6. InStep'
    BY <1>1, <1>2, SendMarkPoints, SendWorkerInStep
  <1>7. SendOkMeansDelivered'
    BY <1>1, DeliveredFrame DEF DInv
  <1> QED BY <1>1, <1>4, <1>5, <1>6, <1>7, ReceiverFrame DEF DInv

(* The chunk that is announced has landed; the completion of the           *)
(* announcement is not taken for that of a chunk.                          *)
LEMMA SendNotifyDInv ==
    ASSUME IInv, DInv, NEW x \in Transfers, SendNotify(x)
    PROVE  DInv'
  <1> DEFINE i == swork[x].task
  <1>0. PICK imm, here :
          /\ imm = [Notify(x, i, ClientTag(ClientKey[x], i, N(x))) EXCEPT !.gen = swork[x].gen]
          /\ here = Done(imm, NotifyTag(ServerKey[x], i, N(x)))
    OBVIOUS
  <1>1. /\ swork[x] # None /\ swork[x].at = "notify" /\ wire' = wire \cup {imm, here}
        /\ IF i + 1 < N(x) THEN swork' = [swork EXCEPT ![x].at = "write"] /\ UNCHANGED stask
                           ELSE SendMark(x, "ok")
        /\ UNCHANGED <<len, attempts, spc, sgen, spend, sres, cq, rpoll, landed>>
        /\ UNCHANGED <<rgen, rtask, rpend, rwork, rres>>
    BY <1>0 DEF SendNotify, given, receiverVars
  <1>2. /\ imm.type = "imm" /\ imm.x = x /\ imm.gen = sgen[x] /\ imm.chunk = i
        /\ imm.tag = ClientTag(ClientKey[x], i, N(x))
    BY <1>0, <1>1, WorkerHolds DEF Notify
  <1>3. /\ here.type = "done" /\ here.x = x /\ here.gen = sgen[x] /\ here.chunk = i
        /\ here.tag.key = ServerKey[x] /\ here.tag.id = MaxChunkNum
    BY <1>0, <1>2 DEF Done, NotifyTag, ServerTag, ConstructedTag, Tag
  <1>4. \A m \in wire' : m \in wire \/ \A y \in Transfers : ~IsMove(m, y)
    BY <1>1, <1>2, <1>3 DEF IsMove
  <1>5. \A y \in Transfers : y # x => stask'[y] = stask[y] /\ swork'[y] = swork[y]
    BY <1>1, SendMarkPoints, Functions
  <1>6. Chain'
    <2>1. CASE i + 1 < N(x)
      <3>1. swork'[x] = [swork[x] EXCEPT !.at = "write"] /\ stask' = stask
        BY <1>1, <2>1, Functions
      <3>2. swork[x] \in SendWork
        BY <1>1 DEF IInv, Shape
      <3>3. swork'[x].task = swork[x].task /\ swork'[x].gen = swork[x].gen
        BY <3>1, <3>2 DEF SendWork
      <3>4. ASSUME NEW y \in Transfers, y # x PROVE ChainOf(y)'
        BY <1>1, <1>4, <1>5, <3>4, ChainFrame DEF DInv, Chain
      <3>5. ChainOf(x)'
        <4>1. \A m \in wire' : ~IsMove(m, x)
          BY <1>1, <1>4, WorkerHolds
        <4>2. spend'[x] = 0 /\ spc'[x] # "first"
          BY <1>1, WorkerHolds
        <4>3. swork'[x].gen = sgen'[x] /\ LandedBefore(x, swork'[x].task + 1)
          BY <1>1, <3>3, WorkerHolds
        <4>4. LandedBefore(x, swork[x].task + 1)'
          BY <1>1, <3>3, WorkerHolds DEF LandedBefore, Landed
        <4>5. (NoneQueued(x) \/ QueuedFrom(x, swork[x].task + 1))'
          BY <1>1, <3>1, <3>3, WorkerHolds DEF NoneQueued, QueuedFrom
        <4>6. \A k \in Chunks(len'[x]) : stask'[x][k] = "ok" => Landed(x, sgen[x], k)'
          BY <1>1, <3>1 DEF DInv, Chain, ChainOf, Landed
        <4> QED BY <4>1, <4>2, <4>3, <4>4, <4>5, <4>6 DEF ChainOf
      <3> QED BY <3>4, <3>5 DEF Chain
    <2>2. CASE ~(i + 1 < N(x))
      BY <1>1, <1>4, <2>2, SendLetsGo
    <2> QED BY <2>1, <2>2
  <1>7. Carried'
    <2>1. /\ i \in Chunks(len[x]) /\ Landed(x, sgen[x], i)
      BY <1>1, WorkerHolds
    <2>2. Carries(imm)'
      BY <1>1, <1>2, <2>1 DEF Carries, Landed, N
    <2>3. Carries(here)'
      BY <1>1, <1>3, <2>1 DEF Carries
    <2> QED BY <1>1, <2>2, <2>3, CarriedFrame DEF DInv
  <1>8. InStep'
    BY <1>1, <1>2, <1>3, <1>5, SendWorkerInStep
  <1>9. SendOkMeansDelivered'
    BY <1>1, DeliveredFrame DEF DInv
  <1> QED BY <1>1, <1>6, <1>7, <1>8, <1>9, ReceiverFrame DEF DInv

-----------------------------------------------------------------------------
(* One lemma per action of the fabric and of the polling threads.          *)
LEMMA WriteLandsDInv ==
    ASSUME IInv, DInv, NEW w \in wire, WriteLands(w)
    PROVE  DInv'
  <1>0. PICK m : m = Done(w, w.tag)
    OBVIOUS
  <1>1. /\ w.type = "write" /\ wire' = (wire \ {w}) \cup {m}
        /\ landed' = landed \cup {<<w.x, w.gen, w.chunk>>}
        /\ UNCHANGED <<len, attempts, spc, sgen, stask, spend, swork, sres, cq, rpoll>>
        /\ UNCHANGED <<rgen, rtask, rpend, rwork, rres>>
    BY <1>0 DEF WriteLands, given, senderVars, receiverVars
  <1>2. m.type = "done" /\ m.x = w.x /\ m.gen = w.gen /\ m.chunk = w.chunk /\ m.tag = w.tag
    BY <1>0 DEF Done
  <1>3. w.x \in Transfers /\ Carries(w) /\ IsMove(w, w.x) /\ w.chunk \in Nat
    BY <1>1, Functions, Typed DEF DInv, Carried, Carries, IsMove
  <1>4. Chain'
    <2>1. ASSUME NEW y \in Transfers, y # w.x PROVE ChainOf(y)'
      <3>1. \A k \in wire' : IsMove(k, y) => k \in wire
        BY <1>1, <1>2, <2>1 DEF IsMove
      <3> QED BY <1>1, <2>1, <3>1, ChainFrame DEF DInv, Chain
    <2>2. ChainOf(w.x)'
      <3> DEFINE x == w.x
      <3>1. ChainOf(x)
        BY <1>3 DEF DInv, Chain
      <3>2. /\ \A k \in wire : IsMove(k, x) => k = w
            /\ spend[x] = 0 /\ swork[x] = None /\ spc[x] # "first"
            /\ LandedBefore(x, w.chunk)
            /\ NoneQueued(x) \/ QueuedFrom(x, w.chunk)
        BY <1>1, <1>3, <3>1 DEF ChainOf, Still
      <3>3. \A k \in wire' : IsMove(k, x) => k = m
        BY <1>1, <3>2
      <3>4. LandedBefore(x, w.chunk + 1)'
        BY <1>1, <1>3, <3>2, Typed DEF LandedBefore, Landed, Carries
      <3>5. (NoneQueued(x) \/ QueuedFrom(x, w.chunk))'
        BY <1>1, <3>2 DEF NoneQueued, QueuedFrom
      <3>6. \A k \in Chunks(len'[x]) : stask'[x][k] = "ok" => Landed(x, sgen[x], k)'
        BY <1>1, <3>1 DEF ChainOf, Landed
      <3> QED BY <1>1, <1>2, <3>2, <3>3, <3>4, <3>5, <3>6 DEF ChainOf
    <2> QED BY <2>1, <2>2 DEF Chain
  <1>5. Carried'
    <2>1. Carries(m)'
      BY <1>1, <1>2, <1>3 DEF Carries
    <2> QED BY <1>1, <2>1, CarriedFrame DEF DInv
  <1>6. InStep'
    <2>1. ASSUME NEW y \in Transfers
          PROVE  (OnlySender(y) => OnlySender(y)') /\ (OnlyReceiver(y) => OnlyReceiver(y)')
      BY <1>1, <1>2 DEF OnlySender, OnlyReceiver, Chunks, NumChunks
    <2> QED BY <1>1, <2>1 DEF DInv, InStep
  <1>7. SendOkMeansDelivered'
    BY <1>1, DeliveredFrame DEF DInv
  <1> QED BY <1>1, <1>4, <1>5, <1>6, <1>7, ReceiverFrame DEF DInv

(* A completion wakes the worker of its own transfer, if it still has      *)
(* tasks: identifiers differ, and the number tells a chunk's completion    *)
(* from a notification's.                                                  *)
LEMMA LocalCompletionDInv ==
    ASSUME IInv, DInv, NEW m \in wire, LocalCompletion(m)
    PROVE  DInv'
  <1>1. /\ m.type = "done" /\ wire' = wire \ {m}
        /\ UNCHANGED <<len, attempts, spc, sgen, stask, swork, sres, cq, rpoll, landed>>
        /\ UNCHANGED <<rgen, rtask, rpend, rwork, rres>>
    BY DEF LocalCompletion, given, receiverVars
  <1>2. /\ m.x \in Transfers /\ Carries(m) /\ m.tag.key = ServerKey[m.x] /\ m.chunk \in Nat
        /\ m.tag.id \in 0 .. MaxChunkNum /\ m.chunk \in Chunks(len[m.x])
    BY <1>1, Functions, Typed DEF DInv, Carried, Carries, Message
  <1>3. IgnoredAtSender(m.tag) <=> m.tag.id = MaxChunkNum
    BY <1>2, SplitAssumption DEF IgnoredAtSender
  <1>4. \A y \in Transfers :
          spend'[y] = IF y = m.x /\ m.tag.id # MaxChunkNum /\ SendContext(m.x)
                        THEN spend[y] + 1 ELSE spend[y]
    BY <1>2, <1>3, KeysAssumption DEF LocalCompletion
  <1>5. Chain'
    <2>1. ASSUME NEW y \in Transfers, spend'[y] = spend[y] PROVE ChainOf(y)'
      BY <1>1, <2>1, ChainFrame DEF DInv, Chain
    <2>2. ASSUME m.tag.id # MaxChunkNum, SendContext(m.x) PROVE ChainOf(m.x)'
      <3>1. ChainOf(m.x) /\ IsMove(m, m.x)
        BY <1>1, <1>2, <2>2 DEF DInv, Chain, IsMove
      <3>2. /\ \A k \in wire : IsMove(k, m.x) => k = m
            /\ spend[m.x] = 0 /\ swork[m.x] = None /\ spc[m.x] # "first"
            /\ LandedBefore(m.x, m.chunk + 1)
            /\ NoneQueued(m.x) \/ QueuedFrom(m.x, m.chunk)
        BY <1>1, <3>1 DEF ChainOf, Still
      <3>3. QueuedFrom(m.x, m.chunk)
        BY <2>2, <3>2 DEF SendContext, SIn, NoneQueued
      <3>4. \A k \in wire' : ~IsMove(k, m.x)
        BY <1>1, <3>2
      <3>5. spend'[m.x] = 1
        BY <1>2, <1>4, <2>2, <3>2
      <3>6. QueuedFrom(m.x, m.chunk)' /\ LandedBefore(m.x, m.chunk + 1)'
        BY <1>1, <3>2, <3>3 DEF QueuedFrom, LandedBefore, Landed
      <3>7. \A k \in Chunks(len'[m.x]) : stask'[m.x][k] = "ok" => Landed(m.x, sgen[m.x], k)'
        BY <1>1, <3>1 DEF ChainOf, Landed
      <3> QED BY <1>1, <1>2, <3>2, <3>4, <3>5, <3>6, <3>7 DEF ChainOf
    <2> QED BY <1>4, <2>1, <2>2 DEF Chain
  <1>6. Carried'
    BY <1>1, CarriedFrame DEF DInv
  <1>7. InStep'
    <2>1. ASSUME NEW y \in Transfers
          PROVE  (OnlySender(y) => OnlySender(y)') /\ (OnlyReceiver(y) => OnlyReceiver(y)')
      BY <1>1, <1>2, <1>4 DEF OnlySender, OnlyReceiver, Chunks, NumChunks
    <2> QED BY <1>1, <2>1 DEF DInv, InStep
  <1>8. SendOkMeansDelivered'
    BY <1>1, DeliveredFrame DEF DInv
  <1> QED BY <1>1, <1>5, <1>6, <1>7, <1>8, ReceiverFrame DEF DInv

LEMMA NotificationArrivesDInv ==
    ASSUME IInv, DInv, NEW m \in wire, NotificationArrives(m)
    PROVE  DInv'
  <1>1. /\ wire' = wire \ {m} /\ cq' = cq \cup {m}
        /\ UNCHANGED <<len, attempts, spc, sgen, stask, spend, swork, sres, rpoll, landed>>
        /\ UNCHANGED <<rgen, rtask, rpend, rwork, rres>>
    BY DEF NotificationArrives, given, senderVars, receiverVars
  <1>2. Chain'
    <2>1. ASSUME NEW y \in Transfers PROVE ChainOf(y)'
      BY <1>1, ChainFrame DEF DInv, Chain
    <2> QED BY <2>1 DEF Chain
  <1>3. Carried'
    BY <1>1, CarriedFrame DEF DInv
  <1>4. InStep'
    <2>1. ASSUME NEW y \in Transfers
          PROVE  (OnlySender(y) => OnlySender(y)') /\ (OnlyReceiver(y) => OnlyReceiver(y)')
      BY <1>1 DEF OnlySender, OnlyReceiver, Chunks, NumChunks
    <2> QED BY <1>1, <2>1 DEF DInv, InStep
  <1>5. SendOkMeansDelivered'
    BY <1>1, DeliveredFrame DEF DInv
  <1> QED BY <1>1, <1>2, <1>3, <1>4, <1>5, ReceiverFrame DEF DInv

(* A step at the receiver keeps what is said of the sender and the wire.   *)
LEMMA SendersFrame ==
    ASSUME IInv, DInv, UNCHANGED <<len, spc, sgen, stask, spend, swork, sres, wire, landed>>,
           cq' \subseteq cq, rpoll' # None => rpoll' = rpoll \/ rpoll' \in cq
    PROVE  Chain' /\ Carried' /\ SendOkMeansDelivered'
  <1>1. ASSUME NEW y \in Transfers PROVE ChainOf(y)'
    BY ChainFrame DEF DInv, Chain
  <1>2. Chain'
    BY <1>1 DEF Chain
  <1>3. Carried'
    BY CarriedFrame DEF DInv
  <1>4. SendOkMeansDelivered'
    BY DeliveredFrame DEF DInv
  <1> QED BY <1>2, <1>3, <1>4

LEMMA RecvPollDInv ==
    ASSUME IInv, DInv, NEW m \in cq, RecvPoll(m)
    PROVE  DInv'
  <1>1. /\ rpoll' = m /\ cq' = cq \ {m}
        /\ UNCHANGED <<len, attempts, spc, sgen, stask, spend, swork, sres, wire, landed>>
        /\ UNCHANGED <<rgen, rtask, rpend, rwork, rres>>
    BY DEF RecvPoll, given, senderVars, receiverVars
  <1>2. InStep'
    <2>1. ASSUME NEW y \in Transfers
          PROVE  (OnlySender(y) => OnlySender(y)') /\ (OnlyReceiver(y) => OnlyReceiver(y)')
      BY <1>1 DEF OnlySender, OnlyReceiver, Chunks, NumChunks
    <2> QED BY <1>1, <2>1 DEF DInv, InStep
  <1> QED BY <1>1, <1>2, SendersFrame, ReceiverFrame DEF DInv

(* The elements of a list that has grown at its end.                       *)
LEMMA Appended ==
    ASSUME NEW S, NEW s \in Seq(S), NEW e \in S, NEW k \in 1 .. Len(Append(s, e))
    PROVE  /\ k \in 1 .. Len(s) => Append(s, e)[k] = s[k]
           /\ k \notin 1 .. Len(s) => Append(s, e)[k] = e
  OBVIOUS

(* An announcement that is decoded has the identifier of its own transfer  *)
(* and the number of its chunk.                                            *)
LEMMA DecodedContext ==
    ASSUME IInv, Carried, NEW m \in Message, m.type = "imm", Carries(m)
    PROVE  /\ m.x \in Transfers /\ sgen[m.x] > 0
           /\ DecodedTag(m.tag) = ExpectedTag(ClientKey[m.x], m.chunk, N(m.x))
           /\ \A y \in Transfers : ClientKey[y] = DecodedTag(m.tag).key <=> y = m.x
           /\ DecodedTag(m.tag).id = m.chunk
  <1>1. m.x \in Transfers /\ m.gen = sgen[m.x] /\ m.chunk \in Chunks(len[m.x])
    BY Functions DEF Carries
  <1>2. sgen[m.x] > 0
    <2>1. m.gen \in 1 .. attempts /\ attempts \in Nat
      BY DEF Message, IInv, Shape
    <2> QED BY <1>1, <2>1
  <1>3. ClientKey[m.x] \in RawIds
    BY <1>1, <1>2 DEF Carried, is_request_id_valid
  <1>4. N(m.x) \in Nat /\ N(m.x) >= 2 /\ m.chunk \in 0 .. N(m.x) - 1
    BY <1>1, <1>2, Attempted, Typed
  <1>5. DecodedTag(m.tag) = ExpectedTag(ClientKey[m.x], m.chunk, N(m.x))
    BY <1>3, <1>4, NotificationMatches DEF Carries
  <1>6. DecodedTag(m.tag).key = ClientKey[m.x] /\ DecodedTag(m.tag).id = m.chunk
    BY <1>5 DEF ExpectedTag, Tag
  <1> QED BY <1>1, <1>2, <1>5, <1>6, KeysAssumption

(* What is dispatched goes to the receiver it is for, which is making the  *)
(* attempt it is about: were it behind, it would have no task, and were    *)
(* its peer behind, nothing would be under way.                            *)
LEMMA RecvDispatchDInv ==
    ASSUME IInv, DInv, RecvDispatch
    PROVE  DInv'
  <1>0. PICK m : m = [rpoll EXCEPT !.tag = DecodedTag(@)]
    OBVIOUS
  <1>1. /\ rpoll # None /\ rpoll' = None
        /\ UNCHANGED <<len, attempts, spc, sgen, stask, spend, swork, sres, cq, wire, landed>>
        /\ UNCHANGED <<rgen, rtask, rwork, rres>>
    BY DEF RecvDispatch, given, senderVars
  <1>2. rpoll \in Message /\ rpoll.type = "imm" /\ Carries(rpoll)
    BY <1>1, Functions DEF DInv, Carried
  <1>3. PICK x \in Transfers : x = rpoll.x
    BY <1>2, Functions
  <1>4. DecodedTag(rpoll.tag) \in TagType
    <2>1. rpoll.tag \in TagType /\ rpoll.tag.key \in SUBSET (0 .. RequestIdBits - 1)
      BY <1>2 DEF Message, TagType
    <2>2. decode_request_id(rpoll.tag.key) \in SUBSET (0 .. RequestIdBits - 1)
      BY <2>1, EncodedBits
    <2> QED BY <2>1, <2>2 DEF DecodedTag, TagType
  <1>5. /\ m \in Message /\ m.x = x /\ m.gen = rpoll.gen /\ m.chunk = rpoll.chunk
        /\ m.tag = DecodedTag(rpoll.tag)
    <2>1. /\ rpoll.tag \in TagType
          /\ Message = [type : {"write", "imm", "done"}, x : Transfers, gen : 1 .. attempts,
                        chunk : 0 .. MaxChunkNum - 1, tag : TagType]
      BY <1>2 DEF Message, TagType
    <2> QED BY <1>0, <1>2, <1>3, <1>4, <2>1
  <1>6. m.tag.id = m.chunk /\ m.gen = sgen[x] /\ Landed(x, m.gen, m.chunk)
    BY <1>2, <1>3, <1>5, DecodedContext DEF DInv, Carries
  <1>7. /\ rpend' \in [Transfers -> Seq(Message)]
        /\ \A y \in Transfers :
             rpend'[y] = IF y = x /\ RecvContext(x) THEN Append(rpend[x], m) ELSE rpend[y]
    <2>1. \A y \in Transfers : ClientKey[y] = DecodedTag(rpoll.tag).key <=> y = x
      <3>1. Carried
        BY DEF DInv
      <3> QED BY <1>2, <1>3, <3>1, DecodedContext
    <2>2. rpend' = [y \in Transfers |-> IF y = x /\ RecvContext(x) THEN Append(rpend[x], m)
                                                                  ELSE rpend[y]]
      BY <1>0, <2>1 DEF RecvDispatch
    <2> QED BY <1>5, <2>2 DEF DInv, Dispatched
  <1>8. RecvContext(x) => sgen[x] = rgen[x]
    <2>1. ~OnlyReceiver(x)
      BY <1>1, <1>3 DEF OnlyReceiver
    <2>2. RecvContext(x) => ~OnlySender(x)
      BY DEF RecvContext, OnlySender, RIn
    <2> QED BY <2>1, <2>2 DEF DInv, InStep
  <1>9. Dispatched'
    <2>1. Message' = Message
      BY <1>1 DEF Message
    <2>2. ASSUME NEW y \in Transfers, NEW k \in 1 .. Len(rpend'[y])
          PROVE  LET v == rpend'[y][k]
                 IN  /\ v.x = y /\ v.gen = rgen[y] /\ v.tag.id = v.chunk
                     /\ <<y, v.gen, v.chunk>> \in landed
      <3>1. rpend[y] \in Seq(Message)
        BY DEF DInv, Dispatched
      <3>2. CASE k \in 1 .. Len(rpend[y])
        <4>1. rpend'[y][k] = rpend[y][k]
          <5>1. CASE y = x /\ RecvContext(x)
            BY <1>5, <1>7, <2>2, <3>1, <3>2, <5>1, Appended
          <5>2. CASE ~(y = x /\ RecvContext(x))
            BY <1>7, <5>2
          <5> QED BY <5>1, <5>2
        <4>2. Wakes(rpend[y][k], y)
          BY <3>2 DEF DInv, Dispatched
        <4> QED BY <1>1, <4>1, <4>2 DEF Wakes, Landed
      <3>3. CASE k \notin 1 .. Len(rpend[y])
        <4>1. y = x /\ RecvContext(x)
          BY <1>7, <2>2, <3>3
        <4>2. rpend'[y][k] = m
          BY <1>5, <1>7, <2>2, <3>1, <3>3, <4>1, Appended
        <4> QED BY <1>1, <1>5, <1>6, <1>8, <4>1, <4>2 DEF Wakes, Landed
      <3> QED BY <3>2, <3>3
    <2> QED BY <1>1, <1>7, <2>1, <2>2 DEF Dispatched, Wakes, Landed
  <1>10. InStep'
    <2>1. ASSUME NEW y \in Transfers, y # x \/ ~RecvContext(x)
          PROVE  (OnlySender(y) => OnlySender(y)') /\ (OnlyReceiver(y) => OnlyReceiver(y)')
      BY <1>1, <1>7, <2>1 DEF OnlySender, OnlyReceiver, Chunks, NumChunks
    <2> QED BY <1>1, <1>8, <2>1 DEF DInv, InStep
  <1>11. CallbackSeesData' /\ Arrived'
    BY <1>1 DEF DInv, CallbackSeesData, Arrived, Landed, Chunks, NumChunks
  <1> QED BY <1>1, <1>9, <1>10, <1>11, SendersFrame DEF DInv

-----------------------------------------------------------------------------
(* One lemma per action of the receiver.  The task that matches a wakeup   *)
(* has the number of the chunk that was announced.                         *)
LEMMA RecvTakeDInv ==
    ASSUME IInv, DInv, NEW x \in Transfers, RecvTake(x)
    PROVE  DInv'
  <1>0. PICK m : m = Head(rpend[x])
    OBVIOUS
  <1>1. /\ rwork[x] = None /\ rpend[x] # <<>>
        /\ UNCHANGED <<len, attempts, spc, sgen, stask, spend, swork, sres>>
        /\ UNCHANGED <<cq, rpoll, wire, landed, rgen, rres>>
    BY DEF RecvTake, given, senderVars, fabricVars
  <1>2. rpend \in [Transfers -> Seq(Message)] /\ rpend[x] \in Seq(Message)
    BY DEF DInv, Dispatched
  <1>3. /\ rpend' \in [Transfers -> Seq(Message)]
        /\ \A y \in Transfers : rpend'[y] = IF y = x THEN Tail(rpend[x]) ELSE rpend[y]
    BY <1>1, <1>2 DEF RecvTake
  <1>4. /\ 1 \in 1 .. Len(rpend[x]) /\ m = rpend[x][1]
        /\ \A k \in 1 .. Len(Tail(rpend[x])) :
             k + 1 \in 1 .. Len(rpend[x]) /\ Tail(rpend[x])[k] = rpend[x][k + 1]
    BY <1>0, <1>1, <1>2
  <1>5. m.x = x /\ m.gen = rgen[x] /\ m.tag.id = m.chunk /\ <<x, rgen[x], m.chunk>> \in landed
    BY <1>4 DEF DInv, Dispatched, Wakes, Landed
  <1>6. /\ \A y \in Transfers : y # x => rtask'[y] = rtask[y] /\ rwork'[y] = rwork[y]
        /\ \A i \in Chunks(len[x]) : rtask'[x][i] \in {"running", rtask[x][i]}
        /\ rwork'[x] # None =>
             rwork'[x] = [task |-> m.chunk, gen |-> rgen[x], msg |-> m]
    <2>1. CASE RMatching(x, m) = {}
      BY <1>0, <1>1, <2>1 DEF RecvTake
    <2>2. CASE RMatching(x, m) # {}
      <3>1. PICK i \in RMatching(x, m) :
              /\ rtask' = [rtask EXCEPT ![x][i] = "running"]
              /\ rwork' = [rwork EXCEPT ![x] = [task |-> i, gen |-> rgen[x], msg |-> m]]
        BY <1>0, <2>2 DEF RecvTake
      <3>2. i \in Chunks(len[x]) /\ ExpectedTag(ClientKey[x], i, N(x)) = m.tag
        BY <3>1 DEF RMatching, RIn
      <3>3. i = m.chunk
        BY <1>5, <3>2 DEF ExpectedTag, Tag
      <3>4. rtask'[x] = [rtask[x] EXCEPT ![i] = "running"]
        BY <3>1, Functions
      <3> QED BY <3>1, <3>2, <3>3, <3>4, Functions, Typed
    <2> QED BY <2>1, <2>2
  <1>7. Dispatched'
    <2>1. Message' = Message
      BY <1>1 DEF Message
    <2>2. ASSUME NEW y \in Transfers, NEW k \in 1 .. Len(rpend'[y])
          PROVE  LET v == rpend'[y][k]
                 IN  /\ v.x = y /\ v.gen = rgen[y] /\ v.tag.id = v.chunk
                     /\ <<y, v.gen, v.chunk>> \in landed
      <3>1. PICK j \in 1 .. Len(rpend[y]) : rpend'[y][k] = rpend[y][j]
        BY <1>3, <1>4
      <3> QED BY <3>1 DEF DInv, Dispatched, Wakes, Landed
    <2> QED BY <1>1, <1>3, <2>1, <2>2 DEF Dispatched, Wakes, Landed
  <1>8. CallbackSeesData'
    <2> SUFFICES ASSUME NEW y \in Transfers, rwork'[y] # None
                 PROVE  LET w == rwork'[y]
                        IN  /\ w.msg.x = y /\ w.msg.gen = w.gen
                            /\ w.msg.chunk = w.task /\ w.msg.tag.id = w.task
                            /\ <<y, w.gen, w.task>> \in landed
      BY <1>1 DEF CallbackSeesData
    <2>1. CASE y = x
      BY <1>5, <1>6, <2>1
    <2>2. CASE y # x
      BY <1>6, <2>2 DEF DInv, CallbackSeesData
    <2> QED BY <2>1, <2>2
  <1>9. Arrived'
    <2>1. ASSUME NEW y \in Transfers, NEW i \in Chunks(len[y]), rtask'[y][i] = "ok"
          PROVE  rtask[y][i] = "ok"
      BY <1>6, <2>1
    <2> QED BY <1>1, <2>1 DEF DInv, Arrived, Landed, Chunks, NumChunks
  <1>10. InStep'
    <2>1. ~OnlySender(x) /\ ~OnlyReceiver(x)
      BY <1>1 DEF OnlySender, OnlyReceiver
    <2>2. ASSUME NEW y \in Transfers, y # x
          PROVE  (OnlySender(y) => OnlySender(y)') /\ (OnlyReceiver(y) => OnlyReceiver(y)')
      BY <1>1, <1>3, <1>6, <2>2 DEF OnlySender, OnlyReceiver, Chunks, NumChunks
    <2> QED BY <1>1, <2>1, <2>2 DEF DInv, InStep
  <1> QED BY <1>1, <1>7, <1>8, <1>9, <1>10, SendersFrame DEF DInv

(* A task of the attempt that returns has seen its chunk.                  *)
LEMMA RecvMarkDInv ==
    ASSUME IInv, DInv, NEW x \in Transfers, NEW outcome \in {"ok", "failed"},
           RecvMark(x, outcome)
    PROVE  DInv'
  <1>1. /\ rwork[x] # None
        /\ UNCHANGED <<len, attempts, spc, sgen, stask, spend, swork, sres>>
        /\ UNCHANGED <<cq, rpoll, wire, landed, rgen, rpend, rres>>
    BY DEF RecvMark, given, senderVars, fabricVars
  <1>2. /\ \A y \in Transfers : y # x => rtask'[y] = rtask[y] /\ rwork'[y] = rwork[y]
        /\ rwork'[x] = None
        /\ \A i \in Chunks(len[x]) :
             \/ rtask'[x][i] = rtask[x][i]
             \/ rwork[x].gen = rgen[x] /\ rwork[x].task = i /\ rtask'[x][i] = outcome
    <2>1. rtask'[x] = IF rwork[x].gen = rgen[x]
                        THEN [rtask[x] EXCEPT ![rwork[x].task] = outcome] ELSE rtask[x]
      BY Functions DEF RecvMark
    <2>2. rtask[x] \in [Chunks(len[x]) -> TaskStates]
      BY Typed
    <2>3. /\ \A y \in Transfers : y # x => rtask'[y] = rtask[y] /\ rwork'[y] = rwork[y]
          /\ rwork'[x] = None
      BY Functions DEF RecvMark
    <2> QED BY <2>1, <2>2, <2>3
  <1>3. Dispatched'
    BY <1>1 DEF DInv, Dispatched, Wakes, Landed, Message
  <1>4. CallbackSeesData'
    BY <1>1, <1>2 DEF DInv, CallbackSeesData
  <1>5. Arrived'
    <2>1. ASSUME NEW y \in Transfers, NEW i \in Chunks(len[y]), rtask'[y][i] = "ok"
          PROVE  <<y, rgen[y], i>> \in landed
      <3>1. CASE rtask[y][i] = "ok"
        BY <3>1 DEF DInv, Arrived, Landed
      <3>2. CASE rtask[y][i] # "ok"
        BY <1>1, <1>2, <2>1, <3>2 DEF DInv, CallbackSeesData
      <3> QED BY <3>1, <3>2
    <2> QED BY <1>1, <2>1 DEF DInv, Arrived, Landed, Chunks, NumChunks
  <1>6. InStep'
    <2>1. ~OnlySender(x) /\ ~OnlyReceiver(x)
      BY <1>1 DEF OnlySender, OnlyReceiver
    <2>2. ASSUME NEW y \in Transfers, y # x
          PROVE  (OnlySender(y) => OnlySender(y)') /\ (OnlyReceiver(y) => OnlyReceiver(y)')
      BY <1>1, <1>2, <2>2 DEF OnlySender, OnlyReceiver, Chunks, NumChunks
    <2> QED BY <1>1, <2>1, <2>2 DEF DInv, InStep
  <1> QED BY <1>1, <1>3, <1>4, <1>5, <1>6, SendersFrame DEF DInv

LEMMA RecvRegisterDInv ==
    ASSUME IInv, DInv, CarefulReuse, NEW x \in Transfers, RecvRegister(x)
    PROVE  DInv'
  <1>1. /\ MayBegin(x, rgen[x], sgen[x], CallOver(spc[x]))
        /\ UNCHANGED <<len, attempts, spc, sgen, stask, spend, swork, sres>>
        /\ UNCHANGED <<cq, rpoll, wire, landed, rpend, rwork>>
    BY DEF RecvRegister, given, senderVars, fabricVars
  <1>2. \A y \in Transfers :
          /\ rgen'[y] = IF y = x THEN rgen[x] + 1 ELSE rgen[y]
          /\ rtask'[y] = IF y = x THEN AllTasks(x, "queued") ELSE rtask[y]
          /\ rres'[y] = IF y = x THEN "none" ELSE rres[y]
    BY Functions DEF RecvRegister
  <1>3. /\ rpend[x] = <<>> /\ rwork[x] = None
        /\ \/ rgen[x] = sgen[x] /\ OnlyReceiver(x)
           \/ sgen[x] = rgen[x] + 1
    <2>1. CASE sgen[x] = rgen[x] + 1
      BY <2>1, Typed DEF DInv, InStep, OnlySender
    <2>2. CASE sgen[x] = rgen[x] /\ CallOver(spc[x]) /\ Drained(x)
      <3>1. spc[x] = "idle"
        BY <2>2 DEF CallOver, IInv, TypeOK
      <3> QED BY <2>2, <3>1 DEF Drained, OnlyReceiver
    <2> QED BY <1>1, <2>1, <2>2 DEF MayBegin
  <1>4. Dispatched'
    <2>1. Message' = Message
      BY <1>1 DEF Message
    <2>2. ASSUME NEW y \in Transfers, NEW k \in 1 .. Len(rpend[y])
          PROVE  LET v == rpend[y][k]
                 IN  /\ v.x = y /\ v.gen = rgen'[y] /\ v.tag.id = v.chunk
                     /\ <<y, v.gen, v.chunk>> \in landed
      <3>1. y # x
        BY <1>3, <2>2
      <3> QED BY <1>2, <3>1 DEF DInv, Dispatched, Wakes, Landed
    <2>3. rpend \in [Transfers -> Seq(Message)]
      BY DEF DInv, Dispatched
    <2> QED BY <1>1, <2>1, <2>2, <2>3 DEF Dispatched, Wakes, Landed
  <1>5. CallbackSeesData'
    BY <1>1 DEF DInv, CallbackSeesData
  <1>6. Arrived'
    <2>1. ASSUME NEW y \in Transfers
          PROVE  /\ \A i \in Chunks(len[y]) : rtask'[y][i] = "ok" => <<y, rgen'[y], i>> \in landed
                 /\ rres'[y] = "OK" => \A i \in Chunks(len[y]) : <<y, rgen'[y], i>> \in landed
      <3>1. CASE y = x
        BY <1>2, <3>1 DEF AllTasks
      <3>2. CASE y # x
        BY <1>2, <3>2 DEF DInv, Arrived, Landed
      <3> QED BY <3>1, <3>2
    <2> QED BY <1>1, <2>1 DEF Arrived, Landed, Chunks, NumChunks
  <1>7. InStep'
    <2>1. ASSUME NEW y \in Transfers
          PROVE  /\ OnlyReceiver(y)' <=> OnlyReceiver(y)
                 /\ y # x /\ OnlySender(y) => OnlySender(y)'
      BY <1>1, <1>2 DEF OnlySender, OnlyReceiver, Chunks, NumChunks
    <2> QED BY <1>1, <1>2, <1>3, <2>1, Typed DEF DInv, InStep
  <1> QED BY <1>1, <1>4, <1>5, <1>6, <1>7, SendersFrame DEF DInv

(* Steps of the caller that leave its tasks alone.                         *)
LEMMA RecvCallerDInv ==
    ASSUME IInv, DInv,
           UNCHANGED <<len, attempts, spc, sgen, stask, spend, swork, sres>>,
           UNCHANGED <<cq, rpoll, wire, landed, rgen, rtask, rpend, rwork>>,
           \A x \in Transfers : rres'[x] = "OK" =>
             rres[x] = "OK" \/ \A i \in Chunks(len[x]) : rtask[x][i] = "ok"
    PROVE  DInv'
  <1>1. Dispatched' /\ CallbackSeesData'
    <2>1. Message' = Message /\ Dispatched
      BY DEF DInv, Message
    <2>2. Dispatched'
      BY <2>1 DEF Dispatched, Wakes, Landed
    <2> QED BY <2>2 DEF DInv, CallbackSeesData
  <1>2. Arrived'
    <2>1. ASSUME NEW y \in Transfers, rres'[y] = "OK", NEW i \in Chunks(len[y])
          PROVE  <<y, rgen[y], i>> \in landed
      BY <2>1 DEF DInv, Arrived, Landed
    <2> QED BY <2>1 DEF DInv, Arrived, Landed, Chunks, NumChunks
  <1>3. InStep'
    <2>1. ASSUME NEW y \in Transfers
          PROVE  (OnlySender(y) => OnlySender(y)') /\ (OnlyReceiver(y) => OnlyReceiver(y)')
      BY DEF OnlySender, OnlyReceiver, Chunks, NumChunks
    <2> QED BY <2>1 DEF DInv, InStep
  <1> QED BY <1>1, <1>2, <1>3, SendersFrame DEF DInv

LEMMA RecvCallDInv ==
    ASSUME IInv, DInv, NEW x \in Transfers,
           \/ RecvTestJetty(x) \/ RecvLockQueue(x) \/ RecvFill(x)
           \/ RecvFillEnds(x) \/ RecvFillFails(x) \/ RecvReturnsOk(x)
    PROVE  DInv'
  <1>1. /\ UNCHANGED <<len, attempts, spc, sgen, stask, spend, swork, sres>>
        /\ UNCHANGED <<cq, rpoll, wire, landed, rgen, rtask, rpend, rwork>>
    BY DEF RecvTestJetty, RecvLockQueue, RecvFill, RecvFillEnds, RecvFillFails, RecvReturnsOk,
           given, senderVars, receiverVars, fabricVars
  <1>2. \A y \in Transfers : rres'[y] = "OK" =>
          rres[y] = "OK" \/ \A i \in Chunks(len[y]) : rtask[y][i] = "ok"
    BY Functions DEF RecvTestJetty, RecvLockQueue, RecvFill, RecvFillEnds, RecvFillFails,
           RecvReturnsOk, receiverVars, RIn
  <1> QED BY <1>1, <1>2, RecvCallerDInv

LEMMA RecvEndsWithErrorDInv ==
    ASSUME IInv, DInv, NEW x \in Transfers, RecvEndsWithError(x)
    PROVE  DInv'
  <1>1. /\ UNCHANGED <<len, attempts, spc, sgen, stask, spend, swork, sres>>
        /\ UNCHANGED <<cq, rpoll, wire, landed, rgen, rwork>>
    BY DEF RecvEndsWithError, given, senderVars, fabricVars
  <1>2. rpend \in [Transfers -> Seq(Message)]
    BY DEF DInv, Dispatched
  <1>3. \A y \in Transfers :
          /\ rtask'[y] = IF y = x THEN Canceled(rtask[x]) ELSE rtask[y]
          /\ rpend'[y] = IF y = x THEN <<>> ELSE rpend[y]
          /\ rres'[y] = IF y = x THEN "ERROR" ELSE rres[y]
    BY <1>2, Functions DEF RecvEndsWithError
  <1>4. \A i \in Chunks(len[x]) :
          rtask'[x][i] = IF rtask[x][i] = "queued" THEN "canceled" ELSE rtask[x][i]
    BY <1>3, Typed DEF Canceled
  <1>5. Dispatched'
    <2>1. rpend' \in [Transfers -> Seq(Message)]
      BY <1>2 DEF RecvEndsWithError
    <2>2. ASSUME NEW y \in Transfers, NEW k \in 1 .. Len(rpend'[y])
          PROVE  LET v == rpend'[y][k]
                 IN  /\ v.x = y /\ v.gen = rgen[y] /\ v.tag.id = v.chunk
                     /\ <<y, v.gen, v.chunk>> \in landed
      <3>1. k \in 1 .. Len(rpend[y]) /\ rpend'[y][k] = rpend[y][k]
        BY <1>2, <1>3
      <3> QED BY <3>1 DEF DInv, Dispatched, Wakes, Landed
    <2>3. Message' = Message
      BY <1>1 DEF Message
    <2> QED BY <1>1, <2>1, <2>2, <2>3 DEF Dispatched, Wakes, Landed
  <1>6. CallbackSeesData'
    BY <1>1 DEF DInv, CallbackSeesData
  <1>7. Arrived'
    <2>1. ASSUME NEW y \in Transfers, NEW i \in Chunks(len[y])
          PROVE  (rtask'[y][i] = "ok" => rtask[y][i] = "ok") /\ (rres'[y] = "OK" => rres[y] = "OK")
      BY <1>3, <1>4
    <2> QED BY <1>1, <2>1 DEF DInv, Arrived, Landed, Chunks, NumChunks
  <1>8. InStep'
    <2>1. ASSUME NEW y \in Transfers
          PROVE  (OnlySender(y) => OnlySender(y)') /\ (OnlyReceiver(y) => OnlyReceiver(y)')
      BY <1>1, <1>3, <1>4 DEF OnlySender, OnlyReceiver, Chunks, NumChunks
    <2> QED BY <1>1, <2>1 DEF DInv, InStep
  <1> QED BY <1>1, <1>5, <1>6, <1>7, <1>8, SendersFrame DEF DInv

-----------------------------------------------------------------------------
LEMMA StutterDInv == IInv /\ DInv /\ UNCHANGED vars => DInv'
  <1> SUFFICES ASSUME IInv, DInv, UNCHANGED vars PROVE DInv'
    OBVIOUS
  <1>1. /\ UNCHANGED <<len, attempts, spc, sgen, stask, spend, swork, sres>>
        /\ UNCHANGED <<cq, rpoll, wire, landed, rgen, rtask, rpend, rwork, rres>>
    BY DEF vars, given, senderVars, receiverVars, fabricVars
  <1> QED BY <1>1, RecvCallerDInv

LEMMA NextDInv == IInv /\ CarefulReuse /\ DInv /\ [Next]_vars => DInv'
  <1> SUFFICES ASSUME IInv, CarefulReuse, DInv, [Next]_vars PROVE DInv'
    OBVIOUS
  <1>1. ASSUME NEW x \in Transfers, SendRegister(x) \/ SendCall(x) \/ SendGivesUp(x)
        PROVE  DInv'
    BY <1>1, SendRegisterDInv, SendFirstChunkDInv, SendReturnsOkDInv, SendEndsWithErrorDInv
       DEF SendCall, SendReturnsError, SendGivesUp
  <1>2. ASSUME NEW x \in Transfers, SendWorker(x)
        PROVE  DInv'
    BY <1>2, SendTakeDInv, SendNotifyDInv, SendWriteDInv, SendTaskFailsDInv DEF SendWorker
  <1>3. ASSUME NEW x \in Transfers, RecvRegister(x) \/ RecvCall(x) \/ RecvGivesUp(x)
        PROVE  DInv'
    BY <1>3, RecvRegisterDInv, RecvCallDInv, RecvEndsWithErrorDInv
       DEF RecvCall, RecvReturnsError, RecvGivesUp
  <1>4. ASSUME NEW x \in Transfers, RecvWorker(x)
        PROVE  DInv'
    BY <1>4, RecvTakeDInv, RecvMarkDInv DEF RecvWorker, CallbackReturns, CallbackFails
  <1>5. CASE Polling
    BY <1>5, RecvDispatchDInv, RecvPollDInv DEF Polling
  <1>6. CASE Fabric
    BY <1>6, WriteLandsDInv, LocalCompletionDInv, NotificationArrivesDInv DEF Fabric
  <1>7. CASE Terminating \/ UNCHANGED vars
    BY <1>7, StutterDInv DEF Terminating
  <1> QED BY <1>1, <1>2, <1>3, <1>4, <1>5, <1>6, <1>7 DEF Next

(* The invariant that the theorems below rest on.                          *)
THEOREM DeliveryInvariant == Spec => [](CarefulReuse => DInv)
  <1>1. Init => (CarefulReuse => DInv)
    BY InitDInv
  <1>2. IInv /\ (CarefulReuse => DInv) /\ [Next]_vars => (CarefulReuse => DInv)'
    BY NextDInv
  <1> QED BY <1>1, <1>2, TransportInvariant, PTL DEF Spec

(* When notify_callback runs for a chunk, what woke it is the announcement *)
(* of that chunk, of this attempt, and the chunk is in memory.             *)
THEOREM DeliveryCallbackSeesData == Spec => [](CarefulReuse => CallbackSeesData)
  <1>1. (CarefulReuse => DInv) => (CarefulReuse => CallbackSeesData)
    BY DEF DInv
  <1> QED BY <1>1, DeliveryInvariant, PTL

(* One chunk at a time is on its way, and all before it have landed.       *)
THEOREM DeliveryOneChunkInFlight == Spec => [](CarefulReuse => OneChunkInFlight)
  <1>1. IInv /\ DInv => OneChunkInFlight
    <2> SUFFICES ASSUME IInv, DInv, NEW x \in Transfers
                 PROVE  LET mine == {m \in wire : m.x = x /\ m.gen = sgen[x]}
                            moving == {m \in mine : m.type = "write"}
                                        \cup {m \in mine : m.type = "done"
                                                             /\ m.tag.id # MaxChunkNum}
                        IN  /\ Cardinality(moving) <= 1
                            /\ \A m \in moving :
                                 \A c \in 0 .. m.chunk - 1 : <<x, sgen[x], c>> \in landed
      BY DEF OneChunkInFlight
    <2> DEFINE mine == {m \in wire : m.x = x /\ m.gen = sgen[x]}
               moving == {m \in mine : m.type = "write"}
                           \cup {m \in mine : m.type = "done" /\ m.tag.id # MaxChunkNum}
    <2>1. ChainOf(x)
      BY DEF DInv, Chain
    <2>2. \A m \in moving : m \in wire /\ IsMove(m, x)
      BY DEF IsMove
    <2>3. Cardinality(moving) <= 1
      <3>1. \A m, k \in moving : m = k
        BY <2>1, <2>2 DEF ChainOf
      <3>2. moving = {} \/ \E m : moving = {m}
        BY <3>1
      <3>3. Cardinality({}) = 0 /\ \A m : Cardinality({m}) = 1
        BY FS_EmptySet, FS_Singleton
      <3> HIDE DEF moving
      <3>4. CASE moving = {}
        BY <3>3, <3>4
      <3>5. CASE \E m : moving = {m}
        BY <3>3, <3>5
      <3> QED BY <3>2, <3>4, <3>5
    <2>4. ASSUME NEW m \in moving, NEW c \in 0 .. m.chunk - 1
          PROVE  <<x, sgen[x], c>> \in landed
      <3>1. m \in wire /\ m.chunk \in Chunks(len[x]) /\ m.chunk \in Nat
        BY <2>2, Typed DEF DInv, Carried, Carries, IsMove
      <3>2. c \in Chunks(len[x]) /\ c < m.chunk /\ c < m.chunk + 1
        BY <2>4, <3>1, Typed
      <3>3. LandedBefore(x, m.chunk) \/ LandedBefore(x, m.chunk + 1)
        BY <2>1, <2>2 DEF ChainOf
      <3> QED BY <3>2, <3>3 DEF LandedBefore, Landed
    <2> QED BY <2>3, <2>4
  <1>2. IInv /\ (CarefulReuse => DInv) => (CarefulReuse => OneChunkInFlight)
    BY <1>1
  <1> QED BY <1>2, TransportInvariant, DeliveryInvariant, PTL

(* A send that has returned OK has delivered every chunk.                  *)
THEOREM DeliverySendOk == Spec => [](CarefulReuse => SendOkMeansDelivered)
  <1>1. (CarefulReuse => DInv) => (CarefulReuse => SendOkMeansDelivered)
    BY DEF DInv
  <1> QED BY <1>1, DeliveryInvariant, PTL

(* And a receive that has returned OK has all chunks of its peer's attempt *)
(* in memory.  The run transport_retry shows that it need not be so when   *)
(* an identifier is reused carelessly.                                     *)
THEOREM DeliveryRecvOk == Spec => [](CarefulReuse => RecvOkMeansArrived)
  <1>1. (CarefulReuse => DInv) => (CarefulReuse => RecvOkMeansArrived)
    BY DEF DInv, Arrived, RecvOkMeansArrived, Landed
  <1> QED BY <1>1, DeliveryInvariant, PTL
=============================================================================
