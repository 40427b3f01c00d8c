-------------------------- MODULE TransportProofs ---------------------------
(***************************************************************************)
(* Proofs about Transport, for every set of transfers, every length and    *)
(* number of attempts, every size of the receive queue and of its prefill, *)
(* every choice of failures and of receivers that give a jfr only, with    *)
(* careful and with careless callers.                                      *)
(*                                                                         *)
(* CreditsConserved is not inductive.  A notification that arrives takes   *)
(* one entry and adds one completion only if it is not already among the   *)
(* completions; that needs to know that no chunk of an attempt is announced*)
(* twice, which is about the tasks and the worker of the sender (Fresh).   *)
(***************************************************************************)
EXTENDS Transport, ChunkPlanProofs, FiniteSetTheorems

SendWork == [task : Nat, gen : 1 .. attempts, at : {"notify", "write"}]

(* What TypeOK does not say of the variables and the proof needs.          *)
Shape ==
    /\ attempts \in Nat \ {0} /\ depth \in Nat \ {0}
    /\ stask = [x \in Transfers |-> stask[x]] /\ rtask = [x \in Transfers |-> rtask[x]]
    /\ swork \in [Transfers -> SendWork \cup {None}]
    /\ rwork = [x \in Transfers |-> rwork[x]]
    /\ IsFiniteSet(cq)

(* Only lengths that the path accepts are ever attempted, and without an   *)
(* attempt there is no call and no task.                                   *)
Accepted ==
    \A x \in Transfers :
        /\ spc[x] # "idle" => sgen[x] > 0
        /\ \A i \in Chunks(len[x]) : stask[x][i] # "none" => sgen[x] > 0
        /\ sgen[x] > 0 => SendAccepts(len[x])
        /\ rgen[x] > 0 => RecvAccepts(len[x])

(* The worker of the sender holds the one running task of its attempt, and *)
(* is about to write only when there is another chunk.                     *)
Working ==
    \A x \in Transfers : swork[x] # None =>
        /\ swork[x].gen <= sgen[x]
        /\ swork[x].gen = sgen[x] => stask[x][swork[x].task] = "running"
        /\ swork[x].at = "write" => swork[x].task + 1 \in Chunks(len[x])

(* Chunk c of attempt g of transfer x has been announced, or not yet.      *)
Announcing(m, x, g, c) == m.type = "imm" /\ m.x = x /\ m.gen = g /\ m.chunk = c

(* A notification is on the wire or in the completion queue, not in both;  *)
(* and what is queued, or what the worker is about to announce, has not    *)
(* been announced.                                                         *)
Fresh ==
    /\ \A m \in cq : m.type = "imm"
    /\ \A m \in wire : m.type = "imm" => m \notin cq
    /\ \A m \in wire \cup cq : m.type = "imm" =>
         /\ m.chunk \in Chunks(len[m.x])
         /\ m.gen <= sgen[m.x]
         /\ m.gen = sgen[m.x] => stask[m.x][m.chunk] # "queued"
         /\ (swork[m.x] # None /\ swork[m.x].at = "notify")
              => ~Announcing(m, m.x, swork[m.x].gen, swork[m.x].task)

(* Where the entries that have been posted are.                            *)
Balance == rqe + Cardinality(cq) + lost

(* No prefill has failed, and all receives give the jetty.                 *)
Alike == \A x \in Transfers : rpc[x] # "lost" /\ GivesJetty(x)

(* The jetty is recorded after a prefill, which has posted all it was to   *)
(* post or found the queue full; and as long as the receives are alike,    *)
(* there is one prefill, and nothing is posted before it.                  *)
Credits ==
    /\ filler # None => rpc[filler] = "fill"
    /\ Balance = posted /\ filled <= posted
    /\ recorded => posted >= Prefill
    /\ \A x \in Transfers : rpc[x] = "wait" /\ GivesJetty(x) => posted >= Prefill
    /\ Alike =>
         /\ filler # None => ~recorded /\ posted = filled
         /\ filler = None /\ ~recorded => posted = 0
         /\ recorded => filler = None /\ posted <= Capacity

IInv == TypeOK /\ Shape /\ Accepted /\ Working /\ Fresh /\ Credits
-----------------------------------------------------------------------------
(* What an accepted length says of the numbers of its chunks.              *)
LEMMA ChunkNumbers ==
    ASSUME NEW l \in Length, RecvAccepts(l)
    PROVE  /\ NumChunks(l) \in Nat /\ NumChunks(l) <= MaxChunkNum
           /\ Chunks(l) = 0 .. NumChunks(l) - 1
           /\ Chunks(l) \subseteq 0 .. MaxChunkNum - 1
           /\ MaxChunkNum \in Nat
  BY AcceptedLength, SplitTiles, SplitAssumption DEF Chunks

(* The codec stays within the bits of the user context, whatever it is     *)
(* given.                                                                  *)
LEMMA EncodedBits ==
    ASSUME NEW word \in SUBSET (0 .. RequestIdBits - 1)
    PROVE  /\ encode_request_id(word) \in SUBSET (0 .. RequestIdBits - 1)
           /\ decode_request_id(word) \in SUBSET (0 .. RequestIdBits - 1)
  <1>1. /\ FieldWidth \in Nat /\ RequestIdBits \in Nat
        /\ HighFieldShift \in Nat /\ FieldWidth + FieldWidth <= RequestIdBits
        /\ HighFieldShift + FieldWidth = RequestIdBits
    BY WidthAssumption DEF HighFieldShift
  <1>2. ASSUME NEW n \in Nat, NEW k \in Nat, k + FieldWidth <= RequestIdBits
        PROVE  ShiftLeft(Mask(ShiftRight(word, n)), k) \subseteq 0 .. RequestIdBits - 1
    BY <1>1, <1>2 DEF ShiftLeft, Mask, ShiftRight
  <1>3. Mask(word) \subseteq 0 .. RequestIdBits - 1
    BY DEF Mask
  <1>4. encode_request_id(word) \subseteq 0 .. RequestIdBits - 1
    BY <1>1, <1>2, <1>3 DEF encode_request_id
  <1>5. decode_request_id(word) \subseteq 0 .. RequestIdBits - 1
    BY <1>1, <1>2, <1>3 DEF decode_request_id
  <1> QED BY <1>4, <1>5

TagType ==
    [key : SUBSET (0 .. RequestIdBits - 1), last : BOOLEAN, id : 0 .. MaxChunkNum]

(* The contexts that messages carry have the type of a user context.       *)
LEMMA TagTypes ==
    ASSUME NEW x \in Transfers, NEW n \in Nat, n <= MaxChunkNum, NEW i \in 0 .. n - 1
    PROVE  /\ FirstTag(ServerKey[x]) \in TagType
           /\ ServerTag(ServerKey[x], i, n) \in TagType
           /\ ClientTag(ClientKey[x], i, n) \in TagType
           /\ NotifyTag(ServerKey[x], i, n) \in TagType
  <1>1. /\ ServerKey[x] \in SUBSET (0 .. RequestIdBits - 1)
        /\ encode_request_id(ClientKey[x]) \in SUBSET (0 .. RequestIdBits - 1)
    BY KeysAssumption, EncodedBits
  <1>2. MaxChunkNum \in Nat
    BY SplitAssumption
  <1>3. ASSUME NEW key \in SUBSET (0 .. RequestIdBits - 1), NEW j \in 0 .. n
        PROVE  ConstructedTag(key, j, n) \in TagType /\ FirstTag(key) \in TagType
    <2>1. (j >= n - 1) \in BOOLEAN
      BY SMT
    <2>2. j \in 0 .. MaxChunkNum /\ 0 \in 0 .. MaxChunkNum
      BY <1>2
    <2> QED BY <2>1, <2>2 DEF ConstructedTag, FirstTag, Tag, TagType
  <1>4. i \in 0 .. n /\ i + 1 \in 0 .. n
    OBVIOUS
  <1>5. ServerTag(ServerKey[x], i, n) \in TagType
    BY <1>1, <1>3, <1>4 DEF ServerTag
  <1>6. NotifyTag(ServerKey[x], i, n) \in TagType
    <2> DEFINE tag == ServerTag(ServerKey[x], i, n)
    <2>1. tag \in TagType
      BY <1>5
    <2> HIDE DEF tag
    <2>2. [tag EXCEPT !.id = MaxChunkNum] \in TagType
      BY <1>2, <2>1 DEF TagType
    <2> QED BY <2>2 DEF NotifyTag, tag
  <1> QED BY <1>1, <1>3, <1>4, <1>5, <1>6 DEF ClientTag

-----------------------------------------------------------------------------
(* A step that leaves the sender, the wire and the completions alone keeps *)
(* what the invariant says of them.                                        *)
LEMMA SenderFrame ==
    ASSUME Working, Fresh, UNCHANGED <<len, sgen, stask, swork, wire, cq>>
    PROVE  Working' /\ Fresh'
  BY DEF Working, Fresh, Announcing, Chunks, NumChunks

(* And a step that leaves the queue and the receivers' places alone keeps  *)
(* the account of its entries.                                             *)
LEMMA QueueFrame ==
    ASSUME Credits, UNCHANGED <<queueVars, cq, rpc, depth, jfrOnly>>
    PROVE  Credits'
  BY DEF Credits, Alike, Balance, Prefill, GivesJetty, queueVars

LEMMA InitIInv == Init => IInv
  <1> SUFFICES ASSUME Init PROVE IInv
    OBVIOUS
  <1>1. /\ len \in [Transfers -> Length] /\ attempts \in Nat \ {0}
        /\ depth \in Nat \ {0}
    BY CasesAssumption DEF Init
  <1>2. TypeOK
    <2>1. \A x \in Transfers : /\ stask[x] \in [Chunks(len[x]) -> TaskStates]
                              /\ rtask[x] \in [Chunks(len[x]) -> TaskStates]
      BY DEF Init, AllTasks, TaskStates
    <2>2. /\ sgen \in [Transfers -> 0 .. attempts] /\ rgen \in [Transfers -> 0 .. attempts]
          /\ spend \in [Transfers -> Nat]
          /\ filled \in 0 .. Capacity /\ rqe \in 0 .. depth /\ lost \in Nat /\ posted \in Nat
      BY <1>1, QueueAssumption DEF Init
    <2>3. /\ \A x \in Transfers : swork[x] = None
          /\ \A x \in Transfers : rwork[x] = None
      BY DEF Init
    <2> QED BY <1>1, <2>1, <2>2, <2>3 DEF Init, TypeOK
  <1>3. Shape
    BY <1>1, FS_EmptySet DEF Init, Shape
  <1>4. Accepted /\ Working /\ Fresh
    BY DEF Init, AllTasks, Accepted, Working, Fresh
  <1>5. Credits
    BY FS_EmptySet DEF Init, Credits, Alike, Balance
  <1> QED BY <1>2, <1>3, <1>4, <1>5 DEF IInv
-----------------------------------------------------------------------------
(* One lemma per action of the sender.                                     *)
LEMMA SendRegisterIInv ==
    ASSUME IInv, NEW x \in Transfers, SendRegister(x)
    PROVE  IInv'
  <1> USE DEF IInv, SendRegister, given, receiverVars, queueVars, fabricVars
  <1>1. sgen' \in [Transfers -> 0 .. attempts] /\ sgen'[x] = sgen[x] + 1
    BY DEF TypeOK, Shape, MayBegin
  <1>2. \A y \in Transfers : stask'[y] \in [Chunks(len[y]) -> TaskStates]
    BY DEF TypeOK, Shape, AllTasks, TaskStates
  <1>3. TypeOK'
    BY <1>1, <1>2 DEF TypeOK, Message, Chunks, NumChunks
  <1>4. Shape'
    BY DEF Shape, SendWork
  <1>5. Accepted'
    BY DEF Accepted, TypeOK, Shape, NumChunks, SendAccepts, RecvAccepts, SplitAccepts
  <1>6. Working'
    BY <1>1 DEF Working, TypeOK, Shape, SendWork, Chunks, NumChunks
  <1>7. Fresh'
    <2>1. UNCHANGED <<len, wire, cq, swork>>
      OBVIOUS
    <2>2. \A y \in Transfers : y # x => sgen'[y] = sgen[y] /\ stask'[y] = stask[y]
      BY DEF TypeOK, Shape
    <2>3. sgen[x] \in Nat
      BY DEF TypeOK, Shape
    <2>4. \A m \in wire \cup cq : m.type = "imm" =>
            /\ m.gen \in Nat /\ m.x \in Transfers
            /\ m.gen <= sgen'[m.x]
            /\ m.gen = sgen'[m.x] => stask'[m.x][m.chunk] # "queued"
      <3> TAKE m \in wire \cup cq
      <3> HAVE m.type = "imm"
      <3>1. m.gen \in Nat /\ m.x \in Transfers
        BY DEF TypeOK, Message, Shape
      <3>2. m.gen <= sgen[m.x] /\ (m.gen = sgen[m.x] => stask[m.x][m.chunk] # "queued")
        BY DEF Fresh
      <3>3. CASE m.x = x
        BY <1>1, <2>3, <3>1, <3>2, <3>3
      <3>4. CASE m.x # x
        BY <2>2, <3>1, <3>2, <3>4
      <3> QED BY <3>3, <3>4
    <2> QED BY <2>1, <2>4 DEF Fresh, Announcing
  <1> QED BY <1>3, <1>4, <1>5, <1>6, <1>7, QueueFrame

LEMMA SendFirstChunkIInv ==
    ASSUME IInv, NEW x \in Transfers, SendFirstChunk(x)
    PROVE  IInv'
  <1> USE DEF IInv, SendFirstChunk, given, receiverVars, queueVars
  <1> DEFINE m == Write(x, 0, FirstTag(ServerKey[x]))
  <1>1. m \in Message /\ m.type = "write"
    <2>1. SendAccepts(len[x]) /\ sgen[x] \in 1 .. attempts
      BY DEF Accepted, TypeOK
    <2>2. FirstTag(ServerKey[x]) \in TagType
      <3>1. NumChunks(len[x]) \in Nat /\ NumChunks(len[x]) <= MaxChunkNum
            /\ 0 \in 0 .. NumChunks(len[x]) - 1
        BY <2>1, ChunkNumbers DEF TypeOK, SendAccepts, RecvAccepts
      <3> QED BY <3>1, TagTypes
    <2>3. 0 \in 0 .. MaxChunkNum - 1
      BY SplitAssumption
    <2> QED BY <2>1, <2>2, <2>3 DEF Write, Message, TagType
  <1>2. TypeOK'
    BY <1>1 DEF TypeOK, Message, Chunks, NumChunks
  <1>3. Shape'
    BY DEF Shape, SendWork
  <1>4. Accepted'
    BY DEF Accepted, NumChunks, SendAccepts, RecvAccepts, SplitAccepts
  <1>5. Working'
    BY DEF Working, Chunks, NumChunks
  <1>6. Fresh'
    BY <1>1 DEF Fresh, Announcing, Chunks, NumChunks
  <1> QED BY <1>2, <1>3, <1>4, <1>5, <1>6, QueueFrame

LEMMA SendFirstChunkFailsIInv ==
    ASSUME IInv, NEW x \in Transfers, SendFirstChunkFails(x)
    PROVE  IInv'
  <1> USE DEF IInv, SendFirstChunkFails, given, receiverVars, queueVars, fabricVars
  <1>1. TypeOK'
    BY DEF TypeOK, Message, Chunks, NumChunks
  <1>2. Shape' /\ Accepted'
    BY DEF Shape, SendWork, Accepted, TypeOK, NumChunks, SendAccepts, RecvAccepts,
           SplitAccepts
  <1> QED BY <1>1, <1>2, SenderFrame, QueueFrame

LEMMA SendReturnsOkIInv ==
    ASSUME IInv, NEW x \in Transfers, SendReturnsOk(x)
    PROVE  IInv'
  <1> USE DEF IInv, SendReturnsOk, given, receiverVars, queueVars, fabricVars
  <1>1. TypeOK'
    BY DEF TypeOK, Message, Chunks, NumChunks
  <1>2. Shape' /\ Accepted'
    BY DEF Shape, SendWork, Accepted, TypeOK, NumChunks, SendAccepts, RecvAccepts,
           SplitAccepts
  <1> QED BY <1>1, <1>2, SenderFrame, QueueFrame

(* Cancellation touches what is queued, and leaves what has run or runs.   *)
LEMMA SendEndsWithErrorIInv ==
    ASSUME IInv, NEW x \in Transfers, SendEndsWithError(x)
    PROVE  IInv'
  <1> USE DEF IInv, SendEndsWithError, given, receiverVars, queueVars, fabricVars
  <1>1. \A y \in Transfers :
          /\ stask'[y] \in [Chunks(len[y]) -> TaskStates]
          /\ \A i \in Chunks(len[y]) :
               /\ stask[y][i] # "queued" => stask'[y][i] = stask[y][i]
               /\ stask'[y][i] # "queued" \/ stask'[y][i] = stask[y][i]
    BY DEF TypeOK, Shape, Canceled, TaskStates
  <1>2. TypeOK'
    BY <1>1 DEF TypeOK, Message, Chunks, NumChunks
  <1>3. Shape' /\ Accepted'
    <2>1. \A y \in Transfers : \A i \in Chunks(len[y]) : stask'[y][i] # "none" => sgen[y] > 0
      BY <1>1 DEF Accepted
    <2>2. \A y \in Transfers : Chunks(len'[y]) = Chunks(len[y])
      BY DEF Chunks, NumChunks
    <2>3. Accepted'
      BY <2>1, <2>2 DEF Accepted, TypeOK, NumChunks, SendAccepts, RecvAccepts, SplitAccepts
    <2> QED BY <2>3 DEF Shape, SendWork, TypeOK
  <1>4. Working'
    <2> SUFFICES ASSUME NEW y \in Transfers, swork[y] # None
                 PROVE  /\ swork[y].gen <= sgen[y]
                        /\ swork[y].gen = sgen[y] => stask'[y][swork[y].task] = "running"
                        /\ swork[y].at = "write" => swork[y].task + 1 \in Chunks(len[y])
      BY DEF Working, Chunks, NumChunks
    <2>1. swork[y].task \in Chunks(len[y])
      BY DEF TypeOK
    <2> QED BY <1>1, <2>1 DEF Working
  <1>5. Fresh'
    <2>1. UNCHANGED <<len, sgen, wire, cq, swork>>
      OBVIOUS
    <2>2. ASSUME NEW m \in wire \cup cq, m.type = "imm"
          PROVE  m.gen = sgen[m.x] => stask'[m.x][m.chunk] # "queued"
      <3>1. m.x \in Transfers
        BY DEF TypeOK, Message
      <3>2. m.chunk \in Chunks(len[m.x]) /\ (m.gen = sgen[m.x] => stask[m.x][m.chunk] # "queued")
        BY <2>2 DEF Fresh
      <3> QED BY <1>1, <3>1, <3>2
    <2> QED BY <2>1, <2>2 DEF Fresh, Announcing
  <1> QED BY <1>2, <1>3, <1>4, <1>5, QueueFrame

LEMMA LocalCompletionIInv ==
    ASSUME IInv, NEW m \in wire, LocalCompletion(m)
    PROVE  IInv'
  <1> USE DEF IInv, LocalCompletion, given, receiverVars, queueVars
  <1>1. spend' \in [Transfers -> Nat]
    BY DEF TypeOK
  <1>2. TypeOK'
    BY <1>1 DEF TypeOK, Message, Chunks, NumChunks
  <1>3. Shape' /\ Accepted'
    BY DEF Shape, SendWork, Accepted, NumChunks, SendAccepts, RecvAccepts, SplitAccepts
  <1>4. Working' /\ Fresh'
    BY DEF Working, Fresh, Announcing, Chunks, NumChunks
  <1> QED BY <1>2, <1>3, <1>4, QueueFrame

LEMMA SendTakeIInv ==
    ASSUME IInv, NEW x \in Transfers, SendTake(x)
    PROVE  IInv'
  <1> USE DEF IInv, SendTake, given, receiverVars, queueVars, fabricVars
  <1>1. spend' \in [Transfers -> Nat]
    BY DEF TypeOK
  <1>2. CASE SIn(x, "queued") = {}
    <2>1. TypeOK'
      BY <1>1, <1>2 DEF TypeOK, Message, Chunks, NumChunks
    <2>2. Shape' /\ Accepted'
      BY <1>2 DEF Shape, SendWork, Accepted, NumChunks, SendAccepts, RecvAccepts, SplitAccepts
    <2> QED BY <1>2, <2>1, <2>2, SenderFrame, QueueFrame
  <1>3. CASE SIn(x, "queued") # {}
    <2>1. PICK i \in SIn(x, "queued") :
            /\ stask' = [stask EXCEPT ![x][i] = "running"]
            /\ swork' = [swork EXCEPT ![x] = [task |-> i, gen |-> sgen[x], at |-> "notify"]]
      BY <1>3
    <2>2. i \in Chunks(len[x]) /\ stask[x][i] = "queued" /\ i \in Nat
      BY <2>1 DEF SIn, Chunks
    <2>3. sgen[x] \in 1 .. attempts
      BY <2>2 DEF Accepted, TypeOK
    <2>4. \A y \in Transfers : stask'[y] \in [Chunks(len[y]) -> TaskStates]
      BY <2>1, <2>2 DEF TypeOK, Shape, TaskStates
    <2>5. TypeOK'
      BY <1>1, <2>1, <2>2, <2>4 DEF TypeOK, Shape, Message, Chunks, NumChunks
    <2>6. Shape' /\ Accepted'
      BY <2>1, <2>2, <2>3 DEF Shape, SendWork, Accepted, NumChunks, SendAccepts,
             RecvAccepts, SplitAccepts
    <2>7. \A y \in Transfers : /\ stask'[y] = IF y = x THEN [stask[x] EXCEPT ![i] = "running"]
                                                    ELSE stask[y]
                              /\ swork'[y] = IF y = x THEN [task |-> i, gen |-> sgen[x],
                                                            at |-> "notify"]
                                                    ELSE swork[y]
      BY <2>1 DEF Shape
    <2>8. stask'[x][i] = "running"
      BY <2>2, <2>7 DEF TypeOK
    <2>9. Working'
      <3> SUFFICES ASSUME NEW y \in Transfers, swork'[y] # None
                   PROVE  /\ swork'[y].gen <= sgen[y]
                          /\ swork'[y].gen = sgen[y] => stask'[y][swork'[y].task] = "running"
                          /\ swork'[y].at = "write" => swork'[y].task + 1 \in Chunks(len[y])
        BY DEF Working, Chunks, NumChunks
      <3>1. CASE y = x
        BY <2>3, <2>7, <2>8, <3>1
      <3>2. CASE y # x
        BY <2>7, <3>2 DEF Working
      <3> QED BY <3>1, <3>2
    <2>10. Fresh'
      <3> SUFFICES ASSUME NEW m \in wire \cup cq, m.type = "imm"
                   PROVE  /\ m.gen = sgen[m.x] => stask'[m.x][m.chunk] # "queued"
                          /\ (swork'[m.x] # None /\ swork'[m.x].at = "notify")
                               => ~Announcing(m, m.x, swork'[m.x].gen, swork'[m.x].task)
        BY DEF Fresh, Announcing, Chunks, NumChunks
      <3>1. m.x \in Transfers /\ m.chunk \in Chunks(len[m.x])
        BY DEF TypeOK, Message, Fresh
      <3>2. CASE m.x = x
        <4>1. m.gen = sgen[x] => stask[x][m.chunk] # "queued"
          BY <3>2 DEF Fresh
        <4>2. m.gen = sgen[x] => m.chunk # i
          BY <2>2, <4>1
        <4>3. stask'[x][m.chunk] = IF m.chunk = i THEN "running" ELSE stask[x][m.chunk]
          BY <2>2, <2>7, <3>1, <3>2 DEF TypeOK
        <4> QED BY <2>7, <3>2, <4>1, <4>2, <4>3 DEF Announcing
      <3>3. CASE m.x # x
        BY <2>7, <3>1, <3>3 DEF Fresh, Announcing
      <3> QED BY <3>2, <3>3
    <2> QED BY <2>5, <2>6, <2>9, <2>10, QueueFrame
  <1> QED BY <1>2, <1>3

(* mark_task_group_completed: the worker lets go of its task, which has    *)
(* run; no other task is touched.                                          *)
LEMMA SendMarkKeeps ==
    ASSUME IInv, NEW x \in Transfers, NEW outcome \in {"ok", "failed"},
           swork[x] # None, SendMark(x, outcome), UNCHANGED <<len, attempts, sgen>>
    PROVE  /\ stask' = [y \in Transfers |-> stask'[y]]
           /\ swork' \in [Transfers -> SendWork \cup {None}]
           /\ swork'[x] = None
           /\ \A y \in Transfers \ {x} : stask'[y] = stask[y] /\ swork'[y] = swork[y]
           /\ \A y \in Transfers :
                /\ stask'[y] \in [Chunks(len[y]) -> TaskStates]
                /\ \A i \in Chunks(len[y]) :
                     /\ stask'[y][i] # "queued" \/ stask'[y][i] = stask[y][i]
                     /\ stask'[y][i] # "none" => sgen[y] > 0
           /\ Working'
  <1> USE DEF IInv, SendMark
  <1>1. /\ swork[x].task \in Chunks(len[x])
        /\ swork[x].gen = sgen[x] => stask[x][swork[x].task] = "running"
    BY DEF TypeOK, Working
  <1>2. /\ stask' = [y \in Transfers |-> stask'[y]]
        /\ swork' = [swork EXCEPT ![x] = None]
        /\ \A y \in Transfers \ {x} : stask'[y] = stask[y] /\ swork'[y] = swork[y]
        /\ stask'[x] = IF swork[x].gen = sgen[x]
                         THEN [stask[x] EXCEPT ![swork[x].task] = outcome] ELSE stask[x]
    BY DEF Shape
  <1>3. swork'[x] = None /\ swork' \in [Transfers -> SendWork \cup {None}]
    BY <1>2 DEF Shape
  <1>4. \A i \in Chunks(len[x]) :
          stask'[x][i] = IF swork[x].gen = sgen[x] /\ i = swork[x].task
                           THEN outcome ELSE stask[x][i]
    BY <1>1, <1>2 DEF TypeOK
  <1>5. stask'[x] \in [Chunks(len[x]) -> TaskStates]
    BY <1>1, <1>2 DEF TypeOK, TaskStates
  <1>6. \A y \in Transfers :
          /\ stask'[y] \in [Chunks(len[y]) -> TaskStates]
          /\ \A i \in Chunks(len[y]) :
               /\ stask'[y][i] # "queued" \/ stask'[y][i] = stask[y][i]
               /\ stask'[y][i] # "none" => sgen[y] > 0
    <2> TAKE y \in Transfers
    <2>1. CASE y = x
      BY <1>1, <1>4, <1>5, <2>1 DEF Accepted
    <2>2. CASE y # x
      BY <1>2, <2>2 DEF TypeOK, Accepted
    <2> QED BY <2>1, <2>2
  <1>7. Working'
    <2> SUFFICES ASSUME NEW y \in Transfers, swork'[y] # None
                 PROVE  /\ swork'[y].gen <= sgen[y]
                        /\ swork'[y].gen = sgen[y] => stask'[y][swork'[y].task] = "running"
                        /\ swork'[y].at = "write" => swork'[y].task + 1 \in Chunks(len[y])
      BY DEF Working, Chunks, NumChunks
    <2>1. y # x
      BY <1>3
    <2> QED BY <1>2, <2>1 DEF Working
  <1> QED BY <1>2, <1>3, <1>6, <1>7

LEMMA SendTaskFailsIInv ==
    ASSUME IInv, NEW x \in Transfers, SendTaskFails(x)
    PROVE  IInv'
  <1> USE DEF IInv, SendTaskFails, given, receiverVars, queueVars, fabricVars
  <1>1. /\ stask' = [y \in Transfers |-> stask'[y]]
        /\ swork' \in [Transfers -> SendWork \cup {None}]
        /\ swork'[x] = None
        /\ \A y \in Transfers \ {x} : stask'[y] = stask[y] /\ swork'[y] = swork[y]
        /\ \A y \in Transfers :
             /\ stask'[y] \in [Chunks(len[y]) -> TaskStates]
             /\ \A i \in Chunks(len[y]) :
                  /\ stask'[y][i] # "queued" \/ stask'[y][i] = stask[y][i]
                  /\ stask'[y][i] # "none" => sgen[y] > 0
        /\ Working'
    BY SendMarkKeeps
  <1>2. \A y \in Transfers : Chunks(len'[y]) = Chunks(len[y])
    BY DEF Chunks, NumChunks
  <1>3. \A y \in Transfers : swork'[y] # None => swork'[y].task \in Chunks(len[y])
    BY <1>1 DEF TypeOK
  <1>4. TypeOK'
    BY <1>1, <1>2, <1>3 DEF TypeOK, Message
  <1>5. Accepted'
    BY <1>1, <1>2 DEF Accepted, NumChunks, SendAccepts, RecvAccepts, SplitAccepts
  <1>6. Shape'
    BY <1>1 DEF Shape, SendWork
  <1>7. Fresh'
    <2> SUFFICES ASSUME NEW m \in wire \cup cq, m.type = "imm"
                 PROVE  /\ m.gen = sgen[m.x] => stask'[m.x][m.chunk] # "queued"
                        /\ (swork'[m.x] # None /\ swork'[m.x].at = "notify")
                             => ~Announcing(m, m.x, swork'[m.x].gen, swork'[m.x].task)
      BY <1>2 DEF Fresh, Announcing, Chunks, NumChunks
    <2>1. m.x \in Transfers /\ m.chunk \in Chunks(len[m.x])
      BY DEF TypeOK, Message, Fresh
    <2> QED BY <1>1, <2>1 DEF Fresh, Announcing
  <1> QED BY <1>1, <1>4, <1>5, <1>6, <1>7, QueueFrame

(* What the worker of the sender is about: an attempt that was accepted.   *)
LEMMA WorkerAttempt ==
    ASSUME IInv, NEW x \in Transfers, swork[x] # None
    PROVE  /\ swork[x].gen \in 1 .. attempts
           /\ swork[x].at \in {"notify", "write"}
           /\ swork[x].task \in Chunks(len[x])
           /\ SendAccepts(len[x])
           /\ N(x) \in Nat /\ N(x) <= MaxChunkNum /\ Chunks(len[x]) = 0 .. N(x) - 1
           /\ Chunks(len[x]) \subseteq 0 .. MaxChunkNum - 1
  <1> USE DEF IInv
  <1>1. swork[x] \in SendWork /\ swork[x].task \in Chunks(len[x])
    BY DEF Shape, TypeOK
  <1>2. swork[x].gen \in 1 .. attempts /\ sgen[x] \in 0 .. attempts /\ attempts \in Nat
        /\ swork[x].gen <= sgen[x] /\ swork[x].at \in {"notify", "write"}
    BY <1>1 DEF SendWork, TypeOK, Working, Shape
  <1>3. SendAccepts(len[x])
    BY <1>2 DEF Accepted
  <1>4. RecvAccepts(len[x]) /\ len[x] \in Length
    BY <1>3 DEF SendAccepts, RecvAccepts, TypeOK
  <1> QED BY <1>1, <1>2, <1>3, <1>4, ChunkNumbers DEF N

LEMMA SendWriteIInv ==
    ASSUME IInv, NEW x \in Transfers, SendWrite(x)
    PROVE  IInv'
  <1> USE DEF IInv
  <1> DEFINE c == swork[x].task + 1
             m == [Write(x, c, ServerTag(ServerKey[x], swork[x].task, N(x)))
                     EXCEPT !.gen = swork[x].gen]
  <1>1. /\ swork[x] # None /\ swork[x].at = "write" /\ wire' = wire \cup {m}
        /\ SendMark(x, "ok")
        /\ UNCHANGED <<given, spc, sgen, spend, sres, receiverVars, queueVars, cq,
                       rpoll, landed>>
    BY DEF SendWrite
  <1>2. /\ stask' = [y \in Transfers |-> stask'[y]]
        /\ swork' \in [Transfers -> SendWork \cup {None}]
        /\ swork'[x] = None
        /\ \A y \in Transfers \ {x} : stask'[y] = stask[y] /\ swork'[y] = swork[y]
        /\ \A y \in Transfers :
             /\ stask'[y] \in [Chunks(len[y]) -> TaskStates]
             /\ \A i \in Chunks(len[y]) :
                  /\ stask'[y][i] # "queued" \/ stask'[y][i] = stask[y][i]
                  /\ stask'[y][i] # "none" => sgen[y] > 0
        /\ Working'
    BY <1>1, SendMarkKeeps DEF given
  <1>3. m \in Message /\ m.type = "write"
    <2>1. ServerTag(ServerKey[x], swork[x].task, N(x)) \in TagType
      BY <1>1, WorkerAttempt, TagTypes
    <2>2. c \in 0 .. MaxChunkNum - 1
      BY <1>1, WorkerAttempt DEF Working
    <2>3. m = [type |-> "write", x |-> x, gen |-> swork[x].gen, chunk |-> c,
               tag |-> ServerTag(ServerKey[x], swork[x].task, N(x))]
      BY DEF Write
    <2> HIDE DEF m, c
    <2> QED BY <1>1, <2>1, <2>2, <2>3, WorkerAttempt DEF Message, TagType
  <1> HIDE DEF m
  <1> USE DEF given, receiverVars, queueVars
  <1>4. \A y \in Transfers : Chunks(len'[y]) = Chunks(len[y])
    BY <1>1 DEF Chunks, NumChunks
  <1>5. \A y \in Transfers : swork'[y] # None => swork'[y].task \in Chunks(len[y])
    BY <1>2 DEF TypeOK
  <1>6. TypeOK'
    BY <1>1, <1>2, <1>3, <1>4, <1>5 DEF TypeOK, Message
  <1>7. Accepted'
    BY <1>1, <1>2, <1>4 DEF Accepted, NumChunks, SendAccepts, RecvAccepts, SplitAccepts
  <1>8. Shape'
    BY <1>1, <1>2 DEF Shape, SendWork
  <1>9. Fresh'
    <2> SUFFICES ASSUME NEW n \in wire \cup cq, n.type = "imm"
                 PROVE  /\ n.gen = sgen[n.x] => stask'[n.x][n.chunk] # "queued"
                        /\ (swork'[n.x] # None /\ swork'[n.x].at = "notify")
                             => ~Announcing(n, n.x, swork'[n.x].gen, swork'[n.x].task)
      BY <1>1, <1>3, <1>4 DEF Fresh, Announcing, Chunks, NumChunks
    <2>1. n.x \in Transfers /\ n.chunk \in Chunks(len[n.x])
      BY DEF TypeOK, Message, Fresh
    <2> QED BY <1>2, <2>1 DEF Fresh, Announcing
  <1> QED BY <1>1, <1>2, <1>6, <1>7, <1>8, <1>9, QueueFrame

(* The notification is new: nothing announced the chunk before, and nothing*)
(* is going to announce it again.                                          *)
LEMMA SendNotifyIInv ==
    ASSUME IInv, NEW x \in Transfers, SendNotify(x)
    PROVE  IInv'
  <1> USE DEF IInv
  <1> DEFINE i == swork[x].task
             imm == [Notify(x, i, ClientTag(ClientKey[x], i, N(x)))
                       EXCEPT !.gen = swork[x].gen]
             here == Done(imm, NotifyTag(ServerKey[x], i, N(x)))
  <1>1. /\ swork[x] # None /\ swork[x].at = "notify" /\ wire' = wire \cup {imm, here}
        /\ IF i + 1 < N(x) THEN swork' = [swork EXCEPT ![x].at = "write"] /\ UNCHANGED stask
                           ELSE SendMark(x, "ok")
        /\ UNCHANGED <<given, spc, sgen, spend, sres, receiverVars, queueVars, cq,
                       rpoll, landed>>
    BY DEF SendNotify
  <1>2. /\ i \in Chunks(len[x]) /\ i \in 0 .. MaxChunkNum - 1
        /\ swork[x].gen \in 1 .. attempts /\ swork[x].gen <= sgen[x]
        /\ swork[x].gen = sgen[x] => stask[x][i] = "running"
        /\ i + 1 < N(x) => i + 1 \in Chunks(len[x])
    BY <1>1, WorkerAttempt DEF Working
  <1>3. /\ imm = [type |-> "imm", x |-> x, gen |-> swork[x].gen, chunk |-> i,
                  tag |-> ClientTag(ClientKey[x], i, N(x))]
        /\ here = [type |-> "done", x |-> x, gen |-> swork[x].gen, chunk |-> i,
                   tag |-> NotifyTag(ServerKey[x], i, N(x))]
    BY DEF Notify, Done
  <1>4. /\ ClientTag(ClientKey[x], i, N(x)) \in TagType
        /\ NotifyTag(ServerKey[x], i, N(x)) \in TagType
    BY <1>1, WorkerAttempt, TagTypes
  <1> HIDE DEF imm, here
  <1>5. /\ imm \in Message /\ imm.type = "imm" /\ imm.x = x /\ imm.gen = swork[x].gen
        /\ imm.chunk = i
        /\ here \in Message /\ here.type = "done"
    BY <1>2, <1>3, <1>4 DEF Message, TagType
  <1> USE DEF given, receiverVars, queueVars
  <1>6. \A y \in Transfers : Chunks(len'[y]) = Chunks(len[y])
    BY <1>1 DEF Chunks, NumChunks
  <1>7. /\ stask' = [y \in Transfers |-> stask'[y]]
        /\ swork' \in [Transfers -> SendWork \cup {None}]
        /\ swork'[x] # None => swork'[x].at = "write"
        /\ \A y \in Transfers \ {x} : stask'[y] = stask[y] /\ swork'[y] = swork[y]
        /\ \A y \in Transfers :
             /\ stask'[y] \in [Chunks(len[y]) -> TaskStates]
             /\ swork'[y] # None => swork'[y].task \in Chunks(len[y])
             /\ \A k \in Chunks(len[y]) :
                  /\ stask'[y][k] # "queued" \/ stask'[y][k] = stask[y][k]
                  /\ stask'[y][k] # "none" => sgen[y] > 0
        /\ Working'
    <2>1. CASE i + 1 < N(x)
      <3>1. swork[x] \in SendWork
        BY <1>1 DEF Shape
      <3>2. /\ stask' = stask
            /\ swork'[x] = [swork[x] EXCEPT !.at = "write"]
            /\ \A y \in Transfers \ {x} : swork'[y] = swork[y]
        BY <1>1, <2>1 DEF Shape
      <3>3. /\ swork'[x] \in SendWork /\ swork'[x].at = "write"
            /\ swork'[x].task = i /\ swork'[x].gen = swork[x].gen
        BY <3>1, <3>2 DEF SendWork
      <3>4. swork' \in [Transfers -> SendWork \cup {None}]
        BY <1>1, <2>1, <3>2, <3>3 DEF Shape
      <3>5. \A y \in Transfers : swork'[y] # None => swork'[y].task \in Chunks(len[y])
        BY <1>2, <3>2, <3>3 DEF TypeOK
      <3>6. Working'
        <4> SUFFICES ASSUME NEW y \in Transfers, swork'[y] # None
                     PROVE  /\ swork'[y].gen <= sgen[y]
                            /\ swork'[y].gen = sgen[y] => stask[y][swork'[y].task] = "running"
                            /\ swork'[y].at = "write" => swork'[y].task + 1 \in Chunks(len[y])
          BY <1>1, <1>6, <3>2 DEF Working
        <4>1. CASE y = x
          BY <1>2, <2>1, <3>3, <4>1
        <4>2. CASE y # x
          BY <3>2, <4>2 DEF Working
        <4> QED BY <4>1, <4>2
      <3> QED BY <3>2, <3>3, <3>4, <3>5, <3>6 DEF TypeOK, Shape, Accepted
    <2>2. CASE ~(i + 1 < N(x))
      <3>1. SendMark(x, "ok")
        BY <1>1, <2>2
      <3>2. swork'[x] = None
        BY <1>1, <3>1, SendMarkKeeps
      <3> QED BY <1>1, <3>1, <3>2, SendMarkKeeps DEF TypeOK
    <2> QED BY <2>1, <2>2
  <1>8. TypeOK'
    BY <1>1, <1>5, <1>6, <1>7 DEF TypeOK, Message
  <1>9. Accepted'
    BY <1>1, <1>6, <1>7 DEF Accepted, NumChunks, SendAccepts, RecvAccepts, SplitAccepts
  <1>10. Shape'
    BY <1>1, <1>7 DEF Shape, SendWork
  <1>11. imm \notin cq
    BY <1>1, <1>5 DEF Fresh, Announcing
  <1>12. Fresh'
    <2>1. ASSUME NEW n \in wire \cup cq \cup {imm}, n.type = "imm"
          PROVE  /\ n.chunk \in Chunks(len[n.x])
                 /\ n.gen <= sgen[n.x]
                 /\ n.gen = sgen[n.x] => stask'[n.x][n.chunk] # "queued"
                 /\ (swork'[n.x] # None /\ swork'[n.x].at = "notify")
                      => ~Announcing(n, n.x, swork'[n.x].gen, swork'[n.x].task)
      <3>1. CASE n = imm
        BY <1>2, <1>5, <1>7, <3>1
      <3>2. CASE n \in wire \cup cq
        <4>1. n.x \in Transfers /\ n.chunk \in Chunks(len[n.x])
          BY <2>1, <3>2 DEF TypeOK, Message, Fresh
        <4> QED BY <1>7, <2>1, <3>2, <4>1 DEF Fresh, Announcing
      <3> QED BY <3>1, <3>2
    <2>2. \A n \in wire' \cup cq' : n.type = "imm" =>
            n \in wire \cup cq \cup {imm} /\ n.x \in Transfers
      BY <1>1, <1>5 DEF TypeOK, Message
    <2>3. \A n \in wire' : n.type = "imm" => n \notin cq'
      BY <1>1, <1>5, <1>11 DEF Fresh
    <2> QED BY <1>1, <1>6, <2>1, <2>2, <2>3 DEF Fresh, Announcing
  <1> QED BY <1>1, <1>7, <1>8, <1>9, <1>10, <1>12, QueueFrame

-----------------------------------------------------------------------------
(* The fabric and the completions.                                         *)
LEMMA WriteLandsIInv ==
    ASSUME IInv, NEW m \in wire, WriteLands(m)
    PROVE  IInv'
  <1> USE DEF IInv, WriteLands, given, senderVars, receiverVars, queueVars
  <1>1. Done(m, m.tag) \in Message /\ Done(m, m.tag).type = "done"
    BY DEF TypeOK, Message, Done
  <1>2. TypeOK'
    BY <1>1 DEF TypeOK, Message, Chunks, NumChunks
  <1>3. Shape' /\ Accepted'
    BY DEF Shape, SendWork, Accepted, Chunks, NumChunks, SendAccepts, RecvAccepts,
           SplitAccepts
  <1>4. Working'
    BY DEF Working, Chunks, NumChunks
  <1>5. Fresh'
    <2>1. UNCHANGED <<len, sgen, stask, swork, cq>>
      OBVIOUS
    <2>2. \A k \in wire' : k.type = "imm" => k \in wire
      BY <1>1
    <2> QED BY <2>1, <2>2 DEF Fresh, Announcing
  <1> QED BY <1>2, <1>3, <1>4, <1>5, QueueFrame

(* The entry it takes becomes a completion.                                *)
LEMMA NotificationArrivesIInv ==
    ASSUME IInv, NEW m \in wire, NotificationArrives(m)
    PROVE  IInv'
  <1> USE DEF IInv, NotificationArrives, given, senderVars, receiverVars
  <1>1. TypeOK'
    <2>1. rqe' \in 0 .. depth
      BY DEF TypeOK, Shape
    <2>2. UNCHANGED <<given, senderVars, receiverVars, recorded, filler, filled, lost,
                      posted, rpoll>>
      OBVIOUS
    <2>3. wire' \subseteq Message' /\ cq' \subseteq Message' /\ rpoll' \in Message' \cup {None}
      BY <2>2 DEF TypeOK, Message
    <2> QED BY <2>1, <2>2, <2>3 DEF TypeOK, Chunks, NumChunks
  <1>2. /\ IsFiniteSet(cq') /\ Cardinality(cq') = Cardinality(cq) + 1
        /\ Cardinality(cq) \in Nat
    <2>1. m \notin cq /\ cq' = cq \cup {m} /\ IsFiniteSet(cq)
      BY DEF Fresh, Shape
    <2> QED BY <2>1, FS_AddElement, FS_CardinalityType
  <1>3. Shape' /\ Accepted'
    BY <1>2 DEF Shape, SendWork, Accepted, Chunks, NumChunks, SendAccepts, RecvAccepts,
           SplitAccepts
  <1>4. Working' /\ Fresh'
    BY DEF Working, Fresh, Announcing, Chunks, NumChunks
  <1>5. Balance' = Balance
    BY <1>2 DEF Balance, TypeOK
  <1>6. Credits'
    BY <1>5 DEF Credits, Alike, Prefill, GivesJetty
  <1> QED BY <1>1, <1>3, <1>4, <1>6

(* A completion that is polled gives back its entry, if there is room for  *)
(* it, or is entered as lost.                                              *)
LEMMA RecvPollIInv ==
    ASSUME IInv, NEW m \in cq, RecvPoll(m)
    PROVE  IInv'
  <1> USE DEF IInv, RecvPoll, given, senderVars, receiverVars
  <1>1. /\ IsFiniteSet(cq') /\ Cardinality(cq') = Cardinality(cq) - 1
        /\ Cardinality(cq) \in Nat /\ Cardinality(cq') \in Nat
    <2>1. cq' = cq \ {m} /\ IsFiniteSet(cq)
      BY DEF Shape
    <2> QED BY <2>1, FS_RemoveElement, FS_CardinalityType
  <1>2. rqe \in 0 .. depth /\ depth \in Nat /\ lost \in Nat
    BY DEF TypeOK, Shape
  <1>3. \/ rqe' = rqe + 1 /\ lost' = lost /\ rqe < depth
        \/ rqe' = rqe /\ lost' = lost + 1
    BY <1>2 DEF Refill, RefillPosts, RefillFails
  <1>4. TypeOK'
    <2>1. rqe' \in 0 .. depth /\ lost' \in Nat
      BY <1>2, <1>3
    <2> QED BY <2>1 DEF TypeOK, Message, Chunks, NumChunks
  <1>5. Shape' /\ Accepted'
    BY <1>1 DEF Shape, SendWork, Accepted, Chunks, NumChunks, SendAccepts, RecvAccepts,
           SplitAccepts
  <1>6. Working' /\ Fresh'
    BY DEF Working, Fresh, Announcing, Chunks, NumChunks
  <1>7. Balance' = Balance
    BY <1>1, <1>2, <1>3 DEF Balance
  <1>8. Credits'
    BY <1>7 DEF Credits, Alike, Prefill, GivesJetty
  <1> QED BY <1>4, <1>5, <1>6, <1>8

-----------------------------------------------------------------------------
(* One lemma per action of the receiver.                                   *)
LEMMA RecvDispatchIInv == IInv /\ RecvDispatch => IInv'
  <1> SUFFICES ASSUME IInv, RecvDispatch PROVE IInv'
    OBVIOUS
  <1> USE DEF IInv, RecvDispatch, given, senderVars, queueVars
  <1>1. TypeOK'
    BY DEF TypeOK, Message, Chunks, NumChunks
  <1>2. Shape' /\ Accepted'
    BY DEF Shape, SendWork, Accepted, Chunks, NumChunks, SendAccepts, RecvAccepts,
           SplitAccepts
  <1> QED BY <1>1, <1>2, SenderFrame, QueueFrame

LEMMA RecvTakeIInv ==
    ASSUME IInv, NEW x \in Transfers, RecvTake(x)
    PROVE  IInv'
  <1> USE DEF IInv, RecvTake, given, senderVars, queueVars, fabricVars
  <1>1. /\ \A y \in Transfers : rtask'[y] \in [Chunks(len[y]) -> TaskStates]
        /\ \A y \in Transfers : rwork'[y] # None => rwork'[y].task \in Chunks(len[y])
        /\ rtask' = [y \in Transfers |-> rtask'[y]] /\ rwork' = [y \in Transfers |-> rwork'[y]]
    <2>1. CASE RMatching(x, Head(rpend[x])) = {}
      BY <2>1 DEF TypeOK, Shape
    <2>2. CASE RMatching(x, Head(rpend[x])) # {}
      <3>1. PICK i \in RMatching(x, Head(rpend[x])) :
              /\ rtask' = [rtask EXCEPT ![x][i] = "running"]
              /\ rwork' = [rwork EXCEPT ![x] =
                             [task |-> i, gen |-> rgen[x], msg |-> Head(rpend[x])]]
        BY <2>2
      <3>2. i \in Chunks(len[x])
        BY <3>1 DEF RMatching, RIn
      <3> QED BY <3>1, <3>2 DEF TypeOK, Shape, TaskStates
    <2> QED BY <2>1, <2>2
  <1>2. TypeOK'
    BY <1>1 DEF TypeOK, Message, Chunks, NumChunks
  <1>3. Shape' /\ Accepted'
    BY <1>1 DEF Shape, SendWork, Accepted, Chunks, NumChunks, SendAccepts, RecvAccepts,
           SplitAccepts
  <1> QED BY <1>2, <1>3, SenderFrame, QueueFrame

LEMMA RecvMarkIInv ==
    ASSUME IInv, NEW x \in Transfers, NEW outcome \in {"ok", "failed"}, RecvMark(x, outcome)
    PROVE  IInv'
  <1> USE DEF IInv, RecvMark, given, senderVars, queueVars, fabricVars
  <1>1. \A y \in Transfers : rtask'[y] \in [Chunks(len[y]) -> TaskStates]
    BY DEF TypeOK, Shape, TaskStates
  <1>2. /\ rtask' = [y \in Transfers |-> rtask'[y]] /\ rwork' = [y \in Transfers |-> rwork'[y]]
        /\ \A y \in Transfers : rwork'[y] # None => rwork'[y].task \in Chunks(len[y])
    BY DEF TypeOK, Shape
  <1>3. TypeOK'
    BY <1>1, <1>2 DEF TypeOK, Message, Chunks, NumChunks
  <1>4. Shape' /\ Accepted'
    BY <1>2 DEF Shape, SendWork, Accepted, Chunks, NumChunks, SendAccepts, RecvAccepts,
           SplitAccepts
  <1> QED BY <1>3, <1>4, SenderFrame, QueueFrame

LEMMA RecvRegisterIInv ==
    ASSUME IInv, NEW x \in Transfers, RecvRegister(x)
    PROVE  IInv'
  <1> USE DEF IInv, RecvRegister, given, senderVars, queueVars, fabricVars
  <1>1. rgen' \in [Transfers -> 0 .. attempts]
    BY DEF TypeOK, Shape, MayBegin
  <1>2. \A y \in Transfers : rtask'[y] \in [Chunks(len[y]) -> TaskStates]
    BY DEF TypeOK, Shape, AllTasks, TaskStates
  <1>3. TypeOK'
    BY <1>1, <1>2 DEF TypeOK, Message, Chunks, NumChunks
  <1>4. Shape' /\ Accepted'
    BY DEF Shape, SendWork, TypeOK, Accepted, Chunks, NumChunks, SendAccepts, RecvAccepts,
           SplitAccepts
  <1>5. Credits'
    BY DEF Credits, Alike, Balance, Prefill, GivesJetty, TypeOK
  <1> QED BY <1>3, <1>4, <1>5, SenderFrame

LEMMA RecvTestJettyIInv ==
    ASSUME IInv, NEW x \in Transfers, RecvTestJetty(x)
    PROVE  IInv'
  <1> USE DEF IInv, RecvTestJetty, given, senderVars, queueVars, fabricVars
  <1>1. TypeOK'
    BY DEF TypeOK, Message, Chunks, NumChunks
  <1>2. Shape' /\ Accepted'
    BY DEF Shape, SendWork, Accepted, Chunks, NumChunks, SendAccepts, RecvAccepts,
           SplitAccepts
  <1>3. Credits'
    BY DEF Credits, Alike, Balance, Prefill, GivesJetty, TypeOK
  <1> QED BY <1>1, <1>2, <1>3, SenderFrame

LEMMA RecvLockQueueIInv ==
    ASSUME IInv, NEW x \in Transfers, RecvLockQueue(x)
    PROVE  IInv'
  <1> USE DEF IInv, RecvLockQueue, StillToFill, given, senderVars, fabricVars
  <1>1. TypeOK'
    <2>1. /\ filled' \in 0 .. Capacity /\ filler' \in Transfers \cup {None}
          /\ rpc' \in [Transfers -> {"idle", "test", "lock", "fill", "wait", "lost"}]
      BY QueueAssumption DEF TypeOK
    <2> QED BY <2>1 DEF TypeOK, Message, Chunks, NumChunks
  <1>2. Shape' /\ Accepted'
    BY DEF Shape, SendWork, Accepted, Chunks, NumChunks, SendAccepts, RecvAccepts,
           SplitAccepts
  <1>3. Credits'
    BY BoundsAssumption DEF Credits, Alike, Balance, Prefill, GivesJetty, TypeOK
  <1> QED BY <1>1, <1>2, <1>3, SenderFrame

LEMMA RecvFillIInv ==
    ASSUME IInv, NEW x \in Transfers, RecvFill(x)
    PROVE  IInv'
  <1> USE DEF IInv, RecvFill, given, senderVars, receiverVars, fabricVars
  <1>1. TypeOK'
    <2>1. filled' \in 0 .. Capacity /\ rqe' \in 0 .. depth /\ posted' \in Nat
      BY QueueAssumption DEF TypeOK, Shape
    <2> QED BY <2>1 DEF TypeOK, Message, Chunks, NumChunks
  <1>2. Shape' /\ Accepted'
    BY DEF Shape, SendWork, Accepted, Chunks, NumChunks, SendAccepts, RecvAccepts,
           SplitAccepts
  <1>3. Cardinality(cq) \in Nat /\ filled \in Nat /\ rqe \in Nat /\ lost \in Nat
        /\ posted \in Nat /\ Prefill \in Nat
    BY FS_CardinalityType, QueueAssumption DEF Shape, TypeOK, Prefill
  <1>4. Balance' = Balance + 1
    BY <1>3 DEF Balance
  <1>5. Prefill' = Prefill
    BY DEF Prefill
  <1>6. Credits'
    BY <1>3, <1>4, <1>5, BoundsAssumption DEF Credits, Alike, GivesJetty
  <1> QED BY <1>1, <1>2, <1>6, SenderFrame

(* The prefill has posted all it was to post, or all there is room for: an *)
(* entry that is in the queue has been posted.                             *)
LEMMA RecvFillEndsIInv ==
    ASSUME IInv, NEW x \in Transfers, RecvFillEnds(x)
    PROVE  IInv'
  <1> USE DEF IInv, RecvFillEnds, given, senderVars, fabricVars
  <1>1. TypeOK'
    <2>1. recorded' \in BOOLEAN
      BY DEF GivesJetty
    <2>2. rpc' \in [Transfers -> {"idle", "test", "lock", "fill", "wait", "lost"}]
      BY DEF TypeOK
    <2> QED BY <2>1, <2>2 DEF TypeOK, Message, Chunks, NumChunks
  <1>2. Shape' /\ Accepted'
    BY DEF Shape, SendWork, Accepted, Chunks, NumChunks, SendAccepts, RecvAccepts,
           SplitAccepts
  <1>3. Cardinality(cq) \in Nat /\ filled \in 0 .. Capacity /\ rqe \in 0 .. depth
        /\ lost \in Nat /\ posted \in Nat /\ Capacity \in Nat /\ depth \in Nat
    BY FS_CardinalityType, QueueAssumption DEF Shape, TypeOK
  <1>4. posted >= Prefill /\ Prefill' = Prefill
    BY <1>3 DEF Credits, Balance, Prefill
  <1>5. Balance' = Balance
    BY DEF Balance
  <1>6. Alike' => Alike /\ filler # None /\ GivesJetty(x)
    BY BoundsAssumption DEF Alike, Credits, GivesJetty, TypeOK
  <1>7. Credits'
    <2>1. Balance' = posted' /\ filled' <= posted' /\ posted' >= Prefill'
      BY <1>4, <1>5 DEF Credits
    <2>2. Alike' => recorded' /\ posted' <= Capacity
      BY <1>3, <1>6 DEF Credits
    <2> QED BY <2>1, <2>2 DEF Credits
  <1> QED BY <1>1, <1>2, <1>7, SenderFrame

LEMMA RecvFillFailsIInv ==
    ASSUME IInv, NEW x \in Transfers, RecvFillFails(x)
    PROVE  IInv'
  <1> USE DEF IInv, RecvFillFails, given, senderVars, fabricVars
  <1>1. TypeOK'
    BY DEF TypeOK, Message, Chunks, NumChunks
  <1>2. Shape' /\ Accepted'
    BY DEF Shape, SendWork, Accepted, Chunks, NumChunks, SendAccepts, RecvAccepts,
           SplitAccepts
  <1>3. Credits'
    BY DEF Credits, Alike, Balance, Prefill, GivesJetty, TypeOK
  <1> QED BY <1>1, <1>2, <1>3, SenderFrame

LEMMA RecvReturnsOkIInv ==
    ASSUME IInv, NEW x \in Transfers, RecvReturnsOk(x)
    PROVE  IInv'
  <1> USE DEF IInv, RecvReturnsOk, given, senderVars, queueVars, fabricVars
  <1>1. TypeOK'
    BY DEF TypeOK, Message, Chunks, NumChunks
  <1>2. Shape' /\ Accepted'
    BY DEF Shape, SendWork, Accepted, Chunks, NumChunks, SendAccepts, RecvAccepts,
           SplitAccepts
  <1>3. Credits'
    BY DEF Credits, Alike, Balance, Prefill, GivesJetty, TypeOK
  <1> QED BY <1>1, <1>2, <1>3, SenderFrame

LEMMA RecvEndsWithErrorIInv ==
    ASSUME IInv, NEW x \in Transfers, RecvEndsWithError(x)
    PROVE  IInv'
  <1> USE DEF IInv, RecvEndsWithError, given, senderVars, queueVars, fabricVars
  <1>1. \A y \in Transfers : rtask'[y] \in [Chunks(len[y]) -> TaskStates]
    BY DEF TypeOK, Shape, Canceled, TaskStates
  <1>2. TypeOK'
    BY <1>1 DEF TypeOK, Message, Chunks, NumChunks
  <1>3. Shape' /\ Accepted'
    BY DEF Shape, SendWork, Accepted, Chunks, NumChunks, SendAccepts, RecvAccepts,
           SplitAccepts
  <1>4. Credits'
    BY DEF Credits, Alike, Balance, Prefill, GivesJetty, TypeOK
  <1> QED BY <1>2, <1>3, <1>4, SenderFrame

-----------------------------------------------------------------------------
LEMMA StutterIInv == IInv /\ UNCHANGED vars => IInv'
  <1> SUFFICES ASSUME IInv, UNCHANGED vars PROVE IInv'
    OBVIOUS
  <1> USE DEF IInv, vars, given, senderVars, receiverVars, queueVars, fabricVars
  <1>1. TypeOK'
    BY DEF TypeOK, Message, Chunks, NumChunks
  <1>2. Shape' /\ Accepted'
    BY DEF Shape, SendWork, Accepted, Chunks, NumChunks, SendAccepts, RecvAccepts,
           SplitAccepts
  <1> QED BY <1>1, <1>2, SenderFrame, QueueFrame

LEMMA NextIInv == IInv /\ [Next]_vars => IInv'
  <1> SUFFICES ASSUME IInv, [Next]_vars PROVE IInv'
    OBVIOUS
  <1>1. ASSUME NEW x \in Transfers, SendRegister(x) \/ SendCall(x) \/ SendGivesUp(x)
        PROVE  IInv'
    BY <1>1, SendRegisterIInv, SendFirstChunkIInv, SendFirstChunkFailsIInv,
       SendReturnsOkIInv, SendEndsWithErrorIInv DEF SendCall, SendReturnsError, SendGivesUp
  <1>2. ASSUME NEW x \in Transfers, SendWorker(x)
        PROVE  IInv'
    BY <1>2, SendTakeIInv, SendNotifyIInv, SendWriteIInv, SendTaskFailsIInv DEF SendWorker
  <1>3. ASSUME NEW x \in Transfers, RecvRegister(x) \/ RecvCall(x) \/ RecvGivesUp(x)
        PROVE  IInv'
    BY <1>3, RecvRegisterIInv, RecvTestJettyIInv, RecvLockQueueIInv, RecvFillIInv,
       RecvFillEndsIInv, RecvFillFailsIInv, RecvReturnsOkIInv, RecvEndsWithErrorIInv
       DEF RecvCall, RecvReturnsError, RecvGivesUp
  <1>4. ASSUME NEW x \in Transfers, RecvWorker(x)
        PROVE  IInv'
    BY <1>4, RecvTakeIInv, RecvMarkIInv DEF RecvWorker, CallbackReturns, CallbackFails
  <1>5. CASE Polling
    BY <1>5, RecvDispatchIInv, RecvPollIInv DEF Polling
  <1>6. CASE Fabric
    BY <1>6, WriteLandsIInv, LocalCompletionIInv, NotificationArrivesIInv DEF Fabric
  <1>7. CASE Terminating \/ UNCHANGED vars
    BY <1>7, StutterIInv DEF Terminating
  <1> QED BY <1>1, <1>2, <1>3, <1>4, <1>5, <1>6, <1>7 DEF Next

(* The invariant that TypeOK, SplitIsExact and CreditsConserved rest on.   *)
THEOREM TransportInvariant == Spec => []IInv
  <1>1. Init => IInv
    BY InitIInv
  <1>2. IInv /\ [Next]_vars => IInv'
    BY NextIInv
  <1> QED BY <1>1, <1>2, PTL DEF Spec

(* Messages, tasks and the receive queue keep their types: the numbers of  *)
(* chunks fit the tag, identifiers fit the user context after encoding, the*)
(* receive queue never holds more than it has room for.                    *)
THEOREM TransportTypeCorrect == Spec => []TypeOK
  <1>1. IInv => TypeOK
    BY DEF IInv
  <1> QED BY <1>1, TransportInvariant, PTL

(* A request that was accepted is split without a gap or an overlap, for   *)
(* every length of 32 bits (common_split_chunks and its callers).          *)
THEOREM TransportSplitIsExact == Spec => []SplitIsExact
  <1>1. IInv => SplitIsExact
    <2> SUFFICES ASSUME IInv, NEW x \in Transfers, sgen[x] > 0 \/ rgen[x] > 0
                 PROVE  Tiles(len[x]) /\ Chunks(len[x]) \subseteq 0 .. MaxChunkNum - 1
      BY DEF SplitIsExact
    <2>1. len[x] \in Length /\ RecvAccepts(len[x])
      BY SplitAssumption DEF IInv, TypeOK, Accepted, SendAccepts, RecvAccepts
    <2> QED BY <2>1, SplitTiles
  <1> QED BY <1>1, TransportInvariant, PTL

(* Every entry posted to the receive queue is there, or is a completion to *)
(* be polled, or was lost to a refill that failed; a receive that gives the*)
(* jetty does not wait before the queue had its prefill, and receives that *)
(* begin together prefill it once.  For every number of receivers, every   *)
(* order of completions, every depth of the queue, refills that fail at    *)
(* will, receivers with a jfr only, and also when callers retry carelessly *)
(* (urma_recv_ctx_init and urma_recv_ctx_add).                             *)
THEOREM TransportCreditsConserved == Spec => []CreditsConserved
  <1>1. IInv => CreditsConserved
    BY QueueAssumption DEF IInv, TypeOK, Credits, Alike, Balance, CreditsConserved
  <1> QED BY <1>1, TransportInvariant, PTL
=============================================================================
