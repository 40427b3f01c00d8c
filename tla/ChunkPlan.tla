----------------------------- MODULE ChunkPlan ------------------------------
(***************************************************************************)
(* The pure part of src/src/os_transport.c: how a length is split into     *)
(* chunks, which user contexts the chunks and their notifications carry,   *)
(* and how a request identifier is packed into a user context and unpacked.*)
(*                                                                         *)
(* Words that are shifted and masked are sets of bit positions: a mask     *)
(* selects positions, a shift moves them, an "or" is a union.  So the      *)
(* widths are parameters, and no 64-bit number has to be computed.         *)
(***************************************************************************)
EXTENDS Integers

CONSTANTS
    ChunkSize,      \* DEFAULT_CHUNK_SIZE, 2 MB
    Word,           \* the uint32_t arithmetic is modulo this, 2^32
    MaxChunkNum,    \* OS_TRANSPORT_MAX_CHUNK_NUM, 7
    FieldWidth,     \* URMA_REQ_ID_FIELD_WIDTH, 20
    RequestIdBits   \* REQUEST_ID_BITS, 60

ASSUME SplitAssumption ==
    /\ ChunkSize \in Nat \ {0} /\ MaxChunkNum \in Nat \ {0}
    /\ Word \in Nat /\ Word > ChunkSize
ASSUME WidthAssumption ==
    /\ FieldWidth \in Nat \ {0} /\ RequestIdBits \in Nat
    /\ RequestIdBits >= 2 * FieldWidth

-----------------------------------------------------------------------------
(* A uint32_t length, and the number of chunks common_split_chunks computes *)
(* for it.  The sum is one of 32 bits: it wraps for the longest lengths.   *)
Length == 0 .. Word - 1

(* Mutant: the length is not rounded up.                                   *)
NumChunks_Floor(len) == len \div ChunkSize

NumChunks(len) == ((len + ChunkSize - 1) % Word) \div ChunkSize

(* Mutant: as many chunks as the tag has values, the reserved one included.*)
SplitAccepts_Eight(len) == len # 0 /\ NumChunks(len) <= MaxChunkNum + 1

(* What both paths check before they split, and common_split_chunks itself. *)
SplitAccepts(len) == len # 0 /\ NumChunks(len) <= MaxChunkNum

(* construct_and_register_worker_task wants a chunk, and register_send_tasks*)
(* two of them.                                                            *)
RecvAccepts(len) == SplitAccepts(len) /\ NumChunks(len) # 0
SendAccepts(len) == SplitAccepts(len) /\ NumChunks(len) >= 2

ChunkOffset(i) == i * ChunkSize
ChunkLen(len, i) ==
    IF len - ChunkOffset(i) > ChunkSize THEN ChunkSize ELSE len - ChunkOffset(i)

Chunks(len) == 0 .. NumChunks(len) - 1

(* What a split owes to both ends: the chunks follow one another without a *)
(* gap or an overlap, none is empty or longer than a chunk may be, and the *)
(* last one ends where the buffer does.                                    *)
Tiles(len) ==
    /\ ChunkOffset(0) = 0
    /\ \A i \in Chunks(len) :
         /\ ChunkLen(len, i) \in 1 .. ChunkSize
         /\ ChunkOffset(i) + ChunkLen(len, i) =
              IF i + 1 \in Chunks(len) THEN ChunkOffset(i + 1) ELSE len

-----------------------------------------------------------------------------
(* Words as sets of bit positions.                                         *)
Mask(word) == {b \in word : b < FieldWidth}
ShiftLeft(word, n) == {b + n : b \in word}
ShiftRight(word, n) == {b - n : b \in {c \in word : c >= n}}

RawIds == SUBSET (0 .. 2 * FieldWidth - 1)
is_request_id_valid(raw) == raw \in RawIds

HighFieldShift == RequestIdBits - FieldWidth

(* Mutant: the high half is left where it is.                              *)
encode_request_id_InPlace(raw) == raw

encode_request_id(raw) ==
    ShiftLeft(Mask(ShiftRight(raw, FieldWidth)), HighFieldShift) \cup Mask(raw)

decode_request_id(encoded) ==
    ShiftLeft(Mask(ShiftRight(encoded, HighFieldShift)), FieldWidth) \cup Mask(encoded)

-----------------------------------------------------------------------------
(* os_transport_user_data_t: identifier, "is it the last chunk", number.   *)
Tag(key, last, id) == [key |-> key, last |-> last, id |-> id]

(* construct_send_task_arg for chunk number idx of n.                      *)
ConstructedTag(key, idx, n) == Tag(key, idx >= n - 1, idx)

(* build_write_info: what chunk 0 and its notification carry.              *)
FirstTag(key) == Tag(key, FALSE, 0)

(* Task i of a send writes chunk i + 1 under the tag of that chunk, and    *)
(* notifies the peer of chunk i, whose completion woke it: the contexts    *)
(* for the client are shifted by one after they have been constructed.     *)
ServerTag(key, i, n) == ConstructedTag(key, i + 1, n)

(* Mutant: the shift is forgotten.                                         *)
ClientTag_NoShift(key, i, n) == ConstructedTag(encode_request_id(key), i + 1, n)

ClientTag(key, i, n) ==
    IF i = 0 THEN FirstTag(encode_request_id(key))
             ELSE ConstructedTag(encode_request_id(key), i, n)

(* make_transport_user_data_raw64 in register_recv_tasks.                  *)
ExpectedTag(key, i, n) == Tag(key, i = n - 1, i)

(* urma_write_internal: the completion of the notification at its sender   *)
(* carries a number that no chunk has.                                     *)
NotifyTag(key, i, n) == [ServerTag(key, i, n) EXCEPT !.id = MaxChunkNum]

(* os_transport_wake_up_task, receiving side.                              *)
DecodedTag(imm) == [imm EXCEPT !.key = decode_request_id(@)]
=============================================================================
