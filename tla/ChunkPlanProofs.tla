--------------------------- MODULE ChunkPlanProofs ---------------------------
(***************************************************************************)
(* Facts about ChunkPlan that hold for every chunk size, word and width.   *)
(***************************************************************************)
EXTENDS ChunkPlan, TLAPS

(* Division of a 32-bit sum by the chunk size, as the proofs use it.       *)
LEMMA DivisionLaw ==
    ASSUME NEW a \in Nat, NEW b \in Nat \ {0}
    PROVE  /\ a \div b \in Nat
           /\ b * (a \div b) <= a
           /\ a < b * (a \div b) + b
  BY SMT

(* The rounded-up length stays a 32-bit number, and is the length plus     *)
(* ChunkSize - 1 unless that wraps; when it wraps the result is less than  *)
(* a chunk, and so there are no chunks.                                    *)
LEMMA RoundedUp ==
    ASSUME NEW len \in Length
    PROVE  LET sum == (len + ChunkSize - 1) % Word
           IN  /\ sum \in Nat
               /\ len + ChunkSize - 1 < Word => sum = len + ChunkSize - 1
               /\ len + ChunkSize - 1 >= Word => sum < ChunkSize
  <1> DEFINE a == len + ChunkSize - 1
  <1>1. a \in Nat /\ a < 2 * Word /\ len < Word
    BY SplitAssumption DEF Length
  <1>2. CASE a < Word
    <2>1. a % Word = a
      BY <1>1, <1>2, SplitAssumption
    <2> QED BY <1>1, <1>2, <2>1, SplitAssumption DEF Length
  <1>3. CASE a >= Word
    <2>1. a % Word = a - Word
      BY <1>1, <1>3, SplitAssumption
    <2>2. a - Word < ChunkSize
      BY <1>1, SplitAssumption DEF Length
    <2> QED BY <1>1, <1>3, <2>1, <2>2, SplitAssumption DEF Length
  <1> QED BY <1>1, <1>2, <1>3, SplitAssumption

(* An accepted length was not wrapped, and lies in its last chunk.         *)
LEMMA AcceptedLength ==
    ASSUME NEW len \in Length, RecvAccepts(len)
    PROVE  /\ NumChunks(len) \in 1 .. MaxChunkNum
           /\ (NumChunks(len) - 1) * ChunkSize < len
           /\ len <= NumChunks(len) * ChunkSize
  <1> DEFINE sum == (len + ChunkSize - 1) % Word
             n == NumChunks(len)
  <1>1. sum \in Nat
    BY RoundedUp
  <1>2. n = sum \div ChunkSize
    BY DEF NumChunks
  <1> HIDE DEF sum
  <1>3. /\ n \in Nat
        /\ ChunkSize * n <= sum
        /\ sum < ChunkSize * n + ChunkSize
    BY <1>1, <1>2, DivisionLaw, SplitAssumption
  <1>4. n # 0 /\ n <= MaxChunkNum /\ len # 0
    BY DEF RecvAccepts, SplitAccepts
  <1> HIDE DEF n
  <1>5. ChunkSize * n >= ChunkSize
    BY <1>3, <1>4, SplitAssumption
  <1>6. sum = len + ChunkSize - 1
    BY <1>3, <1>5, RoundedUp, SplitAssumption DEF sum, Length
  <1>7. /\ (n - 1) * ChunkSize = ChunkSize * n - ChunkSize
        /\ n * ChunkSize = ChunkSize * n
    BY <1>3, SplitAssumption
  <1>8. (n - 1) * ChunkSize < len /\ len <= n * ChunkSize
    BY <1>3, <1>6, <1>7, SplitAssumption DEF Length
  <1> QED BY <1>3, <1>4, <1>8, SplitAssumption DEF n

(* Every length that either path accepts is split without a gap or an      *)
(* overlap into at most MaxChunkNum chunks: no wrapped sum gets through    *)
(* the checks (common_split_chunks, os_transport.c:481).                   *)
THEOREM SplitTiles ==
    ASSUME NEW len \in Length, RecvAccepts(len)
    PROVE  Tiles(len) /\ Chunks(len) \subseteq 0 .. MaxChunkNum - 1
  <1> DEFINE n == NumChunks(len)
  <1>1. /\ n \in 1 .. MaxChunkNum
        /\ (n - 1) * ChunkSize < len
        /\ len <= n * ChunkSize
    BY AcceptedLength
  <1>2. Chunks(len) = 0 .. n - 1
    BY DEF Chunks
  <1>3. ChunkSize \in Nat \ {0} /\ len \in Nat /\ MaxChunkNum \in Nat
    BY SplitAssumption DEF Length
  <1> HIDE DEF n
  <1>4. ASSUME NEW i \in 0 .. n - 1
        PROVE  /\ ChunkLen(len, i) \in 1 .. ChunkSize
               /\ ChunkOffset(i) + ChunkLen(len, i) =
                    IF i + 1 \in 0 .. n - 1 THEN ChunkOffset(i + 1) ELSE len
    <2>1. (i + 1) * ChunkSize = i * ChunkSize + ChunkSize /\ i * ChunkSize \in Nat
      BY <1>3
    <2>2. CASE i = n - 1
      <3>1. i * ChunkSize < len /\ len <= i * ChunkSize + ChunkSize
        BY <1>1, <1>3, <2>1, <2>2
      <3>2. ChunkLen(len, i) = len - i * ChunkSize
        BY <1>3, <2>1, <3>1 DEF ChunkLen, ChunkOffset
      <3> QED BY <1>3, <2>1, <2>2, <3>1, <3>2 DEF ChunkOffset
    <2>3. CASE i < n - 1
      <3>1. (i + 1) * ChunkSize <= (n - 1) * ChunkSize
        <4>1. n - 1 - (i + 1) \in Nat
          BY <1>1, <2>3
        <4>2. (n - 1 - (i + 1)) * ChunkSize >= 0
          BY <1>3, <4>1
        <4>3. (n - 1) * ChunkSize = (i + 1) * ChunkSize + (n - 1 - (i + 1)) * ChunkSize
          BY <1>1, <1>3
        <4> QED BY <1>1, <1>3, <2>1, <4>2, <4>3
      <3>2. len - i * ChunkSize > ChunkSize
        BY <1>1, <1>3, <2>1, <3>1
      <3>3. ChunkLen(len, i) = ChunkSize
        BY <3>2 DEF ChunkLen, ChunkOffset
      <3> QED BY <1>1, <1>3, <2>1, <2>3, <3>3 DEF ChunkOffset
    <2> QED BY <1>1, <2>2, <2>3
  <1>5. ChunkOffset(0) = 0
    BY <1>3 DEF ChunkOffset
  <1>6. Tiles(len)
    BY <1>2, <1>4, <1>5 DEF Tiles
  <1>7. Chunks(len) \subseteq 0 .. MaxChunkNum - 1
    BY <1>1, <1>2, <1>3
  <1> QED BY <1>6, <1>7

-----------------------------------------------------------------------------
(* encode_request_id puts the two halves where they do not meet, and       *)
(* decode_request_id gets them back: for every identifier the library      *)
(* accepts, in fields of any width (os_transport.c:440).                   *)
THEOREM CodecRoundTrip ==
    ASSUME NEW raw \in RawIds
    PROVE  /\ decode_request_id(encode_request_id(raw)) = raw
           /\ encode_request_id(raw) \subseteq 0 .. RequestIdBits - 1
  <1>1. /\ FieldWidth \in Nat /\ RequestIdBits \in Nat
        /\ HighFieldShift \in Nat /\ HighFieldShift >= FieldWidth
        /\ HighFieldShift + FieldWidth = RequestIdBits
    BY WidthAssumption DEF HighFieldShift
  <1>2. \A b \in raw : b \in Nat /\ b < 2 * FieldWidth
    BY <1>1 DEF RawIds
  <1> DEFINE low == {b \in raw : b < FieldWidth}
             high == {b \in raw : b >= FieldWidth}
  <1>3. raw = low \cup high
    BY <1>1, <1>2
  <1>4. Mask(raw) = low
    BY DEF Mask
  <1>5. Mask(ShiftRight(raw, FieldWidth)) = {b - FieldWidth : b \in high}
    BY <1>1, <1>2 DEF Mask, ShiftRight
  <1> DEFINE moved == {b - FieldWidth + HighFieldShift : b \in high}
  <1>6. encode_request_id(raw) = moved \cup low
    BY <1>4, <1>5 DEF encode_request_id, ShiftLeft
  <1>7. Mask(moved \cup low) = low
    BY <1>1, <1>2 DEF Mask
  <1>8. ShiftRight(moved \cup low, HighFieldShift) = {b - FieldWidth : b \in high}
    <2>1. {c \in moved \cup low : c >= HighFieldShift} = moved
      BY <1>1, <1>2
    <2>2. ASSUME NEW b \in high
          PROVE  (b - FieldWidth + HighFieldShift) - HighFieldShift = b - FieldWidth
      BY <1>1, <1>2
    <2>3. {c - HighFieldShift : c \in moved} = {b - FieldWidth : b \in high}
      BY <2>2, Zenon
    <2> QED BY <2>1, <2>3 DEF ShiftRight
  <1>9. Mask({b - FieldWidth : b \in high}) = {b - FieldWidth : b \in high}
    BY <1>1, <1>2 DEF Mask
  <1>10. ShiftLeft({b - FieldWidth : b \in high}, FieldWidth) = high
    <2>1. ASSUME NEW b \in high
          PROVE  (b - FieldWidth) + FieldWidth = b
      BY <1>1, <1>2
    <2>2. {c + FieldWidth : c \in {b - FieldWidth : b \in high}} = high
      BY <2>1, Zenon
    <2> QED BY <2>2 DEF ShiftLeft
  <1>11. decode_request_id(encode_request_id(raw)) = raw
    BY <1>3, <1>6, <1>7, <1>8, <1>9, <1>10 DEF decode_request_id
  <1>12. moved \cup low \subseteq 0 .. RequestIdBits - 1
    BY <1>1, <1>2
  <1> QED BY <1>6, <1>11, <1>12

(* Two identifiers the library accepts are never confused on the wire.     *)
THEOREM CodecInjective ==
    ASSUME NEW raw1 \in RawIds, NEW raw2 \in RawIds,
           encode_request_id(raw1) = encode_request_id(raw2)
    PROVE  raw1 = raw2
  BY CodecRoundTrip

-----------------------------------------------------------------------------
(* The notification that send task i sends decodes to exactly the context  *)
(* the peer's receive task i was registered with, and to no other chunk's: *)
(* the shift of the client contexts, the codec and the "last" bit agree at *)
(* both ends (register_send_tasks, register_recv_tasks).                   *)
THEOREM NotificationMatches ==
    ASSUME NEW key \in RawIds, NEW n \in Nat, n >= 2,
           NEW i \in 0 .. n - 1, NEW j \in 0 .. n - 1
    PROVE  DecodedTag(ClientTag(key, i, n)) = ExpectedTag(key, j, n) <=> i = j
  <1> DEFINE sent == ClientTag(key, i, n)
  <1>1. sent = Tag(encode_request_id(key), i = n - 1, i)
    <2>1. CASE i = 0
      <3>1. (i = n - 1) = FALSE
        BY <2>1
      <3> QED BY <2>1, <3>1 DEF ClientTag, FirstTag, Tag
    <2>2. CASE i # 0
      <3>1. (i >= n - 1) = (i = n - 1)
        BY <2>2
      <3> QED BY <2>2, <3>1 DEF ClientTag, ConstructedTag, Tag
    <2> QED BY <2>1, <2>2
  <1>2. DecodedTag(sent) = Tag(decode_request_id(encode_request_id(key)), i = n - 1, i)
    BY <1>1 DEF DecodedTag, Tag
  <1>3. DecodedTag(sent) = ExpectedTag(key, i, n)
    BY <1>2, CodecRoundTrip DEF ExpectedTag
  <1>4. ASSUME ExpectedTag(key, i, n) = ExpectedTag(key, j, n) PROVE i = j
    BY <1>4 DEF ExpectedTag, Tag
  <1> QED BY <1>3, <1>4

(* The number of a notification's own completion is no chunk's number, so  *)
(* the sender's test of it (os_transport.c:1368) never drops a chunk's.    *)
THEOREM NotifyNumberReserved ==
    ASSUME NEW len \in Length, SendAccepts(len), NEW key, NEW i \in Chunks(len)
    PROVE  /\ ConstructedTag(key, i, NumChunks(len)).id < MaxChunkNum
           /\ NotifyTag(key, i, NumChunks(len)).id = MaxChunkNum
  <1>1. RecvAccepts(len)
    BY DEF SendAccepts, RecvAccepts
  <1>2. i \in 0 .. MaxChunkNum - 1
    BY <1>1, SplitTiles
  <1>3. i < MaxChunkNum
    BY <1>2, SplitAssumption
  <1> QED BY <1>3 DEF ConstructedTag, NotifyTag, ServerTag, Tag
=============================================================================
