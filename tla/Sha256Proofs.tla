----------------------------- MODULE Sha256Proofs -----------------------------
(***************************************************************************)
(* What holds of common/hash.c for every message, every size of fread's      *)
(* buffer and every content of a fresh context.                             *)
(***************************************************************************)
EXTENDS Sha256, SequenceTheorems, TLAPS

\* A byte of a number is a byte: the padding writes octets.
LEMMA ByteOfOctet ==
  ASSUME NEW n \in Nat, NEW k \in 0 .. 7
  PROVE  ByteOf(n, k) \in Octet
<1>1. \A x \in Nat : x \div 256 \in Nat /\ x % 256 \in Octet
  BY DEF Octet
<1>2. ByteOf(n, k) \in {x % 256 : x \in Nat}
  BY <1>1 DEF ByteOf
<1> QED
  BY <1>1, <1>2

\* The buffer with one byte put in is a buffer, and holds what it held before it.
LEMMA PutBlock ==
  ASSUME TypeOK, at < got
  PROVE  /\ Put \in Block
         /\ Put[datalen + 1] = message[at + 1]
         /\ \A j \in 1 .. datalen : Put[j] = data[j]
<1>1. datalen + 1 \in 1 .. 64 /\ data \in Block
  BY DEF TypeOK
<1>2. message[at + 1] \in Octet
  BY ElementOfSeq, LenProperties DEF TypeOK
<1>3. Put \in Block
  BY <1>1, <1>2 DEF Put, Block
<1>4. Put[datalen + 1] = message[at + 1]
  BY <1>1 DEF Put, Block
<1>5. \A j \in 1 .. datalen : Put[j] = data[j]
  <2>1. \A j \in 1 .. datalen : j \in 1 .. 64 /\ j # datalen + 1
    BY DEF TypeOK
  <2> QED
    BY <1>1, <2>1 DEF Put, Block
<1> QED
  BY <1>3, <1>4, <1>5

\* So is the buffer with the mark and the zeros.
LEMMA MarkBlock ==
  ASSUME TypeOK, NEW end
  PROVE  /\ Mark(datalen, end) \in Block
         /\ \A i \in 1 .. 64 : Mark(datalen, end)[i] =
              IF i = datalen + 1 THEN 128 ELSE IF i \in datalen + 2 .. end THEN 0 ELSE data[i]
<1>1. \A i \in 1 .. 64 : data[i] \in Octet
  BY DEF TypeOK, Block
<1>2. 128 \in Octet /\ 0 \in Octet
  BY DEF Octet
<1>3. \A i \in 1 .. 64 :
        (IF i = datalen + 1 THEN 128 ELSE IF i \in datalen + 2 .. end THEN 0 ELSE data[i]) \in Octet
  BY <1>1, <1>2
<1>4. Mark(datalen, end) \in Block
  BY <1>3 DEF Mark, Block
<1>5. \A i \in 1 .. 64 : Mark(datalen, end)[i] =
        IF i = datalen + 1 THEN 128 ELSE IF i \in datalen + 2 .. end THEN 0 ELSE data[i]
  BY DEF Mark
<1> QED
  BY <1>4, <1>5

\* transform adds one block behind the others.
LEMMA TransformAdds ==
  ASSUME state \in Seq(Block), NEW block \in Block, Transform(block)
  PROVE  /\ state' \in Seq(Block)
         /\ Len(state') = Len(state) + 1
         /\ state'[Len(state) + 1] = block
         /\ \A i \in 1 .. Len(state) : state'[i] = state[i]
BY AppendProperties DEF Transform

\* TypeOK is inductive: in particular datalen never leaves the buffer.
LEMMA TypeStep ==
  ASSUME TypeOK, [Next]_vars
  PROVE  TypeOK'
<1>1. Len(message) \in Nat
  BY LenProperties DEF TypeOK
<1>2. ASSUME NEW n \in Nat, got + n <= Len(message), Returned(n), ferror' \in BOOLEAN
      PROVE  TypeOK'
  BY <1>1, <1>2 DEF TypeOK, Returned, ctxVars
<1>3. CASE Fread
  <2> DEFINE n == IF Len(message) - got < BufLen THEN Len(message) - got ELSE BufLen
  <2>1. n \in Nat /\ got + n <= Len(message)
    BY <1>1, Sha256Assumption DEF TypeOK
  <2>2. Returned(n) /\ ferror' \in BOOLEAN
    BY <1>3 DEF Fread, TypeOK
  <2> QED
    BY <1>2, <2>1, <2>2
<1>4. CASE FreadFails
  <2>1. PICK n \in 0 .. BufLen - 1 : got + n <= Len(message) /\ Returned(n)
    BY <1>4 DEF FreadFails
  <2> QED
    BY <1>2, <1>4, <2>1 DEF FreadFails
<1>5. CASE UpdateByte
  <2>1. /\ at < got /\ at' = at + 1 /\ data' = Put
        /\ UNCHANGED << message, file, got, ferror, pc >>
    BY <1>5 DEF UpdateByte, Takes
  <2>2. Put \in Block
    BY <2>1, PutBlock
  <2>3. CASE datalen < 63
    BY <1>5, <2>1, <2>2, <2>3 DEF UpdateByte, TypeOK
  <2>4. CASE ~(datalen < 63)
    <3>1. Transform(Put) /\ bitlen' = bitlen + 512 /\ datalen' = 0
      BY <1>5, <2>4 DEF UpdateByte
    <3>2. state' \in Seq(Block)
      BY <2>2, <3>1, TransformAdds DEF TypeOK
    <3> QED
      BY <2>1, <2>2, <3>1, <3>2 DEF TypeOK
  <2> QED
    BY <2>3, <2>4
<1>6. CASE Updated \/ ReadFailed
  BY <1>6 DEF TypeOK, Updated, ReadFailed, inputVars, ctxVars
<1>7. CASE FinalShort
  <2>1. data' \in Block
    BY <1>7, MarkBlock DEF FinalShort
  <2> QED
    BY <1>7, <2>1 DEF TypeOK, FinalShort, inputVars
<1>8. CASE FinalLong
  <2>1. Mark(datalen, 64) \in Block
    BY MarkBlock
  <2>2. state' \in Seq(Block)
    BY <1>8, <2>1, TransformAdds DEF TypeOK, FinalLong
  <2>3. data' = [i \in 1 .. 64 |-> IF i <= 56 THEN 0 ELSE Mark(datalen, 64)[i]]
    BY <1>8 DEF FinalLong
  <2>4. 0 \in Octet /\ \A i \in 1 .. 64 : Mark(datalen, 64)[i] \in Octet
    <3>1. \A i \in 1 .. 64 : Mark(datalen, 64)[i] \in Octet
      BY <2>1, Zenon DEF Block
    <3>2. 0 \in Octet
      BY DEF Octet
    <3> QED
      BY <3>1, <3>2, Zenon
  <2>5. data' \in Block
    BY <2>3, <2>4 DEF Block
  <2> QED
    BY <1>8, <2>2, <2>5 DEF TypeOK, FinalLong, inputVars
<1>9. CASE FinalLength
  <2>1. bitlen' \in Nat
    BY <1>9 DEF TypeOK, FinalLength
  <2>2. \A i \in 57 .. 64 : ByteOf(bitlen', 64 - i) \in Octet
    BY <2>1, ByteOfOctet
  <2>3. data' \in Block
    BY <1>9, <2>2 DEF TypeOK, FinalLength, Block
  <2>4. state' \in Seq(Block)
    BY <1>9, <2>3, TransformAdds DEF TypeOK, FinalLength
  <2> QED
    BY <1>9, <2>1, <2>3, <2>4 DEF TypeOK, FinalLength, inputVars
<1>10. CASE UNCHANGED vars
  BY <1>10 DEF TypeOK, vars, inputVars, ctxVars
<1> QED
  BY <1>3, <1>4, <1>5, <1>6, <1>7, <1>8, <1>9, <1>10 DEF Next

\* The variables of the hash keep their types; the buffer is never overrun.
THEOREM Sha256Typed == Spec => []TypeOK
<1>1. Init => TypeOK
  <2>1. \A m \in Messages : m \in Seq(Octet) /\ Len(m) \in Nat
    BY Sha256Assumption, LenProperties
  <2>2. << >> \in Seq(Block)
    BY EmptySeq
  <2>3. Garbage \subseteq Block
    BY Sha256Assumption
  <2>4. Init => got \in 0 .. Len(message) /\ at \in 0 .. got
    BY <2>1 DEF Init
  <2>5. Init => pc \in {"read", "update", "ended", "length", "done", "failed"}
    BY DEF Init
  <2>6. Init => file \in BOOLEAN /\ ferror \in BOOLEAN
    BY Zenon DEF Init
  <2>7. Init => datalen \in 0 .. 63 /\ bitlen \in Nat
    BY DEF Init
  <2> QED
    BY <2>1, <2>2, <2>3, <2>4, <2>5, <2>6, <2>7 DEF Init, TypeOK
<1>2. TypeOK /\ [Next]_vars => TypeOK'
  BY TypeStep
<1> QED
  BY <1>1, <1>2, PTL DEF Spec

(***************************************************************************)
(* The stream.                                                              *)
(***************************************************************************)
\* What update has taken when, and that the end is reached with all of it.
Control ==
  /\ pc = "read" => file /\ at = got
  /\ pc = "update" /\ ~file => got = Len(message)
  /\ pc = "ended" => at = got /\ (~ferror => got = Len(message))

\* Control is inductive: the loop is left at the end of the file or on an error.
LEMMA ControlStep ==
  ASSUME TypeOK, Control, [Next]_vars
  PROVE  Control'
<1>1. Len(message) \in Nat
  BY LenProperties DEF TypeOK
<1>2. CASE Fread
  <2>1. CASE got' = Len(message)
    BY <1>1, <1>2, <2>1, Sha256Assumption DEF TypeOK, Control, Fread, Returned
  <2>2. CASE got' # Len(message)
    <3>1. got' = got + BufLen /\ pc' = "update"
      BY <1>1, <1>2, <2>2, Sha256Assumption DEF TypeOK, Fread, Returned
    <3> QED
      BY <1>2, <3>1 DEF Control, Fread, Returned
  <2> QED
    BY <2>1, <2>2
<1>3. CASE FreadFails
  <2>1. PICK n \in 0 .. BufLen - 1 : got + n <= Len(message) /\ Returned(n)
    BY <1>3 DEF FreadFails
  <2> QED
    BY <1>3, <2>1 DEF TypeOK, Control, FreadFails, Returned
<1>4. CASE UpdateByte
  BY <1>4 DEF Control, UpdateByte, Takes
<1>5. CASE Updated
  BY <1>5 DEF Control, Updated, inputVars
<1>6. CASE ReadFailed \/ FinalShort \/ FinalLong \/ FinalLength
  BY <1>6 DEF Control, ReadFailed, FinalShort, FinalLong, FinalLength
<1>7. CASE UNCHANGED vars
  BY <1>7 DEF Control, vars, inputVars
<1> QED
  BY <1>2, <1>3, <1>4, <1>5, <1>6, <1>7 DEF Next

\* One more byte goes to the end of the buffer, or fills it and makes a block.
LEMMA StreamedUpdate ==
  ASSUME TypeOK, Streamed, UpdateByte
  PROVE  Streamed'
<1>1. /\ pc = "update" /\ at < got /\ at' = at + 1 /\ data' = Put
      /\ message' = message
  BY DEF UpdateByte, Takes
<1>2. /\ Put \in Block /\ Put[datalen + 1] = message[at + 1]
      /\ \A j \in 1 .. datalen : Put[j] = data[j]
  BY <1>1, PutBlock
<1>3. Len(state) \in Nat /\ datalen \in 0 .. 63 /\ at \in Nat /\ DOMAIN state = 1 .. Len(state)
  BY LenProperties DEF TypeOK
<1>0. at = 64 * Len(state) + datalen /\ bitlen = 512 * Len(state)
  BY <1>1 DEF Streamed
<1>4. /\ \A b \in 1 .. Len(state) : \A j \in 1 .. 64 :
           state[b][j] = message[64 * (b - 1) + j]
      /\ \A j \in 1 .. datalen : data[j] = message[64 * Len(state) + j]
  BY <1>1, <1>3 DEF Streamed
<1>5. \A j \in 1 .. datalen + 1 : Put[j] = message[64 * Len(state) + j]
  <2>1. TAKE j \in 1 .. datalen + 1
  <2>2. CASE j = datalen + 1
    <3>1. at + 1 = 64 * Len(state) + j
      BY <1>0, <1>3, <2>2
    <3> QED
      BY <1>2, <2>2, <3>1
  <2>3. CASE j \in 1 .. datalen
    BY <1>2, <1>4, <2>3, Zenon
  <2>4. j = datalen + 1 \/ j \in 1 .. datalen
    BY <1>3, <2>1
  <2> QED
    BY <2>2, <2>3, <2>4
<1>6. CASE datalen < 63
  <2>1. datalen' = datalen + 1 /\ UNCHANGED << bitlen, state >>
    BY <1>6 DEF UpdateByte
  <2> QED
    BY <1>0, <1>1, <1>3, <1>4, <1>5, <2>1 DEF Streamed
<1>7. CASE ~(datalen < 63)
  <2>1. Transform(Put) /\ bitlen' = bitlen + 512 /\ datalen' = 0 /\ datalen = 63
    BY <1>3, <1>7 DEF UpdateByte
  <2>2. /\ Len(state') = Len(state) + 1 /\ state'[Len(state) + 1] = Put
        /\ \A i \in 1 .. Len(state) : state'[i] = state[i]
        /\ DOMAIN state' = 1 .. Len(state')
    BY <1>2, <2>1, TransformAdds, LenProperties DEF TypeOK
  <2>3. at' = 64 * Len(state') + datalen' /\ bitlen' = 512 * Len(state')
    BY <1>0, <1>1, <1>3, <2>1, <2>2
  <2>4. \A b \in DOMAIN state' : \A j \in 1 .. 64 :
          state'[b][j] = message'[64 * (b - 1) + j]
    <3>1. SUFFICES ASSUME NEW b \in 1 .. Len(state) + 1, NEW j \in 1 .. 64
                   PROVE  state'[b][j] = message[64 * (b - 1) + j]
      BY <1>1, <1>3, <2>2
    <3>2. CASE b = Len(state) + 1
      <4>1. 64 * (b - 1) + j = 64 * Len(state) + j
        BY <1>3, <3>2
      <4>2. j \in 1 .. datalen + 1
        BY <2>1, <3>1
      <4>3. Put[j] = message[64 * Len(state) + j]
        BY <1>5, <4>2, Zenon
      <4> QED
        BY <2>2, <3>2, <4>1, <4>3
    <3>3. CASE b \in 1 .. Len(state)
      <4>1. state[b][j] = message[64 * (b - 1) + j]
        BY <1>4, <3>1, <3>3, Zenon
      <4> QED
        BY <2>2, <3>3, <4>1, Zenon
    <3> QED
      BY <1>3, <3>1, <3>2, <3>3
  <2>5. \A j \in 1 .. datalen' : data'[j] = message'[64 * Len(state') + j]
    BY <2>1
  <2> QED
    BY <2>3, <2>4, <2>5 DEF Streamed
<1> QED
  BY <1>6, <1>7

\* Streamed is inductive.
LEMMA StreamedStep ==
  ASSUME TypeOK, Streamed, [Next]_vars
  PROVE  Streamed'
<1>1. CASE Fread \/ FreadFails
  <2>1. PICK n : Returned(n) /\ pc = "read"
    BY <1>1 DEF Fread, FreadFails
  <2> QED
    BY <2>1 DEF Streamed, Returned, ctxVars
<1>2. CASE UpdateByte
  BY <1>2, StreamedUpdate
<1>3. CASE Updated
  BY <1>3 DEF Streamed, Updated, inputVars, ctxVars
<1>4. CASE ReadFailed \/ FinalShort \/ FinalLong \/ FinalLength
  BY <1>4 DEF Streamed, ReadFailed, FinalShort, FinalLong, FinalLength
<1>5. CASE UNCHANGED vars
  BY <1>5 DEF Streamed, vars, inputVars, ctxVars
<1> QED
  BY <1>1, <1>2, <1>3, <1>4, <1>5 DEF Next

\* Streamed: whatever its length and however it is cut up, the message is in the
\* blocks and the buffer, byte by byte.
THEOREM Sha256Streamed == Spec => []Streamed
<1>1. Init => Streamed
  <2>1. Len(<< >>) = 0 /\ DOMAIN << >> = {}
    BY EmptySeq
  <2> QED
    BY <2>1 DEF Init, Streamed
<1>2. TypeOK /\ Streamed /\ [Next]_vars => Streamed'
  BY StreamedStep
<1> QED
  BY <1>1, <1>2, Sha256Typed, PTL DEF Spec

(***************************************************************************)
(* The padding.                                                             *)
(***************************************************************************)
\* What final leaves for its last step: every block but the last is as the
\* standard has it, and so are the first 56 bytes of the last.
Padded ==
  pc = "length" =>
    /\ 64 * (Len(state) + 1) = PaddedLen(message)
    /\ bitlen + datalen * 8 = 8 * Len(message)
    /\ \A b \in 1 .. Len(state) : \A j \in 1 .. 64 :
         state[b][j] = PaddedByte(message, 64 * (b - 1) + j)
    /\ \A j \in 1 .. 56 : data[j] = PaddedByte(message, 64 * Len(state) + j)

\* At its end a message of 64 * l + d bytes is in l blocks and d bytes of the
\* buffer, and needs one more block or two.
LEMMA AtEnd ==
  ASSUME TypeOK, Control, Streamed, pc = "ended", ~ferror
  PROVE  /\ Len(state) \in Nat
         /\ Len(message) = 64 * Len(state) + datalen
         /\ PaddedLen(message) =
              IF datalen < 56 THEN 64 * (Len(state) + 1) ELSE 64 * (Len(state) + 2)
         /\ bitlen + datalen * 8 = 8 * Len(message)
<1> DEFINE l == Len(state)
           n == Len(message)
<1>1. l \in Nat /\ n \in Nat /\ datalen \in 0 .. 63 /\ bitlen \in Nat
  BY LenProperties DEF TypeOK
<1>2. n = 64 * l + datalen /\ bitlen = 512 * l
  BY DEF Control, Streamed
<1>3. PaddedLen(message) = 64 * ((n + 8) \div 64 + 1)
  BY DEF PaddedLen
<1> HIDE DEF l, n
<1>4. datalen < 56 => (n + 8) \div 64 = l
  BY <1>1, <1>2
<1>5. ~(datalen < 56) => (n + 8) \div 64 = l + 1
  BY <1>1, <1>2
<1>6. bitlen + datalen * 8 = 8 * n
  BY <1>1, <1>2
<1>7. PaddedLen(message) = IF datalen < 56 THEN 64 * (l + 1) ELSE 64 * (l + 2)
  BY <1>1, <1>3, <1>4, <1>5
<1> QED
  BY <1>1, <1>2, <1>6, <1>7 DEF l, n

\* The blocks of whole bytes of the message are as the standard has them.
LEMMA WholeBlocks ==
  ASSUME TypeOK, Control, Streamed, pc = "ended", ~ferror,
         NEW b \in 1 .. Len(state), NEW j \in 1 .. 64
  PROVE  state[b][j] = PaddedByte(message, 64 * (b - 1) + j)
<1>1. Len(state) \in Nat /\ datalen \in 0 .. 63 /\ Len(message) = 64 * Len(state) + datalen
  BY AtEnd DEF TypeOK
<1>2. 64 * (b - 1) + j <= Len(message)
  BY <1>1
<1>3. DOMAIN state = 1 .. Len(state)
  BY LenProperties DEF TypeOK
<1>4. \A c \in 1 .. Len(state) : \A i \in 1 .. 64 : state[c][i] = message[64 * (c - 1) + i]
  BY <1>3 DEF Streamed
<1>5. state[b][j] = message[64 * (b - 1) + j]
  BY <1>4, Zenon
<1> QED
  BY <1>2, <1>5 DEF PaddedByte

\* The marked buffer is the message's last bytes, 0x80 and zeros.
LEMMA MarkedBytes ==
  ASSUME TypeOK, Control, Streamed, pc = "ended", ~ferror,
         NEW end \in {56, 64}, datalen < end,
         NEW j \in 1 .. end, 64 * Len(state) + j <= PaddedLen(message) - 8
  PROVE  Mark(datalen, end)[j] = PaddedByte(message, 64 * Len(state) + j)
<1>1. /\ Len(state) \in Nat /\ datalen \in 0 .. 63
      /\ Len(message) = 64 * Len(state) + datalen
  BY AtEnd DEF TypeOK
<1>0. j \in 1 .. 64
  OBVIOUS
<1>01. \A i \in 1 .. 64 : Mark(datalen, end)[i] =
         IF i = datalen + 1 THEN 128 ELSE IF i \in datalen + 2 .. end THEN 0 ELSE data[i]
  BY MarkBlock
<1>2. Mark(datalen, end)[j] =
        IF j = datalen + 1 THEN 128 ELSE IF j \in datalen + 2 .. end THEN 0 ELSE data[j]
  BY <1>0, <1>01, Zenon
<1>3. CASE j <= datalen
  <2>1. data[j] = message[64 * Len(state) + j]
    BY <1>1, <1>3 DEF Streamed
  <2>2. 64 * Len(state) + j <= Len(message) /\ j # datalen + 1 /\ j \notin datalen + 2 .. end
    BY <1>1, <1>3
  <2> QED
    BY <1>2, <2>1, <2>2 DEF PaddedByte
<1>4. CASE j = datalen + 1
  <2>1. 64 * Len(state) + j = Len(message) + 1 /\ Len(message) \in Nat
    BY <1>1, <1>4
  <2> QED
    BY <1>2, <1>4, <2>1 DEF PaddedByte
<1>5. CASE j > datalen + 1
  <2>1. /\ ~(64 * Len(state) + j <= Len(message)) /\ 64 * Len(state) + j # Len(message) + 1
        /\ j # datalen + 1 /\ j \in datalen + 2 .. end
    BY <1>1, <1>5
  <2> QED
    BY <1>2, <2>1 DEF PaddedByte
<1> QED
  BY <1>1, <1>3, <1>4, <1>5

\* With room for the length, the buffer is the last block.
LEMMA PaddedShort ==
  ASSUME TypeOK, Control, Streamed, FinalShort
  PROVE  Padded'
<1>1. /\ pc = "ended" /\ ~ferror /\ datalen < 56 /\ data' = Mark(datalen, 56)
      /\ UNCHANGED << message, datalen, bitlen, state >>
  BY DEF FinalShort, inputVars
<1>2. /\ Len(state) \in Nat /\ PaddedLen(message) = 64 * (Len(state) + 1)
      /\ bitlen + datalen * 8 = 8 * Len(message)
  BY <1>1, AtEnd
<1>3. \A j \in 1 .. 56 : data'[j] = PaddedByte(message, 64 * Len(state) + j)
  <2>1. TAKE j \in 1 .. 56
  <2>2. 56 \in {56, 64} /\ 64 * Len(state) + j <= PaddedLen(message) - 8
    BY <1>2, <2>1
  <2>3. Mark(datalen, 56)[j] = PaddedByte(message, 64 * Len(state) + j)
    BY <1>1, <2>1, <2>2, MarkedBytes, Zenon
  <2> QED
    BY <1>1, <2>3
<1>4. \A b \in 1 .. Len(state) : \A j \in 1 .. 64 :
        state[b][j] = PaddedByte(message, 64 * (b - 1) + j)
  BY <1>1, WholeBlocks
<1> QED
  BY <1>1, <1>2, <1>3, <1>4 DEF Padded

\* Without, it is the last but one, and the last begins with zeros.
LEMMA PaddedLong ==
  ASSUME TypeOK, Control, Streamed, FinalLong
  PROVE  Padded'
<1>1. /\ pc = "ended" /\ ~ferror /\ ~(datalen < 56) /\ datalen \in 0 .. 63
      /\ Transform(Mark(datalen, 64))
      /\ UNCHANGED << message, datalen, bitlen >>
  BY DEF TypeOK, FinalLong, inputVars
<1>2. /\ Len(state) \in Nat /\ PaddedLen(message) = 64 * (Len(state) + 2)
      /\ bitlen + datalen * 8 = 8 * Len(message)
      /\ Len(message) = 64 * Len(state) + datalen
  BY <1>1, AtEnd
<1>3. Mark(datalen, 64) \in Block
  BY MarkBlock
<1>4. /\ Len(state') = Len(state) + 1
      /\ state'[Len(state) + 1] = Mark(datalen, 64)
      /\ \A i \in 1 .. Len(state) : state'[i] = state[i]
  BY <1>1, <1>3, TransformAdds DEF TypeOK
<1>5. \A j \in 1 .. 64 : Mark(datalen, 64)[j] = PaddedByte(message, 64 * Len(state) + j)
  <2>1. TAKE j \in 1 .. 64
  <2>2. 64 \in {56, 64} /\ datalen < 64 /\ 64 * Len(state) + j <= PaddedLen(message) - 8
    BY <1>1, <1>2, <2>1
  <2> QED
    BY <1>1, <2>1, <2>2, MarkedBytes, Zenon
<1>6. \A b \in 1 .. Len(state) : \A j \in 1 .. 64 :
        state[b][j] = PaddedByte(message, 64 * (b - 1) + j)
  BY <1>1, WholeBlocks
<1>7. \A b \in 1 .. Len(state') : \A j \in 1 .. 64 :
        state'[b][j] = PaddedByte(message, 64 * (b - 1) + j)
  <2>1. SUFFICES ASSUME NEW b \in 1 .. Len(state) + 1, NEW j \in 1 .. 64
                 PROVE  state'[b][j] = PaddedByte(message, 64 * (b - 1) + j)
    BY <1>4
  <2>2. CASE b = Len(state) + 1
    <3>1. 64 * (b - 1) + j = 64 * Len(state) + j
      BY <1>2, <2>2
    <3> QED
      BY <1>4, <1>5, <2>1, <2>2, <3>1
  <2>3. CASE b \in 1 .. Len(state)
    <3>1. state[b][j] = PaddedByte(message, 64 * (b - 1) + j)
      BY <1>6, <2>1, <2>3, Zenon
    <3> QED
      BY <1>4, <2>3, <3>1, Zenon
  <2> QED
    BY <1>2, <2>1, <2>2, <2>3
<1>8. \A j \in 1 .. 56 : data'[j] = 0
  BY DEF FinalLong
<1>9. \A j \in 1 .. 56 : PaddedByte(message, 64 * (Len(state) + 1) + j) = 0
  <2>1. TAKE j \in 1 .. 56
  <2>2. /\ ~(64 * (Len(state) + 1) + j <= Len(message))
        /\ 64 * (Len(state) + 1) + j # Len(message) + 1
        /\ 64 * (Len(state) + 1) + j <= PaddedLen(message) - 8
    BY <1>1, <1>2, <2>1
  <2> QED
    BY <2>2 DEF PaddedByte
<1>10. 64 * (Len(state') + 1) = PaddedLen(message)
  BY <1>2, <1>4
<1>11. \A j \in 1 .. 56 : data'[j] = PaddedByte(message', 64 * Len(state') + j)
  <2>1. message' = message /\ Len(state') = Len(state) + 1
    BY <1>1, <1>4
  <2> QED
    BY <1>8, <1>9, <2>1
<1>12. (bitlen + datalen * 8 = 8 * Len(message))'
  BY <1>1, <1>2
<1>13. (64 * (Len(state) + 1) = PaddedLen(message))'
  BY <1>1, <1>10
<1> QED
  BY <1>1, <1>7, <1>11, <1>12, <1>13, Zenon DEF Padded

\* Padded is inductive.
LEMMA PaddedStep ==
  ASSUME TypeOK, Control, Streamed, Padded, [Next]_vars
  PROVE  Padded'
<1>1. CASE FinalShort
  BY <1>1, PaddedShort
<1>2. CASE FinalLong
  BY <1>2, PaddedLong
<1>3. CASE Fread \/ FreadFails \/ UpdateByte \/ Updated \/ ReadFailed \/ FinalLength
  BY <1>3
  DEF Padded, Fread, FreadFails, Returned, UpdateByte, Takes, Updated, ReadFailed, FinalLength
<1>4. CASE UNCHANGED vars
  BY <1>4 DEF Padded, vars, inputVars, ctxVars
<1> QED
  BY <1>1, <1>2, <1>3, <1>4 DEF Next

\* The last step puts the length where the standard has it.
LEMMA LengthStep ==
  ASSUME TypeOK, Padded, FinalLength
  PROVE  DigestOfMessage'
<1>1. /\ 64 * (Len(state) + 1) = PaddedLen(message)
      /\ bitlen' = 8 * Len(message)
      /\ message' = message
      /\ Transform(data')
  BY DEF FinalLength, Padded, inputVars
<1>2. /\ \A b \in 1 .. Len(state) : \A j \in 1 .. 64 :
           state[b][j] = PaddedByte(message, 64 * (b - 1) + j)
      /\ \A j \in 1 .. 56 : data[j] = PaddedByte(message, 64 * Len(state) + j)
  BY DEF FinalLength, Padded
<1>3. data' \in Block
  BY TypeStep DEF Next, TypeOK
<1>4. /\ Len(state') = Len(state) + 1 /\ Len(state) \in Nat
      /\ state'[Len(state) + 1] = data'
      /\ \A i \in 1 .. Len(state) : state'[i] = state[i]
      /\ DOMAIN state' = 1 .. Len(state')
  BY <1>1, <1>3, TransformAdds, LenProperties DEF TypeOK
<1>5. \A j \in 1 .. 64 : data'[j] = PaddedByte(message, 64 * Len(state) + j)
  <2>1. TAKE j \in 1 .. 64
  <2>2. data'[j] = IF j <= 56 THEN data[j] ELSE ByteOf(bitlen', 64 - j)
    BY <2>1 DEF FinalLength
  <2>3. CASE j <= 56
    <3>1. j \in 1 .. 56
      BY <2>1, <2>3
    <3>2. data[j] = PaddedByte(message, 64 * Len(state) + j)
      BY <1>2, <3>1, Zenon
    <3> QED
      BY <2>2, <2>3, <3>2
  <2>4. CASE ~(j <= 56)
    <3>1. PaddedLen(message) - (64 * Len(state) + j) = 64 - j
      BY <1>1, <1>4, <2>1
    <3>2. /\ ~(64 * Len(state) + j <= PaddedLen(message) - 8)
      BY <1>1, <1>4, <2>1, <2>4
    <3>3. /\ ~(64 * Len(state) + j <= Len(message))
          /\ 64 * Len(state) + j # Len(message) + 1
      <4> DEFINE n == Len(message)
      <4>1. n \in Nat /\ 64 * (Len(state) + 1) = 64 * ((n + 8) \div 64 + 1)
        BY <1>1, LenProperties DEF TypeOK, PaddedLen
      <4> HIDE DEF n
      <4>2. n + 8 < 64 * (Len(state) + 1)
        BY <1>4, <4>1
      <4>3. ~(64 * Len(state) + j <= n) /\ 64 * Len(state) + j # n + 1
        BY <1>4, <2>1, <2>4, <4>1, <4>2
      <4> QED
        BY <4>3 DEF n
    <3> QED
      BY <1>1, <2>2, <2>4, <3>1, <3>2, <3>3 DEF PaddedByte
  <2> QED
    BY <2>3, <2>4
<1>6. \A b \in DOMAIN state' : \A j \in 1 .. 64 :
        state'[b][j] = PaddedByte(message, 64 * (b - 1) + j)
  <2>1. SUFFICES ASSUME NEW b \in 1 .. Len(state) + 1, NEW j \in 1 .. 64
                 PROVE  state'[b][j] = PaddedByte(message, 64 * (b - 1) + j)
    BY <1>4
  <2>2. CASE b = Len(state) + 1
    <3>1. 64 * (b - 1) + j = 64 * Len(state) + j
      BY <1>4, <2>2
    <3> QED
      BY <1>4, <1>5, <2>1, <2>2, <3>1
  <2>3. CASE b \in 1 .. Len(state)
    <3>1. state[b][j] = PaddedByte(message, 64 * (b - 1) + j)
      BY <1>2, <2>1, <2>3, Zenon
    <3> QED
      BY <1>4, <2>3, <3>1, Zenon
  <2> QED
    BY <1>4, <2>1, <2>2, <2>3
<1>7. 64 * Len(state') = PaddedLen(message)
  BY <1>1, <1>4
<1> QED
  BY <1>1, <1>6, <1>7 DEF DigestOfMessage

\* DigestOfMessage: a digest that is returned is that of the standard's padding
\* of the whole message, for every message, buffer size and fresh context.
THEOREM Sha256DigestOfMessage == Spec => []DigestOfMessage
<1>1. Init => Control /\ Padded /\ DigestOfMessage
  <2>1. Init => pc \in {"read", "update"} /\ (pc = "read" => file /\ at = got)
                /\ (pc = "update" /\ ~file => got = Len(message))
    BY Zenon DEF Init
  <2> QED
    BY <2>1 DEF Control, Padded, DigestOfMessage
<1>2. TypeOK /\ Control /\ Streamed /\ Padded /\ [Next]_vars => Control' /\ Padded'
  BY ControlStep, PaddedStep
<1>3. TypeOK /\ Padded /\ DigestOfMessage /\ [Next]_vars => DigestOfMessage'
  <2> SUFFICES ASSUME TypeOK, Padded, DigestOfMessage, [Next]_vars
               PROVE  DigestOfMessage'
    OBVIOUS
  <2>1. CASE FinalLength
    BY <2>1, LengthStep
  <2>2. CASE Fread \/ FreadFails \/ UpdateByte \/ Updated \/ ReadFailed \/ FinalShort \/ FinalLong
    BY <2>2
    DEF DigestOfMessage, Fread, FreadFails, Returned, UpdateByte, Takes, Updated, ReadFailed,
        FinalShort, FinalLong
  <2>3. CASE UNCHANGED vars
    BY <2>3 DEF DigestOfMessage, vars, inputVars, ctxVars
  <2> QED
    BY <2>1, <2>2, <2>3 DEF Next
<1> QED
  BY <1>1, <1>2, <1>3, Sha256Typed, Sha256Streamed, PTL DEF Spec

=============================================================================
