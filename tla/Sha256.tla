-------------------------------- MODULE Sha256 --------------------------------
(***************************************************************************)
(* common/hash.c: adr_sha256_bytes_hex and adr_sha256_file_hex over the      *)
(* streaming context.  A message is cut into blocks of 64 bytes as it        *)
(* comes, padded at its end, and compressed block by block.                 *)
(*                                                                          *)
(* The compression function is taken to be injective: a state is the         *)
(* sequence of the blocks compressed into it, and so is a digest.            *)
(***************************************************************************)
EXTENDS Integers, Sequences

CONSTANTS
  Messages,  \* what is hashed
  BufLen,    \* the buffer given to fread: 8192 in the code
  Garbage    \* what the context's data may hold before anything is put there

Octet == 0 .. 255
Block == [1 .. 64 -> Octet]

ASSUME Sha256Assumption ==
  /\ Messages \subseteq Seq(Octet)
  /\ BufLen \in Nat \ {0}
  /\ Garbage \subseteq Block

VARIABLES
  message,  \* the bytes, or the contents of the file
  file,     \* whether it has to be read from a file
  got,      \* how many of them update has been given
  at,       \* how many of them update has taken
  ferror,   \* the file's error indicator
  data,     \* the context: the block being filled, indexed from 1
  datalen,  \* how much of it is filled
  bitlen,
  state,    \* the blocks compressed so far
  pc

inputVars == << message, file, got, at, ferror >>
ctxVars == << data, datalen, bitlen, state >>
vars == << inputVars, ctxVars, pc >>

TypeOK ==
  /\ message \in Seq(Octet)
  /\ file \in BOOLEAN
  /\ got \in 0 .. Len(message)
  /\ at \in 0 .. got
  /\ ferror \in BOOLEAN
  /\ data \in Block
  /\ datalen \in 0 .. 63
  /\ bitlen \in Nat
  /\ state \in Seq(Block)
  /\ pc \in {"read", "update", "ended", "length", "done", "failed"}

Transform(block) == state' = Append(state, block)

(***************************************************************************)
(* The callers: adr_sha256_bytes_hex has the message at once,                *)
(* adr_sha256_file_hex reads it from a file.                                 *)
(***************************************************************************)
Init ==
  /\ message \in Messages
  /\ file \in BOOLEAN
  /\ got = IF file THEN 0 ELSE Len(message)
  /\ at = 0
  /\ ferror = FALSE
  /\ data \in Garbage
  /\ datalen = 0
  /\ bitlen = 0
  /\ state = << >>
  /\ pc = IF file THEN "read" ELSE "update"

\* fread returns n bytes; 0 ends the loop.
Returned(n) ==
  /\ got' = got + n
  /\ pc' = IF n > 0 THEN "update" ELSE "ended"
  /\ UNCHANGED << message, file, at, ctxVars >>

\* The buffer is filled, or the file has ended.
Fread ==
  /\ pc = "read"
  /\ Returned(IF Len(message) - got < BufLen THEN Len(message) - got ELSE BufLen)
  /\ ferror' = ferror

\* A read error stops it short, maybe after some bytes.
FreadFails ==
  /\ pc = "read"
  /\ \E n \in 0 .. BufLen - 1 : got + n <= Len(message) /\ Returned(n)
  /\ ferror' = TRUE

(***************************************************************************)
(* adr_sha256_update, byte by byte.                                         *)
(***************************************************************************)
Put == [data EXCEPT ![datalen + 1] = message[at + 1]]

Takes ==
  /\ pc = "update"
  /\ at < got
  /\ at' = at + 1
  /\ data' = Put
  /\ UNCHANGED << message, file, got, ferror, pc >>

\* Seeded faults: the buffer is found full one byte too late; it is compressed
\* without its last byte.
UpdateByteOverruns ==
  /\ Takes
  /\ IF datalen <= 63 THEN datalen' = datalen + 1 /\ UNCHANGED << bitlen, state >>
     ELSE Transform(Put) /\ bitlen' = bitlen + 512 /\ datalen' = 0
UpdateByteLate ==
  /\ Takes
  /\ IF datalen < 63 THEN datalen' = datalen + 1 /\ UNCHANGED << bitlen, state >>
     ELSE Transform(data) /\ bitlen' = bitlen + 512 /\ datalen' = 0

UpdateByte ==
  /\ Takes
  /\ IF datalen < 63 THEN datalen' = datalen + 1 /\ UNCHANGED << bitlen, state >>
     ELSE Transform(Put) /\ bitlen' = bitlen + 512 /\ datalen' = 0

Updated ==
  /\ pc = "update"
  /\ at = got
  /\ pc' = IF file THEN "read" ELSE "ended"
  /\ UNCHANGED << inputVars, ctxVars >>

\* adr_sha256_file_hex returns -1.
ReadFailed ==
  /\ pc = "ended"
  /\ ferror
  /\ pc' = "failed"
  /\ UNCHANGED << inputVars, ctxVars >>

(***************************************************************************)
(* adr_sha256_final.                                                        *)
(***************************************************************************)
\* 0x80 after n bytes, then zeros up to end.
Mark(n, end) ==
  [i \in 1 .. 64 |-> IF i = n + 1 THEN 128 ELSE IF i \in n + 2 .. end THEN 0 ELSE data[i]]

\* There is room for the length behind the mark.
FinalShort ==
  /\ pc = "ended"
  /\ ~ferror
  /\ datalen < 56
  /\ data' = Mark(datalen, 56)
  /\ pc' = "length"
  /\ UNCHANGED << inputVars, datalen, bitlen, state >>

\* Seeded fault: the memset is missing.
FinalLongStale ==
  /\ pc = "ended"
  /\ ~ferror
  /\ datalen >= 56
  /\ Transform(Mark(datalen, 64))
  /\ data' = Mark(datalen, 64)
  /\ pc' = "length"
  /\ UNCHANGED << inputVars, datalen, bitlen >>

\* There is none: the length gets a block of its own.
FinalLong ==
  /\ pc = "ended"
  /\ ~ferror
  /\ datalen >= 56
  /\ Transform(Mark(datalen, 64))
  /\ data' = [i \in 1 .. 64 |-> IF i <= 56 THEN 0 ELSE Mark(datalen, 64)[i]]
  /\ pc' = "length"
  /\ UNCHANGED << inputVars, datalen, bitlen >>

\* The 8 bytes of a 64-bit number from the lowest: n, n >> 8, n >> 16, ...
ByteOf(n, k) ==
  LET n1 == n \div 256
      n2 == n1 \div 256
      n3 == n2 \div 256
      n4 == n3 \div 256
      n5 == n4 \div 256
      n6 == n5 \div 256
      n7 == n6 \div 256
  IN  << n, n1, n2, n3, n4, n5, n6, n7 >>[k + 1] % 256

\* The length in bits in the last 8 bytes, and the last block.
FinalLength ==
  /\ pc = "length"
  /\ bitlen' = bitlen + datalen * 8
  /\ data' = [i \in 1 .. 64 |-> IF i <= 56 THEN data[i] ELSE ByteOf(bitlen', 64 - i)]
  /\ Transform(data')
  /\ pc' = "done"
  /\ UNCHANGED << inputVars, datalen >>

Next ==
  \/ Fread \/ FreadFails \/ UpdateByte \/ Updated
  \/ ReadFailed \/ FinalShort \/ FinalLong \/ FinalLength

Spec == Init /\ [][Next]_vars

(***************************************************************************)
(* Properties.                                                              *)
(***************************************************************************)
\* The padding of the standard: the message, 0x80, zeros, and the length in bits
\* in 8 bytes, highest first, the whole a multiple of 64 bytes and no longer
\* than it must be.
PaddedLen(m) == 64 * ((Len(m) + 8) \div 64 + 1)
PaddedByte(m, p) ==
  IF p <= Len(m) THEN m[p]
  ELSE IF p = Len(m) + 1 THEN 128
  ELSE IF p <= PaddedLen(m) - 8 THEN 0
  ELSE ByteOf(8 * Len(m), PaddedLen(m) - p)

\* A digest that is returned is that of the whole message, padded once, whatever
\* its length, however fread cut it up, and whatever the context held before: no
\* byte is lost at a block's or a buffer's end and none is left over from an
\* earlier block.  A file that could not be read to its end has none.
DigestOfMessage ==
  pc = "done" =>
    /\ 64 * Len(state) = PaddedLen(message)
    /\ \A b \in DOMAIN state : \A j \in 1 .. 64 :
         state[b][j] = PaddedByte(message, 64 * (b - 1) + j)

\* Between any two bytes the context accounts for exactly what update has taken:
\* the blocks compressed so far, then the beginning of the buffer.
Streamed ==
  pc \in {"read", "update", "ended"} =>
    /\ at = 64 * Len(state) + datalen
    /\ bitlen = 512 * Len(state)
    /\ \A b \in DOMAIN state : \A j \in 1 .. 64 :
         state[b][j] = message[64 * (b - 1) + j]
    /\ \A j \in 1 .. datalen : data[j] = message[64 * Len(state) + j]
=============================================================================
