------------------------------ MODULE TargetProofs ------------------------------
(***************************************************************************)
(* Facts about the vocabulary, the recordings and the target that the proofs *)
(* about both programs rest on.                                              *)
(***************************************************************************)
EXTENDS Target, Recording, SequenceTheorems, WellFoundedInduction, TLAPS

(***************************************************************************)
(* The vocabulary's operators stay within their types.                      *)
(***************************************************************************)
\* payload_len never returns a negative length.
LEMMA PayloadLenNat ==
  ASSUME NEW c, NEW r \in Int
  PROVE  PayloadLen(c, r) \in Nat
BY TraceAssumption DEF PayloadLen

\* Take(s, n) is a prefix of s of at most n elements.
LEMMA TakePrefix ==
  ASSUME NEW S, NEW s \in Seq(S), NEW n \in Nat
  PROVE  /\ Take(s, n) \in Seq(S)
         /\ Len(Take(s, n)) = IF n <= Len(s) THEN n ELSE Len(s)
BY SubSeqProperties, LenProperties DEF Take

\* The first bytes of a sequence, all of them, are the sequence.
LEMMA TakeAll ==
  ASSUME NEW S, NEW s \in Seq(S)
  PROVE  Take(s, Len(s)) = s
<1>1. Len(s) \in Nat /\ \A i \in 1 .. Len(s) : s[i] \in S
  BY LenProperties, ElementOfSeq
<1>2. /\ SubSeq(s, 1, Len(s)) \in Seq(S) /\ Len(SubSeq(s, 1, Len(s))) = Len(s)
      /\ \A i \in 1 .. Len(s) : SubSeq(s, 1, Len(s))[i] = s[i]
  BY <1>1, SubSeqProperties
<1>3. SubSeq(s, 1, Len(s)) = s
  BY <1>1, <1>2, SeqEqual
<1> QED
  BY <1>1, <1>3 DEF Take

\* What is left of a sequence is where it was.
LEMMA TakeAt ==
  ASSUME NEW S, NEW s \in Seq(S), NEW n \in Nat, NEW i \in 1 .. Len(Take(s, n))
  PROVE  Take(s, n)[i] = s[i]
<1> DEFINE m == IF n <= Len(s) THEN n ELSE Len(s)
<1>1. Len(s) \in Nat /\ m \in Nat /\ m <= Len(s)
  BY LenProperties
<1>2. \A j \in 1 .. m : s[j] \in S
  BY <1>1, ElementOfSeq
<1> HIDE DEF m
<1>3. Len(SubSeq(s, 1, m)) = m /\ \A j \in 1 .. m : SubSeq(s, 1, m)[j] = s[j]
  BY <1>1, <1>2, SubSeqProperties
<1>4. Take(s, n) = SubSeq(s, 1, m)
  BY DEF Take, m
<1> QED
  BY <1>3, <1>4

\* A reference to bytes is of the type of references.
LEMMA RefInType ==
  ASSUME NEW o \in Nat, NEW d \in Seq(Byte)
  PROVE  Ref(o, d) \in RefType
BY LenProperties DEF Ref, RefType

\* So is the one of a line without payload_ref.
LEMMA NoRefInType == NoRef \in RefType
<1>1. << >> \in Seq(Byte)
  BY EmptySeq
<1> QED
  BY <1>1, RefInType DEF NoRef

\* The bodies the recorder and the hook write are bodies.
LEMMA BodiesInType ==
  ASSUME NEW n \in Nat
  PROVE  /\ \A name \in ProcessNames : ProcessBody(name, n) \in BodyType
         /\ \A c \in Calls, r \in Int, ref \in RefType :
              SyscallBody(c, n, r, ref) \in BodyType
         /\ SyncBody(n) \in BodyType
BY NoRefInType DEF ProcessBody, SyscallBody, SyncBody, Body, BodyType, SyncSeqBase

\* What a result shows the program is an observation.
LEMMA ObservationInType ==
  ASSUME NEW c \in Calls, NEW r \in Int, NEW m \in Seq(Byte)
  PROVE  Observation(c, r, m) \in ObservationType
BY PayloadLenNat, TakePrefix DEF Observation, ObservationType

\* A line of the hook is a line.
LEMMA SyncLineInType ==
  ASSUME NEW n \in Nat
  PROVE  SyncLine(n) \in LineType
<1>1. << SyncBody(n) >> \in HashType /\ << SyncBody(0) >> \in HashType
  BY BodiesInType DEF HashType
<1> QED
  BY <1>1, BodiesInType DEF SyncLine, LineType

(***************************************************************************)
(* Induction and recursion over the naturals.                               *)
(***************************************************************************)
\* A set of naturals has a least element: a statement that fails for some number fails
\* for a least one.
LEMMA Least ==
  ASSUME NEW T \in SUBSET Nat, T # {}
  PROVE  \E n \in T : \A m \in T : n <= m
<1> DEFINE R == OpToRel(<, Nat)
<1>1. IsWellFoundedOn(R, Nat)
  BY NatLessThanWellFounded
<1>2. \A x, y \in Nat : <<x, y>> \in R <=> x < y
  BY DEF OpToRel
<1> HIDE DEF R
<1>3. PICK n \in T : \A m \in T : ~(<<m, n>> \in R)
  BY <1>1, WFMin
<1>4. \A m \in T : m \in Nat /\ n \in Nat /\ ~(m < n)
  BY <1>2, <1>3
<1> QED
  BY <1>4

\* A function defined from each number to the next exists.
Runs(f, s, n, Step) ==
  f[0] = s /\ \A k \in 1 .. n : f[k] = Step[<< f[k - 1], k >>]

LEMMA StepByStep ==
  ASSUME NEW S, NEW s \in S, NEW n \in Nat, NEW Step \in [S \X (1 .. n) -> S]
  PROVE  \E f \in [0 .. n -> S] : Runs(f, s, n, Step)
<1> USE DEF Runs
<1> DEFINE To(f, k) == Runs(f, s, k, Step)
           Good(k) == \E f \in [0 .. k -> S] : To(f, k)
           T == {k \in 0 .. n : ~Good(k)}
<1>1. Good(0)
  <2>1. [k \in 0 .. 0 |-> s] \in [0 .. 0 -> S] /\ To([k \in 0 .. 0 |-> s], 0)
    OBVIOUS
  <2> QED
    BY <2>1
<1>2. ASSUME NEW k \in 1 .. n, Good(k - 1)
      PROVE  Good(k)
  <2>1. PICK f \in [0 .. k - 1 -> S] : To(f, k - 1)
    BY <1>2
  <2> DEFINE next == Step[<< f[k - 1], k >>]
             g == [j \in 0 .. k |-> IF j = k THEN next ELSE f[j]]
  <2>2. k - 1 \in 0 .. k - 1 /\ k \in 0 .. k /\ k - 1 \in 0 .. k /\ 0 \in 0 .. k - 1 /\ k # k - 1
    OBVIOUS
  <2>3. next \in S
    BY <2>1, <2>2
  <2>4. g \in [0 .. k -> S]
    BY <2>1, <2>3
  <2>5. g[k] = next
    BY <2>2
  <2>6. \A j \in 0 .. k - 1 : g[j] = f[j]
    <3>1. \A j \in 0 .. k - 1 : j \in 0 .. k /\ j # k
      OBVIOUS
    <3> QED
      BY <3>1
  <2> HIDE DEF g
  <2>7. g[k] = Step[<< g[k - 1], k >>]
    BY <2>2, <2>5, <2>6
  <2> HIDE DEF next
  <2>8. ASSUME NEW j \in 1 .. k
        PROVE  g[j] = Step[<< g[j - 1], j >>]
    <3>1. CASE j = k
      BY <2>7, <3>1
    <3>2. CASE j # k
      <4>1. j \in 1 .. k - 1 /\ j \in 0 .. k - 1 /\ j - 1 \in 0 .. k - 1
        BY <3>2
      <4> QED
        BY <2>1, <2>6, <4>1
    <3> QED
      BY <3>1, <3>2
  <2>9. g[0] = s
    BY <2>1, <2>2, <2>6
  <2> QED
    BY <2>4, <2>8, <2>9
<1> HIDE DEF Good
<1>3. ASSUME T # {}
      PROVE  FALSE
  <2>1. T \in SUBSET Nat
    OBVIOUS
  <2>2. PICK k \in T : \A m \in T : k <= m
    <3> HIDE DEF T
    <3> QED
      BY <1>3, <2>1, Least
  <2>3. k \in 1 .. n /\ k - 1 \in 0 .. n /\ ~(k <= k - 1)
    BY <1>1, <2>2
  <2>4. Good(k - 1)
    BY <2>2, <2>3
  <2> QED
    BY <1>2, <2>2, <2>3, <2>4
<1>4. Good(n)
  BY <1>3
<1> QED
  BY <1>4 DEF Good

\* f gives the bytes of the first k observations, for k up to n.
BytesTo(f, h, n) ==
  /\ f[0] = << >>
  /\ \A k \in 1 .. n : f[k] = f[k - 1] \o h[k].data

LEMMA ObservationData ==
  ASSUME NEW h \in Seq(ObservationType), NEW k \in 1 .. Len(h)
  PROVE  h[k] \in ObservationType /\ h[k].data \in Seq(Byte)
<1>1. h[k] \in ObservationType
  BY ElementOfSeq, LenProperties
<1> QED
  BY <1>1 DEF ObservationType

\* There is such a function.
LEMMA BytesExist ==
  ASSUME NEW h \in Seq(ObservationType), NEW n \in 0 .. Len(h)
  PROVE  \E f \in [0 .. n -> Seq(Byte)] : BytesTo(f, h, n)
<1> DEFINE Step == [x \in Seq(Byte) \X (1 .. n) |-> x[1] \o h[x[2]].data]
<1>1. n \in Nat /\ << >> \in Seq(Byte) /\ \A k \in 1 .. n : k \in 1 .. Len(h) /\ k - 1 \in 0 .. n
  BY LenProperties, EmptySeq
<1>2. \A s \in Seq(Byte), k \in 1 .. n : s \o h[k].data \in Seq(Byte)
  BY <1>1, ObservationData, ConcatProperties
<1>3. Step \in [Seq(Byte) \X (1 .. n) -> Seq(Byte)]
  <2> SUFFICES ASSUME NEW x \in Seq(Byte) \X (1 .. n)
               PROVE  x[1] \o h[x[2]].data \in Seq(Byte)
    OBVIOUS
  <2> QED
    BY <1>2
<1>4. PICK f \in [0 .. n -> Seq(Byte)] : Runs(f, << >>, n, Step)
  <2> HIDE DEF Step
  <2> QED
    BY <1>1, <1>3, StepByStep
<1>5. \A k \in 1 .. n : Step[<< f[k - 1], k >>] = f[k - 1] \o h[k].data
  <2> SUFFICES ASSUME NEW k \in 1 .. n
               PROVE  Step[<< f[k - 1], k >>] = f[k - 1] \o h[k].data
    OBVIOUS
  <2>1. << f[k - 1], k >> \in Seq(Byte) \X (1 .. n)
    BY <1>1
  <2> QED
    BY <2>1
<1> HIDE DEF Step
<1> QED
  BY <1>4, <1>5 DEF Runs, BytesTo

\* There is only one.
LEMMA BytesSame ==
  ASSUME NEW h, NEW n \in Nat, NEW f, NEW g, BytesTo(f, h, n), BytesTo(g, h, n)
  PROVE  \A k \in 0 .. n : f[k] = g[k]
<1> DEFINE T == {k \in 0 .. n : f[k] # g[k]}
<1>1. ASSUME T # {}
      PROVE  FALSE
  <2>1. T \in SUBSET Nat
    OBVIOUS
  <2>2. PICK k \in T : \A m \in T : k <= m
    <3> HIDE DEF T
    <3> QED
      BY <1>1, <2>1, Least
  <2>3. k \in 1 .. n /\ k - 1 \in 0 .. n /\ ~(k <= k - 1)
    BY <2>2 DEF BytesTo
  <2>4. f[k - 1] = g[k - 1]
    BY <2>2, <2>3
  <2> QED
    BY <2>2, <2>3, <2>4 DEF BytesTo
<1> QED
  BY <1>1

\* It is the one RecordedBytes takes its value from.
LEMMA RecordedBytesAt ==
  ASSUME NEW h \in Seq(ObservationType), NEW f, BytesTo(f, h, Len(h))
  PROVE  RecordedBytes(h) = f[Len(h)]
<1> DEFINE Up(u) == u = [k \in 0 .. Len(h) |-> IF k = 0 THEN << >> ELSE u[k - 1] \o h[k].data]
           up == CHOOSE u : Up(u)
<1>0. Len(h) \in Nat
  BY LenProperties
<1>1. \E u : Up(u)
  <2>1. PICK u \in [0 .. Len(h) -> Seq(Byte)] : BytesTo(u, h, Len(h))
    BY <1>0, BytesExist
  <2>2. \A k \in 0 .. Len(h) : u[k] = IF k = 0 THEN << >> ELSE u[k - 1] \o h[k].data
    <3>1. \A k \in 0 .. Len(h) : k = 0 \/ (k # 0 /\ k \in 1 .. Len(h))
      BY <1>0
    <3> QED
      BY <2>1, <3>1 DEF BytesTo
  <2>3. u = [k \in 0 .. Len(h) |-> u[k]]
    BY <2>1
  <2> QED
    BY <2>2, <2>3
<1>2. Up(up)
  <2> HIDE DEF Up
  <2> QED
    BY <1>1
<1>3. RecordedBytes(h) = up[Len(h)]
  BY DEF RecordedBytes
<1> HIDE DEF up
<1>4. BytesTo(up, h, Len(h))
  <2>1. \A k \in 0 .. Len(h) : up[k] = IF k = 0 THEN << >> ELSE up[k - 1] \o h[k].data
    BY <1>2
  <2>2. 0 \in 0 .. Len(h) /\ \A k \in 1 .. Len(h) : k \in 0 .. Len(h) /\ k # 0
    BY <1>0
  <2> HIDE DEF Up
  <2> QED
    BY <2>1, <2>2 DEF BytesTo
<1> QED
  BY <1>0, <1>3, <1>4, BytesSame

\* What is recorded grows with what is observed, by the data of each observation.
LEMMA RecordedBytesGrow ==
  ASSUME NEW h \in Seq(ObservationType)
  PROVE  /\ RecordedBytes(h) \in Seq(Byte)
         /\ h = << >> => RecordedBytes(h) = << >>
         /\ \A o \in ObservationType :
              RecordedBytes(Append(h, o)) = RecordedBytes(h) \o o.data
<1>0. Len(h) \in Nat
  BY LenProperties
<1>1. PICK f \in [0 .. Len(h) -> Seq(Byte)] : BytesTo(f, h, Len(h))
  BY <1>0, BytesExist
<1>2. RecordedBytes(h) = f[Len(h)] /\ RecordedBytes(h) \in Seq(Byte)
  BY <1>0, <1>1, RecordedBytesAt
<1>3. h = << >> => RecordedBytes(h) = << >>
  BY <1>1, <1>2, EmptySeq DEF BytesTo
<1>4. ASSUME NEW o \in ObservationType
      PROVE  RecordedBytes(Append(h, o)) = RecordedBytes(h) \o o.data
  <2> DEFINE g == Append(h, o)
  <2>1. /\ g \in Seq(ObservationType) /\ Len(g) = Len(h) + 1 /\ g[Len(h) + 1] = o
        /\ \A k \in 1 .. Len(h) : g[k] = h[k]
    BY AppendProperties
  <2> HIDE DEF g
  <2>2. PICK e \in [0 .. Len(g) -> Seq(Byte)] : BytesTo(e, g, Len(g))
    BY <1>0, <2>1, BytesExist
  <2>3. RecordedBytes(g) = e[Len(g)]
    BY <2>1, <2>2, RecordedBytesAt
  <2>4. BytesTo(e, h, Len(h))
    <3>1. \A k \in 1 .. Len(h) : k \in 1 .. Len(g)
      BY <1>0, <2>1
    <3> QED
      BY <2>1, <2>2, <3>1 DEF BytesTo
  <2>5. e[Len(h)] = f[Len(h)]
    BY <1>0, <1>1, <2>4, BytesSame
  <2>6. e[Len(h) + 1] = e[Len(h)] \o o.data
    <3>1. Len(h) + 1 \in 1 .. Len(g) /\ (Len(h) + 1) - 1 = Len(h)
      BY <1>0, <2>1
    <3>2. e[Len(h) + 1] = e[(Len(h) + 1) - 1] \o g[Len(h) + 1].data
      BY <2>2, <3>1 DEF BytesTo
    <3> QED
      BY <2>1, <3>1, <3>2
  <2>7. RecordedBytes(g) = RecordedBytes(h) \o o.data
    BY <1>2, <2>1, <2>3, <2>5, <2>6
  <2> QED
    BY <2>7 DEF g
<1> QED
  BY <1>2, <1>3, <1>4

(***************************************************************************)
(* References and their bytes.                                              *)
(***************************************************************************)
\* Bytes appended to a file do not disturb the references into it.
LEMMA AddressesGrow ==
  ASSUME NEW f \in Seq(Byte), NEW g \in Seq(Byte), NEW ref \in RefType, Addresses(f, ref)
  PROVE  Addresses(f \o g, ref)
<1> DEFINE m == ref.offset + 1
           n == ref.offset + ref.length
<1>1. m \in Nat \ {0} /\ n \in Nat /\ n <= Len(f) /\ n + 1 >= m
  BY DEF RefType, Addresses
<1>2. Len(f \o g) = Len(f) + Len(g) /\ Len(f) \in Nat /\ Len(g) \in Nat
  BY ConcatProperties, LenProperties
<1>3. SubSeq(f \o g, m, n) = SubSeq(f, m, n)
  <2>1. \A i \in m .. n : f[i] \in Byte /\ (f \o g)[i] = f[i]
    BY <1>1, <1>2, ConcatProperties, ElementOfSeq
  <2> HIDE DEF m, n
  <2>2. /\ SubSeq(f, m, n) \in Seq(Byte)
        /\ SubSeq(f \o g, m, n) \in Seq(Byte)
        /\ Len(SubSeq(f, m, n)) = Len(SubSeq(f \o g, m, n))
        /\ \A i \in 1 .. n - m + 1 : SubSeq(f, m, n)[i] = f[m + i - 1]
        /\ \A i \in 1 .. n - m + 1 : SubSeq(f \o g, m, n)[i] = (f \o g)[m + i - 1]
        /\ Len(SubSeq(f, m, n)) = n - m + 1
    BY <1>1, <2>1, SubSeqProperties
  <2>3. \A i \in 1 .. n - m + 1 : m + i - 1 \in m .. n
    BY <1>1
  <2>4. \A i \in 1 .. Len(SubSeq(f, m, n)) : SubSeq(f, m, n)[i] = SubSeq(f \o g, m, n)[i]
    BY <2>1, <2>2, <2>3
  <2> QED
    BY <2>2, <2>4, SeqEqual
<1> QED
  BY <1>1, <1>2, <1>3 DEF Addresses, Slice

\* A reference taken at the end of a file addresses the bytes appended there.
LEMMA AddressesNew ==
  ASSUME NEW f \in Seq(Byte), NEW g \in Seq(Byte)
  PROVE  Addresses(f \o g, Ref(Len(f), g))
<1>1. Len(f \o g) = Len(f) + Len(g) /\ Len(f) \in Nat /\ Len(g) \in Nat
  BY ConcatProperties, LenProperties
<1>2. SubSeq(f \o g, Len(f) + 1, Len(f) + Len(g)) = g
  <2> DEFINE fg == f \o g
             m == Len(f) + 1
             n == Len(f) + Len(g)
  <2>1. m \in Int /\ n \in Int /\ n - m + 1 = Len(g) /\ (m <= n <=> Len(g) > 0)
    BY <1>1
  <2>2. \A i \in m .. n : fg[i] \in Byte
    BY <1>1, ConcatProperties, ElementOfSeq
  <2>3. \A i \in 1 .. Len(g) : fg[m + i - 1] = g[i]
    BY <1>1, ConcatProperties
  <2> HIDE DEF fg, m, n
  <2>4. /\ SubSeq(fg, m, n) \in Seq(Byte)
        /\ Len(SubSeq(fg, m, n)) = IF m <= n THEN n - m + 1 ELSE 0
        /\ \A i \in 1 .. n - m + 1 : SubSeq(fg, m, n)[i] = fg[m + i - 1]
    BY <2>1, <2>2, SubSeqProperties
  <2>5. Len(SubSeq(fg, m, n)) = Len(g)
    BY <1>1, <2>1, <2>4
  <2>6. \A i \in 1 .. Len(SubSeq(fg, m, n)) : SubSeq(fg, m, n)[i] = g[i]
    BY <2>1, <2>3, <2>4, <2>5
  <2>7. SubSeq(fg, m, n) = g
    BY <2>4, <2>5, <2>6, SeqEqual
  <2> QED
    BY <2>7 DEF fg, m, n
<1> QED
  BY <1>1, <1>2 DEF Addresses, Ref, Slice

\* A line without payload_ref addresses its bytes in any file.
LEMMA AddressesNone ==
  ASSUME NEW f \in Seq(Byte)
  PROVE  Addresses(f, NoRef)
BY SubSeqEmpty, LenProperties, EmptySeq DEF Addresses, NoRef, Ref, Slice

\* Every reference of a recording addresses its bytes.
LEMMA RecordedAddresses ==
  ASSUME NEW h \in Seq(ObservationType), NEW k \in 1 .. Len(h)
  PROVE  RecordedRef(h, k) \in RefType /\ Addresses(RecordedBytes(h), RecordedRef(h, k))
<1>0. Len(h) \in Nat /\ k \in Nat
  <2>1. Len(h) \in Nat
    BY LenProperties
  <2> QED
    BY <2>1
<1>1. PICK f \in [0 .. Len(h) -> Seq(Byte)] : BytesTo(f, h, Len(h))
  <2>1. Len(h) \in 0 .. Len(h)
    BY <1>0
  <2> QED
    BY <2>1, BytesExist
<1>2. RecordedBytes(h) = f[Len(h)]
  BY <1>1, RecordedBytesAt
<1> DEFINE g == SubSeq(h, 1, k - 1)
<1>3. RecordedBytes(g) = f[k - 1]
  <2>1. \A i \in 1 .. k - 1 : i \in 1 .. Len(h) /\ h[i] \in ObservationType
    BY <1>0, ElementOfSeq
  <2>2. /\ g \in Seq(ObservationType) /\ Len(g) = k - 1
        /\ \A i \in 1 .. k - 1 : g[i] = h[i]
    BY <1>0, <2>1, SubSeqProperties
  <2> HIDE DEF g
  <2>3. BytesTo(f, g, Len(g))
    BY <1>1, <2>1, <2>2 DEF BytesTo
  <2> QED
    BY <2>2, <2>3, RecordedBytesAt
<1> HIDE DEF g
<1> DEFINE ref == RecordedRef(h, k)
<1>4. /\ f[k - 1] \in Seq(Byte) /\ h[k].data \in Seq(Byte)
      /\ f[k] = f[k - 1] \o h[k].data
  BY <1>0, <1>1, ObservationData DEF BytesTo
<1>5. ref = IF h[k].data = << >> THEN NoRef ELSE Ref(Len(f[k - 1]), h[k].data)
  BY <1>3 DEF RecordedRef, g
<1>6. ref \in RefType
  BY <1>4, <1>5, NoRefInType, RefInType, LenProperties
<1> HIDE DEF ref
<1> DEFINE T == {j \in k .. Len(h) : ~Addresses(f[j], ref)}
<1>7. ASSUME T # {}
      PROVE  FALSE
  <2>1. T \in SUBSET Nat
    BY <1>0
  <2>2. PICK j \in T : \A m \in T : j <= m
    <3> HIDE DEF T
    <3> QED
      BY <1>7, <2>1, Least
  <2>3. CASE j = k
    <3>1. CASE h[k].data = << >>
      <4>1. f[k] \in Seq(Byte)
        BY <1>0, <1>1
      <4> QED
        BY <1>5, <2>2, <2>3, <3>1, <4>1, AddressesNone
    <3>2. CASE h[k].data # << >>
      BY <1>4, <1>5, <2>2, <2>3, <3>2, AddressesNew
    <3> QED
      BY <3>1, <3>2
  <2>4. CASE j # k
    <3>1. j \in 1 .. Len(h) /\ j - 1 \in k .. Len(h) /\ j - 1 \in 0 .. Len(h) /\ ~(j <= j - 1)
      BY <1>0, <2>2, <2>4
    <3>2. Addresses(f[j - 1], ref)
      BY <2>2, <3>1
    <3>3. f[j] = f[j - 1] \o h[j].data /\ f[j - 1] \in Seq(Byte) /\ h[j].data \in Seq(Byte)
      BY <1>1, <3>1, ObservationData DEF BytesTo
    <3>4. Addresses(f[j], ref)
      BY <1>6, <3>2, <3>3, AddressesGrow
    <3> QED
      BY <2>2, <3>4
  <2> QED
    BY <2>3, <2>4
<1>8. Len(h) \in k .. Len(h)
  BY <1>0
<1>9. Addresses(f[Len(h)], ref)
  BY <1>7, <1>8
<1> QED
  BY <1>2, <1>6, <1>9 DEF ref

(***************************************************************************)
(* The target keeps its types.                                              *)
(***************************************************************************)
\* By its own steps and the kernel's.
LEMMA TargetTyped ==
  ASSUME TargetTypeOK, TargetNext
  PROVE  TargetTypeOK'
<1> USE DEF TargetTypeOK, TStates, Alive, Stopped
<1>1. CASE EnterSyscall
  BY <1>1 DEF EnterSyscall
<1>2. CASE KernelReturns
  BY <1>2, TargetAssumption DEF KernelReturns, Result
<1>3. CASE Exits
  BY <1>3 DEF Exits
<1>4. CASE FaultStops
  BY <1>4 DEF FaultStops
<1>5. CASE SignalStops
  BY <1>5 DEF SignalStops
<1>6. CASE Interrupts
  BY <1>6 DEF Interrupts, Restarts
<1>7. CASE Killed
  BY <1>7 DEF Killed
<1> QED
  BY <1>1, <1>2, <1>3, <1>4, <1>5, <1>6, <1>7 DEF TargetNext, TargetRuns

\* PTRACE_SYSCALL leaves the target well typed.
LEMMA ResumeTyped ==
  ASSUME TargetTypeOK, ResumeTarget
  PROVE  TargetTypeOK'
<1>1. Observation(call, ret, mem) \in ObservationType
  BY ObservationInType DEF TargetTypeOK
<1>2. hist' \in Seq(ObservationType)
  BY <1>1, AppendProperties DEF TargetTypeOK, ResumeTarget
<1> QED
  BY <1>2 DEF TargetTypeOK, ResumeTarget, TStates, Alive, Stopped
=============================================================================
