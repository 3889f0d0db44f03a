---------------------------- MODULE SessionProofs ----------------------------
(***************************************************************************)
(* What a verdict is worth, for every program, every kernel and every        *)
(* directory: where a failure points, and that a faithful replay passes.     *)
(***************************************************************************)
EXTENDS Session, ReplayerProofs

(***************************************************************************)
(* load_events.                                                             *)
(***************************************************************************)
EventType == BodyType \cup {TraceError(n) : n \in Nat}

\* The least element of a set of numbers is the one CHOOSE takes.
LEMMA LeastChosen ==
  ASSUME NEW T \in SUBSET Nat, T # {}
  PROVE  LET least == CHOOSE n \in T : \A m \in T : n <= m
         IN  least \in T /\ \A m \in T : least <= m
<1>1. \E n \in T : \A m \in T : n <= m
  BY Least
<1> QED
  BY <1>1

\* The list that is compared has an event for every line up to the first broken one.
LEMMA EventsLoaded ==
  ASSUME NEW lines \in Seq(LineType)
  PROVE  /\ LoadEvents(lines) \in Seq(EventType)
         /\ (\A n \in DOMAIN lines : Decodable(lines[n])) =>
              LoadEvents(lines) = [i \in DOMAIN lines |-> lines[i].body]
         /\ 1 \in DOMAIN lines /\ ~Decodable(lines[1]) =>
              LoadEvents(lines) = [i \in 1 .. 1 |-> TraceError(1)]
<1> DEFINE broken == {n \in DOMAIN lines : ~Decodable(lines[n])}
           first == CHOOSE n \in broken : \A m \in broken : n <= m
           cut == [i \in 1 .. first |-> IF i < first THEN lines[i].body ELSE TraceError(first)]
<1>1. Len(lines) \in Nat /\ DOMAIN lines = 1 .. Len(lines)
  BY LenProperties
<1>2. \A i \in DOMAIN lines : lines[i].body \in BodyType
  <2>1. \A i \in DOMAIN lines : lines[i] \in LineType
    BY <1>1, ElementOfSeq
  <2> QED
    BY <2>1 DEF LineType
<1>3. LoadEvents(lines) = IF broken = {} THEN [i \in DOMAIN lines |-> lines[i].body] ELSE cut
  BY DEF LoadEvents
<1>4. broken # {} => first \in broken /\ \A m \in broken : first <= m
  <2>1. broken \in SUBSET Nat
    BY <1>1
  <2> HIDE DEF broken
  <2> QED
    BY <2>1, LeastChosen
<1>5. broken = {} <=> \A n \in DOMAIN lines : Decodable(lines[n])
  OBVIOUS
<1>6. broken \subseteq DOMAIN lines
  OBVIOUS
<1>7. 1 \in broken <=> 1 \in DOMAIN lines /\ ~Decodable(lines[1])
  OBVIOUS
<1> HIDE DEF broken, first
<1>8. broken # {} => cut \in Seq(EventType)
  <2> SUFFICES ASSUME broken # {}
               PROVE  cut \in Seq(EventType)
    OBVIOUS
  <2>1. first \in Nat /\ first \in 1 .. Len(lines)
    BY <1>1, <1>4, <1>6
  <2>2. \A i \in 1 .. first : (IF i < first THEN lines[i].body ELSE TraceError(first)) \in EventType
    BY <1>1, <1>2, <2>1 DEF EventType
  <2> QED
    BY <2>1, <2>2, IsASeq
<1>9. [i \in DOMAIN lines |-> lines[i].body] \in Seq(EventType)
  BY <1>1, <1>2, IsASeq DEF EventType
<1>10. 1 \in broken => cut = [i \in 1 .. 1 |-> TraceError(1)]
  <2> SUFFICES ASSUME 1 \in broken
               PROVE  cut = [i \in 1 .. 1 |-> TraceError(1)]
    OBVIOUS
  <2>1. first = 1
    BY <1>1, <1>4, <1>6
  <2> QED
    BY <2>1
<1> HIDE DEF cut
<1> QED
  BY <1>3, <1>5, <1>7, <1>8, <1>9, <1>10

(***************************************************************************)
(* checked_events.                                                          *)
(***************************************************************************)
\* f[k] is what checked_events has kept after k events.
KeptTo(f, es) ==
  /\ f[0] = << >>
  /\ \A k \in 1 .. Len(es) :
       f[k] = IF IsChecked(es[k]) THEN Append(f[k - 1], es[k]) ELSE f[k - 1]

LEMMA CheckedKept ==
  ASSUME NEW All, NEW es \in Seq(All),
         NEW S, \A k \in 1 .. Len(es) : IsChecked(es[k]) => es[k] \in S
  PROVE  \E f \in [0 .. Len(es) -> Seq(S)] : KeptTo(f, es) /\ CheckedEvents(es) = f[Len(es)]
<1> DEFINE n == Len(es)
           Up(u) == u = [k \in 0 .. n |->
                           IF k = 0 THEN << >>
                           ELSE IF IsChecked(es[k]) THEN Append(u[k - 1], es[k]) ELSE u[k - 1]]
           up == CHOOSE u : Up(u)
           Step == [x \in Seq(S) \X (1 .. n) |->
                      IF IsChecked(es[x[2]]) THEN Append(x[1], es[x[2]]) ELSE x[1]]
<1>0. n \in Nat /\ << >> \in Seq(S) /\ \A k \in 1 .. n : IsChecked(es[k]) => es[k] \in S
  BY LenProperties, EmptySeq
<1>1. Step \in [Seq(S) \X (1 .. n) -> Seq(S)]
  <2> SUFFICES ASSUME NEW x \in Seq(S) \X (1 .. n)
               PROVE  (IF IsChecked(es[x[2]]) THEN Append(x[1], es[x[2]]) ELSE x[1]) \in Seq(S)
    OBVIOUS
  <2>1. x[1] \in Seq(S) /\ (IsChecked(es[x[2]]) => es[x[2]] \in S)
    BY <1>0
  <2> QED
    BY <2>1, AppendProperties
<1>2. PICK f \in [0 .. n -> Seq(S)] : Runs(f, << >>, n, Step)
  <2> HIDE DEF n, Step
  <2> QED
    BY <1>0, <1>1, StepByStep
<1>3. \A k \in 1 .. n : f[k] = IF IsChecked(es[k]) THEN Append(f[k - 1], es[k]) ELSE f[k - 1]
  <2> SUFFICES ASSUME NEW k \in 1 .. n
               PROVE  f[k] = IF IsChecked(es[k]) THEN Append(f[k - 1], es[k]) ELSE f[k - 1]
    OBVIOUS
  <2>1. k - 1 \in 0 .. n
    BY <1>0
  <2>2. << f[k - 1], k >> \in Seq(S) \X (1 .. n)
    BY <2>1
  <2>3. Step[<< f[k - 1], k >>] = IF IsChecked(es[k]) THEN Append(f[k - 1], es[k]) ELSE f[k - 1]
    BY <2>2
  <2> QED
    BY <1>2, <2>3 DEF Runs
<1> HIDE DEF Step
<1>4. Up(f)
  <2>1. \A k \in 0 .. n : k # 0 => k \in 1 .. n
    BY <1>0
  <2>2. \A k \in 0 .. n : f[k] = IF k = 0 THEN << >>
                                 ELSE IF IsChecked(es[k]) THEN Append(f[k - 1], es[k])
                                 ELSE f[k - 1]
    BY <1>2, <1>3, <2>1 DEF Runs
  <2> QED
    BY <2>2
<1>5. Up(up)
  <2> HIDE DEF Up
  <2> QED
    BY <1>4
<1>6. CheckedEvents(es) = up[n]
  BY DEF CheckedEvents
<1> HIDE DEF up
<1>7. /\ up[0] = << >>
      /\ \A k \in 1 .. n : up[k] = IF IsChecked(es[k]) THEN Append(up[k - 1], es[k]) ELSE up[k - 1]
  <2>1. \A k \in 0 .. n : up[k] = IF k = 0 THEN << >>
                                  ELSE IF IsChecked(es[k]) THEN Append(up[k - 1], es[k])
                                  ELSE up[k - 1]
    BY <1>5
  <2>2. 0 \in 0 .. n /\ \A k \in 1 .. n : k \in 0 .. n /\ k # 0
    BY <1>0
  <2> HIDE DEF Up
  <2> QED
    BY <2>1, <2>2
<1> DEFINE T == {k \in 0 .. n : up[k] # f[k]}
<1>8. ASSUME T # {}
      PROVE  FALSE
  <2>1. T \in SUBSET Nat
    BY <1>0
  <2>2. PICK k \in T : \A m \in T : k <= m
    <3> HIDE DEF T
    <3> QED
      BY <1>8, <2>1, Least
  <2>3. k \in 1 .. n /\ k - 1 \in 0 .. n /\ ~(k <= k - 1)
    BY <1>0, <1>2, <1>7, <2>2 DEF Runs
  <2>4. up[k - 1] = f[k - 1]
    BY <2>2, <2>3
  <2>5. up[k] = f[k]
    BY <1>3, <1>7, <2>3, <2>4
  <2> QED
    BY <2>2, <2>5
<1>9. up[n] = f[n]
  BY <1>0, <1>8
<1> QED
  BY <1>2, <1>3, <1>6, <1>9 DEF KeptTo, Runs

\* The checked events are events, and checked.
LEMMA CheckedFrom ==
  ASSUME NEW S, NEW es \in Seq(S)
  PROVE  /\ CheckedEvents(es) \in Seq(S)
         /\ \A i \in 1 .. Len(CheckedEvents(es)) :
              /\ IsChecked(CheckedEvents(es)[i])
              /\ \E k \in 1 .. Len(es) : CheckedEvents(es)[i] = es[k]
<1> DEFINE T == {e \in S : IsChecked(e) /\ \E k \in 1 .. Len(es) : e = es[k]}
<1>1. Len(es) \in Nat /\ \A k \in 1 .. Len(es) : es[k] \in S
  BY LenProperties, ElementOfSeq
<1>2. \A k \in 1 .. Len(es) : IsChecked(es[k]) => es[k] \in T
  BY <1>1
<1> DEFINE c == CheckedEvents(es)
<1>3. c \in Seq(T)
  <2> HIDE DEF T
  <2>1. PICK f \in [0 .. Len(es) -> Seq(T)] : c = f[Len(es)]
    BY <1>2, CheckedKept
  <2>2. Len(es) \in 0 .. Len(es)
    BY <1>1
  <2> QED
    BY <2>1, <2>2
<1> HIDE DEF c
<1>4. Len(c) \in Nat /\ \A i \in 1 .. Len(c) : c[i] \in T
  <2> HIDE DEF T
  <2> QED
    BY <1>3, LenProperties, ElementOfSeq
<1>5. c \in Seq(S)
  <2>1. c = [i \in 1 .. Len(c) |-> c[i]]
    <3> HIDE DEF T
    <3> QED
      BY <1>3, LenProperties
  <2>2. \A i \in 1 .. Len(c) : c[i] \in S
    BY <1>4
  <2> HIDE DEF T
  <2>3. [i \in 1 .. Len(c) |-> c[i]] \in Seq(S)
    BY <1>4, <2>2, IsASeq
  <2> QED
    BY <2>1, <2>3
<1> QED
  BY <1>4, <1>5 DEF c

\* Two lists of events that agree, event by event, on what is checked and compared have
\* the same comparable events.
LEMMA CheckedAlike ==
  ASSUME NEW S, NEW a \in Seq(S), NEW b \in Seq(S), Len(a) = Len(b),
         \A i \in 1 .. Len(a) :
           /\ IsChecked(a[i]) <=> IsChecked(b[i])
           /\ IsChecked(a[i]) => Comparable(a[i]) = Comparable(b[i])
  PROVE  /\ Len(CheckedEvents(a)) = Len(CheckedEvents(b))
         /\ \A i \in 1 .. Len(CheckedEvents(a)) :
              Comparable(CheckedEvents(a)[i]) = Comparable(CheckedEvents(b)[i])
<1> DEFINE n == Len(a)
<1>0. n \in Nat /\ \A k \in 1 .. n : a[k] \in S /\ b[k] \in S
  BY LenProperties, ElementOfSeq
<1>1. PICK f \in [0 .. n -> Seq(S)] : KeptTo(f, a) /\ CheckedEvents(a) = f[n]
  BY CheckedKept
<1>2. PICK g \in [0 .. n -> Seq(S)] : KeptTo(g, b) /\ CheckedEvents(b) = g[n]
  BY CheckedKept
<1> DEFINE Alike(k) ==
             /\ Len(f[k]) = Len(g[k])
             /\ \A i \in 1 .. Len(f[k]) : Comparable(f[k][i]) = Comparable(g[k][i])
           T == {k \in 0 .. n : ~Alike(k)}
<1>3. Alike(0)
  BY <1>1, <1>2, EmptySeq DEF KeptTo
<1>4. ASSUME NEW k \in 1 .. n, Alike(k - 1)
      PROVE  Alike(k)
  <2>1. f[k - 1] \in Seq(S) /\ g[k - 1] \in Seq(S) /\ a[k] \in S /\ b[k] \in S
    <3>1. k - 1 \in 0 .. n
      BY <1>0
    <3> QED
      BY <1>0, <3>1
  <2>2. CASE ~IsChecked(a[k])
    <3>1. f[k] = f[k - 1] /\ g[k] = g[k - 1]
      BY <1>1, <1>2, <2>2 DEF KeptTo
    <3> QED
      BY <1>4, <3>1
  <2>3. CASE IsChecked(a[k])
    <3>1. f[k] = Append(f[k - 1], a[k]) /\ g[k] = Append(g[k - 1], b[k])
      BY <1>1, <1>2, <2>3 DEF KeptTo
    <3>2. /\ Len(f[k]) = Len(f[k - 1]) + 1 /\ f[k][Len(f[k - 1]) + 1] = a[k]
          /\ \A i \in 1 .. Len(f[k - 1]) : f[k][i] = f[k - 1][i]
      BY <2>1, <3>1, AppendProperties
    <3>3. /\ Len(g[k]) = Len(g[k - 1]) + 1 /\ g[k][Len(g[k - 1]) + 1] = b[k]
          /\ \A i \in 1 .. Len(g[k - 1]) : g[k][i] = g[k - 1][i]
      BY <2>1, <3>1, AppendProperties
    <3>4. Comparable(a[k]) = Comparable(b[k])
      BY <2>3
    <3>5. \A i \in 1 .. Len(f[k]) : i \in 1 .. Len(f[k - 1]) \/ i = Len(f[k - 1]) + 1
      <4>1. Len(f[k - 1]) \in Nat
        BY <2>1, LenProperties
      <4> QED
        BY <3>2, <4>1
    <3>6. \A i \in 1 .. Len(f[k]) : Comparable(f[k][i]) = Comparable(g[k][i])
      <4> SUFFICES ASSUME NEW i \in 1 .. Len(f[k])
                   PROVE  Comparable(f[k][i]) = Comparable(g[k][i])
        OBVIOUS
      <4>1. CASE i \in 1 .. Len(f[k - 1])
        <5>1. f[k][i] = f[k - 1][i] /\ g[k][i] = g[k - 1][i]
          BY <1>4, <3>2, <3>3, <4>1
        <5>2. Comparable(f[k - 1][i]) = Comparable(g[k - 1][i])
          BY <1>4, <4>1
        <5> QED
          BY <5>1, <5>2
      <4>2. CASE i = Len(f[k - 1]) + 1
        <5>1. f[k][i] = a[k] /\ g[k][i] = b[k]
          BY <1>4, <3>2, <3>3, <4>2
        <5> QED
          BY <3>4, <5>1
      <4> QED
        BY <3>5, <4>1, <4>2
    <3> QED
      BY <1>4, <3>2, <3>3, <3>6
  <2> QED
    BY <2>2, <2>3
<1> HIDE DEF Alike
<1>5. ASSUME T # {}
      PROVE  FALSE
  <2>1. T \in SUBSET Nat
    BY <1>0
  <2>2. PICK k \in T : \A m \in T : k <= m
    <3> HIDE DEF T
    <3> QED
      BY <1>5, <2>1, Least
  <2>3. k \in 1 .. n /\ k - 1 \in 0 .. n /\ ~(k <= k - 1)
    BY <1>0, <1>3, <2>2
  <2>4. Alike(k - 1)
    BY <2>2, <2>3
  <2> QED
    BY <1>4, <2>2, <2>3, <2>4
<1>6. Alike(n)
  BY <1>0, <1>5
<1> QED
  BY <1>1, <1>2, <1>6 DEF Alike

\* rank[k] is the place among the checked events of the k-th event, if it is checked.
Looked(es) == {k \in 1 .. Len(es) : IsChecked(es[k])}
Ranks(rank, es) ==
  LET kept == CheckedEvents(es)
  IN  /\ rank \in [Looked(es) -> 1 .. Len(kept)]
      /\ \A k, l \in Looked(es) : k < l => rank[k] < rank[l]
      /\ \A i \in 1 .. Len(kept) : \E k \in Looked(es) : rank[k] = i
      /\ \A k \in Looked(es) : kept[rank[k]] = es[k]

\* Checking keeps the order, every checked event, and no other.
LEMMA CheckedRanks ==
  ASSUME NEW S, NEW es \in Seq(S)
  PROVE  \E rank : Ranks(rank, es)
<1> DEFINE n == Len(es)
<1>0. n \in Nat /\ \A k \in 1 .. n : es[k] \in S
  BY LenProperties, ElementOfSeq
<1>1. PICK f \in [0 .. n -> Seq(S)] : KeptTo(f, es) /\ CheckedEvents(es) = f[n]
  BY <1>0, CheckedKept
<1>2. \A k \in 0 .. n : f[k] \in Seq(S) /\ Len(f[k]) \in Nat
  BY <1>1, LenProperties
<1> DEFINE At(m, k) == Len(f[m]) \in 1 .. Len(f[k]) /\ f[k][Len(f[m])] = es[m]
           Kept(k) ==
             /\ \A m \in 1 .. k : IsChecked(es[m]) => At(m, k)
             /\ \A m, l \in 1 .. k : IsChecked(es[m]) /\ IsChecked(es[l]) /\ m < l
                                       => Len(f[m]) < Len(f[l])
             /\ \A i \in 1 .. Len(f[k]) : \E m \in 1 .. k : IsChecked(es[m]) /\ Len(f[m]) = i
           T == {k \in 0 .. n : ~Kept(k)}
<1>3. Kept(0)
  <2>1. Len(f[0]) = 0
    BY <1>1, EmptySeq DEF KeptTo
  <2> QED
    BY <2>1
<1>4. ASSUME NEW k \in 1 .. n, Kept(k - 1)
      PROVE  Kept(k)
  <2>1. /\ k - 1 \in 0 .. n /\ k \in 0 .. n /\ k \in 1 .. k
        /\ \A m \in 1 .. k : m \in 1 .. k - 1 \/ m = k
        /\ \A m \in 1 .. k - 1 : m \in 1 .. k /\ m < k
    BY <1>0
  <2>2. CASE ~IsChecked(es[k])
    <3>1. f[k] = f[k - 1]
      BY <1>1, <2>2 DEF KeptTo
    <3>2. \A m \in 1 .. k : IsChecked(es[m]) => m \in 1 .. k - 1
      BY <2>1, <2>2
    <3>3. \A m \in 1 .. k : IsChecked(es[m]) => At(m, k)
      BY <1>4, <3>1, <3>2
    <3>4. \A m, l \in 1 .. k : IsChecked(es[m]) /\ IsChecked(es[l]) /\ m < l
                                 => Len(f[m]) < Len(f[l])
      BY <1>4, <3>2
    <3>5. \A i \in 1 .. Len(f[k]) : \E m \in 1 .. k : IsChecked(es[m]) /\ Len(f[m]) = i
      BY <1>4, <2>1, <3>1
    <3> QED
      BY <3>3, <3>4, <3>5
  <2>3. CASE IsChecked(es[k])
    <3>1. f[k] = Append(f[k - 1], es[k])
      BY <1>1, <2>3 DEF KeptTo
    <3> DEFINE len == Len(f[k - 1])
    <3>2. /\ len \in Nat /\ Len(f[k]) = len + 1 /\ f[k][len + 1] = es[k]
          /\ \A i \in 1 .. len : f[k][i] = f[k - 1][i]
      <4>1. f[k - 1] \in Seq(S) /\ es[k] \in S
        BY <1>0, <1>2, <2>1
      <4> QED
        BY <3>1, <4>1, AppendProperties, LenProperties
    <3>3. \A m \in 1 .. k - 1 : IsChecked(es[m]) =>
            Len(f[m]) \in 1 .. len /\ f[k - 1][Len(f[m])] = es[m]
      BY <1>4
    <3> HIDE DEF len
    <3>4. \A m \in 1 .. k - 1 : IsChecked(es[m]) => At(m, k) /\ Len(f[m]) < Len(f[k])
      <4> SUFFICES ASSUME NEW m \in 1 .. k - 1, IsChecked(es[m])
                   PROVE  At(m, k) /\ Len(f[m]) < Len(f[k])
        OBVIOUS
      <4>1. Len(f[m]) \in 1 .. len /\ f[k - 1][Len(f[m])] = es[m]
        BY <3>3
      <4> QED
        BY <3>2, <4>1
    <3>5. At(k, k)
      BY <3>2
    <3>6. \A m \in 1 .. k : IsChecked(es[m]) => At(m, k)
      BY <2>1, <3>4, <3>5
    <3>7. \A m, l \in 1 .. k : IsChecked(es[m]) /\ IsChecked(es[l]) /\ m < l
                                 => Len(f[m]) < Len(f[l])
      <4> SUFFICES ASSUME NEW m \in 1 .. k, NEW l \in 1 .. k,
                          IsChecked(es[m]), IsChecked(es[l]), m < l
                   PROVE  Len(f[m]) < Len(f[l])
        OBVIOUS
      <4>1. m \in 1 .. k - 1
        BY <2>1
      <4>2. CASE l = k
        BY <3>4, <4>1, <4>2
      <4>3. CASE l \in 1 .. k - 1
        BY <1>4, <4>1, <4>3
      <4> QED
        BY <2>1, <4>2, <4>3
    <3>8. \A i \in 1 .. Len(f[k]) : \E m \in 1 .. k : IsChecked(es[m]) /\ Len(f[m]) = i
      <4> SUFFICES ASSUME NEW i \in 1 .. Len(f[k])
                   PROVE  \E m \in 1 .. k : IsChecked(es[m]) /\ Len(f[m]) = i
        OBVIOUS
      <4>1. CASE i = Len(f[k])
        BY <2>1, <2>3, <4>1
      <4>2. CASE i # Len(f[k])
        <5>1. i \in 1 .. Len(f[k - 1])
          BY <3>2, <4>2 DEF len
        <5> QED
          BY <1>4, <2>1, <5>1
      <4> QED
        BY <4>1, <4>2
    <3> QED
      BY <3>6, <3>7, <3>8
  <2> QED
    BY <2>2, <2>3
<1> HIDE DEF Kept
<1>5. ASSUME T # {}
      PROVE  FALSE
  <2>1. T \in SUBSET Nat
    BY <1>0
  <2>2. PICK k \in T : \A m \in T : k <= m
    <3> HIDE DEF T
    <3> QED
      BY <1>5, <2>1, Least
  <2>3. k \in 1 .. n /\ k - 1 \in 0 .. n /\ ~(k <= k - 1)
    BY <1>0, <1>3, <2>2
  <2>4. Kept(k - 1)
    BY <2>2, <2>3
  <2> QED
    BY <1>4, <2>2, <2>3, <2>4
<1>6. Kept(n)
  BY <1>0, <1>5
<1> DEFINE rank == [k \in Looked(es) |-> Len(f[k])]
<1>7. Ranks(rank, es)
  <2>1. \A k : k \in Looked(es) <=> k \in 1 .. n /\ IsChecked(es[k])
    BY DEF Looked
  <2>2. \A k \in Looked(es) : rank[k] = Len(f[k]) /\ At(k, n)
    BY <1>6, <2>1 DEF Kept
  <2>3. \A k, l \in Looked(es) : k < l => rank[k] < rank[l]
    BY <1>6, <2>1, <2>2 DEF Kept
  <2>4. \A i \in 1 .. Len(f[n]) : \E k \in Looked(es) : rank[k] = i
    BY <1>6, <2>1, <2>2 DEF Kept
  <2>5. rank \in [Looked(es) -> 1 .. Len(f[n])]
    BY <2>2
  <2> HIDE DEF rank
  <2> QED
    BY <1>1, <2>2, <2>3, <2>4, <2>5 DEF Ranks
<1> QED
  BY <1>7

(***************************************************************************)
(* first_sequence_mismatch.                                                 *)
(***************************************************************************)
\* It points at the first place where the sequences differ, or where one has ended.
LEMMA FirstDifferenceFirst ==
  ASSUME NEW S, NEW a \in Seq(S), NEW b \in Seq(S)
  PROVE  LET place == FirstDifference(a, b)
         IN  \/ /\ place = 0
                /\ Len(a) = Len(b)
                /\ \A i \in 1 .. Len(a) : Comparable(a[i]) = Comparable(b[i])
             \/ /\ place \in Nat \ {0}
                /\ \A i \in 1 .. place - 1 :
                     i <= Len(a) /\ i <= Len(b) /\ Comparable(a[i]) = Comparable(b[i])
                /\ \/ place > Len(a) /\ place <= Len(b)
                   \/ place > Len(b) /\ place <= Len(a)
                   \/ /\ place <= Len(a) /\ place <= Len(b)
                      /\ Comparable(a[place]) # Comparable(b[place])
<1> DEFINE D == Differences(a, b)
           least == CHOOSE i \in D : \A j \in D : i <= j
<1>0. Len(a) \in Nat /\ Len(b) \in Nat
  BY LenProperties
<1>1. /\ Limit(a, b) \in Nat /\ Limit(a, b) <= Len(a) /\ Limit(a, b) <= Len(b)
      /\ Limit(a, b) = Len(a) \/ Limit(a, b) = Len(b)
  BY <1>0 DEF Limit
<1>2. \A i : i \in D <=> i \in 1 .. Limit(a, b) /\ Comparable(a[i]) # Comparable(b[i])
  BY DEF Differences
<1>3. FirstDifference(a, b) = IF D # {} THEN least
                              ELSE IF Len(a) # Len(b) THEN Limit(a, b) + 1
                              ELSE 0
  BY DEF FirstDifference
<1>4. D \in SUBSET Nat
  BY <1>1, <1>2
<1> HIDE DEF D
<1>5. D # {} => least \in D /\ \A j \in D : least <= j
  BY <1>4, LeastChosen
<1> HIDE DEF least
<1>6. CASE D # {}
  <2>1. /\ FirstDifference(a, b) = least /\ least \in 1 .. Limit(a, b)
        /\ Comparable(a[least]) # Comparable(b[least])
    BY <1>2, <1>3, <1>5, <1>6
  <2>2. ASSUME NEW i \in 1 .. least - 1
        PROVE  i <= Len(a) /\ i <= Len(b) /\ Comparable(a[i]) = Comparable(b[i])
    <3>1. i \in 1 .. Limit(a, b) /\ ~(least <= i)
      BY <1>1, <2>1
    <3>2. i \notin D
      BY <1>5, <1>6, <3>1
    <3> QED
      BY <1>0, <1>1, <1>2, <3>1, <3>2
  <2> QED
    BY <1>0, <1>1, <2>1, <2>2
<1>7. CASE D = {}
  <2>1. \A i \in 1 .. Limit(a, b) : Comparable(a[i]) = Comparable(b[i])
    BY <1>2, <1>7
  <2>2. CASE Len(a) = Len(b)
    <3>1. Limit(a, b) = Len(a) /\ FirstDifference(a, b) = 0
      BY <1>3, <1>7, <2>2 DEF Limit
    <3> QED
      BY <2>1, <2>2, <3>1
  <2>3. CASE Len(a) # Len(b)
    <3>1. FirstDifference(a, b) = Limit(a, b) + 1
      BY <1>3, <1>7, <2>3
    <3>2. (Limit(a, b) + 1) - 1 = Limit(a, b)
      BY <1>1
    <3>3. \A i \in 1 .. Limit(a, b) :
            i <= Len(a) /\ i <= Len(b) /\ Comparable(a[i]) = Comparable(b[i])
      BY <1>0, <1>1, <2>1
    <3>4. \/ Limit(a, b) + 1 > Len(a) /\ Limit(a, b) + 1 <= Len(b)
          \/ Limit(a, b) + 1 > Len(b) /\ Limit(a, b) + 1 <= Len(a)
      BY <1>0, <2>3 DEF Limit
    <3> QED
      BY <1>1, <3>1, <3>2, <3>3, <3>4
  <2> QED
    BY <2>2, <2>3
<1> QED
  BY <1>6, <1>7
(***************************************************************************)
(* The files of a replay into a new directory.                              *)
(***************************************************************************)
\* They hold this replayer's lines and no other, program_start first.
Framed ==
  /\ Len(events) = seq
  /\ pc \notin {"load", "opened", "attach", "failed", "crashed"} => seq >= 1
  /\ seq >= 1 => events[1].body = ProcessBody("program_start", 1)
  /\ pc = "exited" => Exited

\* A result tells of a run that is over, and a result without a signal of an exit.
Ending ==
  result.stored =>
    /\ pc \in {"close", "done", "crashed"}
    /\ result.signal = 0 => Exited /\ result.observed = hist

\* emit_line adds a line at the end.
LEMMA EmitAdds ==
  ASSUME TypeOK, Len(events) = seq, NEW body, body.seq = seq + 1, Emit(body)
  PROVE  /\ seq' = seq + 1 /\ Len(events') = seq'
         /\ events'[seq + 1].body = body
         /\ \A n \in 1 .. seq : events'[n] = events[n]
<1> DEFINE l == Line(prev_hash, body)
<1>1. events \in Seq(LineType \cup {l}) /\ Len(events) \in Nat /\ seq \in Nat
  BY LenProperties, SeqDef DEF TypeOK
<1>2. events' = Append(events, l) /\ seq' = seq + 1 /\ l.body = body
  BY DEF Emit, Line
<1> HIDE DEF l
<1>3. /\ Len(events') = Len(events) + 1 /\ events'[Len(events) + 1] = l
      /\ \A i \in 1 .. Len(events) : events'[i] = events[i]
  BY <1>1, <1>2, AppendProperties
<1> QED
  BY <1>2, <1>3

LEMMA FramedStep ==
  ASSUME TypeOK, Control, AtExitOnly, Framed, [Next]_vars
  PROVE  Framed'
<1>0. seq \in Nat /\ seq <= Len(events)
  BY DEF TypeOK, AtExitOnly
<1>1. ASSUME events' = events, seq' = seq, pc' = "exited" => pc = "exited",
             pc \in {"load", "opened", "attach", "failed", "crashed"} =>
               pc' \in {"load", "opened", "attach", "failed", "crashed"}
      PROVE  Framed'
  BY <1>1, SameLines DEF Framed
<1>2. CASE LoadLine \/ Loaded \/ TargetUnknown \/ StartFails \/ PtraceFails \/ Close \/ Crash
  BY <1>1, <1>2
  DEF LoadLine, Loaded, TargetUnknown, StartFails, PtraceFails, Close, Crash, diskVars, writerVars
<1>3. CASE Fork \/ Resume \/ WaitSignalStop \/ WaitSyscallStop
  BY <1>1, <1>3 DEF Fork, Resume, WaitSignalStop, WaitSyscallStop, diskVars, writerVars
<1>4. CASE AtEntry \/ AtExit \/ Inject \/ InjectFails
  BY <1>1, <1>4 DEF AtEntry, AtExit, Inject, InjectFails, diskVars, writerVars
<1>5. CASE WriteResult \/ WriteResultFails \/ TargetMoves \/ UNCHANGED vars
  BY <1>1, <1>5 DEF WriteResult, WriteResultFails, TargetMoves, vars, diskVars, writerVars
<1>6. CASE Attach
  <2> DEFINE body == ProcessBody("program_start", seq + 1)
  <2>1. Emit(body) /\ body.seq = seq + 1 /\ seq = 0 /\ pc' = "resume"
    BY <1>6 DEF Attach, EmitProcess, Control, ProcessBody, Body
  <2>2. body = ProcessBody("program_start", 1)
    BY <2>1
  <2> HIDE DEF body
  <2>3. seq' = 1 /\ Len(events') = seq' /\ events'[1].body = body
    BY <2>1, EmitAdds DEF Framed
  <2> QED
    BY <2>1, <2>2, <2>3 DEF Framed
<1>7. CASE WaitDeath
  <2>1. PICK name \in ProcessNames :
          /\ EmitProcess(name)
          /\ tstate = "exited" => name = "program_exit" /\ pc' = "exited"
          /\ tstate # "exited" => pc' = "signalled"
    BY <1>7 DEF WaitDeath, ProcessNames
  <2> DEFINE body == ProcessBody(name, seq + 1)
  <2>2. Emit(body) /\ body.seq = seq + 1 /\ seq >= 1
    BY <1>7, <2>1 DEF WaitDeath, EmitProcess, Framed, ProcessBody, Body
  <2>3. tstate = "exited" => body = ProcessBody("program_exit", seq + 1)
    BY <2>1
  <2> HIDE DEF body
  <2>4. /\ seq' = seq + 1 /\ Len(events') = seq' /\ events'[1] = events[1]
        /\ Exited' <=> body = ProcessBody("program_exit", seq + 1)
    <3>1. 1 \in 1 .. seq
      BY <1>0, <2>2
    <3> QED
      BY <1>0, <2>2, <3>1, EmitAdds, EmitLast DEF Framed
  <2> QED
    BY <1>0, <2>1, <2>2, <2>3, <2>4 DEF Framed
<1>8. CASE EmitSyscall
  <2> DEFINE body == SyscallBody(entry, seq + 1, shown, EmittedRef)
  <2>1. Emit(body) /\ body.seq = seq + 1 /\ pc = "emit" /\ pc' = "resume"
    BY <1>8 DEF EmitSyscall, SyscallBody, Body
  <2> HIDE DEF body
  <2>2. seq >= 1
    BY <2>1 DEF Framed
  <2>3. seq' = seq + 1 /\ Len(events') = seq' /\ events'[1] = events[1]
    <3>1. 1 \in 1 .. seq
      BY <1>0, <2>2
    <3> QED
      BY <2>1, <3>1, EmitAdds DEF Framed
  <2> QED
    BY <1>0, <2>1, <2>2, <2>3 DEF Framed
<1> QED
  BY <1>2, <1>3, <1>4, <1>5, <1>6, <1>7, <1>8 DEF Next, ReplayerStep

\* Nothing that is read by the verifier changes once the replayer closes its files.
LEMMA ClosedStays ==
  ASSUME TypeOK, Control, pc \in {"close"} \cup Over, [Next]_vars
  PROVE  /\ trace' = trace /\ events' = events /\ result' = result /\ seq' = seq
         /\ hist' = hist
         /\ pc \in Over => pc' = pc
         /\ pc = "close" => pc' \in {"close", "done", "crashed"}
<1> USE DEF Over
<1>1. hist' = hist /\ trace' = trace
  BY HistStep, OnlyLoaded
<1>2. CASE LoadLine \/ Loaded \/ TargetUnknown \/ StartFails \/ PtraceFails \/ Fork \/ Attach
  BY <1>2 DEF LoadLine, Loaded, TargetUnknown, StartFails, PtraceFails, Fork, Attach
<1>3. CASE Resume \/ WaitDeath \/ WaitSignalStop \/ WaitSyscallStop \/ AtEntry \/ AtExit
  BY <1>3 DEF Resume, WaitDeath, WaitSignalStop, WaitSyscallStop, AtEntry, AtExit
<1>4. CASE Inject \/ InjectFails \/ EmitSyscall \/ WriteResult \/ WriteResultFails
  BY <1>4 DEF Inject, InjectFails, EmitSyscall, WriteResult, WriteResultFails
<1>5. CASE Close \/ Crash \/ TargetMoves \/ UNCHANGED vars
  BY <1>1, <1>5 DEF Close, Crash, TargetMoves, vars, diskVars, writerVars, Active
<1> QED
  BY <1>2, <1>3, <1>4, <1>5 DEF Next, ReplayerStep

LEMMA EndingStep ==
  ASSUME TypeOK, Control, Framed, Ending, [Next]_vars
  PROVE  Ending'
<1>1. CASE WriteResult
  <2>1. /\ pc \in {"exited", "signalled"} /\ pc' = "close" /\ hist' = hist /\ events' = events
        /\ seq' = seq /\ result'.observed = hist
        /\ result'.signal = 0 => pc = "exited"
    BY <1>1 DEF WriteResult, targetVars, writerVars
  <2> QED
    BY <2>1, SameLines DEF Ending, Framed
<1>2. CASE WriteResultFails
  <2>1. ~result.stored
    BY <1>2 DEF WriteResultFails, Ending
  <2>2. ~result'.stored
    BY <1>2, <2>1 DEF WriteResultFails, NoResult
  <2> QED
    BY <2>2 DEF Ending
<1>3. CASE ~WriteResult /\ ~WriteResultFails
  <2>1. result' = result
    <3>1. CASE LoadLine \/ Loaded \/ TargetUnknown \/ StartFails \/ PtraceFails \/ Fork \/ Attach
      BY <3>1
      DEF LoadLine, Loaded, TargetUnknown, StartFails, PtraceFails, Fork, Attach, diskVars
    <3>2. CASE Resume \/ WaitDeath \/ WaitSignalStop \/ WaitSyscallStop \/ AtEntry \/ AtExit
      BY <3>2
      DEF Resume, WaitDeath, WaitSignalStop, WaitSyscallStop, AtEntry, AtExit, diskVars
    <3>3. CASE Inject \/ InjectFails \/ EmitSyscall \/ Close
      BY <3>3 DEF Inject, InjectFails, EmitSyscall, Close, diskVars
    <3>4. CASE Crash \/ TargetMoves \/ UNCHANGED vars
      BY <3>4 DEF Crash, TargetMoves, vars, diskVars
    <3> QED
      BY <1>3, <3>1, <3>2, <3>3, <3>4 DEF Next, ReplayerStep
  <2> SUFFICES ASSUME result.stored
               PROVE  Ending'
    BY <2>1 DEF Ending
  <2>2. pc \in {"close", "done", "crashed"} /\ (result.signal = 0 => Exited /\ result.observed = hist)
    BY DEF Ending
  <2>3. /\ events' = events /\ seq' = seq /\ hist' = hist
        /\ pc' \in {"close", "done", "crashed"}
    BY <2>2, ClosedStays DEF Over
  <2> QED
    BY <2>1, <2>2, <2>3, SameLines DEF Ending
<1> QED
  BY <1>1, <1>2, <1>3

\* When the target is waited for, every result it has seen has its line; the line of its
\* end is the last one, and what result.json tells is what it observed.
Closing ==
  /\ pc = "wait" => seq = Len(hist) + 1
  /\ pc \in {"exited", "signalled"} \/ result.stored =>
       seq = Len(hist) + 2 /\ events[seq].body.etype = "PROCESS"
  /\ result.stored => result.observed = hist

LEMMA ClosingStep ==
  ASSUME TypeOK, Control, Counts, Framed, Ending, Closing, [Next]_vars
  PROVE  Closing'
<1>0. Len(hist) \in Nat /\ seq \in Nat /\ Len(events) = seq
  BY LenProperties DEF TypeOK, TargetTypeOK, Framed
<1>1. ASSUME hist' = hist, events' = events, seq' = seq, result' = result,
             pc' \in {"wait", "exited", "signalled"} => pc' = pc
      PROVE  Closing'
  BY <1>1 DEF Closing
<1>2. ASSUME result' = result, pc \notin {"close", "done", "crashed"},
             pc' \notin {"wait", "exited", "signalled"}
      PROVE  Closing'
  BY <1>2 DEF Closing, Ending
<1>3. CASE LoadLine \/ Loaded \/ TargetUnknown \/ StartFails \/ PtraceFails \/ Close \/ Crash
  BY <1>1, <1>3
  DEF LoadLine, Loaded, TargetUnknown, StartFails, PtraceFails, Close, Crash, DetachTarget,
      targetVars, diskVars, writerVars
<1>4. CASE Fork \/ Attach \/ EmitSyscall
  BY <1>2, <1>4 DEF Fork, Attach, EmitSyscall, diskVars
<1>5. CASE Resume
  <2>1. seq' = seq /\ result' = result /\ pc' = "wait" /\ pc = "resume" /\ ~result.stored
    BY <1>5 DEF Resume, diskVars, writerVars, Ending
  <2>2. CASE tstate = "exitstop"
    <3>1. hist' = Append(hist, Observation(call, ret, mem))
      BY <1>5, <2>2 DEF Resume, ResumeTarget
    <3>2. Len(hist') = Len(hist) + 1
      BY <3>1, ObservationInType, AppendProperties DEF TypeOK, TargetTypeOK
    <3>3. seq = Len(hist) + 2
      BY <2>1, <2>2 DEF Counts, Alive, Stopped
    <3> QED
      BY <1>0, <2>1, <3>2, <3>3 DEF Closing
  <2>3. CASE tstate # "exitstop"
    <3>1. hist' = hist /\ tstate \in Alive
      BY <1>5, <2>3 DEF Resume, ResumeTarget, Alive
    <3>2. seq = Len(hist) + 1
      BY <2>1, <2>3, <3>1 DEF Counts
    <3> QED
      BY <2>1, <3>1, <3>2 DEF Closing
  <2> QED
    BY <2>2, <2>3
<1>6. CASE WaitDeath
  <2>1. PICK name \in ProcessNames : EmitProcess(name)
    BY <1>6 DEF WaitDeath, ProcessNames
  <2>2. /\ hist' = hist /\ pc = "wait" /\ pc' \in {"exited", "signalled"}
        /\ result' = result /\ ~result.stored
    BY <1>6 DEF WaitDeath, ReapTarget, Ending
  <2> DEFINE body == ProcessBody(name, seq + 1)
  <2>3. body.seq = seq + 1 /\ body.etype = "PROCESS" /\ Emit(body)
    BY <2>1 DEF EmitProcess, ProcessBody, Body
  <2> HIDE DEF body
  <2>4. seq' = seq + 1 /\ events'[seq + 1].body = body
    BY <1>0, <2>3, EmitAdds
  <2>5. seq = Len(hist) + 1
    BY <2>2 DEF Closing
  <2> QED
    BY <1>0, <2>2, <2>3, <2>4, <2>5 DEF Closing
<1>7. CASE WriteResult
  BY <1>7 DEF WriteResult, Closing, targetVars, writerVars
<1>8. CASE WriteResultFails
  <2>1. ~result'.stored /\ pc' = "close"
    BY <1>8 DEF WriteResultFails, NoResult, Ending
  <2> QED
    BY <2>1 DEF Closing
<1>12. CASE WaitSignalStop \/ WaitSyscallStop
  BY <1>1, <1>12
  DEF WaitSignalStop, WaitSyscallStop, targetVars, diskVars, writerVars
<1>9. CASE AtEntry \/ AtExit \/ Inject \/ InjectFails
  BY <1>1, <1>9
  DEF AtEntry, AtExit, Inject, InjectFails, targetVars, diskVars, writerVars
<1>10. CASE TargetMoves
  BY <1>1, <1>10
  DEF TargetMoves, TargetNext, TargetRuns, EnterSyscall, KernelReturns, Exits, FaultStops,
      SignalStops, Interrupts, Killed, diskVars, writerVars
<1>11. CASE UNCHANGED vars
  BY <1>1, <1>11 DEF vars, targetVars, diskVars, writerVars
<1> QED
  BY <1>3, <1>4, <1>5, <1>6, <1>7, <1>8, <1>9, <1>10, <1>11, <1>12 DEF Next, ReplayerStep

\* The program sees no more bytes than its results promise, and a line without a
\* reference claims no bytes.
Plain(ref) == ref.length = 0 => ref.sha256 = << >>
Modest ==
  /\ \A k \in 1 .. Len(hist) : Len(hist[k].data) <= PayloadLen(hist[k].call, hist[k].ret)
  /\ \A n \in 1 .. Len(events) : Plain(events[n].body.payload_ref)

LEMMA ModestStep ==
  ASSUME TypeOK, Control, Framed, Modest, [Next]_vars
  PROVE  Modest'
<1>1. \A k \in 1 .. Len(hist') : Len(hist'[k].data) <= PayloadLen(hist'[k].call, hist'[k].ret)
  <2>1. CASE hist' = hist
    BY <2>1 DEF Modest
  <2>2. CASE hist' = Append(hist, Observation(call, ret, mem))
    <3> DEFINE o == Observation(call, ret, mem)
    <3>1. o \in ObservationType /\ hist \in Seq(ObservationType) /\ mem \in Seq(Byte)
      BY ObservationInType DEF TypeOK, TargetTypeOK
    <3>2. /\ o.call = call /\ o.ret = ret /\ o.data = Take(mem, PayloadLen(call, ret))
          /\ PayloadLen(call, ret) \in Nat
      BY PayloadLenNat DEF Observation, TypeOK, TargetTypeOK
    <3>3. Len(o.data) <= PayloadLen(o.call, o.ret)
      BY <3>1, <3>2, TakePrefix, LenProperties
    <3> HIDE DEF o
    <3>4. /\ Len(hist) \in Nat /\ Len(hist') = Len(hist) + 1 /\ hist'[Len(hist) + 1] = o
          /\ \A k \in 1 .. Len(hist) : hist'[k] = hist[k]
      BY <2>2, <3>1, AppendProperties, LenProperties DEF o
    <3>5. \A k \in 1 .. Len(hist') : k \in 1 .. Len(hist) \/ k = Len(hist) + 1
      BY <3>4
    <3> QED
      BY <3>3, <3>4, <3>5 DEF Modest
  <2> QED
    BY <2>1, <2>2, HistStep
<1>2. ASSUME NEW body, Emit(body), body.seq = seq + 1, Plain(body.payload_ref)
      PROVE  \A n \in 1 .. Len(events') : Plain(events'[n].body.payload_ref)
  <2>1. /\ Len(events') = seq + 1 /\ events'[seq + 1].body = body
        /\ \A n \in 1 .. seq : events'[n] = events[n]
        /\ seq \in Nat /\ Len(events) = seq
    BY <1>2, EmitAdds DEF TypeOK, Framed
  <2>2. \A n \in 1 .. Len(events') : n \in 1 .. seq \/ n = seq + 1
    BY <2>1
  <2> QED
    BY <1>2, <2>1, <2>2 DEF Modest
<1>3. CASE Attach \/ WaitDeath
  <2>1. PICK name \in ProcessNames : EmitProcess(name)
    BY <1>3 DEF Attach, WaitDeath, ProcessNames
  <2> DEFINE body == ProcessBody(name, seq + 1)
  <2>2. Emit(body) /\ body.seq = seq + 1 /\ Plain(body.payload_ref)
    BY <2>1 DEF EmitProcess, ProcessBody, Body, Plain, NoRef, Ref
  <2> HIDE DEF body
  <2> QED
    BY <1>1, <1>2, <2>2 DEF Modest
<1>4. CASE EmitSyscall
  <2> DEFINE body == SyscallBody(entry, seq + 1, shown, EmittedRef)
  <2>1. Emit(body) /\ body.seq = seq + 1 /\ body.payload_ref = EmittedRef
    BY <1>4 DEF EmitSyscall, SyscallBody, Body
  <2> HIDE DEF body
  <2>2. Plain(EmittedRef)
    <3>1. CASE active = 0 \/ items[active].payload_ref.length = 0
      BY <3>1 DEF EmittedRef, Plain, NoRef, Ref
    <3>2. CASE active # 0 /\ items[active].payload_ref.length # 0
      <4>1. active \in 1 .. Len(items)
        BY <3>2, LenProperties DEF TypeOK
      <4>2. items[active] \in BodyType
        BY <4>1, ElementOfSeq DEF TypeOK
      <4>3. items[active].payload_ref \in RefType
        BY <4>2 DEF BodyType
      <4>4. EmittedRef.length = items[active].payload_ref.length
        BY <3>2, <4>3 DEF EmittedRef, RefType
      <4> QED
        BY <3>2, <4>4 DEF Plain
    <3> QED
      BY <3>1, <3>2
  <2> QED
    BY <1>1, <1>2, <2>1, <2>2 DEF Modest
<1>5. CASE events' = events
  BY <1>1, <1>5 DEF Modest
<1>6. CASE LoadLine \/ Loaded \/ TargetUnknown \/ StartFails \/ PtraceFails \/ Fork
  BY <1>5, <1>6 DEF LoadLine, Loaded, TargetUnknown, StartFails, PtraceFails, Fork, diskVars
<1>7. CASE Resume \/ WaitSignalStop \/ WaitSyscallStop \/ AtEntry \/ AtExit \/ Inject \/ InjectFails
  BY <1>5, <1>7
  DEF Resume, WaitSignalStop, WaitSyscallStop, AtEntry, AtExit, Inject, InjectFails, diskVars
<1>8. CASE WriteResult \/ WriteResultFails \/ Close \/ Crash \/ TargetMoves \/ UNCHANGED vars
  BY <1>5, <1>8 DEF WriteResult, WriteResultFails, Close, Crash, TargetMoves, vars, diskVars
<1> QED
  BY <1>3, <1>4, <1>6, <1>7, <1>8 DEF Next, ReplayerStep

(***************************************************************************)
(* The references of a faithful replay.                                     *)
(***************************************************************************)
\* A reference has the length and the hash of the data.
Exact(ref, data) == ref.length = Len(data) /\ ref.sha256 = data

\* So has every reference in the lines of the results the program has seen, and that of
\* the result it is about to see.
Exactly ==
  /\ \A k \in 1 .. Len(hist) : Exact(events[k + 1].body.payload_ref, hist[k].data)
  /\ tstate = "exitstop" /\ pc = "emit" => Exact(EmittedRef, Observation(call, ret, mem).data)
  /\ tstate = "exitstop" /\ pc = "resume" =>
       Exact(events[seq].body.payload_ref, Observation(call, ret, mem).data)

\* A result without a payload and a line without a reference go together.
LEMMA ExactNone ==
  ASSUME TypeOK, PayloadLen(call, ret) = 0
  PROVE  Exact(NoRef, Observation(call, ret, mem).data)
<1>1. Observation(call, ret, mem).data = Take(mem, 0)
  BY DEF Observation
<1>2. mem \in Seq(Byte) /\ Len(mem) \in Nat
  BY LenProperties DEF TypeOK, TargetTypeOK
<1>3. Take(mem, 0) \in Seq(Byte) /\ Len(Take(mem, 0)) = 0
  BY <1>2, TakePrefix
<1>4. Take(mem, 0) = << >>
  BY <1>3, EmptySeq
<1> QED
  BY <1>1, <1>4 DEF Exact, NoRef, Ref

LEMMA ExactStep ==
  ASSUME TypeOK, Pending, Control, InCall, AtExitOnly, Covered, LoadedSoFar, AsRecorded, InPlace,
         FromTrace, SameCall, Counts, Framed, Exactly, missed' = {}, [Next]_vars
  PROVE  Exactly'
<1>0. /\ Len(hist) \in Nat /\ seq \in Nat /\ Len(events) = seq
      /\ hist # << >> => seq >= Len(hist) + 1
      /\ hist = << >> => Len(hist) = 0
  BY LenProperties, EmptySeq DEF TypeOK, TargetTypeOK, Counts, Framed
<1>1. ASSUME hist' = hist, \A n \in 1 .. seq : events'[n] = events[n]
      PROVE  \A k \in 1 .. Len(hist') : Exact(events[k + 1].body.payload_ref, hist[k].data)'
  <2>1. \A k \in 1 .. Len(hist) : k + 1 \in 1 .. seq
    BY <1>0
  <2> QED
    BY <1>1, <2>1 DEF Exactly, Exact
<1>2. ASSUME hist' = hist, events' = events, seq' = seq,
             pc' \in {"emit", "resume"} /\ tstate' = "exitstop" =>
               pc' = pc /\ UNCHANGED << targetVars, items, active, payload >>
      PROVE  Exactly'
  <2>1. \A k \in 1 .. Len(hist') : Exact(events[k + 1].body.payload_ref, hist[k].data)'
    BY <1>1, <1>2
  <2>2. tstate' = "exitstop" /\ pc' = "emit" => Exact(EmittedRef, Observation(call, ret, mem).data)'
    BY <1>2 DEF Exactly, Exact, EmittedRef, targetVars
  <2>3. tstate' = "exitstop" /\ pc' = "resume" =>
          Exact(events[seq].body.payload_ref, Observation(call, ret, mem).data)'
    BY <1>2 DEF Exactly, Exact, targetVars
  <2> QED
    BY <2>1, <2>2, <2>3 DEF Exactly
<1>3. CASE LoadLine \/ Loaded \/ TargetUnknown \/ StartFails \/ PtraceFails \/ Close \/ Crash
  BY <1>2, <1>3
  DEF LoadLine, Loaded, TargetUnknown, StartFails, PtraceFails, Close, Crash, DetachTarget,
      targetVars, diskVars, writerVars
<1>4. CASE Fork
  BY <1>2, <1>4 DEF Fork, TargetFork, diskVars, writerVars, Control
<1>5. CASE Attach
  <2>1. hist' = << >> /\ tstate' # "exitstop"
    BY <1>5 DEF Attach, ReapTarget, targetVars, Control
  <2> QED
    BY <2>1, EmptySeq DEF Exactly
<1>6. CASE Resume
  <2>1. seq' = seq /\ events' = events /\ pc' = "wait" /\ pc = "resume"
    BY <1>6 DEF Resume, diskVars, writerVars
  <2>2. CASE tstate = "exitstop"
    <3> DEFINE o == Observation(call, ret, mem)
    <3>1. hist' = Append(hist, o)
      BY <1>6, <2>2 DEF Resume, ResumeTarget
    <3>2. hist \in Seq(ObservationType) /\ o \in ObservationType
      BY ObservationInType DEF TypeOK, TargetTypeOK
    <3>3. Exact(events[seq].body.payload_ref, o.data)
      BY <2>1, <2>2 DEF Exactly
    <3> HIDE DEF o
    <3>4. /\ Len(hist') = Len(hist) + 1 /\ hist'[Len(hist) + 1] = o
          /\ \A k \in 1 .. Len(hist) : hist'[k] = hist[k]
      BY <3>1, <3>2, AppendProperties
    <3>5. seq = Len(hist) + 2
      BY <2>1, <2>2 DEF Counts, Alive, Stopped
    <3>6. ASSUME NEW k \in 1 .. Len(hist')
          PROVE  Exact(events[k + 1].body.payload_ref, hist[k].data)'
      <4>1. CASE k \in 1 .. Len(hist)
        BY <2>1, <3>4, <4>1 DEF Exactly, Exact
      <4>2. CASE k = Len(hist) + 1
        <5>1. k + 1 = seq /\ hist'[k] = o
          BY <1>0, <3>4, <3>5, <4>2
        <5> QED
          BY <2>1, <3>3, <5>1 DEF Exact
      <4> QED
        BY <1>0, <3>4, <4>1, <4>2
    <3> QED
      BY <2>1, <3>6 DEF Exactly
  <2>3. CASE tstate # "exitstop"
    BY <1>2, <1>6, <2>1, <2>3 DEF Resume, ResumeTarget
  <2> QED
    BY <2>2, <2>3
<1>7. CASE WaitDeath
  <2>1. PICK name \in ProcessNames : EmitProcess(name)
    BY <1>7 DEF WaitDeath, ProcessNames
  <2>2. hist' = hist /\ pc' \in {"exited", "signalled"}
    BY <1>7 DEF WaitDeath, ReapTarget
  <2>3. ProcessBody(name, seq + 1).seq = seq + 1
    BY DEF ProcessBody, Body
  <2>4. \A n \in 1 .. seq : events'[n] = events[n]
    BY <1>0, <2>1, <2>3, EmitAdds DEF EmitProcess
  <2> QED
    BY <1>1, <2>2, <2>4 DEF Exactly
<1>8. CASE WriteResult \/ WriteResultFails \/ WaitSignalStop \/ WaitSyscallStop
  BY <1>2, <1>8
  DEF WriteResult, WriteResultFails, WaitSignalStop, WaitSyscallStop, targetVars, diskVars,
      writerVars
<1>9. CASE AtEntry
  BY <1>2, <1>9 DEF AtEntry, targetVars, diskVars, writerVars, Control
<1>10. CASE AtExit
  <2>1. /\ hist' = hist /\ events' = events /\ seq' = seq /\ active' = active /\ in_syscall
        /\ pc = "stopped" /\ pc' = IF active = 0 THEN "emit" ELSE "inject"
        /\ UNCHANGED targetVars
    BY <1>10 DEF AtExit, targetVars, diskVars, writerVars
  <2>2. CASE active # 0
    BY <1>2, <2>1, <2>2
  <2>3. CASE active = 0
    <3>1. pc' = "emit" /\ EmittedRef' = NoRef
      BY <2>1, <2>3 DEF EmittedRef
    <3>2. ASSUME tstate = "exitstop"
          PROVE  PayloadLen(call, ret) = 0
      <4>1. Matched /\ entry = call
        BY <2>1, <3>2 DEF InPlace, SameCall, Alive, Stopped
      <4>2. cursor \in Nat /\ cursor + 1 # 0
        BY DEF TypeOK
      <4>3. call \notin PayloadCalls
        BY <2>3, <4>1, <4>2 DEF Matched
      <4> QED
        BY <4>3 DEF PayloadLen, PayloadCalls
    <3>3. tstate = "exitstop" => Exact(NoRef, Observation(call, ret, mem).data)
      BY <3>2, ExactNone
    <3>4. tstate' = "exitstop" => Exact(EmittedRef, Observation(call, ret, mem).data)'
      BY <2>1, <3>1, <3>3 DEF Exact, targetVars
    <3>5. \A k \in 1 .. Len(hist') : Exact(events[k + 1].body.payload_ref, hist[k].data)'
      BY <1>1, <2>1
    <3> QED
      BY <3>1, <3>4, <3>5 DEF Exactly
  <2> QED
    BY <2>2, <2>3
<1>11. CASE Inject
  <2> DEFINE k == Len(hist) + 1
             item == items[active]
             data == RecordedData(item.payload_ref)
  <2>1. /\ hist' = hist /\ events' = events /\ seq' = seq /\ active' = active /\ items' = items
        /\ pc = "inject" /\ pc' = "emit" /\ tstate' = tstate /\ call' = call
    BY <1>11 DEF Inject, writerVars, loadVars
  <2>5. tstate = "exitstop" => ret' = item.ret /\ mem' = Overlay(mem, data)
    BY <1>11, InjectReaches
  <2>2. ASSUME tstate = "exitstop"
        PROVE  Exact(EmittedRef, Observation(call, ret, mem).data)'
    <3>1. /\ active \in 1 .. Len(items) /\ k \in 1 .. Len(Original)
          /\ item = trace.lines[k + 1].body /\ Original[k].call = call
      <4>1. k + 1 = Len(hist) + 2
        BY <1>0
      <4>2. entry = call
        BY <2>1, <2>2 DEF SameCall, Control
      <4> QED
        BY <2>1, <4>1, <4>2, InjectStep
    <3>2. mem \in Seq(Byte)
      BY DEF TypeOK, TargetTypeOK
    <3>3. Observation(Original[k].call, item.ret, Overlay(mem, data)) = Original[k]
      <4> HIDE DEF k
      <4> QED
        BY <3>1, <3>2, InjectedIsRecorded
    <3>4. Observation(call', ret', mem') = Original[k]
      BY <2>1, <2>2, <2>5, <3>1, <3>3
    <3>5. Told(k) /\ Original \in Seq(ObservationType)
      BY <3>1, CoveredLines
    <3>6. item.payload_ref.length = Len(Original[k].data) /\ data = Original[k].data
      BY <3>1, <3>5 DEF Told
    <3>7. item.payload_ref.length > 0 => item.payload_ref.sha256 = data
      BY <3>1, CoveredReadable, DataRead
    <3>8. item.payload_ref \in RefType
      <4>1. item \in BodyType
        BY <3>1, ElementOfSeq DEF TypeOK
      <4> QED
        BY <4>1 DEF BodyType
    <3>9. EmittedRef' = IF item.payload_ref.length = 0 THEN NoRef
                        ELSE [item.payload_ref EXCEPT !.offset = Len(payload')]
      <4>1. active # 0
        BY <3>1
      <4> QED
        BY <2>1, <4>1 DEF EmittedRef
    <3> HIDE DEF item, data, k
    <3>10. CASE item.payload_ref.length = 0
      <4>1. Original[k].data \in Seq(Byte) /\ Len(Original[k].data) = 0
        BY <3>1, <3>5, <3>6, <3>10, ObservationData
      <4>2. Original[k].data = << >>
        BY <4>1, EmptySeq
      <4>3. EmittedRef' = NoRef
        BY <3>9, <3>10
      <4> QED
        BY <3>4, <4>2, <4>3, EmptySeq DEF Exact, NoRef, Ref
    <3>11. CASE item.payload_ref.length # 0
      <4>1. /\ EmittedRef'.length = item.payload_ref.length
            /\ EmittedRef'.sha256 = item.payload_ref.sha256
        BY <3>8, <3>9, <3>11 DEF RefType
      <4>2. item.payload_ref.length > 0
        BY <3>8, <3>11 DEF RefType
      <4> QED
        BY <3>4, <3>6, <3>7, <4>1, <4>2 DEF Exact
    <3> QED
      BY <3>10, <3>11
  <2> HIDE DEF item, data
  <2>3. \A n \in 1 .. Len(hist') : Exact(events[n + 1].body.payload_ref, hist[n].data)'
    BY <1>1, <2>1
  <2> QED
    BY <2>1, <2>2, <2>3 DEF Exactly
<1>12. CASE InjectFails
  <2>1. pc = "inject" /\ items[active].payload_ref.length > 0 /\ ~Readable(items[active].payload_ref)
    BY <1>12 DEF InjectFails
  <2> QED
    BY <2>1, InjectStep
<1>13. CASE EmitSyscall
  <2> DEFINE body == SyscallBody(entry, seq + 1, shown, EmittedRef)
  <2>1. body.seq = seq + 1 /\ Emit(body) /\ UNCHANGED targetVars /\ pc = "emit" /\ pc' = "resume"
        /\ body.payload_ref = EmittedRef
    BY <1>13 DEF EmitSyscall, SyscallBody, Body
  <2> HIDE DEF body
  <2>2. /\ seq' = seq + 1 /\ events'[seq + 1].body = body
        /\ \A n \in 1 .. seq : events'[n] = events[n]
    BY <1>0, <2>1, EmitAdds
  <2>3. \A k \in 1 .. Len(hist') : Exact(events[k + 1].body.payload_ref, hist[k].data)'
    BY <1>1, <2>1, <2>2 DEF targetVars
  <2>4. tstate' = "exitstop" => Exact(events[seq].body.payload_ref, Observation(call, ret, mem).data)'
    BY <2>1, <2>2 DEF Exactly, Exact, targetVars
  <2> QED
    BY <2>1, <2>3, <2>4 DEF Exactly
<1>14. CASE TargetMoves
  <2>1. /\ hist' = hist /\ seq' = seq /\ events' = events /\ pc' = pc
        /\ pc \in {"emit", "resume"} => tstate' # "exitstop"
    BY <1>14
    DEF TargetMoves, TargetNext, TargetRuns, EnterSyscall, KernelReturns, Exits, FaultStops,
        SignalStops, Interrupts, Killed, Control, Stopped, Alive, diskVars, writerVars
  <2> QED
    BY <1>2, <2>1
<1>15. CASE UNCHANGED vars
  BY <1>2, <1>15 DEF vars, targetVars, diskVars, loadVars, writerVars, loopVars
<1> QED
  BY <1>3, <1>4, <1>5, <1>6, <1>7, <1>8, <1>9, <1>10, <1>11, <1>12, <1>13, <1>14, <1>15
  DEF Next, ReplayerStep
(***************************************************************************)
(* The replayer's part of the invariant.                                    *)
(***************************************************************************)
ReplayInv ==
  /\ Inv
  /\ FromTrace /\ SameCall /\ ToTell /\ Counts /\ ToldSoFar
  /\ Framed /\ Ending /\ Closing /\ Modest
  /\ Covered /\ Reproducible /\ missed = {} => Exactly

\* The replayer begins in a new directory.
NewDirectory == events = << >> /\ result = NoResult

LEMMA ReplayInit ==
  ASSUME Begins, NewDirectory
  PROVE  ReplayInv
<1>1. TypeOK /\ Pending
  BY InitTyped
<1>2. /\ pc = "load" /\ tstate = "none" /\ hist = << >> /\ seq = 0 /\ cursor = 0
      /\ ~in_syscall /\ items = << >> /\ line = 0
  BY DEF Begins, TargetInit
<1>3. Len(hist) = 0 /\ Len(items) = 0 /\ Len(events) = 0
  BY <1>2, EmptySeq DEF NewDirectory
<1>4. Inv
  BY InitInv
<1>5. FromTrace /\ SameCall /\ ToTell /\ Counts /\ ToldSoFar
  BY <1>2, <1>3 DEF FromTrace, SameCall, ToTell, Counts, ToldSoFar, Exited
<1>6. Framed /\ Ending /\ Exactly /\ Closing /\ Modest
  BY <1>2, <1>3 DEF Framed, Ending, Exactly, Closing, Modest, NewDirectory, NoResult
<1> QED
  BY <1>4, <1>5, <1>6 DEF ReplayInv

LEMMA ReplayStep ==
  ASSUME ReplayInv, [Next]_vars
  PROVE  ReplayInv'
<1>1. TypeOK /\ Pending /\ Control /\ InCall /\ AtExitOnly
  BY DEF ReplayInv, Inv
<1>2. /\ FromTrace /\ SameCall /\ ToTell /\ Counts /\ ToldSoFar
      /\ Framed /\ Ending /\ Closing /\ Modest
  BY DEF ReplayInv
<1>3. Inv'
  BY InvStep DEF ReplayInv
<1>4. FromTrace' /\ SameCall' /\ ToTell' /\ Counts' /\ ToldSoFar'
  BY <1>1, <1>2, FromTraceStep, SameCallStep, ToTellStep, CountsStep, ToldStep
<1>5. Framed' /\ Ending' /\ Closing' /\ Modest'
  BY <1>1, <1>2, FramedStep, EndingStep, ClosingStep, ModestStep
<1>6. (Covered' => Covered) /\ (Reproducible' => Reproducible)
  BY <1>1, StepBack
<1>7. /\ Covered /\ Reproducible /\ missed = {} => LoadedSoFar /\ AsRecorded /\ InPlace /\ Exactly
      /\ missed' = {} => missed = {}
  BY MissedGrows DEF ReplayInv, Inv
<1>8. Covered' /\ Reproducible' /\ missed' = {} => Exactly'
  BY <1>1, <1>2, <1>6, <1>7, ExactStep
<1> QED
  BY <1>3, <1>4, <1>5, <1>8 DEF ReplayInv

(***************************************************************************)
(* A faithful replay.                                                       *)
(***************************************************************************)
\* When it has come to its end and every injection has reached the program, its lines are
\* those of the recording, but for the offsets of the payloads.
LEMMA SameLinesAsRecorded ==
  ASSUME ReplayInv, Covered, Reproducible, missed = {}, result.stored, result.signal = 0
  PROVE  /\ result.observed = Original
         /\ Len(events) = Len(trace.lines) /\ Len(events) >= 2
         /\ events[1].body.etype = "PROCESS" /\ trace.lines[1].body.etype = "PROCESS"
         /\ \A n \in 1 .. Len(events) :
              /\ events[n].body.etype \in {"PROCESS", "SYSCALL"}
              /\ events[n].body.etype = trace.lines[n].body.etype
              /\ events[n].body.name = trace.lines[n].body.name
              /\ events[n].body.ret = trace.lines[n].body.ret
              /\ Exact(events[n].body.payload_ref, trace.lines[n].body.payload_ref.sha256)
              /\ Exact(trace.lines[n].body.payload_ref, trace.lines[n].body.payload_ref.sha256)
<1> DEFINE h == Original
           N == Len(h) + 2
<1>1. /\ TypeOK /\ Exited /\ result.observed = hist /\ AsRecorded
      /\ Upcoming(hist) = "exit_group" /\ seq = Len(hist) + 2 /\ Len(events) = seq
      /\ ToldSoFar /\ Exactly /\ AtExitOnly
  BY DEF ReplayInv, Inv, Ending, AtExitOnly, Counts, Framed
<1>2. /\ h \in Seq(ObservationType) /\ Len(h) \in Nat /\ Len(hist) \in Nat
      /\ events \in Seq(LineType)
  BY <1>1, LenProperties, CoveredLines DEF TypeOK, TargetTypeOK
<1>3. hist = h
  <2>1. Len(hist) = Len(h)
    BY <1>1, <1>2, NextAsRecorded DEF AsRecorded
  <2> QED
    BY <1>1, <2>1, NextAsRecorded
<1>4. /\ Len(trace.lines) = N
      /\ trace.lines[1].body = ProcessBody("program_start", 1)
      /\ trace.lines[N].body = ProcessBody("program_exit", N)
      /\ \A k \in 1 .. Len(h) :
           trace.lines[k + 1].body = SyscallBody(h[k].call, k + 1, h[k].ret, RecordedRef(h, k))
  <2>1. trace.lines = RecordedLines(h)
    BY DEF Covered, RecordedTrace
  <2> HIDE DEF h
  <2> QED
    BY <1>2, <2>1, RecordedBody
<1>5. Len(events) = N /\ seq = N /\ N >= 2 /\ N \in Nat
  BY <1>1, <1>2, <1>3
<1>6. events[1].body = ProcessBody("program_start", 1)
  BY <1>1, <1>5 DEF ReplayInv, Framed
<1>7. events[N].body = ProcessBody("program_exit", N)
  <2>1. OwnLines = SubSeq(events, 1, N)
    BY <1>5 DEF OwnLines
  <2>2. \A i \in 1 .. N : events[i] \in LineType
    BY <1>2, <1>5, ElementOfSeq
  <2>3. N \in 1 .. N - 1 + 1 /\ 1 + N - 1 = N
    BY <1>5
  <2> HIDE DEF N
  <2>4. SubSeq(events, 1, N)[N] = events[N]
    BY <1>5, <2>2, <2>3, SubSeqProperties
  <2> QED
    BY <1>1, <1>5, <2>1, <2>4 DEF Exited
<1>8. PayloadsReadable /\ RefsFit
  <2>1. PayloadsReadable
    BY <1>1, CoveredReadable
  <2> QED
    BY <1>1, <2>1, CoveredFits
<1>9. ASSUME NEW k \in 1 .. Len(h)
      PROVE  LET own == events[k + 1].body
                 told == trace.lines[k + 1].body
             IN  /\ own.etype = "SYSCALL" /\ own.name = h[k].call /\ own.ret = h[k].ret
                 /\ told.etype = "SYSCALL" /\ told.name = h[k].call /\ told.ret = h[k].ret
                 /\ Exact(own.payload_ref, h[k].data)
                 /\ Exact(told.payload_ref, h[k].data)
                 /\ told.payload_ref.sha256 = h[k].data
  <2>1. Own(k + 1) = events[k + 1].body
    BY <1>1, <1>2, <1>5 DEF Own
  <2>2. Tells(k + 1, Own(k + 1), h[k])
    BY <1>1, <1>3 DEF ToldSoFar
  <2>3. Exact(events[k + 1].body.payload_ref, h[k].data)
    BY <1>1, <1>3 DEF Exactly
  <2>4. trace.lines[k + 1].body = SyscallBody(h[k].call, k + 1, h[k].ret, RecordedRef(h, k))
    BY <1>4
  <2>5. RecordedRef(h, k).length = Len(h[k].data) /\ RecordedRef(h, k).sha256 = h[k].data
    BY <1>2, RecordedRefTells
  <2> QED
    BY <2>1, <2>2, <2>3, <2>4, <2>5 DEF Tells, Exact, SyscallBody, Body
<1>10. ASSUME NEW n \in 1 .. N
       PROVE  /\ events[n].body.etype \in {"PROCESS", "SYSCALL"}
              /\ events[n].body.etype = trace.lines[n].body.etype
              /\ events[n].body.name = trace.lines[n].body.name
              /\ events[n].body.ret = trace.lines[n].body.ret
              /\ Exact(events[n].body.payload_ref, trace.lines[n].body.payload_ref.sha256)
              /\ Exact(trace.lines[n].body.payload_ref, trace.lines[n].body.payload_ref.sha256)
  <2>1. CASE n = 1 \/ n = N
    <3>1. PICK name \in ProcessNames :
            events[n].body = ProcessBody(name, n) /\ trace.lines[n].body = ProcessBody(name, n)
      BY <1>4, <1>6, <1>7, <2>1 DEF ProcessNames
    <3>2. /\ ProcessBody(name, n).payload_ref = NoRef
          /\ ProcessBody(name, n).etype = "PROCESS"
      BY DEF ProcessBody, Body
    <3>3. NoRef.length = 0 /\ NoRef.sha256 = << >> /\ Len(<< >>) = 0
      BY EmptySeq DEF NoRef, Ref
    <3> QED
      BY <3>1, <3>2, <3>3 DEF Exact
  <2>2. CASE n # 1 /\ n # N
    <3>1. PICK k \in 1 .. Len(h) : n = k + 1
      <4>1. n - 1 \in 1 .. Len(h) /\ (n - 1) + 1 = n
        BY <1>2, <2>2
      <4> QED
        BY <4>1
    <3> HIDE DEF N, h
    <3>2. LET own == events[n].body
              told == trace.lines[n].body
          IN  /\ own.etype = "SYSCALL" /\ own.name = h[k].call /\ own.ret = h[k].ret
              /\ told.etype = "SYSCALL" /\ told.name = h[k].call /\ told.ret = h[k].ret
              /\ Exact(own.payload_ref, h[k].data)
              /\ Exact(told.payload_ref, h[k].data)
              /\ told.payload_ref.sha256 = h[k].data
      BY <1>9, <3>1
    <3> QED
      BY <3>2
  <2> QED
    BY <2>1, <2>2
<1>11. events[1].body.etype = "PROCESS" /\ trace.lines[1].body.etype = "PROCESS"
  BY <1>4, <1>6 DEF ProcessBody, Body
<1> QED
  BY <1>1, <1>3, <1>4, <1>5, <1>10, <1>11
\* And the verifier passes it.
LEMMA FaithfulPasses ==
  ASSUME ReplayInv, Covered, Reproducible, missed = {}, result.stored, result.signal = 0
  PROVE  LET a == LoadEvents(trace.lines)
             b == LoadEvents(events)
         IN  Verdict(Checks(trace.result, result, a, b)) = "pass"
<1> DEFINE a == LoadEvents(trace.lines)
           b == LoadEvents(events)
           N == Len(events)
<1>1. /\ result.observed = Original
      /\ Len(trace.lines) = N /\ N >= 2 /\ N \in Nat
      /\ events[1].body.etype = "PROCESS" /\ trace.lines[1].body.etype = "PROCESS"
      /\ events \in Seq(LineType) /\ trace.lines \in Seq(LineType)
      /\ DOMAIN events = 1 .. N /\ DOMAIN trace.lines = 1 .. N
  BY SameLinesAsRecorded, LenProperties DEF ReplayInv, Inv, TypeOK, DirectoryType
<1>2. ASSUME NEW n \in 1 .. N
      PROVE  LET own == events[n].body
                 told == trace.lines[n].body
             IN  /\ own.etype \in {"PROCESS", "SYSCALL"} /\ own.etype = told.etype
                 /\ own.name = told.name /\ own.ret = told.ret
                 /\ own.payload_ref.length = told.payload_ref.length
                 /\ own.payload_ref.sha256 = told.payload_ref.sha256
  BY <1>2, SameLinesAsRecorded DEF Exact
<1>3. \A n \in 1 .. N :
        /\ IsChecked(trace.lines[n].body) <=> IsChecked(events[n].body)
        /\ Comparable(trace.lines[n].body) = Comparable(events[n].body)
        /\ Decodable(trace.lines[n]) <=> Decodable(events[n])
  <2> HIDE DEF N
  <2> SUFFICES ASSUME NEW n \in 1 .. N
               PROVE  /\ IsChecked(trace.lines[n].body) <=> IsChecked(events[n].body)
                      /\ Comparable(trace.lines[n].body) = Comparable(events[n].body)
                      /\ Decodable(trace.lines[n]) <=> Decodable(events[n])
    OBVIOUS
  <2> QED
    BY <1>2 DEF IsChecked, Comparable, Decodable
<1>4. /\ a \in Seq(EventType) /\ b \in Seq(EventType) /\ Len(a) = Len(b)
      /\ \A i \in 1 .. Len(a) :
           /\ IsChecked(a[i]) <=> IsChecked(b[i])
           /\ IsChecked(a[i]) => Comparable(a[i]) = Comparable(b[i])
      /\ \A i \in DOMAIN b : b[i].etype # "DRIFT"
  <2>1. a \in Seq(EventType) /\ b \in Seq(EventType)
    BY <1>1, EventsLoaded
  <2>2. /\ Len(a) \in Nat /\ DOMAIN a = 1 .. Len(a)
        /\ Len(b) \in Nat /\ DOMAIN b = 1 .. Len(b)
    BY <2>1, LenProperties
  <2>3. CASE TargetQuoted
    <3>1. ~Decodable(trace.lines[1]) /\ ~Decodable(events[1])
      BY <1>1, <2>3 DEF Decodable
    <3>2. a = [i \in 1 .. 1 |-> TraceError(1)] /\ b = [i \in 1 .. 1 |-> TraceError(1)]
      <4>1. 1 \in 1 .. N
        BY <1>1
      <4> QED
        BY <1>1, <3>1, <4>1, EventsLoaded
    <3> HIDE DEF a, b
    <3>3. a = b /\ DOMAIN b = 1 .. 1 /\ b[1] = TraceError(1)
      BY <3>2
    <3>4. TraceError(1).etype # "DRIFT"
      BY DEF TraceError, Body
    <3> QED
      BY <2>1, <3>3, <3>4
  <2>4. CASE ~TargetQuoted
    <3>1. /\ \A n \in DOMAIN trace.lines : Decodable(trace.lines[n])
          /\ \A n \in DOMAIN events : Decodable(events[n])
      BY <2>4 DEF Decodable
    <3>2. a = [i \in 1 .. N |-> trace.lines[i].body] /\ b = [i \in 1 .. N |-> events[i].body]
      BY <1>1, <3>1, EventsLoaded
    <3> HIDE DEF a, b, N
    <3>3. DOMAIN a = 1 .. N /\ DOMAIN b = 1 .. N
      BY <3>2
    <3>4. Len(a) = N /\ Len(b) = N
      BY <1>1, <2>1, <3>3, LenProperties
    <3>5. \A i \in 1 .. N : a[i] = trace.lines[i].body /\ b[i] = events[i].body
      BY <3>2
    <3>6. \A i \in 1 .. N : events[i].body.etype # "DRIFT"
      <4> SUFFICES ASSUME NEW i \in 1 .. N
                   PROVE  events[i].body.etype # "DRIFT"
        OBVIOUS
      <4> QED
        BY <1>2
    <3> QED
      BY <1>3, <2>1, <3>3, <3>4, <3>5, <3>6
  <2> QED
    BY <2>3, <2>4
<1> HIDE DEF a, b
<1>5. FirstSequenceMismatch(a, b) = 0
  <2> DEFINE ca == CheckedEvents(a)
             cb == CheckedEvents(b)
  <2>1. Len(ca) = Len(cb) /\ \A i \in 1 .. Len(ca) : Comparable(ca[i]) = Comparable(cb[i])
    BY <1>4, CheckedAlike
  <2>2. PICK f \in [0 .. Len(a) -> Seq(EventType)] : ca = f[Len(a)]
    BY <1>4, CheckedKept
  <2>3. Len(ca) \in Nat
    <3>1. Len(a) \in 0 .. Len(a)
      BY <1>4, LenProperties
    <3> QED
      BY <2>2, <3>1, LenProperties
  <2> HIDE DEF ca, cb
  <2>4. Differences(ca, cb) = {}
    BY <2>1, <2>3 DEF Differences, Limit
  <2>5. FirstDifference(ca, cb) = 0
    BY <2>1, <2>4 DEF FirstDifference
  <2> QED
    BY <2>5 DEF FirstSequenceMismatch, ca, cb
<1>6. Outcome(trace.result) = Outcome(result)
  <2>1. trace.result = [stored |-> TRUE, signal |-> 0, observed |-> Original]
    BY DEF Covered, RecordedTrace
  <2> QED
    BY <1>1, <2>1 DEF Outcome
<1> DEFINE checks == Checks(trace.result, result, a, b)
<1>7. /\ DOMAIN checks = {"exit_code", "stdout_hash", "stderr_hash", "event_sequence"}
      /\ checks.exit_code /\ checks.stdout_hash /\ checks.stderr_hash /\ checks.event_sequence
  BY <1>4, <1>5, <1>6 DEF Checks
<1> HIDE DEF checks
<1>8. \A c \in DOMAIN checks : checks[c]
  BY <1>7
<1>9. Verdict(checks) = "pass"
  BY <1>8 DEF Verdict
<1> QED
  BY <1>9 DEF checks, a, b
(***************************************************************************)
(* The verdict.                                                             *)
(***************************************************************************)
\* It is given when the replayer is over, and it is about what the files hold still.
Judged ==
  /\ report # "none" => pc \in Over
  /\ report \in {"pass", "fail"} =>
       LET a == LoadEvents(trace.lines)
           b == LoadEvents(events)
       IN  /\ trace.result.stored /\ result.stored
           /\ report = Verdict(Checks(trace.result, result, a, b))
           /\ mismatch = FirstSequenceMismatch(a, b)

LEMMA JudgedStep ==
  ASSUME TypeOK, Control, Judged, [SessionNext]_sessionVars
  PROVE  Judged'
<1>1. CASE Verify
  <2>1. /\ trace' = trace /\ events' = events /\ result' = result /\ pc' = pc /\ pc \in Over
        /\ \/ report' = "error"
           \/ LET a == LoadEvents(trace.lines)
                  b == LoadEvents(events)
              IN  /\ trace.result.stored /\ result.stored
                  /\ report' = Verdict(Checks(trace.result, result, a, b))
                  /\ mismatch' = FirstSequenceMismatch(a, b)
    BY <1>1 DEF Verify, vars, diskVars, loadVars
  <2> QED
    BY <2>1 DEF Judged
<1>2. CASE [Next]_vars /\ UNCHANGED << report, mismatch >>
  <2>1. pc \in Over => pc' = pc /\ trace' = trace /\ events' = events /\ result' = result
    BY <1>2, ClosedStays
  <2> QED
    BY <1>2, <2>1 DEF Judged
<1> QED
  BY <1>1, <1>2 DEF SessionNext, Replay, sessionVars

\* The two sequences that are compared, event by event.
LEMMA ComparedAt ==
  ASSUME NEW lines \in Seq(LineType)
  PROVE  LET checked == CheckedEvents(LoadEvents(lines))
         IN  /\ checked \in Seq(EventType) /\ Len(checked) \in Nat
             /\ DOMAIN ComparedEvents(lines) = 1 .. Len(checked)
             /\ \A i \in 1 .. Len(checked) : ComparedEvents(lines)[i] = Comparable(checked[i])
<1> DEFINE checked == CheckedEvents(LoadEvents(lines))
<1>1. checked \in Seq(EventType)
  BY EventsLoaded, CheckedFrom
<1>2. ComparedEvents(lines) = [i \in DOMAIN checked |-> Comparable(checked[i])]
  BY DEF ComparedEvents
<1> HIDE DEF checked
<1>3. Len(checked) \in Nat /\ DOMAIN checked = 1 .. Len(checked)
  BY <1>1, LenProperties
<1>4. /\ DOMAIN ComparedEvents(lines) = 1 .. Len(checked)
      /\ \A i \in 1 .. Len(checked) : ComparedEvents(lines)[i] = Comparable(checked[i])
  BY <1>2, <1>3
<1> QED
  BY <1>1, <1>3, <1>4 DEF checked

LEMMA JudgedFirst ==
  ASSUME TypeOK, Judged
  PROVE  MismatchIsFirst
<1> DEFINE a == ComparedEvents(trace.lines)
           b == ComparedEvents(events)
           ca == CheckedEvents(LoadEvents(trace.lines))
           cb == CheckedEvents(LoadEvents(events))
<1> SUFFICES ASSUME report \in {"pass", "fail"}
             PROVE  IF a = b THEN mismatch = 0
                    ELSE /\ mismatch # 0
                         /\ \A i \in 1 .. mismatch - 1 : i \in DOMAIN a \cap DOMAIN b /\ a[i] = b[i]
                         /\ mismatch \in DOMAIN a \cap DOMAIN b => a[mismatch] # b[mismatch]
  BY DEF MismatchIsFirst
<1>1. trace.lines \in Seq(LineType) /\ events \in Seq(LineType)
  BY DEF TypeOK, DirectoryType
<1>2. /\ ca \in Seq(EventType) /\ Len(ca) \in Nat /\ DOMAIN a = 1 .. Len(ca)
      /\ \A i \in 1 .. Len(ca) : a[i] = Comparable(ca[i])
  BY <1>1, ComparedAt
<1>3. /\ cb \in Seq(EventType) /\ Len(cb) \in Nat /\ DOMAIN b = 1 .. Len(cb)
      /\ \A i \in 1 .. Len(cb) : b[i] = Comparable(cb[i])
  BY <1>1, ComparedAt
<1>4. mismatch = FirstDifference(ca, cb)
  BY DEF Judged, FirstSequenceMismatch
<1>5. a = [i \in DOMAIN a |-> a[i]] /\ b = [i \in DOMAIN b |-> b[i]]
  BY DEF ComparedEvents
<1> HIDE DEF a, b, ca, cb
<1>6. \/ /\ mismatch = 0
         /\ Len(ca) = Len(cb)
         /\ \A i \in 1 .. Len(ca) : Comparable(ca[i]) = Comparable(cb[i])
      \/ /\ mismatch \in Nat \ {0}
         /\ \A i \in 1 .. mismatch - 1 :
              i <= Len(ca) /\ i <= Len(cb) /\ Comparable(ca[i]) = Comparable(cb[i])
         /\ \/ mismatch > Len(ca) /\ mismatch <= Len(cb)
            \/ mismatch > Len(cb) /\ mismatch <= Len(ca)
            \/ /\ mismatch <= Len(ca) /\ mismatch <= Len(cb)
               /\ Comparable(ca[mismatch]) # Comparable(cb[mismatch])
  BY <1>2, <1>3, <1>4, FirstDifferenceFirst
<1>7. CASE mismatch = 0
  <2>1. DOMAIN a = DOMAIN b /\ \A i \in DOMAIN a : a[i] = b[i]
    BY <1>2, <1>3, <1>6, <1>7
  <2>2. a = b
    BY <1>5, <2>1
  <2> QED
    BY <1>7, <2>2
<1>8. CASE mismatch # 0
  <2>1. mismatch \in Nat \ {0}
    BY <1>6, <1>8
  <2>2. \A i \in 1 .. mismatch - 1 : i \in DOMAIN a \cap DOMAIN b /\ a[i] = b[i]
    <3> SUFFICES ASSUME NEW i \in 1 .. mismatch - 1
                 PROVE  i \in DOMAIN a \cap DOMAIN b /\ a[i] = b[i]
      OBVIOUS
    <3>1. i <= Len(ca) /\ i <= Len(cb) /\ Comparable(ca[i]) = Comparable(cb[i])
      BY <1>6, <1>8
    <3>2. i \in 1 .. Len(ca) /\ i \in 1 .. Len(cb)
      BY <1>2, <1>3, <2>1, <3>1
    <3> QED
      BY <1>2, <1>3, <3>1, <3>2
  <2>3. \/ mismatch \in DOMAIN b /\ mismatch \notin DOMAIN a
        \/ mismatch \in DOMAIN a /\ mismatch \notin DOMAIN b
        \/ /\ mismatch \in DOMAIN a \cap DOMAIN b
           /\ a[mismatch] # b[mismatch]
    <3>1. CASE mismatch > Len(ca) /\ mismatch <= Len(cb)
      BY <1>2, <1>3, <2>1, <3>1
    <3>2. CASE mismatch > Len(cb) /\ mismatch <= Len(ca)
      BY <1>2, <1>3, <2>1, <3>2
    <3>3. CASE /\ mismatch <= Len(ca) /\ mismatch <= Len(cb)
               /\ Comparable(ca[mismatch]) # Comparable(cb[mismatch])
      <4>1. mismatch \in 1 .. Len(ca) /\ mismatch \in 1 .. Len(cb)
        BY <1>2, <1>3, <2>1, <3>3
      <4> QED
        BY <1>2, <1>3, <3>3, <4>1
    <3> QED
      BY <1>6, <1>8, <3>1, <3>2, <3>3
  <2>4. a # b
    BY <2>3
  <2> QED
    BY <1>8, <2>2, <2>3, <2>4
<1> QED
  BY <1>7, <1>8

(***************************************************************************)
(* What a pass tells.                                                       *)
(***************************************************************************)
\* A verdict and its checks.
LEMMA VerdictTells ==
  ASSUME NEW a, NEW b, NEW checks, checks = Checks(trace.result, result, a, b)
  PROVE  /\ Verdict(checks) = "pass" =>
              /\ FirstSequenceMismatch(a, b) = 0 /\ checks.stdout_hash
              /\ Outcome(trace.result).exit_code = Outcome(result).exit_code
         /\ checks.stdout_hash <=> Outcome(trace.result).stdout = Outcome(result).stdout
<1> DEFINE drifts == \A i \in DOMAIN b : b[i].etype # "DRIFT"
<1>1. /\ DOMAIN checks = {"exit_code", "stdout_hash", "stderr_hash", "event_sequence"}
      /\ checks.event_sequence = (FirstSequenceMismatch(a, b) = 0 /\ drifts)
      /\ checks.exit_code = (Outcome(trace.result).exit_code = Outcome(result).exit_code)
      /\ checks.stdout_hash = (Outcome(trace.result).stdout = Outcome(result).stdout)
  BY DEF Checks
<1>2. Verdict(checks) = "pass" => \A c \in DOMAIN checks : checks[c]
  BY DEF Verdict
<1> QED
  BY <1>1, <1>2

\* The line of each recorded result.
LEMMA Transcribed ==
  ASSUME TypeOK, Transcribes(trace.lines, Original)
  PROVE  /\ RefsFit
         /\ \E at \in [1 .. Len(Original) -> 1 .. Len(trace.lines)] :
              /\ \A k, l \in 1 .. Len(Original) : k < l => at[k] < at[l]
              /\ \A k \in 1 .. Len(Original) : Telling(trace.lines[at[k]].body, Original[k])
              /\ \A n \in 1 .. Len(trace.lines) : trace.lines[n].body.etype = "SYSCALL" =>
                   \E k \in 1 .. Len(Original) : at[k] = n
<1> DEFINE told == {n \in DOMAIN trace.lines : trace.lines[n].body.etype = "SYSCALL"}
<1>1. /\ DOMAIN trace.lines = 1 .. Len(trace.lines)
      /\ Original \in Seq(ObservationType) /\ DOMAIN Original = 1 .. Len(Original)
  BY LenProperties DEF TypeOK, DirectoryType, ResultType, Original
<1>2. /\ \A n \in DOMAIN trace.lines \ told : trace.lines[n].body.payload_ref = NoRef
      /\ \E at \in [DOMAIN Original -> told] :
           /\ \A k, l \in DOMAIN Original : k < l => at[k] < at[l]
           /\ \A n \in told : \E k \in DOMAIN Original : at[k] = n
           /\ \A k \in DOMAIN Original : Telling(trace.lines[at[k]].body, Original[k])
  BY Zenon DEF Transcribes, Original
<1>3. PICK at \in [DOMAIN Original -> told] :
        /\ \A k, l \in DOMAIN Original : k < l => at[k] < at[l]
        /\ \A n \in told : \E k \in DOMAIN Original : at[k] = n
        /\ \A k \in DOMAIN Original : Telling(trace.lines[at[k]].body, Original[k])
  BY <1>2
<1>4. RefsFit
  <2> SUFFICES ASSUME NEW n \in DOMAIN trace.lines, trace.lines[n].body.payload_ref.length > 0
               PROVE  trace.lines[n].body.payload_ref.length
                        = PayloadLen(trace.lines[n].body.name, trace.lines[n].body.ret)
    BY DEF RefsFit
  <2>1. NoRef.length = 0
    BY EmptySeq DEF NoRef, Ref
  <2>2. n \in told
    BY <1>2, <2>1
  <2>3. PICK k \in DOMAIN Original : at[k] = n
    BY <1>3, <2>2
  <2> QED
    BY <1>3, <2>3 DEF Telling
<1>5. at \in [1 .. Len(Original) -> 1 .. Len(trace.lines)]
  BY <1>1
<1>6. \A n \in 1 .. Len(trace.lines) : trace.lines[n].body.etype = "SYSCALL" => n \in told
  BY <1>1
<1> HIDE DEF told
<1> QED
  BY <1>1, <1>3, <1>4, <1>5, <1>6

\* A line of the replay that compares equal to a recorded result's tells of the same
\* syscall, and unless its injection was missed of the same result.
LEMMA ComparedSame ==
  ASSUME TypeOK, Framed, ToldSoFar, Modest, PayloadsReadable, RefsFit,
         NEW o \in ObservationType, NEW told, Telling(told, o),
         NEW n \in 1 .. Len(hist), n + 1 <= seq,
         Comparable(told) = Comparable(events[n + 1].body)
  PROVE  hist[n].call = o.call /\ (n + 1 \notin missed => hist[n] = o)
<1> DEFINE own == events[n + 1].body
<1>1. /\ hist \in Seq(ObservationType) /\ Len(hist) \in Nat /\ hist[n] \in ObservationType
      /\ n \in Nat /\ seq \in Nat /\ Len(events) = seq
  BY ElementOfSeq, LenProperties DEF TypeOK, TargetTypeOK, Framed
<1>2. n + 1 \in 1 .. Len(events)
  BY <1>1
<1>3. own = Own(n + 1)
  BY <1>1 DEF Own
<1>4. own.payload_ref \in RefType
  <2>1. events[n + 1] \in LineType
    BY <1>2, ElementOfSeq DEF TypeOK
  <2> QED
    BY <2>1 DEF LineType, BodyType
<1>5. /\ own.name = hist[n].call
      /\ n + 1 \notin missed =>
           /\ own.ret = hist[n].ret
           /\ own.payload_ref.length > 0 => own.payload_ref.sha256 = hist[n].data
      /\ own.payload_ref.length = 0 => own.payload_ref.sha256 = << >>
      /\ Len(hist[n].data) <= PayloadLen(hist[n].call, hist[n].ret)
  BY <1>2, <1>3 DEF ToldSoFar, Tells, Modest, Plain
<1>6. told.name = own.name /\ told.ret = own.ret /\ told.payload_ref.sha256 = own.payload_ref.sha256
  BY DEF Comparable
<1> HIDE DEF own
<1>7. hist[n].call = o.call /\ (n + 1 \notin missed => hist[n].ret = o.ret)
  BY <1>5, <1>6 DEF Telling
<1>8. ASSUME n + 1 \notin missed
      PROVE  hist[n].data = o.data
  <2>1. CASE own.payload_ref.length > 0
    BY <1>5, <1>6, <1>8, <2>1 DEF Telling
  <2>2. CASE own.payload_ref.length = 0
    <3>1. o.data = << >>
      BY <1>5, <1>6, <2>2 DEF Telling
    <3>2. Len(o.data) = 0 /\ Len(o.data) = PayloadLen(o.call, o.ret)
      BY <3>1, EmptySeq DEF Telling
    <3>3. hist[n].data \in Seq(Byte)
      BY <1>1 DEF ObservationType
    <3>4. Len(hist[n].data) = 0
      BY <1>5, <1>7, <1>8, <3>2, <3>3, LenProperties
    <3> QED
      BY <3>1, <3>3, <3>4, EmptySeq
  <2> QED
    BY <1>4, <2>1, <2>2 DEF RefType
<1>9. \A x, y \in ObservationType :
        x.call = y.call /\ x.ret = y.ret /\ x.data = y.data => x = y
  BY DEF ObservationType
<1> QED
  BY <1>1, <1>7, <1>8, <1>9

\* Where each recorded result that is looked at is in the replay, if the checked events
\* of the two files compare equal.
LEMMA SeenAgain ==
  ASSUME TypeOK, Framed, ToldSoFar, Modest, PayloadsReadable, ~TargetQuoted,
         Transcribes(trace.lines, Original),
         seq = Len(hist) + 2, events[seq].body.etype = "PROCESS",
         LET a == CheckedEvents(LoadEvents(trace.lines))
             b == CheckedEvents(LoadEvents(events))
         IN  Len(a) = Len(b) /\ \A i \in 1 .. Len(a) : Comparable(a[i]) = Comparable(b[i])
  PROVE  \E at \in [Seen(Original) -> DOMAIN hist] :
           /\ \A k, l \in Seen(Original) : k < l => at[k] < at[l]
           /\ \A k \in Seen(Original) :
                /\ hist[at[k]].call = Original[k].call
                /\ at[k] + 1 \notin missed => hist[at[k]] = Original[k]
           /\ \A n \in DOMAIN hist : hist[n].call \in {"getrandom"} \cup TimeCalls =>
                \E k \in Seen(Original) : at[k] = n
<1> DEFINE a == LoadEvents(trace.lines)
           b == LoadEvents(events)
           ca == CheckedEvents(a)
           cb == CheckedEvents(b)
           h == Original
<1>1. /\ Len(hist) \in Nat /\ DOMAIN hist = 1 .. Len(hist)
      /\ h \in Seq(ObservationType) /\ Len(h) \in Nat /\ DOMAIN h = 1 .. Len(h)
      /\ trace.lines \in Seq(LineType) /\ events \in Seq(LineType)
      /\ Len(trace.lines) \in Nat /\ DOMAIN trace.lines = 1 .. Len(trace.lines)
      /\ Len(events) = seq /\ seq \in Nat /\ DOMAIN events = 1 .. seq
  BY LenProperties DEF TypeOK, TargetTypeOK, DirectoryType, ResultType, Original, Framed
<1>2. /\ \A n \in 1 .. Len(trace.lines) : trace.lines[n].body \in BodyType
      /\ \A n \in 1 .. seq : events[n].body \in BodyType
  <2>1. /\ \A n \in 1 .. Len(trace.lines) : trace.lines[n] \in LineType
        /\ \A n \in 1 .. seq : events[n] \in LineType
    BY <1>1, ElementOfSeq
  <2> QED
    BY <2>1 DEF LineType
<1>3. /\ a \in Seq(EventType) /\ Len(a) = Len(trace.lines)
      /\ \A n \in 1 .. Len(trace.lines) : a[n] = trace.lines[n].body
      /\ b \in Seq(EventType) /\ Len(b) = seq
      /\ \A n \in 1 .. seq : b[n] = events[n].body
  <2>1. /\ a \in Seq(EventType) /\ a = [i \in DOMAIN trace.lines |-> trace.lines[i].body]
        /\ b \in Seq(EventType) /\ b = [i \in DOMAIN events |-> events[i].body]
    BY <1>1, EventsLoaded DEF Decodable
  <2> HIDE DEF a, b
  <2>2. DOMAIN a = 1 .. Len(trace.lines) /\ DOMAIN b = 1 .. seq
    BY <1>1, <2>1
  <2>3. Len(a) = Len(trace.lines) /\ Len(b) = seq
    BY <1>1, <2>1, <2>2, LenProperties
  <2> QED
    BY <1>1, <2>1, <2>3
<1>4. Len(ca) = Len(cb) /\ \A i \in 1 .. Len(ca) : Comparable(ca[i]) = Comparable(cb[i])
  OBVIOUS
<1>5. PICK ra : Ranks(ra, a)
  BY <1>3, CheckedRanks
<1>6. PICK rb : Ranks(rb, b)
  BY <1>3, CheckedRanks
<1> HIDE DEF a, b
<1>7. /\ ra \in [Looked(a) -> 1 .. Len(ca)]
      /\ \A k, l \in Looked(a) : k < l => ra[k] < ra[l]
      /\ \A i \in 1 .. Len(ca) : \E k \in Looked(a) : ra[k] = i
      /\ \A k \in Looked(a) : ca[ra[k]] = a[k]
  BY <1>5 DEF Ranks
<1>8. /\ rb \in [Looked(b) -> 1 .. Len(ca)]
      /\ \A k, l \in Looked(b) : k < l => rb[k] < rb[l]
      /\ \A i \in 1 .. Len(ca) : \E k \in Looked(b) : rb[k] = i
      /\ \A k \in Looked(b) : cb[rb[k]] = b[k]
  BY <1>4, <1>6 DEF Ranks
<1> HIDE DEF ca, cb
<1>9. \A n \in Looked(a), m \in Looked(b) : ra[n] = rb[m] => Comparable(a[n]) = Comparable(b[m])
  BY <1>4, <1>7, <1>8
<1>10. /\ RefsFit
       /\ \E at \in [1 .. Len(h) -> 1 .. Len(trace.lines)] :
            /\ \A k, l \in 1 .. Len(h) : k < l => at[k] < at[l]
            /\ \A k \in 1 .. Len(h) : Telling(trace.lines[at[k]].body, h[k])
            /\ \A n \in 1 .. Len(trace.lines) : trace.lines[n].body.etype = "SYSCALL" =>
                 \E k \in 1 .. Len(h) : at[k] = n
  BY Transcribed
<1>11. PICK at \in [1 .. Len(h) -> 1 .. Len(trace.lines)] :
            /\ \A k, l \in 1 .. Len(h) : k < l => at[k] < at[l]
            /\ \A k \in 1 .. Len(h) : Telling(trace.lines[at[k]].body, h[k])
            /\ \A n \in 1 .. Len(trace.lines) : trace.lines[n].body.etype = "SYSCALL" =>
                 \E k \in 1 .. Len(h) : at[k] = n
  BY <1>10
<1>12. \A k : k \in Seen(h) <=>
         /\ k \in 1 .. Len(h) /\ h[k].call \in PayloadCalls
         /\ h[k].call = "read" => Len(h[k].data) \in 1 .. MaxReadLen
  BY <1>1 DEF Seen
<1> HIDE DEF h
\* They are checked, and what is checked in the replay is a result of its own.
<1>13. \A k \in Seen(h) : at[k] \in Looked(a)
  <2> SUFFICES ASSUME NEW k \in Seen(h)
               PROVE  at[k] \in Looked(a)
    OBVIOUS
  <2>1. /\ k \in 1 .. Len(h) /\ at[k] \in 1 .. Len(a) /\ Telling(a[at[k]], h[k])
    BY <1>3, <1>11, <1>12
  <2>2. IsChecked(a[at[k]])
    BY <1>12, <2>1 DEF IsChecked, Telling, PayloadCalls
  <2> QED
    BY <2>1, <2>2 DEF Looked
<1>14. \A m \in Looked(b) : m - 1 \in 1 .. Len(hist) /\ (m - 1) + 1 = m
  <2> SUFFICES ASSUME NEW m \in Looked(b)
               PROVE  m - 1 \in 1 .. Len(hist) /\ (m - 1) + 1 = m
    OBVIOUS
  <2>1. m \in 1 .. seq /\ IsChecked(events[m].body)
    BY <1>3 DEF Looked
  <2>2. events[1].body.etype = "PROCESS"
    <3>1. seq >= 1
      BY <1>1
    <3> QED
      BY <3>1 DEF Framed, ProcessBody, Body
  <2>3. m # 1 /\ m # seq
    BY <2>1, <2>2 DEF IsChecked
  <2> QED
    BY <1>1, <2>1, <2>3
<1> DEFINE Again(k, n) == n + 1 \in Looked(b) /\ rb[n + 1] = ra[at[k]]
           place == [k \in Seen(h) |-> CHOOSE n \in 1 .. Len(hist) : Again(k, n)]
<1>15. \A k \in Seen(h) : place[k] \in 1 .. Len(hist) /\ Again(k, place[k])
  <2> SUFFICES ASSUME NEW k \in Seen(h)
               PROVE  place[k] \in 1 .. Len(hist) /\ Again(k, place[k])
    OBVIOUS
  <2>1. PICK m \in Looked(b) : rb[m] = ra[at[k]]
    BY <1>7, <1>8, <1>13
  <2>2. m - 1 \in 1 .. Len(hist) /\ Again(k, m - 1)
    BY <1>14, <2>1
  <2> HIDE DEF Again
  <2> QED
    BY <2>2
<1> HIDE DEF place
<1>16. \A k \in Seen(h) :
         /\ hist[place[k]].call = h[k].call
         /\ place[k] + 1 \notin missed => hist[place[k]] = h[k]
  <2> SUFFICES ASSUME NEW k \in Seen(h)
               PROVE  /\ hist[place[k]].call = h[k].call
                      /\ place[k] + 1 \notin missed => hist[place[k]] = h[k]
    OBVIOUS
  <2>1. /\ k \in 1 .. Len(h) /\ at[k] \in 1 .. Len(trace.lines)
        /\ Telling(trace.lines[at[k]].body, h[k]) /\ h[k] \in ObservationType
    BY <1>1, <1>11, <1>12, ElementOfSeq
  <2>2. /\ place[k] \in 1 .. Len(hist) /\ place[k] + 1 <= seq /\ place[k] + 1 \in 1 .. seq
        /\ Again(k, place[k])
    BY <1>1, <1>15
  <2>3. Comparable(a[at[k]]) = Comparable(b[place[k] + 1])
    BY <1>9, <1>13, <2>2
  <2>4. Comparable(trace.lines[at[k]].body) = Comparable(events[place[k] + 1].body)
    BY <1>3, <2>1, <2>2, <2>3
  <2> HIDE DEF Again
  <2> QED
    BY <1>10, <2>1, <2>2, <2>4, ComparedSame
<1>17. \A k, l \in Seen(h) : k < l => place[k] < place[l]
  <2> SUFFICES ASSUME NEW k \in Seen(h), NEW l \in Seen(h), k < l
               PROVE  place[k] < place[l]
    OBVIOUS
  <2>1. ra[at[k]] < ra[at[l]] /\ ra[at[k]] \in Int /\ ra[at[l]] \in Int
    <3>1. at[k] < at[l]
      BY <1>11, <1>12
    <3> QED
      BY <1>7, <1>13, <3>1
  <2>2. /\ place[k] \in Int /\ place[l] \in Int
        /\ place[k] + 1 \in Looked(b) /\ place[l] + 1 \in Looked(b)
        /\ rb[place[k] + 1] < rb[place[l] + 1]
    BY <1>15, <2>1
  <2>3. rb[place[k] + 1] \in Int /\ rb[place[l] + 1] \in Int
    BY <1>15, <2>1
  <2>4. ~(place[l] + 1 < place[k] + 1) /\ place[l] # place[k]
    BY <1>8, <2>2, <2>3
  <2> QED
    BY <2>2, <2>4
<1>18. \A n \in 1 .. Len(hist) : hist[n].call \in {"getrandom"} \cup TimeCalls =>
         \E k \in Seen(h) : place[k] = n
  <2> SUFFICES ASSUME NEW n \in 1 .. Len(hist), hist[n].call \in {"getrandom"} \cup TimeCalls
               PROVE  \E k \in Seen(h) : place[k] = n
    OBVIOUS
  <2>1. n + 1 \in 1 .. seq /\ n \in Nat
    BY <1>1
  <2>2. b[n + 1].etype = "SYSCALL" /\ b[n + 1].name = hist[n].call
    <3>1. Own(n + 1) = b[n + 1]
      BY <1>1, <1>3, <2>1 DEF Own
    <3> QED
      BY <3>1 DEF ToldSoFar, Tells
  <2>3. n + 1 \in Looked(b)
    BY <1>3, <2>1, <2>2 DEF Looked, IsChecked
  <2>4. PICK m \in Looked(a) : ra[m] = rb[n + 1]
    BY <1>7, <1>8, <2>3
  <2>5. Comparable(a[m]) = Comparable(b[n + 1])
    BY <1>9, <2>3, <2>4
  <2>6. a[m].etype = "SYSCALL" /\ a[m].name = hist[n].call
    BY <2>2, <2>5 DEF Comparable
  <2>7. m \in 1 .. Len(trace.lines) /\ a[m] = trace.lines[m].body
    BY <1>3 DEF Looked
  <2>8. PICK k \in 1 .. Len(h) : at[k] = m
    BY <1>11, <2>6, <2>7
  <2>9. h[k].call = hist[n].call
    BY <1>11, <2>6, <2>7, <2>8 DEF Telling
  <2>10. k \in Seen(h)
    BY <1>12, <2>8, <2>9 DEF PayloadCalls, TimeCalls
  <2>11. /\ place[k] \in Int /\ place[k] + 1 \in Looked(b) /\ rb[place[k] + 1] = rb[n + 1]
    BY <1>15, <2>4, <2>8, <2>10
  <2>12. rb[n + 1] \in Int
    BY <1>8, <2>3
  <2>13. ~(place[k] + 1 < n + 1) /\ ~(n + 1 < place[k] + 1)
    BY <1>8, <2>3, <2>11, <2>12
  <2>14. place[k] = n
    BY <2>1, <2>11, <2>13
  <2> QED
    BY <2>10, <2>14
<1>19. place \in [Seen(h) -> 1 .. Len(hist)]
  <2>1. place = [k \in Seen(h) |-> place[k]]
    BY DEF place
  <2> QED
    BY <1>15, <2>1
<1>20. \E f \in [Seen(h) -> DOMAIN hist] :
         /\ \A k, l \in Seen(h) : k < l => f[k] < f[l]
         /\ \A k \in Seen(h) :
              /\ hist[f[k]].call = h[k].call
              /\ f[k] + 1 \notin missed => hist[f[k]] = h[k]
         /\ \A n \in DOMAIN hist : hist[n].call \in {"getrandom"} \cup TimeCalls =>
              \E k \in Seen(h) : f[k] = n
  <2>1. /\ place \in [Seen(h) -> DOMAIN hist]
        /\ \A n \in DOMAIN hist : hist[n].call \in {"getrandom"} \cup TimeCalls =>
             \E k \in Seen(h) : place[k] = n
    BY <1>1, <1>18, <1>19
  <2> HIDE DEF place
  <2> USE <2>1
  <2> WITNESS place \in [Seen(h) -> DOMAIN hist]
  <2> QED
    BY <1>16, <1>17, <2>1
<1> QED
  BY <1>20 DEF h

\* What a pass is believed on: events.jsonl is JSON, and the recorded lines tell what the
\* program observed.
Believed ==
  /\ ~TargetQuoted
  /\ \A t \in Traces : t.result.stored => Transcribes(t.lines, t.result.observed)

\* A pass is sound.
LEMMA PassSound ==
  ASSUME Believed, ReplayInv, Judged, trace \in Traces
  PROVE  VerdictSound
<1> SUFFICES ASSUME report = "pass", PayloadsReadable
             PROVE  /\ trace.result.stored /\ result.stored
                    /\ Outcome([result EXCEPT !.observed = hist]).exit_code
                         = Outcome(trace.result).exit_code
                    /\ Output(hist).stdout = Output(Original).stdout
                    /\ \E at \in [Seen(Original) -> DOMAIN hist] :
                         /\ \A k, l \in Seen(Original) : k < l => at[k] < at[l]
                         /\ \A k \in Seen(Original) :
                              /\ hist[at[k]].call = Original[k].call
                              /\ at[k] + 1 \notin missed => hist[at[k]] = Original[k]
                         /\ \A n \in DOMAIN hist :
                              hist[n].call \in {"getrandom"} \cup TimeCalls =>
                                \E k \in Seen(Original) : at[k] = n
  BY Zenon DEF VerdictSound
<1> DEFINE a == LoadEvents(trace.lines)
           b == LoadEvents(events)
           checks == Checks(trace.result, result, a, b)
<1>1. /\ TypeOK /\ Framed /\ ToldSoFar /\ Modest /\ Closing
      /\ trace.result.stored /\ result.stored
      /\ Verdict(checks) = "pass"
  BY DEF ReplayInv, Inv, Judged
<1>2. ~TargetQuoted /\ Transcribes(trace.lines, Original)
  BY <1>1 DEF Believed, Original
<1>3. /\ seq = Len(hist) + 2 /\ events[seq].body.etype = "PROCESS"
      /\ result.observed = hist /\ trace.result.observed = Original
  BY <1>1 DEF Closing, Original
<1>4. /\ FirstSequenceMismatch(a, b) = 0
      /\ Outcome(trace.result).exit_code = Outcome(result).exit_code
      /\ Outcome(trace.result).stdout = Outcome(result).stdout
  <2> HIDE DEF a, b
  <2> QED
    BY <1>1, VerdictTells
<1> HIDE DEF checks
<1>5. /\ Outcome([result EXCEPT !.observed = hist]).exit_code = Outcome(trace.result).exit_code
      /\ Output(hist).stdout = Output(Original).stdout
  <2>1. [result EXCEPT !.observed = hist] = result
    BY <1>1, <1>3 DEF TypeOK, ResultType
  <2>2. \A r : Outcome(r).stdout = Output(r.observed).stdout
    BY DEF Outcome
  <2> QED
    BY <1>3, <1>4, <2>1, <2>2
<1>6. LET ca == CheckedEvents(a)
          cb == CheckedEvents(b)
      IN  Len(ca) = Len(cb) /\ \A i \in 1 .. Len(ca) : Comparable(ca[i]) = Comparable(cb[i])
  <2>1. CheckedEvents(a) \in Seq(EventType) /\ CheckedEvents(b) \in Seq(EventType)
    BY <1>1, EventsLoaded, CheckedFrom DEF TypeOK, DirectoryType
  <2> HIDE DEF a, b
  <2>2. FirstDifference(CheckedEvents(a), CheckedEvents(b)) = 0
    BY <1>4 DEF FirstSequenceMismatch
  <2> QED
    BY <2>1, <2>2, FirstDifferenceFirst
<1> QED
  BY <1>1, <1>2, <1>3, <1>5, <1>6, SeenAgain

\* A pass is not withheld.
LEMMA CompleteStep ==
  ASSUME ReplayInv, Judged, VerdictComplete, [SessionNext]_sessionVars
  PROVE  VerdictComplete'
<1>1. CASE Verify
  <2>1. UNCHANGED vars /\ trace' = trace /\ result' = result /\ hist' = hist
    BY <1>1 DEF Verify, vars, targetVars, diskVars, loadVars
  <2>5. missed' = missed
    BY <2>1 DEF vars, loopVars, historyVars
  <2>2. (Covered' => Covered) /\ (Reproducible' => Reproducible)
    BY <2>1 DEF Covered, Reproducible, Original
  <2> SUFFICES ASSUME report' = "fail", Covered, Reproducible, missed = {}, result.signal = 0
               PROVE  FALSE
    BY <2>1, <2>2, <2>5 DEF VerdictComplete
  <2>3. /\ result.stored
        /\ report' = Verdict(Checks(trace.result, result, LoadEvents(trace.lines), LoadEvents(events)))
    BY <1>1 DEF Verify
  <2>4. report' = "pass"
    BY <2>3, FaithfulPasses
  <2> QED
    BY <2>4
<1>2. CASE [Next]_vars /\ UNCHANGED << report, mismatch >>
  <2> SUFFICES ASSUME report = "fail", Covered', Reproducible', missed' = {}
               PROVE  result'.signal # 0
    BY <1>2 DEF VerdictComplete
  <2>1. TypeOK /\ Control /\ pc \in Over
    BY DEF ReplayInv, Inv, Judged
  <2>2. result' = result
    BY <1>2, <2>1, ClosedStays
  <2>3. Covered /\ Reproducible /\ missed = {}
    BY <1>2, <2>1, StepBack, MissedGrows
  <2> QED
    BY <2>2, <2>3 DEF VerdictComplete
<1> QED
  BY <1>1, <1>2 DEF SessionNext, Replay, sessionVars

\* What the verifier's step does to the replayer: nothing.
LEMMA SessionStep ==
  ASSUME [SessionNext]_sessionVars
  PROVE  [Next]_vars
BY DEF SessionNext, Replay, Verify, sessionVars

(***************************************************************************)
(* The theorems.                                                            *)
(***************************************************************************)
\* first_mismatch is the first place where the two sequences of checked events differ
\* (first_sequence_mismatch, verifier.py:69-90), whatever the two directories hold.
THEOREM SessionMismatchIsFirst == SessionSpec => []MismatchIsFirst
<1> DEFINE I == TypeOK /\ Pending /\ Control /\ Judged
<1>1. SessionInit => I
  <2> SUFFICES ASSUME SessionInit
               PROVE  I
    OBVIOUS
  <2>1. Init /\ report = "none"
    BY DEF SessionInit
  <2>2. Inv
    BY <2>1, InitBegins, InitInv
  <2> QED
    BY <2>1, <2>2 DEF Inv, Judged
<1>2. I /\ [SessionNext]_sessionVars => I'
  BY SessionStep, TypeStep, PendingStep, ControlStep, JudgedStep
<1>3. I => MismatchIsFirst
  BY JudgedFirst
<1> QED
  BY <1>1, <1>2, <1>3, PTL DEF SessionSpec

\* A replay into a new directory that keeps to a covered recording, exits, and whose
\* injections all reached the program passes.
THEOREM SessionVerdictComplete ==
  ASSUME \A d \in Leftovers : d.lines = << >> /\ d.result = NoResult
  PROVE  SessionSpec => []VerdictComplete
<1> DEFINE I == ReplayInv /\ Judged /\ VerdictComplete
<1>1. SessionInit => I
  <2> SUFFICES ASSUME SessionInit
               PROVE  I
    OBVIOUS
  <2>1. Init /\ report = "none" /\ NewDirectory
    BY DEF SessionInit, Init, NewDirectory
  <2> QED
    BY <2>1, InitBegins, ReplayInit DEF Judged, VerdictComplete
<1>2. I /\ [SessionNext]_sessionVars => I'
  <2> SUFFICES ASSUME I, [SessionNext]_sessionVars
               PROVE  I'
    OBVIOUS
  <2>1. TypeOK /\ Control
    BY DEF ReplayInv, Inv
  <2> QED
    BY <2>1, SessionStep, ReplayStep, JudgedStep, CompleteStep
<1> QED
  BY <1>1, <1>2, PTL DEF SessionSpec

\* A pass is sound, of a replay into a new directory that ended in any way, followed the
\* recording or strayed: it vouches for the results and the bytes of every injection that
\* reached the program, and of the others for the syscall alone.
THEOREM SessionVerdictSound ==
  ASSUME ~TargetQuoted,
         \A t \in Traces : t.result.stored => Transcribes(t.lines, t.result.observed),
         \A d \in Leftovers : d.lines = << >> /\ d.result = NoResult
  PROVE  SessionSpec => []VerdictSound
<1> DEFINE I == ReplayInv /\ Judged /\ trace \in Traces
<1>1. SessionInit => I
  <2> SUFFICES ASSUME SessionInit
               PROVE  I
    OBVIOUS
  <2>1. Init /\ report = "none" /\ NewDirectory
    BY DEF SessionInit, Init, NewDirectory
  <2> QED
    BY <2>1, InitBegins, ReplayInit DEF Judged, Begins
<1>2. I /\ [SessionNext]_sessionVars => I'
  <2> SUFFICES ASSUME I, [SessionNext]_sessionVars
               PROVE  I'
    OBVIOUS
  <2>1. TypeOK /\ Control
    BY DEF ReplayInv, Inv
  <2> QED
    BY <2>1, SessionStep, ReplayStep, JudgedStep, OnlyLoaded
<1>3. I => VerdictSound
  BY PassSound DEF Believed
<1> QED
  BY <1>1, <1>2, <1>3, PTL DEF SessionSpec
=============================================================================
