----------------------------- MODULE SyncHookProofs -----------------------------
(***************************************************************************)
(* What the lines of the pthread hook show, for every number of threads,     *)
(* mutexes, conditions and calls, and every program of legal calls.          *)
(***************************************************************************)
EXTENDS SyncHook, SequenceTheorems, TLAPS

(***************************************************************************)
(* Type correctness.                                                        *)
(***************************************************************************)
Waiting == {"asleep", "woken"}
Entering == {"enter", "enter_write", "real"}
Leaving == {"leave", "leave_write"}

\* A hooked call has the arguments its function takes; only pthread_cond_wait sleeps.
HasArguments(o) ==
  /\ o.name \in {"lock", "unlock", "wait"} => o.mutex \in Mutexes
  /\ o.name \in {"create", "join"} => o.thread \in Threads
  /\ o.name = "create" => o = Op("create", o.thread, None, None)
InCall ==
  \A t \in Threads :
    /\ pc[t] \in Entering \cup Waiting \cup Leaving => HasArguments(op[t])
    /\ pc[t] \in Waiting => op[t].name = "wait"

\* The line log_sync_event appends.
NewLine(t, phase) == [tid |-> t, op |-> op[t], phase |-> phase, seq |-> drawn[t]]

LEMMA LineInType ==
  ASSUME TypeOK, NEW t \in Threads, NEW phase \in {"enter", "leave"}
  PROVE  NewLine(t, phase) \in LineType
BY DEF TypeOK, NewLine, LineType

\* A step that does not write leaves the file alone.
LEMMA WhoWrites ==
  ASSUME NEW t \in Threads, Call(t) \/ End(t) \/ Log(t) \/ Real(t)
  PROVE  \/ file' = file
         \/ \E phase \in {"enter", "leave"} :
              Write(t, phase) /\ file' = Append(file, NewLine(t, phase))
<1>1. CASE Call(t) \/ End(t)
  BY <1>1 DEF Call, End
<1>2. CASE Log(t)
  BY <1>2 DEF Log, Draw, Write, Lose, NewLine
<1>3. CASE Real(t)
  BY <1>3
  DEF Real, RealCreate, RealJoin, RealLock, RealUnlock, RealSleep, SpuriousWake, RealRetake,
      RealWake, Unchanged
<1> QED
  BY <1>1, <1>2, <1>3

LEMMA FileTyped ==
  ASSUME TypeOK, NEW t \in Threads, Call(t) \/ End(t) \/ Log(t) \/ Real(t)
  PROVE  file' \in Seq(LineType)
<1>1. CASE file' = file
  BY <1>1 DEF TypeOK
<1>2. ASSUME NEW phase \in {"enter", "leave"}, file' = Append(file, NewLine(t, phase))
      PROVE  file' \in Seq(LineType)
  BY <1>2, LineInType, AppendProperties DEF TypeOK
<1> QED
  BY <1>1, <1>2, WhoWrites

LEMMA TypeStep ==
  ASSUME TypeOK, InCall, [Next]_vars
  PROVE  TypeOK'
<1>1. ASSUME NEW t \in Threads, Call(t)
      PROVE  TypeOK'
  <2>1. PICK o \in OpType :
          /\ Legal(t, o)
          /\ op' = [op EXCEPT ![t] = o]
          /\ joined' = IF o.name = "join" THEN joined \cup {o.thread} ELSE joined
    BY <1>1 DEF Call
  <2>2. o.name = "join" => o.thread \in Threads
    BY <2>1 DEF Legal, Op
  <2>3. joined' \subseteq Threads /\ op' \in [Threads -> OpType]
    BY <2>1, <2>2 DEF TypeOK
  <2>4. calls' \in 0 .. MaxCalls /\ pc' \in [Threads -> Places]
    BY <1>1, HookAssumption DEF Call, TypeOK, Places
  <2> QED
    BY <1>1, <2>3, <2>4 DEF Call, TypeOK
<1>2. ASSUME NEW t \in Threads, End(t)
      PROVE  TypeOK'
  BY <1>2 DEF End, TypeOK, Places
<1>3. ASSUME NEW t \in Threads, Log(t)
      PROVE  TypeOK'
  <2>1. file' \in Seq(LineType)
    BY <1>3, FileTyped
  <2> QED
    BY <1>3, <2>1 DEF Log, Draw, Write, Lose, After, TypeOK, Places
<1>4. ASSUME NEW t \in Threads, Real(t)
      PROVE  TypeOK'
  <2>1. CASE RealCreate(t) \/ RealJoin(t) \/ SpuriousWake(t) \/ RealWake(t)
    BY <2>1 DEF RealCreate, RealJoin, SpuriousWake, RealWake, Unchanged, TypeOK, Places
  <2>2. CASE RealLock(t) \/ RealUnlock(t) \/ RealSleep(t) \/ RealRetake(t)
    BY <2>2 DEF RealLock, RealUnlock, RealSleep, RealRetake, Unchanged, TypeOK, Places
  <2> QED
    BY <1>4, <2>1, <2>2 DEF Real
<1>5. CASE UNCHANGED vars
  BY <1>5 DEF TypeOK, vars
<1> QED
  BY <1>1, <1>2, <1>3, <1>4, <1>5 DEF Next

LEMMA InCallStep ==
  ASSUME TypeOK, InCall, [Next]_vars
  PROVE  InCall'
<1> USE DEF InCall, Entering, Waiting, Leaving
<1>1. ASSUME NEW t \in Threads, Call(t)
      PROVE  InCall'
  <2>1. PICK o \in OpType :
          Legal(t, o) /\ op' = [op EXCEPT ![t] = o] /\ pc' = [pc EXCEPT ![t] = "enter"]
    BY <1>1 DEF Call
  <2>2. HasArguments(o)
    BY <2>1 DEF Legal, Op, HasArguments
  <2> HIDE DEF HasArguments
  <2> QED
    BY <2>1, <2>2 DEF TypeOK
<1>2. ASSUME NEW t \in Threads, End(t)
      PROVE  InCall'
  BY <1>2 DEF End, TypeOK
<1>3. ASSUME NEW t \in Threads, Log(t)
      PROVE  InCall'
  BY <1>3 DEF Log, Draw, Write, Lose, After, TypeOK
<1>4. ASSUME NEW t \in Threads, Real(t)
      PROVE  InCall'
  <2>1. CASE RealCreate(t) \/ RealJoin(t) \/ SpuriousWake(t)
    BY <2>1 DEF RealCreate, RealJoin, SpuriousWake, Unchanged, TypeOK
  <2>2. CASE RealLock(t) \/ RealUnlock(t) \/ RealSleep(t) \/ RealRetake(t)
    BY <2>2 DEF RealLock, RealUnlock, RealSleep, RealRetake, Unchanged, TypeOK
  <2>3. CASE RealWake(t)
    BY <2>3 DEF RealWake, Sleepers, Unchanged, TypeOK
  <2> QED
    BY <1>4, <2>1, <2>2, <2>3 DEF Real
<1>5. CASE UNCHANGED vars
  BY <1>5 DEF vars
<1> QED
  BY <1>1, <1>2, <1>3, <1>4, <1>5 DEF Next

LEMMA InitTyped ==
  ASSUME Init
  PROVE  TypeOK /\ InCall
<1>1. Op("signal", None, None, None) \in OpType
  BY DEF Op, OpType, Names
<1>2. file \in Seq(LineType)
  BY EmptySeq DEF Init
<1>3. calls \in 0 .. MaxCalls
  BY HookAssumption DEF Init
<1> QED
  BY <1>1, <1>2, <1>3 DEF Init, TypeOK, Places, InCall, Entering, Waiting, Leaving

\* Every variable of the hook and of the threads keeps its type.
THEOREM HookTyped == Spec => []TypeOK
BY InitTyped, TypeStep, InCallStep, PTL DEF Spec

(***************************************************************************)
(* Who creates a thread.                                                    *)
(***************************************************************************)
\* Until the real pthread_create returns the thread is not there, and nobody else is
\* creating it.
Creating(t, u) == pc[t] \in Entering /\ op[t].name = "create" /\ op[t].thread = u
Creation ==
  \A t, u \in Threads : Creating(t, u) =>
    pc[u] = "unborn" /\ \A v \in Threads : Creating(v, u) => v = t

\* A step that starts no creation keeps every thread that is being created unborn.
LEMMA CreationKept ==
  ASSUME Creation,
         \A t, u \in Threads : Creating(t, u)' => Creating(t, u) /\ pc'[u] = pc[u]
  PROVE  Creation'
BY DEF Creation

LEMMA CreationStep ==
  ASSUME TypeOK, InCall, Creation, [Next]_vars
  PROVE  Creation'
<1>1. ASSUME NEW t \in Threads, Call(t)
      PROVE  Creation'
  <2>1. PICK o \in OpType :
          /\ Legal(t, o) /\ Claimed(o)
          /\ op' = [op EXCEPT ![t] = o] /\ pc' = [pc EXCEPT ![t] = "enter"]
    BY <1>1 DEF Call
  <2>2. pc[t] = "idle"
    BY <1>1 DEF Call
  <2>3. o.name = "create" => o = Op("create", o.thread, None, None) /\ pc[o.thread] = "unborn"
    BY <2>1 DEF Legal, Op
  <2>4. ASSUME o.name = "create", NEW v \in Threads, Creating(v, o.thread)
        PROVE  FALSE
    <3>1. op[v] = Op("create", o.thread, None, None)
      BY <2>4 DEF InCall, HasArguments, Creating
    <3> QED
      BY <2>1, <2>3, <2>4, <3>1 DEF Claimed, Creating, Entering
  <2>5. \A v, u \in Threads : v # t => (Creating(v, u)' <=> Creating(v, u))
    BY <2>1 DEF Creating, TypeOK
  <2>6. \A u \in Threads : Creating(t, u)' => o.name = "create" /\ u = o.thread
    BY <2>1 DEF Creating, TypeOK
  <2>7. \A u \in Threads : pc[u] = "unborn" => pc'[u] = "unborn"
    BY <2>1, <2>2 DEF TypeOK
  <2>8. ASSUME NEW v \in Threads, NEW u \in Threads, Creating(v, u)'
        PROVE  pc'[u] = "unborn" /\ \A w \in Threads : Creating(w, u)' => w = v
    <3>1. CASE v = t
      BY <2>3, <2>4, <2>5, <2>6, <2>7, <2>8, <3>1
    <3>2. CASE v # t
      BY <2>4, <2>5, <2>6, <2>7, <2>8, <3>2 DEF Creation
    <3> QED
      BY <3>1, <3>2
  <2> QED
    BY <2>8 DEF Creation
<1>2. ASSUME NEW t \in Threads, End(t)
      PROVE  Creation'
  BY <1>2, CreationKept DEF End, TypeOK, Creation, Creating, Entering
<1>3. ASSUME NEW t \in Threads, Log(t)
      PROVE  Creation'
  <2>1. op' = op /\ \A u \in Threads : u # t => pc'[u] = pc[u]
    BY <1>3 DEF Log, Draw, Write, Lose, TypeOK
  <2>2. pc[t] # "unborn" /\ (pc'[t] \in Entering => pc[t] \in Entering)
    BY <1>3 DEF Log, Draw, Write, Lose, After, TypeOK, Entering
  <2>3. \A v, u \in Threads : Creating(v, u)' => Creating(v, u)
    BY <2>1, <2>2 DEF Creating
  <2> QED
    BY <2>1, <2>2, <2>3, CreationKept DEF Creation
<1>4. ASSUME NEW t \in Threads, Real(t)
      PROVE  Creation'
  <2>1. CASE RealCreate(t)
    <3>1. op[t].thread \in Threads /\ Creating(t, op[t].thread)
      BY <2>1 DEF RealCreate, InCall, HasArguments, Creating, Entering
    <3>2. /\ pc' = [pc EXCEPT ![t] = "leave", ![op[t].thread] = "idle"] /\ op' = op
          /\ pc[t] = "real"
      BY <2>1 DEF RealCreate, Unchanged
    <3> QED
      BY <3>1, <3>2 DEF TypeOK, Creation, Creating, Entering
  <2>2. CASE ~RealCreate(t)
    <3>1. op' = op
      BY <1>4
      DEF Real, RealCreate, RealJoin, RealLock, RealUnlock, RealSleep, SpuriousWake, RealRetake,
          RealWake, Unchanged
    <3>2. \A u \in Threads : pc'[u] = pc[u] \/ (pc[u] # "unborn" /\ pc'[u] \notin Entering)
      <4>1. CASE RealJoin(t) \/ SpuriousWake(t) \/ RealRetake(t)
        BY <4>1 DEF RealJoin, SpuriousWake, RealRetake, TypeOK, Entering
      <4>2. CASE RealLock(t) \/ RealUnlock(t) \/ RealSleep(t)
        BY <4>2 DEF RealLock, RealUnlock, RealSleep, TypeOK, Entering
      <4>3. CASE RealWake(t)
        BY <4>3 DEF RealWake, Sleepers, TypeOK, Entering
      <4> QED
        BY <1>4, <2>2, <4>1, <4>2, <4>3 DEF Real
    <3>3. \A v, u \in Threads : Creating(v, u)' => Creating(v, u)
      BY <3>1, <3>2 DEF Creating
    <3> QED
      BY <3>2, <3>3, CreationKept DEF Creation
  <2> QED
    BY <2>1, <2>2
<1>5. CASE UNCHANGED vars
  BY <1>5 DEF vars, Creation, Creating
<1> QED
  BY <1>1, <1>2, <1>3, <1>4, <1>5 DEF Next

(***************************************************************************)
(* Who owns a mutex.                                                        *)
(***************************************************************************)
\* The lines of a use are written while the mutex is owned: those of a giving up
\* before it really is given up, those of a taking after it really was taken.
GivingUp(t, m) == pc[t] \in Entering /\ op[t].mutex = m /\ op[t].name \in {"unlock", "wait"}
Taken(t, m) == pc[t] \in Leaving /\ op[t].mutex = m /\ op[t].name \in {"lock", "wait"}
OwnsInUse ==
  \A t \in Threads, m \in Mutexes : GivingUp(t, m) \/ Taken(t, m) => owner[m] = t

LEMMA OwnsStep ==
  ASSUME TypeOK, InCall, OwnsInUse, [Next]_vars
  PROVE  OwnsInUse'
<1> USE DEF OwnsInUse, GivingUp, Taken, Entering, Leaving
<1>1. ASSUME NEW t \in Threads, Call(t)
      PROVE  OwnsInUse'
  <2>1. PICK o \in OpType :
          /\ Legal(t, o) /\ op' = [op EXCEPT ![t] = o] /\ pc' = [pc EXCEPT ![t] = "enter"]
          /\ owner' = owner
    BY <1>1 DEF Call
  <2>2. o.name \in {"unlock", "wait"} => owner[o.mutex] = t
    BY <2>1 DEF Legal, Op
  <2> QED
    BY <2>1, <2>2 DEF TypeOK
<1>2. ASSUME NEW t \in Threads, End(t)
      PROVE  OwnsInUse'
  BY <1>2 DEF End, TypeOK
<1>3. ASSUME NEW t \in Threads, Log(t)
      PROVE  OwnsInUse'
  BY <1>3 DEF Log, Draw, Write, Lose, After, TypeOK
<1>4. ASSUME NEW t \in Threads, Real(t)
      PROVE  OwnsInUse'
  <2>1. CASE RealCreate(t) \/ RealJoin(t) \/ SpuriousWake(t)
    BY <2>1 DEF RealCreate, RealJoin, SpuriousWake, Unchanged, TypeOK
  <2>2. CASE RealLock(t) \/ RealRetake(t)
    <3>1. op[t].mutex \in Mutexes /\ owner[op[t].mutex] = None
      BY <2>2 DEF RealLock, RealRetake, InCall, HasArguments, Waiting
    <3>2. /\ owner' = [owner EXCEPT ![op[t].mutex] = t]
          /\ pc' = [pc EXCEPT ![t] = "leave"] /\ op' = op
      BY <2>2 DEF RealLock, RealRetake, Unchanged
    <3> QED
      BY <3>1, <3>2, HookAssumption DEF TypeOK
  <2>3. CASE RealUnlock(t) \/ RealSleep(t)
    <3>1. op[t].mutex \in Mutexes /\ owner[op[t].mutex] = t /\ op[t].name \in {"unlock", "wait"}
      BY <2>3 DEF RealUnlock, RealSleep, InCall, HasArguments
    <3>2. /\ owner' = [owner EXCEPT ![op[t].mutex] = None] /\ op' = op
          /\ \/ op[t].name = "unlock" /\ pc' = [pc EXCEPT ![t] = "leave"]
             \/ pc' = [pc EXCEPT ![t] = "asleep"]
      BY <2>3 DEF RealUnlock, RealSleep, Unchanged
    <3> QED
      BY <3>1, <3>2 DEF TypeOK
  <2>4. CASE RealWake(t)
    BY <2>4 DEF RealWake, Sleepers, Unchanged, TypeOK
  <2> QED
    BY <1>4, <2>1, <2>2, <2>3, <2>4 DEF Real
<1>5. CASE UNCHANGED vars
  BY <1>5 DEF vars
<1> QED
  BY <1>1, <1>2, <1>3, <1>4, <1>5 DEF Next

(***************************************************************************)
(* The lines about a mutex.                                                 *)
(***************************************************************************)
\* How a line adds to the uses of a mutex.
LEMMA AppendLine ==
  ASSUME file \in Seq(LineType), NEW l \in LineType, file' = Append(file, l)
  PROVE  /\ Len(file) \in Nat
         /\ DOMAIN file = 1 .. Len(file)
         /\ DOMAIN file' = 1 .. Len(file) + 1
         /\ file'[Len(file) + 1] = l
         /\ \A i \in DOMAIN file : file'[i] = file[i]
         /\ \A m : Uses(m) \subseteq DOMAIN file
         /\ \A m : Uses(m)' = IF Takes(l, m) \/ GivesUp(l, m)
                              THEN Uses(m) \cup {Len(file) + 1} ELSE Uses(m)
<1>1. Len(file) \in Nat /\ DOMAIN file = 1 .. Len(file)
  BY LenProperties
<1>2. /\ file' \in Seq(LineType) /\ Len(file') = Len(file) + 1
      /\ file'[Len(file) + 1] = l
      /\ \A i \in 1 .. Len(file) : file'[i] = file[i]
  BY AppendProperties
<1>3. DOMAIN file' = 1 .. Len(file) + 1
  BY <1>2, LenProperties
<1>4. \A i \in DOMAIN file' : i \in DOMAIN file \/ i = Len(file) + 1
  BY <1>1, <1>3
<1>5. Len(file) + 1 \in DOMAIN file' /\ Len(file) + 1 \notin DOMAIN file
      /\ DOMAIN file \subseteq DOMAIN file'
  BY <1>1, <1>3
<1>6. ASSUME NEW m
      PROVE  Uses(m)' = IF Takes(l, m) \/ GivesUp(l, m)
                        THEN Uses(m) \cup {Len(file) + 1} ELSE Uses(m)
  <2>1. \A i \in DOMAIN file : i \in Uses(m)' <=> i \in Uses(m)
    BY <1>1, <1>2, <1>5 DEF Uses, Takes, GivesUp
  <2>2. Len(file) + 1 \in Uses(m)' <=> Takes(l, m) \/ GivesUp(l, m)
    BY <1>2, <1>5 DEF Uses, Takes, GivesUp
  <2>3. Uses(m) \subseteq DOMAIN file /\ Uses(m)' \subseteq DOMAIN file'
    BY DEF Uses
  <2> QED
    <3>1. CASE Takes(l, m) \/ GivesUp(l, m)
      <4>1. \A i : i \in Uses(m)' <=> i \in Uses(m) \/ i = Len(file) + 1
        BY <1>4, <1>5, <2>1, <2>2, <2>3, <3>1
      <4>2. Uses(m)' = Uses(m) \cup {Len(file) + 1}
        BY <4>1
      <4> QED
        BY <3>1, <4>2
    <3>2. CASE ~(Takes(l, m) \/ GivesUp(l, m))
      <4>1. \A i : i \in Uses(m)' <=> i \in Uses(m)
        BY <1>4, <1>5, <2>1, <2>2, <2>3, <3>2
      <4>2. Uses(m)' = Uses(m)
        BY <4>1
      <4> QED
        BY <3>2, <4>2
    <3> QED
      BY <3>1, <3>2
<1>7. \A m : Uses(m) \subseteq DOMAIN file
  BY DEF Uses
<1> QED
  BY <1>1, <1>2, <1>3, <1>6, <1>7

\* A thread is inside a section, as its lines show it: between the line of its taking
\* and the line of its giving up.
Inside(t, m) ==
  /\ owner[m] = t
  /\ ~Taken(t, m)
  /\ ~(GivingUp(t, m) /\ pc[t] = "real")

\* The last line about the mutex is a giving up, if there is one.
ShownFree(m) ==
  \A i \in Uses(m) : (\A j \in Uses(m) : j <= i) => GivesUp(file[i], m)

\* The file shows the sections that are open, and no others.
Shown ==
  \A m \in Mutexes :
    /\ \A t \in Threads : Inside(t, m) => ShownHolding(t, m)
    /\ (\A t \in Threads : ~Inside(t, m)) => ShownFree(m)

Alternating == \A m \in Mutexes : Alternate(m)

\* Only the two lines about a mutex let a thread in or out.
LEMMA InsideSteps ==
  ASSUME TypeOK, InCall, Creation, OwnsInUse, NEW t \in Threads,
         Call(t) \/ End(t) \/ Log(t) \/ Real(t),
         ~\E phase \in {"enter", "leave"} : Write(t, phase) \/ Lose(t, phase),
         NEW u \in Threads, NEW m \in Mutexes
  PROVE  Inside(u, m)' <=> Inside(u, m)
<1> USE DEF Inside, Taken, GivingUp, Entering, Leaving
<1>1. CASE Call(t) \/ End(t)
  BY <1>1 DEF Call, End, TypeOK
<1>2. CASE Log(t)
  BY <1>2 DEF Log, Draw, TypeOK
<1>3. CASE Real(t)
  <2>1. CASE RealJoin(t) \/ SpuriousWake(t)
    BY <2>1 DEF RealJoin, SpuriousWake, Unchanged, TypeOK, InCall, Waiting
  <2>5. CASE RealCreate(t)
    <3>1. op[t].thread \in Threads /\ Creating(t, op[t].thread)
      BY <2>5 DEF RealCreate, InCall, HasArguments, Creating
    <3>2. pc[op[t].thread] = "unborn" /\ pc[t] = "real" /\ op[t].name = "create"
      BY <2>5, <3>1 DEF Creation, RealCreate
    <3>3. /\ pc' = [pc EXCEPT ![t] = "leave", ![op[t].thread] = "idle"]
          /\ op' = op /\ owner' = owner
      BY <2>5 DEF RealCreate, Unchanged
    <3> QED
      BY <3>1, <3>2, <3>3 DEF TypeOK
  <2>2. CASE RealLock(t) \/ RealRetake(t)
    <3>1. op[t].mutex \in Mutexes /\ owner[op[t].mutex] = None /\ op[t].name \in {"lock", "wait"}
      BY <2>2 DEF RealLock, RealRetake, InCall, HasArguments, Waiting
    <3>2. /\ owner' = [owner EXCEPT ![op[t].mutex] = t]
          /\ pc' = [pc EXCEPT ![t] = "leave"] /\ op' = op
          /\ op[t].name = "lock" \/ pc[t] = "woken"
      BY <2>2 DEF RealLock, RealRetake, Unchanged
    <3> QED
      BY <3>1, <3>2, HookAssumption DEF TypeOK
  <2>3. CASE RealUnlock(t) \/ RealSleep(t)
    <3>1. /\ op[t].mutex \in Mutexes /\ owner[op[t].mutex] = t
          /\ op[t].name \in {"unlock", "wait"} /\ pc[t] = "real"
      BY <2>3 DEF RealUnlock, RealSleep, InCall, HasArguments, OwnsInUse
    <3>2. /\ owner' = [owner EXCEPT ![op[t].mutex] = None] /\ op' = op
          /\ \/ op[t].name = "unlock" /\ pc' = [pc EXCEPT ![t] = "leave"]
             \/ pc' = [pc EXCEPT ![t] = "asleep"]
      BY <2>3 DEF RealUnlock, RealSleep, Unchanged
    <3> QED
      BY <3>1, <3>2, HookAssumption DEF TypeOK
  <2>4. CASE RealWake(t)
    BY <2>4 DEF RealWake, Sleepers, Unchanged, TypeOK, InCall
  <2> QED
    BY <1>3, <2>1, <2>2, <2>3, <2>4, <2>5 DEF Real
<1> QED
  BY <1>1, <1>2, <1>3

\* A taking is written by the owner while nobody is inside; then it is inside.
LEMMA TakingWritten ==
  ASSUME TypeOK, InCall, OwnsInUse, Shown, Alternating, NEW t \in Threads, NEW m \in Mutexes,
         Write(t, "leave"), op[t].name \in {"lock", "wait"}, op[t].mutex = m
  PROVE  /\ Alternate(m)'
         /\ ShownHolding(t, m)'
         /\ \A u \in Threads : Inside(u, m)' => u = t
         /\ Inside(t, m)'
<1> DEFINE l == NewLine(t, "leave")
<1> PICK n : n = Len(file) + 1
  OBVIOUS
<1>0. /\ pc[t] = "leave_write" /\ pc' = [pc EXCEPT ![t] = "idle"] /\ op' = op /\ owner' = owner
      /\ file' = Append(file, l)
  BY DEF Write, NewLine, After
<1>1. l \in LineType /\ Takes(l, m) /\ ~GivesUp(l, m) /\ l.tid = t
  BY LineInType DEF NewLine, Takes, GivesUp
<1> HIDE DEF l
<1>2. /\ Uses(m)' = Uses(m) \cup {n} /\ Uses(m) \subseteq 1 .. Len(file) /\ Len(file) \in Nat
      /\ file'[n] = l /\ \A i \in Uses(m) : file'[i] = file[i]
  BY <1>0, <1>1, AppendLine DEF TypeOK
<1>3. n \in Nat /\ \A i \in Uses(m) : i \in Nat /\ i < n
  BY <1>2
<1>4. owner[m] = t /\ Taken(t, m)
  BY <1>0 DEF OwnsInUse, Taken, Leaving
<1>5. ShownFree(m)
  <2>1. \A u \in Threads : ~Inside(u, m)
    BY <1>4 DEF Inside
  <2> QED
    BY <2>1 DEF Shown
<1>6. \A i, j \in Uses(m) : Successive(i, j, m)' => Successive(i, j, m)
  BY <1>2 DEF Successive
<1>7. \A i, j \in Uses(m) : Successive(i, j, m) => Successive(i, j, m)'
  BY <1>2, <1>3 DEF Successive
<1>8. \A i \in Uses(m) : Successive(i, n, m)' => GivesUp(file[i], m)
  <2> SUFFICES ASSUME NEW i \in Uses(m), Successive(i, n, m)'
               PROVE  GivesUp(file[i], m)
    OBVIOUS
  <2>1. \A k \in Uses(m) : k <= i
    BY <1>2, <1>3 DEF Successive
  <2> QED
    BY <1>5, <2>1 DEF ShownFree
<1>9. ASSUME NEW j \in Uses(m)'
      PROVE  IF Takes(file'[j], m)
             THEN \A i \in Uses(m)' : Successive(i, j, m)' => GivesUp(file'[i], m)
             ELSE \E i \in Uses(m)' :
                    Successive(i, j, m)' /\ Takes(file'[i], m) /\ file'[i].tid = file'[j].tid
  <2>1. CASE j = n
    <3>1. ~Successive(n, n, m)'
      BY <1>2, <1>3 DEF Successive
    <3> QED
      BY <1>1, <1>2, <1>8, <2>1, <3>1
  <2>2. CASE j \in Uses(m)
    <3>1. ~Successive(n, j, m)'
      BY <1>2, <1>3, <2>2 DEF Successive
    <3>2. CASE Takes(file[j], m)
      BY <1>2, <1>6, <2>2, <3>1, <3>2 DEF Alternating, Alternate
    <3>3. CASE ~Takes(file[j], m)
      <4>1. PICK i \in Uses(m) :
              Successive(i, j, m) /\ Takes(file[i], m) /\ file[i].tid = file[j].tid
        BY <2>2, <3>3 DEF Alternating, Alternate
      <4> QED
        BY <1>2, <1>7, <2>2, <3>3, <4>1
    <3> QED
      BY <3>2, <3>3
  <2> QED
    BY <1>2, <2>1, <2>2
<1>10. ShownHolding(t, m)'
  <2>1. \A j \in Uses(m)' : j <= n
    BY <1>2, <1>3
  <2> QED
    BY <1>1, <1>2, <2>1 DEF ShownHolding
<1>11. \A u \in Threads : Inside(u, m)' => u = t
  BY <1>0, <1>4 DEF Inside
<1>12. Inside(t, m)'
  BY <1>0, <1>4 DEF Inside, Taken, GivingUp, Leaving, Entering, TypeOK
<1> QED
  BY <1>9, <1>10, <1>11, <1>12 DEF Alternate

\* A giving up is written by the thread inside; then nobody is.
LEMMA GivingUpWritten ==
  ASSUME TypeOK, InCall, OwnsInUse, Shown, Alternating, NEW t \in Threads, NEW m \in Mutexes,
         Write(t, "enter"), op[t].name \in {"unlock", "wait"}, op[t].mutex = m
  PROVE  /\ Alternate(m)'
         /\ ShownFree(m)'
         /\ \A u \in Threads : ~Inside(u, m)'
<1> DEFINE l == NewLine(t, "enter")
<1> PICK n : n = Len(file) + 1
  OBVIOUS
<1>0. /\ pc[t] = "enter_write" /\ pc' = [pc EXCEPT ![t] = "real"] /\ op' = op /\ owner' = owner
      /\ file' = Append(file, l)
  BY DEF Write, NewLine, After
<1>1. l \in LineType /\ ~Takes(l, m) /\ GivesUp(l, m) /\ l.tid = t
  BY LineInType DEF NewLine, Takes, GivesUp
<1> HIDE DEF l
<1>2. /\ Uses(m)' = Uses(m) \cup {n} /\ Uses(m) \subseteq 1 .. Len(file) /\ Len(file) \in Nat
      /\ file'[n] = l /\ \A i \in Uses(m) : file'[i] = file[i]
  BY <1>0, <1>1, AppendLine DEF TypeOK
<1>3. n \in Nat /\ \A i \in Uses(m) : i \in Nat /\ i < n
  BY <1>2
<1>4. owner[m] = t /\ GivingUp(t, m) /\ Inside(t, m)
  BY <1>0 DEF OwnsInUse, GivingUp, Entering, Inside, Taken, Leaving
<1>5. PICK last \in Uses(m) :
        Takes(file[last], m) /\ file[last].tid = t /\ \A j \in Uses(m) : j <= last
  BY <1>4 DEF Shown, ShownHolding
<1>6. \A i, j \in Uses(m) : Successive(i, j, m)' <=> Successive(i, j, m)
  BY <1>2, <1>3 DEF Successive
<1>7. Successive(last, n, m)'
  BY <1>2, <1>3, <1>5 DEF Successive
<1>8. ASSUME NEW j \in Uses(m)'
      PROVE  IF Takes(file'[j], m)
             THEN \A i \in Uses(m)' : Successive(i, j, m)' => GivesUp(file'[i], m)
             ELSE \E i \in Uses(m)' :
                    Successive(i, j, m)' /\ Takes(file'[i], m) /\ file'[i].tid = file'[j].tid
  <2>1. CASE j = n
    BY <1>1, <1>2, <1>5, <1>7, <2>1
  <2>2. CASE j \in Uses(m)
    <3>1. ~Successive(n, j, m)'
      BY <1>2, <1>3, <2>2 DEF Successive
    <3>2. CASE Takes(file[j], m)
      BY <1>2, <1>6, <2>2, <3>1, <3>2 DEF Alternating, Alternate
    <3>3. CASE ~Takes(file[j], m)
      <4>1. PICK i \in Uses(m) :
              Successive(i, j, m) /\ Takes(file[i], m) /\ file[i].tid = file[j].tid
        BY <2>2, <3>3 DEF Alternating, Alternate
      <4> QED
        BY <1>2, <1>6, <2>2, <3>3, <4>1
    <3> QED
      BY <3>2, <3>3
  <2> QED
    BY <1>2, <2>1, <2>2
<1>9. ShownFree(m)'
  <2>1. ASSUME NEW i \in Uses(m)', \A j \in Uses(m)' : j <= i
        PROVE  i = n
    BY <1>2, <1>3, <2>1
  <2> QED
    BY <1>1, <1>2, <2>1 DEF ShownFree
<1>10. \A u \in Threads : ~Inside(u, m)'
  BY <1>0, <1>4 DEF Inside, GivingUp, Entering, TypeOK
<1> QED
  BY <1>8, <1>9, <1>10 DEF Alternate

\* What is not written about a mutex changes nothing of its sections.
LEMMA OtherWritten ==
  ASSUME TypeOK, InCall, OwnsInUse, Shown, Alternating, NEW m \in Mutexes,
         Uses(m)' = Uses(m), \A i \in Uses(m) : file'[i] = file[i],
         \A u \in Threads : Inside(u, m)' <=> Inside(u, m)
  PROVE  /\ Alternate(m)'
         /\ \A u \in Threads : Inside(u, m)' => ShownHolding(u, m)'
         /\ (\A u \in Threads : ~Inside(u, m)') => ShownFree(m)'
<1>1. \A i, j : Successive(i, j, m)' <=> Successive(i, j, m)
  BY DEF Successive
<1>2. \A u : ShownHolding(u, m)' <=> ShownHolding(u, m)
  BY DEF ShownHolding
<1>3. ShownFree(m)' <=> ShownFree(m)
  BY DEF ShownFree
<1>4. ASSUME NEW j \in Uses(m)'
      PROVE  IF Takes(file'[j], m)
             THEN \A i \in Uses(m)' : Successive(i, j, m)' => GivesUp(file'[i], m)
             ELSE \E i \in Uses(m)' :
                    Successive(i, j, m)' /\ Takes(file'[i], m) /\ file'[i].tid = file'[j].tid
  <2>1. CASE Takes(file[j], m)
    BY <1>1, <2>1 DEF Alternating, Alternate
  <2>2. CASE ~Takes(file[j], m)
    <3>1. PICK i \in Uses(m) :
            Successive(i, j, m) /\ Takes(file[i], m) /\ file[i].tid = file[j].tid
      BY <2>2 DEF Alternating, Alternate
    <3> QED
      BY <1>1, <2>2, <3>1
  <2> QED
    BY <2>1, <2>2
<1> QED
  BY <1>2, <1>3, <1>4 DEF Shown, Alternate

\* A line about no section of a mutex lets nobody in or out.
LEMMA InsideKept ==
  ASSUME TypeOK, NEW t \in Threads, NEW phase \in {"enter", "leave"}, Write(t, phase),
         NEW m \in Mutexes, ~Takes(NewLine(t, phase), m), ~GivesUp(NewLine(t, phase), m),
         NEW u \in Threads
  PROVE  Inside(u, m)' <=> Inside(u, m)
<1>1. /\ pc[t] = (IF phase = "enter" THEN "enter_write" ELSE "leave_write")
      /\ pc' = [pc EXCEPT ![t] = IF phase = "enter" THEN "real" ELSE "idle"]
      /\ op' = op /\ owner' = owner
  BY DEF Write, After
<1>2. CASE u = t
  <2>1. ~(op[t].mutex = m /\ op[t].name \in {"lock", "wait"} /\ phase = "leave")
    BY DEF Takes, NewLine
  <2>2. ~(op[t].mutex = m /\ op[t].name \in {"unlock", "wait"} /\ phase = "enter")
    BY DEF GivesUp, NewLine
  <2> QED
    BY <1>1, <1>2, <2>1, <2>2 DEF Inside, GivingUp, Taken, Entering, Leaving, TypeOK
<1>3. CASE u # t
  BY <1>1, <1>3 DEF Inside, GivingUp, Taken, TypeOK
<1> QED
  BY <1>2, <1>3

LEMMA SectionsStep ==
  ASSUME TypeOK, InCall, Creation, OwnsInUse, Shown, Alternating, ~Losses, [Next]_vars
  PROVE  Shown' /\ Alternating'
<1> SUFFICES ASSUME NEW m \in Mutexes
             PROVE  /\ Alternate(m)'
                    /\ \A u \in Threads : Inside(u, m)' => ShownHolding(u, m)'
                    /\ (\A u \in Threads : ~Inside(u, m)') => ShownFree(m)'
  BY DEF Shown, Alternating
<1>1. CASE UNCHANGED vars
  <2>1. Uses(m)' = Uses(m) /\ \A u \in Threads : Inside(u, m)' <=> Inside(u, m)
    BY <1>1 DEF vars, Uses, Takes, GivesUp, Inside, Taken, GivingUp
  <2> QED
    BY <1>1, <2>1, OtherWritten DEF vars
<1>2. ASSUME NEW t \in Threads, Call(t) \/ End(t) \/ Log(t) \/ Real(t),
             ~\E phase \in {"enter", "leave"} : Write(t, phase)
      PROVE  /\ Alternate(m)'
             /\ \A u \in Threads : Inside(u, m)' => ShownHolding(u, m)'
             /\ (\A u \in Threads : ~Inside(u, m)') => ShownFree(m)'
  <2>1. ~\E phase \in {"enter", "leave"} : Write(t, phase) \/ Lose(t, phase)
    BY <1>2 DEF Lose
  <2>2. \A u \in Threads : Inside(u, m)' <=> Inside(u, m)
    BY <1>2, <2>1, InsideSteps
  <2>3. file' = file
    BY <1>2, WhoWrites
  <2>4. Uses(m)' = Uses(m)
    BY <2>3 DEF Uses
  <2> QED
    BY <2>2, <2>3, <2>4, OtherWritten
<1>3. ASSUME NEW t \in Threads, NEW phase \in {"enter", "leave"}, Write(t, phase)
      PROVE  /\ Alternate(m)'
             /\ \A u \in Threads : Inside(u, m)' => ShownHolding(u, m)'
             /\ (\A u \in Threads : ~Inside(u, m)') => ShownFree(m)'
  <2>1. CASE Takes(NewLine(t, phase), m)
    <3>1. phase = "leave" /\ op[t].name \in {"lock", "wait"} /\ op[t].mutex = m
      BY <2>1 DEF Takes, NewLine
    <3> QED
      BY <1>3, <3>1, TakingWritten
  <2>2. CASE GivesUp(NewLine(t, phase), m)
    <3>1. phase = "enter" /\ op[t].name \in {"unlock", "wait"} /\ op[t].mutex = m
      BY <2>2 DEF GivesUp, NewLine
    <3> QED
      BY <1>3, <3>1, GivingUpWritten
  <2>3. CASE ~Takes(NewLine(t, phase), m) /\ ~GivesUp(NewLine(t, phase), m)
    <3>1. file' = Append(file, NewLine(t, phase)) /\ NewLine(t, phase) \in LineType
      BY <1>3, LineInType DEF Write, NewLine
    <3>2. Uses(m)' = Uses(m) /\ \A i \in Uses(m) : file'[i] = file[i]
      BY <2>3, <3>1, AppendLine DEF TypeOK
    <3>3. \A u \in Threads : Inside(u, m)' <=> Inside(u, m)
      BY <1>3, <2>3, InsideKept
    <3> QED
      BY <3>2, <3>3, OtherWritten
  <2> QED
    BY <2>1, <2>2, <2>3
<1> QED
  BY <1>1, <1>2, <1>3 DEF Next

\* Lock lines and unlock lines of each mutex alternate in the file, each pair by one
\* thread: what hooks/sync_hook.c writes around the real calls, and so outside the
\* section on one side of it, still shows no two sections overlapping.
THEOREM HookSectionsDisjoint == Spec => []SectionsDisjoint
<1> DEFINE HInv == TypeOK /\ InCall /\ Creation /\ OwnsInUse /\ (~Losses => Shown /\ Alternating)
<1>1. Init => HInv
  <2> SUFFICES ASSUME Init PROVE HInv
    OBVIOUS
  <2>1. Creation /\ OwnsInUse
    BY DEF Init, Creation, Creating, OwnsInUse, GivingUp, Taken, Entering, Leaving
  <2>2. \A m : Uses(m) = {}
    BY EmptySeq DEF Init, Uses
  <2>3. \A m \in Mutexes : ShownFree(m) /\ Alternate(m)
    BY <2>2 DEF ShownFree, Alternate
  <2>4. \A m \in Mutexes, t \in Threads : ~Inside(t, m)
    BY HookAssumption DEF Init, Inside
  <2> QED
    BY <2>1, <2>3, <2>4, InitTyped DEF Shown, Alternating
<1>2. HInv /\ [Next]_vars => HInv'
  <2> SUFFICES ASSUME HInv, [Next]_vars PROVE HInv'
    OBVIOUS
  <2>1. TypeOK' /\ InCall' /\ Creation' /\ OwnsInUse'
    BY TypeStep, InCallStep, CreationStep, OwnsStep
  <2> QED
    BY <2>1, SectionsStep
<1>3. HInv => SectionsDisjoint
  BY DEF SectionsDisjoint, Alternating
<1> QED
  BY <1>1, <1>2, <1>3, PTL DEF Spec

(***************************************************************************)
(* The sequence numbers of a mutex's lines.                                 *)
(***************************************************************************)
\* A thread about to write a line that uses the mutex.
Writing(t, m) ==
  \/ pc[t] = "enter_write" /\ GivingUp(t, m)
  \/ pc[t] = "leave_write" /\ Taken(t, m)

\* No number was given out that the counter has not reached, and the number a thread
\* holds for a use of a mutex is above those of the uses written: it drew it as the
\* owner, and nobody else writes a use before it gives the mutex up.
Counted ==
  /\ \A i \in DOMAIN file : file[i].seq <= sync_seq
  /\ \A t \in Threads : drawn[t] <= sync_seq
  /\ \A t \in Threads, m \in Mutexes :
       Writing(t, m) => \A i \in Uses(m) : file[i].seq < drawn[t]

LEMMA LineSeq ==
  ASSUME TypeOK
  PROVE  /\ \A i \in DOMAIN file : file[i] \in LineType /\ file[i].seq \in Nat
         /\ sync_seq \in Nat
         /\ \A t \in Threads : drawn[t] \in Nat
<1>1. \A i \in DOMAIN file : file[i] \in LineType
  BY ElementOfSeq, LenProperties DEF TypeOK
<1>2. \A l \in LineType : l.seq \in Nat
  BY DEF LineType
<1> QED
  BY <1>1, <1>2 DEF TypeOK

LEMMA DrawCounted ==
  ASSUME TypeOK, OwnsInUse, Counted, SectionsNumbered,
         NEW t \in Threads, NEW phase \in {"enter", "leave"}, Draw(t, phase)
  PROVE  Counted' /\ SectionsNumbered'
<1>1. /\ file' = file /\ sync_seq' = sync_seq + 1 /\ drawn' = [drawn EXCEPT ![t] = sync_seq + 1]
      /\ op' = op /\ pc' = [pc EXCEPT ![t] = IF phase = "enter" THEN "enter_write" ELSE "leave_write"]
  BY DEF Draw
<1>2. \A m : Uses(m)' = Uses(m) /\ Uses(m) \subseteq DOMAIN file
  BY <1>1 DEF Uses
<1>3. SectionsNumbered'
  BY <1>1, <1>2 DEF SectionsNumbered
<1>4. \A i \in DOMAIN file' : file'[i].seq <= sync_seq'
  BY <1>1, LineSeq DEF Counted
<1>5. drawn'[t] = sync_seq + 1 /\ \A u \in Threads : u # t => drawn'[u] = drawn[u]
  BY <1>1 DEF TypeOK
<1>6. \A u \in Threads : drawn'[u] <= sync_seq'
  BY <1>1, <1>5, LineSeq DEF Counted
<1>7. ASSUME NEW u \in Threads, NEW m \in Mutexes, Writing(u, m)', NEW i \in Uses(m)
      PROVE  file[i].seq < drawn'[u]
  <2>1. CASE u = t
    BY <1>2, <1>5, <2>1, LineSeq DEF Counted
  <2>2. CASE u # t
    <3>1. Writing(u, m)
      BY <1>1, <1>7, <2>2 DEF Writing, GivingUp, Taken, TypeOK
    <3> QED
      BY <1>5, <2>2, <3>1 DEF Counted
  <2> QED
    BY <2>1, <2>2
<1> QED
  BY <1>1, <1>2, <1>3, <1>4, <1>6, <1>7 DEF Counted

LEMMA WriteCounted ==
  ASSUME TypeOK, OwnsInUse, Counted, SectionsNumbered,
         NEW t \in Threads, NEW phase \in {"enter", "leave"}, Write(t, phase)
  PROVE  Counted' /\ SectionsNumbered'
<1> DEFINE l == NewLine(t, phase)
<1> PICK n : n = Len(file) + 1
  OBVIOUS
<1>0. /\ pc[t] = (IF phase = "enter" THEN "enter_write" ELSE "leave_write")
      /\ pc' = [pc EXCEPT ![t] = IF phase = "enter" THEN "real" ELSE "idle"]
      /\ op' = op /\ sync_seq' = sync_seq /\ drawn' = drawn
      /\ file' = Append(file, l)
  BY DEF Write, NewLine, After
<1>1. /\ l \in LineType /\ l.seq = drawn[t]
      /\ \A m \in Mutexes : Takes(l, m) \/ GivesUp(l, m) => Writing(t, m)
  BY <1>0, LineInType DEF NewLine, Takes, GivesUp, Writing, GivingUp, Taken, Entering, Leaving
<1> HIDE DEF l
<1>2. /\ DOMAIN file = 1 .. Len(file) /\ DOMAIN file' = 1 .. n /\ Len(file) \in Nat
      /\ file'[n] = l /\ \A i \in DOMAIN file : file'[i] = file[i]
      /\ \A m : Uses(m) \subseteq DOMAIN file
      /\ \A m : Uses(m)' = IF Takes(l, m) \/ GivesUp(l, m) THEN Uses(m) \cup {n} ELSE Uses(m)
  BY <1>0, <1>1, AppendLine DEF TypeOK
<1>3. \A i \in DOMAIN file' : file'[i].seq <= sync_seq'
  <2>1. \A i \in DOMAIN file' : i \in DOMAIN file \/ i = n
    BY <1>2
  <2> QED
    BY <1>0, <1>1, <1>2, <2>1 DEF Counted
<1>4. ASSUME NEW m \in Mutexes, NEW i \in Uses(m)', NEW j \in Uses(m)', i < j
      PROVE  file'[i].seq < file'[j].seq
  <2>1. i \in Uses(m)
    BY <1>2, <1>4
  <2>2. CASE j = n
    <3>1. Writing(t, m)
      BY <1>1, <1>2, <1>4, <2>2
    <3> QED
      BY <1>1, <1>2, <2>1, <2>2, <3>1 DEF Counted
  <2>3. CASE j \in Uses(m)
    BY <1>2, <1>4, <2>1, <2>3 DEF SectionsNumbered
  <2> QED
    BY <1>2, <2>2, <2>3
<1>5. ASSUME NEW u \in Threads, NEW m \in Mutexes, Writing(u, m)'
      PROVE  Writing(u, m) /\ u # t
  <2>1. pc'[t] # "enter_write" /\ pc'[t] # "leave_write"
    BY <1>0 DEF TypeOK
  <2> QED
    BY <1>0, <1>5, <2>1 DEF Writing, GivingUp, Taken, TypeOK
<1>6. ASSUME NEW u \in Threads, NEW m \in Mutexes, Writing(u, m)', NEW i \in Uses(m)'
      PROVE  file'[i].seq < drawn'[u]
  <2>1. Writing(u, m) /\ u # t /\ owner[m] = u
    BY <1>5, <1>6 DEF Writing, OwnsInUse
  <2>2. ~Writing(t, m)
    BY <2>1 DEF Writing, OwnsInUse
  <2>3. i \in Uses(m)
    BY <1>1, <1>2, <2>2
  <2> QED
    BY <1>0, <1>2, <2>1, <2>3 DEF Counted
<1> QED
  BY <1>0, <1>3, <1>4, <1>6 DEF Counted, SectionsNumbered

LEMMA CountedStep ==
  ASSUME TypeOK, OwnsInUse, Counted, SectionsNumbered, [Next]_vars
  PROVE  Counted' /\ SectionsNumbered'
<1>1. ASSUME file' = file, sync_seq' = sync_seq, drawn' = drawn,
             \A t \in Threads, m \in Mutexes : Writing(t, m)' => Writing(t, m)
      PROVE  Counted' /\ SectionsNumbered'
  <2>1. \A m : Uses(m)' = Uses(m)
    BY <1>1 DEF Uses
  <2> QED
    BY <1>1, <2>1 DEF Counted, SectionsNumbered
<1>2. CASE UNCHANGED vars
  BY <1>1, <1>2 DEF vars, Writing, GivingUp, Taken
<1>3. ASSUME NEW t \in Threads, Call(t) \/ End(t)
      PROVE  Counted' /\ SectionsNumbered'
  BY <1>1, <1>3 DEF Call, End, Writing, GivingUp, Taken, TypeOK
<1>4. ASSUME NEW t \in Threads, NEW phase \in {"enter", "leave"}, Lose(t, phase)
      PROVE  Counted' /\ SectionsNumbered'
  BY <1>1, <1>4 DEF Lose, After, Writing, GivingUp, Taken, TypeOK
<1>5. ASSUME NEW t \in Threads, Real(t)
      PROVE  Counted' /\ SectionsNumbered'
  <2>1. file' = file /\ sync_seq' = sync_seq /\ drawn' = drawn /\ op' = op
    BY <1>5
    DEF Real, RealCreate, RealJoin, RealLock, RealUnlock, RealSleep, SpuriousWake, RealRetake,
        RealWake, Unchanged
  <2>2. \A u \in Threads : pc'[u] \in {"enter_write", "leave_write"} => pc'[u] = pc[u]
    <3>1. CASE RealCreate(t) \/ RealJoin(t) \/ SpuriousWake(t) \/ RealRetake(t)
      BY <3>1 DEF RealCreate, RealJoin, SpuriousWake, RealRetake, TypeOK
    <3>2. CASE RealLock(t) \/ RealUnlock(t) \/ RealSleep(t)
      BY <3>2 DEF RealLock, RealUnlock, RealSleep, TypeOK
    <3>3. CASE RealWake(t)
      BY <3>3 DEF RealWake, TypeOK
    <3> QED
      BY <1>5, <3>1, <3>2, <3>3 DEF Real
  <2> QED
    BY <1>1, <2>1, <2>2 DEF Writing, GivingUp, Taken
<1> QED
  BY <1>2, <1>3, <1>4, <1>5, DrawCounted, WriteCounted DEF Next, Log

\* On each mutex the sequence numbers rise from line to line of the file, whatever lines
\* are lost, although log_sync_event draws a number and writes it in two steps that
\* those of the other threads may come between.
THEOREM HookSectionsNumbered == Spec => []SectionsNumbered
<1> DEFINE HInv == TypeOK /\ InCall /\ OwnsInUse /\ Counted /\ SectionsNumbered
<1>1. Init => HInv
  <2> SUFFICES ASSUME Init PROVE HInv
    OBVIOUS
  <2>1. OwnsInUse
    BY DEF Init, OwnsInUse, GivingUp, Taken, Entering, Leaving
  <2>2. DOMAIN file = {} /\ \A m : Uses(m) = {}
    BY EmptySeq DEF Init, Uses
  <2>3. Counted
    BY <2>2 DEF Init, Counted
  <2>4. SectionsNumbered
    BY <2>2 DEF SectionsNumbered
  <2> QED
    BY <2>1, <2>3, <2>4, InitTyped
<1>2. HInv /\ [Next]_vars => HInv'
  BY TypeStep, InCallStep, OwnsStep, CountedStep
<1> QED
  BY <1>1, <1>2, PTL DEF Spec

(***************************************************************************)
(* A deadlock in the file.                                                  *)
(***************************************************************************)
\* The last line of a thread in a real call is the enter line of that call.
EnteringShown == \A t \in Threads : pc[t] = "real" => ShownEntering(t, op[t])

LEMMA EnteringStep ==
  ASSUME TypeOK, EnteringShown, ~Losses, [Next]_vars
  PROVE  EnteringShown'
<1>1. ASSUME file' = file,
             \A u \in Threads : pc'[u] = "real" => pc[u] = "real" /\ op'[u] = op[u]
      PROVE  EnteringShown'
  BY <1>1 DEF EnteringShown, ShownEntering
<1>2. CASE UNCHANGED vars
  BY <1>1, <1>2 DEF vars
<1>3. ASSUME NEW t \in Threads, Call(t) \/ End(t)
      PROVE  EnteringShown'
  BY <1>1, <1>3 DEF Call, End, TypeOK
<1>4. ASSUME NEW t \in Threads, NEW phase \in {"enter", "leave"}, Draw(t, phase)
      PROVE  EnteringShown'
  BY <1>1, <1>4 DEF Draw, TypeOK
<1>5. ASSUME NEW t \in Threads, NEW phase \in {"enter", "leave"}, Lose(t, phase)
      PROVE  FALSE
  BY <1>5 DEF Lose
<1>6. ASSUME NEW t \in Threads, NEW phase \in {"enter", "leave"}, Write(t, phase)
      PROVE  EnteringShown'
  <2> DEFINE l == NewLine(t, phase)
  <2> PICK n : n = Len(file) + 1
    OBVIOUS
  <2>1. /\ pc' = [pc EXCEPT ![t] = IF phase = "enter" THEN "real" ELSE "idle"]
        /\ op' = op /\ file' = Append(file, l)
    BY <1>6 DEF Write, NewLine, After
  <2>2. l \in LineType /\ l.tid = t /\ l.op = op[t] /\ l.phase = phase
    BY LineInType DEF NewLine
  <2> HIDE DEF l
  <2>3. /\ DOMAIN file = 1 .. Len(file) /\ DOMAIN file' = 1 .. n /\ Len(file) \in Nat
        /\ file'[n] = l /\ \A i \in DOMAIN file : file'[i] = file[i]
    BY <2>1, <2>2, AppendLine DEF TypeOK
  <2>4. \A i \in DOMAIN file' : i <= n /\ (i \in DOMAIN file \/ i = n)
    BY <2>3
  <2>5. n \in DOMAIN file' /\ DOMAIN file \subseteq DOMAIN file'
    BY <2>3
  <2>6. ASSUME NEW u \in Threads, pc'[u] = "real"
        PROVE  ShownEntering(u, op[u])'
    <3>1. CASE u = t
      <4>1. phase = "enter"
        BY <1>6, <2>1, <2>6, <3>1 DEF TypeOK
      <4> QED
        BY <2>1, <2>2, <2>3, <2>4, <2>5, <3>1, <4>1 DEF ShownEntering
    <3>2. CASE u # t
      <4>1. pc[u] = "real"
        BY <2>1, <2>6, <3>2 DEF TypeOK
      <4>2. PICK i \in DOMAIN file :
              /\ file[i].tid = u /\ file[i].op = op[u] /\ file[i].phase = "enter"
              /\ \A j \in DOMAIN file : file[j].tid = u => j <= i
        BY <4>1 DEF EnteringShown, ShownEntering
      <4>3. \A j \in DOMAIN file' : file'[j].tid = u => j <= i
        BY <2>2, <2>3, <2>4, <3>2, <4>2
      <4> QED
        BY <2>1, <2>3, <2>5, <4>2, <4>3 DEF ShownEntering
    <3> QED
      BY <3>1, <3>2
  <2> QED
    BY <2>6 DEF EnteringShown
<1>7. ASSUME NEW t \in Threads, Real(t)
      PROVE  EnteringShown'
  <2>1. file' = file /\ op' = op
    BY <1>7
    DEF Real, RealCreate, RealJoin, RealLock, RealUnlock, RealSleep, SpuriousWake, RealRetake,
        RealWake, Unchanged
  <2>2. \A u \in Threads : pc'[u] = "real" => pc[u] = "real"
    <3>1. CASE RealCreate(t) \/ RealJoin(t) \/ SpuriousWake(t) \/ RealRetake(t)
      BY <3>1 DEF RealCreate, RealJoin, SpuriousWake, RealRetake, TypeOK
    <3>2. CASE RealLock(t) \/ RealUnlock(t) \/ RealSleep(t)
      BY <3>2 DEF RealLock, RealUnlock, RealSleep, TypeOK
    <3>3. CASE RealWake(t)
      BY <3>3 DEF RealWake, TypeOK
    <3> QED
      BY <1>7, <3>1, <3>2, <3>3 DEF Real
  <2> QED
    BY <1>1, <2>1, <2>2
<1> QED
  BY <1>2, <1>3, <1>4, <1>5, <1>6, <1>7 DEF Next, Log

\* When a thread is blocked on a mutex whose holder is blocked on one too, the file shows
\* what each is waiting for (its last line enters that lock) and what the holder holds
\* (the last use of the mutex is its taking): the chain of a deadlock can be read there.
THEOREM HookDeadlockVisible == Spec => []DeadlockVisible
<1> DEFINE HInv == /\ TypeOK /\ InCall /\ Creation /\ OwnsInUse
                   /\ ~Losses => Shown /\ Alternating /\ EnteringShown
<1>1. Init => HInv
  <2> SUFFICES ASSUME Init PROVE HInv
    OBVIOUS
  <2>1. Creation /\ OwnsInUse /\ EnteringShown
    BY DEF Init, Creation, Creating, OwnsInUse, GivingUp, Taken, Entering, Leaving, EnteringShown
  <2>2. \A m : Uses(m) = {}
    BY EmptySeq DEF Init, Uses
  <2>3. \A m \in Mutexes : ShownFree(m) /\ Alternate(m)
    BY <2>2 DEF ShownFree, Alternate
  <2>4. \A m \in Mutexes, t \in Threads : ~Inside(t, m)
    BY HookAssumption DEF Init, Inside
  <2> QED
    BY <2>1, <2>3, <2>4, InitTyped DEF Shown, Alternating
<1>2. HInv /\ [Next]_vars => HInv'
  <2> SUFFICES ASSUME HInv, [Next]_vars PROVE HInv'
    OBVIOUS
  <2>1. TypeOK' /\ InCall' /\ Creation' /\ OwnsInUse'
    BY TypeStep, InCallStep, CreationStep, OwnsStep
  <2> QED
    BY <2>1, SectionsStep, EnteringStep
<1>3. HInv => DeadlockVisible
  <2> SUFFICES ASSUME HInv, ~Losses, NEW t \in Threads, Blocked(t)
               PROVE  /\ ShownEntering(t, op[t])
                      /\ Blocked(owner[op[t].mutex])
                           => ShownHolding(owner[op[t].mutex], op[t].mutex)
    BY DEF DeadlockVisible
  <2>1. ShownEntering(t, op[t])
    BY DEF Blocked, EnteringShown
  <2>2. ASSUME Blocked(owner[op[t].mutex])
        PROVE  ShownHolding(owner[op[t].mutex], op[t].mutex)
    <3>1. op[t].mutex \in Mutexes /\ owner[op[t].mutex] \in Threads
      BY DEF Blocked, InCall, HasArguments, Entering, TypeOK
    <3>2. Inside(owner[op[t].mutex], op[t].mutex)
      BY <2>2, <3>1 DEF Blocked, Inside, Taken, GivingUp, Leaving
    <3> QED
      BY <3>1, <3>2 DEF Shown
  <2> QED
    BY <2>1, <2>2
<1> QED
  BY <1>1, <1>2, <1>3, PTL DEF Spec

(***************************************************************************)
(* Creation and join in the file.                                           *)
(***************************************************************************)
\* Who is unborn has written nothing; who was joined has ended, and so has who was
\* joined according to the file.
Lifetimes ==
  /\ \A u \in Threads : pc[u] = "unborn" => \A i \in DOMAIN file : file[i].tid # u
  /\ \A t \in Threads :
       pc[t] \in Leaving /\ op[t].name = "join" => pc[op[t].thread] = "ended"
  /\ \A i \in DOMAIN file :
       file[i].op.name = "join" /\ file[i].phase = "leave"
         => file[i].op.thread \in Threads /\ pc[file[i].op.thread] = "ended"

\* Nobody becomes unborn, and nobody who has ended does anything.
LEMMA LifetimesStable ==
  ASSUME TypeOK, InCall, Creation, [Next]_vars, NEW u \in Threads
  PROVE  /\ pc'[u] = "unborn" => pc[u] = "unborn"
         /\ pc[u] = "ended" => pc'[u] = "ended"
<1>1. CASE UNCHANGED vars
  BY <1>1 DEF vars
<1>2. ASSUME NEW t \in Threads, Call(t) \/ End(t)
      PROVE  (pc'[u] = "unborn" => pc[u] = "unborn") /\ (pc[u] = "ended" => pc'[u] = "ended")
  BY <1>2 DEF Call, End, TypeOK
<1>3. ASSUME NEW t \in Threads, Log(t)
      PROVE  (pc'[u] = "unborn" => pc[u] = "unborn") /\ (pc[u] = "ended" => pc'[u] = "ended")
  BY <1>3 DEF Log, Draw, Write, Lose, After, TypeOK
<1>4. ASSUME NEW t \in Threads, Real(t)
      PROVE  (pc'[u] = "unborn" => pc[u] = "unborn") /\ (pc[u] = "ended" => pc'[u] = "ended")
  <2>1. CASE RealCreate(t)
    <3>1. op[t].thread \in Threads /\ Creating(t, op[t].thread)
      BY <2>1 DEF RealCreate, InCall, HasArguments, Creating, Entering
    <3>2. pc[op[t].thread] = "unborn"
      BY <3>1 DEF Creation
    <3> QED
      BY <2>1, <3>1, <3>2 DEF RealCreate, TypeOK
  <2>2. CASE RealJoin(t) \/ SpuriousWake(t) \/ RealRetake(t)
    BY <2>2 DEF RealJoin, SpuriousWake, RealRetake, TypeOK
  <2>3. CASE RealLock(t) \/ RealUnlock(t) \/ RealSleep(t)
    BY <2>3 DEF RealLock, RealUnlock, RealSleep, TypeOK
  <2>4. CASE RealWake(t)
    BY <2>4 DEF RealWake, Sleepers, TypeOK
  <2> QED
    BY <1>4, <2>1, <2>2, <2>3, <2>4 DEF Real
<1> QED
  BY <1>1, <1>2, <1>3, <1>4 DEF Next

LEMMA LifetimesStep ==
  ASSUME TypeOK, InCall, Creation, Lifetimes, ForkJoinOrdered, [Next]_vars
  PROVE  Lifetimes' /\ ForkJoinOrdered'
<1>0. \A u \in Threads : /\ pc'[u] = "unborn" => pc[u] = "unborn"
                         /\ pc[u] = "ended" => pc'[u] = "ended"
  BY LifetimesStable
<1>1. ASSUME file' = file,
             \A t \in Threads :
               pc'[t] \in Leaving /\ op'[t].name = "join" => pc'[op'[t].thread] = "ended"
      PROVE  Lifetimes' /\ ForkJoinOrdered'
  BY <1>0, <1>1 DEF Lifetimes, ForkJoinOrdered
<1>2. CASE UNCHANGED vars
  BY <1>1, <1>2 DEF vars, Lifetimes
<1>3. ASSUME NEW t \in Threads,
             (Call(t) \/ End(t) \/ Log(t)) /\ ~\E phase \in {"enter", "leave"} : Write(t, phase)
      PROVE  Lifetimes' /\ ForkJoinOrdered'
  <2>1. file' = file /\ \A u \in Threads : u # t => pc'[u] = pc[u] /\ op'[u] = op[u]
    BY <1>3 DEF Call, End, Log, Draw, Lose, TypeOK
  <2>2. pc'[t] \in Leaving => pc[t] \in Leaving /\ op'[t] = op[t]
    BY <1>3 DEF Call, End, Log, Draw, Lose, After, TypeOK, Leaving
  <2>3. \A u \in Threads : pc[u] \in Leaving /\ op[u].name = "join" => op[u].thread \in Threads
    BY DEF InCall, HasArguments
  <2>4. \A u \in Threads : pc'[u] \in Leaving => pc[u] \in Leaving /\ op'[u] = op[u]
    BY <2>1, <2>2
  <2>5. \A u \in Threads :
          pc'[u] \in Leaving /\ op'[u].name = "join" => pc'[op'[u].thread] = "ended"
    BY <1>0, <2>3, <2>4 DEF Lifetimes
  <2> QED
    BY <1>1, <2>1, <2>5
<1>4. ASSUME NEW t \in Threads, NEW phase \in {"enter", "leave"}, Write(t, phase)
      PROVE  Lifetimes' /\ ForkJoinOrdered'
  <2> DEFINE l == NewLine(t, phase)
  <2> PICK n : n = Len(file) + 1
    OBVIOUS
  <2>1. /\ pc[t] = (IF phase = "enter" THEN "enter_write" ELSE "leave_write")
        /\ pc' = [pc EXCEPT ![t] = IF phase = "enter" THEN "real" ELSE "idle"]
        /\ op' = op /\ file' = Append(file, l)
    BY <1>4 DEF Write, NewLine, After
  <2>2. l \in LineType /\ l.tid = t /\ l.op = op[t] /\ l.phase = phase
    BY LineInType DEF NewLine
  <2> HIDE DEF l
  <2>3. /\ DOMAIN file = 1 .. Len(file) /\ DOMAIN file' = 1 .. n /\ Len(file) \in Nat
        /\ file'[n] = l /\ \A i \in DOMAIN file : file'[i] = file[i]
    BY <2>1, <2>2, AppendLine DEF TypeOK
  <2>4. \A i \in DOMAIN file' : i \in DOMAIN file \/ i = n
    BY <2>3
  <2>5. HasArguments(op[t])
    BY <2>1 DEF InCall, Entering, Leaving
  <2>6. l.op.name = "create" /\ l.phase = "enter"
          => l.op.thread \in Threads /\ pc[l.op.thread] = "unborn"
    BY <2>1, <2>2, <2>5 DEF HasArguments, Creation, Creating, Entering
  <2>7. l.op.name = "join" /\ l.phase = "leave"
          => l.op.thread \in Threads /\ pc[l.op.thread] = "ended"
    BY <2>1, <2>2, <2>5 DEF HasArguments, Lifetimes, Leaving
  <2>8. ASSUME NEW u \in Threads, pc'[u] = "unborn", NEW i \in DOMAIN file'
        PROVE  file'[i].tid # u
    <3>1. pc[u] = "unborn" /\ u # t
      BY <1>0, <2>1, <2>8
    <3> QED
      BY <2>2, <2>3, <2>4, <3>1 DEF Lifetimes
  <2>9. ASSUME NEW u \in Threads, pc'[u] \in Leaving, op'[u].name = "join"
        PROVE  pc'[op'[u].thread] = "ended"
    <3>1. pc[u] \in Leaving /\ op'[u] = op[u]
      BY <2>1, <2>9 DEF Leaving, TypeOK
    <3>2. op[u].thread \in Threads /\ pc[op[u].thread] = "ended"
      BY <2>9, <3>1 DEF InCall, HasArguments, Lifetimes
    <3> QED
      BY <1>0, <3>1, <3>2
  <2>10. ASSUME NEW i \in DOMAIN file', file'[i].op.name = "join", file'[i].phase = "leave"
         PROVE  file'[i].op.thread \in Threads /\ pc'[file'[i].op.thread] = "ended"
    BY <1>0, <2>3, <2>4, <2>7, <2>10 DEF Lifetimes
  <2>11. ASSUME NEW i \in DOMAIN file', NEW j \in DOMAIN file', i < j
         PROVE  /\ ~(/\ file'[j].op.name = "create" /\ file'[j].phase = "enter"
                      /\ file'[i].tid = file'[j].op.thread)
                /\ ~(/\ file'[i].op.name = "join" /\ file'[i].phase = "leave"
                      /\ file'[j].tid = file'[i].op.thread)
    <3>1. i \in DOMAIN file
      BY <2>3, <2>11
    <3>2. CASE j \in DOMAIN file
      BY <2>3, <2>11, <3>1, <3>2 DEF ForkJoinOrdered
    <3>3. CASE j = n
      <4>1. ~(/\ l.op.name = "create" /\ l.phase = "enter" /\ file[i].tid = l.op.thread)
        BY <2>6, <3>1 DEF Lifetimes
      <4>2. ~(file[i].op.name = "join" /\ file[i].phase = "leave" /\ t = file[i].op.thread)
        BY <2>1, <3>1 DEF Lifetimes
      <4> QED
        BY <2>2, <2>3, <3>1, <3>3, <4>1, <4>2
    <3> QED
      BY <2>4, <3>2, <3>3
  <2> QED
    BY <2>8, <2>9, <2>10, <2>11 DEF Lifetimes, ForkJoinOrdered
<1>5. ASSUME NEW t \in Threads, Real(t)
      PROVE  Lifetimes' /\ ForkJoinOrdered'
  <2>1. file' = file /\ op' = op
    BY <1>5
    DEF Real, RealCreate, RealJoin, RealLock, RealUnlock, RealSleep, SpuriousWake, RealRetake,
        RealWake, Unchanged
  <2>2. pc[t] \in {"real", "asleep", "woken"}
    BY <1>5
    DEF Real, RealCreate, RealJoin, RealLock, RealUnlock, RealSleep, SpuriousWake, RealRetake,
        RealWake
  <2>3. \A u \in Threads : u # t /\ pc'[u] \in Leaving => pc[u] \in Leaving
    <3>1. CASE RealCreate(t) \/ RealJoin(t) \/ SpuriousWake(t) \/ RealRetake(t)
      BY <3>1 DEF RealCreate, RealJoin, SpuriousWake, RealRetake, TypeOK, Leaving
    <3>2. CASE RealLock(t) \/ RealUnlock(t) \/ RealSleep(t)
      BY <3>2 DEF RealLock, RealUnlock, RealSleep, TypeOK
    <3>3. CASE RealWake(t)
      BY <3>3 DEF RealWake, TypeOK, Leaving
    <3> QED
      BY <1>5, <3>1, <3>2, <3>3 DEF Real
  <2>4. ASSUME op[t].name = "join"
        PROVE  op[t].thread \in Threads /\ pc[op[t].thread] = "ended"
    <3>1. RealJoin(t)
      BY <1>5, <2>4
      DEF Real, RealCreate, RealLock, RealUnlock, RealSleep, SpuriousWake, RealRetake,
          RealWake, InCall, Waiting
    <3> QED
      BY <2>4, <3>1 DEF RealJoin, InCall, HasArguments, Entering
  <2>5. ASSUME NEW u \in Threads, pc'[u] \in Leaving, op'[u].name = "join"
        PROVE  pc'[op'[u].thread] = "ended"
    <3>1. CASE u = t
      BY <1>0, <2>1, <2>4, <2>5, <3>1
    <3>2. CASE u # t
      BY <1>0, <2>1, <2>3, <2>5, <3>2 DEF InCall, HasArguments, Lifetimes
    <3> QED
      BY <3>1, <3>2
  <2> QED
    BY <1>1, <2>1, <2>5
<1> QED
  BY <1>2, <1>3, <1>4, <1>5 DEF Next, Log

\* In the file every line of a thread stands after the line that enters its creation and
\* before the line that leaves its join, whatever lines are lost.
THEOREM HookForkJoinOrdered == Spec => []ForkJoinOrdered
<1> DEFINE HInv == TypeOK /\ InCall /\ Creation /\ Lifetimes /\ ForkJoinOrdered
<1>1. Init => HInv
  <2> SUFFICES ASSUME Init PROVE HInv
    OBVIOUS
  <2>1. DOMAIN file = {}
    BY EmptySeq DEF Init
  <2>2. Creation /\ Lifetimes /\ ForkJoinOrdered
    BY <2>1 DEF Init, Creation, Creating, Entering, Leaving, Lifetimes, ForkJoinOrdered
  <2> QED
    BY <2>2, InitTyped
<1>2. HInv /\ [Next]_vars => HInv'
  BY TypeStep, InCallStep, CreationStep, LifetimesStep
<1> QED
  BY <1>1, <1>2, PTL DEF Spec
=============================================================================
