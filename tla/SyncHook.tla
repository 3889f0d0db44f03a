------------------------------- MODULE SyncHook -------------------------------
(***************************************************************************)
(* hooks/sync_hook.c: the pthread functions of the preloaded library, which  *)
(* log a line to events.jsonl before and after the real call.  Threads run   *)
(* an arbitrary program of legal calls.                                     *)
(*                                                                          *)
(* log_sync_event draws a sequence number and then appends the line with one *)
(* O_APPEND write; between the two another thread may do anything.  in_hook  *)
(* is thread-local and only stops recursion, which the calls that            *)
(* log_sync_event makes do not cause; it is not a variable here.             *)
(***************************************************************************)
EXTENDS Integers, Sequences, FiniteSets

CONSTANTS
  Threads, Mutexes, Conds,
  Main,      \* the initial thread
  None,      \* no thread
  Program,   \* the hooked functions the program calls
  MaxCalls,  \* calls it makes
  Losses     \* whether a line may be lost

ASSUME HookAssumption ==
  /\ Main \in Threads
  /\ None \notin Threads
  /\ MaxCalls \in Nat
  /\ Losses \in BOOLEAN

VARIABLES
  file,      \* the SYNC lines of events.jsonl
  sync_seq,
  pc,        \* per thread: where it is in a hooked call
  op,        \* per thread: the hooked call it is in, or was in last
  drawn,     \* per thread: seq, the local of log_sync_event
  calls,     \* hooked calls made
  owner,     \* per mutex: the thread that really holds it
  joined     \* threads some pthread_join has been called for

vars == << file, sync_seq, pc, op, drawn, calls, owner, joined >>

Names == {"create", "join", "lock", "unlock", "wait", "signal", "broadcast"}

\* The arguments of a call: the thread created or joined, the condition, the
\* mutex; those it does not have are None.  In the file a line has the gettid() of its
\* thread, and a creation or a join a pthread_t, or before the thread is there the
\* address the pthread_t goes to.  All three are the thread here: what is said of
\* threads below is of the order of the lines, and not of a reader of the file, who
\* would have to know which pthread_t is which tid.
Op(name, thread, cond, mutex) ==
  [name |-> name, thread |-> thread, cond |-> cond, mutex |-> mutex]
OpType == [name : Names, thread : Threads \cup {None}, cond : Conds \cup {None},
           mutex : Mutexes \cup {None}]

LineType == [tid : Threads, op : OpType, phase : {"enter", "leave"}, seq : Nat]

Places == {"unborn", "idle", "enter", "enter_write", "real", "asleep", "woken",
           "leave", "leave_write", "ended"}

TypeOK ==
  /\ file \in Seq(LineType)
  /\ sync_seq \in Nat
  /\ pc \in [Threads -> Places]
  /\ op \in [Threads -> OpType]
  /\ drawn \in [Threads -> Nat]
  /\ calls \in 0 .. MaxCalls
  /\ owner \in [Mutexes -> Threads \cup {None}]
  /\ joined \subseteq Threads

Init ==
  /\ file = << >>
  /\ sync_seq = 0
  /\ pc = [t \in Threads |-> IF t = Main THEN "idle" ELSE "unborn"]
  /\ op = [t \in Threads |-> Op("signal", None, None, None)]
  /\ drawn = [t \in Threads |-> 0]
  /\ calls = 0
  /\ owner = [m \in Mutexes |-> None]
  /\ joined = {}

(***************************************************************************)
(* The program calls a hooked function.                                     *)
(***************************************************************************)
\* The calls a correct program may make here.
Legal(t, o) ==
  \/ \E u \in Threads : o = Op("create", u, None, None) /\ pc[u] = "unborn"
  \/ \E u \in Threads \ {t, Main} :
       o = Op("join", u, None, None) /\ pc[u] # "unborn" /\ u \notin joined
  \/ \E m \in Mutexes : o = Op("lock", None, None, m) /\ owner[m] # t
  \/ \E m \in Mutexes : o = Op("unlock", None, None, m) /\ owner[m] = t
  \/ \E c \in Conds, m \in Mutexes : o = Op("wait", None, c, m) /\ owner[m] = t
  \/ \E c \in Conds : o \in {Op("signal", None, c, None), Op("broadcast", None, c, None)}

\* No two threads create the same one.
Claimed(o) ==
  o.name = "create" =>
    \A u \in Threads : pc[u] \in {"enter", "enter_write", "real"} => op[u] # o

\* Seeded fault: the real function runs before the enter line is written.
CallRealFirst(t) ==
  /\ pc[t] = "idle"
  /\ calls < MaxCalls
  /\ \E o \in OpType :
       /\ o.name \in Program
       /\ Legal(t, o)
       /\ Claimed(o)
       /\ op' = [op EXCEPT ![t] = o]
       /\ joined' = IF o.name = "join" THEN joined \cup {o.thread} ELSE joined
       /\ owner' = [m \in Mutexes |-> IF o.name = "unlock" /\ o.mutex = m THEN None
                                       ELSE owner[m]]
       /\ pc' = [u \in Threads |-> IF u = t THEN "enter"
                                   ELSE IF o.name = "create" /\ o.thread = u THEN "idle"
                                   ELSE pc[u]]
  /\ calls' = calls + 1
  /\ UNCHANGED << file, sync_seq, drawn >>

Call(t) ==
  /\ pc[t] = "idle"
  /\ calls < MaxCalls
  /\ \E o \in OpType :
       /\ o.name \in Program
       /\ Legal(t, o)
       /\ Claimed(o)
       /\ op' = [op EXCEPT ![t] = o]
       /\ joined' = IF o.name = "join" THEN joined \cup {o.thread} ELSE joined
  /\ calls' = calls + 1
  /\ pc' = [pc EXCEPT ![t] = "enter"]
  /\ UNCHANGED << file, sync_seq, drawn, owner >>

\* A thread that was created returns from its start routine.
End(t) ==
  /\ pc[t] = "idle"
  /\ t # Main
  /\ pc' = [pc EXCEPT ![t] = "ended"]
  /\ UNCHANGED << file, sync_seq, op, drawn, calls, owner, joined >>

(***************************************************************************)
(* log_sync_event.                                                          *)
(***************************************************************************)
\* Seeded faults: the counter is read and not advanced; it is counted down.
DrawRead(t, phase) ==
  /\ pc[t] = phase
  /\ drawn' = [drawn EXCEPT ![t] = sync_seq + 1]
  /\ pc' = [pc EXCEPT ![t] = IF phase = "enter" THEN "enter_write" ELSE "leave_write"]
  /\ UNCHANGED << file, sync_seq, op, calls, owner, joined >>
DrawDown(t, phase) ==
  /\ pc[t] = phase
  /\ sync_seq' = sync_seq - 1
  /\ drawn' = [drawn EXCEPT ![t] = sync_seq']
  /\ pc' = [pc EXCEPT ![t] = IF phase = "enter" THEN "enter_write" ELSE "leave_write"]
  /\ UNCHANGED << file, op, calls, owner, joined >>

\* __sync_add_and_fetch.
Draw(t, phase) ==
  /\ pc[t] = phase
  /\ sync_seq' = sync_seq + 1
  /\ drawn' = [drawn EXCEPT ![t] = sync_seq']
  /\ pc' = [pc EXCEPT ![t] = IF phase = "enter" THEN "enter_write" ELSE "leave_write"]
  /\ UNCHANGED << file, op, calls, owner, joined >>

After(phase) == IF phase = "enter" THEN "real" ELSE "idle"

\* Seeded fault: the line of an enter is kept back and never written.
WriteLeaves(t, phase) ==
  /\ pc[t] = IF phase = "enter" THEN "enter_write" ELSE "leave_write"
  /\ file' = IF phase = "enter" THEN file
             ELSE Append(file, [tid |-> t, op |-> op[t], phase |-> phase, seq |-> drawn[t]])
  /\ pc' = [pc EXCEPT ![t] = After(phase)]
  /\ UNCHANGED << sync_seq, op, drawn, calls, owner, joined >>

Write(t, phase) ==
  /\ pc[t] = IF phase = "enter" THEN "enter_write" ELSE "leave_write"
  /\ file' = Append(file, [tid |-> t, op |-> op[t], phase |-> phase, seq |-> drawn[t]])
  /\ pc' = [pc EXCEPT ![t] = After(phase)]
  /\ UNCHANGED << sync_seq, op, drawn, calls, owner, joined >>

\* ADR_TRACE_DIR is not set or open fails, before a number is drawn; the body does
\* not fit its buffer or write fails, after that.
Lose(t, phase) ==
  /\ Losses
  /\ pc[t] \in IF phase = "enter" THEN {"enter", "enter_write"}
                ELSE {"leave", "leave_write"}
  /\ pc' = [pc EXCEPT ![t] = After(phase)]
  /\ UNCHANGED << file, sync_seq, op, drawn, calls, owner, joined >>

(***************************************************************************)
(* The real functions (external: POSIX threads).                            *)
(***************************************************************************)
Unchanged == UNCHANGED << file, sync_seq, op, drawn, calls, joined >>

RealCreate(t) ==
  /\ pc[t] = "real" /\ op[t].name = "create"
  /\ pc' = [pc EXCEPT ![t] = "leave", ![op[t].thread] = "idle"]
  /\ Unchanged /\ UNCHANGED owner

RealJoin(t) ==
  /\ pc[t] = "real" /\ op[t].name = "join"
  /\ pc[op[t].thread] = "ended"
  /\ pc' = [pc EXCEPT ![t] = "leave"]
  /\ Unchanged /\ UNCHANGED owner

RealLock(t) ==
  /\ pc[t] = "real" /\ op[t].name = "lock"
  /\ owner[op[t].mutex] = None
  /\ owner' = [owner EXCEPT ![op[t].mutex] = t]
  /\ pc' = [pc EXCEPT ![t] = "leave"]
  /\ Unchanged

RealUnlock(t) ==
  /\ pc[t] = "real" /\ op[t].name = "unlock"
  /\ owner' = [owner EXCEPT ![op[t].mutex] = None]
  /\ pc' = [pc EXCEPT ![t] = "leave"]
  /\ Unchanged

\* pthread_cond_wait: release the mutex and sleep; wake, for a signal or for
\* nothing; take the mutex again.
RealSleep(t) ==
  /\ pc[t] = "real" /\ op[t].name = "wait"
  /\ owner' = [owner EXCEPT ![op[t].mutex] = None]
  /\ pc' = [pc EXCEPT ![t] = "asleep"]
  /\ Unchanged

SpuriousWake(t) ==
  /\ pc[t] = "asleep"
  /\ pc' = [pc EXCEPT ![t] = "woken"]
  /\ Unchanged /\ UNCHANGED owner

RealRetake(t) ==
  /\ pc[t] = "woken"
  /\ owner[op[t].mutex] = None
  /\ owner' = [owner EXCEPT ![op[t].mutex] = t]
  /\ pc' = [pc EXCEPT ![t] = "leave"]
  /\ Unchanged

Sleepers(c) == {u \in Threads : pc[u] = "asleep" /\ op[u].cond = c}

RealWake(t) ==
  /\ pc[t] = "real" /\ op[t].name \in {"signal", "broadcast"}
  /\ LET sleepers == Sleepers(op[t].cond)
     IN  \E woken \in SUBSET sleepers :
           /\ op[t].name = "broadcast" => woken = sleepers
           /\ sleepers # {} => woken # {}
           /\ pc' = [u \in Threads |-> IF u = t THEN "leave"
                                       ELSE IF u \in woken THEN "woken" ELSE pc[u]]
  /\ Unchanged /\ UNCHANGED owner

Real(t) ==
  \/ RealCreate(t) \/ RealJoin(t) \/ RealLock(t) \/ RealUnlock(t)
  \/ RealSleep(t) \/ SpuriousWake(t) \/ RealRetake(t) \/ RealWake(t)

Log(t) ==
  \E phase \in {"enter", "leave"} : Draw(t, phase) \/ Write(t, phase) \/ Lose(t, phase)

Next == \E t \in Threads : Call(t) \/ End(t) \/ Log(t) \/ Real(t)

Spec == Init /\ [][Next]_vars

(***************************************************************************)
(* Properties.                                                              *)
(***************************************************************************)
\* What the lines say of a mutex: taken when a lock or a wait is left, given up
\* when an unlock or a wait is entered.
Takes(l, m) == l.op.mutex = m /\ l.op.name \in {"lock", "wait"} /\ l.phase = "leave"
GivesUp(l, m) == l.op.mutex = m /\ l.op.name \in {"unlock", "wait"} /\ l.phase = "enter"
Uses(m) == {i \in DOMAIN file : Takes(file[i], m) \/ GivesUp(file[i], m)}

\* Two uses with no other between them.
Successive(i, j, m) == i < j /\ \A k \in Uses(m) : k <= i \/ j <= k
Alternate(m) ==
  \A j \in Uses(m) :
    IF Takes(file[j], m)
    THEN \A i \in Uses(m) : Successive(i, j, m) => GivesUp(file[i], m)
    ELSE \E i \in Uses(m) :
           Successive(i, j, m) /\ Takes(file[i], m) /\ file[i].tid = file[j].tid

\* In the file, critical sections do not overlap: on every mutex a taking and a
\* giving up alternate, beginning with a taking and each pair by one thread, although
\* the lines are written by the threads themselves some time after and before the
\* real events.
SectionsDisjoint == ~Losses => \A m \in Mutexes : Alternate(m)

\* The numbers tell the same story: on one mutex they rise from line to line, so
\* sorting the file by seq does not make sections overlap.
SectionsNumbered ==
  \A m \in Mutexes : \A i, j \in Uses(m) : i < j => file[i].seq < file[j].seq

\* A deadlock can be read off the file: when a thread is blocked on a mutex whose
\* holder is blocked on one too, the file shows who waits and who holds.
Blocked(t) == /\ pc[t] = "real" /\ op[t].name = "lock"
              /\ owner[op[t].mutex] # None
ShownHolding(t, m) ==
  \E i \in Uses(m) :
    Takes(file[i], m) /\ file[i].tid = t /\ \A j \in Uses(m) : j <= i
ShownEntering(t, o) ==
  \E i \in DOMAIN file :
    /\ file[i].tid = t /\ file[i].op = o /\ file[i].phase = "enter"
    /\ \A j \in DOMAIN file : file[j].tid = t => j <= i
DeadlockVisible ==
  ~Losses => \A t \in Threads :
    Blocked(t) =>
      /\ ShownEntering(t, op[t])
      /\ LET holder == owner[op[t].mutex]
         IN  Blocked(holder) => ShownHolding(holder, op[t].mutex)

\* A thread's lines stand between its creation and the end of its join, whatever
\* lines are lost: creation entered, the thread's lines, join left.
ForkJoinOrdered ==
  \A i, j \in DOMAIN file : i < j =>
    /\ ~(/\ file[j].op.name = "create" /\ file[j].phase = "enter"
         /\ file[i].tid = file[j].op.thread)
    /\ ~(/\ file[i].op.name = "join" /\ file[i].phase = "leave"
         /\ file[j].tid = file[i].op.thread)

=============================================================================
