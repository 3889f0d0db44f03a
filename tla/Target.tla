-------------------------------- MODULE Target --------------------------------
(***************************************************************************)
(* The traced process and the kernel, as the recorder and the replayer see   *)
(* them through ptrace and waitpid (external: modelled from how              *)
(* ptrace_recorder.c and ptrace_replayer.c use them).                        *)
(*                                                                          *)
(* The target's traced thread is a deterministic program: what it does next  *)
(* is a function of the results it has observed so far.  The kernel's        *)
(* results are the only nondeterminism that reaches it.  The result of a     *)
(* syscall that a signal interrupted is one only the tracer sees: the tracer  *)
(* suppresses the signal, and the thread makes the same call again.           *)
(***************************************************************************)
EXTENDS Trace

CONSTANTS
  NextCall(_),  \* what the program has seen so far -> the next syscall, or "fault"
  LiveResults,  \* call -> the results the kernel may give it
  Faults,       \* which of "signal", "kill", "crash", ... the environment has
  MaxSignals    \* how many signals it sends

Result == [ret : Int, mem : Seq(Byte)]

\* -ERESTARTSYS, for the four errors by which the kernel restarts a syscall; it is
\* in rax at the exit stop of an interrupted one and never reaches a program.
Restarts == -512

\* A result fills at least the bytes its return value promises.
ASSUME TargetAssumption ==
  /\ LiveResults \in [Calls \ {"exit_group"} -> SUBSET Result]
  /\ \A c \in DOMAIN LiveResults : \A r \in LiveResults[c] :
       PayloadLen(c, r.ret) <= Len(r.mem) /\ r.ret # Restarts
  /\ MaxSignals \in Nat

VARIABLES
  tstate,  \* where the traced thread is
  hist,    \* the results of its syscalls, in order, the interrupted ones' among them
  call,    \* the syscall it is in (orig_rax)
  ret,     \* the result register (rax)
  mem,     \* the caller's buffer
  signals  \* signals sent so far

targetVars == << tstate, hist, call, ret, mem, signals >>

Stopped == {"raised", "entry", "exitstop", "signal"}
Alive == Stopped \cup {"running", "kernel"}
TStates == Alive \cup {"none", "exited", "killed", "reaped", "detached"}

Take(s, n) == SubSeq(s, 1, IF n <= Len(s) THEN n ELSE Len(s))

\* What a completed syscall shows the program: its return value and as many
\* bytes of the buffer as that value says were filled.
Observation(c, r, m) ==
  [call |-> c, ret |-> r, data |-> Take(m, PayloadLen(c, r))]
ObservationType == [call : Calls, ret : Int, data : Seq(Byte)]

\* What the program itself has seen, and what it does next.
Shown(h) == SelectSeq(h, LAMBDA o : o.ret # Restarts)
Upcoming(h) == NextCall(Shown(h))

\* The syscalls that wait for something, and that a signal can interrupt.
Blocking == {"read"} \cup OtherCalls

TargetTypeOK ==
  /\ tstate \in TStates
  /\ hist \in Seq(ObservationType)
  /\ call \in Calls
  /\ ret \in Int
  /\ mem \in Seq(Byte)
  /\ signals \in Nat

TargetInit ==
  /\ tstate = "none"
  /\ hist = << >>
  /\ call = "exit_group"
  /\ ret = 0
  /\ mem = << >>
  /\ signals = 0

\* A new tracer has no child yet; the registers are the last child's.
TargetUnborn ==
  /\ tstate' = "none"
  /\ hist' = << >>
  /\ UNCHANGED << call, ret, mem, signals >>

\* fork, then the child's PTRACE_TRACEME and raise(SIGSTOP).
TargetFork ==
  /\ tstate' = "raised"
  /\ hist' = << >>
  /\ UNCHANGED << call, ret, mem, signals >>

(***************************************************************************)
(* Steps the target and the kernel take on their own.                       *)
(***************************************************************************)
EnterSyscall ==
  /\ tstate = "running"
  /\ \E c \in Calls : c = Upcoming(hist) /\ call' = c
  /\ tstate' = "entry"
  /\ UNCHANGED << hist, ret, mem, signals >>

KernelReturns ==
  /\ tstate = "kernel"
  /\ call # "exit_group"
  /\ \E r \in LiveResults[call] : ret' = r.ret /\ mem' = r.mem
  /\ tstate' = "exitstop"
  /\ UNCHANGED << hist, call, signals >>

Exits ==
  /\ tstate = "kernel"
  /\ call = "exit_group"
  /\ tstate' = "exited"
  /\ UNCHANGED << hist, call, ret, mem, signals >>

\* A synchronous fault (SIGSEGV, abort): a signal-delivery stop, and another
\* one each time the faulting instruction is resumed without the signal.
FaultStops ==
  /\ tstate = "running"
  /\ Upcoming(hist) = "fault"
  /\ tstate' = "signal"
  /\ UNCHANGED << hist, call, ret, mem, signals >>

\* A signal from outside, between two syscalls: SIGTERM, SIGINT, the SIGTRAP that
\* follows execve.
SignalStops ==
  /\ "signal" \in Faults
  /\ signals < MaxSignals
  /\ tstate = "running"
  /\ tstate' = "signal"
  /\ signals' = signals + 1
  /\ UNCHANGED << hist, call, ret, mem >>

\* One that interrupts a syscall: an exit stop, without a result for the program.  The
\* stop to deliver it comes next; the tracer does nothing there but resume.
Interrupts ==
  /\ "signal" \in Faults
  /\ signals < MaxSignals
  /\ tstate = "kernel"
  /\ call \in Blocking
  /\ ret' = Restarts
  /\ tstate' = "exitstop"
  /\ signals' = signals + 1
  /\ UNCHANGED << hist, call, mem >>

\* SIGKILL takes the target out of any state, a ptrace stop included.
Killed ==
  /\ "kill" \in Faults
  /\ tstate \in Alive
  /\ tstate' = "killed"
  /\ UNCHANGED << hist, call, ret, mem, signals >>

TargetRuns == EnterSyscall \/ KernelReturns \/ Exits \/ FaultStops
TargetNext == TargetRuns \/ SignalStops \/ Interrupts \/ Killed

(***************************************************************************)
(* ptrace and waitpid, as operations of the tracer.                         *)
(***************************************************************************)
\* ptrace(PTRACE_SYSCALL, child, NULL, NULL): resume to the next stop.  The
\* last argument is the signal to deliver: none, whatever the stop was.
\* Resuming an exit stop is when the program sees the syscall's result, if it does.
ResumeTarget ==
  /\ tstate \in Stopped
  /\ tstate' = IF tstate = "entry" THEN "kernel" ELSE "running"
  /\ hist' = IF tstate = "exitstop"
             THEN Append(hist, Observation(call, ret, mem)) ELSE hist
  /\ UNCHANGED << call, ret, mem, signals >>

\* waitpid collecting a death.
ReapTarget ==
  /\ tstate' = "reaped"
  /\ UNCHANGED << hist, call, ret, mem, signals >>

\* The tracer died: without PTRACE_O_EXITKILL the target goes on untraced.
DetachTarget ==
  /\ tstate' = IF tstate \in Alive THEN "detached" ELSE tstate
  /\ UNCHANGED << hist, call, ret, mem, signals >>

=============================================================================
