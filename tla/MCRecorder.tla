----------------------------- MODULE MCRecorder -----------------------------
(***************************************************************************)
(* Small instances of the recorder: three programs and the results their    *)
(* syscalls may get.                                                         *)
(***************************************************************************)
EXTENDS Recorder

MCOtherCalls == {"write"}

R(ret_, mem_) == [ret |-> ret_, mem |-> mem_]

\* A failed, an empty, a short and a long read; one and two random bytes; a
\* time; a write.  Bytes beyond the return value are the buffer's old content.
MCLiveResults ==
  [c \in Calls \ {"exit_group"} |->
     CASE c = "read" -> {R(-1, <<>>), R(0, <<1>>), R(1, <<1, 1>>), R(3, <<0, 1, 1>>)}
       [] c = "getrandom" -> {R(1, <<0>>), R(2, <<1, 0>>)}
       [] c \in TimeCalls -> {R(0, <<1>>), R(-1, <<0>>)}
       [] OTHER -> {R(1, <<>>)}]

\* Reads, branches on what it read, takes the time and exits.
Branching(h) ==
  CASE Len(h) = 0 -> "read"
    [] Len(h) = 1 -> IF h[1].ret > 0 THEN "getrandom" ELSE "write"
    [] Len(h) = 2 -> "clock_gettime"
    [] OTHER -> "exit_group"

\* One random number and out.
Short(h) == IF h = << >> THEN "getrandom" ELSE "exit_group"

\* A read, then a random number when it got something.
Reads(h) ==
  CASE Len(h) = 0 -> "read"
    [] Len(h) = 1 -> IF h[1].ret > 0 THEN "getrandom" ELSE "exit_group"
    [] OTHER -> "exit_group"

\* Dies of a fault after one read that succeeds.
Faulting(h) ==
  CASE Len(h) = 0 -> "read"
    [] Len(h) = 1 -> IF h[1].ret >= 0 THEN "fault" ELSE "exit_group"
    [] OTHER -> "exit_group"
=============================================================================
