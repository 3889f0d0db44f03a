------------------------------ MODULE MCReplayer ------------------------------
(***************************************************************************)
(* Small instances of the replayer: programs, the results of their syscalls  *)
(* at recording time and at replay time, and the directories these leave.    *)
(***************************************************************************)
EXTENDS Replayer

MCOtherCalls == {"write"}

R(ret_, mem_) == [ret |-> ret_, mem |-> mem_]

\* A failed, a short and a long read (MaxReadLen is 2); one random byte
\* or another; a time that is given and one that is refused; a write that works or
\* fails.
MCLiveResults ==
  [c \in Calls \ {"exit_group"} |->
     CASE c = "read" -> {R(-1, <<0, 0>>), R(1, <<1, 1>>), R(3, <<0, 1, 1>>)}
       [] c = "getrandom" -> {R(1, <<0>>), R(1, <<1>>)}
       [] c \in TimeCalls -> {R(0, <<1>>), R(-1, <<0>>)}
       [] OTHER -> {R(1, <<>>), R(-1, <<>>)}]

\* Fewer, for longer behaviours: a read that fails or gets a byte.
FewLiveResults == [MCLiveResults EXCEPT !["read"] = {R(-1, <<0, 0>>), R(1, <<1, 1>>)}]

\* What a program has observed at its exit, if it exits within four syscalls.
Observed(NextOf(_), results) ==
  LET grow(h) ==
        IF NextOf(h) \in {"exit_group", "fault"} THEN {h}
        ELSE {Append(h, Observation(NextOf(h), r.ret, r.mem)) : r \in results[NextOf(h)]}
      within[n \in 0 .. 4] == IF n = 0 THEN {<< >>} ELSE UNION {grow(h) : h \in within[n - 1]}
  IN  {h \in within[4] : NextOf(h) = "exit_group"}

\* Writes and, by what that returned, reads and takes a random number, or takes one
\* and then, by its value, another one or the time.
Branching(h) ==
  CASE Len(h) = 0 -> "write"
    [] Len(h) = 1 -> IF h[1].ret > 0 THEN "read" ELSE "getrandom"
    [] Len(h) = 2 -> IF (IF h[1].ret > 0 THEN h[2].ret > 0 ELSE h[2].data = << 1 >>)
                     THEN "getrandom" ELSE "clock_gettime"
    [] OTHER -> "exit_group"

\* Two reads, as of a loader and of the program it loads, and a write.
TwoReads(h) ==
  CASE Len(h) < 2 -> "read"
    [] Len(h) = 2 -> "write"
    [] OTHER -> "exit_group"

\* Writes; asks for the time if that worked, for a random byte if not.
Unsteady(h) ==
  CASE Len(h) = 0 -> "write"
    [] Len(h) = 1 -> IF h[1].ret = 1 THEN "gettimeofday" ELSE "getrandom"
    [] OTHER -> "exit_group"

BranchingTraces == {RecordedTrace(h) : h \in Observed(Branching, MCLiveResults)}
TwoReadsTraces == {RecordedTrace(h) : h \in Observed(TwoReads, MCLiveResults)}
UnsteadyTraces == {RecordedTrace(h) : h \in Observed(Unsteady, MCLiveResults)}

\* The hook's lines stand between the recorder's, here above the last one.
Hooked(t) ==
  [t EXCEPT !.lines = SubSeq(@, 1, Len(@) - 1) \o << SyncLine(1), @[Len(@)] >>]

\* The disk was full when the recorder flushed the last payload.
Truncated(t) == [t EXCEPT !.bytes = IF @ = << >> THEN @ ELSE SubSeq(@, 1, Len(@) - 1)]

\* Recorded into a directory that held a recording: its lines stay, above the new ones,
\* and its payloads do not.
Recorded == CHOOSE t \in BranchingTraces : t.bytes # << >>
Rerecorded(t) == [t EXCEPT !.lines = Recorded.lines \o @]

\* The intact recordings of two bytes: a read and a random number, two random numbers, a
\* random number and a time.
Intact == {t \in BranchingTraces : Len(t.bytes) = 2}

\* These, one whose read is long and is not loaded, and one of the first kind cut short,
\* with the hook's lines, recorded second.
DamagedTraces ==
  LET t == CHOOSE u \in Intact : u.result.observed[2].call = "read"
      long == CHOOSE u \in BranchingTraces : Len(u.bytes) = 4
  IN  Intact \cup {long, Truncated(t), Hooked(t), Rerecorded(t)}

\* --out may be new, or hold the finished replay of another recording.
NewOnly == {[lines |-> << >>, bytes |-> << >>, result |-> NoResult]}
UsedOnly == {Recorded}
=============================================================================
