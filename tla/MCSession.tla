------------------------------ MODULE MCSession ------------------------------
(***************************************************************************)
(* Small instances of a session: the replayer's programs, more directories,  *)
(* and two ways for a program to show what it has observed.                  *)
(***************************************************************************)
EXTENDS Session, MCReplayer

\* A line on stdout for every syscall, whatever it got.
Lines(h) == [exit_code |-> 0, stdout |-> Len(h), stderr |-> 0]

\* A line for every syscall, on stdout if it worked and on stderr if not; the
\* program fails if the last one did.
Diagnostics(h) ==
  LET failed == {k \in DOMAIN h : h[k].ret < 0}
  IN  [exit_code |-> IF Len(h) \in failed THEN 1 ELSE 0,
       stdout |-> Len(h) - Cardinality(failed), stderr |-> Cardinality(failed)]

\* The target was killed at its last syscall, or in a ptrace stop: then there is no
\* program_signal line and no result.json.
Shortened(t) == [t EXCEPT !.lines = SubSeq(@, 1, Len(@) - 1)]
Signalled(t) ==
  LET n == Len(t.lines)
  IN  [t EXCEPT !.lines = Append(Shortened(t).lines,
                                 Line(t.lines[n].prev_hash, ProcessBody("program_signal", n))),
                !.result.signal = 9]
Unfinished(t) == [Shortened(t) EXCEPT !.result = NoResult]

\* Reads; when it got something takes a random number and, by its value, writes or
\* reads again, else writes and, if that worked, asks for the time.
Wavering(h) ==
  CASE Len(h) = 0 -> "read"
    [] Len(h) = 1 -> IF h[1].ret > 0 THEN "getrandom" ELSE "write"
    [] Len(h) = 2 /\ h[2].ret > 0 ->
         IF h[1].ret < 0 THEN "clock_gettime" ELSE IF h[2].data = << 1 >> THEN "write" ELSE "read"
    [] OTHER -> "exit_group"

\* A program's runs, one of them with a long read, and directories of each kind: of a
\* run of which the verifier checks something, and of one of which it checks nothing.
MCTraces ==
  LET recordings(results) == {RecordedTrace(h) : h \in Observed(Wavering, results)}
      long == CHOOSE t \in recordings(MCLiveResults) :
                \E n \in DOMAIN t.lines : t.lines[n].body.payload_ref.length > MaxReadLen
      some == CHOOSE t \in recordings(FewLiveResults) : Len(t.bytes) = 2
      idle == CHOOSE t \in recordings(FewLiveResults) : Len(t.result.observed) = 2
  IN  recordings(FewLiveResults)
      \cup {long, Hooked(some), Hooked(idle), Signalled(some), Unfinished(idle)}
=============================================================================
