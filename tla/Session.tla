------------------------------- MODULE Session -------------------------------
(***************************************************************************)
(* adr replay and then adr verify: a recording is replayed by Replayer, and  *)
(* Verifier compares the two directories when the replayer has ended, in     *)
(* whatever way it ended.                                                   *)
(***************************************************************************)
EXTENDS Replayer, Verifier

VARIABLES
  report,   \* "none", or what adr verify said: "pass", "fail", or "error"
  mismatch  \* index in first_mismatch, from 1; 0 when it is null

sessionVars == << vars, report, mismatch >>

SessionTypeOK ==
  /\ report \in {"none", "pass", "fail", "error"}
  /\ mismatch \in Nat

SessionInit ==
  /\ Init
  /\ report = "none"
  /\ mismatch = 0

\* verify: without a result.json load_json raises and there is no verdict.
Verify ==
  /\ pc \in Over
  /\ report = "none"
  /\ LET a == LoadEvents(trace.lines)
         b == LoadEvents(events)
     IN  IF ~trace.result.stored \/ ~result.stored THEN report' = "error" /\ mismatch' = 0
         ELSE /\ report' = Verdict(Checks(trace.result, result, a, b))
              /\ mismatch' = FirstSequenceMismatch(a, b)
  /\ UNCHANGED vars

Replay == Next /\ UNCHANGED << report, mismatch >>

SessionNext == Replay \/ Verify

SessionSpec == SessionInit /\ [][SessionNext]_sessionVars

(***************************************************************************)
(* Properties.                                                              *)
(***************************************************************************)
\* The results that a recording has and that the verifier looks at.
Seen(h) ==
  {k \in DOMAIN h :
     h[k].call \in PayloadCalls /\ (h[k].call = "read" => Len(h[k].data) \in 1 .. MaxReadLen)}

\* A pass is sound.  The program ended with the status it had ended with, printed what
\* it had printed, asked for random numbers and times as often as recorded, and got
\* the recorded ones; among its reads are all the short reads of the recording, in
\* order and with their bytes.  Only of a result whose injection did not reach the
\* program, which the replayer does not notice, the pass tells no more than that it was
\* asked for.  The verdict is on two files; this is on what the two processes observed.
VerdictSound ==
  report = "pass" /\ PayloadsReadable =>
    /\ trace.result.stored /\ result.stored
    /\ Outcome([result EXCEPT !.observed = hist]).exit_code = Outcome(trace.result).exit_code
    /\ Output(hist).stdout = Output(Original).stdout
    /\ \E at \in [Seen(Original) -> DOMAIN hist] :
         /\ \A k, l \in Seen(Original) : k < l => at[k] < at[l]
         /\ \A k \in Seen(Original) :
              /\ hist[at[k]].call = Original[k].call
              /\ at[k] + 1 \notin missed => hist[at[k]] = Original[k]
         /\ \A n \in DOMAIN hist : hist[n].call \in {"getrandom"} \cup TimeCalls =>
              \E k \in Seen(Original) : at[k] = n

\* A pass is not withheld: the replay of a covered recording whose other syscalls
\* are reproducible passes if the program came to its end and was given every
\* recorded result.
VerdictComplete ==
  report = "fail" /\ Covered /\ Reproducible /\ missed = {} => result.signal # 0

\* The report points at the first drift: the checked events before the mismatch are
\* the same in both sequences, and those at it are not, or one of them is missing.
ComparedEvents(lines) ==
  LET checked == CheckedEvents(LoadEvents(lines))
  IN  [i \in DOMAIN checked |-> Comparable(checked[i])]
MismatchIsFirst ==
  report \in {"pass", "fail"} =>
    LET a == ComparedEvents(trace.lines)
        b == ComparedEvents(events)
        shared == DOMAIN a \cap DOMAIN b
    IN  IF a = b THEN mismatch = 0
        ELSE /\ mismatch # 0
             /\ \A i \in 1 .. mismatch - 1 : i \in shared /\ a[i] = b[i]
             /\ mismatch \in shared => a[mismatch] # b[mismatch]

(***************************************************************************)
(* What the documentation says of the verdict; the code does not keep these. *)
(***************************************************************************)
\* docs/property_mapping.md:8, T1: a pass tells, by the payload hashes, that times
\* and random numbers were reproduced, whatever has become of the recording.
Chance(h) == SelectSeq(h, LAMBDA o : o.call \in {"getrandom"} \cup TimeCalls)
PassMeansReproduced ==
  report = "pass" => Chance(hist) = Chance(Original)

\* docs/property_mapping.md:6, D2: a pass tells that the checked events of the two
\* events.jsonl are the same ones in the same order, whatever the target's name.
SyscallLines(lines) ==
  SelectSeq([i \in DOMAIN lines |-> lines[i].body], IsChecked)
PassMeansSameEvents ==
  report = "pass" =>
    LET a == SyscallLines(trace.lines)
        b == SyscallLines(events)
    IN  Len(a) = Len(b) /\ \A i \in DOMAIN a : Comparable(a[i]) = Comparable(b[i])
=============================================================================
