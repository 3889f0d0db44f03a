------------------------------- MODULE Verifier -------------------------------
(***************************************************************************)
(* verifier/verifier.py: the comparison of the recording with its replay.   *)
(* It reads the two directories once, when neither is being written, so it   *)
(* is a function of them.                                                   *)
(*                                                                          *)
(* syscall_no is a bijection of the name and errno a function of ret, so a   *)
(* comparable event is a tuple of four.                                      *)
(***************************************************************************)
EXTENDS Trace

CONSTANTS
  TargetQuoted,  \* the target's path has a character that JSON must escape
  Output(_)      \* the program's exit code, stdout and stderr, by its observations

ASSUME VerifierAssumption == TargetQuoted \in BOOLEAN

(***************************************************************************)
(* load_events.                                                             *)
(***************************************************************************)
\* Whether json.loads takes a line.  emit_process writes the target's path into
\* its lines as it stands (adr_json_escape is not used there).
Decodable(l) == TargetQuoted => l.body.etype # "PROCESS"

TraceError(n) == Body("TRACE_ERROR", "json_decode_error", n, 0, NoRef)

\* The events up to the first line that is not JSON; that line becomes a
\* TRACE_ERROR and ends the list.
LoadEvents(lines) ==
  LET broken == {n \in DOMAIN lines : ~Decodable(lines[n])}
      first == CHOOSE n \in broken : \A m \in broken : n <= m
  IN  IF broken = {} THEN [i \in DOMAIN lines |-> lines[i].body]
      ELSE [i \in 1 .. first |-> IF i < first THEN lines[i].body ELSE TraceError(first)]

(***************************************************************************)
(* checked_events, comparable_event, first_sequence_mismatch.               *)
(***************************************************************************)
\* A read without a payload, or with a long one, is not compared.
IsChecked(ev) ==
  \/ ev.etype = "DRIFT"
  \/ ev.etype = "SYSCALL" /\ ev.name \in {"getrandom"} \cup TimeCalls
  \/ ev.etype = "SYSCALL" /\ ev.name = "read" /\ ev.payload_ref.length \in 1 .. MaxReadLen

CheckedEvents(events) ==
  LET kept[n \in 0 .. Len(events)] ==
        IF n = 0 THEN << >>
        ELSE IF IsChecked(events[n]) THEN Append(kept[n - 1], events[n])
        ELSE kept[n - 1]
  IN  kept[Len(events)]

Comparable(ev) == << ev.etype, ev.name, ev.ret, ev.payload_ref.sha256 >>

Limit(aa, bb) == IF Len(aa) <= Len(bb) THEN Len(aa) ELSE Len(bb)

Differences(aa, bb) ==
  {i \in 1 .. Limit(aa, bb) : Comparable(aa[i]) # Comparable(bb[i])}

\* Seeded faults: -1 for none, places from 0; lengths are compared first.
FirstDifferenceFind(aa, bb) ==
  IF Differences(aa, bb) # {}
  THEN (CHOOSE i \in Differences(aa, bb) : \A j \in Differences(aa, bb) : i <= j) - 1
  ELSE IF Len(aa) # Len(bb) THEN Limit(aa, bb) ELSE -1
FirstDifferenceLengthFirst(aa, bb) ==
  IF Len(aa) # Len(bb) THEN Limit(aa, bb) + 1
  ELSE IF Differences(aa, bb) = {} THEN 0
  ELSE CHOOSE i \in Differences(aa, bb) : \A j \in Differences(aa, bb) : i <= j

\* The place of the first difference between two checked sequences, 0 for none.
FirstDifference(aa, bb) ==
  IF Differences(aa, bb) # {}
  THEN CHOOSE i \in Differences(aa, bb) : \A j \in Differences(aa, bb) : i <= j
  ELSE IF Len(aa) # Len(bb) THEN Limit(aa, bb) + 1
  ELSE 0

FirstSequenceMismatch(a, b) == FirstDifference(CheckedEvents(a), CheckedEvents(b))

\* original_seq and replay_seq: the number of the event at the mismatch; 0 is null.
SeqAt(events, place) ==
  LET checked == CheckedEvents(events)
  IN  IF place \in DOMAIN checked THEN checked[place].seq ELSE 0

(***************************************************************************)
(* verify.  An outcome is what a result.json holds: the exit code, which is  *)
(* 128 + the signal of a killed target, and the hashes of stdout and stderr. *)
(***************************************************************************)
Outcome(res) ==
  LET out == Output(res.observed)
  IN  [exit_code |-> IF res.signal = 0 THEN out.exit_code ELSE 128 + res.signal,
       stdout |-> out.stdout, stderr |-> out.stderr]

Checks(original_result, replay_result, original_events, replay_events) ==
  LET a == Outcome(original_result)
      b == Outcome(replay_result)
  IN  [exit_code |-> a.exit_code = b.exit_code,
       stdout_hash |-> a.stdout = b.stdout,
       stderr_hash |-> a.stderr = b.stderr,
       event_sequence |->
         /\ FirstSequenceMismatch(original_events, replay_events) = 0
         /\ \A i \in DOMAIN replay_events : replay_events[i].etype # "DRIFT"]

\* Seeded fault: the outcomes are reported but do not count.
VerdictOfEvents(checks) == IF checks.event_sequence THEN "pass" ELSE "fail"

Verdict(checks) == IF \A c \in DOMAIN checks : checks[c] THEN "pass" ELSE "fail"
=============================================================================
