------------------------------- MODULE Recording -------------------------------
(***************************************************************************)
(* What a recording is: the contents events.jsonl and payload.bin must have  *)
(* when the target, watched from its start to its exit, observed h.  It is   *)
(* the contract between the two programs: the recorder is checked to leave   *)
(* it, and the replayer is checked on the directories it describes.          *)
(***************************************************************************)
EXTENDS Trace

\* The data of the first k observations, back to back.
RecordedBytes(h) ==
  LET upTo[k \in 0 .. Len(h)] ==
        IF k = 0 THEN << >> ELSE upTo[k - 1] \o h[k].data
  IN  upTo[Len(h)]

RecordedRef(h, k) ==
  IF h[k].data = << >> THEN NoRef
  ELSE Ref(Len(RecordedBytes(SubSeq(h, 1, k - 1))), h[k].data)

\* program_start, one line per result in the order observed, program_exit.
RecordedBodies(h) ==
  [i \in 1 .. Len(h) + 2 |->
     IF i = 1 THEN ProcessBody("program_start", 1)
     ELSE IF i = Len(h) + 2 THEN ProcessBody("program_exit", i)
     ELSE SyscallBody(h[i - 1].call, i, h[i - 1].ret, RecordedRef(h, i - 1))]

RecordedLines(h) ==
  LET bodies == RecordedBodies(h)
  IN  [i \in 1 .. Len(h) + 2 |-> Line(SubSeq(bodies, 1, i - 1), bodies[i])]

\* The directory: the two files, and in result.json what the target observed,
\* which stands for the exit code and the hashes of what it printed.
RecordedTrace(h) ==
  [lines |-> RecordedLines(h), bytes |-> RecordedBytes(h),
   result |-> [stored |-> TRUE, signal |-> 0, observed |-> h]]

(***************************************************************************)
(* The same of the lines alone, whatever else stands between them and however *)
(* the target ended: one line for each observation, in order, with the length *)
(* and hash of its data, and no other references.                             *)
(***************************************************************************)
Telling(body, o) ==
  /\ body.etype = "SYSCALL" /\ body.name = o.call /\ body.ret = o.ret
  /\ body.payload_ref.length = Len(o.data) /\ body.payload_ref.sha256 = o.data
  /\ Len(o.data) = PayloadLen(o.call, o.ret)
Transcribes(lines, h) ==
  LET told == {n \in DOMAIN lines : lines[n].body.etype = "SYSCALL"}
  IN  /\ \A n \in DOMAIN lines \ told : lines[n].body.payload_ref = NoRef
      /\ \E at \in [DOMAIN h -> told] :
           /\ \A k, l \in DOMAIN h : k < l => at[k] < at[l]
           /\ \A n \in told : \E k \in DOMAIN h : at[k] = n
           /\ \A k \in DOMAIN h : Telling(lines[at[k]].body, h[k])

=============================================================================
