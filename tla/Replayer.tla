------------------------------- MODULE Replayer -------------------------------
(***************************************************************************)
(* replayer/ptrace_replayer.c: adr-replayer loads the results of a recording,*)
(* runs the target under ptrace again, lets the kernel execute every syscall,*)
(* and overwrites the result of a replayable one with the next recorded      *)
(* result of its kind.  It writes a trace directory of its own.              *)
(*                                                                          *)
(* drifted is 0 from main()'s first line to its last: emit_drift has no      *)
(* caller, and the branch that would detach and write exit code 255 is dead, *)
(* although README.md:9 says of a replay that it detects syscall drift.  The *)
(* model has no action for them.                                            *)
(***************************************************************************)
EXTENDS Target, Recording, SequencesExt

CONSTANTS
  Traces,    \* the directories --trace may name
  Leftovers  \* what --out may hold already: a new directory, or an earlier replay's

\* result.json, of the recording or of the replay.
NoResult == [stored |-> FALSE, signal |-> 0, observed |-> << >>]
ResultType == [stored : BOOLEAN, signal : {0, 9}, observed : Seq(ObservationType)]

DirectoryType ==
  [lines : Seq(LineType), bytes : Seq(Byte), result : ResultType]

ASSUME ReplayerAssumption ==
  Traces \subseteq DirectoryType /\ Leftovers \subseteq DirectoryType

VARIABLES
  trace,      \* the directory being replayed
  line,       \* lines of its events.jsonl read so far
  items,      \* replay_events
  events,     \* the output directory's events.jsonl
  payload,    \* its payload.bin, with the bytes that are still in stdio's buffer
  result,     \* its result.json
  pc,         \* where main() is
  in_syscall,
  entry,      \* entry.syscall_no
  shown,      \* the local ret: the result main() will write to the trace
  active,     \* the index in items of the event being injected, 0 for NULL
  cursor,     \* items consumed
  seq,
  prev_hash,
  missed,     \* history: the lines of injections that did not reach the program
  unsaved     \* history: the lines whose bytes did not reach payload.bin, 0 for fclose

diskVars == << events, payload, result >>
loadVars == << trace, line, items >>
writerVars == << seq, prev_hash >>
historyVars == << missed, unsaved >>
loopVars == << in_syscall, entry, shown, active, cursor, historyVars >>
vars == << targetVars, diskVars, loadVars, pc, writerVars, loopVars >>

Active == {"load", "opened", "attach", "resume", "wait", "stopped", "inject", "emit",
           "exited", "signalled", "close"}
Over == {"done", "failed", "crashed"}

TypeOK ==
  /\ TargetTypeOK
  /\ trace \in DirectoryType
  /\ line \in 0 .. Len(trace.lines)
  /\ items \in Seq(BodyType)
  /\ events \in Seq(LineType)
  /\ payload \in Seq(Byte)
  /\ result \in ResultType
  /\ pc \in Active \cup Over
  /\ in_syscall \in BOOLEAN
  /\ entry \in Calls
  /\ shown \in Int
  /\ active \in 0 .. Len(items)
  /\ cursor \in 0 .. Len(items)
  /\ seq \in Nat
  /\ prev_hash \in HashType
  /\ missed \subseteq Nat
  /\ unsaved \subseteq Nat

Init ==
  /\ TargetInit
  /\ trace \in Traces
  /\ line = 0
  /\ items = << >>
  /\ \E d \in Leftovers : events = d.lines /\ payload = d.bytes /\ result = d.result
  /\ pc = "load"
  /\ in_syscall = FALSE
  /\ entry = "read"
  /\ shown = 0
  /\ active = 0
  /\ cursor = 0
  /\ seq = 0
  /\ prev_hash = << >>
  /\ missed = {}
  /\ unsaved = {}

(***************************************************************************)
(* load_replay_events.                                                      *)
(***************************************************************************)
\* should_load_replay_event: a read without a payload, or with a long one, is
\* not loaded.  Only the payload's length tells it the loader's reads.
ShouldLoad(body) ==
  body.name = "read" => body.payload_ref.length \in 1 .. MaxReadLen

Replayable(body) ==
  body.etype = "SYSCALL" /\ body.name \in PayloadCalls /\ ShouldLoad(body)

LoadLine ==
  /\ pc = "load"
  /\ line < Len(trace.lines)
  /\ line' = line + 1
  /\ LET body == trace.lines[line'].body
     IN  items' = IF Replayable(body) THEN Append(items, body) ELSE items
  /\ UNCHANGED << targetVars, diskVars, trace, pc, writerVars, loopVars >>

\* Seeded fault: payload.bin is appended to, as events.jsonl is.
LoadedAppends ==
  /\ pc = "load"
  /\ line = Len(trace.lines)
  /\ pc' = "opened"
  /\ UNCHANGED << targetVars, diskVars, loadVars, writerVars, loopVars >>

\* The end of the file.  In a directory used before, events.jsonl is then appended to,
\* payload.bin truncated, and result.json stays until write_result.
Loaded ==
  /\ pc = "load"
  /\ line = Len(trace.lines)
  /\ payload' = << >>
  /\ pc' = "opened"
  /\ UNCHANGED << targetVars, events, result, loadVars, writerVars, loopVars >>

\* Without --target, and without a target in metadata.json, main returns 1.
TargetUnknown ==
  /\ "metadata" \in Faults
  /\ pc = "load"
  /\ line = 0
  /\ pc' = "failed"
  /\ UNCHANGED << targetVars, diskVars, loadVars, writerVars, loopVars >>

\* A file cannot be opened, memory runs out or fork fails: main returns 1.
StartFails ==
  /\ "start" \in Faults
  /\ pc \in {"load", "opened"}
  /\ pc' = "failed"
  /\ UNCHANGED << targetVars, diskVars, loadVars, writerVars, loopVars >>

(***************************************************************************)
(* The loop, as in the recorder.                                            *)
(***************************************************************************)
Emit(body) ==
  /\ events' = Append(events, Line(prev_hash, body))
  /\ prev_hash' = Append(prev_hash, body)
  /\ seq' = body.seq

EmitProcess(name) == Emit(ProcessBody(name, seq + 1))

Fork ==
  /\ pc = "opened"
  /\ TargetFork
  /\ pc' = "attach"
  /\ UNCHANGED << diskVars, loadVars, writerVars, loopVars >>

Attach ==
  /\ pc = "attach"
  /\ \/ tstate = "raised" /\ UNCHANGED targetVars
     \/ tstate = "killed" /\ ReapTarget
  /\ EmitProcess("program_start")
  /\ pc' = "resume"
  /\ UNCHANGED << payload, result, loadVars, loopVars >>

Resume ==
  /\ pc = "resume"
  /\ ResumeTarget
  /\ pc' = "wait"
  /\ UNCHANGED << diskVars, loadVars, writerVars, loopVars >>

PtraceFails ==
  /\ pc \in {"resume", "stopped"}
  /\ tstate \in {"killed", "reaped"}
  /\ pc' = "close"
  /\ UNCHANGED << targetVars, diskVars, loadVars, writerVars, loopVars >>

\* Seeded fault: only an exit ends the loop; a killed target is waited for again.
WaitExitOnly ==
  /\ pc = "wait"
  /\ tstate = "exited"
  /\ EmitProcess("program_exit")
  /\ pc' = "exited"
  /\ ReapTarget
  /\ UNCHANGED << payload, result, loadVars, loopVars >>

WaitDeath ==
  /\ pc = "wait"
  /\ tstate \in {"exited", "killed"}
  /\ EmitProcess(IF tstate = "exited" THEN "program_exit" ELSE "program_signal")
  /\ pc' = IF tstate = "exited" THEN "exited" ELSE "signalled"
  /\ ReapTarget
  /\ UNCHANGED << payload, result, loadVars, loopVars >>

WaitSignalStop ==
  /\ pc = "wait"
  /\ tstate = "signal"
  /\ pc' = "resume"
  /\ UNCHANGED << targetVars, diskVars, loadVars, writerVars, loopVars >>

WaitSyscallStop ==
  /\ pc = "wait"
  /\ tstate \in {"entry", "exitstop"}
  /\ pc' = "stopped"
  /\ UNCHANGED << targetVars, diskVars, loadVars, writerVars, loopVars >>

(***************************************************************************)
(* Choosing what to inject, at the entry, and injecting it, at the exit.    *)
(***************************************************************************)
\* Seeded fault: the next event is injected whatever the syscall is.
ChosenUnmatched(c) ==
  IF c \in PayloadCalls /\ cursor < Len(items) THEN cursor + 1 ELSE 0

\* The next recorded event, if it is one of the syscall just entered.  An event
\* that does not match stays where it is.
Chosen(c) ==
  IF c \in PayloadCalls /\ cursor < Len(items) /\ items[cursor + 1].name = c
  THEN cursor + 1 ELSE 0

AtEntry ==
  /\ pc = "stopped"
  /\ tstate \in Stopped
  /\ ~in_syscall
  /\ entry' = call
  /\ active' = Chosen(call)
  /\ in_syscall' = TRUE
  /\ pc' = "resume"
  /\ UNCHANGED << targetVars, diskVars, loadVars, writerVars, shown, cursor, historyVars >>

AtExit ==
  /\ pc = "stopped"
  /\ tstate \in Stopped
  /\ in_syscall
  /\ shown' = ret
  /\ pc' = IF active = 0 THEN "emit" ELSE "inject"
  /\ UNCHANGED << targetVars, diskVars, loadVars, writerVars, in_syscall, entry, active, cursor,
                  historyVars >>

\* read_payload: fseek and fread of the recording's payload.bin, which fails
\* when the file is too short.  What it reads is not hashed.
Readable(ref) == ref.offset + ref.length <= Len(trace.bytes)
RecordedData(ref) == Slice(trace.bytes, ref.offset, ref.length)

\* Seeded faults: nothing is written; the last byte is not.
OverlayNothing(m, data) == m
OverlayShort(m, data) ==
  [i \in 1 .. (IF Len(m) < Len(data) THEN Len(data) ELSE Len(m)) |->
     IF i < Len(data) \/ i \notin DOMAIN m THEN data[i] ELSE m[i]]

\* What write_child_mem has written, over the start of the caller's buffer.
Overlay(m, data) ==
  [i \in 1 .. (IF Len(m) < Len(data) THEN Len(data) ELSE Len(m)) |->
     IF i <= Len(data) THEN data[i] ELSE m[i]]

\* Seeded faults: the event stays the next one; it is counted twice.
ConsumeNothing == cursor' = cursor
ConsumeTwo == cursor' = cursor + 2

\* ++cursor: an injected event is spent, whether or not it could be injected.
Consume == cursor' = cursor + 1

\* How many of n bytes write_child_mem writes.  process_vm_writev may return short, the
\* loop that takes over when it fails ends at the first word that cannot be written,
\* and a target just killed has no memory.
Written(n) ==
  IF tstate = "killed" THEN {0} ELSE IF "inject" \in Faults THEN 0 .. n ELSE {n}

\* Whether PTRACE_SETREGS sets the result register.
RegsSet ==
  IF tstate = "killed" THEN {FALSE} ELSE IF "inject" \in Faults THEN BOOLEAN ELSE {TRUE}

\* How many of n bytes fwrite and fclose take: fewer when the disk is full.
Accepted(n) == IF "payload" \in Faults THEN 0 .. n ELSE {n}

\* main looks at none of the three results, and goes on as if all had been done.  The
\* line to come, seq + 1, is missed if a live target did not get all of it.
Inject ==
  /\ pc = "inject"
  /\ LET item == items[active]
         data == RecordedData(item.payload_ref)
     IN  /\ item.payload_ref.length > 0 => Readable(item.payload_ref)
         /\ \E n \in Written(Len(data)), set \in RegsSet :
              /\ mem' = Overlay(mem, Take(data, n))
              /\ ret' = IF set THEN item.ret ELSE ret
              /\ missed' = IF tstate = "killed" \/ (n = Len(data) /\ set) THEN missed
                           ELSE missed \cup {seq + 1}
         /\ \E n \in Accepted(Len(data)) :
              /\ payload' = payload \o Take(data, n)
              /\ unsaved' = IF n = Len(data) THEN unsaved ELSE unsaved \cup {seq + 1}
         /\ shown' = item.ret
  /\ Consume
  /\ pc' = "emit"
  /\ UNCHANGED << tstate, hist, call, signals, events, result, loadVars, writerVars,
                  in_syscall, entry, active >>

\* The payload cannot be read: payload.bin is missing or too short, or cannot be
\* opened, or memory runs out.  The live result stands, and the event counts as
\* consumed all the same.
InjectFails ==
  /\ pc = "inject"
  /\ items[active].payload_ref.length > 0
  /\ Readable(items[active].payload_ref) => "inject" \in Faults
  /\ missed' = missed \cup {seq + 1}
  /\ unsaved' = unsaved \cup {seq + 1}
  /\ Consume
  /\ pc' = "emit"
  /\ UNCHANGED << targetVars, diskVars, loadVars, writerVars, in_syscall, entry, shown, active >>

\* Seeded fault: the injected event is not passed on.
EmittedRefNone == NoRef

\* The payload_ref of a replayed syscall: the length and the hash the recording
\* claims, at the offset ftell gives now.
EmittedRef ==
  IF active = 0 \/ items[active].payload_ref.length = 0 THEN NoRef
  ELSE [items[active].payload_ref EXCEPT !.offset = Len(payload)]

EmitSyscall ==
  /\ pc = "emit"
  /\ Emit(SyscallBody(entry, seq + 1, shown, EmittedRef))
  /\ in_syscall' = FALSE
  /\ pc' = "resume"
  /\ UNCHANGED << targetVars, payload, result, loadVars, entry, shown, active, cursor,
                  historyVars >>

WriteResult ==
  /\ pc \in {"exited", "signalled"}
  /\ result' = [stored |-> TRUE, signal |-> IF pc = "exited" THEN 0 ELSE 9,
                observed |-> hist]
  /\ pc' = "close"
  /\ UNCHANGED << targetVars, events, payload, loadVars, writerVars, loopVars >>

\* main does not look: result.json is what it was, or is truncated and not written.
WriteResultFails ==
  /\ "result" \in Faults
  /\ pc \in {"exited", "signalled"}
  /\ result' \in {result, NoResult}
  /\ pc' = "close"
  /\ UNCHANGED << targetVars, events, payload, loadVars, writerVars, loopVars >>

\* fclose writes what stdio still holds of payload.bin; main does not look.
Close ==
  /\ pc = "close"
  /\ \E n \in Accepted(Len(payload)) :
       /\ payload' = Take(payload, n)
       /\ unsaved' = IF n = Len(payload) THEN unsaved ELSE unsaved \cup {0}
  /\ pc' = "done"
  /\ UNCHANGED << targetVars, events, result, loadVars, writerVars, in_syscall, entry, shown,
                  active, cursor, missed >>

ReplayerStep ==
  \/ LoadLine \/ Loaded \/ Fork \/ Attach \/ Resume \/ PtraceFails
  \/ WaitDeath \/ WaitSignalStop \/ WaitSyscallStop
  \/ AtEntry \/ AtExit \/ Inject \/ InjectFails \/ EmitSyscall
  \/ WriteResult \/ WriteResultFails \/ Close

(***************************************************************************)
(* The environment.                                                         *)
(***************************************************************************)
\* emit_line flushes events.jsonl, nothing flushes payload.bin: what stdio has not
\* written out of its own accord is lost.
Crash ==
  /\ "crash" \in Faults
  /\ pc \in Active
  /\ DetachTarget
  /\ IF pc = "load" THEN payload' = payload
     ELSE \E n \in 0 .. Len(payload) : payload' = Take(payload, n)
  /\ pc' = "crashed"
  /\ UNCHANGED << events, result, loadVars, writerVars, loopVars >>

TargetMoves ==
  /\ TargetNext
  /\ UNCHANGED << diskVars, loadVars, pc, writerVars, loopVars >>

Next == ReplayerStep \/ TargetUnknown \/ StartFails \/ TargetMoves \/ Crash

Spec == Init /\ [][Next]_vars

\* As for the recorder: only the tracer, the target and the kernel are fair.
Fairness == WF_vars(ReplayerStep) /\ WF_vars(TargetRuns /\ TargetMoves)
FairSpec == Spec /\ Fairness

(***************************************************************************)
(* Properties.                                                              *)
(***************************************************************************)
\* The lines this replayer has written: in a directory used before, the last ones.
OwnLines == SubSeq(events, Len(events) - seq + 1, Len(events))
Exited == seq # 0 /\ OwnLines[seq].body = ProcessBody("program_exit", seq)

\* h is what the program observes from its start to its exit.
Ran(h) ==
  /\ \A k \in DOMAIN h :
       /\ h[k].call = Upcoming(SubSeq(h, 1, k - 1)) /\ h[k].call # "exit_group"
       /\ Len(h[k].data) = PayloadLen(h[k].call, h[k].ret)
  /\ Upcoming(h) = "exit_group"

\* A recording of the program whose reads the replayer loads, every one.
Original == trace.result.observed
Covered ==
  /\ Ran(Original)
  /\ trace = RecordedTrace(Original)
  /\ \A k \in DOMAIN Original :
       Original[k].call = "read" => Len(Original[k].data) \in 1 .. MaxReadLen

\* The syscalls that are not replayed have so far given the recorded results.
Reproducible ==
  \A k \in DOMAIN hist \cap DOMAIN Original :
    hist[k].call \in OtherCalls /\ hist[k].call = Original[k].call
      => hist[k].ret = Original[k].ret

\* The replay of a covered recording is deterministic: whatever results the
\* kernel gives this time, whatever signals arrive and whatever is killed, the
\* program observes, one by one, what it observed when it was recorded, and if
\* it exits it has observed all of it; unless an injection did not reach it.
ReplaysRecording ==
  Covered /\ Reproducible /\ missed = {} =>
    /\ IsPrefix(hist, Original)
    /\ Exited => hist = Original

\* An event is injected where it was recorded: the result about to be injected
\* into the n-th syscall is the recorded result of the n-th syscall.
InjectedInPlace ==
  pc = "inject" /\ Covered /\ Reproducible /\ missed = {} => items[active].seq = seq + 1

\* The recording's payloads can be read back.
PayloadsReadable ==
  \A i \in DOMAIN trace.lines : Addresses(trace.bytes, trace.lines[i].body.payload_ref)

\* A reference has the length of its result: payload_len, as in the lines the recorder
\* writes.
RefsFit ==
  \A i \in DOMAIN trace.lines :
    LET body == trace.lines[i].body
    IN  body.payload_ref.length > 0 => body.payload_ref.length = PayloadLen(body.name, body.ret)

\* The replay's own trace tells what the program saw, however it strays: the k-th
\* result is in line k + 1, and at the end there is no other syscall line.  While the
\* recording's payloads can be read and fit their results, and unless its injection
\* did not reach the program, the line has the result and the hash of the bytes seen.
LinesMatchHistory ==
  PayloadsReadable /\ RefsFit =>
    /\ \A k \in DOMAIN hist :
         LET body == OwnLines[k + 1].body
         IN  /\ << body.etype, body.name >> = << "SYSCALL", hist[k].call >>
             /\ k + 1 \notin missed =>
                  /\ body.ret = hist[k].ret
                  /\ body.payload_ref.length > 0 => body.payload_ref.sha256 = hist[k].data
    /\ Exited => seq = Len(hist) + 2

\* The recorded results are spent in order, none twice and none skipped, on
\* syscalls of their own kind, however the replay strays from the recording:
\* the payloads of the lines it writes are those of the spent items.
Payloads(bodies) ==
  LET of[n \in 0 .. Len(bodies)] ==
        IF n = 0 THEN << >>
        ELSE IF bodies[n].payload_ref.length > 0
        THEN Append(of[n - 1], << bodies[n].name, bodies[n].payload_ref.sha256 >>)
        ELSE of[n - 1]
  IN  of[Len(bodies)]
SpentInOrder ==
  LET replayed == Payloads([i \in DOMAIN OwnLines |-> OwnLines[i].body])
      spent == Payloads(SubSeq(items, 1, cursor))
  IN  IsPrefix(replayed, spent) /\ (pc \notin {"emit", "crashed"} => replayed = spent)

\* A replay's references stand at the end of their bytes, not at their beginning as a
\* recording's do, and every byte of payload.bin belongs to one: nothing of an earlier
\* replay into the directory is left between them.  After a crash the file may be
\* short, of a reference's bytes or of all: what it has is in its place.
RefsEndTheirBytes ==
  LET ref(n) == OwnLines[n].body.payload_ref
      refs == {n \in DOMAIN OwnLines : ref(n).length > 0}
      from(n) == ref(n).offset - ref(n).length
      ends(n) == {0} \cup {ref(m).offset : m \in {k \in refs : k < n}}
  IN  PayloadsReadable /\ unsaved = {} => \A n \in refs :
        /\ from(n) \in ends(n) /\ \A e \in ends(n) : e <= from(n)
        /\ pc # "crashed" => ref(n).offset <= Len(payload)
        /\ \A i \in 1 .. ref(n).length :
             from(n) + i <= Len(payload) => payload[from(n) + i] = ref(n).sha256[i]

\* Liveness.  A replay of a target that neither hangs nor faults ends, whatever
\* the recording holds and whether or not the target follows it.
Finishes == (pc \in Active) ~> (pc \in Over)

(***************************************************************************)
(* What the documentation says of the replay; the code does not keep these. *)
(***************************************************************************)
\* replayer/ptrace_replayer.c:70: leaving long reads out of the loaded events
\* avoids corrupting the dynamic loader's reads: where the recording has a read
\* that is not loaded, the replay injects nothing.
LoaderReadsLeftAlone ==
  pc = "inject" /\ seq + 1 \in DOMAIN trace.lines =>
    LET recorded == trace.lines[seq + 1].body
    IN  ~(recorded.etype = "SYSCALL" /\ recorded.name = "read" /\ ~ShouldLoad(recorded))

\* docs/trace_schema_v1.md:32-42: the reference of 16 bytes that the schema shows has
\* offset 0, so a reference's bytes begin at its offset, in this trace as in a recording.
RefsBeginTheirBytes ==
  pc = "done" => \A i \in DOMAIN OwnLines : Addresses(payload, OwnLines[i].body.payload_ref)

=============================================================================
